-------------------------- MODULE MCInvoiceService --------------------------
(* Small instances of InvoiceService for TLC.                              *)
EXTENDS InvoiceLedger, InvoiceSerial, TLC

\* Identifiers and workers are interchangeable in every safety property.
Symmetry == Permutations(InvoiceId) \cup Permutations(Number)
               \cup Permutations(Worker) \cup Permutations(JournalId)
               \cup Permutations(PaymentId)

=============================================================================
