---------------------------- MODULE InvoiceLedger ----------------------------
(***************************************************************************)
(* How the sums kept by three services agree: amount_paid and the payment  *)
(* rows of AP-2 (this service), the AP control account of GL-2, and the    *)
(* vendor balance of AP-1.  These are sums over sets.                      *)
(***************************************************************************)
EXTENDS InvoiceService, FiniteSetsExt

\* The payment rows of invoice i.
PaymentRows(i) == {p \in payments : p.inv = i}
RowSum(i) == MapThenSumSet(LAMBDA p : p.amount, PaymentRows(i))

\* Posted entries of GL-2; each credits the AP control account.
PostedEntries(type) ==
    {j \in JournalId : journals[j].type = type /\ journals[j].posted}
Credits(S) == MapThenSumSet(LAMBDA j : journals[j].credit, S)

\* The entries of one invoice.
EntriesOf(i, type) == {j \in JournalId : /\ journals[j].type = type
                                         /\ journals[j].inv = i}

PostedInvoices == {i \in InvoiceId : invoices[i].posted}
VendorBalance == MapThenSumSet(LAMBDA c : c.amount, balanceCalls)

Quiet == \A w \in Worker : At(w, "idle")

-----------------------------------------------------------------------------
(* What holds however requests overlap and fail                            *)

\* AP-1 may owe the vendor too much (a post repeated after a failure) but not
\* too little: its balance covers every posted invoice less what payments
\* GL-2 has posted.
BalanceCoversPosted ==
    VendorBalance >= MapThenSumSet(LAMBDA i : invoices[i].total, PostedInvoices)
                       - Credits(PostedEntries("ap_payment"))

-----------------------------------------------------------------------------
(* What holds when requests for one invoice do not overlap                 *)

\* amount_paid is the sum of the payment rows, the purpose of the trigger
\* update_invoice_payment_status (migrations/001_initial_schema.sql:182), and
\* so is what the next trigger will read, through cascaded deletes too.
AmountPaidIsSum ==
    \A i \in InvoiceId : /\ invoices[i].paid = RowSum(i)
                         /\ paidTotal[i] = RowSum(i)

\* The payments of an invoice never exceed its total, which the comparison in
\* RecordPayment is for (invoice_service.go:451).
NoOverpayment == \A i \in InvoiceId : RowSum(i) <= invoices[i].total

-----------------------------------------------------------------------------
(* What holds when, besides, nothing fails                                 *)

\* Between requests the books agree: AP-1's balance is what is due on posted
\* invoices, a posted invoice has one ap_invoice entry, which balances, and an
\* unposted one none, and its ap_payment entries add up to amount_paid.
Reconciled ==
    Quiet =>
        /\ VendorBalance = MapThenSumSet(Due, PostedInvoices)
        /\ \A i \in InvoiceId :
              /\ Cardinality(EntriesOf(i, "ap_invoice")) =
                    (IF invoices[i].posted THEN 1 ELSE 0)
              /\ \A j \in EntriesOf(i, "ap_invoice") :
                    journals[j].debit = journals[j].credit
              /\ Credits(EntriesOf(i, "ap_payment")) = invoices[i].paid

-----------------------------------------------------------------------------
(* What the documentation says and the code does not keep                  *)

\* "Posted invoices are immutable" (README.md:38): once posted, an invoice
\* stays posted or becomes paid, with the journal it was posted under.
PostedImmutable ==
    [][\A i \in InvoiceId :
          invoices[i].posted =>
              /\ invoices'[i].status \in {invoices[i].status, "paid"}
              /\ invoices'[i].journal = invoices[i].journal]_vars

=============================================================================
