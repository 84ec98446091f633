---------------------------- MODULE InvoiceSerial ----------------------------
(* InvoiceService implements InvoiceLifecycle as long as the requests for   *)
(* one invoice come one after the other, even when they fail half way.      *)
EXTENDS InvoiceService

Lifecycle == INSTANCE InvoiceLifecycle
    WITH stage <- [i \in InvoiceId |-> invoices[i].status],
         due <- [i \in InvoiceId |-> Due(i)]

\* The status column and the amount due move as the documented workflow says
\* (README.md:26-31): no skipped approval, no way back once approved, no
\* payment beyond the amount due, paid exactly when nothing is due.
RefinesLifecycle == Lifecycle!LifecycleSpec

=============================================================================
