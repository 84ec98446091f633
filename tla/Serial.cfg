\* Two invoices, requests for one invoice never overlap but may fail.
CONSTANTS
    InvoiceId = {i1, i2}
    Number = {n1, n2}
    Worker = {w1, w2}
    JournalId = {j1, j2, j3}
    PaymentId = {p1, p2}
    Totals = {0, 2}
    Nil = Nil
SPECIFICATION SerialSpec
SYMMETRY Symmetry
CHECK_DEADLOCK FALSE
INVARIANT AmountPaidIsSum
INVARIANT NoOverpayment
PROPERTY RefinesLifecycle
