\* Three requests at a time on one invoice, any of them failing anywhere.
CONSTANTS
    InvoiceId = {i1}
    Number = {n1}
    Worker = {w1, w2, w3}
    JournalId = {j1, j2, j3}
    PaymentId = {p1, p2}
    Totals = {0, 2}
    Nil = Nil
SPECIFICATION Spec
SYMMETRY Symmetry
CHECK_DEADLOCK FALSE
INVARIANT TypeOK
INVARIANT PostedIsBacked
INVARIANT PaymentsOnlyForPosted
INVARIANT PaymentEntriesBacked
INVARIANT PaidWithinPayments
INVARIANT PaidMeansFullyPaid
INVARIANT BalanceCoversPosted
PROPERTY DeletedOnlyDraft
