\* Handlers that do not fail, and a shutdown at any time.
CONSTANTS
    InvoiceId = {i1, i2}
    Number = {n1, n2}
    Worker = {w1, w2}
    JournalId = {j1, j2, j3}
    PaymentId = {p1}
    Totals = {2}
    Nil = Nil
SPECIFICATION ServerSpec
CHECK_DEADLOCK FALSE
INVARIANT BooksClosed
PROPERTY PostCompletes
PROPERTY PaymentSettles
PROPERTY ShutdownEnds
