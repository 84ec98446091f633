\* A late write undoes a posted invoice.
CONSTANTS
    InvoiceId = {i1}
    Number = {n1}
    Worker = {w1, w2}
    JournalId = {j1, j2, j3}
    PaymentId = {p1, p2}
    Totals = {2}
    Nil = Nil
SPECIFICATION Spec
SYMMETRY Symmetry
CHECK_DEADLOCK FALSE
PROPERTY PostedImmutable
