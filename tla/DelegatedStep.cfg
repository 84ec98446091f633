\* A delegated step is no longer pending.
CONSTANTS
    InvoiceId = {i1}
    WorkflowId = {x1, x2}
    User = {u1, u2}
    Worker = {w1, w2}
    MaxStep = 2
    Nil = Nil
SPECIFICATION SerialSpec
SYMMETRY Symmetry
CHECK_DEADLOCK FALSE
INVARIANT DelegatedStepsListed
