\* Calls for an invoice do not overlap but may fail.
CONSTANTS
    InvoiceId = {i1}
    WorkflowId = {x1, x2}
    User = {u1}
    Worker = {w1}
    MaxStep = 2
    Nil = Nil
SPECIFICATION SerialSpec
SYMMETRY Symmetry
CHECK_DEADLOCK FALSE
INVARIANT ApprovedByAllSteps
INVARIANT AuditTruthful
