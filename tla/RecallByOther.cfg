\* A recall after a failed submission.
CONSTANTS
    InvoiceId = {i1}
    Number = {n1}
    Worker = {w1, w2}
    JournalId = {}
    PaymentId = {}
    Totals = {1}
    WorkflowId = {x1, x2}
    User = {u1, u2}
    StepCounts = {1, 2}
    Nil = Nil
SPECIFICATION SerialGatewaySpec
CHECK_DEADLOCK FALSE
PROPERTY RecallSubmitterOnly
