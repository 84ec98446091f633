\* gRPC and HTTP calls that may be cut short but do not overlap.
CONSTANTS
    InvoiceId = {i1}
    Number = {n1}
    Worker = {w1}
    JournalId = {j1, j2}
    PaymentId = {p1}
    Totals = {1}
    WorkflowId = {x1, x2}
    User = {u1, u2}
    StepCounts = {1, 2}
    Nil = Nil
SPECIFICATION SerialGatewaySpec
CHECK_DEADLOCK FALSE
INVARIANT GatewayTypeOK
INVARIANT ActiveWorkflowIsPending
INVARIANT ServicesAgree
INVARIANT AnnouncedIsTrue
PROPERTY CompletionApproves
