\* Two calls at a time on the workflows of one invoice, any of them failing.
CONSTANTS
    InvoiceId = {i1}
    WorkflowId = {x1}
    User = {u1, u2}
    Worker = {w1, w2}
    MaxStep = 2
    Nil = Nil
SPECIFICATION Spec
SYMMETRY Symmetry
CHECK_DEADLOCK FALSE
INVARIANT TypeOK
INVARIANT NoStepSkipped
INVARIANT OnlyApproversAct
INVARIANT AuditKept
VIEW AuditedWorkflows
