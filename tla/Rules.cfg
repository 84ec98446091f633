\* Rules change while workflows are made from them.
CONSTANTS
    RuleId = {r1, r2, r3}
    WorkflowId = {x1}
    e1 = e1
    e2 = e2
    Entity = {e1, e2}
    Vendor = {v1, v2}
    Department = {d1}
    Amounts = {1, 2}
    Rows <- Entries
    Nil = Nil
SPECIFICATION Spec
SYMMETRY Symmetry
CHECK_DEADLOCK FALSE
INVARIANT TypeOK
INVARIANT FirstMatchRoutes
INVARIANT RangesMeet
INVARIANT WorkflowRuleKnown
INVARIANT WorkflowHasSteps
