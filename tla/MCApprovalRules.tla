--------------------------- MODULE MCApprovalRules ---------------------------
(* A small instance of ApprovalRules for TLC.                               *)
EXTENDS ApprovalRules

CONSTANTS e1, e2

\* Ranges on both sides of the threshold 2, and the empty range at it.
AmountsOn(min, max) == [type |-> "amount_based", min |-> min, max |-> max,
                        vendor |-> Nil, department |-> Nil]
Ranges == {AmountsOn(min, max) : min, max \in {Nil, 2}}

\* Steps of their own, none, and what the table of the steps refuses: a number
\* twice and the number 0.
StepsFor(e, name, priority) ==
    CASE e = e2 -> <<0, 1>>
      [] e = e1 /\ name = 1 -> <<1, 2>>
      [] e = e1 /\ name = 2 -> IF priority = 1 THEN <<>> ELSE <<1, 1>>

Row(e, name, active, on, priority) ==
    [entity |-> e, name |-> name, active |-> active, on |-> on,
     steps |-> StepsFor(e, name, priority), priority |-> priority]

\* In the first entity two names and two priorities for every criterion and an
\* inactive rule for everything, in the second one rule.
Entries ==
    {Row(e1, name, TRUE, on, priority) :
        name, priority \in 1 .. 2, on \in Ranges \cup VendorCriteria \cup DepartmentCriteria}
    \cup {Row(e1, name, FALSE, AmountsOn(Nil, Nil), 1) : name \in 1 .. 2}
    \cup {Row(e2, 1, TRUE, AmountsOn(Nil, Nil), 1)}

Symmetry == Permutations(RuleId) \cup Permutations(WorkflowId)

=============================================================================
