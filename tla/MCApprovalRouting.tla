-------------------------- MODULE MCApprovalRouting --------------------------
(* Small instances of ApprovalRouting for TLC.                             *)
EXTENDS ApprovalRouting, TLC

Symmetry == Permutations(InvoiceId) \cup Permutations(WorkflowId)
               \cup Permutations(User) \cup Permutations(Worker)

\* What follows is the view of a run whose properties ask the audit log for
\* its workflows only: states that differ in nothing else go on alike, and are
\* the same to it.  Any state reached can still be reached, up to what the view
\* leaves out.

\* A call that changes nothing any more: it can only end.
IsPending(c) == c.step \in StepNumber /\ steps[c.wf][c.step].status = "pending"
Spent(c) ==
    \/ c.inv \in Deleted
    \/ c.pc = "create" /\ \A x \in WorkflowId : workflows[x].status # "none"
    \/ c.pc = "read" /\ ~IsPending(c)
    \/ c.pc = "step" /\ c.does = "delegated" /\ ~IsPending(c)

\* What decides how a call goes on: its user does until it wrote the step.
Goal(c) ==
    IF Spent(c) THEN [NoCall EXCEPT !.pc = "spent"]
    ELSE [c EXCEPT !.user = IF c.pc \in {"advance", "workflow", "invoice", "audit"}
                            THEN Nil ELSE @]

AuditedWorkflows ==
    <<status, workflows, steps, {e.wf : e \in audit}, [w \in Worker |-> Goal(call[w])]>>

=============================================================================
