-------------------------- MODULE MCApprovalGateway --------------------------
(* Small instances of ApprovalGateway for TLC.                              *)
EXTENDS ApprovalGateway, TLC

Symmetry == Permutations(InvoiceId) \cup Permutations(Number)
               \cup Permutations(Worker) \cup Permutations(WorkflowId)
               \cup Permutations(User)

=============================================================================
