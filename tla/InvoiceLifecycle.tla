-------------------------- MODULE InvoiceLifecycle --------------------------
(***************************************************************************)
(* What the service promises about an invoice, without workers, statements *)
(* or remote calls: it moves Draft -> Pending Approval -> Approved ->      *)
(* Posted -> Paid, goes back only from pending approval, is deleted only   *)
(* as a draft, and is paid when exactly its total has been paid.           *)
(***************************************************************************)
EXTENDS Integers

CONSTANTS InvoiceId, Totals

VARIABLES
    stage,      \* where the invoice is
    due         \* what is still to be paid

lifecycleVars == <<stage, due>>

LifecycleInit ==
    /\ stage = [i \in InvoiceId |-> "none"]
    /\ due = [i \in InvoiceId |-> 0]

Move(i, from, to) ==
    /\ stage[i] = from
    /\ stage' = [stage EXCEPT ![i] = to]

Create(i, total) == Move(i, "none", "draft") /\ due' = [due EXCEPT ![i] = total]
Submit(i) == Move(i, "draft", "pending_approval") /\ UNCHANGED due
Approve(i) == Move(i, "pending_approval", "approved") /\ UNCHANGED due
Return(i) == Move(i, "pending_approval", "draft") /\ UNCHANGED due
Post(i) == Move(i, "approved", "posted") /\ UNCHANGED due
Delete(i) == Move(i, "draft", "deleted") /\ due' = [due EXCEPT ![i] = 0]

Pay(i, amount) ==
    /\ amount <= due[i]
    /\ due' = [due EXCEPT ![i] = @ - amount]
    /\ Move(i, "posted", IF amount = due[i] THEN "paid" ELSE "posted")

LifecycleNext ==
    \E i \in InvoiceId :
        \/ Submit(i) \/ Approve(i) \/ Return(i) \/ Post(i) \/ Delete(i)
        \/ \E total \in Totals : Create(i, total)
        \/ \E amount \in 1 .. due[i] : Pay(i, amount)

LifecycleSpec == LifecycleInit /\ [][LifecycleNext]_lifecycleVars

=============================================================================
