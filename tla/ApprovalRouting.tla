--------------------------- MODULE ApprovalRouting ---------------------------
(***************************************************************************)
(* The approval routing service inside this repository                     *)
(* (internal/service/approval_routing_service.go) over its own tables      *)
(* (migrations/002_approval_workflow.sql): a submitted invoice gets a      *)
(* workflow of numbered steps, which approvers approve, reject, recall or  *)
(* delegate.  cmd/server/main.go builds the service; the gRPC handler now  *)
(* asks it for the history alone and takes the rest to be-plt-approvals.   *)
(* It is called as that handler calls its successor: submission first,     *)
(* then the workflow; approvals and rejections with the current step of    *)
(* the invoice's active workflow, delegations with any step.               *)
(*                                                                         *)
(* The service opens a transaction only to insert a workflow with its      *)
(* steps.  Every other call reads the workflow, reads the step, and then   *)
(* issues its updates one by one; they match on the identifier alone.      *)
(* Deleting a draft deletes its workflows and steps with it, unless the    *)
(* audit log knows of the invoice: no entry of the log may be deleted.     *)
(*                                                                         *)
(* The identity client of this build finds no user for a role, so that     *)
(* every step is unassigned; the model also has the assigned steps of the  *)
(* interface the service is written against.                               *)
(***************************************************************************)
EXTENDS Integers, FiniteSets

CONSTANTS
    InvoiceId, WorkflowId, User,
    Worker,         \* calls that can be in flight at the same time
    MaxStep,        \* the largest step number a rule uses
    Nil             \* SQL NULL

ASSUME MaxStepAssumption == MaxStep \in Nat \ {0}
ASSUME RoutingNilAssumption == Nil \notin InvoiceId \cup WorkflowId \cup User

VARIABLES
    status,         \* column status of table invoices
    workflows,      \* table invoice_approval_workflows
    steps,          \* table invoice_approval_steps, by workflow and number
    audit,          \* table invoice_approval_audit_log
    call            \* what each worker is doing, with its local variables

vars == <<status, workflows, steps, audit, call>>

StepNumber == 1 .. MaxStep

InvoiceStatus == {"draft", "pending_approval", "approved", "deleted"}

Workflow == [status : {"none", "in_progress", "approved", "rejected", "recalled"},
             inv : InvoiceId \cup {Nil}, by : User \cup {Nil},
             total : Nat, current : Nat]

NoWorkflow ==
    [status |-> "none", inv |-> Nil, by |-> Nil, total |-> 0, current |-> 0]

ApprovalStep ==
    [status : {"none", "pending", "approved", "rejected", "delegated", "recalled"},
     assigned : User \cup {Nil}, delegated : User \cup {Nil}, acted : User \cup {Nil}]

NoStep == [status |-> "none", assigned |-> Nil, delegated |-> Nil, acted |-> Nil]

Action == {"approved", "rejected", "recalled", "delegated"}

AuditEntry == [wf : WorkflowId, step : StepNumber \cup {0}, action : Action]

\* What the caller asked for, and how far its handler is.
CallStep == {"idle", "submit", "create", "read", "step", "advance", "workflow",
             "invoice", "audit"}

Call == [pc : CallStep, does : Action \cup {Nil}, inv : InvoiceId \cup {Nil},
         wf : WorkflowId \cup {Nil}, step : Nat, user : User \cup {Nil}]

NoCall == [pc |-> "idle", does |-> Nil, inv |-> Nil, wf |-> Nil, step |-> 0,
           user |-> Nil]

-----------------------------------------------------------------------------
At(w, pc) == call[w].pc = pc
Does(w, pc, action) == At(w, pc) /\ call[w].does = action

Receive(w, pc, action, i, x, n, u) ==
    /\ At(w, "idle")
    /\ call' = [call EXCEPT ![w] = [pc |-> pc, does |-> action, inv |-> i,
                                    wf |-> x, step |-> n, user |-> u]]
    /\ UNCHANGED <<status, workflows, steps, audit>>

Go(w, pc) == call' = [call EXCEPT ![w] = [@ EXCEPT !.pc = pc]]
Reply(w) == call' = [call EXCEPT ![w] = NoCall]

\* ON DELETE CASCADE: the rows of a workflow go with its invoice.
Deleted == {i \in InvoiceId : status[i] = "deleted"}
Exists(x) == workflows[x].status # "none" /\ workflows[x].inv \notin Deleted

\* GetActiveByInvoiceID and the check of GetByID's answer.
Active(x) == Exists(x) /\ workflows[x].status = "in_progress"

\* Mutant: the approver is not asked for.
AnyoneCanAct(s, u) == s.status # "none"

\* assertCanAct
CanAct(s, u) ==
    \/ s.assigned # Nil /\ s.assigned = u
    \/ s.delegated # Nil /\ s.delegated = u
    \/ s.assigned = Nil /\ s.delegated = Nil

-----------------------------------------------------------------------------
(* Submission                                                              *)

Submit(w, i, u) ==
    /\ status[i] = "draft"
    /\ Receive(w, "submit", Nil, i, Nil, 0, u)

SubmitUpdate(w) ==
    /\ At(w, "submit")
    /\ status' = [status EXCEPT ![call[w].inv] = "pending_approval"]
    /\ Go(w, "create")
    /\ UNCHANGED <<workflows, steps, audit>>

\* buildSteps
BuildSteps(plan, users) ==
    [n \in StepNumber |->
        IF n \in plan THEN [NoStep EXCEPT !.status = "pending", !.assigned = users[n]]
                      ELSE NoStep]

\* The steps of the rule that matches, or one default step; each assigned to
\* the first user with its role, if the identity service knows one.
CreateApprovalWorkflow(w) ==
    /\ At(w, "create")
    /\ \E x \in WorkflowId, plan \in (SUBSET StepNumber) \ {{}} :
       \E users \in [plan -> User \cup {Nil}] :
          /\ workflows[x].status = "none"
          /\ workflows' = [workflows EXCEPT ![x] =
                [status |-> "in_progress", inv |-> call[w].inv,
                 by |-> call[w].user, total |-> Cardinality(plan), current |-> 1]]
          /\ steps' = [steps EXCEPT ![x] = BuildSteps(plan, users)]
    /\ Reply(w)
    /\ UNCHANGED <<status, audit>>

-----------------------------------------------------------------------------
(* Reads                                                                   *)

\* ApproveStep and RejectWorkflow: the workflow is in progress.
ReadWorkflow(w, x, u, action) ==
    /\ Active(x)
    /\ action \in {"approved", "rejected"}
    /\ Receive(w, "read", action, workflows[x].inv, x, workflows[x].current, u)

\* DelegateStep looks at the step alone.
DelegateStep(w, x, n, u) ==
    /\ Exists(x)
    /\ Receive(w, "read", "delegated", workflows[x].inv, x, n, u)

\* RecallWorkflow: only the submitter, only in progress.
RecallWorkflow(w, x, u) ==
    /\ Active(x)
    /\ workflows[x].by = u
    /\ Receive(w, "step", "recalled", workflows[x].inv, x, 0, u)

\* GetCurrentStep, the status check (not for a delegation), assertCanAct.
ReadStep(w) ==
    LET x == call[w].wf  n == call[w].step IN
    /\ At(w, "read")
    /\ IF /\ n \in StepNumber
          /\ steps[x][n].status # "none"
          /\ call[w].does # "delegated" => steps[x][n].status = "pending"
          /\ CanAct(steps[x][n], call[w].user)
       THEN Go(w, "step") ELSE Reply(w)
    /\ UNCHANGED <<status, workflows, steps, audit>>

-----------------------------------------------------------------------------
(* Writes                                                                  *)

SetStep(x, n, s) == steps' = [steps EXCEPT ![x] = [@ EXCEPT ![n] = s]]

\* UpdateStepAction
Acted(s, action, u) == [s EXCEPT !.status = action, !.acted = u]

\* Mutant: an early step can complete the workflow.
CompleteEarly(w) ==
    LET x == call[w].wf  n == call[w].step IN
    /\ Does(w, "step", "approved")
    /\ SetStep(x, n, Acted(steps[x][n], "approved", call[w].user))
    /\ Go(w, IF n + 1 < workflows[x].total THEN "advance" ELSE "workflow")
    /\ UNCHANGED <<status, workflows, audit>>

ApproveStep(w) ==
    LET x == call[w].wf  n == call[w].step IN
    /\ Does(w, "step", "approved")
    /\ SetStep(x, n, Acted(steps[x][n], "approved", call[w].user))
    /\ Go(w, IF n < workflows[x].total THEN "advance" ELSE "workflow")
    /\ UNCHANGED <<status, workflows, audit>>

RejectStep(w) ==
    LET x == call[w].wf  n == call[w].step IN
    /\ Does(w, "step", "rejected")
    /\ SetStep(x, n, Acted(steps[x][n], "rejected", call[w].user))
    /\ Go(w, "workflow")
    /\ UNCHANGED <<status, workflows, audit>>

\* Mutant: the update without its status = 'pending' clause.
RecallAllSteps(w) ==
    LET x == call[w].wf IN
    /\ Does(w, "step", "recalled")
    /\ steps' = [steps EXCEPT ![x] = [n \in StepNumber |->
                    IF steps[x][n].status # "none"
                    THEN [steps[x][n] EXCEPT !.status = "recalled"]
                    ELSE steps[x][n]]]
    /\ Go(w, "workflow")
    /\ UNCHANGED <<status, workflows, audit>>

\* The pending steps of the workflow.
RecallSteps(w) ==
    LET x == call[w].wf IN
    /\ Does(w, "step", "recalled")
    /\ steps' = [steps EXCEPT ![x] = [n \in StepNumber |->
                    IF steps[x][n].status = "pending"
                    THEN [steps[x][n] EXCEPT !.status = "recalled"]
                    ELSE steps[x][n]]]
    /\ Go(w, "workflow")
    /\ UNCHANGED <<status, workflows, audit>>

\* Mutant: an update of no row is not noticed.
DelegateUnnoticed(w, to) ==
    LET x == call[w].wf  n == call[w].step IN
    /\ Does(w, "step", "delegated")
    /\ IF steps[x][n].status = "pending"
       THEN SetStep(x, n, [steps[x][n] EXCEPT !.status = "delegated",
                                              !.delegated = to])
       ELSE UNCHANGED steps
    /\ Go(w, "audit")
    /\ UNCHANGED <<status, workflows, audit>>

\* The one update that also matches on status = 'pending'.
DelegateUpdate(w, to) ==
    LET x == call[w].wf  n == call[w].step IN
    /\ Does(w, "step", "delegated")
    /\ IF steps[x][n].status = "pending"
       THEN /\ SetStep(x, n, [steps[x][n] EXCEPT !.status = "delegated",
                                                 !.delegated = to])
            /\ Go(w, "audit")
       ELSE UNCHANGED steps /\ Reply(w)
    /\ UNCHANGED <<status, workflows, audit>>

AdvanceStep(w) ==
    LET x == call[w].wf IN
    /\ At(w, "advance")
    /\ workflows' = [workflows EXCEPT ![x] =
          [@ EXCEPT !.current = call[w].step + 1, !.status = "in_progress"]]
    /\ Go(w, "audit")
    /\ UNCHANGED <<status, steps, audit>>

\* UpdateStatus of the workflow: approved, rejected or recalled.
CompleteWorkflow(w) ==
    LET x == call[w].wf IN
    /\ At(w, "workflow")
    /\ workflows' = [workflows EXCEPT ![x] = [@ EXCEPT !.status = call[w].does]]
    /\ Go(w, "invoice")
    /\ UNCHANGED <<status, steps, audit>>

\* The invoice repository's Approve, or UpdateStatus to draft.
UpdateInvoice(w) ==
    /\ At(w, "invoice")
    /\ status' = [status EXCEPT ![call[w].inv] =
          IF call[w].does = "approved" THEN "approved" ELSE "draft"]
    /\ Go(w, "audit")
    /\ UNCHANGED <<workflows, steps, audit>>

AppendAudit(w) ==
    /\ At(w, "audit")
    /\ audit' = audit \cup {[wf |-> call[w].wf, step |-> call[w].step,
                             action |-> call[w].does]}
    /\ Reply(w)
    /\ UNCHANGED <<status, workflows, steps>>

\* Mutant: the audit log lets go of its entries.
DeleteLogged(i) ==
    /\ status[i] = "draft"
    /\ status' = [status EXCEPT ![i] = "deleted"]
    /\ UNCHANGED <<workflows, steps, audit, call>>

\* DELETE of a draft, and the trigger prevent_audit_log_delete.
DeleteInvoice(i) ==
    /\ status[i] = "draft"
    /\ \A e \in audit : workflows[e.wf].inv # i
    /\ status' = [status EXCEPT ![i] = "deleted"]
    /\ UNCHANGED <<workflows, steps, audit, call>>

\* An error, a timeout or a crash; an audit entry that cannot be written.
Abort(w) ==
    /\ ~At(w, "idle")
    /\ Reply(w)
    /\ UNCHANGED <<status, workflows, steps, audit>>

-----------------------------------------------------------------------------
Init ==
    /\ status = [i \in InvoiceId |-> "draft"]
    /\ workflows = [x \in WorkflowId |-> NoWorkflow]
    /\ steps = [x \in WorkflowId |-> [n \in StepNumber |-> NoStep]]
    /\ audit = {}
    /\ call = [w \in Worker |-> NoCall]

Begin(w, u) ==
    \/ \E i \in InvoiceId : Submit(w, i, u)
    \/ \E x \in WorkflowId :
          \/ \E action \in Action : ReadWorkflow(w, x, u, action)
          \/ RecallWorkflow(w, x, u)
          \/ \E n \in StepNumber : DelegateStep(w, x, n, u)

\* A call whose invoice was deleted finds no row to read or update, and can
\* refer to none: all that is left to it is to end as in Abort.
Proceed(w) ==
    /\ call[w].inv \notin Deleted
    /\ \/ SubmitUpdate(w)
       \/ CreateApprovalWorkflow(w)
       \/ ReadStep(w)
       \/ ApproveStep(w)
       \/ RejectStep(w)
       \/ RecallSteps(w)
       \/ \E to \in User : DelegateUpdate(w, to)
       \/ AdvanceStep(w)
       \/ CompleteWorkflow(w)
       \/ UpdateInvoice(w)
       \/ AppendAudit(w)

Serve == \E w \in Worker : Proceed(w) \/ \E u \in User : Begin(w, u)

Next ==
    \/ Serve
    \/ \E i \in InvoiceId : DeleteInvoice(i)
    \/ \E w \in Worker : Abort(w)

Spec == Init /\ [][Next]_vars

\* Calls for one invoice do not overlap; they may fail, and a delete, which is
\* one statement, may come at any time.
Busy(w, i) == call[w].inv = i
OneCallPerInvoice ==
    \A i \in InvoiceId, v, w \in Worker : Busy(v, i) /\ Busy(w, i) => v = w

SerialSpec == Init /\ [][Next /\ OneCallPerInvoice']_vars

-----------------------------------------------------------------------------
(* Properties                                                              *)

\* Step n of workflow x was decided.
Decided(x, n) == steps[x][n].status \in {"approved", "rejected"}
DecidedUpTo(x, n) == \A k \in 1 .. n : k \in StepNumber /\ Decided(x, k)

TablesOK ==
    /\ status \in [InvoiceId -> InvoiceStatus]
    /\ workflows \in [WorkflowId -> Workflow]
    /\ steps \in [WorkflowId -> [StepNumber -> ApprovalStep]]
    /\ audit \subseteq AuditEntry

\* A row is there or not, and a step has an actor exactly when it was decided.
RowsOK ==
    \A x \in WorkflowId :
        /\ IF workflows[x].status = "none" THEN workflows[x] = NoWorkflow
                                         ELSE workflows[x].inv \in InvoiceId
        /\ \A n \in StepNumber : steps[x][n].acted # Nil <=> Decided(x, n)

\* The steps of a call that works on a workflow.
OnWorkflow == {"read", "step", "advance", "workflow", "invoice", "audit"}

\* A call has what its step needs, and keeps to one workflow, the invoice of
\* that workflow, and one step.
KeepsTo(c) ==
    /\ c.pc # "idle" => c.inv \in InvoiceId /\ c.user \in User
    /\ c.pc \in OnWorkflow => c.wf \in WorkflowId /\ c.does \in Action
    /\ c.pc = "read" => c.does # "recalled"
    /\ c.pc = "advance" => c.does = "approved"
    /\ c.pc \in {"workflow", "invoice"} => c.does # "delegated"
    /\ c.pc \in OnWorkflow \ {"read"} =>
          c.step \in IF c.does = "recalled" THEN {0} ELSE StepNumber

CallsOK ==
    /\ call \in [Worker -> Call]
    /\ \A w \in Worker : KeepsTo(call[w])
    /\ \A w \in Worker :
          call[w].pc \in OnWorkflow => workflows[call[w].wf].inv = call[w].inv

\* Rows and calls are whole: no statement writes to a row that was not
\* inserted or takes back a decision, and a call works on what it read.
TypeOK == TablesOK /\ RowsOK /\ CallsOK

\* Nobody is passed over.  Whatever calls overlap, die or come late, a
\* workflow only counts as approved after all of its steps were decided on,
\* each in its turn; and the steps before the current one were.
InOrder(x) ==
    /\ workflows[x].status = "approved" => DecidedUpTo(x, workflows[x].total)
    /\ DecidedUpTo(x, workflows[x].current - 1)

NoStepSkipped == \A x \in WorkflowId : InOrder(x)

\* What an approval carries from its reads to its writes: the steps before its
\* own are decided, its own too once it has written it, and all are when it
\* goes on to complete the workflow.
Turn(w) ==
    LET x == call[w].wf  n == call[w].step IN
    /\ Does(w, "read", "approved") => DecidedUpTo(x, n - 1)
    /\ Does(w, "step", "approved") => DecidedUpTo(x, n - 1)
    /\ Does(w, "advance", "approved") => DecidedUpTo(x, n)
    /\ Does(w, "workflow", "approved") => DecidedUpTo(x, workflows[x].total)

InTurn == \A w \in Worker : Turn(w)

\* A step that was assigned is only ever decided by the user it was assigned to
\* or the one it was delegated to, however old the read is that allowed it:
\* "assertCanAct checks that userID is the assigned or delegated approver for a
\* step" (approval_routing_service.go:446).
OnlyApproversAct ==
    \A x \in WorkflowId, n \in StepNumber :
        LET s == steps[x][n] IN
        Decided(x, n) /\ s.assigned # Nil => s.acted \in {s.assigned, s.delegated}

\* As long as calls for an invoice do not overlap, failures anywhere leave
\* approvers only with pending invoices, one review each, and an approved
\* invoice with a workflow that all of its steps approved.
ApprovedByAllSteps ==
    /\ \A x \in WorkflowId :
          Active(x) =>
             /\ status[workflows[x].inv] = "pending_approval"
             /\ \A y \in WorkflowId :
                   Active(y) /\ workflows[y].inv = workflows[x].inv => y = x
    /\ \A i \in InvoiceId :
          status[i] = "approved" =>
             \E x \in WorkflowId :
                /\ workflows[x].inv = i
                /\ workflows[x].status = "approved"
                /\ \A n \in StepNumber : steps[x][n].status \in {"none", "approved"}

\* The audit log tells nothing that did not happen: as long as calls do not
\* overlap, an entry stands for a step or workflow that is as the entry says,
\* whatever failed since.  A delegated step may be decided or recalled later.
AuditTruthful ==
    \A e \in audit :
        /\ e.action \in {"approved", "rejected"} =>
              steps[e.wf][e.step].status = e.action
        /\ e.action \in {"rejected", "recalled"} =>
              workflows[e.wf].status = e.action
        /\ e.action = "delegated" => steps[e.wf][e.step].delegated # Nil

\* "Append-only audit trail; no updates or deletes allowed"
\* (002_approval_workflow.sql:136): what the log tells of is never deleted,
\* though a rejected or recalled invoice is a draft again and drafts may be.
AuditKept == \A e \in audit : Exists(e.wf)

\* GetPendingForUser
PendingForUser(u) ==
    {p \in WorkflowId \X StepNumber :
        LET s == steps[p[1]][p[2]] IN
        s.status = "pending" /\ Active(p[1]) /\ u \in {s.assigned, s.delegated}}

\* "GetPendingForUser returns all pending steps assigned to a specific user
\* (including delegated steps)" (approval_steps_repository.go:65): a step
\* delegated to a user, in a workflow in progress, is in the list.
DelegatedStepsListed ==
    \A x \in WorkflowId, n \in StepNumber :
        steps[x][n].status = "delegated" /\ Active(x)
            => <<x, n>> \in PendingForUser(steps[x][n].delegated)

=============================================================================
