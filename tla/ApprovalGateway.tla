--------------------------- MODULE ApprovalGateway ---------------------------
(***************************************************************************)
(* The approval endpoints of the gRPC and HTTP handlers on top of          *)
(* InvoiceService.  The gRPC handlers (internal/handler/grpc_handler.go)   *)
(* pair every change of the invoice with a call to be-plt-approvals, the   *)
(* service that owns the approval workflows; the HTTP handlers             *)
(* (internal/handler/http_handler.go) change the invoice alone.  No        *)
(* transaction spans the two services.                                     *)
(*                                                                         *)
(* A gRPC call is served by a worker of InvoiceService: rpc says where its *)
(* handler is, req where the service operation it has called is.           *)
(* be-plt-approvals is modelled by what its client                         *)
(* (internal/client/approvals_client.go) expects of it: each call is       *)
(* atomic and checks the state of the workflow it is given.                *)
(***************************************************************************)
EXTENDS InvoiceService

CONSTANTS
    WorkflowId,     \* identifiers of be-plt-approvals
    User,           \* authenticated users
    StepCounts      \* numbers of steps its rules may ask for

ASSUME StepCountsAssumption == StepCounts \subseteq Nat \ {0}
ASSUME GatewayNilAssumption == Nil \notin WorkflowId \cup User

VARIABLES
    workflows,      \* the workflows of be-plt-approvals
    updatedBy,      \* column updated_by: who last set the status
    approvedBy,     \* column approved_by
    rpc,            \* the gRPC call of each worker
    disturbed       \* history: the invoices a call was cut short for, or that
                    \* were submitted or approved over HTTP

gatewayVars == <<vars, workflows, updatedBy, approvedBy, rpc, disturbed>>

\* The columns that name a user.
users == <<updatedBy, approvedBy>>

Workflow == [status : {"none", "in_progress", "approved", "rejected", "recalled"},
             inv : InvoiceId \cup {Nil}, by : User \cup {Nil},
             step : Nat, total : Nat]

NoWorkflow ==
    [status |-> "none", inv |-> Nil, by |-> Nil, step |-> 0, total |-> 0]

\* "legacy" and "approve" both call the service's ApproveInvoice, the first
\* without a workflow.  A call that has an event to publish does so last.
Announcement == {"tell_submitted", "tell_required", "tell_approved", "tell_rejected"}

RpcStep == {"idle", "submit", "fetch", "create_wf", "approve_step", "approve",
            "legacy", "reject_wf", "reject", "recall_wf", "recall", "delegate_wf"}
              \cup Announcement

Rpc == [pc : RpcStep, inv : InvoiceId \cup {Nil}, user : User \cup {Nil},
        wf : WorkflowId \cup {Nil}, step : Nat]

NoRpc == [pc |-> "idle", inv |-> Nil, user |-> Nil, wf |-> Nil, step |-> 0]

-----------------------------------------------------------------------------
(* be-plt-approvals                                                        *)

Active(x, i) == workflows[x].status = "in_progress" /\ workflows[x].inv = i
ActiveWorkflows(i) == {x \in WorkflowId : Active(x, i)}

SetWorkflow(x, status) == [workflows EXCEPT ![x] = [@ EXCEPT !.status = status]]

-----------------------------------------------------------------------------
(* gRPC handlers                                                           *)

InRpc(w, pc) == rpc[w].pc = pc

\* A worker free for a call, and the call it takes.
Free(w) == InRpc(w, "idle") /\ At(w, "idle")
Call(w, i, u, pc, x) ==
    rpc' = [rpc EXCEPT ![w] = [pc |-> pc, inv |-> i, user |-> u, wf |-> x,
               step |-> IF x = Nil THEN 0 ELSE workflows[x].step]]
Go(w, pc) == rpc' = [rpc EXCEPT ![w] = [@ EXCEPT !.pc = pc]]
Reply(w) == rpc' = [rpc EXCEPT ![w] = NoRpc]

\* An identifier a client can name: of an invoice that is or was there.  The
\* handlers look for its workflow before anything looks at the invoice.
Known(i) == invoices[i].status # "none"

\* Mutant: the lookup answers with any workflow once the invoice has one.
FindAny(i) == IF ActiveWorkflows(i) = {} THEN {Nil} ELSE WorkflowId

\* GetActiveWorkflow: one of the active workflows, or NotFound.
FindActive(i) == IF ActiveWorkflows(i) = {} THEN {Nil} ELSE ActiveWorkflows(i)

\* SubmitForApproval, from the service's read of the invoice on.
GrpcSubmit(w, i, u) ==
    /\ Free(w)
    /\ SubmitForApproval(w, i)
    /\ Call(w, i, u, "submit", Nil)
    /\ UNCHANGED <<workflows, users>>

\* UpdateStatus sets updated_by; a row that is gone ends the call.
GrpcSubmitUpdate(w) ==
    LET i == rpc[w].inv IN
    /\ InRpc(w, "submit")
    /\ SubmitUpdate(w)
    /\ updatedBy' = IF Exists(i) THEN [updatedBy EXCEPT ![i] = rpc[w].user]
                                 ELSE updatedBy
    /\ IF Exists(i) THEN Go(w, "fetch") ELSE Reply(w)
    /\ UNCHANGED <<workflows, approvedBy>>

\* GetInvoice for the context of the workflow; without the invoice the
\* handler answers without a workflow.
GrpcFetch(w) ==
    /\ InRpc(w, "fetch")
    /\ IF Exists(rpc[w].inv) THEN Go(w, "create_wf") ELSE Reply(w)
    /\ UNCHANGED <<vars, workflows, users>>

GrpcCreateWorkflow(w) ==
    /\ InRpc(w, "create_wf")
    /\ \E x \in WorkflowId, n \in StepCounts :
          /\ workflows[x].status = "none"
          /\ workflows' = [workflows EXCEPT ![x] =
                [status |-> "in_progress", inv |-> rpc[w].inv,
                 by |-> rpc[w].user, step |-> 1, total |-> n]]
          /\ rpc' = [rpc EXCEPT ![w] = [@ EXCEPT !.pc = "tell_submitted", !.wf = x]]
    /\ UNCHANGED <<vars, users>>

\* ApproveInvoice: the workflow's current step, or the legacy path.
GrpcApprove(w, i, u) ==
    /\ Free(w)
    /\ Known(i)
    /\ \E x \in FindActive(i) :
          Call(w, i, u, IF x = Nil THEN "legacy" ELSE "approve_step", x)
    /\ UNCHANGED <<vars, workflows, users>>

\* What a granted step makes of the workflow: the last one completes it.
IsLast(x) == workflows[x].step = workflows[x].total
AfterStep(x, ok) ==
    IF ~ok THEN workflows
    ELSE IF IsLast(x) THEN SetWorkflow(x, "approved")
    ELSE [workflows EXCEPT ![x].step = @ + 1]

\* Mutant: the invoice is approved after any step of its workflow.
ApproveAfterAnyStep(w) ==
    LET x == rpc[w].wf
        ok == workflows[x].status = "in_progress" /\ workflows[x].step = rpc[w].step
    IN  /\ InRpc(w, "approve_step")
        /\ workflows' = AfterStep(x, ok)
        /\ IF ok THEN Go(w, "approve") ELSE Reply(w)
        /\ UNCHANGED <<vars, users>>

\* Mutant: the result of the last step is not acted upon.
LastStepForgotten(w) ==
    LET x == rpc[w].wf
        ok == workflows[x].status = "in_progress" /\ workflows[x].step = rpc[w].step
    IN  /\ InRpc(w, "approve_step")
        /\ workflows' = AfterStep(x, ok)
        /\ Reply(w)
        /\ UNCHANGED <<vars, users>>

\* Mutant: the approval is announced before the invoice is approved.
AnnounceFirst(w) ==
    LET x == rpc[w].wf
        ok == workflows[x].status = "in_progress" /\ workflows[x].step = rpc[w].step
    IN  /\ InRpc(w, "approve_step")
        /\ workflows' = AfterStep(x, ok)
        /\ IF ~ok THEN Reply(w)
           ELSE Go(w, IF IsLast(x) THEN "tell_approved" ELSE "tell_required")
        /\ UNCHANGED <<vars, users>>

\* ApproveStep: refused unless the step is the current one of an active
\* workflow.
GrpcApproveStep(w) ==
    LET x == rpc[w].wf
        ok == workflows[x].status = "in_progress" /\ workflows[x].step = rpc[w].step
    IN  /\ InRpc(w, "approve_step")
        /\ workflows' = AfterStep(x, ok)
        /\ IF ~ok THEN Reply(w)
           ELSE Go(w, IF IsLast(x) THEN "approve" ELSE "tell_required")
        /\ UNCHANGED <<vars, users>>

\* RejectInvoice: only through an active workflow.
GrpcReject(w, i, u) ==
    /\ Free(w)
    /\ Known(i)
    /\ \E x \in ActiveWorkflows(i) : Call(w, i, u, "reject_wf", x)
    /\ UNCHANGED <<vars, workflows, users>>

\* Mutant: the workflow is left open when the invoice goes back to draft.
KeepRejectedWorkflow(w) ==
    /\ InRpc(w, "reject_wf")
    /\ Go(w, "reject")
    /\ UNCHANGED <<vars, workflows, users>>

GrpcRejectWorkflow(w) ==
    LET x == rpc[w].wf
        ok == workflows[x].status = "in_progress" /\ workflows[x].step = rpc[w].step
    IN  /\ InRpc(w, "reject_wf")
        /\ workflows' = IF ok THEN SetWorkflow(x, "rejected") ELSE workflows
        /\ IF ok THEN Go(w, "reject") ELSE Reply(w)
        /\ UNCHANGED <<vars, users>>

\* RecallInvoice: without an active workflow straight to the service.
GrpcRecall(w, i, u) ==
    /\ Free(w)
    /\ Known(i)
    /\ \E x \in FindActive(i) :
          Call(w, i, u, IF x = Nil THEN "recall" ELSE "recall_wf", x)
    /\ UNCHANGED <<vars, workflows, users>>

\* RecallWorkflow is where the submitter is checked.
GrpcRecallWorkflow(w) ==
    LET x == rpc[w].wf
        ok == workflows[x].status = "in_progress" /\ workflows[x].by = rpc[w].user
    IN  /\ InRpc(w, "recall_wf")
        /\ workflows' = IF ok THEN SetWorkflow(x, "recalled") ELSE workflows
        /\ IF ok THEN Go(w, "recall") ELSE Reply(w)
        /\ UNCHANGED <<vars, users>>

\* DelegateApproval: only through an active workflow.  Who may act on a step is
\* be-plt-approvals' to know, so that the delegation changes nothing here.
GrpcDelegate(w, i, u) ==
    /\ Free(w)
    /\ Known(i)
    /\ \E x \in ActiveWorkflows(i) : Call(w, i, u, "delegate_wf", x)
    /\ UNCHANGED <<vars, workflows, users>>

GrpcDelegateStep(w) ==
    /\ InRpc(w, "delegate_wf")
    /\ Reply(w)
    /\ UNCHANGED <<vars, workflows, users>>

\* The service operation that follows: its read and check ...
GrpcCallService(w) ==
    LET i == rpc[w].inv IN
    /\ \/ rpc[w].pc \in {"approve", "legacy"} /\ ApproveInvoice(w, i)
       \/ InRpc(w, "reject") /\ RejectInvoice(w, i)
       \/ InRpc(w, "recall") /\ RecallInvoice(w, i)
    /\ UNCHANGED <<workflows, users, rpc>>

\* ... which may refuse, and end the call ...
GrpcRefused(w) ==
    /\ rpc[w].pc \in {"approve", "legacy", "reject", "recall"}
    /\ At(w, "idle")
    /\ invoices[rpc[w].inv].status # "pending_approval"
    /\ Reply(w)
    /\ UNCHANGED <<vars, workflows, users>>

\* ... or write the invoice.  Approve leaves updated_by alone.
GrpcApproveUpdate(w) ==
    LET i == rpc[w].inv IN
    /\ rpc[w].pc \in {"approve", "legacy"}
    /\ ApproveUpdate(w)
    /\ approvedBy' = IF Exists(i) THEN [approvedBy EXCEPT ![i] = rpc[w].user]
                                  ELSE approvedBy
    /\ IF Exists(i) /\ InRpc(w, "approve") THEN Go(w, "tell_approved") ELSE Reply(w)
    /\ UNCHANGED <<workflows, updatedBy>>

GrpcReturnUpdate(w) ==
    LET i == rpc[w].inv IN
    /\ \/ InRpc(w, "reject") /\ RejectUpdate(w)
       \/ InRpc(w, "recall") /\ RecallUpdate(w)
    /\ updatedBy' = IF Exists(i) THEN [updatedBy EXCEPT ![i] = rpc[w].user]
                                 ELSE updatedBy
    /\ IF Exists(i) /\ InRpc(w, "reject") THEN Go(w, "tell_rejected") ELSE Reply(w)
    /\ UNCHANGED <<workflows, approvedBy>>

\* PublishInvoiceEvent: its failure is logged and the call answers all the same.
GrpcAnnounce(w) ==
    /\ rpc[w].pc \in Announcement
    /\ Reply(w)
    /\ UNCHANGED <<vars, workflows, users>>

-----------------------------------------------------------------------------
(* HTTP handlers, and the operations both kinds of handler only pass on.   *)
(* HTTP requests carry no user.                                            *)

HttpRequest(w, i) ==
    /\ InRpc(w, "idle")
    /\ SubmitForApproval(w, i) \/ ApproveInvoice(w, i)
    /\ disturbed' = disturbed \cup {i}
    /\ UNCHANGED <<workflows, users, rpc>>

HttpUpdate(w) ==
    LET i == req[w].inv IN
    /\ InRpc(w, "idle")
    /\ \/ /\ SubmitUpdate(w)
          /\ updatedBy' = IF Exists(i) THEN [updatedBy EXCEPT ![i] = Nil]
                                       ELSE updatedBy
          /\ UNCHANGED approvedBy
       \/ /\ ApproveUpdate(w)
          /\ approvedBy' = IF Exists(i) THEN [approvedBy EXCEPT ![i] = Nil]
                                        ELSE approvedBy
          /\ UNCHANGED updatedBy
    /\ UNCHANGED <<workflows, rpc, disturbed>>

\* Delete, PostToGL and its HTTP twin, RecordPayment: the service's own request.
PlainRequest(w, i) ==
    /\ InRpc(w, "idle")
    /\ \/ DeleteInvoice(w, i)
       \/ PostInvoice(w, i)
       \/ \E amount \in 0 .. invoices[i].total + 1 : RecordPayment(w, i, amount)
    /\ UNCHANGED <<workflows, users, rpc>>

PostExec(w) ==
    \/ PostReadLines(w)
    \/ PostCreate(w)
    \/ PostPost(w)
    \/ PostBalance(w)
    \/ PostMark(w)

PayExec(w) ==
    \/ PaySum(w)
    \/ PayCommit(w)
    \/ PayCreate(w)
    \/ PayPost(w)
    \/ PayBalance(w)

PlainExec(w) ==
    /\ InRpc(w, "idle")
    /\ DeleteExec(w) \/ PostExec(w) \/ PayExec(w)
    /\ UNCHANGED <<workflows, users, rpc>>

GatewayCreate == CreateInvoice /\ UNCHANGED <<workflows, users, rpc>>

\* An error, a timeout or a crash ends the call and the operation in it.
Busy(w, i) == rpc[w].inv = i \/ req[w].inv = i

GatewayAbort(w) ==
    /\ ~Free(w)
    /\ Finish(w)
    /\ Reply(w)
    /\ disturbed' = disturbed \cup {i \in InvoiceId : Busy(w, i)}
    /\ UNCHANGED <<invoices, payments, paidTotal, journals, balanceCalls,
                   workflows, users>>

-----------------------------------------------------------------------------
GatewayInit ==
    /\ Init
    /\ workflows = [x \in WorkflowId |-> NoWorkflow]
    /\ updatedBy = [i \in InvoiceId |-> Nil]
    /\ approvedBy = [i \in InvoiceId |-> Nil]
    /\ rpc = [w \in Worker |-> NoRpc]
    /\ disturbed = {}

GrpcCall(w, i, u) ==
    \/ GrpcSubmit(w, i, u)
    \/ GrpcApprove(w, i, u)
    \/ GrpcReject(w, i, u)
    \/ GrpcRecall(w, i, u)
    \/ GrpcDelegate(w, i, u)

\* What a call does on its own once it is made.
GatewayProceed(w) ==
    /\ \/ GrpcSubmitUpdate(w)
       \/ GrpcFetch(w)
       \/ GrpcCreateWorkflow(w)
       \/ GrpcApproveStep(w)
       \/ GrpcRejectWorkflow(w)
       \/ GrpcRecallWorkflow(w)
       \/ GrpcDelegateStep(w)
       \/ GrpcCallService(w)
       \/ GrpcRefused(w)
       \/ GrpcApproveUpdate(w)
       \/ GrpcReturnUpdate(w)
       \/ GrpcAnnounce(w)
       \/ PlainExec(w)
    /\ UNCHANGED disturbed

GatewayCall(w, i) ==
    /\ PlainRequest(w, i) \/ \E u \in User : GrpcCall(w, i, u)
    /\ UNCHANGED disturbed

GatewayNext ==
    \/ GatewayCreate /\ UNCHANGED disturbed
    \/ \E w \in Worker :
          \/ GatewayProceed(w)
          \/ HttpUpdate(w)
          \/ GatewayAbort(w)
          \/ \E i \in InvoiceId : GatewayCall(w, i) \/ HttpRequest(w, i)

GatewaySpec == GatewayInit /\ [][GatewayNext]_gatewayVars

\* Calls for one invoice do not overlap.
OneCallPerInvoice ==
    \A i \in InvoiceId, v, w \in Worker : Busy(v, i) /\ Busy(w, i) => v = w

\* A handler that has started runs until it ends or is cut short.
SerialGatewaySpec ==
    /\ GatewayInit
    /\ [][GatewayNext /\ OneCallPerInvoice']_gatewayVars
    /\ \A w \in Worker : WF_gatewayVars(GatewayProceed(w))

-----------------------------------------------------------------------------
(* Properties                                                              *)

\* Calls keep to their invoice and workflow: what a worker is deciding for an
\* invoice it decides with a workflow of that invoice or with none.
GatewayTypeOK ==
    /\ TypeOK
    /\ workflows \in [WorkflowId -> Workflow]
    /\ updatedBy \in [InvoiceId -> User \cup {Nil}]
    /\ approvedBy \in [InvoiceId -> User \cup {Nil}]
    /\ rpc \in [Worker -> Rpc]
    /\ disturbed \subseteq InvoiceId
    /\ \A w \in Worker :
          /\ rpc[w].wf # Nil => workflows[rpc[w].wf].inv = rpc[w].inv
          /\ rpc[w].pc # "idle" /\ ~At(w, "idle") => req[w].inv = rpc[w].inv

\* From the approval on: what an approved invoice may become.
Approved == {"approved", "posted", "paid"}

\* The handlers end the workflow before they move the invoice, so a failure
\* between the two never leaves an approver working on an invoice that is back
\* in draft or deleted, nor an invoice with two reviews, as long as calls do not
\* overlap.  The exception is an approval over HTTP, which names no approver and
\* leaves the workflow to itself: the invoice may even be posted and paid while
\* its review goes on.
ActiveWorkflowIsPending ==
    \A x \in WorkflowId, i \in InvoiceId :
        Active(x, i) =>
            /\ \/ invoices[i].status = "pending_approval"
               \/ invoices[i].status \in Approved /\ approvedBy[i] = Nil
            /\ ActiveWorkflows(i) = {x}

\* Unless a call for it was cut short or came over HTTP, between calls an
\* invoice is pending exactly while a workflow of it is active, and approved,
\* posted or paid only when all the steps of one were approved: the two
\* services tell the same story.
ServicesAgree ==
    \A i \in InvoiceId :
        i \notin disturbed /\ (\A w \in Worker : ~Busy(w, i)) =>
            /\ invoices[i].status = "pending_approval" <=> ActiveWorkflows(i) # {}
            /\ invoices[i].status \in Approved =>
                  \E x \in WorkflowId : /\ workflows[x].inv = i
                                        /\ workflows[x].status = "approved"
                                        /\ workflows[x].step = workflows[x].total

\* Completing a workflow and approving the invoice are two steps in two
\* services: the second follows the first unless the handler is cut short, and
\* the invoice, which may be posted and paid by then, is approved or further.
CompletionApproves ==
    \A x \in WorkflowId, i \in InvoiceId :
        (workflows[x].status = "approved" /\ workflows[x].inv = i)
            ~> (invoices[i].status \in Approved \/ i \in disturbed)

\* What a call is about to announce is so in both services: the submitter is
\* told of an approval or a rejection when the invoice has it, and of a step
\* still to be taken while the workflow waits for one.
AnnouncedIsTrue ==
    \A w \in Worker :
        LET i == rpc[w].inv
            x == rpc[w].wf
        IN  /\ InRpc(w, "tell_submitted") =>
                    invoices[i].status = "pending_approval" /\ Active(x, i)
            /\ InRpc(w, "tell_required") =>
                    Active(x, i) /\ workflows[x].step = rpc[w].step + 1
            /\ InRpc(w, "tell_approved") =>
                    /\ invoices[i].status = "approved"
                    /\ workflows[x].status = "approved"
            /\ InRpc(w, "tell_rejected") =>
                    /\ invoices[i].status = "draft"
                    /\ workflows[x].status = "rejected"

\* "All steps done ... mark invoice as approved" and, without a workflow, "Legacy
\* single-step path (no active workflow in be-plt-approvals)"
\* (grpc_handler.go:324, 362): an invoice that a gRPC call has approved has no
\* review under way.
ApprovedIsReviewed ==
    \A i \in InvoiceId :
        invoices[i].status = "approved" /\ approvedBy[i] # Nil
            => ActiveWorkflows(i) = {}

\* "RecallInvoice cancels a pending-approval invoice (submitter only)"
\* (grpc_handler.go:431): a recall that takes an invoice out of pending
\* approval was called by the user who submitted it.
RecallSubmitterOnly ==
    [][\A w \in Worker :
          LET i == rpc[w].inv IN
          /\ InRpc(w, "recall") /\ At(w, "recall")
          /\ invoices[i].status = "pending_approval"
          /\ invoices'[i].status = "draft"
          => updatedBy[i] = rpc[w].user]_gatewayVars

=============================================================================
