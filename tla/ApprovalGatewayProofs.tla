------------------------ MODULE ApprovalGatewayProofs ------------------------
(***************************************************************************)
(* Proofs about ApprovalGateway, for any number of invoices, workflows,    *)
(* users and calls.                                                        *)
(*                                                                         *)
(* The handlers only use InvoiceService, so that the gateway implements it *)
(* and inherits what is proved of it: SerialInv of InvoiceSerialProofs     *)
(* says that a call finds the row it has checked.  StoryInv says the rest: *)
(* what a handler knows of the other service at each of its steps, and     *)
(* that the two services agree on an invoice but while a handler is        *)
(* between its change of the one and its change of the other.  A call      *)
(* touches the invoice and the workflows of its own invoice only, so that  *)
(* the other calls' knowledge stays; in its own step it is alone there.    *)
(***************************************************************************)
EXTENDS ApprovalGateway, InvoiceSerialProofs

\* Where a call holds a workflow it has found or created.
WithWorkflow == {"approve_step", "approve", "reject_wf", "reject", "recall_wf",
                 "delegate_wf"} \cup Announcement

PaySteps == {"pay_sum", "pay_commit", "pay_create", "pay_post", "pay_balance"}

\* The service operations that the handlers only pass on.
PlainSteps == {"delete"} \cup PostSteps \cup PaySteps

\* The service operations a handler may be in at its step.
Operations(pc) ==
    CASE pc = "idle" -> {"idle", "submit", "approve"} \cup PlainSteps
      [] pc = "submit" -> {"submit"}
      [] pc \in {"approve", "legacy"} -> {"idle", "approve"}
      [] pc \in {"reject", "recall"} -> {"idle", pc}
      [] OTHER -> {"idle"}

\* A handler c works on one invoice with a workflow of it, and the service
\* operation r it has called is the one of its step, for the same invoice.
CallOK(c, r) ==
    /\ c.pc = "idle" => c = NoRpc
    /\ c.pc # "idle" => c.inv \in InvoiceId
    /\ c.pc \in WithWorkflow => c.wf \in WorkflowId
    /\ c.wf # Nil => workflows[c.wf].inv = c.inv /\ workflows[c.wf].status # "none"
    /\ r.pc = "idle" => r = NoRequest
    /\ r.pc \in Operations(c.pc)
    /\ c.pc # "idle" /\ r.pc # "idle" => r.inv = c.inv

GatewayTables ==
    /\ workflows \in [WorkflowId -> Workflow]
    /\ updatedBy \in [InvoiceId -> User \cup {Nil}]
    /\ approvedBy \in [InvoiceId -> User \cup {Nil}]
    /\ rpc \in [Worker -> Rpc]
    /\ disturbed \subseteq InvoiceId

GatewayInv ==
    /\ TypeInv
    /\ GatewayTables
    /\ \A w \in Worker : CallOK(rpc[w], req[w])

-----------------------------------------------------------------------------
(* Types                                                                   *)

\* An operation that is only passed on: the service's own steps, one by one.
LEMMA PlainGoesOn ==
  ASSUME GatewayInv, NEW w \in Worker, PlainExec(w)
  PROVE  /\ rpc[w].pc = "idle" /\ UNCHANGED <<workflows, updatedBy, approvedBy, rpc>>
         /\ Proceed(w)
         /\ req[w].pc \in PlainSteps
         /\ req'[w] = NoRequest \/ req'[w].pc \in PlainSteps
         /\ \A v \in Worker \ {w} : req'[v] = req[v]
<1>0. req \in [Worker -> Request]
  BY DEF GatewayInv, TypeInv, TypeOK, RequestsOK
<1>1. rpc[w].pc = "idle" /\ UNCHANGED <<workflows, updatedBy, approvedBy, rpc>> /\ Proceed(w)
  BY DEF PlainExec, PostExec, PayExec, InRpc, users, Proceed
<1> DEFINE Good == /\ req'[w] = NoRequest \/ req'[w].pc \in PlainSteps
                   /\ \A v \in Worker \ {w} : req'[v] = req[v]
<1>2. ASSUME Finish(w) PROVE Good
  BY <1>0, <1>2 DEF Finish
<1>3. ASSUME NEW pc \in PlainSteps, Continue(w, pc) PROVE Good
  BY <1>0, <1>3 DEF Continue, Request
<1>4. ASSUME NEW e, NEW pc \in PlainSteps, CreateJournal(w, e, pc) PROVE Good
  BY <1>0, <1>4 DEF CreateJournal, Request
<1>5. {"post_create", "post_post", "post_balance", "post_mark", "pay_commit", "pay_create",
       "pay_post", "pay_balance"} \subseteq PlainSteps
  BY DEF PlainSteps, PostSteps, PaySteps
<1> HIDE DEF Good
<1>6. DeleteExec(w) \/ PostExec(w) \/ PayExec(w)
  BY DEF PlainExec
<1>7. Good
  <2>1. CASE DeleteExec(w) \/ PostMark(w) \/ PayBalance(w)
    BY <1>2, <2>1 DEF DeleteExec, PostMark, PayBalance, WriteInvoices
  <2>2. CASE PostCreate(w) \/ PayCreate(w)
    BY <1>4, <1>5, <2>2 DEF PostCreate, PayCreate
  <2>3. CASE PostPost(w) \/ PostBalance(w) \/ PayCommit(w) \/ PayPost(w)
    BY <1>3, <1>5, <2>3 DEF PostPost, PostBalance, PayCommit, PayPost, PostJournal
  <2>4. CASE PostReadLines(w)
    <3>1. req' = [req EXCEPT ![w] = [req[w] EXCEPT !.pc = "post_create", !.debit = LineSum(req[w].inv)]]
      BY <2>4 DEF PostReadLines
    <3>2. req'[w].pc = "post_create"
      BY <1>0, <3>1 DEF Request
    <3> QED
      BY <1>0, <1>5, <3>1, <3>2 DEF Good
  <2>5. CASE PaySum(w)
    <3>1. PICK p \in PaymentId : req' = [req EXCEPT ![w] =
             [req[w] EXCEPT !.pc = "pay_commit", !.pay = p,
                            !.sum = paidTotal[req[w].inv] + req[w].amount]]
      BY <2>5 DEF PaySum
    <3>2. req'[w].pc = "pay_commit"
      BY <1>0, <3>1 DEF Request
    <3> QED
      BY <1>0, <1>5, <3>1, <3>2 DEF Good
  <2> QED
    BY <1>6, <2>1, <2>2, <2>3, <2>4, <2>5 DEF PostExec, PayExec
<1>8. req[w].pc \in PlainSteps
  BY <1>6 DEF PostExec, PayExec, DeleteExec, PostReadLines, PostCreate, PostPost, PostBalance,
     PostMark, PaySum, PayCommit, PayCreate, PayPost, PayBalance, At, PlainSteps, PostSteps, PaySteps
<1> QED
  BY <1>1, <1>7, <1>8 DEF Good

\* ... and its start, the read and check of the service.
LEMMA PlainStarts ==
  ASSUME GatewayInv, NEW w \in Worker, NEW i \in InvoiceId, PlainRequest(w, i)
  PROVE  /\ rpc[w].pc = "idle" /\ req[w].pc = "idle"
         /\ UNCHANGED <<invoices, workflows, updatedBy, approvedBy, rpc>>
         /\ Begin(w, i)
         /\ req'[w].pc \in PlainSteps /\ req'[w].inv = i
         /\ \A v \in Worker \ {w} : req'[v] = req[v]
<1>0. req \in [Worker -> Request]
  BY DEF GatewayInv, TypeInv, TypeOK, RequestsOK
<1>1. rpc[w].pc = "idle" /\ UNCHANGED <<workflows, updatedBy, approvedBy, rpc>> /\ Begin(w, i)
  BY DEF PlainRequest, InRpc, users, Begin
<1>2. PICK pc \in PlainSteps, a \in Int : Receive(w, i, pc, a)
  <2>1. CASE DeleteInvoice(w, i)
    BY <2>1 DEF DeleteInvoice, PlainSteps
  <2>2. CASE PostInvoice(w, i)
    <3>1. invoices[i].total \in Nat
      BY RowFields DEF GatewayInv, TypeInv, TypeOK, TablesOK
    <3> QED
      BY <2>2, <3>1 DEF PostInvoice, PlainSteps, PostSteps
  <2>3. CASE \E amount \in 0 .. invoices[i].total + 1 : RecordPayment(w, i, amount)
    BY <2>3 DEF RecordPayment, PlainSteps, PaySteps
  <2> QED
    BY <2>1, <2>2, <2>3 DEF PlainRequest
<1>3. req[w].pc = "idle" /\ UNCHANGED invoices
  BY <1>2 DEF Receive, At
<1>4. req'[w] = [NoRequest EXCEPT !.pc = pc, !.inv = i, !.amount = a]
  BY <1>0, <1>2 DEF Receive
<1>5. req'[w].pc = pc /\ req'[w].inv = i
  BY <1>4 DEF NoRequest
<1>6. \A v \in Worker \ {w} : req'[v] = req[v]
  BY <1>0, <1>2 DEF Receive
<1> QED
  BY <1>1, <1>3, <1>5, <1>6

\* Every step of the handlers is a step of the service, or none of it.
LEMMA ServiceStep ==
  ASSUME GatewayInv, [GatewayNext]_gatewayVars PROVE [Next]_vars
<1>1. ASSUME NEW w \in Worker, GatewayProceed(w) PROVE [Next]_vars
  <2>1. CASE GrpcCallService(w)
    <3>1. ~At(w, "idle") \/ rpc[w].inv \in InvoiceId
      BY <2>1 DEF GrpcCallService, GatewayInv, GatewayTables, CallOK, InRpc
    <3>2. At(w, "idle")
      BY <2>1 DEF GrpcCallService, ApproveInvoice, RejectInvoice, RecallInvoice, Receive
    <3>3. Begin(w, rpc[w].inv)
      BY <2>1 DEF GrpcCallService, Begin
    <3> QED
      BY <3>1, <3>2, <3>3 DEF Next, Serve
  <2>2. CASE GrpcSubmitUpdate(w) \/ GrpcApproveUpdate(w) \/ GrpcReturnUpdate(w) \/ PlainExec(w)
    <3>1. Proceed(w)
      BY <2>2, PlainGoesOn DEF GrpcSubmitUpdate, GrpcApproveUpdate, GrpcReturnUpdate, Proceed
    <3> QED
      BY <3>1 DEF Next, Serve
  <2>3. CASE UNCHANGED vars
    BY <2>3
  <2> QED
    BY <1>1, <2>1, <2>2, <2>3 DEF GatewayProceed, GrpcFetch, GrpcCreateWorkflow, GrpcApproveStep,
       GrpcRejectWorkflow, GrpcRecallWorkflow, GrpcDelegateStep, GrpcRefused, GrpcAnnounce
<1>2. ASSUME NEW w \in Worker, HttpUpdate(w) PROVE [Next]_vars
  <2>1. Proceed(w)
    BY <1>2 DEF HttpUpdate, Proceed
  <2> QED
    BY <2>1 DEF Next, Serve
<1>3. ASSUME NEW w \in Worker, GatewayAbort(w) PROVE [Next]_vars
  <2>1. CASE At(w, "idle")
    <3>1. req[w] = NoRequest /\ req \in [Worker -> Request]
      BY <2>1 DEF At, GatewayInv, CallOK, TypeInv, TypeOK, RequestsOK
    <3>2. req' = req
      BY <1>3, <3>1 DEF GatewayAbort, Finish
    <3> QED
      BY <1>3, <3>2 DEF GatewayAbort, vars
  <2>2. CASE ~At(w, "idle")
    BY <1>3, <2>2 DEF GatewayAbort, Abort, Next
  <2> QED
    BY <2>1, <2>2
<1>4. ASSUME NEW w \in Worker, NEW i \in InvoiceId, GatewayCall(w, i) \/ HttpRequest(w, i)
      PROVE  [Next]_vars
  <2>1. CASE Begin(w, i)
    BY <2>1 DEF Next, Serve
  <2>2. CASE UNCHANGED vars
    BY <2>2
  <2> QED
    BY <1>4, <2>1, <2>2, PlainStarts DEF GatewayCall, HttpRequest, GrpcCall, GrpcSubmit,
       GrpcApprove, GrpcReject, GrpcRecall, GrpcDelegate, Begin
<1>5. CASE GatewayCreate
  BY <1>5 DEF GatewayCreate, Next, Serve
<1>6. CASE UNCHANGED gatewayVars
  BY <1>6 DEF gatewayVars
<1> QED
  BY <1>1, <1>2, <1>3, <1>4, <1>5, <1>6 DEF GatewayNext

\* A handler and its service operation are a worker's own.
Alone(w) ==
    \A v \in Worker \ {w} : rpc'[v] = rpc[v] /\ req'[v] = req[v]

\* What a step of worker w is: of a call it has taken, or the start of one.
WorkerStep(w) ==
    \/ GatewayProceed(w)
    \/ HttpUpdate(w)
    \/ GatewayAbort(w)
    \/ \E i \in InvoiceId : GatewayCall(w, i) \/ HttpRequest(w, i)

\* A worker leaves the calls of the others alone.
LEMMA WorkersAlone ==
  ASSUME GatewayInv, NEW w \in Worker, WorkerStep(w) PROVE Alone(w)
<1>0. rpc \in [Worker -> Rpc] /\ req \in [Worker -> Request]
  BY DEF GatewayInv, GatewayTables, TypeInv, TypeOK, RequestsOK
<1>1. \A v \in Worker \ {w} : rpc'[v] = rpc[v]
  <2>1. ASSUME NEW i, NEW u, NEW pc, NEW x, Call(w, i, u, pc, x)
        PROVE  \A v \in Worker \ {w} : rpc'[v] = rpc[v]
    BY <1>0, <2>1 DEF Call
  <2>2. ASSUME NEW pc, Go(w, pc) PROVE \A v \in Worker \ {w} : rpc'[v] = rpc[v]
    BY <1>0, <2>2 DEF Go
  <2>3. ASSUME Reply(w) PROVE \A v \in Worker \ {w} : rpc'[v] = rpc[v]
    BY <1>0, <2>3 DEF Reply
  <2>4. CASE GatewayProceed(w)
    BY <1>0, <2>2, <2>3, <2>4 DEF GatewayProceed, GrpcSubmitUpdate, GrpcFetch, GrpcCreateWorkflow,
       GrpcApproveStep, GrpcRejectWorkflow, GrpcRecallWorkflow, GrpcDelegateStep, GrpcCallService,
       GrpcRefused, GrpcApproveUpdate, GrpcReturnUpdate, GrpcAnnounce, PlainExec
  <2>5. CASE HttpUpdate(w) \/ GatewayAbort(w)
    BY <2>3, <2>5 DEF HttpUpdate, GatewayAbort
  <2>6. ASSUME NEW i \in InvoiceId, GatewayCall(w, i) \/ HttpRequest(w, i)
        PROVE  \A v \in Worker \ {w} : rpc'[v] = rpc[v]
    BY <2>1, <2>6 DEF GatewayCall, HttpRequest, PlainRequest, GrpcCall, GrpcSubmit, GrpcApprove,
       GrpcReject, GrpcRecall, GrpcDelegate
  <2> QED
    BY <2>4, <2>5, <2>6 DEF WorkerStep
<1>2. \A v \in Worker \ {w} : req'[v] = req[v]
  <2>1. ASSUME NEW i, NEW pc, NEW a, Receive(w, i, pc, a)
        PROVE  \A v \in Worker \ {w} : req'[v] = req[v]
    BY <1>0, <2>1 DEF Receive
  <2>2. ASSUME Finish(w) PROVE \A v \in Worker \ {w} : req'[v] = req[v]
    BY <1>0, <2>2 DEF Finish
  <2>3. CASE UNCHANGED req
    BY <2>3
  <2>4. CASE GatewayProceed(w)
    BY <2>1, <2>2, <2>3, <2>4, PlainGoesOn DEF GatewayProceed, GrpcSubmitUpdate, GrpcFetch,
       GrpcCreateWorkflow, GrpcApproveStep, GrpcRejectWorkflow, GrpcRecallWorkflow, GrpcDelegateStep,
       GrpcCallService, GrpcRefused, GrpcApproveUpdate, GrpcReturnUpdate, GrpcAnnounce, vars,
       ApproveInvoice, RejectInvoice, RecallInvoice, SubmitUpdate, ApproveUpdate, RejectUpdate,
       RecallUpdate, WriteInvoices
  <2>5. CASE HttpUpdate(w) \/ GatewayAbort(w)
    BY <2>2, <2>5 DEF HttpUpdate, GatewayAbort, SubmitUpdate, ApproveUpdate, WriteInvoices
  <2>6. ASSUME NEW i \in InvoiceId, GatewayCall(w, i) \/ HttpRequest(w, i)
        PROVE  \A v \in Worker \ {w} : req'[v] = req[v]
    BY <2>1, <2>3, <2>6, PlainStarts DEF GatewayCall, HttpRequest, GrpcCall, GrpcSubmit,
       GrpcApprove, GrpcReject, GrpcRecall, GrpcDelegate, SubmitForApproval, ApproveInvoice, vars
  <2> QED
    BY <2>4, <2>5, <2>6 DEF WorkerStep
<1> QED
  BY <1>1, <1>2 DEF Alone

\* The workflow y is kept: it never changes its invoice, and only the call
\* that holds it changes anything else of it.
WorkflowKept(w, y) ==
    /\ workflows[y].status # "none" =>
          workflows'[y].inv = workflows[y].inv /\ workflows'[y].status # "none"
    /\ workflows'[y] # workflows[y] =>
          \/ workflows[y].status = "none" /\ workflows'[y].inv = rpc[w].inv
          \/ rpc[w].wf = y /\ workflows[y].status = "in_progress"

\* be-plt-approvals keeps its workflows well formed.
LEMMA WorkflowsStep ==
  ASSUME GatewayInv, NEW w \in Worker, WorkerStep(w)
  PROVE  /\ workflows' \in [WorkflowId -> Workflow]
         /\ \A y \in WorkflowId : WorkflowKept(w, y)
<1> DEFINE Good == /\ workflows' \in [WorkflowId -> Workflow]
                   /\ \A y \in WorkflowId : WorkflowKept(w, y)
           c == rpc[w]
<1>0. workflows \in [WorkflowId -> Workflow] /\ c \in Rpc /\ CallOK(c, req[w])
  BY DEF GatewayInv, GatewayTables
<1>1. ASSUME UNCHANGED workflows PROVE Good
  BY <1>0, <1>1 DEF WorkflowKept
<1>2. ASSUME NEW x \in WorkflowId, NEW r \in Workflow, workflows' = [workflows EXCEPT ![x] = r],
             \/ workflows[x].status = "none" /\ r.inv = c.inv
             \/ /\ c.wf = x /\ workflows[x].status = "in_progress"
                /\ r.inv = workflows[x].inv /\ r.status # "none"
      PROVE  Good
  BY <1>0, <1>2 DEF WorkflowKept
<1>3. CASE GrpcCreateWorkflow(w)
  <2>1. PICK x \in WorkflowId, n \in StepCounts :
          /\ workflows[x].status = "none"
          /\ workflows' = [workflows EXCEPT ![x] =
                [status |-> "in_progress", inv |-> c.inv, by |-> c.user, step |-> 1, total |-> n]]
    BY <1>3 DEF GrpcCreateWorkflow
  <2> DEFINE r == [status |-> "in_progress", inv |-> c.inv, by |-> c.user, step |-> 1, total |-> n]
  <2>2. r \in Workflow /\ r.inv = c.inv
    BY <1>0, StepCountsAssumption DEF Workflow, Rpc
  <2> QED
    BY <1>2, <2>1, <2>2
<1>4. ASSUME c.pc \in WithWorkflow, workflows[c.wf].status = "in_progress",
             NEW s \in {"approved", "rejected", "recalled"}, workflows' = SetWorkflow(c.wf, s)
      PROVE  Good
  <2> DEFINE r == [workflows[c.wf] EXCEPT !.status = s]
  <2>1. c.wf \in WorkflowId /\ workflows[c.wf] \in Workflow
    BY <1>0, <1>4 DEF CallOK
  <2>2. r \in Workflow /\ r.inv = workflows[c.wf].inv /\ r.status # "none"
    BY <2>1 DEF Workflow
  <2>3. workflows' = [workflows EXCEPT ![c.wf] = r]
    BY <1>4 DEF SetWorkflow
  <2> QED
    BY <1>2, <1>4, <2>1, <2>2, <2>3
<1>5. CASE GrpcApproveStep(w)
  <2>1. c.pc \in WithWorkflow /\ c.wf \in WorkflowId /\ workflows[c.wf] \in Workflow
    BY <1>0, <1>5 DEF GrpcApproveStep, InRpc, WithWorkflow, CallOK
  <2>2. CASE workflows' = [workflows EXCEPT ![c.wf].step = @ + 1]
             /\ workflows[c.wf].status = "in_progress"
    <3> DEFINE r == [workflows[c.wf] EXCEPT !.step = workflows[c.wf].step + 1]
    <3>1. r \in Workflow /\ r.inv = workflows[c.wf].inv /\ r.status = "in_progress"
      BY <2>1, <2>2 DEF Workflow
    <3>2. workflows' = [workflows EXCEPT ![c.wf] = r]
      BY <2>2
    <3> QED
      BY <1>2, <2>1, <2>2, <3>1, <3>2
  <2> QED
    BY <1>1, <1>4, <1>5, <2>1, <2>2 DEF GrpcApproveStep, AfterStep
<1>6. CASE GrpcRejectWorkflow(w) \/ GrpcRecallWorkflow(w)
  BY <1>1, <1>4, <1>6 DEF GrpcRejectWorkflow, GrpcRecallWorkflow, InRpc, WithWorkflow
<1>7. CASE GatewayProceed(w)
  BY <1>1, <1>3, <1>5, <1>6, <1>7 DEF GatewayProceed, GrpcSubmitUpdate, GrpcFetch,
     GrpcDelegateStep,
       GrpcCallService, GrpcRefused, GrpcApproveUpdate, GrpcReturnUpdate, GrpcAnnounce, PlainExec
<1>8. CASE HttpUpdate(w) \/ GatewayAbort(w)
  BY <1>1, <1>8 DEF HttpUpdate, GatewayAbort
<1>9. ASSUME NEW i \in InvoiceId, GatewayCall(w, i) \/ HttpRequest(w, i) PROVE Good
  BY <1>1, <1>9 DEF GatewayCall, HttpRequest, PlainRequest, GrpcCall, GrpcSubmit, GrpcApprove,
       GrpcReject, GrpcRecall, GrpcDelegate
<1> QED
  BY <1>7, <1>8, <1>9 DEF WorkerStep

\* The columns that name a user, and the history, keep their types.
LEMMA ColumnsStep ==
  ASSUME GatewayInv, [GatewayNext]_gatewayVars
  PROVE  /\ updatedBy' \in [InvoiceId -> User \cup {Nil}]
         /\ approvedBy' \in [InvoiceId -> User \cup {Nil}]
         /\ disturbed' \subseteq InvoiceId
<1>0. GatewayTables
  BY DEF GatewayInv
<1>1. ASSUME NEW w \in Worker, GatewayProceed(w)
      PROVE  UNCHANGED updatedBy \/ \E i : updatedBy' = [updatedBy EXCEPT ![i] = rpc[w].user]
  BY <1>1 DEF GatewayProceed, GrpcSubmitUpdate, GrpcFetch, GrpcCreateWorkflow, GrpcApproveStep,
     GrpcRejectWorkflow, GrpcRecallWorkflow, GrpcDelegateStep, GrpcCallService, GrpcRefused,
     GrpcApproveUpdate, GrpcReturnUpdate, GrpcAnnounce, PlainExec, users
<1>2. ASSUME NEW w \in Worker, GatewayProceed(w)
      PROVE  /\ UNCHANGED approvedBy \/ \E i : approvedBy' = [approvedBy EXCEPT ![i] = rpc[w].user]
             /\ UNCHANGED disturbed
  BY <1>2 DEF GatewayProceed, GrpcSubmitUpdate, GrpcFetch, GrpcCreateWorkflow, GrpcApproveStep,
     GrpcRejectWorkflow, GrpcRecallWorkflow, GrpcDelegateStep, GrpcCallService, GrpcRefused,
     GrpcApproveUpdate, GrpcReturnUpdate, GrpcAnnounce, PlainExec, users
<1>3. ASSUME NEW w \in Worker, HttpUpdate(w)
      PROVE  /\ UNCHANGED updatedBy \/ \E i : updatedBy' = [updatedBy EXCEPT ![i] = Nil]
             /\ UNCHANGED approvedBy \/ \E i : approvedBy' = [approvedBy EXCEPT ![i] = Nil]
             /\ UNCHANGED disturbed
  BY <1>3 DEF HttpUpdate
<1>4. ASSUME NEW w \in Worker, GatewayAbort(w) PROVE UNCHANGED users /\ disturbed' \subseteq InvoiceId
  BY <1>0, <1>4 DEF GatewayAbort, users, GatewayTables
<1>5. ASSUME NEW w \in Worker, NEW i \in InvoiceId, GatewayCall(w, i) \/ HttpRequest(w, i)
      PROVE  UNCHANGED users /\ disturbed' \subseteq InvoiceId
  BY <1>0, <1>5 DEF GatewayCall, HttpRequest, PlainRequest, GrpcCall, GrpcSubmit, GrpcApprove,
     GrpcReject, GrpcRecall, GrpcDelegate, users, GatewayTables
<1>6. \A w \in Worker : rpc[w].user \in User \cup {Nil}
  BY <1>0 DEF GatewayTables, Rpc
<1>7. ASSUME NEW w \in Worker, GatewayProceed(w) \/ HttpUpdate(w)
      PROVE  /\ updatedBy' \in [InvoiceId -> User \cup {Nil}]
             /\ approvedBy' \in [InvoiceId -> User \cup {Nil}]
             /\ disturbed' \subseteq InvoiceId
  <2>1. \A u \in User \cup {Nil} : \A i : [updatedBy EXCEPT ![i] = u] \in [InvoiceId -> User \cup {Nil}]
    BY <1>0 DEF GatewayTables
  <2>2. \A u \in User \cup {Nil} : \A i : [approvedBy EXCEPT ![i] = u] \in [InvoiceId -> User \cup {Nil}]
    BY <1>0 DEF GatewayTables
  <2>3. updatedBy' \in [InvoiceId -> User \cup {Nil}]
    BY <1>0, <1>1, <1>3, <1>6, <1>7, <2>1 DEF GatewayTables
  <2>4. approvedBy' \in [InvoiceId -> User \cup {Nil}]
    BY <1>0, <1>2, <1>3, <1>6, <1>7, <2>2 DEF GatewayTables
  <2> QED
    BY <1>0, <1>2, <1>3, <1>7, <2>3, <2>4 DEF GatewayTables
<1> QED
  BY <1>0, <1>4, <1>5, <1>7 DEF GatewayNext, GatewayCreate, gatewayVars, users, GatewayTables

\* The worker that acts: its handler and its service operation stay together.
LEMMA CallStep ==
  ASSUME GatewayInv, NEW w \in Worker, WorkerStep(w)
  PROVE  rpc'[w] \in Rpc /\ CallOK(rpc[w], req[w])'
<1> DEFINE c == rpc[w]
           r == req[w]
           d == rpc'[w]
           s == req'[w]
           Good == d \in Rpc /\ CallOK(rpc[w], req[w])'
<1>0. /\ rpc \in [Worker -> Rpc] /\ req \in [Worker -> Request]
      /\ c \in Rpc /\ r \in Request /\ CallOK(c, r)
      /\ workflows \in [WorkflowId -> Workflow]
  BY DEF GatewayInv, GatewayTables, TypeInv, TypeOK, RequestsOK
<1>1. \A y \in WorkflowId : WorkflowKept(w, y)
  BY WorkflowsStep
<1>2. ASSUME Reply(w), s = NoRequest PROVE Good
  <2>1. d = NoRpc /\ NoRpc \in Rpc /\ NoRpc.pc = "idle" /\ NoRpc.wf = Nil
    BY <1>0, <1>2 DEF Reply, NoRpc, Rpc, RpcStep
  <2>2. NoRequest.pc = "idle"
    BY DEF NoRequest
  <2> QED
    BY <1>2, <2>1, <2>2 DEF CallOK, WithWorkflow, Operations, Announcement
<1>3. ASSUME NEW pc \in RpcStep \ {"idle"}, Go(w, pc), c.pc # "idle",
             pc \in WithWorkflow => c.wf \in WorkflowId,
             s = NoRequest, "idle" \in Operations(pc)
      PROVE  Good
  <2>1. d = [c EXCEPT !.pc = pc]
    BY <1>0, <1>3 DEF Go
  <2>2. d \in Rpc /\ d.pc = pc /\ d.inv = c.inv /\ d.wf = c.wf
    BY <1>0, <2>1 DEF Rpc
  <2>3. c.wf # Nil => c.wf \in WorkflowId
    BY <1>0 DEF Rpc
  <2>4. d.wf # Nil => workflows'[d.wf].inv = d.inv /\ workflows'[d.wf].status # "none"
    BY <1>0, <1>1, <2>2, <2>3 DEF CallOK, WorkflowKept
  <2>5. NoRequest.pc = "idle"
    BY DEF NoRequest
  <2> QED
    BY <1>0, <1>3, <2>2, <2>4, <2>5 DEF CallOK
<1>4. ASSUME NEW i \in InvoiceId, NEW u \in User, NEW pc \in RpcStep \ {"idle"}, NEW x \in {Nil} \cup WorkflowId,
             Call(w, i, u, pc, x), pc \in WithWorkflow => x \in WorkflowId, UNCHANGED workflows,
             x # Nil => workflows[x].inv = i /\ workflows[x].status = "in_progress",
             s.pc \in Operations(pc), s = NoRequest \/ (s.inv = i /\ s.pc # "idle")
      PROVE  Good
  <2>1. d = [pc |-> pc, inv |-> i, user |-> u, wf |-> x, step |-> IF x = Nil THEN 0 ELSE workflows[x].step]
    BY <1>0, <1>4 DEF Call
  <2>2. (IF x = Nil THEN 0 ELSE workflows[x].step) \in Nat
    BY <1>0 DEF Workflow
  <2>3. d \in Rpc
    BY <2>1, <2>2 DEF Rpc
  <2>4. NoRequest.pc = "idle"
    BY DEF NoRequest
  <2> QED
    BY <1>4, <2>1, <2>3, <2>4 DEF CallOK
<1>5. ASSUME UNCHANGED rpc, s.pc \in Operations(c.pc), s.pc = "idle" => s = NoRequest,
             c.pc # "idle" /\ s.pc # "idle" => s.inv = c.inv
      PROVE  Good
  <2>1. c.wf # Nil => c.wf \in WorkflowId
    BY <1>0 DEF Rpc
  <2>2. c.wf # Nil => workflows'[c.wf].inv = c.inv /\ workflows'[c.wf].status # "none"
    BY <1>0, <1>1, <2>1 DEF CallOK, WorkflowKept
  <2> QED
    BY <1>0, <1>5, <2>2 DEF CallOK
<1>6. ASSUME Finish(w) PROVE s = NoRequest
  BY <1>0, <1>6 DEF Finish
<1>7. ASSUME UNCHANGED req, r.pc = "idle" PROVE s = NoRequest
  BY <1>0, <1>7 DEF CallOK
<1>8. ASSUME NEW pc, NEW i, NEW a, Receive(w, i, pc, a), pc # "idle"
      PROVE  s.pc = pc /\ s.inv = i /\ r.pc = "idle"
  BY <1>0, <1>8 DEF Receive, NoRequest, At
<1>9. CASE GrpcSubmitUpdate(w)
  BY <1>2, <1>3, <1>6, <1>9 DEF GrpcSubmitUpdate, SubmitUpdate, WriteInvoices, InRpc, RpcStep,
     Operations, WithWorkflow, Announcement
<1>10. CASE GrpcFetch(w)
  <2>1. s = NoRequest
    BY <1>0, <1>7, <1>10 DEF GrpcFetch, vars, InRpc, CallOK, Operations
  <2> QED
    BY <1>2, <1>3, <1>10, <2>1 DEF GrpcFetch, InRpc, RpcStep, Operations, WithWorkflow,
       Announcement
<1>11. CASE GrpcCreateWorkflow(w)
  <2>1. s = NoRequest
    BY <1>0, <1>7, <1>11 DEF GrpcCreateWorkflow, vars, InRpc, CallOK, Operations
  <2>2. PICK x \in WorkflowId, n \in StepCounts :
          /\ workflows' = [workflows EXCEPT ![x] =
                [status |-> "in_progress", inv |-> c.inv, by |-> c.user, step |-> 1, total |-> n]]
          /\ rpc' = [rpc EXCEPT ![w] = [@ EXCEPT !.pc = "tell_submitted", !.wf = x]]
    BY <1>11 DEF GrpcCreateWorkflow
  <2>3. d = [c EXCEPT !.pc = "tell_submitted", !.wf = x]
    BY <1>0, <2>2
  <2>4. d \in Rpc /\ d.pc = "tell_submitted" /\ d.inv = c.inv /\ d.wf = x
    BY <1>0, <2>3 DEF Rpc, RpcStep, Announcement
  <2>5. workflows'[x].inv = c.inv /\ workflows'[x].status = "in_progress"
    BY <1>0, <2>2
  <2>6. c.inv \in InvoiceId /\ NoRequest.pc = "idle"
    BY <1>0, <1>11 DEF GrpcCreateWorkflow, InRpc, CallOK, NoRequest
  <2> QED
    BY <2>1, <2>4, <2>5, <2>6 DEF CallOK, Operations
<1>12. CASE GrpcApproveStep(w) \/ GrpcRejectWorkflow(w) \/ GrpcRecallWorkflow(w)
  <2>1. s = NoRequest /\ c.wf \in WorkflowId
    BY <1>0, <1>7, <1>12 DEF GrpcApproveStep, GrpcRejectWorkflow, GrpcRecallWorkflow, vars,
       InRpc, CallOK,
       Operations, WithWorkflow
  <2>2. PICK pc \in {"approve", "tell_required", "reject", "recall"} : Go(w, pc) \/ Reply(w)
    BY <1>12 DEF GrpcApproveStep, GrpcRejectWorkflow, GrpcRecallWorkflow
  <2>3. c.pc # "idle"
    BY <1>12 DEF GrpcApproveStep, GrpcRejectWorkflow, GrpcRecallWorkflow, InRpc
  <2>4. "idle" \in Operations(pc) /\ pc \in RpcStep \ {"idle"}
    BY DEF Operations, RpcStep, Announcement
  <2> QED
    BY <1>2, <1>3, <2>1, <2>2, <2>3, <2>4
<1>13. CASE GrpcDelegateStep(w) \/ GrpcRefused(w) \/ GrpcAnnounce(w)
  <2>1. s = NoRequest
    BY <1>0, <1>7, <1>13 DEF GrpcDelegateStep, GrpcRefused, GrpcAnnounce, vars, InRpc, At, CallOK,
       Operations, Announcement
  <2> QED
    BY <1>2, <1>13, <2>1 DEF GrpcDelegateStep, GrpcRefused, GrpcAnnounce
<1>14. CASE GrpcCallService(w)
  <2>1. UNCHANGED rpc
    BY <1>14 DEF GrpcCallService
  <2>2. s.pc \in Operations(c.pc) /\ s.pc # "idle" /\ s.inv = c.inv
    BY <1>8, <1>14 DEF GrpcCallService, ApproveInvoice, RejectInvoice, RecallInvoice, InRpc,
       Operations
  <2> QED
    BY <1>5, <2>1, <2>2
<1>15. CASE GrpcApproveUpdate(w) \/ GrpcReturnUpdate(w)
  <2>1. s = NoRequest
    BY <1>6, <1>15 DEF GrpcApproveUpdate, GrpcReturnUpdate, ApproveUpdate, RejectUpdate,
       RecallUpdate,
       WriteInvoices
  <2>2. \/ Reply(w)
        \/ Go(w, "tell_approved") /\ c.pc = "approve"
        \/ Go(w, "tell_rejected") /\ c.pc = "reject"
    BY <1>15 DEF GrpcApproveUpdate, GrpcReturnUpdate, InRpc
  <2> QED
    BY <1>0, <1>2, <1>3, <2>1, <2>2 DEF CallOK, WithWorkflow, RpcStep, Announcement, Operations
<1>16. CASE PlainExec(w) \/ HttpUpdate(w)
  <2>1. UNCHANGED rpc /\ c.pc = "idle" /\ (s = NoRequest \/ s.pc \in PlainSteps)
    BY <1>6, <1>16, PlainGoesOn DEF HttpUpdate, SubmitUpdate, ApproveUpdate, WriteInvoices, InRpc
  <2>2. NoRequest.pc = "idle" /\ "idle" \notin PlainSteps
    BY DEF NoRequest, PlainSteps, PostSteps, PaySteps
  <2> QED
    BY <1>5, <2>1, <2>2 DEF Operations
<1>17. CASE GatewayAbort(w)
  BY <1>2, <1>6, <1>17 DEF GatewayAbort
<1>18. ASSUME NEW i \in InvoiceId, PlainRequest(w, i) \/ HttpRequest(w, i) PROVE Good
  <2>1. UNCHANGED rpc /\ c.pc = "idle" /\ s.pc \in {"submit", "approve"} \cup PlainSteps
    BY <1>8, <1>18, PlainStarts DEF HttpRequest, SubmitForApproval, ApproveInvoice, InRpc
  <2>2. "idle" \notin PlainSteps
    BY DEF PlainSteps, PostSteps, PaySteps
  <2> QED
    BY <1>5, <2>1, <2>2 DEF Operations
<1>19. ASSUME NEW i \in InvoiceId, NEW u \in User, GrpcCall(w, i, u) PROVE Good
  <2>1. CASE GrpcSubmit(w, i, u)
    <3>1. s.pc = "submit" /\ s.inv = i /\ Call(w, i, u, "submit", Nil) /\ UNCHANGED workflows
      BY <1>8, <2>1 DEF GrpcSubmit, SubmitForApproval
    <3> QED
      BY <1>4, <3>1 DEF Operations, RpcStep, WithWorkflow, Announcement
  <2>2. CASE ~GrpcSubmit(w, i, u)
    <3>1. s = NoRequest /\ UNCHANGED workflows
      BY <1>7, <1>19, <2>2 DEF GrpcCall, GrpcApprove, GrpcReject, GrpcRecall, GrpcDelegate,
         Free, At, vars
    <3>2. PICK x \in {Nil} \cup WorkflowId, pc \in {"legacy", "approve_step", "reject_wf", "recall", "recall_wf", "delegate_wf"} :
             /\ Call(w, i, u, pc, x)
             /\ x # Nil => Active(x, i)
             /\ pc \in WithWorkflow => x \in WorkflowId
      BY <1>19, <2>2 DEF GrpcCall, GrpcApprove, GrpcReject, GrpcRecall, GrpcDelegate, FindActive,
         ActiveWorkflows, WithWorkflow, Announcement
    <3>3. pc \in RpcStep \ {"idle"} /\ "idle" \in Operations(pc)
      BY DEF RpcStep, Operations
    <3>4. NoRequest.pc = "idle"
      BY DEF NoRequest
    <3> QED
      BY <1>4, <3>1, <3>2, <3>3, <3>4 DEF Active
  <2> QED
    BY <2>1, <2>2
<1> QED
  BY <1>9, <1>10, <1>11, <1>12, <1>13, <1>14, <1>15, <1>16, <1>17, <1>18, <1>19
     DEF WorkerStep, GatewayProceed, GatewayCall

\* A call that has not acted stays in step with its service operation.
LEMMA OtherCallsStep ==
  ASSUME GatewayInv, NEW w \in Worker, WorkerStep(w), NEW v \in Worker \ {w}
  PROVE  rpc'[v] \in Rpc /\ CallOK(rpc[v], req[v])'
<1>1. /\ rpc[v] \in Rpc /\ CallOK(rpc[v], req[v])
      /\ rpc'[v] = rpc[v] /\ req'[v] = req[v]
  BY WorkersAlone DEF GatewayInv, GatewayTables, Alone
<1>2. rpc[v].wf # Nil => rpc[v].wf \in WorkflowId
  BY <1>1 DEF Rpc
<1>3. rpc[v].wf # Nil => WorkflowKept(w, rpc[v].wf)
  BY <1>2, WorkflowsStep
<1> QED
  BY <1>1, <1>3 DEF CallOK, WorkflowKept

\* Every step of the handlers keeps the types.
LEMMA GatewayStep == GatewayInv /\ [GatewayNext]_gatewayVars => GatewayInv'
<1> SUFFICES ASSUME GatewayInv, [GatewayNext]_gatewayVars PROVE GatewayInv'
  OBVIOUS
<1>1. TypeInv'
  BY ServiceStep, TypeStep DEF GatewayInv
<1>0. rpc \in [Worker -> Rpc] /\ workflows \in [WorkflowId -> Workflow]
  BY DEF GatewayInv, GatewayTables
<1>2. ASSUME NEW w \in Worker, WorkerStep(w)
      PROVE  /\ workflows' \in [WorkflowId -> Workflow] /\ rpc' \in [Worker -> Rpc]
             /\ \A v \in Worker : CallOK(rpc[v], req[v])'
  <2>1. workflows' \in [WorkflowId -> Workflow]
    BY <1>2, WorkflowsStep
  <2>2. \A v \in Worker : rpc'[v] \in Rpc /\ CallOK(rpc[v], req[v])'
    BY <1>2, CallStep, OtherCallsStep
  <2>3. \E d : rpc' = [rpc EXCEPT ![w] = d]
    <3>1. CASE UNCHANGED rpc
      BY <1>0, <3>1
    <3>2. CASE \E d : rpc' = [rpc EXCEPT ![w] = d]
      BY <3>2
    <3> QED
      BY <1>2, <3>1, <3>2 DEF WorkerStep, GatewayProceed, HttpUpdate, GatewayAbort,
         GatewayCall, HttpRequest,
       GrpcSubmitUpdate, GrpcFetch, GrpcCreateWorkflow, GrpcApproveStep, GrpcRejectWorkflow,
       GrpcRecallWorkflow, GrpcDelegateStep, GrpcCallService, GrpcRefused, GrpcApproveUpdate,
       GrpcReturnUpdate, GrpcAnnounce, PlainExec, PlainRequest, GrpcCall, GrpcSubmit, GrpcApprove,
       GrpcReject, GrpcRecall, GrpcDelegate, Call, Go, Reply
  <2>4. DOMAIN rpc' = Worker /\ rpc' = [v \in Worker |-> rpc'[v]]
    BY <1>0, <2>3
  <2> QED
    BY <2>1, <2>2, <2>4
<1>3. ASSUME UNCHANGED <<workflows, rpc, req>>
      PROVE  /\ workflows' \in [WorkflowId -> Workflow] /\ rpc' \in [Worker -> Rpc]
             /\ \A v \in Worker : CallOK(rpc[v], req[v])'
  BY <1>0, <1>3 DEF GatewayInv, CallOK
<1>4. /\ workflows' \in [WorkflowId -> Workflow] /\ rpc' \in [Worker -> Rpc]
      /\ \A v \in Worker : CallOK(rpc[v], req[v])'
  BY <1>2, <1>3 DEF GatewayNext, WorkerStep, GatewayCreate, CreateInvoice, gatewayVars, vars
<1> QED
  BY <1>1, <1>4, ColumnsStep DEF GatewayInv, GatewayTables

\* The services start empty and nobody is calling.
LEMMA GatewayStart == GatewayInit => GatewayInv
<1> SUFFICES ASSUME GatewayInit PROVE GatewayInv
  OBVIOUS
<1>1. TypeInv
  BY TypeInit DEF GatewayInit
<1>2. GatewayTables
  BY DEF GatewayInit, GatewayTables, NoWorkflow, Workflow, NoRpc, Rpc, RpcStep
<1>3. ASSUME NEW w \in Worker PROVE CallOK(rpc[w], req[w])
  <2>1. rpc[w] = NoRpc /\ NoRpc.pc = "idle" /\ NoRpc.wf = Nil
    BY DEF GatewayInit, NoRpc
  <2>2. req[w] = NoRequest /\ NoRequest.pc = "idle"
    BY DEF GatewayInit, Init, NoRequest
  <2> QED
    BY <2>1, <2>2 DEF CallOK, WithWorkflow, Operations, Announcement
<1> QED
  BY <1>1, <1>2, <1>3 DEF GatewayInv

\* The invariant implies what the runs check.
LEMMA GatewayTypes == GatewayInv => GatewayTypeOK
BY DEF GatewayInv, GatewayTables, GatewayTypeOK, TypeInv, CallOK, At

\* Whatever calls overlap or fail, over gRPC or HTTP: the types are kept, and
\* what a worker decides for an invoice it decides with a workflow of that
\* invoice or with none.
THEOREM GatewayTypeCorrect == GatewaySpec => []GatewayTypeOK
<1>1. GatewaySpec => []GatewayInv
  BY GatewayStart, GatewayStep, PTL DEF GatewaySpec
<1> QED
  BY <1>1, GatewayTypes, PTL

\* The handlers only use the service's own operations: what is proved of the
\* service for every client holds of it behind them.
THEOREM GatewayImplementsService == GatewaySpec => Spec
<1>1. GatewaySpec => []GatewayInv
  BY GatewayStart, GatewayStep, PTL DEF GatewaySpec
<1>2. GatewayInit => Init
  BY DEF GatewayInit
<1>3. GatewayInv /\ [GatewayNext]_gatewayVars => [Next]_vars
  BY ServiceStep
<1> QED
  BY <1>1, <1>2, <1>3, PTL DEF GatewaySpec, Spec

-----------------------------------------------------------------------------
(* Calls that do not overlap                                               *)

\* Calls kept apart keep the service's requests apart.
LEMMA CallsApart == GatewayInv /\ OneCallPerInvoice => OneRequestPerInvoice
<1> SUFFICES ASSUME GatewayInv, OneCallPerInvoice,
                    NEW v \in Worker, NEW w \in Worker, v # w, ~At(v, "idle"), ~At(w, "idle")
             PROVE  req[v].inv # req[w].inv
  BY DEF OneRequestPerInvoice
<1>1. req[v].inv \in InvoiceId
  BY DEF GatewayInv, TypeInv, TypeOK, RequestsOK, HoldsIds, At
<1> QED
  BY <1>1 DEF OneCallPerInvoice, Busy

\* The gateway's calls, kept apart, are requests kept apart.
LEMMA GatewayIsSerial == SerialGatewaySpec => []GatewayInv /\ SerialSpec
<1>1. SerialGatewaySpec => []GatewayInv
  <2>1. [GatewayNext /\ OneCallPerInvoice']_gatewayVars => [GatewayNext]_gatewayVars
    OBVIOUS
  <2> QED
    BY <2>1, GatewayStart, GatewayStep, PTL DEF SerialGatewaySpec
<1>2. GatewayInv /\ GatewayInv' /\ [GatewayNext /\ OneCallPerInvoice']_gatewayVars
        => [Next /\ OneRequestPerInvoice']_vars
  <2> SUFFICES ASSUME GatewayInv, GatewayInv', [GatewayNext /\ OneCallPerInvoice']_gatewayVars
               PROVE  [Next /\ OneRequestPerInvoice']_vars
    OBVIOUS
  <2>1. [Next]_vars
    BY ServiceStep
  <2>2. UNCHANGED vars \/ OneCallPerInvoice'
    BY DEF gatewayVars
  <2>3. GatewayInv' /\ OneCallPerInvoice' => OneRequestPerInvoice'
    BY CallsApart, PTL
  <2> QED
    BY <2>1, <2>2, <2>3
<1>3. GatewayInit => Init
  BY DEF GatewayInit
<1> QED
  BY <1>1, <1>2, <1>3, PTL DEF SerialGatewaySpec, SerialSpec

\* Behind the handlers, too, the invoices live the documented life cycle as
\* long as the calls for one invoice do not overlap.
THEOREM GatewayKeepsLifecycle == SerialGatewaySpec => RefinesLifecycle
BY GatewayIsSerial, ServiceImplementsLifecycle, PTL

-----------------------------------------------------------------------------
(* The two services                                                        *)

Quiet(i) == \A x \in WorkflowId : ~Active(x, i)

Pending(i) == invoices[i].status = "pending_approval"

\* All the steps of workflow x of invoice i are done.
Complete(x, i) ==
    /\ workflows[x].inv = i
    /\ workflows[x].status = "approved"
    /\ workflows[x].step = workflows[x].total

Agree(i) ==
    /\ Pending(i) <=> ~Quiet(i)
    /\ invoices[i].status \in Approved => \E x \in WorkflowId : Complete(x, i)

\* Handler c has changed one service and not yet the other.
Between(c) ==
    \/ c.pc \in {"fetch", "create_wf", "approve", "reject"}
    \/ c.pc = "recall" /\ c.wf # Nil

\* What handler c knows by its step.
Knows(c) ==
    /\ c.pc \in {"fetch", "create_wf", "approve", "legacy", "reject", "recall"}
          => Quiet(c.inv)
    /\ c.pc \in {"fetch", "create_wf"} => Pending(c.inv)
    /\ Between(c) /\ c.inv \notin disturbed => Pending(c.inv)
    /\ c.pc = "approve" => Complete(c.wf, c.inv)
    /\ c.pc = "reject" => workflows[c.wf].status = "rejected"

\* What handler c is about to announce.
Tells(c) ==
    /\ c.pc = "tell_submitted" => Pending(c.inv) /\ Active(c.wf, c.inv)
    /\ c.pc = "tell_required" => Active(c.wf, c.inv) /\ workflows[c.wf].step = c.step + 1
    /\ c.pc = "tell_approved" =>
          /\ invoices[c.inv].status = "approved"
          /\ workflows[c.wf].status = "approved"
    /\ c.pc = "tell_rejected" =>
          /\ invoices[c.inv].status = "draft"
          /\ workflows[c.wf].status = "rejected"

\* An invoice has one review at most, only while it is pending or after an
\* approval over HTTP; and the services agree but between their two changes.
Reviewed(i) ==
    /\ \A x, y \in WorkflowId : Active(x, i) /\ Active(y, i) => x = y
    /\ ~Quiet(i) => \/ Pending(i)
                    \/ invoices[i].status \in Approved /\ approvedBy[i] = Nil
    /\ i \notin disturbed /\ (\A w \in Worker : rpc[w].inv = i => ~Between(rpc[w]))
          => Agree(i)

\* An approval or a submission over HTTP is on record.
HttpSeen(c, r) ==
    c.pc = "idle" /\ r.pc \in {"submit", "approve"} => r.inv \in disturbed

StoryInv ==
    /\ OneCallPerInvoice
    /\ \A i \in InvoiceId : Reviewed(i)
    /\ \A w \in Worker : Knows(rpc[w]) /\ Tells(rpc[w]) /\ HttpSeen(rpc[w], req[w])

\* Workflow x is or was a review of invoice i.
Tied(x, i) == workflows[x].inv = i /\ workflows[x].status # "none"

\* A step that leaves both sides of invoice i as they are.
Kept(i) ==
    /\ invoices'[i] = invoices[i]
    /\ approvedBy'[i] = approvedBy[i]
    /\ \A x \in WorkflowId : workflows'[x] = workflows[x] \/ (~Tied(x, i) /\ ~Tied(x, i)')

\* A call leaves the invoices that are not its own as they are.
LEMMA ElsewhereKept ==
  ASSUME GatewayInv, NEW w \in Worker, WorkerStep(w), NEW i \in InvoiceId,
         rpc[w].inv # i, req[w].inv # i
  PROVE  Kept(i)
<1> DEFINE c == rpc[w]
<1>0. /\ invoices \in [InvoiceId -> Row] /\ approvedBy \in [InvoiceId -> User \cup {Nil}]
      /\ CallOK(c, req[w])
  BY DEF GatewayInv, GatewayTables, TypeInv, TypeOK, TablesOK
<1>1. ASSUME NEW x \in WorkflowId
      PROVE  workflows'[x] = workflows[x] \/ (~Tied(x, i) /\ ~Tied(x, i)')
  BY <1>0, WorkflowsStep, GatewayNilAssumption DEF WorkflowKept, CallOK, Tied
<1>2. invoices'[i] = invoices[i]
  <2>1. ASSUME Proceed(w) PROVE invoices'[i] = invoices[i]
    BY <2>1, RowsApart DEF Same, GatewayInv
  <2>2. CASE GatewayProceed(w) \/ HttpUpdate(w)
    BY <2>1, <2>2, PlainGoesOn DEF GatewayProceed, HttpUpdate, GrpcSubmitUpdate, GrpcFetch,
       GrpcCreateWorkflow, GrpcApproveStep, GrpcRejectWorkflow, GrpcRecallWorkflow, GrpcDelegateStep,
       GrpcCallService, GrpcRefused, GrpcApproveUpdate, GrpcReturnUpdate, GrpcAnnounce, Proceed, vars,
       ApproveInvoice, RejectInvoice, RecallInvoice, Receive
  <2>3. CASE GatewayAbort(w)
    BY <2>3 DEF GatewayAbort
  <2>4. CASE \E k \in InvoiceId : GatewayCall(w, k) \/ HttpRequest(w, k)
    BY <2>4, PlainStarts DEF GatewayCall, HttpRequest, GrpcCall, GrpcSubmit, GrpcApprove,
       GrpcReject, GrpcRecall, GrpcDelegate, SubmitForApproval, ApproveInvoice, Receive, vars
  <2> QED
    BY <2>2, <2>3, <2>4 DEF WorkerStep
<1>3. approvedBy'[i] = approvedBy[i]
  <2>1. CASE GrpcApproveUpdate(w) \/ HttpUpdate(w)
    BY <1>0, <2>1 DEF GrpcApproveUpdate, HttpUpdate, CallOK, At
  <2>2. CASE UNCHANGED approvedBy
    BY <2>2
  <2>3. CASE GatewayProceed(w)
    BY <2>1, <2>2, <2>3 DEF GatewayProceed, GrpcSubmitUpdate, GrpcFetch, GrpcCreateWorkflow,
       GrpcApproveStep, GrpcRejectWorkflow, GrpcRecallWorkflow, GrpcDelegateStep, GrpcCallService,
       GrpcRefused, GrpcReturnUpdate, GrpcAnnounce, PlainExec, users
  <2>4. CASE GatewayAbort(w)
    BY <2>4 DEF GatewayAbort, users
  <2>5. CASE \E k \in InvoiceId : GatewayCall(w, k) \/ HttpRequest(w, k)
    BY <2>5 DEF GatewayCall, HttpRequest, PlainRequest, GrpcCall, GrpcSubmit, GrpcApprove,
       GrpcReject, GrpcRecall, GrpcDelegate, users
  <2> QED
    BY <2>1, <2>3, <2>4, <2>5 DEF WorkerStep
<1> QED
  BY <1>1, <1>2, <1>3 DEF Kept

\* What the properties read of an invoice stays when the invoice is kept.
LEMMA KeptFacts ==
  ASSUME NEW i \in InvoiceId, Kept(i)
  PROVE  /\ Pending(i)' = Pending(i) /\ Quiet(i)' = Quiet(i) /\ Agree(i)' = Agree(i)
         /\ \A x \in WorkflowId : /\ Active(x, i)' = Active(x, i)
                                  /\ Complete(x, i)' = Complete(x, i)
<1>1. \A x \in WorkflowId : /\ Active(x, i)' <=> Active(x, i)
                            /\ Complete(x, i)' <=> Complete(x, i)
  BY DEF Kept, Tied, Active, Complete
<1>2. (Pending(i)' <=> Pending(i)) /\ (Quiet(i)' <=> Quiet(i)) /\ (Agree(i)' <=> Agree(i))
  BY <1>1 DEF Kept, Pending, Quiet, Agree
<1>3. /\ Pending(i) \in BOOLEAN /\ Pending(i)' \in BOOLEAN /\ Quiet(i) \in BOOLEAN /\ Quiet(i)' \in BOOLEAN
      /\ Agree(i) \in BOOLEAN /\ Agree(i)' \in BOOLEAN
  BY DEF Pending, Quiet, Agree
<1> QED
  BY <1>1, <1>2, <1>3 DEF Active, Complete

\* Nothing takes an invoice out of the history.
LEMMA HistoryGrows ==
  ASSUME NEW w \in Worker, WorkerStep(w) PROVE disturbed \subseteq disturbed'
BY DEF WorkerStep, GatewayProceed, HttpUpdate, GatewayAbort, GatewayCall, HttpRequest

\* A call that is taken or goes on is for the invoice it was made for.
LEMMA CallStays ==
  ASSUME GatewayInv, NEW w \in Worker, WorkerStep(w)
  PROVE  rpc'[w].inv \in {rpc[w].inv, Nil} \/ ~Between(rpc'[w])
<1> DEFINE Good == rpc'[w].inv \in {rpc[w].inv, Nil} \/ ~Between(rpc'[w])
<1>0. rpc \in [Worker -> Rpc] /\ rpc[w] \in Rpc
  BY DEF GatewayInv, GatewayTables
<1>1. ASSUME Reply(w) PROVE Good
  BY <1>0, <1>1 DEF Reply, NoRpc
<1>2. ASSUME NEW pc, Go(w, pc) PROVE Good
  BY <1>0, <1>2 DEF Go, Rpc
<1>3. ASSUME NEW i, NEW u, NEW x, NEW pc, Call(w, i, u, pc, x),
             pc \in {"submit", "approve_step", "legacy", "reject_wf", "recall_wf", "delegate_wf"}
                 \/ (pc = "recall" /\ x = Nil)
      PROVE  Good
  BY <1>0, <1>3 DEF Call, Between
<1>4. CASE UNCHANGED rpc
  BY <1>4
<1>5. CASE GrpcCreateWorkflow(w)
  <2>1. PICK x \in WorkflowId : rpc' = [rpc EXCEPT ![w] = [@ EXCEPT !.pc = "tell_submitted", !.wf = x]]
    BY <1>5 DEF GrpcCreateWorkflow
  <2> QED
    BY <1>0, <2>1 DEF Rpc
<1>6. CASE GatewayProceed(w) \/ GatewayAbort(w)
  BY <1>1, <1>2, <1>4, <1>5, <1>6 DEF GatewayProceed, GatewayAbort, GrpcSubmitUpdate, GrpcFetch,
       GrpcApproveStep, GrpcRejectWorkflow, GrpcRecallWorkflow, GrpcDelegateStep, GrpcCallService,
       GrpcRefused, GrpcApproveUpdate, GrpcReturnUpdate, GrpcAnnounce, PlainExec
<1>7. ASSUME NEW i \in InvoiceId, NEW u \in User, GrpcCall(w, i, u) PROVE Good
  BY <1>3, <1>7 DEF GrpcCall, GrpcSubmit, GrpcApprove, GrpcReject, GrpcRecall, GrpcDelegate
<1> QED
  BY <1>4, <1>6, <1>7 DEF WorkerStep, HttpUpdate, GatewayCall, HttpRequest, PlainRequest

\* The others' calls: what they know of their invoices stays so.
LEMMA OthersKnow ==
  ASSUME GatewayInv, StoryInv, NEW w \in Worker, WorkerStep(w), NEW v \in Worker \ {w}
  PROVE  Knows(rpc[v])' /\ Tells(rpc[v])' /\ HttpSeen(rpc[v], req[v])'
<1> DEFINE c == rpc[v]
<1>0. /\ rpc'[v] = c /\ req'[v] = req[v] /\ c \in Rpc
      /\ Knows(c) /\ Tells(c) /\ HttpSeen(c, req[v]) /\ CallOK(c, req[v])
  BY WorkersAlone DEF GatewayInv, GatewayTables, StoryInv, Alone
<1>1. HttpSeen(c, req[v])'
  BY <1>0, HistoryGrows DEF HttpSeen
<1>2. CASE c.pc = "idle"
  BY <1>0, <1>1, <1>2 DEF Knows, Tells, Between
<1>3. CASE c.pc # "idle"
  <2>1. PICK i \in InvoiceId : i = c.inv
    BY <1>0, <1>3 DEF CallOK
  <2>2. rpc[w].inv # i /\ req[w].inv # i
    BY <2>1 DEF StoryInv, OneCallPerInvoice, Busy
  <2>3. Kept(i)
    BY <2>2, ElsewhereKept
  <2>4. /\ Pending(i)' = Pending(i) /\ Quiet(i)' = Quiet(i)
        /\ \A x \in WorkflowId : /\ Active(x, i)' = Active(x, i)
                                 /\ Complete(x, i)' = Complete(x, i)
    BY <2>3, KeptFacts
  <2>5. c.wf # Nil => workflows'[c.wf] = workflows[c.wf]
    BY <1>0, <2>1, <2>3 DEF Kept, Tied, CallOK, Rpc
  <2>6. c.pc \in WithWorkflow => c.wf \in WorkflowId /\ c.wf # Nil
    BY <1>0, GatewayNilAssumption DEF CallOK
  <2>7. Knows(rpc[v])'
    BY <1>0, <2>1, <2>4, <2>5, <2>6, HistoryGrows DEF Knows, Between, WithWorkflow
  <2>8. Tells(rpc[v])'
    BY <1>0, <2>1, <2>3, <2>4, <2>5, <2>6 DEF Tells, WithWorkflow, Announcement, Kept
  <2> QED
    BY <1>1, <2>7, <2>8
<1> QED
  BY <1>2, <1>3

\* The reviews of the other invoices are as they were.
LEMMA ElsewhereReviewed ==
  ASSUME GatewayInv, StoryInv, NEW w \in Worker, WorkerStep(w), NEW i \in InvoiceId,
         rpc[w].inv # i, req[w].inv # i
  PROVE  Reviewed(i)'
<1>1. Kept(i) /\ Reviewed(i)
  BY ElsewhereKept DEF StoryInv
<1>2. /\ Pending(i)' = Pending(i) /\ Quiet(i)' = Quiet(i) /\ Agree(i)' = Agree(i)
      /\ \A x \in WorkflowId : Active(x, i)' = Active(x, i)
  BY <1>1, KeptFacts
<1>3. ASSUME \A v \in Worker : rpc'[v].inv = i => ~Between(rpc'[v])
      PROVE  \A v \in Worker : rpc[v].inv = i => ~Between(rpc[v])
  BY <1>3, WorkersAlone DEF Alone
<1>4. i \notin disturbed' => i \notin disturbed
  BY HistoryGrows
<1> QED
  BY <1>1, <1>2, <1>3, <1>4 DEF Reviewed, Kept, Between

\* What a worker that acts for invoice i finds.
Finds(w, i) ==
    /\ rpc[w] \in Rpc /\ req[w] \in Request /\ HoldsIds(req[w])
    /\ rpc \in [Worker -> Rpc] /\ workflows \in [WorkflowId -> Workflow]
    /\ CallOK(rpc[w], req[w]) /\ Fresh(req[w])
    /\ Reviewed(i) /\ Knows(rpc[w]) /\ Tells(rpc[w]) /\ HttpSeen(rpc[w], req[w])
    /\ disturbed \subseteq disturbed'
    /\ \A v \in Worker \ {w} : rpc'[v].inv # i
    /\ i \notin disturbed /\ (rpc[w].inv = i => ~Between(rpc[w])) => Agree(i)

\* No other call is on the invoice of a worker's call.
LEMMA WorkerFinds ==
  ASSUME GatewayInv, SerialInv, StoryInv, NEW w \in Worker, WorkerStep(w),
         NEW i \in InvoiceId, Busy(w, i)
  PROVE  Finds(w, i)
<1>1. \A v \in Worker \ {w} : rpc[v].inv # i /\ rpc'[v] = rpc[v]
  BY WorkersAlone DEF Alone, StoryInv, OneCallPerInvoice, Busy
<1>2. i \notin disturbed /\ (rpc[w].inv = i => ~Between(rpc[w])) => Agree(i)
  BY <1>1 DEF StoryInv, Reviewed
<1> QED
  BY <1>1, <1>2, HistoryGrows
     DEF Finds, GatewayInv, GatewayTables, StoryInv, SerialInv, TypeInv, TypeOK, RequestsOK

\* What the worker has to leave behind.
Leaves(w, i) ==
    /\ \A x, y \in WorkflowId : Active(x, i)' /\ Active(y, i)' => x = y
    /\ ~Quiet(i)' => \/ Pending(i)'
                     \/ invoices'[i].status \in Approved /\ approvedBy'[i] = Nil
    /\ i \notin disturbed' /\ (rpc'[w].inv = i => ~Between(rpc'[w])) => Agree(i)'
    /\ Knows(rpc[w])' /\ Tells(rpc[w])'

\* A step that changes neither side leaves the story, if it goes on with it.
LEMMA NothingChanges ==
  ASSUME NEW w \in Worker, NEW i \in InvoiceId, Finds(w, i),
         UNCHANGED <<invoices, workflows, approvedBy>>,
         i \notin disturbed' /\ (rpc'[w].inv = i => ~Between(rpc'[w])) => Agree(i),
         Knows(rpc[w])', Tells(rpc[w])'
  PROVE  Leaves(w, i)
BY DEF Finds, Leaves, Reviewed, Agree, Pending, Quiet, Active, Complete

\* A call that ends says and knows nothing.
LEMMA RepliesQuietly ==
  ASSUME NEW w \in Worker, NEW i \in InvoiceId, Finds(w, i), Reply(w)
  PROVE  /\ rpc'[w] = NoRpc /\ ~Between(rpc'[w])
         /\ Knows(rpc[w])' /\ Tells(rpc[w])'
<1>1. rpc'[w] = NoRpc /\ NoRpc.pc = "idle"
  BY DEF Finds, Reply, NoRpc
<1> QED
  BY <1>1 DEF Knows, Tells, Between

\* A call that goes on keeps its invoice and its workflow.
LEMMA GoesOn ==
  ASSUME NEW w \in Worker, NEW i \in InvoiceId, Finds(w, i), NEW pc, Go(w, pc)
  PROVE  /\ rpc'[w].pc = pc /\ rpc'[w].inv = rpc[w].inv /\ rpc'[w].wf = rpc[w].wf
         /\ rpc'[w].step = rpc[w].step
BY DEF Finds, Go, Rpc

\* The service operation's UPDATE finds its row and sets the status.
LEMMA StatusWritten ==
  ASSUME GatewayInv, NEW w \in Worker, NEW i \in InvoiceId, i = req[w].inv,
         NEW s \in InvoiceStatus, Exists(i), WriteInvoices(w, UpdateStatus(req[w].inv, s))
  PROVE  invoices'[i].status = s
BY LiveRows DEF GatewayInv, TypeInv, TypeOK, TablesOK, WriteInvoices, UpdateStatus, Exists, LiveRow

\* Submission, up to the creation of the workflow.
LEMMA SubmitLeaves ==
  ASSUME GatewayInv, NEW w \in Worker, NEW i \in InvoiceId, i = rpc[w].inv, Finds(w, i),
         GrpcSubmitUpdate(w) \/ GrpcFetch(w)
  PROVE  Leaves(w, i)
<1>1. CASE GrpcSubmitUpdate(w)
  <2>1. rpc[w].pc = "submit" /\ req[w].pc = "submit" /\ req[w].inv = i
    BY <1>1 DEF GrpcSubmitUpdate, InRpc, SubmitUpdate, At, Finds, CallOK
  <2>2. invoices[i].status = "draft" /\ Exists(i)
    BY <2>1 DEF Finds, Fresh, Exists, InvoiceStatus
  <2>3. Pending(i)'
    BY <1>1, <2>1, <2>2, StatusWritten DEF GrpcSubmitUpdate, SubmitUpdate, InvoiceStatus, Pending
  <2>4. Quiet(i) /\ Quiet(i)' /\ UNCHANGED workflows
    BY <1>1, <2>2 DEF Finds, Reviewed, Pending, Approved, GrpcSubmitUpdate, Quiet, Active
  <2>5. rpc'[w].pc = "fetch" /\ rpc'[w].inv = i
    BY <1>1, <2>1, <2>2, GoesOn DEF GrpcSubmitUpdate
  <2>6. Knows(rpc[w])' /\ Tells(rpc[w])'
    BY <2>3, <2>4, <2>5 DEF Knows, Tells, Pending, Quiet, Active, Between
  <2> QED
    BY <2>3, <2>4, <2>5, <2>6 DEF Leaves, Quiet, Between
<1>2. CASE GrpcFetch(w)
  <2>1. rpc[w].pc = "fetch" /\ Pending(i) /\ Quiet(i) /\ Exists(i)
    BY <1>2 DEF GrpcFetch, InRpc, Finds, Knows, Pending, Exists, InvoiceStatus
  <2>2. rpc'[w].pc = "create_wf" /\ rpc'[w].inv = i /\ UNCHANGED <<invoices, workflows, approvedBy>>
    BY <1>2, <2>1, GoesOn DEF GrpcFetch, vars, users
  <2>3. Knows(rpc[w])' /\ Tells(rpc[w])'
    BY <2>1, <2>2 DEF Knows, Tells, Pending, Quiet, Active, Between
  <2> QED
    BY <2>2, <2>3, NothingChanges DEF Between
<1> QED
  BY <1>1, <1>2

\* The creation of the workflow of a pending invoice that has none.
LEMMA CreateLeaves ==
  ASSUME NEW w \in Worker, NEW i \in InvoiceId, i = rpc[w].inv, Finds(w, i),
         GrpcCreateWorkflow(w)
  PROVE  Leaves(w, i)
<1>1. Pending(i) /\ Quiet(i) /\ UNCHANGED <<invoices, approvedBy>>
  BY DEF GrpcCreateWorkflow, InRpc, Finds, Knows, vars, users
<1>2. PICK x \in WorkflowId, n \in StepCounts :
          /\ workflows' = [workflows EXCEPT ![x] =
                [status |-> "in_progress", inv |-> i, by |-> rpc[w].user, step |-> 1, total |-> n]]
          /\ rpc' = [rpc EXCEPT ![w] = [@ EXCEPT !.pc = "tell_submitted", !.wf = x]]
  BY DEF GrpcCreateWorkflow
<1>3. rpc'[w].pc = "tell_submitted" /\ rpc'[w].inv = i /\ rpc'[w].wf = x
  BY <1>2 DEF Finds, Rpc
<1>4. \A y \in WorkflowId : Active(y, i)' <=> y = x
  BY <1>1, <1>2 DEF Finds, Quiet, Active
<1>5. Pending(i)' /\ ~Quiet(i)'
  BY <1>1, <1>4 DEF Pending, Quiet
<1>6. Agree(i)'
  BY <1>5 DEF Agree, Pending, Approved
<1>7. Knows(rpc[w])' /\ Tells(rpc[w])'
  BY <1>3, <1>4, <1>5 DEF Knows, Tells, Pending, Active, Between
<1> QED
  BY <1>4, <1>5, <1>6, <1>7 DEF Leaves

\* A refused call ends and leaves all as it is.
LEMMA RefusedLeaves ==
  ASSUME NEW w \in Worker, NEW i \in InvoiceId, Finds(w, i), Reply(w),
         UNCHANGED <<invoices, workflows, approvedBy>>,
         i \notin disturbed' /\ rpc[w].inv = i => ~Between(rpc[w])
  PROVE  Leaves(w, i)
<1>1. i \notin disturbed' => Agree(i)
  BY DEF Finds
<1> QED
  BY <1>1, RepliesQuietly, NothingChanges

\* A workflow that is ended leaves the invoice without a review.
LEMMA EndsReview ==
  ASSUME NEW w \in Worker, NEW i \in InvoiceId, i = rpc[w].inv, Finds(w, i),
         rpc[w].pc \in {"approve_step", "reject_wf", "recall_wf"},
         UNCHANGED <<invoices, approvedBy>>,
         workflows[rpc[w].wf].status = "in_progress",
         NEW s \in {"approved", "rejected", "recalled"}, workflows' = SetWorkflow(rpc[w].wf, s)
  PROVE  /\ Quiet(i)'
         /\ i \notin disturbed' => Pending(i) /\ Pending(i)'
         /\ workflows'[rpc[w].wf] = [workflows[rpc[w].wf] EXCEPT !.status = s]
         /\ workflows'[rpc[w].wf].status = s /\ workflows'[rpc[w].wf].inv = i
         /\ workflows'[rpc[w].wf].step = workflows[rpc[w].wf].step
         /\ workflows'[rpc[w].wf].total = workflows[rpc[w].wf].total
<1>1. PICK x \in WorkflowId : x = rpc[w].wf
  BY DEF Finds, CallOK, WithWorkflow
<1>2. workflows'[x] = [workflows[x] EXCEPT !.status = s] /\ workflows[x] \in Workflow
  BY <1>1 DEF Finds, SetWorkflow
<1>3. Active(x, i)
  BY <1>1, GatewayNilAssumption DEF Finds, CallOK, Active
<1>4. \A y \in WorkflowId \ {x} : ~Active(y, i) /\ workflows'[y] = workflows[y]
  BY <1>1, <1>3 DEF Finds, Reviewed, SetWorkflow
<1>5. workflows'[x].status = s
  BY <1>2 DEF Workflow
<1>6. Quiet(i)'
  BY <1>4, <1>5 DEF Quiet, Active
<1>7. i \notin disturbed' => Pending(i)
  BY <1>3 DEF Finds, Between, Agree, Quiet
<1> QED
  BY <1>1, <1>2, <1>3, <1>5, <1>6, <1>7 DEF Pending, Workflow, Active

\* The approval of a step: the last one ends the review.
LEMMA ApproveStepLeaves ==
  ASSUME NEW w \in Worker, NEW i \in InvoiceId, i = rpc[w].inv, Finds(w, i),
         GrpcApproveStep(w)
  PROVE  Leaves(w, i)
<1> DEFINE ok == /\ workflows[rpc[w].wf].status = "in_progress"
                 /\ workflows[rpc[w].wf].step = rpc[w].step
<1>0. rpc[w].pc = "approve_step" /\ UNCHANGED <<invoices, approvedBy>>
  BY DEF GrpcApproveStep, InRpc, vars, users
<1>1. PICK x \in WorkflowId : x = rpc[w].wf
  BY <1>0 DEF Finds, CallOK, WithWorkflow
<1>2. CASE ~ok
  BY <1>0, <1>2, RefusedLeaves DEF GrpcApproveStep, AfterStep, Between
<1>3. CASE ok /\ IsLast(x)
  <2>1. workflows' = SetWorkflow(rpc[w].wf, "approved")
    BY <1>1, <1>3 DEF GrpcApproveStep, AfterStep
  <2>2. rpc'[w].pc = "approve" /\ rpc'[w].inv = i /\ rpc'[w].wf = x
    BY <1>1, <1>3, GoesOn DEF GrpcApproveStep
  <2>3. /\ Quiet(i)' /\ (i \notin disturbed' => Pending(i)')
        /\ Complete(x, i)'
    BY <1>0, <1>1, <1>3, <2>1, EndsReview DEF Complete, IsLast
  <2>4. Knows(rpc[w])' /\ Tells(rpc[w])'
    BY <2>2, <2>3 DEF Knows, Tells, Between, Quiet, Active, Pending, Complete
  <2> QED
    BY <2>2, <2>3, <2>4 DEF Leaves, Between, Quiet
<1>4. CASE ok /\ ~IsLast(x)
  <2>1. workflows' = [workflows EXCEPT ![x].step = @ + 1]
    BY <1>1, <1>4 DEF GrpcApproveStep, AfterStep
  <2>2. rpc'[w].pc = "tell_required" /\ rpc'[w].inv = i /\ rpc'[w].wf = x /\ rpc'[w].step = rpc[w].step
    BY <1>1, <1>4, GoesOn DEF GrpcApproveStep
  <2>3. workflows'[x] = [workflows[x] EXCEPT !.step = workflows[x].step + 1] /\ workflows[x] \in Workflow
    BY <2>1 DEF Finds
  <2>4. /\ workflows'[x].status = "in_progress" /\ workflows'[x].inv = workflows[x].inv
        /\ workflows'[x].step = rpc[w].step + 1
    BY <1>1, <1>4, <2>3 DEF Workflow
  <2>5. workflows[x].inv = i
    BY <1>1, GatewayNilAssumption DEF Finds, CallOK
  <2>6. \A y \in WorkflowId \ {x} : workflows'[y] = workflows[y]
    BY <2>1 DEF Finds
  <2>7. \A y \in WorkflowId : Active(y, i)' <=> Active(y, i)
    BY <1>1, <1>4, <2>4, <2>6 DEF Active
  <2>8. \A y \in WorkflowId : Complete(y, i) => Complete(y, i)'
    BY <1>1, <1>4, <2>6 DEF Complete
  <2>9. Agree(i) => Agree(i)'
    BY <1>0, <2>7, <2>8 DEF Agree, Pending, Quiet
  <2>10. Knows(rpc[w])' /\ Tells(rpc[w])'
    BY <2>2, <2>4, <2>5 DEF Knows, Tells, Between, Active
  <2> QED
    BY <1>0, <2>7, <2>9, <2>10 DEF Leaves, Finds, Reviewed, Between, Quiet, Pending
<1> QED
  BY <1>2, <1>3, <1>4

\* The rejection or the recall of the workflow.
LEMMA EndLeaves ==
  ASSUME NEW w \in Worker, NEW i \in InvoiceId, i = rpc[w].inv, Finds(w, i),
         GrpcRejectWorkflow(w) \/ GrpcRecallWorkflow(w)
  PROVE  Leaves(w, i)
<1>0. rpc[w].pc \in {"reject_wf", "recall_wf"} /\ UNCHANGED <<invoices, approvedBy>>
  BY DEF GrpcRejectWorkflow, GrpcRecallWorkflow, InRpc, vars, users
<1>1. PICK x \in WorkflowId : x = rpc[w].wf
  BY <1>0 DEF Finds, CallOK, WithWorkflow
<1>2. CASE Reply(w) /\ UNCHANGED workflows
  BY <1>0, <1>2, RefusedLeaves DEF Between
<1>3. ASSUME NEW s \in {"rejected", "recalled"}, NEW pc \in {"reject", "recall"}, Go(w, pc),
             workflows' = SetWorkflow(rpc[w].wf, s), workflows[rpc[w].wf].status = "in_progress",
             pc = "reject" => s = "rejected"
      PROVE  Leaves(w, i)
  <2>1. rpc'[w].pc = pc /\ rpc'[w].inv = i /\ rpc'[w].wf = x
    BY <1>1, <1>3, GoesOn
  <2>2. Quiet(i)' /\ (i \notin disturbed' => Pending(i)') /\ workflows'[x].status = s
    BY <1>0, <1>1, <1>3, EndsReview
  <2>3. Knows(rpc[w])' /\ Tells(rpc[w])'
    BY <1>3, <2>1, <2>2 DEF Knows, Tells, Between, Quiet, Active, Pending
  <2> QED
    BY <1>1, <2>1, <2>2, <2>3, GatewayNilAssumption DEF Leaves, Between, Quiet
<1> QED
  BY <1>2, <1>3 DEF GrpcRejectWorkflow, GrpcRecallWorkflow, InRpc

\* The steps of a handler that change neither service.
LEMMA PassingLeaves ==
  ASSUME NEW w \in Worker, NEW i \in InvoiceId, i = rpc[w].inv, Finds(w, i),
         GrpcDelegateStep(w) \/ GrpcCallService(w) \/ GrpcRefused(w) \/ GrpcAnnounce(w)
  PROVE  Leaves(w, i)
<1>0. UNCHANGED <<invoices, workflows, approvedBy>>
  BY DEF GrpcDelegateStep, GrpcCallService, GrpcRefused, GrpcAnnounce, ApproveInvoice,
     RejectInvoice,
     RecallInvoice, Receive, vars, users
<1>1. CASE GrpcDelegateStep(w) \/ GrpcAnnounce(w)
  BY <1>0, <1>1, RefusedLeaves DEF GrpcDelegateStep, GrpcAnnounce, InRpc, Announcement, Between
<1>2. CASE GrpcRefused(w)
  <2>1. ~Pending(i) /\ Reply(w)
    BY <1>2 DEF GrpcRefused, Pending
  <2>2. i \notin disturbed' => ~Between(rpc[w])
    BY <2>1 DEF Finds, Knows
  <2> QED
    BY <1>0, <2>1, <2>2, RefusedLeaves
<1>3. CASE GrpcCallService(w)
  <2>1. rpc' = rpc
    BY <1>3 DEF GrpcCallService
  <2>2. Knows(rpc[w])' /\ Tells(rpc[w])'
    BY <1>0, <2>1 DEF Finds, Knows, Tells, Quiet, Active, Pending, Complete, Between
  <2> QED
    BY <1>0, <2>1, <2>2, NothingChanges DEF Finds
<1> QED
  BY <1>1, <1>2, <1>3

\* The approval of an invoice whose review is over.
LEMMA ApproveLeaves ==
  ASSUME GatewayInv, NEW w \in Worker, NEW i \in InvoiceId, i = rpc[w].inv, Finds(w, i),
         GrpcApproveUpdate(w)
  PROVE  Leaves(w, i)
<1>1. /\ rpc[w].pc \in {"approve", "legacy"} /\ req[w].pc = "approve" /\ req[w].inv = i
      /\ UNCHANGED workflows
  BY DEF GrpcApproveUpdate, ApproveUpdate, At, Finds, CallOK
<1>2. Pending(i) /\ Exists(i) /\ Quiet(i)
  BY <1>1 DEF Finds, Fresh, Knows, Pending, Exists, InvoiceStatus
<1>3. invoices'[i].status = "approved"
  BY <1>1, <1>2, StatusWritten DEF GrpcApproveUpdate, ApproveUpdate, ApproveRow, InvoiceStatus
<1>4. Quiet(i)' /\ ~Pending(i)'
  BY <1>1, <1>2, <1>3 DEF Quiet, Active, Pending
<1>5. CASE rpc[w].pc = "legacy"
  <2>1. Reply(w)
    BY <1>5 DEF GrpcApproveUpdate, InRpc
  <2>2. i \in disturbed /\ i \in disturbed'
    BY <1>2, <1>5 DEF Finds, Agree, Between
  <2> QED
    BY <1>4, <2>1, <2>2, RepliesQuietly DEF Leaves, Quiet
<1>6. CASE rpc[w].pc = "approve"
  <2>1. PICK x \in WorkflowId : x = rpc[w].wf
    BY <1>6 DEF Finds, CallOK, WithWorkflow
  <2>2. rpc'[w].pc = "tell_approved" /\ rpc'[w].inv = i /\ rpc'[w].wf = x
    BY <1>2, <1>6, <2>1, GoesOn DEF GrpcApproveUpdate, InRpc
  <2>3. Complete(x, i)'
    BY <1>1, <1>6, <2>1 DEF Finds, Knows, Complete
  <2>4. Agree(i)'
    BY <1>4, <2>3 DEF Agree
  <2>5. Knows(rpc[w])' /\ Tells(rpc[w])'
    BY <1>3, <2>2, <2>3 DEF Knows, Tells, Between, Complete
  <2> QED
    BY <1>4, <2>4, <2>5 DEF Leaves, Quiet
<1> QED
  BY <1>1, <1>5, <1>6

\* The way back to draft, after the review has been ended.
LEMMA ReturnLeaves ==
  ASSUME GatewayInv, NEW w \in Worker, NEW i \in InvoiceId, i = rpc[w].inv, Finds(w, i),
         GrpcReturnUpdate(w)
  PROVE  Leaves(w, i)
<1>1. /\ rpc[w].pc \in {"reject", "recall"} /\ req[w].pc = rpc[w].pc /\ req[w].inv = i
      /\ UNCHANGED workflows
  BY DEF GrpcReturnUpdate, RejectUpdate, RecallUpdate, InRpc, At, Finds, CallOK
<1>2. Pending(i) /\ Exists(i) /\ Quiet(i)
  BY <1>1 DEF Finds, Fresh, Knows, Pending, Exists, InvoiceStatus
<1>3. invoices'[i].status = "draft"
  BY <1>1, <1>2, StatusWritten DEF GrpcReturnUpdate, RejectUpdate, RecallUpdate, InvoiceStatus
<1>4. Quiet(i)' /\ ~Pending(i)'
  BY <1>1, <1>2, <1>3 DEF Quiet, Active, Pending
<1>5. Agree(i)'
  BY <1>3, <1>4 DEF Agree, Approved
<1>6. CASE rpc[w].pc = "recall"
  <2>1. Reply(w)
    BY <1>6 DEF GrpcReturnUpdate, InRpc
  <2> QED
    BY <1>4, <1>5, <2>1, RepliesQuietly DEF Leaves, Quiet
<1>7. CASE rpc[w].pc = "reject"
  <2>1. PICK x \in WorkflowId : x = rpc[w].wf
    BY <1>7 DEF Finds, CallOK, WithWorkflow
  <2>2. rpc'[w].pc = "tell_rejected" /\ rpc'[w].inv = i /\ rpc'[w].wf = x
    BY <1>2, <1>7, <2>1, GoesOn DEF GrpcReturnUpdate, InRpc
  <2>3. Knows(rpc[w])' /\ Tells(rpc[w])'
    BY <1>1, <1>3, <1>7, <2>1, <2>2 DEF Finds, Knows, Tells, Between
  <2> QED
    BY <1>4, <1>5, <2>3 DEF Leaves, Quiet
<1> QED
  BY <1>1, <1>6, <1>7

\* The writes of what is only passed on and of HTTP: a deletion finds a draft and
\* so no review, a posting or a payment an invoice approved before, and the
\* submission and the approval over HTTP are on record.
LEMMA PlainLeaves ==
  ASSUME GatewayInv, NEW w \in Worker, NEW i \in InvoiceId, i = req[w].inv, Finds(w, i),
         PlainExec(w) \/ HttpUpdate(w)
  PROVE  Leaves(w, i)
<1>0. rpc[w].pc = "idle" /\ rpc' = rpc /\ UNCHANGED workflows
  BY DEF PlainExec, HttpUpdate, InRpc
<1>1. Knows(rpc[w])' /\ Tells(rpc[w])'
  BY <1>0 DEF Knows, Tells, Between
<1>2. CASE PlainExec(w)
  <2>1. /\ UNCHANGED <<workflows, approvedBy>> /\ Writes(w, i) /\ Fresh(req[w])
        /\ req[w].pc \in PlainSteps
    BY <1>2, PlainGoesOn, FreshWrites DEF Finds, GatewayInv
  <2>2. \A x \in WorkflowId : /\ Active(x, i)' <=> Active(x, i)
                              /\ Complete(x, i)' <=> Complete(x, i)
    BY <2>1 DEF Active, Complete
  <2>3. Quiet(i)' <=> Quiet(i)
    BY <2>2 DEF Quiet
  <2>4. i \notin disturbed' => Agree(i)
    BY <1>0 DEF Finds, Between
  <2>5. CASE req[w].pc = "delete" /\ ~Same(i)
    <3>1. invoices[i].status = "draft" /\ invoices'[i].status = "deleted"
      BY <2>1, <2>5, AbsentFields DEF Fresh, Writes, At
    <3>2. Quiet(i) /\ Quiet(i)' /\ Agree(i)'
      BY <2>3, <3>1 DEF Finds, Reviewed, Pending, Approved, Agree
    <3> QED
      BY <1>1, <3>2 DEF Leaves, Quiet
  <2>6. CASE Same(i)
    <3>1. Agree(i)' <=> Agree(i)
      BY <2>2, <2>3, <2>6 DEF Same, Agree, Pending
    <3> QED
      BY <1>1, <2>1, <2>2, <2>3, <2>4, <2>6, <3>1 DEF Leaves, Finds, Reviewed, Same, Pending
  <2>7. CASE req[w].pc # "delete" /\ ~Same(i)
    <3>1. invoices[i].status \in Approved /\ invoices'[i].status \in Approved
      BY <2>1, <2>7 DEF Fresh, Writes, Moves, At, PlainSteps, PostSteps, PaySteps, Approved
    <3>2. ~Pending(i) /\ ~Pending(i)'
      BY <3>1 DEF Pending, Approved
    <3>3. Agree(i) => Agree(i)'
      BY <2>2, <2>3, <3>1, <3>2 DEF Agree
    <3> QED
      BY <1>1, <2>1, <2>2, <2>3, <2>4, <3>1, <3>2, <3>3 DEF Leaves, Finds, Reviewed
  <2> QED
    BY <2>5, <2>6, <2>7
<1>3. CASE HttpUpdate(w)
  <2>1. i \in disturbed' /\ req[w].pc \in {"submit", "approve"} /\ UNCHANGED workflows
    BY <1>0, <1>3 DEF Finds, HttpSeen, HttpUpdate, SubmitUpdate, ApproveUpdate, At, InRpc
  <2>2. CASE SubmitUpdate(w)
    <3>1. req[w].pc = "submit" /\ invoices[i].status = "draft" /\ Exists(i)
      BY <2>2 DEF SubmitUpdate, At, Finds, Fresh, Exists, InvoiceStatus
    <3>2. Quiet(i) /\ Quiet(i)'
      BY <2>1, <3>1 DEF Finds, Reviewed, Pending, Approved, Quiet, Active
    <3> QED
      BY <1>1, <2>1, <3>2 DEF Leaves, Quiet
  <2>3. CASE ApproveUpdate(w)
    <3>1. req[w].pc = "approve" /\ Pending(i) /\ Exists(i)
      BY <2>3 DEF ApproveUpdate, At, Finds, Fresh, Exists, InvoiceStatus, Pending
    <3>2. invoices'[i].status = "approved"
      BY <2>3, <3>1, StatusWritten DEF ApproveUpdate, ApproveRow, InvoiceStatus
    <3>3. approvedBy' = [approvedBy EXCEPT ![i] = Nil]
      BY <1>3, <3>1 DEF HttpUpdate, SubmitUpdate, At
    <3>4. approvedBy'[i] = Nil
      BY <3>3 DEF GatewayInv, GatewayTables
    <3>5. \A x \in WorkflowId : Active(x, i)' <=> Active(x, i)
      BY <2>1 DEF Active
    <3> QED
      BY <1>1, <2>1, <3>2, <3>4, <3>5 DEF Leaves, Finds, Reviewed, Approved
  <2> QED
    BY <1>3, <2>2, <2>3 DEF HttpUpdate
<1> QED
  BY <1>2, <1>3

\* A call that is cut short leaves its invoice on record.
LEMMA AbortLeaves ==
  ASSUME NEW w \in Worker, NEW i \in InvoiceId, Busy(w, i), Finds(w, i), GatewayAbort(w)
  PROVE  Leaves(w, i)
<1>1. i \in disturbed' /\ Reply(w) /\ UNCHANGED <<invoices, workflows, approvedBy>>
  BY DEF GatewayAbort, users
<1> QED
  BY <1>1, RefusedLeaves

\* The start of a call changes nothing but the worker's own variables; with
\* which workflow it is made says what it may know.
LEMMA CallBegins ==
  ASSUME GatewayInv, NEW w \in Worker, NEW k \in InvoiceId, GatewayCall(w, k) \/ HttpRequest(w, k)
  PROVE  /\ rpc[w].inv = Nil /\ req[w].inv = Nil
         /\ Knows(rpc[w])' /\ Tells(rpc[w])' /\ HttpSeen(rpc[w], req[w])'
<1>0. /\ rpc \in [Worker -> Rpc] /\ req \in [Worker -> Request] /\ CallOK(rpc[w], req[w])
  BY DEF GatewayInv, GatewayTables, TypeInv, TypeOK, RequestsOK
<1>1. rpc[w].pc = "idle" /\ req[w].pc = "idle"
  BY PlainStarts DEF GatewayCall, HttpRequest, GrpcCall, GrpcSubmit, GrpcApprove, GrpcReject,
     GrpcRecall, GrpcDelegate, Free, InRpc, At, SubmitForApproval, ApproveInvoice, Receive
<1>2. rpc[w].inv = Nil /\ req[w].inv = Nil
  BY <1>0, <1>1 DEF CallOK, NoRpc, NoRequest
<1>3. ASSUME NEW pc, NEW a, NEW i \in InvoiceId, Receive(w, i, pc, a)
      PROVE  req'[w].pc = pc /\ req'[w].inv = i
  BY <1>0, <1>3 DEF Receive, NoRequest
<1>4. CASE HttpRequest(w, k)
  <2>1. rpc' = rpc /\ req'[w].inv = k /\ k \in disturbed'
    BY <1>3, <1>4 DEF HttpRequest, SubmitForApproval, ApproveInvoice
  <2> QED
    BY <1>1, <1>2, <2>1 DEF Knows, Tells, HttpSeen, Between
<1>5. CASE PlainRequest(w, k)
  <2>1. rpc' = rpc /\ req'[w].pc \in PlainSteps
    BY <1>5, PlainStarts
  <2>2. "submit" \notin PlainSteps /\ "approve" \notin PlainSteps
    BY DEF PlainSteps, PostSteps, PaySteps
  <2> QED
    BY <1>1, <1>2, <2>1, <2>2 DEF Knows, Tells, HttpSeen, Between
<1>6. ASSUME NEW u \in User, GrpcCall(w, k, u)
      PROVE  Knows(rpc[w])' /\ Tells(rpc[w])' /\ HttpSeen(rpc[w], req[w])'
  <2>1. PICK x \in {Nil} \cup WorkflowId, pc \in {"submit", "legacy", "approve_step", "reject_wf", "recall",
                                                  "recall_wf", "delegate_wf"} :
             /\ Call(w, k, u, pc, x)
             /\ pc \in {"legacy", "recall"} => x = Nil /\ ActiveWorkflows(k) = {}
             /\ UNCHANGED workflows
    <3>1. \A x \in FindActive(k) : /\ x \in {Nil} \cup WorkflowId
                                   /\ x = Nil => ActiveWorkflows(k) = {}
      BY GatewayNilAssumption DEF FindActive, ActiveWorkflows
    <3>2. \A x \in ActiveWorkflows(k) : x \in WorkflowId
      BY DEF ActiveWorkflows
    <3> QED
      BY <1>6, <3>1, <3>2 DEF GrpcCall, GrpcSubmit, GrpcApprove, GrpcReject, GrpcRecall,
         GrpcDelegate
  <2>2. rpc'[w].pc = pc /\ rpc'[w].inv = k /\ rpc'[w].wf = x
    BY <1>0, <2>1 DEF Call
  <2>3. pc \in {"legacy", "recall"} => Quiet(k)'
    BY <2>1 DEF ActiveWorkflows, Quiet, Active
  <2> QED
    BY <2>1, <2>2, <2>3 DEF Knows, Tells, HttpSeen, Between, Quiet
<1> QED
  BY <1>2, <1>4, <1>5, <1>6 DEF GatewayCall

\* A worker on its way in HTTP requests is on record, in whatever step.
LEMMA HttpStep ==
  ASSUME GatewayInv, NEW w \in Worker, GatewayProceed(w) \/ HttpUpdate(w) \/ GatewayAbort(w)
  PROVE  HttpSeen(rpc[w], req[w])'
<1>0. /\ rpc \in [Worker -> Rpc] /\ req \in [Worker -> Request] /\ CallOK(rpc[w], req[w])
  BY DEF GatewayInv, GatewayTables, TypeInv, TypeOK, RequestsOK
<1>1. ASSUME Finish(w) PROVE HttpSeen(rpc[w], req[w])'
  BY <1>0, <1>1 DEF Finish, NoRequest, HttpSeen
<1>2. ASSUME UNCHANGED req, req[w].pc = "idle" PROVE HttpSeen(rpc[w], req[w])'
  BY <1>2 DEF HttpSeen
<1>3. CASE GrpcCallService(w)
  BY <1>3 DEF GrpcCallService, InRpc, HttpSeen
<1>4. CASE GrpcFetch(w) \/ GrpcCreateWorkflow(w) \/ GrpcApproveStep(w) \/ GrpcRejectWorkflow(w)
             \/ GrpcRecallWorkflow(w) \/ GrpcDelegateStep(w) \/ GrpcRefused(w) \/ GrpcAnnounce(w)
  <2>1. UNCHANGED req /\ req[w].pc = "idle"
    BY <1>0, <1>4 DEF GrpcFetch, GrpcCreateWorkflow, GrpcApproveStep, GrpcRejectWorkflow,
       GrpcRecallWorkflow, GrpcDelegateStep, GrpcRefused, GrpcAnnounce, InRpc, At, CallOK, Operations,
       Announcement, vars
  <2> QED
    BY <1>2, <2>1
<1>5. CASE GrpcSubmitUpdate(w) \/ GrpcApproveUpdate(w) \/ GrpcReturnUpdate(w)
             \/ HttpUpdate(w) \/ GatewayAbort(w)
  BY <1>1, <1>5 DEF GrpcSubmitUpdate, GrpcApproveUpdate, GrpcReturnUpdate, HttpUpdate,
       GatewayAbort, SubmitUpdate, ApproveUpdate, RejectUpdate, RecallUpdate, WriteInvoices
<1>6. CASE PlainExec(w)
  <2>1. "submit" \notin PlainSteps /\ "approve" \notin PlainSteps /\ NoRequest.pc = "idle"
    BY DEF PlainSteps, PostSteps, PaySteps, NoRequest
  <2> QED
    BY <1>6, <2>1, PlainGoesOn DEF HttpSeen
<1> QED
  BY <1>3, <1>4, <1>5, <1>6 DEF GatewayProceed

\* Every step of a worker keeps what is known of its own invoice.
LEMMA OwnLeaves ==
  ASSUME GatewayInv, SerialInv, StoryInv, NEW w \in Worker, NEW i \in InvoiceId, Busy(w, i),
         GatewayProceed(w) \/ HttpUpdate(w) \/ GatewayAbort(w)
  PROVE  Leaves(w, i)
<1>1. Finds(w, i) /\ CallOK(rpc[w], req[w])
  BY WorkerFinds DEF WorkerStep, Finds
<1>2. ASSUME rpc[w].pc # "idle" PROVE i = rpc[w].inv
  BY <1>1, <1>2, NilAssumption DEF Busy, CallOK, NoRequest
<1>3. ASSUME rpc[w].pc = "idle" PROVE i = req[w].inv
  BY <1>1, <1>3, NilAssumption DEF Busy, CallOK, NoRpc
<1>4. CASE PlainExec(w) \/ HttpUpdate(w)
  BY <1>1, <1>3, <1>4, PlainLeaves DEF PlainExec, HttpUpdate, InRpc
<1>5. CASE GatewayAbort(w)
  BY <1>1, <1>5, AbortLeaves
<1>6. CASE GatewayProceed(w) /\ ~PlainExec(w)
  <2>1. rpc[w].pc # "idle"
    BY <1>6 DEF GatewayProceed, GrpcSubmitUpdate, GrpcFetch, GrpcCreateWorkflow,
       GrpcApproveStep, GrpcRejectWorkflow, GrpcRecallWorkflow, GrpcDelegateStep, GrpcCallService,
       GrpcRefused, GrpcApproveUpdate, GrpcReturnUpdate, GrpcAnnounce, InRpc, Announcement
  <2> QED
    BY <1>1, <1>2, <1>6, <2>1, SubmitLeaves, CreateLeaves, ApproveStepLeaves, EndLeaves,
       PassingLeaves,
       ApproveLeaves, ReturnLeaves DEF GatewayProceed
<1> QED
  BY <1>4, <1>5, <1>6

\* A worker that goes on is busy with an invoice.
LEMMA SomeInvoice ==
  ASSUME GatewayInv, NEW w \in Worker, GatewayProceed(w) \/ HttpUpdate(w) \/ GatewayAbort(w)
  PROVE  \E i \in InvoiceId : Busy(w, i)
<1>1. CallOK(rpc[w], req[w]) /\ HoldsIds(req[w])
  BY DEF GatewayInv, TypeInv, TypeOK, RequestsOK
<1>2. rpc[w].pc # "idle" \/ req[w].pc # "idle"
  BY PlainGoesOn DEF GatewayProceed, HttpUpdate, GatewayAbort, Free, GrpcSubmitUpdate, GrpcFetch,
     GrpcCreateWorkflow, GrpcApproveStep, GrpcRejectWorkflow, GrpcRecallWorkflow, GrpcDelegateStep,
     GrpcCallService, GrpcRefused, GrpcApproveUpdate, GrpcReturnUpdate, GrpcAnnounce,
     SubmitUpdate, ApproveUpdate, InRpc, At, Announcement, PlainSteps, PostSteps, PaySteps
<1> QED
  BY <1>1, <1>2 DEF CallOK, HoldsIds, Busy

\* Every step of the handlers keeps the story, when calls are kept apart.
LEMMA StoryStep ==
  GatewayInv /\ SerialInv /\ StoryInv /\ [GatewayNext /\ OneCallPerInvoice']_gatewayVars => StoryInv'
<1> SUFFICES ASSUME GatewayInv, SerialInv, StoryInv, [GatewayNext /\ OneCallPerInvoice']_gatewayVars
             PROVE  StoryInv'
  OBVIOUS
<1>1. OneCallPerInvoice'
  BY DEF StoryInv, OneCallPerInvoice, Busy, gatewayVars, vars
<1>2. ASSUME NEW w \in Worker, WorkerStep(w)
      PROVE  \A v \in Worker \ {w} : Knows(rpc[v])' /\ Tells(rpc[v])' /\ HttpSeen(rpc[v], req[v])'
  BY <1>2, OthersKnow
<1>3. ASSUME NEW w \in Worker, GatewayProceed(w) \/ HttpUpdate(w) \/ GatewayAbort(w)
      PROVE  StoryInv'
  <2>0. WorkerStep(w)
    BY <1>3 DEF WorkerStep
  <2>1. HttpSeen(rpc[w], req[w])'
    BY <1>3, HttpStep
  <2>2. ASSUME NEW i \in InvoiceId PROVE Reviewed(i)'
    <3>1. CASE Busy(w, i)
      <4>1. Leaves(w, i) /\ Finds(w, i)
        BY <1>3, <2>0, <3>1, OwnLeaves, WorkerFinds
      <4>2. (\A v \in Worker : rpc'[v].inv = i => ~Between(rpc'[v]))
               => (rpc'[w].inv = i => ~Between(rpc'[w]))
        OBVIOUS
      <4> QED
        BY <4>1, <4>2 DEF Leaves, Reviewed, Between
    <3>2. CASE ~Busy(w, i)
      BY <2>0, <3>2, ElsewhereReviewed DEF Busy
    <3> QED
      BY <3>1, <3>2
  <2>3. Knows(rpc[w])' /\ Tells(rpc[w])'
    <3>1. ASSUME NEW i \in InvoiceId, Busy(w, i) PROVE Knows(rpc[w])' /\ Tells(rpc[w])'
      BY <1>3, <3>1, OwnLeaves DEF Leaves
    <3>2. \E i \in InvoiceId : Busy(w, i)
      BY <1>3, SomeInvoice
    <3> QED
      BY <3>1, <3>2
  <2> QED
    BY <1>1, <1>2, <2>0, <2>1, <2>2, <2>3 DEF StoryInv
<1>4. ASSUME NEW w \in Worker, NEW k \in InvoiceId, GatewayCall(w, k) \/ HttpRequest(w, k)
      PROVE  StoryInv'
  <2>0. WorkerStep(w)
    BY <1>4 DEF WorkerStep
  <2>1. /\ Knows(rpc[w])' /\ Tells(rpc[w])' /\ HttpSeen(rpc[w], req[w])'
        /\ rpc[w].inv = Nil /\ req[w].inv = Nil
    BY <1>4, CallBegins
  <2>2. \A i \in InvoiceId : Reviewed(i)'
    BY <2>0, <2>1, ElsewhereReviewed, NilAssumption
  <2> QED
    BY <1>1, <1>2, <2>0, <2>1, <2>2 DEF StoryInv
<1>5. CASE GatewayCreate /\ UNCHANGED disturbed
  <2>1. PICK k \in InvoiceId, n \in Number, t \in Totals :
           invoices[k].status = "none" /\ invoices' = Insert(k, n, t)
    BY <1>5 DEF GatewayCreate, CreateInvoice
  <2>2. UNCHANGED <<workflows, approvedBy, rpc, req, disturbed>>
    BY <1>5 DEF GatewayCreate, CreateInvoice, users
  <2>3. /\ invoices'[k].status = "draft"
        /\ \A i \in InvoiceId \ {k} : invoices'[i] = invoices[i]
    BY <2>1 DEF Insert, GatewayInv, TypeInv, TypeOK, TablesOK
  <2>4. ASSUME NEW i \in InvoiceId PROVE Reviewed(i)'
    <3>1. Reviewed(i)
      BY DEF StoryInv
    <3>2. CASE i = k
      <4>1. Quiet(i)
        BY <2>1, <3>1, <3>2 DEF Reviewed, Pending, Approved
      <4>2. Quiet(i)' /\ ~Pending(i)'
        BY <2>2, <2>3, <3>2, <4>1 DEF Quiet, Active, Pending
      <4> QED
        BY <2>3, <3>2, <4>2 DEF Reviewed, Agree, Approved, Quiet
    <3>3. CASE i # k
      BY <2>2, <2>3, <3>1, <3>3 DEF Reviewed, Agree, Quiet, Active, Pending, Complete, Between
    <3> QED
      BY <3>2, <3>3
  <2>5. ASSUME NEW v \in Worker PROVE Knows(rpc[v])' /\ Tells(rpc[v])' /\ HttpSeen(rpc[v], req[v])'
    <3>1. Knows(rpc[v]) /\ Tells(rpc[v]) /\ HttpSeen(rpc[v], req[v]) /\ CallOK(rpc[v], req[v])
      BY DEF StoryInv, GatewayInv
    <3>2. CASE rpc[v].pc = "idle"
      BY <2>2, <3>1, <3>2 DEF Knows, Tells, Between, HttpSeen
    <3>3. CASE rpc[v].pc # "idle"
      <4>1. PICK i \in InvoiceId : i = rpc[v].inv
        BY <3>1, <3>3 DEF CallOK
      <4>2. invoices[i].status # "none" => invoices'[i] = invoices[i]
        BY <2>1, <2>3
      <4>3. Pending(i) => Pending(i)'
        BY <4>2 DEF Pending
      <4> QED
        BY <2>2, <3>1, <4>1, <4>2, <4>3 DEF Knows, Tells, Between, HttpSeen, Quiet, Active,
           Complete
    <3> QED
      BY <3>2, <3>3
  <2> QED
    BY <1>1, <2>4, <2>5 DEF StoryInv
<1>6. CASE UNCHANGED gatewayVars
  BY <1>1, <1>6 DEF gatewayVars, vars, StoryInv, Reviewed, Agree, Quiet, Active, Pending,
     Complete,
     Knows, Tells, HttpSeen, Between
<1> QED
  BY <1>3, <1>4, <1>5, <1>6 DEF GatewayNext

\* At the start nobody is calling and nothing is under review.
LEMMA StoryStart == GatewayInit => StoryInv
<1> SUFFICES ASSUME GatewayInit PROVE StoryInv
  OBVIOUS
<1>1. \A w \in Worker : /\ rpc[w].pc = "idle" /\ rpc[w].inv = Nil
                        /\ req[w].pc = "idle" /\ req[w].inv = Nil
  BY DEF GatewayInit, Init, NoRpc, NoRequest
<1>2. OneCallPerInvoice
  BY <1>1, NilAssumption DEF OneCallPerInvoice, Busy
<1>3. \A i \in InvoiceId : Quiet(i) /\ invoices[i].status = "none"
  BY AbsentFields DEF GatewayInit, Init, NoWorkflow, Quiet, Active
<1>4. \A i \in InvoiceId : Reviewed(i)
  BY <1>3 DEF Reviewed, Quiet, Agree, Pending, Approved
<1>5. \A w \in Worker : Knows(rpc[w]) /\ Tells(rpc[w]) /\ HttpSeen(rpc[w], req[w])
  BY <1>1 DEF Knows, Tells, HttpSeen, Between
<1> QED
  BY <1>2, <1>4, <1>5 DEF StoryInv

\* Calls that do not overlap, wherever they are cut short, keep the story.
LEMMA StoryInvariant == SerialGatewaySpec => [](GatewayInv /\ StoryInv)
BY GatewayIsSerial, SerialInvariant, StoryStart, StoryStep, PTL DEF SerialGatewaySpec

-----------------------------------------------------------------------------
(* What the gateway promises                                               *)

\* For any number of invoices, workflows and users, posted and paid invoices
\* included: an invoice has at most one review under way, and only while it is
\* pending or after an approval over HTTP, when its calls do not overlap.
THEOREM ActiveIsPending == SerialGatewaySpec => []ActiveWorkflowIsPending
<1>1. GatewayInv /\ StoryInv => ActiveWorkflowIsPending
  <2> SUFFICES ASSUME StoryInv, NEW x \in WorkflowId, NEW i \in InvoiceId, Active(x, i)
               PROVE  /\ \/ invoices[i].status = "pending_approval"
                         \/ invoices[i].status \in Approved /\ approvedBy[i] = Nil
                      /\ ActiveWorkflows(i) = {x}
    BY DEF ActiveWorkflowIsPending
  <2> QED
    BY DEF StoryInv, Reviewed, Quiet, Pending, ActiveWorkflows
<1> QED
  BY <1>1, StoryInvariant, PTL

\* Between calls the invoice and its workflows tell the same story, unless a
\* call was cut short or came over HTTP: nothing is approved, posted or paid
\* before the last step of a workflow of it was approved.
THEOREM ServicesAgreeAlways == SerialGatewaySpec => []ServicesAgree
<1>1. GatewayInv /\ StoryInv => ServicesAgree
  <2> SUFFICES ASSUME StoryInv, NEW i \in InvoiceId, i \notin disturbed, \A w \in Worker : ~Busy(w, i)
               PROVE  /\ invoices[i].status = "pending_approval" <=> ActiveWorkflows(i) # {}
                      /\ invoices[i].status \in Approved =>
                            \E x \in WorkflowId : /\ workflows[x].inv = i
                                                  /\ workflows[x].status = "approved"
                                                  /\ workflows[x].step = workflows[x].total
    BY DEF ServicesAgree
  <2>1. Agree(i)
    BY DEF StoryInv, Reviewed, Busy
  <2> QED
    BY <2>1 DEF Agree, Quiet, Pending, Complete, ActiveWorkflows
<1> QED
  BY <1>1, StoryInvariant, PTL

\* A call announces what is so in both services.
THEOREM AnnouncementsTrue == SerialGatewaySpec => []AnnouncedIsTrue
<1>1. StoryInv => AnnouncedIsTrue
  BY DEF StoryInv, Tells, AnnouncedIsTrue, InRpc, Pending
<1> QED
  BY <1>1, StoryInvariant, PTL

=============================================================================
