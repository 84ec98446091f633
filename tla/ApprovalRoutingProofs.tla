----------------------- MODULE ApprovalRoutingProofs ------------------------
(***************************************************************************)
(* Proofs about ApprovalRouting, for any number of invoices, workflows,    *)
(* users, concurrent calls and steps.                                      *)
(*                                                                         *)
(* NoStepSkipped is not inductive: it says nothing of the calls under way. *)
(* InTurn adds what an approval carries from its reads to its writes: the  *)
(* steps before its own are decided from the moment it reads the current   *)
(* step, and its own is once it has written it.  TypeOK gives the rest: no *)
(* statement takes a decision back, and a new workflow is one no call      *)
(* works on.                                                               *)
(*                                                                         *)
(* OnlyApproversAct needs Owned of every row and Permitted of every call:  *)
(* only pending steps are decided on, and none is pending once delegated,  *)
(* so that in this code the user who decides an assigned step is always    *)
(* the assignee and never the delegate whom the property admits as well;   *)
(* and the assignment that was read when assertCanAct let the call pass is *)
(* still there at its write, for no statement changes it.                  *)
(***************************************************************************)
EXTENDS ApprovalRouting, FiniteSetTheorems, TLAPS

\* The initial tables are empty and no call is under way.
LEMMA TypeInit == Init => TypeOK
BY RoutingNilAssumption DEF Init, TypeOK, TablesOK, RowsOK, CallsOK, KeepsTo, InvoiceStatus,
   NoWorkflow, Workflow, NoStep, ApprovalStep, NoCall, Call, CallStep, OnWorkflow, Decided

\* A worker that has answered holds nothing.
LEMMA NoCallOK == NoCall \in Call /\ KeepsTo(NoCall) /\ NoCall.pc \notin OnWorkflow
BY DEF NoCall, Call, CallStep, KeepsTo, OnWorkflow

\* No statement removes a workflow that is there, moves it to another invoice
\* or changes its number of steps.
WorkflowsKept ==
    \A x \in WorkflowId :
        workflows[x].status # "none" =>
            /\ workflows'[x].status # "none"
            /\ workflows'[x].inv = workflows[x].inv
            /\ workflows'[x].total = workflows[x].total

\* The workflow of a call is there.
LEMMA CalledWorkflow ==
  ASSUME TypeOK, NEW w \in Worker, call[w].pc \in OnWorkflow
  PROVE  /\ call[w].wf \in WorkflowId
         /\ workflows[call[w].wf].status # "none"
BY RoutingNilAssumption DEF TypeOK, RowsOK, CallsOK, KeepsTo, NoWorkflow, OnWorkflow

\* A step that replaces one worker's call by a well-formed one.
LEMMA OneCallChanges ==
  ASSUME TypeOK, WorkflowsKept, NEW w \in Worker, NEW c \in Call, KeepsTo(c),
         call' = [call EXCEPT ![w] = c],
         c.pc \in OnWorkflow => workflows[c.wf].inv = c.inv /\ workflows[c.wf].status # "none"
  PROVE  CallsOK'
<1>1. call' \in [Worker -> Call] /\ \A v \in Worker : KeepsTo(call'[v])
  BY DEF TypeOK, CallsOK
<1>2. ASSUME NEW v \in Worker, call'[v].pc \in OnWorkflow
      PROVE  workflows'[call'[v].wf].inv = call'[v].inv
  <2>1. CASE v = w
    BY <1>1, <1>2, <2>1 DEF WorkflowsKept, TypeOK, CallsOK, KeepsTo
  <2>2. CASE v # w
    BY <1>2, <2>2, CalledWorkflow DEF WorkflowsKept, TypeOK, CallsOK, KeepsTo
  <2> QED
    BY <2>1, <2>2
<1> QED
  BY <1>1, <1>2 DEF CallsOK, KeepsTo

\* A call that answers.
LEMMA ReplyOK ==
  ASSUME TypeOK, WorkflowsKept, NEW w \in Worker, Reply(w) PROVE CallsOK'
BY NoCallOK, OneCallChanges DEF Reply

\* A call that goes on with its workflow.
LEMMA GoOK ==
  ASSUME TypeOK, WorkflowsKept, NEW w \in Worker, call[w].pc \in OnWorkflow,
         NEW pc \in OnWorkflow \ {"read"}, Go(w, pc),
         call[w].step \in IF call[w].does = "recalled" THEN {0} ELSE StepNumber,
         pc = "advance" => call[w].does = "approved",
         pc \in {"workflow", "invoice"} => call[w].does # "delegated"
  PROVE  CallsOK'
<1> DEFINE c == [call[w] EXCEPT !.pc = pc]
<1>1. call[w] \in Call /\ KeepsTo(call[w]) /\ workflows[call[w].wf].inv = call[w].inv
  BY DEF TypeOK, CallsOK
<1>2. c \in Call /\ KeepsTo(c) /\ c.wf = call[w].wf /\ c.inv = call[w].inv
  BY <1>1 DEF Call, CallStep, KeepsTo, OnWorkflow
<1>3. call' = [call EXCEPT ![w] = c]
  BY DEF Go
<1> QED
  BY <1>1, <1>2, <1>3, CalledWorkflow, OneCallChanges

\* Every step of a handler keeps the calls well formed.
LEMMA CallsStep ==
  ASSUME TypeOK, WorkflowsKept, NEW w \in Worker, Proceed(w) PROVE CallsOK'
<1>0. call[w] \in Call /\ KeepsTo(call[w])
  BY DEF TypeOK, CallsOK
<1>1. CASE SubmitUpdate(w)
  <2> DEFINE c == [call[w] EXCEPT !.pc = "create"]
  <2>1. c \in Call /\ KeepsTo(c) /\ c.pc \notin OnWorkflow
    BY <1>0, <1>1 DEF Call, CallStep, KeepsTo, OnWorkflow, SubmitUpdate, At
  <2> QED
    BY <1>1, <2>1, OneCallChanges DEF SubmitUpdate, Go
<1>2. CASE CreateApprovalWorkflow(w) \/ AppendAudit(w)
  BY <1>2, ReplyOK DEF CreateApprovalWorkflow, AppendAudit
<1>3. CASE ReadStep(w)
  <2>1. CASE Go(w, "step") /\ call[w].step \in StepNumber
    <3>1. call[w].does # "recalled" /\ call[w].pc \in OnWorkflow
      BY <1>0, <1>3 DEF ReadStep, KeepsTo, At, OnWorkflow
    <3> QED
      BY <2>1, <3>1, GoOK DEF OnWorkflow
  <2> QED
    BY <1>3, <2>1, ReplyOK DEF ReadStep
<1>4. ASSUME NEW pc \in OnWorkflow \ {"read"}, Go(w, pc), call[w].pc \in OnWorkflow \ {"read"},
             pc = "advance" => call[w].does = "approved",
             pc \in {"workflow", "invoice"} => call[w].does # "delegated"
      PROVE  CallsOK'
  BY <1>0, <1>4, GoOK DEF KeepsTo
<1>5. CASE ApproveStep(w) \/ RejectStep(w) \/ RecallSteps(w)
  BY <1>4, <1>5 DEF ApproveStep, RejectStep, RecallSteps, Does, At, OnWorkflow
<1>6. CASE AdvanceStep(w) \/ CompleteWorkflow(w) \/ UpdateInvoice(w)
  BY <1>0, <1>4, <1>6 DEF AdvanceStep, CompleteWorkflow, UpdateInvoice, At, OnWorkflow, KeepsTo
<1>7. CASE \E to \in User : DelegateUpdate(w, to)
  BY <1>4, <1>7, ReplyOK DEF DelegateUpdate, Does, At, OnWorkflow
<1> QED
  BY <1>1, <1>2, <1>3, <1>5, <1>6, <1>7 DEF Proceed

\* A call that is taken.
LEMMA CallsBegin ==
  ASSUME TypeOK, NEW w \in Worker, NEW u \in User, Begin(w, u)
  PROVE  CallsOK' /\ UNCHANGED <<status, workflows, steps, audit>>
<1>1. PICK pc \in {"submit", "read", "step"}, action \in Action \cup {Nil},
           i \in InvoiceId, x \in WorkflowId \cup {Nil}, n \in Nat :
         /\ Receive(w, pc, action, i, x, n, u)
         /\ KeepsTo([pc |-> pc, does |-> action, inv |-> i, wf |-> x, step |-> n, user |-> u])
         /\ pc \in OnWorkflow => workflows[x].inv = i /\ workflows[x].status # "none"
  <2>1. CASE \E i \in InvoiceId : Submit(w, i, u)
    <3>1. PICK i \in InvoiceId : Receive(w, "submit", Nil, i, Nil, 0, u)
      BY <2>1 DEF Submit
    <3>2. KeepsTo([pc |-> "submit", does |-> Nil, inv |-> i, wf |-> Nil, step |-> 0, user |-> u])
      BY DEF KeepsTo, OnWorkflow
    <3> QED
      BY <3>1, <3>2 DEF OnWorkflow
  <2>2. ASSUME NEW x \in WorkflowId,
               \/ \E action \in Action : ReadWorkflow(w, x, u, action)
               \/ RecallWorkflow(w, x, u)
               \/ \E n \in StepNumber : DelegateStep(w, x, n, u)
        PROVE  \E pc \in {"read", "step"}, action \in Action, n \in Nat :
                  /\ Receive(w, pc, action, workflows[x].inv, x, n, u)
                  /\ workflows[x].status # "none"
                  /\ pc = "read" => action # "recalled"
                  /\ pc = "step" => action = "recalled" /\ n = 0
    <3>1. ASSUME NEW action \in Action, ReadWorkflow(w, x, u, action)
          PROVE  /\ Receive(w, "read", action, workflows[x].inv, x, workflows[x].current, u)
                 /\ workflows[x].status # "none" /\ action # "recalled"
                 /\ workflows[x].current \in Nat
      BY <3>1 DEF ReadWorkflow, Active, Exists, TypeOK, TablesOK, Workflow
    <3>2. ASSUME NEW n \in StepNumber, DelegateStep(w, x, n, u)
          PROVE  /\ Receive(w, "read", "delegated", workflows[x].inv, x, n, u)
                 /\ workflows[x].status # "none" /\ n \in Nat
      BY <3>2, MaxStepAssumption DEF DelegateStep, Exists, StepNumber
    <3>3. ASSUME RecallWorkflow(w, x, u)
          PROVE  /\ Receive(w, "step", "recalled", workflows[x].inv, x, 0, u)
                 /\ workflows[x].status # "none"
      BY <3>3 DEF RecallWorkflow, Active, Exists
    <3>4. {"delegated", "recalled"} \subseteq Action
      BY DEF Action
    <3> QED
      BY <2>2, <3>1, <3>2, <3>3, <3>4
  <2>3. ASSUME NEW x \in WorkflowId, workflows[x].status # "none" PROVE workflows[x].inv \in InvoiceId
    BY <2>3 DEF TypeOK, RowsOK
  <2>4. ASSUME NEW x \in WorkflowId, NEW i \in InvoiceId, NEW pc \in {"read", "step"},
               NEW action \in Action, NEW n \in Nat,
               pc = "read" => action # "recalled",
               pc = "step" => action = "recalled" /\ n = 0
        PROVE  KeepsTo([pc |-> pc, does |-> action, inv |-> i, wf |-> x, step |-> n, user |-> u])
    BY <2>4 DEF KeepsTo, OnWorkflow
  <2>5. CASE \E x \in WorkflowId : 
               \/ \E action \in Action : ReadWorkflow(w, x, u, action)
               \/ RecallWorkflow(w, x, u)
               \/ \E n \in StepNumber : DelegateStep(w, x, n, u)
    <3>1. PICK x \in WorkflowId, pc \in {"read", "step"}, action \in Action, n \in Nat :
                  /\ Receive(w, pc, action, workflows[x].inv, x, n, u)
                  /\ workflows[x].status # "none"
                  /\ pc = "read" => action # "recalled"
                  /\ pc = "step" => action = "recalled" /\ n = 0
      BY <2>5, <2>2
    <3>2. workflows[x].inv \in InvoiceId
      BY <2>3, <3>1
    <3> QED
      BY <2>4, <3>1, <3>2
  <2> QED
    BY <2>1, <2>5 DEF Begin
<1> DEFINE c == [pc |-> pc, does |-> action, inv |-> i, wf |-> x, step |-> n, user |-> u]
<1>2. c \in Call
  BY <1>1 DEF Call, CallStep
<1>3. UNCHANGED <<status, workflows, steps, audit>> /\ call' = [call EXCEPT ![w] = c]
  BY <1>1 DEF Receive
<1>4. WorkflowsKept
  BY <1>3 DEF WorkflowsKept
<1> QED
  BY <1>1, <1>2, <1>3, <1>4, OneCallChanges

\* The rows of the steps stay well formed, and no statement takes a decision
\* of a workflow back.
DecisionsStand ==
    \A x \in WorkflowId : workflows[x].status # "none" =>
        \A n \in StepNumber : Decided(x, n) => Decided(x, n)'

StepsWhole ==
    /\ steps \in [WorkflowId -> [StepNumber -> ApprovalStep]]
    /\ \A x \in WorkflowId, n \in StepNumber :
          steps[x][n].acted # Nil <=> Decided(x, n)

\* What the updates of a step make of its row.
LEMMA ActedRow ==
  ASSUME NEW s \in ApprovalStep, NEW u \in User, NEW action \in {"approved", "rejected"}
  PROVE  /\ Acted(s, action, u) \in ApprovalStep
         /\ Acted(s, action, u).status = action /\ Acted(s, action, u).acted = u
BY DEF Acted, ApprovalStep

\* A delegated row has the actor it had, that is none.
LEMMA DelegatedRow ==
  ASSUME NEW s \in ApprovalStep, NEW u \in User
  PROVE  /\ [s EXCEPT !.status = "delegated", !.delegated = u] \in ApprovalStep
         /\ [s EXCEPT !.status = "delegated", !.delegated = u].status = "delegated"
         /\ [s EXCEPT !.status = "delegated", !.delegated = u].acted = s.acted
BY DEF ApprovalStep

\* And so has a recalled one.
LEMMA RecalledRow ==
  ASSUME NEW s \in ApprovalStep
  PROVE  /\ [s EXCEPT !.status = "recalled"] \in ApprovalStep
         /\ [s EXCEPT !.status = "recalled"].status = "recalled"
         /\ [s EXCEPT !.status = "recalled"].acted = s.acted
BY DEF ApprovalStep

\* The rows of one workflow change, to rows whose status and actor go
\* together, and no decision of it is lost.
LEMMA RowsChange ==
  ASSUME StepsWhole, NEW x \in WorkflowId,
         steps' \in [WorkflowId -> [StepNumber -> ApprovalStep]],
         \A y \in WorkflowId, k \in StepNumber : y # x => steps'[y][k] = steps[y][k],
         \A k \in StepNumber : steps'[x][k].acted # Nil <=> Decided(x, k)',
         workflows[x].status # "none" =>
            \A k \in StepNumber : Decided(x, k) => Decided(x, k)'
  PROVE  StepsWhole' /\ DecisionsStand
<1>1. \A y \in WorkflowId, k \in StepNumber :
         y # x => /\ steps'[y][k].acted = steps[y][k].acted
                  /\ Decided(y, k)' <=> Decided(y, k)
  BY DEF Decided
<1>2. \A y \in WorkflowId, k \in StepNumber : steps'[y][k].acted # Nil <=> Decided(y, k)'
  BY <1>1 DEF StepsWhole
<1>3. DecisionsStand
  BY <1>1 DEF DecisionsStand
<1> QED
  BY <1>2, <1>3 DEF StepsWhole

\* One row of a workflow is replaced by one with the status and the actor
\* that go together.
LEMMA OneStepChanges ==
  ASSUME StepsWhole, NEW x \in WorkflowId, NEW n \in StepNumber, NEW r \in ApprovalStep,
         SetStep(x, n, r),
         r.acted # Nil <=> r.status \in {"approved", "rejected"},
         Decided(x, n) => r.status \in {"approved", "rejected"}
  PROVE  StepsWhole' /\ DecisionsStand
<1>1. steps' = [steps EXCEPT ![x] = [steps[x] EXCEPT ![n] = r]]
  BY DEF SetStep
<1>2. steps' \in [WorkflowId -> [StepNumber -> ApprovalStep]]
  BY <1>1 DEF StepsWhole
<1>3. \A y \in WorkflowId, k \in StepNumber :
         steps'[y][k] = IF y = x /\ k = n THEN r ELSE steps[y][k]
  BY <1>1 DEF StepsWhole
<1>4. \A k \in StepNumber : k # n => /\ steps'[x][k] = steps[x][k]
                                     /\ Decided(x, k)' <=> Decided(x, k)
  BY <1>3 DEF Decided
<1>5. steps'[x][n] = r /\ (Decided(x, n)' <=> r.status \in {"approved", "rejected"})
  BY <1>3 DEF Decided
<1>6. ASSUME NEW k \in StepNumber
      PROVE  /\ steps'[x][k].acted # Nil <=> Decided(x, k)'
             /\ Decided(x, k) => Decided(x, k)'
  BY <1>4, <1>5 DEF StepsWhole
<1> QED
  BY <1>2, <1>3, <1>6, RowsChange

\* Every statement on the steps.
LEMMA StepsStep ==
  ASSUME TypeOK, NEW w \in Worker, Proceed(w) PROVE StepsWhole' /\ DecisionsStand
<1> DEFINE x == call[w].wf
           n == call[w].step
<1>0. StepsWhole /\ call[w] \in Call /\ KeepsTo(call[w])
  BY DEF TypeOK, TablesOK, RowsOK, CallsOK, StepsWhole
<1>1. CASE ApproveStep(w) \/ RejectStep(w)
  <2>1. PICK action \in {"approved", "rejected"} :
           call[w].does = action /\ SetStep(x, n, Acted(steps[x][n], action, call[w].user))
    BY <1>1 DEF ApproveStep, RejectStep, Does
  <2>2. x \in WorkflowId /\ n \in StepNumber /\ call[w].user \in User
    BY <1>0, <1>1, <2>1 DEF ApproveStep, RejectStep, Does, At, KeepsTo, OnWorkflow
  <2> DEFINE r == Acted(steps[x][n], action, call[w].user)
  <2>3. steps[x][n] \in ApprovalStep
    BY <1>0, <2>2 DEF StepsWhole
  <2>4. r \in ApprovalStep /\ r.acted = call[w].user /\ r.status = action
    BY <2>2, <2>3, ActedRow
  <2> QED
    BY <1>0, <2>1, <2>2, <2>4, OneStepChanges, RoutingNilAssumption
<1>2. CASE \E to \in User : DelegateUpdate(w, to)
  <2>1. PICK to \in User : DelegateUpdate(w, to)
    BY <1>2
  <2>2. x \in WorkflowId /\ n \in StepNumber
    BY <1>0, <2>1 DEF DelegateUpdate, Does, At, KeepsTo, OnWorkflow
  <2>3. CASE steps[x][n].status = "pending"
    <3> DEFINE r == [steps[x][n] EXCEPT !.status = "delegated", !.delegated = to]
    <3>0. steps[x][n] \in ApprovalStep
      BY <1>0, <2>2 DEF StepsWhole
    <3>1. r \in ApprovalStep /\ r.acted = steps[x][n].acted /\ r.status = "delegated"
      BY <3>0, DelegatedRow
    <3>2. ~Decided(x, n) /\ steps[x][n].acted = Nil
      BY <1>0, <2>2, <2>3 DEF StepsWhole, Decided
    <3> QED
      BY <1>0, <2>1, <2>2, <2>3, <3>1, <3>2, OneStepChanges DEF DelegateUpdate
  <2>4. CASE steps[x][n].status # "pending"
    BY <1>0, <2>1, <2>4 DEF DelegateUpdate, StepsWhole, DecisionsStand, Decided
  <2> QED
    BY <2>3, <2>4
<1>3. CASE RecallSteps(w)
  <2>1. PICK y \in WorkflowId : y = x
    BY <1>0, <1>3 DEF RecallSteps, Does, At, KeepsTo, OnWorkflow
  <2> DEFINE row(k) == IF steps[y][k].status = "pending"
                       THEN [steps[y][k] EXCEPT !.status = "recalled"] ELSE steps[y][k]
  <2>2. steps' = [steps EXCEPT ![y] = [k \in StepNumber |-> row(k)]]
    BY <1>3, <2>1 DEF RecallSteps
  <2>3. ASSUME NEW k \in StepNumber
        PROVE  row(k) \in ApprovalStep /\ row(k).acted = steps[y][k].acted
               /\ (row(k).status \in {"approved", "rejected"} <=> Decided(y, k))
    <3>1. steps[y][k] \in ApprovalStep
      BY <1>0, <2>1 DEF StepsWhole
    <3>2. CASE steps[y][k].status = "pending"
      <4>2. row(k).status = "recalled" /\ row(k).acted = steps[y][k].acted /\ row(k) \in ApprovalStep
        BY <3>1, <3>2, RecalledRow
      <4> QED
        BY <3>2, <4>2 DEF Decided
    <3>3. CASE steps[y][k].status # "pending"
      BY <3>1, <3>3 DEF Decided
    <3> QED
      BY <3>2, <3>3
  <2> HIDE DEF row
  <2>4. \A z \in WorkflowId, k \in StepNumber :
           steps'[z][k] = IF z = y THEN row(k) ELSE steps[z][k]
    BY <1>0, <2>2 DEF StepsWhole
  <2>5. steps' \in [WorkflowId -> [StepNumber -> ApprovalStep]]
    BY <1>0, <2>1, <2>2, <2>3 DEF StepsWhole
  <2>6. \A k \in StepNumber : steps'[y][k] = row(k) /\ (Decided(y, k)' <=> Decided(y, k))
    BY <2>1, <2>3, <2>4 DEF Decided
  <2>7. \A k \in StepNumber : steps'[y][k].acted # Nil <=> Decided(y, k)'
    BY <1>0, <2>1, <2>3, <2>6 DEF StepsWhole
  <2> QED
    BY <1>0, <2>1, <2>4, <2>5, <2>6, <2>7, RowsChange
<1>4. CASE CreateApprovalWorkflow(w)
  <2>0. PICK y \in WorkflowId, plan \in (SUBSET StepNumber) \ {{}} :
         \E users \in [plan -> User \cup {Nil}] :
           /\ workflows[y].status = "none"
           /\ steps' = [steps EXCEPT ![y] = BuildSteps(plan, users)]
    BY <1>4 DEF CreateApprovalWorkflow
  <2>1. PICK users \in [plan -> User \cup {Nil}] :
           /\ workflows[y].status = "none"
           /\ steps' = [steps EXCEPT ![y] = BuildSteps(plan, users)]
    BY <2>0
  <2> DEFINE row(k) == IF k \in plan THEN [NoStep EXCEPT !.status = "pending", !.assigned = users[k]]
                                     ELSE NoStep
  <2>2. ASSUME NEW k \in StepNumber
        PROVE  row(k) \in ApprovalStep /\ row(k).acted = Nil
               /\ row(k).status \notin {"approved", "rejected"}
    BY <2>1 DEF NoStep, ApprovalStep
  <2>3. steps' = [steps EXCEPT ![y] = [k \in StepNumber |-> row(k)]]
    BY <2>1 DEF BuildSteps
  <2> HIDE DEF row
  <2>4. \A z \in WorkflowId, k \in StepNumber :
           steps'[z][k] = IF z = y THEN row(k) ELSE steps[z][k]
    BY <1>0, <2>3 DEF StepsWhole
  <2>5. steps' \in [WorkflowId -> [StepNumber -> ApprovalStep]]
    BY <1>0, <2>2, <2>3 DEF StepsWhole
  <2>6. \A k \in StepNumber : steps'[y][k] = row(k) /\ ~Decided(y, k)'
    BY <2>2, <2>4 DEF Decided
  <2>7. \A k \in StepNumber : steps'[y][k].acted # Nil <=> Decided(y, k)'
    BY <2>2, <2>6
  <2> QED
    BY <1>0, <2>1, <2>4, <2>5, <2>7, RowsChange
<1>5. ASSUME UNCHANGED steps PROVE StepsWhole' /\ DecisionsStand
  BY <1>0, <1>5 DEF StepsWhole, DecisionsStand, Decided
<1> QED
  BY <1>1, <1>2, <1>3, <1>4, <1>5 DEF Proceed, SubmitUpdate, ReadStep, AdvanceStep,
     CompleteWorkflow, UpdateInvoice, AppendAudit

\* What a row of a workflow may become.
LEMMA AdvancedRow ==
  ASSUME NEW r \in Workflow, NEW n \in Nat
  PROVE  /\ [r EXCEPT !.current = n, !.status = "in_progress"] \in Workflow
         /\ [r EXCEPT !.current = n, !.status = "in_progress"].status = "in_progress"
         /\ [r EXCEPT !.current = n, !.status = "in_progress"].inv = r.inv
         /\ [r EXCEPT !.current = n, !.status = "in_progress"].total = r.total
BY DEF Workflow

\* A decided workflow is still of its invoice.
LEMMA CompletedRow ==
  ASSUME NEW r \in Workflow, NEW s \in Action \ {"delegated"}
  PROVE  /\ [r EXCEPT !.status = s] \in Workflow
         /\ [r EXCEPT !.status = s].status = s /\ s # "none"
         /\ [r EXCEPT !.status = s].inv = r.inv
         /\ [r EXCEPT !.status = s].total = r.total
BY DEF Workflow, Action

\* The rows of the workflows are there or not.
WorkflowsWhole ==
    /\ workflows \in [WorkflowId -> Workflow]
    /\ \A x \in WorkflowId :
          IF workflows[x].status = "none" THEN workflows[x] = NoWorkflow
                                          ELSE workflows[x].inv \in InvoiceId

\* A statement that replaces one workflow by one that is there.
LEMMA OneWorkflowChanges ==
  ASSUME WorkflowsWhole, NEW x \in WorkflowId, NEW r \in Workflow,
         workflows' = [workflows EXCEPT ![x] = r],
         r.status # "none", r.inv \in InvoiceId,
         workflows[x].status # "none" =>
            r.inv = workflows[x].inv /\ r.total = workflows[x].total
  PROVE  WorkflowsWhole' /\ WorkflowsKept
<1>1. workflows' \in [WorkflowId -> Workflow]
  BY DEF WorkflowsWhole
<1>2. \A y \in WorkflowId : workflows'[y] = IF y = x THEN r ELSE workflows[y]
  BY DEF WorkflowsWhole
<1> QED
  BY <1>1, <1>2 DEF WorkflowsWhole, WorkflowsKept

\* A new workflow has as many steps as its rule.
LEMMA PlanSize == \A plan \in SUBSET StepNumber : Cardinality(plan) \in Nat
<1>1. IsFiniteSet(StepNumber)
  BY FS_Interval, MaxStepAssumption DEF StepNumber
<1> QED
  BY <1>1, FS_Subset, FS_CardinalityType

\* Every statement on the workflows.
LEMMA WorkflowsStep ==
  ASSUME TypeOK, NEW w \in Worker, Proceed(w) PROVE WorkflowsWhole' /\ WorkflowsKept
<1> DEFINE x == call[w].wf
<1>0. WorkflowsWhole /\ call[w] \in Call /\ KeepsTo(call[w])
  BY DEF TypeOK, TablesOK, RowsOK, CallsOK, WorkflowsWhole
<1>1. CASE CreateApprovalWorkflow(w)
  <2>1. PICK y \in WorkflowId, plan \in SUBSET StepNumber :
           workflows[y].status = "none" /\
           workflows' = [workflows EXCEPT ![y] =
                [status |-> "in_progress", inv |-> call[w].inv,
                 by |-> call[w].user, total |-> Cardinality(plan), current |-> 1]]
    BY <1>1 DEF CreateApprovalWorkflow
  <2> DEFINE r == [status |-> "in_progress", inv |-> call[w].inv,
                   by |-> call[w].user, total |-> Cardinality(plan), current |-> 1]
  <2>2. call[w].inv \in InvoiceId /\ call[w].user \in User
    BY <1>0, <1>1 DEF CreateApprovalWorkflow, At, KeepsTo
  <2>3. Cardinality(plan) \in Nat
    BY PlanSize
  <2>4. r \in Workflow
    BY <2>2, <2>3 DEF Workflow
  <2> QED
    BY <1>0, <2>1, <2>2, <2>4, OneWorkflowChanges
<1>2. CASE AdvanceStep(w) \/ CompleteWorkflow(w)
  <2>1. call[w].pc \in OnWorkflow \ {"read"}
    BY <1>2 DEF AdvanceStep, CompleteWorkflow, At, OnWorkflow
  <2>2. /\ x \in WorkflowId /\ workflows[x] \in Workflow /\ workflows[x].status # "none"
        /\ workflows[x].inv \in InvoiceId
    BY <1>0, <2>1, CalledWorkflow DEF WorkflowsWhole
  <2>3. CASE AdvanceStep(w)
    <3> DEFINE r == [workflows[x] EXCEPT !.current = call[w].step + 1, !.status = "in_progress"]
    <3>1. call[w].step + 1 \in Nat
      BY <1>0 DEF Call
    <3>2. r \in Workflow /\ r.status = "in_progress" /\ r.inv = workflows[x].inv
          /\ r.total = workflows[x].total
      BY <2>2, <3>1, AdvancedRow
    <3>3. workflows' = [workflows EXCEPT ![x] = r]
      BY <2>3 DEF AdvanceStep
    <3> QED
      BY <1>0, <2>2, <3>2, <3>3, OneWorkflowChanges
  <2>4. CASE CompleteWorkflow(w)
    <3> DEFINE r == [workflows[x] EXCEPT !.status = call[w].does]
    <3>1. call[w].does \in Action \ {"delegated"}
      BY <1>0, <2>1, <2>4 DEF KeepsTo, CompleteWorkflow, At
    <3>2. r \in Workflow /\ r.status # "none" /\ r.inv = workflows[x].inv
          /\ r.total = workflows[x].total
      BY <2>2, <3>1, CompletedRow
    <3>3. workflows' = [workflows EXCEPT ![x] = r]
      BY <2>4 DEF CompleteWorkflow
    <3> QED
      BY <1>0, <2>2, <3>2, <3>3, OneWorkflowChanges
  <2> QED
    BY <1>2, <2>3, <2>4
<1>3. ASSUME UNCHANGED workflows PROVE WorkflowsWhole' /\ WorkflowsKept
  BY <1>0, <1>3 DEF WorkflowsWhole, WorkflowsKept
<1> QED
  BY <1>1, <1>2, <1>3 DEF Proceed, SubmitUpdate, ReadStep, ApproveStep, RejectStep, RecallSteps,
     DelegateUpdate, UpdateInvoice, AppendAudit

\* The invoices' statuses and the audit log.
LEMMA OthersStep ==
  ASSUME TypeOK, NEW w \in Worker, Proceed(w)
  PROVE  status' \in [InvoiceId -> InvoiceStatus] /\ audit' \subseteq AuditEntry
<1>0. /\ status \in [InvoiceId -> InvoiceStatus] /\ audit \subseteq AuditEntry
      /\ KeepsTo(call[w])
  BY DEF TypeOK, TablesOK, CallsOK
<1>1. CASE SubmitUpdate(w) \/ UpdateInvoice(w)
  BY <1>0, <1>1 DEF SubmitUpdate, UpdateInvoice, InvoiceStatus
<1>2. CASE AppendAudit(w)
  <2>1. [wf |-> call[w].wf, step |-> call[w].step, action |-> call[w].does] \in AuditEntry
    BY <1>0, <1>2 DEF AppendAudit, At, KeepsTo, OnWorkflow, AuditEntry
  <2> QED
    BY <1>0, <1>2, <2>1 DEF AppendAudit
<1>3. ASSUME UNCHANGED <<status, audit>>
      PROVE  status' \in [InvoiceId -> InvoiceStatus] /\ audit' \subseteq AuditEntry
  BY <1>0, <1>3
<1> QED
  BY <1>1, <1>2, <1>3 DEF Proceed, CreateApprovalWorkflow, ReadStep, ApproveStep, RejectStep,
     RecallSteps, DelegateUpdate, AdvanceStep, CompleteWorkflow

\* TypeOK is inductive; the facts about what a step keeps come with it.
Keeping == WorkflowsKept /\ DecisionsStand

\* Every step of every call keeps the types, and Keeping.
LEMMA TypeStep == TypeOK /\ [Next]_vars => TypeOK' /\ Keeping
<1> SUFFICES ASSUME TypeOK, [Next]_vars PROVE TypeOK' /\ Keeping
  OBVIOUS
<1>1. ASSUME NEW w \in Worker, Proceed(w) PROVE TypeOK' /\ Keeping
  <2>1. CallsOK'
    BY <1>1, WorkflowsStep, CallsStep
  <2>2. TablesOK' /\ RowsOK'
    BY <1>1, StepsStep, WorkflowsStep, OthersStep DEF TablesOK, RowsOK, StepsWhole, WorkflowsWhole
  <2> QED
    BY <1>1, <2>1, <2>2, StepsStep, WorkflowsStep DEF TypeOK, Keeping
<1>2. ASSUME UNCHANGED <<status, workflows, steps, audit>>
      PROVE  TablesOK' /\ RowsOK' /\ Keeping
  BY <1>2 DEF TypeOK, TablesOK, RowsOK, Decided, Keeping, WorkflowsKept, DecisionsStand
<1>3. ASSUME NEW w \in Worker, NEW u \in User, Begin(w, u) PROVE TypeOK' /\ Keeping
  BY <1>2, <1>3, CallsBegin DEF TypeOK
<1>4. ASSUME NEW w \in Worker, Abort(w) PROVE TypeOK' /\ Keeping
  BY <1>2, <1>4, ReplyOK DEF TypeOK, Abort, Keeping
<1>5. ASSUME UNCHANGED <<workflows, call>> PROVE CallsOK'
  BY <1>5 DEF TypeOK, CallsOK, KeepsTo
<1>6. ASSUME NEW i \in InvoiceId, DeleteInvoice(i) PROVE TypeOK' /\ Keeping
  <2>1. TablesOK'
    BY <1>6 DEF DeleteInvoice, TypeOK, TablesOK, InvoiceStatus
  <2>2. RowsOK' /\ Keeping
    BY <1>6 DEF DeleteInvoice, TypeOK, RowsOK, Decided, Keeping, WorkflowsKept, DecisionsStand
  <2> QED
    BY <1>5, <1>6, <2>1, <2>2 DEF DeleteInvoice, TypeOK
<1>7. CASE UNCHANGED vars
  BY <1>2, <1>5, <1>7 DEF vars, TypeOK
<1> QED
  BY <1>1, <1>3, <1>4, <1>6, <1>7 DEF Next, Serve

\* Rows and calls stay whole: no statement writes to a row that was not
\* inserted, a step has an actor exactly when it was decided, and a call keeps
\* to one workflow and its invoice (TypeOK of ApprovalRouting).
THEOREM TypeCorrect == Spec => []TypeOK
<1>1. TypeOK /\ [Next]_vars => TypeOK'
  BY TypeStep
<1> QED
  BY TypeInit, <1>1, PTL DEF Spec

-----------------------------------------------------------------------------
Inv == TypeOK /\ NoStepSkipped /\ InTurn

\* No call is under way and no workflow is there.
LEMMA InitInv == Init => NoStepSkipped /\ InTurn
<1> SUFFICES ASSUME Init PROVE NoStepSkipped /\ InTurn
  OBVIOUS
<1>1. \A x \in WorkflowId : workflows[x].status = "none" /\ workflows[x].current = 0
  BY DEF Init, NoWorkflow
<1>2. \A x : DecidedUpTo(x, 0 - 1)
  BY DEF DecidedUpTo
<1>3. NoStepSkipped
  BY <1>1, <1>2 DEF NoStepSkipped, InOrder
<1>4. InTurn
  BY DEF Init, InTurn, Turn, Does, At, NoCall
<1> QED
  BY <1>3, <1>4

\* What was decided of a workflow stays decided.
LEMMA DecidedStays ==
  ASSUME DecisionsStand, NEW x \in WorkflowId, workflows[x].status # "none",
         NEW n \in Int, DecidedUpTo(x, n)
  PROVE  DecidedUpTo(x, n)'
BY DEF DecisionsStand, DecidedUpTo

\* An approval that writes its step extends the decided steps by its own.
LEMMA ApproveExtends ==
  ASSUME TypeOK, InTurn, DecisionsStand, NEW w \in Worker, ApproveStep(w),
         NEW x \in WorkflowId, NEW n \in StepNumber, x = call[w].wf, n = call[w].step
  PROVE  DecidedUpTo(x, n)'
<1>1. workflows[x].status # "none"
  BY CalledWorkflow DEF ApproveStep, Does, At, OnWorkflow
<1>2. n - 1 \in Int /\ n \in Nat
  BY MaxStepAssumption DEF StepNumber
<1>3. DecidedUpTo(x, n - 1)'
  <2>1. DecidedUpTo(x, n - 1)
    BY DEF ApproveStep, InTurn, Turn, Does
  <2> QED
    BY <1>1, <1>2, <2>1, DecidedStays
<1>4. steps'[x][n].status = "approved"
  BY DEF ApproveStep, SetStep, Acted, TypeOK, TablesOK, ApprovalStep
<1>5. Decided(x, n)'
  BY <1>4 DEF Decided
<1>6. \A k \in 1 .. n : k \in 1 .. n - 1 \/ k = n
  BY <1>2
<1> QED
  BY <1>3, <1>5, <1>6 DEF DecidedUpTo

\* A call nobody touches keeps its turn.
LEMMA TurnKept ==
  ASSUME TypeOK, Keeping, NEW v \in Worker, Turn(v), call'[v] = call[v]
  PROVE  Turn(v)'
<1>1. CASE call[v].pc \in OnWorkflow
  <2>1. PICK x \in WorkflowId, n \in Nat, t \in Nat :
           x = call[v].wf /\ n = call[v].step /\ t = workflows[x].total
           /\ workflows[x].status # "none"
    BY <1>1, CalledWorkflow DEF TypeOK, TablesOK, CallsOK, Call, Workflow
  <2>2. workflows'[x].total = t
    BY <2>1 DEF Keeping, WorkflowsKept
  <2>3. \A k \in Int : DecidedUpTo(x, k) => DecidedUpTo(x, k)'
    BY <2>1, DecidedStays DEF Keeping
  <2>4. n - 1 \in Int /\ n \in Int /\ t \in Int
    BY <2>1
  <2>5. ASSUME NEW k \in Int, DecidedUpTo(x, k) PROVE DecidedUpTo(x, k)'
    BY <2>3, <2>5
  <2>6. call'[v].wf = x /\ call'[v].step = n
    BY <2>1
  <2> QED
    BY <2>1, <2>2, <2>4, <2>5, <2>6 DEF Turn, Does, At
<1>2. CASE call[v].pc \notin OnWorkflow
  BY <1>2 DEF Turn, Does, At, OnWorkflow
<1> QED
  BY <1>1, <1>2

\* A call that goes on keeps its turn.
LEMMA TurnStep ==
  ASSUME TypeOK, InTurn, Keeping, NEW w \in Worker, Proceed(w) PROVE InTurn'
<1>0. call[w] \in Call /\ KeepsTo(call[w]) /\ call \in [Worker -> Call]
  BY DEF TypeOK, CallsOK
<1>1. ASSUME NEW v \in Worker, v # w PROVE Turn(v)'
  <2>1. call'[v] = call[v]
    BY <1>0, <1>1 DEF Proceed, SubmitUpdate, CreateApprovalWorkflow, ReadStep, ApproveStep,
       RejectStep, RecallSteps, DelegateUpdate, AdvanceStep, CompleteWorkflow, UpdateInvoice,
       AppendAudit, Go, Reply
  <2> QED
    BY <2>1, TurnKept DEF InTurn
<1>2. ASSUME NEW pc \in CallStep, Go(w, pc) 
      PROVE  /\ call'[w].pc = pc /\ call'[w].wf = call[w].wf
             /\ call'[w].step = call[w].step /\ call'[w].does = call[w].does
  BY <1>0, <1>2 DEF Go, Call
<1>3. ASSUME call'[w] = NoCall
      PROVE  Turn(w)'
  BY <1>3 DEF Turn, Does, At, NoCall
<1>4. ASSUME ReadStep(w)
      PROVE  Turn(w)'
  <2>1. CASE Reply(w)
    BY <1>0, <1>3, <2>1 DEF Reply
  <2>2. CASE Go(w, "step") /\ call[w].does = "approved"
    <3>1. PICK x \in WorkflowId, n \in Nat : x = call[w].wf /\ n = call[w].step
                                             /\ workflows[x].status # "none"
      BY <1>0, <1>4, CalledWorkflow DEF ReadStep, At, OnWorkflow, Call
    <3>2. DecidedUpTo(x, n - 1)
      BY <1>4, <2>2, <3>1 DEF ReadStep, InTurn, Turn, Does
    <3>3. DecidedUpTo(x, n - 1)'
      BY <3>1, <3>2, DecidedStays DEF Keeping
    <3>4. call'[w].pc = "step" /\ call'[w].wf = x /\ call'[w].step = n
      BY <1>2, <2>2, <3>1 DEF CallStep
    <3> QED
      BY <3>3, <3>4 DEF Turn, Does, At
  <2>3. CASE Go(w, "step") /\ call[w].does # "approved"
    BY <1>2, <2>3 DEF CallStep, Turn, Does, At
  <2> QED
    BY <1>4, <2>1, <2>2, <2>3 DEF ReadStep
<1>5. ASSUME ApproveStep(w)
      PROVE  Turn(w)'
  <2>1. PICK x \in WorkflowId, n \in StepNumber, t \in Nat :
           x = call[w].wf /\ n = call[w].step /\ t = workflows[x].total
           /\ workflows[x].status # "none"
    BY <1>0, <1>5, CalledWorkflow DEF ApproveStep, Does, At, OnWorkflow, KeepsTo, TypeOK, TablesOK,
       Workflow
  <2>2. DecidedUpTo(x, n)'
    BY <1>5, <2>1, ApproveExtends DEF Keeping
  <2>3. workflows'[x].total = t /\ n \in Nat
    BY <2>1, MaxStepAssumption DEF Keeping, WorkflowsKept, StepNumber
  <2>4. CASE Go(w, "advance")
    <3>1. call'[w].pc = "advance" /\ call'[w].wf = x /\ call'[w].step = n
      BY <1>2, <2>1, <2>4 DEF CallStep
    <3> QED
      BY <2>2, <3>1 DEF Turn, Does, At
  <2>5. CASE Go(w, "workflow") /\ ~(n < t)
    <3>1. call'[w].pc = "workflow" /\ call'[w].wf = x
      BY <1>2, <2>1, <2>5 DEF CallStep
    <3>2. DecidedUpTo(x, t)'
      BY <2>1, <2>2, <2>3, <2>5 DEF DecidedUpTo
    <3> QED
      BY <2>3, <3>1, <3>2 DEF Turn, Does, At
  <2> QED
    BY <1>5, <2>1, <2>4, <2>5 DEF ApproveStep
<1>6. ASSUME RejectStep(w) \/ RecallSteps(w)
      PROVE  Turn(w)'
  <2>1. Go(w, "workflow") /\ call[w].does # "approved"
    BY <1>6 DEF RejectStep, RecallSteps, Does
  <2> QED
    BY <1>2, <2>1 DEF CallStep, Turn, Does, At
<1>7. ASSUME NEW pc \in {"create", "invoice", "audit"}, Go(w, pc) PROVE Turn(w)'
  BY <1>2, <1>7 DEF CallStep, Turn, Does, At
<1>8. Turn(w)'
  <2>1. CASE CreateApprovalWorkflow(w) \/ AppendAudit(w)
    BY <1>0, <1>3, <2>1 DEF CreateApprovalWorkflow, AppendAudit, Reply
  <2>2. CASE SubmitUpdate(w) \/ AdvanceStep(w) \/ CompleteWorkflow(w) \/ UpdateInvoice(w)
    BY <1>7, <2>2 DEF SubmitUpdate, AdvanceStep, CompleteWorkflow, UpdateInvoice
  <2>3. CASE \E to \in User : DelegateUpdate(w, to)
    BY <1>0, <1>3, <1>7, <2>3 DEF DelegateUpdate, Reply
  <2> QED
    BY <1>4, <1>5, <1>6, <2>1, <2>2, <2>3 DEF Proceed
<1> QED
  BY <1>1, <1>8 DEF InTurn

\* An approval or a rejection is taken with the current step of its workflow.
LEMMA TurnBegin ==
  ASSUME TypeOK, NoStepSkipped, InTurn, Keeping, NEW w \in Worker, NEW u \in User, Begin(w, u)
  PROVE  InTurn'
<1>0. call \in [Worker -> Call]
  BY DEF TypeOK, CallsOK
<1>1. ASSUME NEW v \in Worker, v # w PROVE Turn(v)'
  <2>1. call'[v] = call[v]
    BY <1>0, <1>1 DEF Begin, Submit, ReadWorkflow, RecallWorkflow, DelegateStep, Receive
  <2> QED
    BY <2>1, TurnKept DEF InTurn
<1>2. ASSUME NEW x \in WorkflowId, NEW action \in Action, ReadWorkflow(w, x, u, action)
      PROVE  Turn(w)'
  <2>1. PICK n \in Nat : n = workflows[x].current
    BY DEF TypeOK, TablesOK, Workflow
  <2>2. DecidedUpTo(x, n - 1) /\ workflows[x].status # "none"
    BY <1>2, <2>1 DEF NoStepSkipped, InOrder, ReadWorkflow, Active, Exists
  <2>3. DecidedUpTo(x, n - 1)'
    BY <2>1, <2>2, DecidedStays DEF Keeping
  <2>4. call'[w].pc = "read" /\ call'[w].wf = x /\ call'[w].step = n
    BY <1>0, <1>2, <2>1 DEF ReadWorkflow, Receive
  <2> QED
    BY <2>3, <2>4 DEF Turn, Does, At
<1>3. ASSUME call'[w].does # "approved" PROVE Turn(w)'
  BY <1>3 DEF Turn, Does
<1>4. ASSUME NEW x \in WorkflowId, RecallWorkflow(w, x, u) \/ \E n \in StepNumber : DelegateStep(w, x, n, u)
      PROVE  Turn(w)'
  BY <1>0, <1>3, <1>4 DEF RecallWorkflow, DelegateStep, Receive
<1>5. ASSUME NEW i \in InvoiceId, Submit(w, i, u) PROVE Turn(w)'
  BY <1>0, <1>5 DEF Submit, Receive, Turn, Does, At
<1>6. Turn(w)'
  BY <1>2, <1>4, <1>5 DEF Begin
<1> QED
  BY <1>1, <1>6 DEF InTurn

\* A workflow nobody writes to stays in order.
LEMMA OrderKept ==
  ASSUME TypeOK, Keeping, NEW x \in WorkflowId, InOrder(x), workflows'[x] = workflows[x]
  PROVE  InOrder(x)'
<1>1. PICK n \in Nat, t \in Nat : n = workflows[x].current /\ t = workflows[x].total
  BY DEF TypeOK, TablesOK, Workflow
<1>2. CASE workflows[x].status # "none"
  <2>1. DecidedUpTo(x, n - 1)'
    BY <1>1, <1>2, DecidedStays DEF InOrder, Keeping
  <2>2. workflows[x].status = "approved" => DecidedUpTo(x, t)'
    BY <1>1, <1>2, DecidedStays DEF InOrder, Keeping
  <2> QED
    BY <1>1, <2>1, <2>2 DEF InOrder
<1>3. CASE workflows[x].status = "none"
  <2>1. n = 0
    BY <1>1, <1>3 DEF TypeOK, RowsOK, NoWorkflow
  <2>2. DecidedUpTo(x, n - 1)'
    BY <2>1 DEF DecidedUpTo
  <2> QED
    BY <1>1, <1>3, <2>2 DEF InOrder
<1> QED
  BY <1>2, <1>3

\* A workflow is completed, and its current step moved on, by a call in turn.
LEMMA OrderStep ==
  ASSUME TypeOK, NoStepSkipped, InTurn, Keeping, NEW w \in Worker, Proceed(w)
  PROVE  NoStepSkipped'
<1>0. /\ call[w] \in Call /\ KeepsTo(call[w])
      /\ workflows \in [WorkflowId -> Workflow]
  BY DEF TypeOK, TablesOK, CallsOK
<1> SUFFICES ASSUME NEW x \in WorkflowId, workflows'[x] # workflows[x] PROVE InOrder(x)'
  BY OrderKept DEF NoStepSkipped
<1>1. CASE CreateApprovalWorkflow(w)
  <2>1. workflows'[x].status = "in_progress" /\ workflows'[x].current = 1
    BY <1>0, <1>1 DEF CreateApprovalWorkflow
  <2>2. DecidedUpTo(x, 1 - 1)'
    BY DEF DecidedUpTo
  <2> QED
    BY <2>1, <2>2 DEF InOrder
<1>2. CASE AdvanceStep(w)
  <2>1. PICK n \in StepNumber : n = call[w].step
    BY <1>0, <1>2 DEF AdvanceStep, At, KeepsTo, OnWorkflow
  <2>2. x = call[w].wf /\ call[w].does = "approved" /\ workflows[x].status # "none"
    BY <1>0, <1>2, CalledWorkflow DEF AdvanceStep, At, KeepsTo, OnWorkflow
  <2>3. DecidedUpTo(x, n)
    BY <1>2, <2>1, <2>2 DEF InTurn, Turn, Does, AdvanceStep, At
  <2>4. n \in Int /\ (n + 1) - 1 = n
    BY MaxStepAssumption DEF StepNumber
  <2>5. DecidedUpTo(x, n)'
    BY <2>2, <2>3, <2>4, DecidedStays DEF Keeping
  <2>6. workflows'[x].status = "in_progress" /\ workflows'[x].current = n + 1
    BY <1>0, <1>2, <2>1, <2>2 DEF AdvanceStep, Workflow
  <2> QED
    BY <2>4, <2>5, <2>6 DEF InOrder
<1>3. CASE CompleteWorkflow(w)
  <2>1. PICK n \in Nat, t \in Nat : n = workflows[x].current /\ t = workflows[x].total
    BY <1>0 DEF Workflow
  <2>2. x = call[w].wf /\ workflows[x].status # "none"
    BY <1>0, <1>3, CalledWorkflow DEF CompleteWorkflow, At, OnWorkflow
  <2>3. /\ workflows'[x].status = call[w].does
        /\ workflows'[x].current = n /\ workflows'[x].total = t
    BY <1>0, <1>3, <2>1, <2>2 DEF CompleteWorkflow, Workflow
  <2>4. DecidedUpTo(x, n - 1)'
    BY <2>1, <2>2, DecidedStays DEF Keeping, NoStepSkipped, InOrder
  <2>5. CASE call[w].does = "approved"
    <3>1. DecidedUpTo(x, t)
      BY <1>3, <2>1, <2>2, <2>5 DEF InTurn, Turn, Does, CompleteWorkflow, At
    <3>2. DecidedUpTo(x, t)'
      BY <2>1, <2>2, <3>1, DecidedStays DEF Keeping
    <3> QED
      BY <2>3, <2>4, <3>2 DEF InOrder
  <2>6. CASE call[w].does # "approved"
    BY <2>3, <2>4, <2>6 DEF InOrder
  <2> QED
    BY <2>5, <2>6
<1> QED
  BY <1>1, <1>2, <1>3 DEF Proceed, SubmitUpdate, ReadStep, ApproveStep, RejectStep, RecallSteps,
     DelegateUpdate, UpdateInvoice, AppendAudit

\* One step of the service.
LEMMA InvStep == Inv /\ [Next]_vars => Inv'
<1> SUFFICES ASSUME Inv, [Next]_vars PROVE Inv'
  OBVIOUS
<1>0. /\ TypeOK /\ NoStepSkipped /\ InTurn
      /\ TypeOK' /\ Keeping
  BY TypeStep DEF Inv
<1>1. ASSUME NEW w \in Worker, Proceed(w) PROVE NoStepSkipped' /\ InTurn'
  BY <1>0, <1>1, OrderStep, TurnStep
<1>2. ASSUME UNCHANGED <<workflows, steps>> PROVE NoStepSkipped'
  BY <1>0, <1>2, OrderKept DEF NoStepSkipped
<1>3. ASSUME NEW w \in Worker, NEW u \in User, Begin(w, u) PROVE NoStepSkipped' /\ InTurn'
  BY <1>0, <1>2, <1>3, TurnBegin, CallsBegin
<1>4. ASSUME NEW w \in Worker, Abort(w) PROVE NoStepSkipped' /\ InTurn'
  <2>1. NoStepSkipped'
    BY <1>2, <1>4 DEF Abort
  <2>2. ASSUME NEW v \in Worker PROVE Turn(v)'
    <3>1. CASE v = w
      BY <1>0, <1>4, <3>1 DEF TypeOK, CallsOK, Abort, Reply, NoCall, Turn, Does, At
    <3>2. CASE v # w
      <4>1. call'[v] = call[v]
        BY <1>0, <1>4, <3>2 DEF TypeOK, CallsOK, Abort, Reply
      <4> QED
        BY <1>0, <4>1, TurnKept DEF InTurn
    <3> QED
      BY <3>1, <3>2
  <2> QED
    BY <2>1, <2>2 DEF InTurn
<1>5. ASSUME UNCHANGED <<workflows, steps, call>> PROVE NoStepSkipped' /\ InTurn'
  <2>1. NoStepSkipped'
    BY <1>2, <1>5
  <2>2. ASSUME NEW v \in Worker PROVE Turn(v)'
    <3>1. call'[v] = call[v]
      BY <1>5
    <3> QED
      BY <1>0, <3>1, TurnKept DEF InTurn
  <2> QED
    BY <2>1, <2>2 DEF InTurn
<1>6. CASE UNCHANGED vars \/ \E i \in InvoiceId : DeleteInvoice(i)
  BY <1>0, <1>5, <1>6 DEF vars, DeleteInvoice, Inv
<1> QED
  BY <1>0, <1>1, <1>3, <1>4, <1>6 DEF Inv, Next, Serve

\* Nobody is passed over: whatever calls overlap or fail, a workflow counts as
\* approved only after each of its steps was decided, in turn (ApproveStep and
\* AdvanceStep write in that order).
THEOREM NobodyPassedOver == Spec => []NoStepSkipped
<1>1. Init => Inv
  BY TypeInit, InitInv DEF Inv
<1>2. Inv => NoStepSkipped
  BY DEF Inv
<1> QED
  BY <1>1, <1>2, InvStep, PTL DEF Spec

-----------------------------------------------------------------------------
\* Only DeleteInvoice deletes: a call that goes on is not for a deleted
\* invoice, and writes another status if it writes one.
LEMMA NotDeleted ==
  ASSUME TypeOK, NEW w \in Worker, Proceed(w) PROVE Deleted' \subseteq Deleted
<1>1. status \in [InvoiceId -> InvoiceStatus]
  BY DEF TypeOK, TablesOK
<1>2. CASE SubmitUpdate(w) \/ UpdateInvoice(w)
  BY <1>1, <1>2 DEF SubmitUpdate, UpdateInvoice, Deleted
<1>3. CASE UNCHANGED status
  BY <1>3 DEF Deleted
<1> QED
  BY <1>2, <1>3 DEF Proceed, CreateApprovalWorkflow, ReadStep, ApproveStep, RejectStep,
     RecallSteps, DelegateUpdate, AdvanceStep, CompleteWorkflow, AppendAudit

\* A call that goes on leaves the log with entries of workflows that are there.
LEMMA AuditProceed ==
  ASSUME TypeOK, WorkflowsKept, AuditKept, NEW w \in Worker, Proceed(w)
  PROVE  AuditKept'
<1>1. ASSUME NEW x \in WorkflowId, Exists(x) PROVE Exists(x)'
  BY <1>1, NotDeleted DEF Exists, WorkflowsKept
<1>2. audit \subseteq AuditEntry /\ \A e \in AuditEntry : e.wf \in WorkflowId
  BY DEF TypeOK, TablesOK, AuditEntry
<1>3. \A e \in audit : Exists(e.wf)'
  BY <1>1, <1>2 DEF AuditKept
<1>4. CASE AppendAudit(w)
  <2>1. call[w].wf \in WorkflowId /\ Exists(call[w].wf)
    BY <1>4, CalledWorkflow DEF AppendAudit, At, OnWorkflow, Proceed, Exists, TypeOK, CallsOK
  <2> QED
    BY <1>1, <1>3, <1>4, <2>1 DEF AppendAudit, AuditKept
<1>5. CASE UNCHANGED audit
  BY <1>3, <1>5 DEF AuditKept
<1> QED
  BY <1>4, <1>5 DEF Proceed, SubmitUpdate, CreateApprovalWorkflow, ReadStep, ApproveStep,
     RejectStep, RecallSteps, DelegateUpdate, AdvanceStep, CompleteWorkflow, UpdateInvoice

\* What the audit log tells of is never deleted, whatever call is under way
\* when the draft is (the trigger, and the reference of an entry to its
\* invoice).
THEOREM LogKept == Spec => []AuditKept
<1>1. Init => AuditKept
  BY DEF Init, AuditKept
<1>2. ASSUME TypeOK, AuditKept, [Next]_vars PROVE AuditKept'
  <2>1. ASSUME NEW w \in Worker, Proceed(w) PROVE AuditKept'
    BY <1>2, <2>1, TypeStep, AuditProceed DEF Keeping
  <2>2. ASSUME UNCHANGED <<status, workflows, steps, audit>> PROVE AuditKept'
    BY <1>2, <2>2 DEF AuditKept, Exists, Deleted
  <2>3. ASSUME NEW w \in Worker, NEW u \in User, Begin(w, u) PROVE AuditKept'
    BY <1>2, <2>2, <2>3, CallsBegin
  <2>4. ASSUME NEW i \in InvoiceId, DeleteInvoice(i) PROVE AuditKept'
    <3>1. Deleted' \subseteq Deleted \cup {i}
      BY <1>2, <2>4 DEF DeleteInvoice, Deleted, TypeOK, TablesOK
    <3> QED
      BY <1>2, <2>4, <3>1 DEF DeleteInvoice, AuditKept, Exists
  <2> QED
    BY <1>2, <2>1, <2>2, <2>3, <2>4 DEF Next, Serve, Abort, vars
<1>3. TypeOK /\ AuditKept /\ [Next]_vars => AuditKept'
  BY <1>2
<1> QED
  BY TypeCorrect, <1>1, <1>3, PTL DEF Spec

-----------------------------------------------------------------------------
\* A row of the steps on which the assignee alone has acted or, while it is
\* pending, can act.
Owned(s) ==
    /\ s.status = "pending" => s.delegated = Nil
    /\ s.status \in {"approved", "rejected"} /\ s.assigned # Nil => s.acted = s.assigned

Owners == \A x \in WorkflowId, n \in StepNumber : Owned(steps[x][n])

\* A call that is about to decide a step is its assignee's, if it has one.
Permitted(w) ==
    Does(w, "step", "approved") \/ Does(w, "step", "rejected") =>
        steps[call[w].wf][call[w].step].assigned \in {Nil, call[w].user}

AssignedKept ==
    \A x \in WorkflowId : workflows[x].status # "none" =>
        \A n \in StepNumber : steps'[x][n].assigned = steps[x][n].assigned

\* One row changes and keeps its assignee.
LEMMA OwnedRowChanges ==
  ASSUME TypeOK, Owners, NEW x \in WorkflowId, NEW n \in StepNumber, NEW r,
         SetStep(x, n, r), Owned(r), r.assigned = steps[x][n].assigned
  PROVE  Owners' /\ AssignedKept
<1>1. \A y \in WorkflowId, k \in StepNumber :
         steps'[y][k] = IF y = x /\ k = n THEN r ELSE steps[y][k]
  BY DEF SetStep, TypeOK, TablesOK
<1> QED
  BY <1>1 DEF Owners, AssignedKept

\* Every statement on the steps leaves them owned.
LEMMA OwnersStep ==
  ASSUME TypeOK, Owners, NEW w \in Worker, Permitted(w), Proceed(w)
  PROVE  Owners' /\ AssignedKept
<1> DEFINE x == call[w].wf
           n == call[w].step
<1>0. KeepsTo(call[w]) /\ steps \in [WorkflowId -> [StepNumber -> ApprovalStep]]
  BY DEF TypeOK, TablesOK, CallsOK
<1>1. CASE ApproveStep(w) \/ RejectStep(w)
  <2>1. PICK action \in {"approved", "rejected"} :
           Does(w, "step", action) /\ SetStep(x, n, Acted(steps[x][n], action, call[w].user))
    BY <1>1 DEF ApproveStep, RejectStep
  <2>2. x \in WorkflowId /\ n \in StepNumber
    BY <1>0, <2>1 DEF Does, At, KeepsTo, OnWorkflow
  <2> DEFINE r == Acted(steps[x][n], action, call[w].user)
  <2>3. /\ r.assigned = steps[x][n].assigned /\ r.acted = call[w].user
        /\ r.status = action
    BY <1>0, <2>2 DEF Acted, ApprovalStep
  <2>4. Owned(r)
    BY <2>1, <2>3 DEF Owned, Permitted
  <2> QED
    BY <2>1, <2>2, <2>3, <2>4, OwnedRowChanges
<1>2. CASE \E to \in User : DelegateUpdate(w, to)
  <2>1. PICK to \in User : DelegateUpdate(w, to)
    BY <1>2
  <2>2. x \in WorkflowId /\ n \in StepNumber
    BY <1>0, <2>1 DEF DelegateUpdate, Does, At, KeepsTo, OnWorkflow
  <2>3. CASE steps[x][n].status = "pending"
    <3> DEFINE r == [steps[x][n] EXCEPT !.status = "delegated", !.delegated = to]
    <3>1. r.assigned = steps[x][n].assigned /\ r.status = "delegated"
      BY <1>0, <2>2 DEF ApprovalStep
    <3>2. Owned(r) /\ SetStep(x, n, r)
      BY <2>1, <2>3, <3>1 DEF Owned, DelegateUpdate
    <3> QED
      BY <2>2, <3>1, <3>2, OwnedRowChanges
  <2> QED
    BY <2>1, <2>3 DEF DelegateUpdate, Owners, AssignedKept
<1>3. CASE RecallSteps(w)
  <2>1. ASSUME NEW y \in WorkflowId, NEW k \in StepNumber
        PROVE  Owned(steps'[y][k]) /\ steps'[y][k].assigned = steps[y][k].assigned
    <3> DEFINE r == [steps[y][k] EXCEPT !.status = "recalled"]
    <3>1. steps[y][k] \in ApprovalStep
      BY <1>0
    <3>2. r.assigned = steps[y][k].assigned /\ r.status = "recalled"
      BY <3>1 DEF ApprovalStep
    <3>3. steps'[y][k] = r \/ steps'[y][k] = steps[y][k]
      BY <1>0, <1>3 DEF RecallSteps
    <3>4. Owned(r) /\ Owned(steps[y][k])
      BY <3>2 DEF Owned, Owners
    <3> QED
      BY <3>2, <3>3, <3>4
  <2> QED
    BY <2>1 DEF Owners, AssignedKept
<1>4. CASE CreateApprovalWorkflow(w)
  <2>1. PICK y \in WorkflowId, plan \in (SUBSET StepNumber) \ {{}} :
         \E users \in [plan -> User \cup {Nil}] :
           /\ workflows[y].status = "none"
           /\ steps' = [steps EXCEPT ![y] = BuildSteps(plan, users)]
    BY <1>4 DEF CreateApprovalWorkflow
  <2>2. ASSUME NEW k \in StepNumber PROVE Owned(steps'[y][k])
    <3>1. PICK users \in [plan -> User \cup {Nil}] :
             steps' = [steps EXCEPT ![y] = BuildSteps(plan, users)]
      BY <2>1
    <3> DEFINE r == [NoStep EXCEPT !.status = "pending", !.assigned = users[k]]
    <3>2. steps'[y][k] = NoStep \/ steps'[y][k] = r
      BY <1>0, <3>1 DEF BuildSteps
    <3>3. r.status = "pending" /\ r.delegated = Nil /\ NoStep.status = "none"
      BY DEF NoStep
    <3>4. Owned(r) /\ Owned(NoStep)
      BY <3>3 DEF Owned
    <3> QED
      BY <3>2, <3>4
  <2>3. \A z \in WorkflowId : z # y => steps'[z] = steps[z]
    BY <1>0, <2>1
  <2> QED
    BY <2>1, <2>2, <2>3 DEF Owners, AssignedKept
<1>5. CASE UNCHANGED steps
  BY <1>5 DEF Owners, AssignedKept
<1> QED
  BY <1>1, <1>2, <1>3, <1>4, <1>5 DEF Proceed, SubmitUpdate, ReadStep, AdvanceStep,
     CompleteWorkflow, UpdateInvoice, AppendAudit

\* A call nobody touches stays permitted.
LEMMA PermittedKept ==
  ASSUME TypeOK, AssignedKept, NEW v \in Worker, Permitted(v), call'[v] = call[v]
  PROVE  Permitted(v)'
<1>1. CASE Does(v, "step", "approved") \/ Does(v, "step", "rejected")
  <2>1. /\ call[v].wf \in WorkflowId /\ workflows[call[v].wf].status # "none"
        /\ call[v].step \in StepNumber
    BY <1>1, CalledWorkflow DEF TypeOK, CallsOK, KeepsTo, Does, At, OnWorkflow
  <2>2. steps'[call[v].wf][call[v].step].assigned = steps[call[v].wf][call[v].step].assigned
    BY <2>1 DEF AssignedKept
  <2> QED
    BY <1>1, <2>2 DEF Permitted, Does, At
<1>2. CASE ~(Does(v, "step", "approved") \/ Does(v, "step", "rejected"))
  BY <1>2 DEF Permitted, Does, At
<1> QED
  BY <1>1, <1>2

\* assertCanAct lets a call pass that decides a pending step.
LEMMA PermittedStep ==
  ASSUME TypeOK, Owners, AssignedKept, NEW w \in Worker, Proceed(w)
  PROVE  Permitted(w)'
<1>0. call[w] \in Call /\ KeepsTo(call[w]) /\ call \in [Worker -> Call]
  BY DEF TypeOK, CallsOK
<1>1. CASE call'[w].pc # "step"
  BY <1>1 DEF Permitted, Does, At
<1>2. CASE ReadStep(w) /\ Go(w, "step") /\ call[w].does # "delegated"
  <2> DEFINE s == steps[call[w].wf][call[w].step]
  <2>1. /\ call[w].wf \in WorkflowId /\ call[w].step \in StepNumber
        /\ workflows[call[w].wf].status # "none"
        /\ s.status = "pending" /\ CanAct(s, call[w].user)
    BY <1>0, <1>2, CalledWorkflow DEF ReadStep, Go, Reply, NoCall, At, OnWorkflow, Call
  <2>2. s.assigned \in {Nil, call[w].user}
    BY <2>1 DEF Owners, Owned, CanAct
  <2>3. /\ call'[w].wf = call[w].wf /\ call'[w].step = call[w].step
        /\ call'[w].user = call[w].user
    BY <1>0, <1>2 DEF Go, Call
  <2>4. steps'[call[w].wf][call[w].step].assigned = s.assigned
    BY <2>1 DEF AssignedKept
  <2> QED
    BY <2>2, <2>3, <2>4 DEF Permitted
<1>3. CASE Go(w, "step") /\ call[w].does = "delegated"
  BY <1>0, <1>3 DEF Go, Call, Permitted, Does
<1>4. ASSUME NEW pc \in {"create", "advance", "workflow", "invoice", "audit"},
             Go(w, pc) \/ Reply(w)
      PROVE  Permitted(w)'
  BY <1>0, <1>1, <1>4 DEF Go, Reply, NoCall, Call
<1> QED
  BY <1>2, <1>3, <1>4 DEF Proceed, SubmitUpdate, CreateApprovalWorkflow, ReadStep, ApproveStep,
     RejectStep, RecallSteps, DelegateUpdate, AdvanceStep, CompleteWorkflow, UpdateInvoice,
     AppendAudit

\* An assigned step is decided by nobody but its assignee or delegate, however
\* many calls read it, delegated it or were late (assertCanAct before
\* UpdateStepAction, which matches on the identifier of the step alone).
THEOREM ApproversDecide == Spec => []OnlyApproversAct
<1> DEFINE I == Owners /\ \A w \in Worker : Permitted(w)
<1>1. Init => I
  BY DEF Init, NoStep, NoCall, Owners, Owned, Permitted, Does, At
<1>2. ASSUME TypeOK, I, [Next]_vars PROVE I'
  <2>0. call \in [Worker -> Call]
    BY <1>2 DEF TypeOK, CallsOK
  <2>1. ASSUME NEW w \in Worker, Owners', AssignedKept, Permitted(w)',
               \A v \in Worker : v # w => call'[v] = call[v]
        PROVE  I'
    BY <1>2, <2>1, PermittedKept
  <2>2. ASSUME UNCHANGED steps PROVE Owners' /\ AssignedKept
    BY <1>2, <2>2 DEF Owners, AssignedKept
  <2>3. ASSUME NEW w \in Worker, Proceed(w) PROVE I'
    <3>1. Owners' /\ AssignedKept /\ Permitted(w)'
      BY <1>2, <2>3, OwnersStep, PermittedStep
    <3>2. \A v \in Worker : v # w => call'[v] = call[v]
      BY <2>0, <2>3 DEF Proceed, SubmitUpdate, CreateApprovalWorkflow, ReadStep, ApproveStep,
         RejectStep, RecallSteps, DelegateUpdate, AdvanceStep, CompleteWorkflow, UpdateInvoice,
         AppendAudit, Go, Reply
    <3> QED
      BY <2>1, <3>1, <3>2
  <2>4. ASSUME NEW w \in Worker, NEW u \in User, Begin(w, u) PROVE I'
    <3>1. Permitted(w)'
      BY <2>0, <2>4 DEF Begin, Submit, ReadWorkflow, RecallWorkflow, DelegateStep, Receive,
         Permitted, Does, At
    <3>2. \A v \in Worker : v # w => call'[v] = call[v]
      BY <2>0, <2>4 DEF Begin, Submit, ReadWorkflow, RecallWorkflow, DelegateStep, Receive
    <3> QED
      BY <1>2, <2>1, <2>2, <2>4, <3>1, <3>2, CallsBegin
  <2>5. ASSUME NEW w \in Worker, Abort(w) PROVE I'
    <3>1. Permitted(w)' /\ \A v \in Worker : v # w => call'[v] = call[v]
      BY <2>0, <2>5 DEF Abort, Reply, NoCall, Permitted, Does, At
    <3> QED
      BY <2>1, <2>2, <2>5, <3>1 DEF Abort
  <2>6. ASSUME UNCHANGED <<steps, call>> PROVE I'
    BY <1>2, <2>2, <2>6, PermittedKept
  <2> QED
    BY <1>2, <2>3, <2>4, <2>5, <2>6 DEF Next, Serve, DeleteInvoice, vars
<1>3. TypeOK /\ I /\ [Next]_vars => I'
  BY <1>2
<1>4. TypeOK /\ I => OnlyApproversAct
  BY DEF Owners, Owned, OnlyApproversAct, Decided
<1> QED
  BY TypeCorrect, <1>1, <1>3, <1>4, PTL DEF Spec

=============================================================================
