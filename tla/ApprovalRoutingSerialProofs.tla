--------------------- MODULE ApprovalRoutingSerialProofs ---------------------
(***************************************************************************)
(* Proofs about ApprovalRouting when calls for one invoice do not overlap, *)
(* for any number of invoices, workflows, users, concurrent calls and      *)
(* steps.  Calls may fail between any two of their statements, and drafts  *)
(* may be deleted at any time.                                             *)
(*                                                                         *)
(* ApprovedByAllSteps and AuditTruthful are not inductive.  Knows says     *)
(* what a call under way may still rely on of what it read or wrote: the   *)
(* workflow it works on is in progress until the call itself completes it, *)
(* the step it decides is pending until it writes it, and what it wrote is *)
(* still there when it goes on.  Sound says of the tables of one invoice   *)
(* what every call leaves behind, wherever it stops: the steps before the  *)
(* current one are approved, and a workflow has as many steps as its total *)
(* says, so that a workflow approved up to its total has no step left.     *)
(*                                                                         *)
(* A call changes the rows of its own invoice alone.  All the rest is the  *)
(* same for the calls of other invoices, and there is no other call for    *)
(* its own.                                                                *)
(***************************************************************************)
EXTENDS ApprovalRoutingProofs

StepApproved(x, n) == steps[x][n].status = "approved"
ApprovedUpTo(x, n) == \A k \in 1 .. n : k \in StepNumber /\ StepApproved(x, k)
Present(x) == {n \in StepNumber : steps[x][n].status # "none"}
AllApproved(x) == \A n \in StepNumber : steps[x][n].status \in {"none", "approved"}

InProgress(x) == workflows[x].status = "in_progress"
NoReview(i) == \A x \in WorkflowId : workflows[x].inv = i => ~InProgress(x)

\* The rows of one workflow.
WorkflowSound(x) ==
    /\ workflows[x].total = Cardinality(Present(x))
    /\ InProgress(x) => ApprovedUpTo(x, workflows[x].current - 1)
    /\ workflows[x].status = "approved" => AllApproved(x)

\* The rows of one invoice.
Sound(i) ==
    /\ \A x \in WorkflowId : workflows[x].inv = i => WorkflowSound(x)
    /\ \A x \in WorkflowId :
          workflows[x].inv = i /\ InProgress(x) =>
             /\ status[i] = "pending_approval"
             /\ \A y \in WorkflowId : workflows[y].inv = i /\ InProgress(y) => y = x
    /\ status[i] = "approved" =>
          \E x \in WorkflowId : workflows[x].inv = i /\ workflows[x].status = "approved"

\* What call c may rely on.
Deciding(c) == c.does \in {"approved", "rejected"}

KnowsWorkflow(c) ==
    /\ c.pc \in {"read", "step"} /\ Deciding(c) => InProgress(c.wf) /\ workflows[c.wf].current = c.step
    /\ c.pc = "step" /\ c.does = "recalled" => InProgress(c.wf)
    /\ c.pc = "advance" => InProgress(c.wf) /\ workflows[c.wf].current = c.step
    /\ c.pc = "workflow" => InProgress(c.wf)
    /\ c.pc = "invoice" => /\ workflows[c.wf].status = c.does
                           /\ status[c.inv] = "pending_approval"
                           /\ NoReview(c.inv)
    /\ c.pc = "audit" /\ c.does \in {"rejected", "recalled"} => workflows[c.wf].status = c.does

KnowsSteps(c) ==
    /\ c.pc = "step" /\ Deciding(c) => steps[c.wf][c.step].status = "pending"
    /\ c.pc \in {"advance", "workflow", "invoice", "audit"} /\ Deciding(c) =>
          steps[c.wf][c.step].status = c.does
    /\ c.pc = "workflow" /\ c.does = "approved" => AllApproved(c.wf)
    /\ c.pc = "audit" /\ c.does = "delegated" => steps[c.wf][c.step].delegated # Nil

KnowsInvoice(c) ==
    /\ c.pc = "submit" => status[c.inv] \in {"draft", "deleted"}
    /\ c.pc = "create" => status[c.inv] = "pending_approval" /\ NoReview(c.inv)

Knows(c) == KnowsWorkflow(c) /\ KnowsSteps(c) /\ KnowsInvoice(c)

\* The entries of the log are true, and those of a step name one.
AuditSound ==
    AuditTruthful /\ \A e \in audit : e.action # "recalled" => e.step \in StepNumber

\* Every invoice is sound, and every call right in what it relies on.
Served == (\A i \in InvoiceId : Sound(i)) /\ \A w \in Worker : Knows(call[w])

SerialInv == OneCallPerInvoice /\ Served /\ AuditSound

-----------------------------------------------------------------------------
(* What a step leaves alone                                                *)

\* The rows of every invoice but j, and of the workflows of every other.
Kept(j) ==
    /\ \A i \in InvoiceId : i # j => status'[i] = status[i]
    /\ \A x \in WorkflowId :
          workflows'[x].inv # j => workflows'[x] = workflows[x] /\ steps'[x] = steps[x]

\* Decisions and what the log may tell of: nothing takes them back.
Stands ==
    \A x \in WorkflowId : workflows[x].status # "none" =>
        /\ workflows[x].status \in {"rejected", "recalled"} =>
              workflows'[x].status = workflows[x].status
        /\ \A n \in StepNumber :
              /\ steps[x][n].status \in {"approved", "rejected"} =>
                    steps'[x][n].status = steps[x][n].status
              /\ steps[x][n].delegated # Nil => steps'[x][n].delegated # Nil

\* A row that stays as it was is as sound as it was.
LEMMA SameWorkflowSound ==
  ASSUME NEW x \in WorkflowId, workflows'[x] = workflows[x], steps'[x] = steps[x], WorkflowSound(x)
  PROVE  WorkflowSound(x)'
<1>1. Present(x)' = Present(x)
  BY DEF Present
<1>2. PICK n : n = workflows[x].current - 1
  OBVIOUS
<1>3. ApprovedUpTo(x, n) => ApprovedUpTo(x, n)'
  BY DEF ApprovedUpTo, StepApproved
<1>4. AllApproved(x) => AllApproved(x)'
  BY DEF AllApproved
<1>5. n = workflows'[x].current - 1
  BY <1>2
<1>6. InProgress(x)' => ApprovedUpTo(x, n)'
  BY <1>2, <1>3 DEF InProgress, WorkflowSound
<1> QED
  BY <1>1, <1>4, <1>5, <1>6 DEF WorkflowSound

\* A workflow stays with its invoice.
LEMMA SameInvoice ==
  ASSUME TypeOK, WorkflowsKept, NEW j, Kept(j), NEW i \in InvoiceId, i # j, NEW x \in WorkflowId
  PROVE  /\ workflows'[x].inv = i <=> workflows[x].inv = i
         /\ workflows[x].inv = i => workflows'[x] = workflows[x] /\ steps'[x] = steps[x]
<1>1. workflows[x].inv = i => workflows[x].status # "none"
  BY RoutingNilAssumption DEF TypeOK, RowsOK, NoWorkflow
<1> QED
  BY <1>1 DEF Kept, WorkflowsKept

\* The rows of another invoice are as sound as they were.
LEMMA ElsewhereSound ==
  ASSUME TypeOK, WorkflowsKept, NEW j, Kept(j), NEW i \in InvoiceId, i # j, Sound(i)
  PROVE  Sound(i)'
<1>1. \A x \in WorkflowId :
         /\ workflows'[x].inv = i <=> workflows[x].inv = i
         /\ workflows[x].inv = i => workflows'[x] = workflows[x] /\ steps'[x] = steps[x]
  BY SameInvoice
<1>2. status'[i] = status[i]
  BY DEF Kept
<1>3. ASSUME NEW x \in WorkflowId, workflows'[x].inv = i PROVE WorkflowSound(x)'
  BY <1>1, <1>3, SameWorkflowSound DEF Sound
<1>4. \A x \in WorkflowId : workflows'[x].inv = i => (InProgress(x)' <=> InProgress(x))
  BY <1>1 DEF InProgress
<1>5. ASSUME NEW x \in WorkflowId, workflows'[x].inv = i, InProgress(x)'
      PROVE  /\ status'[i] = "pending_approval"
             /\ \A y \in WorkflowId : workflows'[y].inv = i /\ InProgress(y)' => y = x
  BY <1>1, <1>2, <1>4, <1>5 DEF Sound
<1>6. status'[i] = "approved" =>
        \E x \in WorkflowId : workflows'[x].inv = i /\ workflows'[x].status = "approved"
  BY <1>1, <1>2 DEF Sound
<1> QED
  BY <1>3, <1>5, <1>6 DEF Sound

\* A call for another invoice knows what it knew.
LEMMA ElsewhereKnows ==
  ASSUME TypeOK, WorkflowsKept, NEW j, Kept(j), NEW c, KeepsTo(c), Knows(c),
         c.pc # "idle" => c.inv # j,
         c.pc \in OnWorkflow => workflows[c.wf].inv = c.inv
  PROVE  Knows(c)'
<1>1. CASE c.pc = "idle"
  BY <1>1 DEF Knows, KnowsWorkflow, KnowsSteps, KnowsInvoice
<1>2. CASE c.pc \in OnWorkflow
  <2>1. PICK x \in WorkflowId, i \in InvoiceId : c.wf = x /\ c.inv = i
    BY <1>2 DEF KeepsTo, OnWorkflow
  <2>2. c.inv # j
    BY <1>2 DEF OnWorkflow
  <2>3. workflows'[x] = workflows[x] /\ steps'[x] = steps[x] /\ status'[i] = status[i]
    BY <1>2, <2>1, <2>2, SameInvoice DEF Kept
  <2>4. NoReview(i) => NoReview(i)'
    BY <2>1, <2>2, SameInvoice DEF NoReview, InProgress
  <2>5. KnowsWorkflow(c)'
    BY <2>1, <2>3, <2>4 DEF Knows, KnowsWorkflow, InProgress
  <2>6. KnowsSteps(c)'
    BY <2>1, <2>3 DEF Knows, KnowsSteps, AllApproved
  <2>7. KnowsInvoice(c)'
    BY <1>2 DEF KnowsInvoice, OnWorkflow
  <2> QED
    BY <2>5, <2>6, <2>7 DEF Knows
<1>3. CASE c.pc # "idle" /\ c.pc \notin OnWorkflow
  <2>1. PICK i \in InvoiceId : c.inv = i /\ i # j
    BY <1>3 DEF KeepsTo
  <2>2. status'[i] = status[i]
    BY <2>1 DEF Kept
  <2>3. NoReview(i) => NoReview(i)'
    BY <2>1, SameInvoice DEF NoReview, InProgress
  <2> QED
    BY <1>3, <2>1, <2>2, <2>3 DEF Knows, KnowsWorkflow, KnowsSteps, KnowsInvoice, OnWorkflow
<1> QED
  BY <1>1, <1>2, <1>3

-----------------------------------------------------------------------------
(* The rows of one workflow change                                         *)

OnlyWorkflow(x) ==
    \A y \in WorkflowId : y # x => workflows'[y] = workflows[y] /\ steps'[y] = steps[y]

\* No step is written but a pending one, and a delegation is not forgotten.
Moves(x) ==
    \A n \in StepNumber :
        \/ steps'[x][n] = steps[x][n]
        \/ /\ steps[x][n].status = "pending"
           /\ steps'[x][n].status \in {"approved", "rejected", "delegated", "recalled"}
           /\ steps[x][n].delegated # Nil => steps'[x][n].delegated # Nil

\* A step that is written was there and is there; an approval stands.
LEMMA MovesRows ==
  ASSUME NEW x \in WorkflowId, Moves(x)
  PROVE  /\ Present(x)' = Present(x)
         /\ \A k : ApprovedUpTo(x, k) => ApprovedUpTo(x, k)'
         /\ AllApproved(x) => AllApproved(x)'
<1>1. Present(x)' = Present(x)
  BY DEF Moves, Present
<1>2. AllApproved(x) => AllApproved(x)'
  BY DEF Moves, AllApproved
<1>3. \A n \in StepNumber : StepApproved(x, n) => StepApproved(x, n)'
  BY DEF Moves, StepApproved
<1>4. ASSUME NEW k, ApprovedUpTo(x, k) PROVE ApprovedUpTo(x, k)'
  BY <1>3, <1>4 DEF ApprovedUpTo
<1> QED
  BY <1>1, <1>2, <1>4

\* A statement on workflow x, of invoice i, touches nothing of the others.
LEMMA OneWorkflowKept ==
  ASSUME NEW x \in WorkflowId, OnlyWorkflow(x), NEW i, workflows'[x].inv = i,
         \A j \in InvoiceId : j # i => status'[j] = status[j]
  PROVE  Kept(i)
BY DEF OnlyWorkflow, Kept

\* A statement on workflow x leaves its invoice sound when it leaves the
\* workflow sound, opens none, and does not undo an approval.
LEMMA OneWorkflowSound ==
  ASSUME NEW x \in WorkflowId, OnlyWorkflow(x), NEW i \in InvoiceId, Sound(i),
         workflows[x].inv = i, workflows'[x].inv = i, WorkflowSound(x)',
         InProgress(x)' => InProgress(x),
         workflows[x].status = "approved" => workflows'[x].status = "approved",
         status'[i] = status[i]
  PROVE  Sound(i)'
<1>1. \A y \in WorkflowId :
         /\ workflows'[y].inv = i <=> workflows[y].inv = i
         /\ InProgress(y)' => InProgress(y)
         /\ workflows[y].status = "approved" => workflows'[y].status = "approved"
  BY DEF OnlyWorkflow, InProgress
<1>2. ASSUME NEW y \in WorkflowId, workflows'[y].inv = i PROVE WorkflowSound(y)'
  <2>1. CASE y # x
    BY <1>1, <1>2, <2>1, SameWorkflowSound DEF OnlyWorkflow, Sound
  <2> QED
    BY <2>1
<1>3. ASSUME NEW y \in WorkflowId, workflows'[y].inv = i, InProgress(y)'
      PROVE  /\ status'[i] = "pending_approval"
             /\ \A z \in WorkflowId : workflows'[z].inv = i /\ InProgress(z)' => z = y
  BY <1>1, <1>3 DEF Sound
<1>4. status'[i] = "approved" =>
        \E y \in WorkflowId : workflows'[y].inv = i /\ workflows'[y].status = "approved"
  BY <1>1 DEF Sound
<1> QED
  BY <1>2, <1>3, <1>4 DEF Sound

\* What a step of worker w finds when it works on workflow x of invoice i, and
\* what it leaves.
Finds(w, x, i) ==
    /\ Sound(i) /\ Knows(call[w])
    /\ call[w].wf = x /\ call[w].inv = i
    /\ workflows[x].inv = i /\ workflows[x].status # "none"

Leaves(w, i) == Kept(i) /\ Sound(i)' /\ Knows(call[w])' /\ Stands

\* The statements on the steps.
LEMMA StepsLeave ==
  ASSUME TypeOK, NEW w \in Worker, NEW x \in WorkflowId, NEW i \in InvoiceId, Finds(w, x, i),
         OnlyWorkflow(x), Moves(x), workflows'[x] = workflows[x], UNCHANGED status
  PROVE  Kept(i) /\ Sound(i)' /\ Stands
<1>1. Kept(i)
  BY OneWorkflowKept DEF Finds
<1>2. WorkflowSound(x)'
  <2>1. PICK k : k = workflows[x].current - 1
    OBVIOUS
  <2>2. k = workflows'[x].current - 1
    BY <2>1
  <2>3. WorkflowSound(x)
    BY DEF Finds, Sound
  <2>4. InProgress(x)' => ApprovedUpTo(x, k)'
    BY <2>1, <2>3, MovesRows DEF WorkflowSound, InProgress
  <2> QED
    BY <2>2, <2>3, <2>4, MovesRows DEF WorkflowSound
<1>3. Sound(i)'
  BY <1>2, OneWorkflowSound DEF Finds, InProgress
<1>4. Stands
  <2>1. ASSUME NEW y \in WorkflowId, NEW n \in StepNumber
        PROVE  /\ steps[y][n].status \in {"approved", "rejected"} =>
                     steps'[y][n].status = steps[y][n].status
               /\ steps[y][n].delegated # Nil => steps'[y][n].delegated # Nil
    BY DEF OnlyWorkflow, Moves
  <2> QED
    BY <2>1 DEF OnlyWorkflow, Stands
<1> QED
  BY <1>1, <1>3, <1>4

\* The statements on a workflow in progress.
LEMMA WorkflowLeaves ==
  ASSUME TypeOK, NEW w \in Worker, NEW x \in WorkflowId, NEW i \in InvoiceId, Finds(w, x, i),
         OnlyWorkflow(x), UNCHANGED <<status, steps>>, InProgress(x), workflows'[x].inv = i,
         WorkflowSound(x)'
  PROVE  Kept(i) /\ Sound(i)' /\ Stands
<1>1. Kept(i)
  BY OneWorkflowKept
<1>2. Sound(i)'
  BY OneWorkflowSound DEF Finds, InProgress
<1>3. Stands
  BY DEF OnlyWorkflow, Stands, InProgress
<1> QED
  BY <1>1, <1>2, <1>3

\* A step that leaves the tables as they are.
LEMMA TablesStay ==
  ASSUME NEW i \in InvoiceId, Sound(i), UNCHANGED <<status, workflows, steps>>
  PROVE  Kept(i) /\ Sound(i)' /\ Stands
<1>1. Kept(i) /\ Stands
  BY DEF Kept, Stands
<1>2. \A x \in WorkflowId : WorkflowSound(x) => WorkflowSound(x)'
  BY SameWorkflowSound
<1>3. \A x \in WorkflowId : InProgress(x)' <=> InProgress(x)
  BY DEF InProgress
<1>4. Sound(i)'
  BY <1>2, <1>3 DEF Sound
<1> QED
  BY <1>1, <1>4

\* And so does everybody know what he knew.
LEMMA KnowsStays ==
  ASSUME NEW c, Knows(c), UNCHANGED <<status, workflows, steps>>
  PROVE  Knows(c)'
<1>1. KnowsWorkflow(c)' /\ KnowsSteps(c)'
  BY DEF Knows, KnowsWorkflow, KnowsSteps, InProgress, NoReview, AllApproved
<1>2. KnowsInvoice(c)'
  BY DEF Knows, KnowsInvoice, NoReview, InProgress
<1> QED
  BY <1>1, <1>2 DEF Knows

\* A worker that has answered knows nothing.
LEMMA IdleKnows == Knows(NoCall)
BY DEF NoCall, Knows, KnowsWorkflow, KnowsSteps, KnowsInvoice

-----------------------------------------------------------------------------
(* The steps of a call                                                     *)

\* A worker that has answered knows nothing after its step either.
LEMMA IdleKnowsAfter ==
  ASSUME TypeOK, NEW w \in Worker, Reply(w) PROVE Knows(call[w])'
<1>1. call'[w] = NoCall
  BY DEF Reply, TypeOK, CallsOK
<1> QED
  BY <1>1 DEF NoCall, Knows, KnowsWorkflow, KnowsSteps, KnowsInvoice

\* A call that goes on is the same call.
LEMMA GoesOn ==
  ASSUME TypeOK, NEW w \in Worker, NEW pc \in CallStep, Go(w, pc)
  PROVE  /\ call'[w] \in Call /\ call'[w].pc = pc /\ call'[w].does = call[w].does
         /\ call'[w].wf = call[w].wf /\ call'[w].inv = call[w].inv
         /\ call'[w].step = call[w].step
BY DEF TypeOK, CallsOK, Call, Go

\* One pending step is written.
LEMMA PendingMoves ==
  ASSUME TypeOK, NEW x \in WorkflowId, NEW n \in StepNumber, NEW r \in ApprovalStep,
         SetStep(x, n, r), steps[x][n].status = "pending",
         r.status \in {"approved", "rejected", "delegated"},
         steps[x][n].delegated # Nil => r.delegated # Nil
  PROVE  /\ Moves(x) /\ steps'[x][n] = r
         /\ \A y \in WorkflowId : y # x => steps'[y] = steps[y]
<1>1. steps' = [steps EXCEPT ![x] = [steps[x] EXCEPT ![n] = r]]
  BY DEF SetStep
<1>2. steps \in [WorkflowId -> [StepNumber -> ApprovalStep]]
  BY DEF TypeOK, TablesOK
<1>3. \A k \in StepNumber : steps'[x][k] = IF k = n THEN r ELSE steps[x][k]
  BY <1>1, <1>2
<1>4. \A y \in WorkflowId : y # x => steps'[y] = steps[y]
  BY <1>1, <1>2
<1> QED
  BY <1>3, <1>4 DEF Moves

\* As many rows are approved as there are rows: there is no other.
LEMMA ApprovedToTheEnd ==
  ASSUME NEW f, NEW n \in StepNumber, NEW t,
         t = Cardinality({k \in StepNumber : f[k].status # "none"}), ~(n < t),
         \A k \in 1 .. n : k \in StepNumber /\ f[k].status = "approved"
  PROVE  \A k \in StepNumber : f[k].status \in {"none", "approved"}
<1> DEFINE P == {k \in StepNumber : f[k].status # "none"}
<1>1. IsFiniteSet(StepNumber) /\ P \subseteq StepNumber /\ n \in Nat
  BY FS_Interval, MaxStepAssumption DEF StepNumber
<1>2. IsFiniteSet(P) /\ t \in Nat
  BY <1>1, FS_Subset, FS_CardinalityType
<1>3. 1 .. t \subseteq P
  <2>1. \A k \in 1 .. t : k \in 1 .. n
    BY <1>1, <1>2
  <2> QED
    BY <2>1
<1>4. Cardinality(1 .. t) = t
  <2>1. 1 \in Int /\ t \in Int
    BY <1>2
  <2>2. Cardinality(1 .. t) = IF 1 > t THEN 0 ELSE t - 1 + 1
    BY ONLY <2>1, FS_Interval
  <2> QED
    BY <1>2, <2>2
<1>5. 1 .. t = P
  BY <1>2, <1>3, <1>4, FS_Subset
<1> QED
  BY <1>1, <1>2, <1>5

\* An approval writes its step, which is pending and its turn.
LEMMA ApproveLeaves ==
  ASSUME TypeOK, TypeOK', NEW w \in Worker, NEW x \in WorkflowId, NEW i \in InvoiceId,
         Finds(w, x, i), ApproveStep(w)
  PROVE  Leaves(w, i)
<1>1. PICK c \in Call : c = call[w] /\ KeepsTo(c) /\ c.pc = "step" /\ c.does = "approved"
  BY DEF TypeOK, CallsOK, ApproveStep, Does, At
<1>2. PICK n \in StepNumber, u \in User : n = c.step /\ u = c.user
  BY <1>1 DEF KeepsTo, OnWorkflow
<1> DEFINE r == Acted(steps[x][n], "approved", u)
<1>3. /\ InProgress(x) /\ workflows[x].current = n /\ steps[x][n].status = "pending"
      /\ WorkflowSound(x)
  BY <1>1, <1>2 DEF Finds, Sound, Knows, KnowsWorkflow, KnowsSteps, Deciding
<1>4. SetStep(x, n, r) /\ UNCHANGED <<status, workflows, audit>>
  BY <1>1, <1>2 DEF ApproveStep, Finds
<1>5. r \in ApprovalStep /\ r.status = "approved" /\ r.delegated = steps[x][n].delegated
  <2>1. steps[x][n] \in ApprovalStep
    BY DEF TypeOK, TablesOK
  <2> QED
    BY <2>1 DEF Acted, ApprovalStep
<1>6. Moves(x) /\ steps'[x][n] = r /\ OnlyWorkflow(x)
  BY <1>3, <1>4, <1>5, PendingMoves DEF OnlyWorkflow
<1>7. Kept(i) /\ Sound(i)' /\ Stands
  BY <1>4, <1>6, StepsLeave
<1>8. CASE Go(w, "advance")
  <2>1. call'[w].pc = "advance" /\ call'[w].wf = x /\ call'[w].step = n /\ call'[w].does = "approved"
    BY <1>1, <1>2, <1>8, GoesOn DEF Finds, CallStep
  <2> QED
    BY <1>3, <1>4, <1>5, <1>6, <1>7, <2>1
    DEF Leaves, Knows, KnowsWorkflow, KnowsSteps, KnowsInvoice, InProgress
<1>9. CASE Go(w, "workflow") /\ ~(n < workflows[x].total)
  <2>1. call'[w].pc = "workflow" /\ call'[w].wf = x /\ call'[w].step = n /\ call'[w].does = "approved"
    BY <1>1, <1>2, <1>9, GoesOn DEF Finds, CallStep
  <2>2. ApprovedUpTo(x, n)'
    <3>1. PICK k : k = n - 1
      OBVIOUS
    <3>2. ApprovedUpTo(x, k)'
      BY <1>3, <1>6, <3>1, MovesRows DEF WorkflowSound
    <3>3. \A m \in 1 .. n : m \in 1 .. k \/ m = n
      BY <3>1, MaxStepAssumption DEF StepNumber
    <3> QED
      BY <1>5, <1>6, <3>2, <3>3 DEF ApprovedUpTo, StepApproved
  <2>3. AllApproved(x)'
    <3>1. PICK t : t = workflows[x].total
      OBVIOUS
    <3>2. t = Cardinality(Present(x)')
      BY <1>3, <3>1, <1>6, MovesRows DEF WorkflowSound
    <3>3. PICK f : f = steps'[x]
      OBVIOUS
    <3>4. t = Cardinality({k \in StepNumber : f[k].status # "none"})
      BY <3>2, <3>3 DEF Present
    <3>5. \A k \in 1 .. n : k \in StepNumber /\ f[k].status = "approved"
      BY <2>2, <3>3 DEF ApprovedUpTo, StepApproved
    <3>6. \A k \in StepNumber : f[k].status \in {"none", "approved"}
      BY <1>9, <3>1, <3>4, <3>5, ApprovedToTheEnd
    <3> QED
      BY <3>3, <3>6 DEF AllApproved
  <2> QED
    BY <1>3, <1>4, <1>5, <1>6, <1>7, <2>1, <2>3
    DEF Leaves, Knows, KnowsWorkflow, KnowsSteps, KnowsInvoice, InProgress
<1> QED
  BY <1>1, <1>2, <1>8, <1>9 DEF ApproveStep, Finds

\* GetCurrentStep changes nothing; a decision goes on with a pending step.
LEMMA ReadLeaves ==
  ASSUME TypeOK, NEW w \in Worker, NEW x \in WorkflowId, NEW i \in InvoiceId,
         Finds(w, x, i), ReadStep(w)
  PROVE  Leaves(w, i)
<1>1. Kept(i) /\ Sound(i)' /\ Stands
  BY TablesStay DEF Finds, ReadStep
<1>2. PICK c \in Call : c = call[w] /\ KeepsTo(c) /\ c.pc = "read" /\ Knows(c)
  BY DEF TypeOK, CallsOK, ReadStep, At, Finds
<1>3. CASE /\ Go(w, "step")
           /\ c.does # "delegated" => steps[x][c.step].status = "pending"
  <2>1. /\ call'[w].pc = "step" /\ call'[w].wf = x /\ call'[w].step = c.step
        /\ call'[w].does = c.does
    BY <1>2, <1>3, GoesOn DEF Finds, CallStep
  <2>2. Deciding(c) => InProgress(x) /\ workflows[x].current = c.step
    BY <1>2 DEF Finds, Knows, KnowsWorkflow
  <2>3. InProgress(x)' <=> InProgress(x)
    BY DEF InProgress, ReadStep
  <2>4. c.does # "recalled"
    BY <1>2 DEF KeepsTo
  <2>5. Knows(call[w])'
    BY <1>3, <2>1, <2>2, <2>3, <2>4
    DEF Knows, KnowsWorkflow, KnowsSteps, KnowsInvoice, Deciding, ReadStep
  <2> QED
    BY <1>1, <2>5 DEF Leaves
<1>4. CASE Reply(w)
  BY <1>1, <1>4, IdleKnowsAfter DEF Leaves
<1> QED
  BY <1>2, <1>3, <1>4 DEF ReadStep, Finds

\* A rejection writes its step.
LEMMA RejectLeaves ==
  ASSUME TypeOK, NEW w \in Worker, NEW x \in WorkflowId, NEW i \in InvoiceId,
         Finds(w, x, i), RejectStep(w)
  PROVE  Leaves(w, i)
<1>1. PICK c \in Call : c = call[w] /\ KeepsTo(c) /\ c.pc = "step" /\ c.does = "rejected"
  BY DEF TypeOK, CallsOK, RejectStep, Does, At
<1>2. PICK n \in StepNumber, u \in User : n = c.step /\ u = c.user
  BY <1>1 DEF KeepsTo, OnWorkflow
<1> DEFINE r == Acted(steps[x][n], "rejected", u)
<1>3. InProgress(x) /\ steps[x][n].status = "pending"
  BY <1>1, <1>2 DEF Finds, Knows, KnowsWorkflow, KnowsSteps, Deciding
<1>4. SetStep(x, n, r) /\ UNCHANGED <<status, workflows, audit>> /\ Go(w, "workflow")
  BY <1>1, <1>2 DEF RejectStep, Finds
<1>5. r \in ApprovalStep /\ r.status = "rejected" /\ r.delegated = steps[x][n].delegated
  <2>1. steps[x][n] \in ApprovalStep
    BY DEF TypeOK, TablesOK
  <2> QED
    BY <2>1 DEF Acted, ApprovalStep
<1>6. Moves(x) /\ steps'[x][n] = r /\ OnlyWorkflow(x)
  BY <1>3, <1>4, <1>5, PendingMoves DEF OnlyWorkflow
<1>7. Kept(i) /\ Sound(i)' /\ Stands
  BY <1>4, <1>6, StepsLeave
<1>8. call'[w].pc = "workflow" /\ call'[w].wf = x /\ call'[w].step = n /\ call'[w].does = "rejected"
  BY <1>1, <1>2, <1>4, GoesOn DEF Finds, CallStep
<1> QED
  BY <1>3, <1>4, <1>5, <1>6, <1>7, <1>8
  DEF Leaves, Knows, KnowsWorkflow, KnowsSteps, KnowsInvoice, InProgress

\* A recall writes the pending steps of its workflow.
LEMMA RecallLeaves ==
  ASSUME TypeOK, NEW w \in Worker, NEW x \in WorkflowId, NEW i \in InvoiceId,
         Finds(w, x, i), RecallSteps(w)
  PROVE  Leaves(w, i)
<1>1. PICK c \in Call : c = call[w] /\ KeepsTo(c) /\ c.pc = "step" /\ c.does = "recalled"
  BY DEF TypeOK, CallsOK, RecallSteps, Does, At
<1>2. InProgress(x)
  BY <1>1 DEF Finds, Knows, KnowsWorkflow
<1>3. UNCHANGED <<status, workflows, audit>> /\ Go(w, "workflow")
  BY DEF RecallSteps
<1>4. Moves(x) /\ OnlyWorkflow(x)
  <2> DEFINE row(k) == IF steps[x][k].status = "pending"
                       THEN [steps[x][k] EXCEPT !.status = "recalled"] ELSE steps[x][k]
  <2>1. steps' = [steps EXCEPT ![x] = [k \in StepNumber |-> row(k)]]
    BY DEF RecallSteps, Finds
  <2>2. steps \in [WorkflowId -> [StepNumber -> ApprovalStep]]
    BY DEF TypeOK, TablesOK
  <2>3. ASSUME NEW k \in StepNumber
        PROVE  \/ row(k) = steps[x][k]
               \/ /\ steps[x][k].status = "pending" /\ row(k).status = "recalled"
                  /\ row(k).delegated = steps[x][k].delegated
    BY <2>2 DEF ApprovalStep
  <2> HIDE DEF row
  <2>4. \A k \in StepNumber : steps'[x][k] = row(k)
    BY <2>1, <2>2
  <2>5. \A y \in WorkflowId : y # x => steps'[y] = steps[y]
    BY <2>1, <2>2
  <2>6. Moves(x)
    BY <2>3, <2>4 DEF Moves
  <2> QED
    BY <1>3, <2>5, <2>6 DEF OnlyWorkflow
<1>5. Kept(i) /\ Sound(i)' /\ Stands
  BY <1>3, <1>4, StepsLeave
<1>6. call'[w].pc = "workflow" /\ call'[w].wf = x /\ call'[w].does = "recalled"
  BY <1>1, <1>3, GoesOn DEF Finds, CallStep
<1> QED
  BY <1>2, <1>3, <1>5, <1>6
  DEF Leaves, Knows, KnowsWorkflow, KnowsSteps, KnowsInvoice, InProgress, Deciding

\* A delegation writes its step if it is pending.
LEMMA DelegateLeaves ==
  ASSUME TypeOK, NEW w \in Worker, NEW x \in WorkflowId, NEW i \in InvoiceId,
         Finds(w, x, i), NEW to \in User, DelegateUpdate(w, to)
  PROVE  Leaves(w, i)
<1>1. PICK c \in Call : c = call[w] /\ KeepsTo(c) /\ c.pc = "step" /\ c.does = "delegated"
  BY DEF TypeOK, CallsOK, DelegateUpdate, Does, At
<1>2. PICK n \in StepNumber : n = c.step
  BY <1>1 DEF KeepsTo, OnWorkflow
<1>3. UNCHANGED <<status, workflows, audit>>
  BY DEF DelegateUpdate
<1>4. CASE steps[x][n].status = "pending"
  <2> DEFINE r == [steps[x][n] EXCEPT !.status = "delegated", !.delegated = to]
  <2>1. SetStep(x, n, r) /\ Go(w, "audit")
    BY <1>1, <1>2, <1>4 DEF DelegateUpdate, Finds
  <2>2. r \in ApprovalStep /\ r.status = "delegated" /\ r.delegated = to
    <3>1. steps[x][n] \in ApprovalStep
      BY DEF TypeOK, TablesOK
    <3> QED
      BY <3>1 DEF ApprovalStep
  <2>3. to # Nil
    BY RoutingNilAssumption
  <2>4. Moves(x) /\ steps'[x][n] = r /\ OnlyWorkflow(x)
    BY <1>3, <1>4, <2>1, <2>2, <2>3, PendingMoves DEF OnlyWorkflow
  <2>5. Kept(i) /\ Sound(i)' /\ Stands
    BY <1>3, <2>4, StepsLeave
  <2>6. call'[w].pc = "audit" /\ call'[w].wf = x /\ call'[w].step = n /\ call'[w].does = "delegated"
    BY <1>1, <1>2, <2>1, GoesOn DEF Finds, CallStep
  <2> QED
    BY <2>2, <2>3, <2>4, <2>5, <2>6
    DEF Leaves, Knows, KnowsWorkflow, KnowsSteps, KnowsInvoice, Deciding
<1>5. CASE steps[x][n].status # "pending"
  <2>1. UNCHANGED steps /\ Reply(w)
    BY <1>1, <1>2, <1>5 DEF DelegateUpdate, Finds
  <2> QED
    BY <1>3, <2>1, TablesStay, IdleKnowsAfter DEF Leaves, Finds
<1> QED
  BY <1>4, <1>5

\* An approval that is not the last makes the next step the current one.
LEMMA AdvanceLeaves ==
  ASSUME TypeOK, NEW w \in Worker, NEW x \in WorkflowId, NEW i \in InvoiceId,
         Finds(w, x, i), AdvanceStep(w)
  PROVE  Leaves(w, i)
<1>1. PICK c \in Call : c = call[w] /\ KeepsTo(c) /\ c.pc = "advance" /\ c.does = "approved"
  BY DEF TypeOK, CallsOK, AdvanceStep, At, KeepsTo
<1>2. PICK n \in StepNumber : n = c.step
  BY <1>1 DEF KeepsTo, OnWorkflow
<1>3. /\ InProgress(x) /\ workflows[x].current = n /\ steps[x][n].status = "approved"
      /\ WorkflowSound(x)
  BY <1>1, <1>2 DEF Finds, Sound, Knows, KnowsWorkflow, KnowsSteps, Deciding
<1> DEFINE r == [workflows[x] EXCEPT !.current = n + 1, !.status = "in_progress"]
<1>4. /\ workflows' = [workflows EXCEPT ![x] = r] /\ UNCHANGED <<status, steps, audit>>
      /\ Go(w, "audit")
  BY <1>1, <1>2 DEF AdvanceStep, Finds
<1>5. /\ r.status = "in_progress" /\ r.inv = workflows[x].inv /\ r.total = workflows[x].total
      /\ r.current = n + 1
  <2>1. workflows[x] \in Workflow
    BY DEF TypeOK, TablesOK
  <2> QED
    BY <2>1 DEF Workflow
<1>6. workflows'[x] = r /\ OnlyWorkflow(x)
  BY <1>4 DEF TypeOK, TablesOK, OnlyWorkflow
<1>7. WorkflowSound(x)'
  <2>1. ApprovedUpTo(x, n)
    <3>1. PICK k : k = n - 1
      OBVIOUS
    <3>2. \A m \in 1 .. n : m \in 1 .. k \/ m = n
      BY <3>1, MaxStepAssumption DEF StepNumber
    <3> QED
      BY <1>3, <3>1, <3>2 DEF WorkflowSound, ApprovedUpTo, StepApproved
  <2>2. ApprovedUpTo(x, n)' /\ Present(x)' = Present(x)
    BY <1>4, <2>1 DEF ApprovedUpTo, StepApproved, Present
  <2>3. workflows'[x].current - 1 = n
    BY <1>5, <1>6, MaxStepAssumption DEF StepNumber
  <2> QED
    BY <1>3, <1>5, <1>6, <2>2, <2>3 DEF WorkflowSound
<1>8. Kept(i) /\ Sound(i)' /\ Stands
  BY <1>3, <1>4, <1>5, <1>6, <1>7, WorkflowLeaves DEF Finds
<1>9. call'[w].pc = "audit" /\ call'[w].wf = x /\ call'[w].step = n /\ call'[w].does = "approved"
  BY <1>1, <1>2, <1>4, GoesOn DEF Finds, CallStep
<1> QED
  BY <1>3, <1>4, <1>8, <1>9 DEF Leaves, Knows, KnowsWorkflow, KnowsSteps, KnowsInvoice

\* The workflow is approved, rejected or recalled: no other is in progress.
LEMMA CompleteLeaves ==
  ASSUME TypeOK, NEW w \in Worker, NEW x \in WorkflowId, NEW i \in InvoiceId,
         Finds(w, x, i), CompleteWorkflow(w)
  PROVE  Leaves(w, i)
<1>1. PICK c \in Call : /\ c = call[w] /\ KeepsTo(c) /\ c.pc = "workflow"
                        /\ c.does \in {"approved", "rejected", "recalled"}
  BY DEF TypeOK, CallsOK, CompleteWorkflow, At, KeepsTo, OnWorkflow, Action
<1>2. /\ InProgress(x) /\ WorkflowSound(x)
      /\ Deciding(c) => steps[x][c.step].status = c.does
      /\ c.does = "approved" => AllApproved(x)
  BY <1>1 DEF Finds, Sound, Knows, KnowsWorkflow, KnowsSteps
<1> DEFINE r == [workflows[x] EXCEPT !.status = c.does]
<1>3. /\ workflows' = [workflows EXCEPT ![x] = r] /\ UNCHANGED <<status, steps, audit>>
      /\ Go(w, "invoice")
  BY <1>1 DEF CompleteWorkflow, Finds
<1>4. r.status = c.does /\ r.inv = workflows[x].inv /\ r.total = workflows[x].total
  <2>1. workflows[x] \in Workflow
    BY DEF TypeOK, TablesOK
  <2> QED
    BY <2>1 DEF Workflow
<1>5. workflows'[x] = r /\ OnlyWorkflow(x)
  BY <1>3 DEF TypeOK, TablesOK, OnlyWorkflow
<1>6. Present(x)' = Present(x) /\ (AllApproved(x)' <=> AllApproved(x))
  BY <1>3 DEF Present, AllApproved
<1>7. WorkflowSound(x)'
  BY <1>1, <1>2, <1>4, <1>5, <1>6 DEF WorkflowSound, InProgress
<1>8. Kept(i) /\ Sound(i)' /\ Stands
  BY <1>2, <1>3, <1>4, <1>5, <1>7, WorkflowLeaves DEF Finds
<1>9. /\ call'[w].pc = "invoice" /\ call'[w].wf = x /\ call'[w].step = c.step
      /\ call'[w].does = c.does /\ call'[w].inv = i
  BY <1>1, <1>3, GoesOn DEF Finds, CallStep
<1>10. status'[i] = "pending_approval"
  BY <1>2, <1>3 DEF Finds, Sound
<1>11. NoReview(i)'
  <2>1. ~InProgress(x)'
    BY <1>1, <1>4, <1>5 DEF InProgress
  <2>2. \A y \in WorkflowId : workflows[y].inv = i /\ InProgress(y) => y = x
    BY <1>2 DEF Finds, Sound
  <2>3. \A y \in WorkflowId : y # x => workflows'[y] = workflows[y]
    BY <1>5 DEF OnlyWorkflow
  <2> QED
    BY <2>1, <2>2, <2>3 DEF NoReview, InProgress
<1> QED
  BY <1>1, <1>2, <1>3, <1>4, <1>5, <1>8, <1>9, <1>10, <1>11
  DEF Leaves, Knows, KnowsWorkflow, KnowsSteps, KnowsInvoice, Deciding

\* A statement on the invoice's status.
LEMMA StatusLeaves ==
  ASSUME TypeOK, NEW i \in InvoiceId, NEW s, Sound(i), NoReview(i),
         status' = [status EXCEPT ![i] = s], UNCHANGED <<workflows, steps>>,
         s = "approved" =>
            \E x \in WorkflowId : workflows[x].inv = i /\ workflows[x].status = "approved"
  PROVE  /\ Kept(i) /\ Sound(i)' /\ Stands
         /\ status'[i] = s /\ NoReview(i)'
<1>1. status'[i] = s /\ \A j \in InvoiceId : j # i => status'[j] = status[j]
  BY DEF TypeOK, TablesOK
<1>2. Kept(i) /\ Stands
  BY <1>1 DEF Kept, Stands
<1>3. NoReview(i)'
  BY DEF NoReview, InProgress
<1>4. \A x \in WorkflowId : WorkflowSound(x) => WorkflowSound(x)'
  BY SameWorkflowSound
<1>5. Sound(i)'
  BY <1>1, <1>3, <1>4 DEF Sound, NoReview, InProgress
<1> QED
  BY <1>1, <1>2, <1>3, <1>5

\* The invoice repository's Approve, or UpdateStatus to draft.
LEMMA InvoiceLeaves ==
  ASSUME TypeOK, NEW w \in Worker, NEW x \in WorkflowId, NEW i \in InvoiceId,
         Finds(w, x, i), UpdateInvoice(w)
  PROVE  Leaves(w, i)
<1>1. PICK c \in Call : c = call[w] /\ KeepsTo(c) /\ c.pc = "invoice"
  BY DEF TypeOK, CallsOK, UpdateInvoice, At
<1>2. PICK s : s = IF c.does = "approved" THEN "approved" ELSE "draft"
  OBVIOUS
<1>3. /\ NoReview(i) /\ workflows[x].status = c.does
      /\ Deciding(c) => steps[x][c.step].status = c.does
  BY <1>1 DEF Finds, Knows, KnowsWorkflow, KnowsSteps
<1>4. /\ status' = [status EXCEPT ![i] = s] /\ UNCHANGED <<workflows, steps, audit>>
      /\ Go(w, "audit")
  BY <1>1, <1>2 DEF UpdateInvoice, Finds
<1>5. s = "approved" => workflows[x].inv = i /\ workflows[x].status = "approved"
  BY <1>2, <1>3 DEF Finds
<1>6. Kept(i) /\ Sound(i)' /\ Stands
  BY <1>3, <1>4, <1>5, StatusLeaves DEF Finds
<1>7. /\ call'[w].pc = "audit" /\ call'[w].wf = x /\ call'[w].step = c.step
      /\ call'[w].does = c.does /\ c.does # "delegated"
  BY <1>1, <1>4, GoesOn DEF Finds, CallStep, KeepsTo
<1> QED
  BY <1>3, <1>4, <1>6, <1>7
  DEF Leaves, Knows, KnowsWorkflow, KnowsSteps, KnowsInvoice, Deciding

\* The entry is written and the call answers.
LEMMA AuditLeaves ==
  ASSUME TypeOK, NEW w \in Worker, NEW x \in WorkflowId, NEW i \in InvoiceId,
         Finds(w, x, i), AppendAudit(w)
  PROVE  Leaves(w, i)
BY TablesStay, IdleKnowsAfter DEF Leaves, Finds, AppendAudit

\* A submission: no workflow of a draft is in progress.
LEMMA SubmitLeaves ==
  ASSUME TypeOK, NEW w \in Worker, NEW i \in InvoiceId, Sound(i), Knows(call[w]),
         call[w].inv = i, i \notin Deleted, SubmitUpdate(w)
  PROVE  Leaves(w, i)
<1>1. status[i] = "draft"
  BY DEF SubmitUpdate, At, Knows, KnowsInvoice, Deleted
<1>2. NoReview(i)
  BY <1>1 DEF Sound, NoReview
<1>3. /\ status' = [status EXCEPT ![i] = "pending_approval"] /\ UNCHANGED <<workflows, steps, audit>>
      /\ Go(w, "create")
  BY DEF SubmitUpdate
<1>4. Kept(i) /\ Sound(i)' /\ Stands /\ status'[i] = "pending_approval" /\ NoReview(i)'
  BY <1>2, <1>3, StatusLeaves
<1>5. call'[w].pc = "create" /\ call'[w].inv = i
  BY <1>3, GoesOn DEF CallStep
<1> QED
  BY <1>4, <1>5 DEF Leaves, Knows, KnowsWorkflow, KnowsSteps, KnowsInvoice

\* A new workflow takes a free identifier; the invoice has none in progress.
LEMMA CreateLeaves ==
  ASSUME TypeOK, NEW w \in Worker, NEW i \in InvoiceId, Sound(i), Knows(call[w]),
         call[w].inv = i, CreateApprovalWorkflow(w)
  PROVE  Leaves(w, i)
<1>1. status[i] = "pending_approval" /\ NoReview(i)
  BY DEF CreateApprovalWorkflow, At, Knows, KnowsInvoice
<1>2. PICK x \in WorkflowId, plan \in (SUBSET StepNumber) \ {{}} :
       \E users \in [plan -> User \cup {Nil}] :
          /\ workflows[x].status = "none"
          /\ workflows' = [workflows EXCEPT ![x] =
                [status |-> "in_progress", inv |-> i,
                 by |-> call[w].user, total |-> Cardinality(plan), current |-> 1]]
          /\ steps' = [steps EXCEPT ![x] = BuildSteps(plan, users)]
  BY DEF CreateApprovalWorkflow
<1>3. PICK users \in [plan -> User \cup {Nil}] :
          /\ workflows[x].status = "none"
          /\ workflows' = [workflows EXCEPT ![x] =
                [status |-> "in_progress", inv |-> i,
                 by |-> call[w].user, total |-> Cardinality(plan), current |-> 1]]
          /\ steps' = [steps EXCEPT ![x] = BuildSteps(plan, users)]
  BY <1>2
<1>4. UNCHANGED <<status, audit>> /\ Reply(w)
  BY DEF CreateApprovalWorkflow
<1>5. /\ workflows'[x].status = "in_progress" /\ workflows'[x].inv = i
      /\ workflows'[x].total = Cardinality(plan) /\ workflows'[x].current = 1
      /\ steps'[x] = BuildSteps(plan, users)
      /\ OnlyWorkflow(x)
  BY <1>3 DEF TypeOK, TablesOK, OnlyWorkflow
<1>6. WorkflowSound(x)'
  <2>1. \A n \in StepNumber : steps'[x][n].status = IF n \in plan THEN "pending" ELSE "none"
    <3> DEFINE r(n) == [NoStep EXCEPT !.status = "pending", !.assigned = users[n]]
    <3>1. \A n \in StepNumber : steps'[x][n] = IF n \in plan THEN r(n) ELSE NoStep
      BY <1>5 DEF BuildSteps
    <3>2. NoStep.status = "none" /\ \A n : r(n).status = "pending"
      BY DEF NoStep
    <3> QED
      BY <3>1, <3>2
  <2>2. Present(x)' = plan
    BY <1>2, <2>1 DEF Present
  <2>3. ApprovedUpTo(x, workflows[x].current - 1)'
    BY <1>5 DEF ApprovedUpTo
  <2> QED
    BY <1>5, <2>2, <2>3 DEF WorkflowSound
<1>7. Kept(i)
  BY <1>4, <1>5, OneWorkflowKept
<1>8. Stands
  BY <1>3, <1>5 DEF OnlyWorkflow, Stands
<1>9. Sound(i)'
  <2>1. \A y \in WorkflowId : workflows'[y].inv = i /\ InProgress(y)' => y = x
    BY <1>1, <1>5 DEF NoReview, InProgress, OnlyWorkflow
  <2>2. ASSUME NEW y \in WorkflowId, workflows'[y].inv = i PROVE WorkflowSound(y)'
    BY <1>5, <1>6, <2>2, SameWorkflowSound DEF OnlyWorkflow, Sound
  <2> QED
    BY <1>1, <1>4, <2>1, <2>2 DEF Sound
<1> QED
  BY <1>4, <1>7, <1>8, <1>9, IdleKnowsAfter DEF Leaves

\* Every step of a handler leaves its invoice sound, knows what it goes on
\* with, and touches nothing else.
LEMMA ProceedLeaves ==
  ASSUME TypeOK, TypeOK', NEW w \in Worker, NEW i \in InvoiceId, Sound(i), Knows(call[w]),
         call[w].inv = i, Proceed(w)
  PROVE  Leaves(w, i)
<1>1. CASE call[w].pc \in OnWorkflow
  <2>1. PICK x \in WorkflowId : x = call[w].wf /\ Finds(w, x, i)
    BY <1>1, CalledWorkflow DEF TypeOK, CallsOK, Finds
  <2> QED
    BY <1>1, <2>1, ApproveLeaves, RejectLeaves, RecallLeaves, DelegateLeaves, ReadLeaves,
       AdvanceLeaves, CompleteLeaves, InvoiceLeaves, AuditLeaves
    DEF Proceed, SubmitUpdate, CreateApprovalWorkflow, At, OnWorkflow
<1>2. CASE call[w].pc \notin OnWorkflow
  <2>1. SubmitUpdate(w) \/ CreateApprovalWorkflow(w)
    BY <1>2 DEF Proceed, OnWorkflow, At, Does, ReadStep, ApproveStep, RejectStep, RecallSteps,
       DelegateUpdate, AdvanceStep, CompleteWorkflow, UpdateInvoice, AppendAudit
  <2> QED
    BY <2>1, SubmitLeaves, CreateLeaves DEF Proceed
<1> QED
  BY <1>1, <1>2

\* The other workers' calls stay as they are.
LEMMA OthersStay ==
  ASSUME TypeOK, NEW w \in Worker, Proceed(w)
  PROVE  call[w].pc # "idle" /\ \A v \in Worker : v # w => call'[v] = call[v]
<1>1. call \in [Worker -> Call]
  BY DEF TypeOK, CallsOK
<1>2. ASSUME NEW pc, Go(w, pc) \/ Reply(w) PROVE \A v \in Worker : v # w => call'[v] = call[v]
  BY <1>1, <1>2 DEF Go, Reply
<1> QED
  BY <1>2 DEF Proceed, SubmitUpdate, CreateApprovalWorkflow, ReadStep, ApproveStep,
     RejectStep, RecallSteps, DelegateUpdate, AdvanceStep, CompleteWorkflow, UpdateInvoice,
     AppendAudit, At, Does

-----------------------------------------------------------------------------
(* The invariant                                                           *)

\* A row of the log stays true, and a new one is.
LEMMA AuditStep ==
  ASSUME TypeOK, AuditKept, AuditSound, Stands, NEW w \in Worker, Knows(call[w]),
         \/ audit' = audit
         \/ AppendAudit(w)
  PROVE  AuditSound'
<1> DEFINE True(e) ==
       /\ e.action # "recalled" => e.step \in StepNumber
       /\ e.action \in {"approved", "rejected"} => steps[e.wf][e.step].status = e.action
       /\ e.action \in {"rejected", "recalled"} => workflows[e.wf].status = e.action
       /\ e.action = "delegated" => steps[e.wf][e.step].delegated # Nil
<1>1. ASSUME NEW e \in audit PROVE True(e)'
  <2>1. True(e)
    BY DEF AuditSound, AuditTruthful
  <2>2. PICK x \in WorkflowId : x = e.wf /\ workflows[x].status # "none"
    BY DEF TypeOK, TablesOK, AuditEntry, AuditKept, Exists
  <2>3. e.action \in Action
    BY DEF TypeOK, TablesOK, AuditEntry
  <2>4. CASE e.action = "recalled"
    BY <2>1, <2>2, <2>4 DEF Stands
  <2>5. CASE e.action # "recalled"
    <3>1. PICK n \in StepNumber : n = e.step
      BY <2>1, <2>5
    <3> QED
      BY <2>1, <2>2, <2>3, <2>5, <3>1 DEF Stands, Action
  <2> QED
    BY <2>4, <2>5
<1>2. CASE AppendAudit(w)
  <2> DEFINE d == [wf |-> call[w].wf, step |-> call[w].step, action |-> call[w].does]
  <2>1. audit' = audit \cup {d} /\ UNCHANGED <<workflows, steps>> /\ call[w].pc = "audit"
    BY <1>2 DEF AppendAudit, At
  <2>2. True(d)
    BY <2>1 DEF Knows, KnowsWorkflow, KnowsSteps, Deciding, TypeOK, CallsOK, KeepsTo, OnWorkflow,
       Action
  <2>3. PICK e : e = d
    OBVIOUS
  <2>4. True(e)
    BY <2>2, <2>3
  <2>5. True(e)'
    BY <2>1, <2>4
  <2> QED
    BY <1>1, <2>1, <2>3, <2>5 DEF AuditSound, AuditTruthful
<1>3. CASE audit' = audit
  BY <1>1, <1>3 DEF AuditSound, AuditTruthful
<1> QED
  BY <1>2, <1>3

\* A step that leaves the rows of all invoices but j, after which j is sound.
LEMMA ServedAfter ==
  ASSUME TypeOK, WorkflowsKept, Served, NEW j \in InvoiceId, Kept(j), Sound(j)',
         NEW w \in Worker, Knows(call[w])',
         \A v \in Worker : v # w => call'[v] = call[v] /\ (call[v].pc # "idle" => call[v].inv # j)
  PROVE  Served'
<1>1. ASSUME NEW i \in InvoiceId PROVE Sound(i)'
  BY ElsewhereSound DEF Served
<1>2. ASSUME NEW v \in Worker, v # w PROVE Knows(call[v])'
  <2>1. PICK c \in Call : c = call[v] /\ KeepsTo(c) /\ Knows(c)
                          /\ (c.pc \in OnWorkflow => workflows[c.wf].inv = c.inv)
    BY DEF TypeOK, CallsOK, Served
  <2>2. Knows(c)'
    BY <1>2, <2>1, ElsewhereKnows
  <2>3. call'[v] = c
    BY <1>2, <2>1
  <2> QED
    BY <2>2, <2>3
<1> QED
  BY <1>1, <1>2 DEF Served

\* A step on the tables of no invoice.
LEMMA ServedStays ==
  ASSUME TypeOK, Served, UNCHANGED <<status, workflows, steps>>,
         \A v \in Worker : call'[v] # call[v] => Knows(call[v])'
  PROVE  Served'
<1>1. \A i \in InvoiceId : Sound(i)'
  BY TablesStay DEF Served
<1>2. ASSUME NEW v \in Worker, call'[v] = call[v] PROVE Knows(call[v])'
  <2>1. PICK c : c = call[v]
    OBVIOUS
  <2>2. Knows(c)'
    BY <2>1, KnowsStays DEF Served
  <2> QED
    BY <1>2, <2>1, <2>2
<1> QED
  BY <1>1, <1>2 DEF Served

\* A call begins: what it is told is so.
LEMMA BeginKnows ==
  ASSUME TypeOK, NEW w \in Worker, NEW u \in User, Begin(w, u)
  PROVE  /\ Knows(call[w])' /\ \A v \in Worker : v # w => call'[v] = call[v]
         /\ UNCHANGED <<status, workflows, steps, audit>>
<1>0. UNCHANGED <<status, workflows, steps, audit>> /\ call \in [Worker -> Call]
  BY CallsBegin DEF TypeOK, CallsOK
<1>1. \A v \in Worker : v # w => call'[v] = call[v]
  BY <1>0 DEF Begin, Submit, ReadWorkflow, RecallWorkflow, DelegateStep, Receive
<1>2. ASSUME NEW i \in InvoiceId, Submit(w, i, u) PROVE Knows(call[w])'
  <2>1. call'[w].pc = "submit" /\ call'[w].inv = i /\ status'[i] = "draft"
    BY <1>0, <1>2 DEF Submit, Receive
  <2> QED
    BY <2>1 DEF Knows, KnowsWorkflow, KnowsSteps, KnowsInvoice
<1>3. ASSUME NEW x \in WorkflowId, NEW action \in Action, ReadWorkflow(w, x, u, action)
      PROVE  Knows(call[w])'
  <2>1. /\ call'[w].pc = "read" /\ call'[w].wf = x /\ call'[w].step = workflows[x].current
        /\ workflows'[x].status = "in_progress" /\ workflows'[x].current = workflows[x].current
    BY <1>0, <1>3 DEF ReadWorkflow, Active, Receive
  <2> QED
    BY <2>1 DEF Knows, KnowsWorkflow, KnowsSteps, KnowsInvoice, InProgress
<1>4. ASSUME NEW x \in WorkflowId, RecallWorkflow(w, x, u) PROVE Knows(call[w])'
  <2>1. /\ call'[w].pc = "step" /\ call'[w].does = "recalled" /\ call'[w].wf = x
        /\ workflows'[x].status = "in_progress"
    BY <1>0, <1>4 DEF RecallWorkflow, Active, Receive
  <2> QED
    BY <2>1 DEF Knows, KnowsWorkflow, KnowsSteps, KnowsInvoice, InProgress, Deciding
<1>5. ASSUME NEW x \in WorkflowId, NEW n \in StepNumber, DelegateStep(w, x, n, u)
      PROVE  Knows(call[w])'
  <2>1. call'[w].pc = "read" /\ call'[w].does = "delegated"
    BY <1>0, <1>5 DEF DelegateStep, Receive
  <2> QED
    BY <2>1 DEF Knows, KnowsWorkflow, KnowsSteps, KnowsInvoice, Deciding
<1> QED
  BY <1>0, <1>1, <1>2, <1>3, <1>4, <1>5 DEF Begin

\* A draft is deleted: no call relies on it but a submission, which finds it
\* gone.
LEMMA DeleteServed ==
  ASSUME TypeOK, Served, NEW i \in InvoiceId, DeleteInvoice(i)
  PROVE  Served'
<1>1. /\ status[i] = "draft" /\ status' = [status EXCEPT ![i] = "deleted"]
      /\ UNCHANGED <<workflows, steps, audit, call>>
  BY DEF DeleteInvoice
<1>2. Sound(i) /\ NoReview(i)
  BY <1>1 DEF Served, Sound, NoReview
<1>3. Kept(i) /\ Sound(i)' /\ status'[i] = "deleted"
  BY <1>1, <1>2, StatusLeaves
<1>4. WorkflowsKept
  BY <1>1 DEF WorkflowsKept
<1>5. ASSUME NEW j \in InvoiceId PROVE Sound(j)'
  BY <1>3, <1>4, ElsewhereSound DEF Served
<1>6. ASSUME NEW v \in Worker PROVE Knows(call[v])'
  <2>1. PICK c \in Call : c = call[v] /\ KeepsTo(c) /\ Knows(c)
                          /\ (c.pc \in OnWorkflow => workflows[c.wf].inv = c.inv)
    BY DEF TypeOK, CallsOK, Served
  <2>2. CASE c.pc # "idle" => c.inv # i
    BY <1>1, <1>3, <1>4, <2>1, <2>2, ElsewhereKnows
  <2>3. CASE c.inv = i
    <3>1. KnowsInvoice(c)'
      BY <1>1, <1>3, <2>1, <2>3 DEF Knows, KnowsInvoice
    <3>2. KnowsWorkflow(c)' /\ KnowsSteps(c)'
      BY <1>1, <2>1, <2>3 DEF Knows, KnowsWorkflow, KnowsSteps, InProgress, AllApproved
    <3> QED
      BY <1>1, <2>1, <3>1, <3>2 DEF Knows
  <2> QED
    BY <2>2, <2>3
<1> QED
  BY <1>5, <1>6 DEF Served

\* What every step keeps.
LEMMA SerialStep ==
  TypeOK /\ TypeOK' /\ AuditKept /\ SerialInv /\ [Next /\ OneCallPerInvoice']_vars => SerialInv'
<1> SUFFICES ASSUME TypeOK, TypeOK', AuditKept, SerialInv, [Next /\ OneCallPerInvoice']_vars
             PROVE  SerialInv'
  OBVIOUS
<1>0. OneCallPerInvoice /\ Served /\ AuditSound
  BY DEF SerialInv
<1>1. ASSUME UNCHANGED <<status, workflows, steps, audit>> PROVE AuditSound'
  BY <1>0, <1>1 DEF AuditSound, AuditTruthful
<1>2. OneCallPerInvoice'
  BY <1>0 DEF vars, OneCallPerInvoice, Busy
<1>3. ASSUME NEW w \in Worker, Proceed(w) PROVE Served' /\ AuditSound'
  <2>1. PICK i \in InvoiceId : i = call[w].inv
    BY <1>3, OthersStay DEF TypeOK, CallsOK, KeepsTo
  <2>2. Kept(i) /\ Sound(i)' /\ Knows(call[w])' /\ Stands
    BY <1>0, <1>3, <2>1, ProceedLeaves DEF Served, Leaves
  <2>3. \A v \in Worker : v # w => call'[v] = call[v] /\ call[v].inv # i
    BY <1>0, <1>3, <2>1, OthersStay DEF OneCallPerInvoice, Busy
  <2>4. WorkflowsKept
    BY <1>3, WorkflowsStep
  <2>5. Served'
    BY <1>0, <2>2, <2>3, <2>4, ServedAfter
  <2>6. audit' = audit \/ AppendAudit(w)
    BY <1>3 DEF Proceed, SubmitUpdate, CreateApprovalWorkflow, ReadStep, ApproveStep, RejectStep,
       RecallSteps, DelegateUpdate, AdvanceStep, CompleteWorkflow, UpdateInvoice
  <2>7. AuditSound'
    BY <1>0, <2>2, <2>6, AuditStep DEF Served
  <2> QED
    BY <2>5, <2>7
<1>4. ASSUME NEW w \in Worker, NEW u \in User, Begin(w, u) PROVE Served' /\ AuditSound'
  BY <1>0, <1>1, <1>4, BeginKnows, ServedStays
<1>5. ASSUME NEW w \in Worker, Abort(w) PROVE Served' /\ AuditSound'
  <2>1. /\ UNCHANGED <<status, workflows, steps, audit>> /\ Knows(call[w])'
        /\ \A v \in Worker : v # w => call'[v] = call[v]
    BY <1>5, IdleKnowsAfter DEF Abort, Reply, TypeOK, CallsOK
  <2> QED
    BY <1>0, <1>1, <2>1, ServedStays
<1>6. ASSUME NEW i \in InvoiceId, DeleteInvoice(i) PROVE Served' /\ AuditSound'
  <2>1. Served'
    BY <1>0, <1>6, DeleteServed
  <2>2. AuditSound'
    BY <1>0, <1>6 DEF DeleteInvoice, AuditSound, AuditTruthful
  <2> QED
    BY <2>1, <2>2
<1>7. CASE UNCHANGED vars
  BY <1>0, <1>1, <1>2, <1>7, ServedStays DEF vars, SerialInv
<1> QED
  BY <1>2, <1>3, <1>4, <1>5, <1>6, <1>7 DEF Next, Serve, SerialInv

\* Every invoice is a draft without a workflow, and no call is under way.
LEMMA SerialStart == Init => SerialInv
<1> SUFFICES ASSUME Init PROVE SerialInv
  OBVIOUS
<1>1. OneCallPerInvoice /\ AuditSound
  BY RoutingNilAssumption DEF Init, NoCall, OneCallPerInvoice, Busy, AuditSound, AuditTruthful
<1>2. \A w \in Worker : Knows(call[w])
  BY IdleKnows DEF Init
<1>3. \A x \in WorkflowId : workflows[x].inv = Nil
  BY DEF Init, NoWorkflow
<1>4. \A i \in InvoiceId : status[i] = "draft" /\ i # Nil
  BY RoutingNilAssumption DEF Init
<1>5. \A i \in InvoiceId : Sound(i)
  BY <1>3, <1>4 DEF Sound
<1> QED
  BY <1>1, <1>2, <1>5 DEF SerialInv, Served

\* The invariant, with the ones of overlapping calls that it rests on.
LEMMA SerialInvariant == SerialSpec => [](TypeOK /\ AuditKept /\ SerialInv)
<1>1. [Next /\ OneCallPerInvoice']_vars => [Next]_vars
  OBVIOUS
<1>2. SerialSpec => []TypeOK /\ []AuditKept
  <2>1. SerialSpec => Spec
    BY <1>1, PTL DEF SerialSpec, Spec
  <2> QED
    BY <2>1, TypeCorrect, LogKept, PTL
<1> QED
  BY <1>2, SerialStart, SerialStep, PTL DEF SerialSpec

-----------------------------------------------------------------------------
\* As long as calls for one invoice do not overlap, wherever any of them fails:
\* a workflow in progress is of a pending invoice and the only one of it, and
\* an approved invoice has a workflow that all of its steps approved
\* (UpdateStepAction, UpdateStatus and the invoice's Approve are statements of
\* their own, approval_routing_service.go:193, 207 and 210).
THEOREM AllStepsApproved == SerialSpec => []ApprovedByAllSteps
<1>1. TypeOK /\ SerialInv => ApprovedByAllSteps
  <2> SUFFICES ASSUME TypeOK, SerialInv PROVE ApprovedByAllSteps
    OBVIOUS
  <2>0. \A i \in InvoiceId : Sound(i)
    BY DEF SerialInv, Served
  <2>1. ASSUME NEW x \in WorkflowId, Active(x)
        PROVE  /\ status[workflows[x].inv] = "pending_approval"
               /\ \A y \in WorkflowId : 
                     Active(y) /\ workflows[y].inv = workflows[x].inv => y = x
    <3>1. workflows[x].inv \in InvoiceId
      BY <2>1 DEF Active, Exists, TypeOK, RowsOK
    <3> QED
      BY <2>0, <2>1, <3>1 DEF Sound, Active, InProgress
  <2>2. ASSUME NEW i \in InvoiceId, status[i] = "approved"
        PROVE  \E x \in WorkflowId :
                  /\ workflows[x].inv = i
                  /\ workflows[x].status = "approved"
                  /\ \A n \in StepNumber : steps[x][n].status \in {"none", "approved"}
    <3>1. PICK x \in WorkflowId : workflows[x].inv = i /\ workflows[x].status = "approved"
      BY <2>0, <2>2 DEF Sound
    <3>2. AllApproved(x)
      BY <2>0, <3>1 DEF Sound, WorkflowSound
    <3> QED
      BY <3>1, <3>2 DEF AllApproved
  <2> QED
    BY <2>1, <2>2 DEF ApprovedByAllSteps
<1> QED
  BY <1>1, SerialInvariant, PTL

\* Under the same condition the audit log tells nothing that did not happen:
\* the step or workflow an entry names is as it says, for ever.
THEOREM LogTruthful == SerialSpec => []AuditTruthful
<1>1. SerialInv => AuditTruthful
  BY DEF SerialInv, AuditSound
<1> QED
  BY <1>1, SerialInvariant, PTL

=============================================================================
