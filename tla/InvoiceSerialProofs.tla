------------------------ MODULE InvoiceSerialProofs ------------------------
(***************************************************************************)
(* Proof that InvoiceService implements InvoiceLifecycle when the requests *)
(* for one invoice do not overlap, wherever they fail.                     *)
(*                                                                         *)
(* A handler's UPDATE does not ask for the status its check has seen.  The *)
(* invariant SerialInv says that it need not: between the check and the    *)
(* UPDATE the row belongs to the worker, so the status, and for a payment  *)
(* the amount due and the sum of the trigger, are still those it read.     *)
(***************************************************************************)
EXTENDS InvoicePaymentProofs, InvoiceSerial

\* The statement of a worker r finds the row its check has seen.
Fresh(r) ==
  /\ r.pc \in {"submit", "delete"} => invoices[r.inv].status = "draft"
  /\ r.pc \in {"approve", "reject", "recall"} => invoices[r.inv].status = "pending_approval"
  /\ r.pc \in PostSteps => invoices[r.inv].status = "approved"
  /\ r.pc \in {"pay_sum", "pay_commit"} =>
        invoices[r.inv].status = "posted" /\ r.amount > 0 /\ r.amount <= Due(r.inv)
  /\ r.pc = "pay_commit" => r.sum = invoices[r.inv].paid + r.amount

\* The trigger has kept up with the payments, and paid means nothing is due.
Settled(i) ==
  /\ invoices[i].paid = paidTotal[i]
  /\ invoices[i].status = "paid" => Due(i) = 0

SerialInv ==
  /\ OneRequestPerInvoice
  /\ \A i \in InvoiceId : Settled(i)
  /\ \A w \in Worker : Fresh(req[w])

\* A handler touches the row of its own invoice only.
LEMMA RowsApart ==
  ASSUME TypeInv, NEW w \in Worker, Proceed(w), NEW i \in InvoiceId, i # req[w].inv
  PROVE  Same(i)
<1>0. /\ invoices \in [InvoiceId -> Row] /\ paidTotal \in [InvoiceId -> Nat]
      /\ req[w] \in Request /\ HoldsIds(req[w])
  BY DEF TypeInv, TypeOK, TablesOK, RequestsOK
<1>1. CASE SubmitUpdate(w) \/ ApproveUpdate(w) \/ RejectUpdate(w) \/ RecallUpdate(w) \/ PostMark(w)
  BY <1>0, <1>1 DEF SubmitUpdate, ApproveUpdate, RejectUpdate, RecallUpdate, PostMark,
     ApproveRow, WriteInvoices, UpdateStatus, MarkAsPosted, Same
<1>2. CASE PayCommit(w) \/ DeleteExec(w)
  BY <1>0, <1>2 DEF PayCommit, UpdatePaymentStatus, DeleteExec, DeleteRow, Same
<1> QED
  BY <1>1, <1>2 DEF Proceed, PostReadLines, PostCreate, PostPost, PostBalance, PaySum, PayCreate,
     PayPost, PayBalance, CreateJournal, PostJournal, UpdateBalance, Same

\* The row of invoice i gets status s and keeps its amounts.
Moves(i, s) ==
  /\ invoices'[i].status = s
  /\ invoices'[i].total = invoices[i].total /\ invoices'[i].paid = invoices[i].paid
  /\ paidTotal'[i] = paidTotal[i]

\* What a handler makes of its row, which is as its check has seen it.
Writes(w, i) ==
  \/ At(w, "submit") /\ Moves(i, "pending_approval")
  \/ At(w, "approve") /\ Moves(i, "approved")
  \/ (At(w, "reject") \/ At(w, "recall")) /\ Moves(i, "draft")
  \/ At(w, "post_mark") /\ Moves(i, "posted")
  \/ At(w, "delete") /\ invoices'[i] = Absent("deleted") /\ paidTotal'[i] = 0
  \/ /\ At(w, "pay_commit")
     /\ invoices'[i].status = IF req[w].amount = Due(i) THEN "paid" ELSE "posted"
     /\ invoices'[i].total = invoices[i].total
     /\ invoices'[i].paid = invoices[i].paid + req[w].amount
     /\ paidTotal'[i] = paidTotal[i] + req[w].amount
  \/ Same(i)

\* Every statement finds the row it was checked for.
LEMMA FreshWrites ==
  ASSUME TypeInv, NEW w \in Worker, Proceed(w), Fresh(req[w])
  PROVE  Writes(w, req[w].inv)
<1> DEFINE i == req[w].inv
           old == invoices[i]
<1>0. /\ invoices \in [InvoiceId -> Row] /\ paidTotal \in [InvoiceId -> Nat]
      /\ req[w] \in Request /\ HoldsIds(req[w])
  BY DEF TypeInv, TypeOK, TablesOK, RequestsOK
<1>1. ASSUME req[w].pc \in FirstSteps \cup {"post_mark", "pay_commit"}, ~At(w, "pay_sum")
      PROVE  i \in InvoiceId /\ old \in LiveRow /\ Exists(i)
  BY <1>0, <1>1, LiveRows DEF Fresh, FirstSteps, PostSteps, HoldsIds, InvoiceStatus, Exists, At
<1>2. ASSUME NEW s \in InvoiceStatus, WriteInvoices(w, UpdateStatus(i, s)), Exists(i),
             i \in InvoiceId, old \in LiveRow
      PROVE  Moves(i, s)
  BY <1>0, <1>2 DEF WriteInvoices, UpdateStatus, Moves, LiveRow
<1>3. CASE SubmitUpdate(w)
  BY <1>1, <1>2, <1>3 DEF SubmitUpdate, At, FirstSteps, InvoiceStatus, Writes
<1>4. CASE ApproveUpdate(w)
  BY <1>1, <1>2, <1>4 DEF ApproveUpdate, ApproveRow, At, FirstSteps, InvoiceStatus, Writes
<1>5. CASE RejectUpdate(w) \/ RecallUpdate(w)
  BY <1>1, <1>2, <1>5 DEF RejectUpdate, RecallUpdate, At, FirstSteps, InvoiceStatus, Writes
<1>6. CASE PostMark(w)
  <2>1. Moves(i, "posted")
    BY <1>0, <1>1, <1>6 DEF PostMark, At, WriteInvoices, MarkAsPosted, Moves, LiveRow
  <2> QED
    BY <1>6, <2>1 DEF PostMark, Writes
<1>7. CASE DeleteExec(w)
  BY <1>0, <1>7 DEF DeleteExec, At, HoldsIds, Fresh, Deletable, DeleteRow, Writes
<1>8. CASE PayCommit(w)
  <2>1. /\ i \in InvoiceId /\ old.status = "posted" /\ req[w].sum = old.paid + req[w].amount
        /\ req[w].amount <= Due(i) /\ old \in LiveRow
    BY <1>0, <1>1, <1>8 DEF PayCommit, At, HoldsIds, Fresh
  <2>2. old.total \in Nat /\ old.paid \in Nat /\ req[w].amount \in Nat
    BY <1>0, <2>1, RowFields DEF Request
  <2>3. PaidStatus(i, req[w].sum) = IF req[w].amount = Due(i) THEN "paid" ELSE "posted"
    BY <2>1, <2>2 DEF PaidStatus, Due
  <2>4. invoices'[i] = [old EXCEPT !.paid = req[w].sum, !.status = PaidStatus(i, req[w].sum)]
    BY <1>0, <1>8, <2>1 DEF PayCommit, UpdatePaymentStatus
  <2>5. paidTotal'[i] = paidTotal[i] + req[w].amount
    BY <1>0, <1>8, <2>1 DEF PayCommit
  <2> QED
    BY <1>8, <2>1, <2>3, <2>4, <2>5 DEF LiveRow, Writes, PayCommit
<1>9. CASE PostReadLines(w) \/ PostCreate(w) \/ PostPost(w) \/ PostBalance(w) \/ PaySum(w)
             \/ PayCreate(w) \/ PayPost(w) \/ PayBalance(w)
  BY <1>9 DEF PostReadLines, PostCreate, PostPost, PostBalance, PaySum, PayCreate,
     PayPost, PayBalance, CreateJournal, PostJournal, UpdateBalance, Writes, Same
<1> QED
  BY <1>3, <1>4, <1>5, <1>6, <1>7, <1>8, <1>9 DEF Proceed

\* Nothing outside of its handlers touches a row but its creation.
LEMMA OthersWrite ==
  ASSUME TypeInv, [Next]_vars, \A w \in Worker : ~Proceed(w), NEW i \in InvoiceId
  PROVE  \/ Same(i)
         \/ /\ CreateInvoice /\ invoices[i].status = "none" /\ paidTotal'[i] = paidTotal[i]
            /\ invoices'[i].status = "draft" /\ invoices'[i].paid = 0
            /\ invoices'[i].total \in Totals
            /\ \A k \in InvoiceId \ {i} : Same(k)
<1>0. invoices \in [InvoiceId -> Row]
  BY DEF TypeInv, TypeOK, TablesOK
<1>1. CASE CreateInvoice
  <2>1. PICK k \in InvoiceId, n \in Number, t \in Totals :
           invoices[k].status = "none" /\ invoices' = Insert(k, n, t) /\ UNCHANGED paidTotal
    BY <1>1 DEF CreateInvoice
  <2> QED
    BY <1>0, <1>1, <2>1 DEF Insert, Same
<1>2. ASSUME NEW w \in Worker, NEW k \in InvoiceId, Begin(w, k) PROVE Same(i)
  BY <1>2, BeginReceives DEF Receive, Same
<1> QED
  BY <1>1, <1>2 DEF Next, Serve, Abort, vars, Same

\* The amounts stay settled.
LEMMA SettledStep ==
  ASSUME TypeInv, SerialInv, [Next]_vars, NEW i \in InvoiceId PROVE Settled(i)'
<1>0. /\ Settled(i) /\ paidTotal[i] \in Nat
      /\ invoices[i].total \in Nat /\ invoices[i].paid \in Nat
  BY RowFields DEF SerialInv, TypeInv, TypeOK, TablesOK
<1>1. CASE Same(i)
  BY <1>0, <1>1 DEF Same, Settled, Due
<1>2. ASSUME NEW w \in Worker, Proceed(w), i = req[w].inv PROVE Settled(i)'
  <2>1. Writes(w, i)
    BY <1>2, FreshWrites DEF SerialInv
  <2>2. CASE At(w, "pay_commit") /\ ~Same(i)
    <3>1. req[w].amount \in Nat
      BY DEF TypeInv, TypeOK, RequestsOK, Request
    <3> QED
      BY <1>0, <2>1, <2>2, <3>1 DEF Writes, At, Settled, Due
  <2>3. CASE ~At(w, "pay_commit")
    BY <1>0, <1>1, <2>1, <2>3, AbsentFields DEF Writes, Moves, Settled, Due
  <2> QED
    BY <1>1, <2>2, <2>3
<1>3. CASE \A w \in Worker : ~Proceed(w)
  BY <1>0, <1>1, <1>3, OthersWrite, RowColumns DEF Settled
<1> QED
  BY <1>1, <1>2, <1>3, RowsApart

\* While a worker works on an invoice, the row of the invoice is its own.
LEMMA FreshStep ==
  ASSUME TypeInv, PostInv, SerialInv, [Next]_vars, NEW v \in Worker
  PROVE  Fresh(req[v])'
<1> DEFINE r == req[v]
           n == req'[v]
           i == r.inv
<1>0. /\ req \in [Worker -> Request] /\ r \in Request /\ HoldsIds(r)
      /\ Fresh(r) /\ PostProgress(r)
  BY DEF SerialInv, PostInv, TypeInv, TypeOK, RequestsOK
<1>1. ASSUME n.pc \in {"idle", "pay_create", "pay_post", "pay_balance"} PROVE Fresh(req[v])'
  BY <1>1 DEF Fresh, PostSteps
<1>2. ASSUME Same(n.inv), n.inv = r.inv, n.amount = r.amount, n.pc = r.pc, n.sum = r.sum
      PROVE  Fresh(req[v])'
  BY <1>0, <1>2 DEF Same, Fresh, Due
<1>3. ASSUME n = r, r.pc # "idle", ~Proceed(v) PROVE Fresh(req[v])'
  <2>1. PICK k \in InvoiceId : k = i
    BY <1>0, <1>3 DEF HoldsIds
  <2>2. ASSUME NEW w \in Worker, Proceed(w) PROVE Same(k)
    <3>1. CASE w = v
      <4>1. ASSUME NEW u \in Worker, u = w PROVE Proceed(u)
        BY <2>2, <4>1
      <4> QED
        BY <1>3, <3>1, <4>1
    <3>2. CASE w # v
      <4>1. ~At(w, "idle") /\ ~At(v, "idle")
        BY <1>3, <2>2 DEF At, Proceed, SubmitUpdate, ApproveUpdate, RejectUpdate, RecallUpdate,
           DeleteExec, PostReadLines, PostCreate, PostPost, PostBalance, PostMark, PaySum, PayCommit,
           PayCreate, PayPost, PayBalance
      <4>2. req[w].inv # k
        BY <2>1, <3>2, <4>1 DEF SerialInv, OneRequestPerInvoice
      <4> QED
        BY <2>2, <4>2, RowsApart
    <3> QED
      BY <3>1, <3>2
  <2>3. invoices[k].status # "none"
    BY <1>0, <1>3, <2>1 DEF PostProgress
  <2>4. ASSUME \A w \in Worker : ~Proceed(w) PROVE Same(k)
    BY <2>3, <2>4, OthersWrite
  <2>5. Same(k)
    BY <2>2, <2>4
  <2> QED
    BY <1>2, <1>3, <2>1, <2>5 DEF Same
<1>4. ASSUME Proceed(v) PROVE Fresh(req[v])'
  <2>1. CASE PaySum(v)
    <3>1. /\ r.pc = "pay_sum" /\ n.pc = "pay_commit" /\ n.inv = i /\ n.amount = r.amount
          /\ n.sum = paidTotal[i] + r.amount /\ UNCHANGED invoices
      BY <1>0, <2>1 DEF PaySum, At, Request
    <3>2. invoices[i].paid = paidTotal[i]
      BY <1>0, <3>1 DEF SerialInv, Settled, HoldsIds
    <3> QED
      BY <1>0, <3>1, <3>2 DEF Fresh, Due, PostSteps
  <2>2. CASE PostReadLines(v)
    <3>1. r.pc = "post_lines" /\ n.pc = "post_create" /\ n.inv = i /\ UNCHANGED invoices
      BY <1>0, <2>2 DEF PostReadLines, At, Request
    <3> QED
      BY <1>0, <3>1 DEF Fresh, PostSteps
  <2>3. ASSUME NEW pc \in {"post_post", "pay_post"}, NEW entry, CreateJournal(v, entry, pc),
               pc = "post_post" => r.pc = "post_create"
        PROVE  Fresh(req[v])'
    <3>1. n.pc = pc /\ n.inv = i /\ UNCHANGED invoices
      BY <1>0, <2>3 DEF CreateJournal, Request
    <3> QED
      BY <1>0, <1>1, <2>3, <3>1 DEF Fresh, PostSteps
  <2>4. CASE PostCreate(v) \/ PayCreate(v)
    BY <2>3, <2>4 DEF PostCreate, PayCreate, At
  <2>5. CASE PostPost(v) \/ PostBalance(v)
    <3>1. /\ r.pc \in {"post_post", "post_balance"} /\ n.pc \in {"post_balance", "post_mark"}
          /\ n.inv = i /\ UNCHANGED invoices
      BY <1>0, <2>5 DEF PostPost, PostBalance, PostJournal, UpdateBalance, Continue, At, Request
    <3> QED
      BY <1>0, <3>1 DEF Fresh, PostSteps
  <2>6. CASE PayCommit(v) \/ PayPost(v)
    <3>1. n.pc \in {"pay_create", "pay_balance"}
      BY <1>0, <2>6 DEF PayCommit, PayPost, PostJournal, Continue, Request
    <3> QED
      BY <1>1, <3>1
  <2>7. ASSUME Finish(v) PROVE Fresh(req[v])'
    BY <1>0, <1>1, <2>7 DEF Finish, NoRequest
  <2> QED
    BY <1>4, <2>1, <2>2, <2>4, <2>5, <2>6, <2>7 DEF Proceed, SubmitUpdate, ApproveUpdate,
       RejectUpdate, RecallUpdate, WriteInvoices, DeleteExec, PostMark, PayBalance
<1>5. ASSUME NEW k \in InvoiceId, Begin(v, k) PROVE Fresh(req[v])'
  <2>1. ASSUME NEW pc \in FirstSteps, NEW a \in Nat, Receive(v, k, pc, a)
        PROVE  n.pc = pc /\ n.inv = k /\ n.amount = a /\ UNCHANGED invoices
    BY <1>0, <2>1 DEF Receive, NoRequest
  <2>2. invoices[k].total \in Nat /\ Settled(k)
    BY RowFields DEF SerialInv, TypeInv, TypeOK, TablesOK
  <2>3. CASE SubmitForApproval(v, k) \/ ApproveInvoice(v, k) \/ RejectInvoice(v, k)
               \/ RecallInvoice(v, k) \/ DeleteInvoice(v, k)
    BY <2>1, <2>3 DEF SubmitForApproval, ApproveInvoice, RejectInvoice, RecallInvoice,
       DeleteInvoice, FirstSteps, Fresh, PostSteps
  <2>4. CASE PostInvoice(v, k)
    BY <2>1, <2>2, <2>4 DEF PostInvoice, FirstSteps, Fresh, PostSteps
  <2>5. ASSUME NEW a \in Nat, RecordPayment(v, k, a) PROVE Fresh(req[v])'
    <3>1. n.pc = "pay_sum" /\ n.inv = k /\ n.amount = a /\ UNCHANGED invoices
      BY <2>1, <2>5 DEF RecordPayment, FirstSteps
    <3>2. invoices[k].status = "posted" /\ a > 0 /\ a <= Due(k)
      BY <2>2, <2>5 DEF RecordPayment, Settled
    <3> QED
      BY <3>1, <3>2 DEF Fresh, PostSteps, Due
  <2> QED
    BY <1>5, <2>2, <2>3, <2>4, <2>5 DEF Begin
<1>6. ASSUME NEW w \in Worker, w # v, Proceed(w) \/ Abort(w) \/ \E k \in InvoiceId : Begin(w, k)
      PROVE  n = r
  BY <1>0, <1>6, ProceedAlone, BeginReceives DEF Abort, Finish, Receive
<1>7. CASE n = r
  BY <1>1, <1>3, <1>4, <1>7
<1>8. CASE Abort(v)
  BY <1>0, <1>1, <1>8 DEF Abort, Finish, NoRequest
<1> QED
  BY <1>4, <1>5, <1>6, <1>7, <1>8 DEF Next, Serve, CreateInvoice, vars

\* Every step that keeps requests apart keeps the inductive invariant.
LEMMA SerialStep ==
  TypeInv /\ PostInv /\ SerialInv /\ [Next /\ OneRequestPerInvoice']_vars => SerialInv'
<1> SUFFICES ASSUME TypeInv, PostInv, SerialInv, [Next /\ OneRequestPerInvoice']_vars
             PROVE  SerialInv'
  OBVIOUS
<1>1. OneRequestPerInvoice'
  BY DEF SerialInv, OneRequestPerInvoice, vars, At
<1> QED
  BY <1>1, SettledStep, FreshStep DEF SerialInv

\* At the start nobody works on an invoice.
LEMMA SerialStart == Init => TypeInv /\ PostInv /\ SerialInv
<1> SUFFICES ASSUME Init PROVE PostInv /\ SerialInv
  BY TypeInit
<1>1. \A w \in Worker : req[w].pc = "idle"
  BY DEF Init, NoRequest
<1>2. PostInv
  BY <1>1, AbsentFields DEF Init, PostInv, PostedIsBacked, PostProgress, PostSteps
<1>3. SerialInv
  BY <1>1, AbsentFields DEF Init, SerialInv, OneRequestPerInvoice, At, Settled, Fresh, PostSteps
<1> QED
  BY <1>2, <1>3

\* A worker always finds the row of its invoice as its check has seen it.
LEMMA SerialInvariant == SerialSpec => [](TypeInv /\ PostInv /\ SerialInv)
<1>1. TypeInv /\ PostInv /\ SerialInv /\ [Next /\ OneRequestPerInvoice']_vars
        => (TypeInv /\ PostInv /\ SerialInv)'
  <2>1. [Next /\ OneRequestPerInvoice']_vars => [Next]_vars
    OBVIOUS
  <2> QED
    BY <2>1, TypeStep, PostStep, SerialStep
<1> QED
  BY <1>1, SerialStart, PTL DEF SerialSpec

-----------------------------------------------------------------------------
(* The steps of the service are steps of the life cycle                    *)

\* The refinement mapping.
Stage == [i \in InvoiceId |-> invoices[i].status]
Dues == [i \in InvoiceId |-> Due(i)]

\* A step that leaves all rows but one alone moves that one's stage.
LEMMA StageMoves ==
  ASSUME NEW i \in InvoiceId, \A k \in InvoiceId \ {i} : Same(k)
  PROVE  /\ Stage' = [Stage EXCEPT ![i] = invoices'[i].status]
         /\ Dues' = [Dues EXCEPT ![i] = Due(i)']
BY DEF Stage, Dues, Same, Due

\* No row, no step of the life cycle.
LEMMA SameStutters ==
  ASSUME \A i \in InvoiceId : Same(i) PROVE Stage' = Stage /\ Dues' = Dues
BY DEF Stage, Dues, Same, Due

\* A handler's write is the life cycle's action of the same name.
LEMMA ProceedImplements ==
  ASSUME TypeInv, SerialInv, NEW w \in Worker, Proceed(w)
  PROVE  Lifecycle!LifecycleNext \/ (Stage' = Stage /\ Dues' = Dues)
<1>0. /\ req[w] \in Request /\ HoldsIds(req[w]) /\ Fresh(req[w])
      /\ \A k \in InvoiceId \ {req[w].inv} : Same(k)
  BY RowsApart DEF TypeInv, TypeOK, RequestsOK, SerialInv
<1>1. ~At(w, "idle")
  BY DEF At, Proceed, SubmitUpdate, ApproveUpdate, RejectUpdate, RecallUpdate,
     DeleteExec, PostReadLines, PostCreate, PostPost, PostBalance, PostMark, PaySum, PayCommit,
     PayCreate, PayPost, PayBalance
<1>2. PICK i \in InvoiceId : i = req[w].inv
  BY <1>0, <1>1 DEF HoldsIds, At
<1>3. Writes(w, i)
  <2>1. Writes(w, req[w].inv)
    BY <1>0, FreshWrites
  <2> QED
    BY <1>2, <2>1 DEF Writes, Moves, Same, Due
<1>4. /\ Stage' = [Stage EXCEPT ![i] = invoices'[i].status]
      /\ Dues' = [Dues EXCEPT ![i] = Due(i)']
      /\ Stage[i] = invoices[i].status /\ Dues[i] = Due(i)
  BY <1>0, <1>2, StageMoves DEF Stage, Dues
<1>5. invoices[i].total \in Nat /\ invoices[i].paid \in Nat
  BY RowFields DEF TypeInv, TypeOK, TablesOK
<1>6. ASSUME NEW s, Moves(i, s) PROVE Stage' = [Stage EXCEPT ![i] = s] /\ Dues' = Dues
  BY <1>4, <1>6 DEF Moves, Due, Dues
<1>7. CASE At(w, "submit") /\ Moves(i, "pending_approval")
  <2>1. Lifecycle!Submit(i)
    BY <1>0, <1>2, <1>4, <1>6, <1>7
       DEF Lifecycle!Submit, Lifecycle!Move, Fresh, At, Stage, Dues
  <2> QED
    BY <2>1 DEF Lifecycle!LifecycleNext
<1>8. CASE At(w, "approve") /\ Moves(i, "approved")
  <2>1. Lifecycle!Approve(i)
    BY <1>0, <1>2, <1>4, <1>6, <1>8
       DEF Lifecycle!Approve, Lifecycle!Move, Fresh, At, Stage, Dues
  <2> QED
    BY <2>1 DEF Lifecycle!LifecycleNext
<1>9. CASE (At(w, "reject") \/ At(w, "recall")) /\ Moves(i, "draft")
  <2>1. Lifecycle!Return(i)
    BY <1>0, <1>2, <1>4, <1>6, <1>9
       DEF Lifecycle!Return, Lifecycle!Move, Fresh, At, Stage, Dues
  <2> QED
    BY <2>1 DEF Lifecycle!LifecycleNext
<1>10. CASE At(w, "post_mark") /\ Moves(i, "posted")
  <2>1. Lifecycle!Post(i)
    BY <1>0, <1>2, <1>4, <1>6, <1>10
       DEF Lifecycle!Post, Lifecycle!Move, Fresh, PostSteps, At, Stage, Dues
  <2> QED
    BY <2>1 DEF Lifecycle!LifecycleNext
<1>11. CASE At(w, "delete") /\ invoices'[i] = Absent("deleted")
  <2>1. invoices'[i].status = "deleted" /\ Due(i)' = 0
    BY <1>11, AbsentFields DEF Due
  <2>2. Lifecycle!Delete(i)
    BY <1>0, <1>2, <1>4, <1>11, <2>1
       DEF Lifecycle!Delete, Lifecycle!Move, Fresh, At, Stage, Dues
  <2> QED
    BY <2>2 DEF Lifecycle!LifecycleNext
<1>12. CASE /\ At(w, "pay_commit")
            /\ invoices'[i].status = IF req[w].amount = Due(i) THEN "paid" ELSE "posted"
            /\ invoices'[i].total = invoices[i].total
            /\ invoices'[i].paid = invoices[i].paid + req[w].amount
  <2>1. PICK a \in Nat : a = req[w].amount
    BY <1>0 DEF Request
  <2>2. invoices[i].status = "posted" /\ a > 0 /\ a <= Due(i)
    BY <1>0, <1>2, <1>12, <2>1 DEF Fresh, At
  <2>3. Due(i) \in Int /\ Due(i)' = Due(i) - a
    BY <1>5, <1>12, <2>1 DEF Due
  <2>4. Lifecycle!Pay(i, a) /\ a \in 1 .. Dues[i]
    BY <1>4, <1>12, <2>1, <2>2, <2>3 DEF Lifecycle!Pay, Lifecycle!Move, Stage, Dues
  <2> QED
    BY <2>4 DEF Lifecycle!LifecycleNext, Dues
<1>13. CASE Same(i)
  BY <1>0, <1>2, <1>13, SameStutters
<1> QED
  BY <1>3, <1>7, <1>8, <1>9, <1>10, <1>11, <1>12, <1>13 DEF Writes

\* As long as the requests for one invoice do not overlap, and wherever they
\* fail, the status column and the amount due of every invoice move as the
\* documented life cycle says: no approval is skipped, there is no way back
\* once approved, no payment goes beyond what is due, and paid is given when
\* nothing is due.
THEOREM ServiceImplementsLifecycle == SerialSpec => RefinesLifecycle
<1>1. Init => Lifecycle!LifecycleInit
  BY AbsentFields DEF Init, Lifecycle!LifecycleInit, Due
<1>2. SerialSpec => [](TypeInv /\ SerialInv)
  BY SerialInvariant, PTL
<1>3. TypeInv /\ SerialInv /\ [Next /\ OneRequestPerInvoice']_vars
        => Lifecycle!LifecycleNext \/ (Stage' = Stage /\ Dues' = Dues)
  <2> SUFFICES ASSUME TypeInv, SerialInv, [Next]_vars
               PROVE  Lifecycle!LifecycleNext \/ (Stage' = Stage /\ Dues' = Dues)
    OBVIOUS
  <2>1. ASSUME \A w \in Worker : ~Proceed(w), NEW i \in InvoiceId, ~Same(i)
        PROVE  Lifecycle!LifecycleNext
    <3>1. /\ invoices[i].status = "none" /\ invoices'[i].status = "draft"
          /\ invoices'[i].paid = 0 /\ invoices'[i].total \in Totals
          /\ \A k \in InvoiceId \ {i} : Same(k)
      BY <2>1, OthersWrite
    <3>2. PICK t \in Totals : t = invoices'[i].total
      BY <3>1
    <3>3. Due(i)' = t
      BY <3>1, <3>2, TotalsAssumption DEF Due
    <3>4. /\ Stage' = [Stage EXCEPT ![i] = "draft"] /\ Stage[i] = "none"
          /\ Dues' = [Dues EXCEPT ![i] = t]
      BY <3>1, <3>3, StageMoves DEF Stage
    <3>5. Lifecycle!Create(i, t)
      BY <3>4 DEF Lifecycle!Create, Lifecycle!Move, Stage, Dues
    <3> QED
      BY <3>5 DEF Lifecycle!LifecycleNext
  <2> QED
    BY <2>1, ProceedImplements, SameStutters
<1>4. TypeInv /\ SerialInv /\ [Next /\ OneRequestPerInvoice']_vars
        => [Lifecycle!LifecycleNext]_<<[i \in InvoiceId |-> invoices[i].status],
                                       [i \in InvoiceId |-> Due(i)]>>
  BY <1>3 DEF Stage, Dues
<1> QED
  BY <1>1, <1>2, <1>4, PTL
     DEF SerialSpec, RefinesLifecycle, Lifecycle!LifecycleSpec, Lifecycle!lifecycleVars

=============================================================================
