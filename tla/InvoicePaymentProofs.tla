------------------------ MODULE InvoicePaymentProofs ------------------------
(***************************************************************************)
(* Proofs about the payments of InvoiceService: for whom payments are      *)
(* recorded, what amount_paid and status paid may say when triggers        *)
(* overlap, which entries of GL-2 stand for a payment, and which rows go.  *)
(*                                                                         *)
(* Every property relates the invoice row to what a payment insert read    *)
(* before it committed, so the invariants say of each worker what its read *)
(* is still worth: the invoice has stayed posted, the sum counts payments  *)
(* that are there, the payment's identifier is the worker's alone.         *)
(***************************************************************************)
EXTENDS InvoiceServiceProofs

-----------------------------------------------------------------------------
(* What a step does to the row of an invoice and to its payments           *)

\* Nothing, a status alone, a posting, the trigger of a payment, a delete, and
\* an insert.
Same(i) == invoices'[i] = invoices[i] /\ paidTotal'[i] = paidTotal[i]

Moved(i) ==
  /\ Exists(i) /\ paidTotal'[i] = paidTotal[i]
  /\ \E s \in {"draft", "pending_approval", "approved"} :
        invoices'[i] = [invoices[i] EXCEPT !.status = s]

Posted(i) ==
  /\ Exists(i) /\ paidTotal'[i] = paidTotal[i]
  /\ \E j \in JournalId : invoices'[i] = [invoices[i] EXCEPT !.status = "posted", !.posted = TRUE,
                                                             !.journal = j]

Paid(w, i) ==
  /\ PayCommit(w) /\ req[w].inv = i /\ Exists(i)
  /\ paidTotal'[i] = paidTotal[i] + req[w].amount
  /\ invoices'[i] = [invoices[i] EXCEPT !.paid = req[w].sum, !.status = PaidStatus(i, req[w].sum)]

Removed(i) ==
  /\ invoices[i].status = "draft" /\ invoices'[i] = Absent("deleted")
  /\ \A w \in Worker : ~(At(w, "pay_commit") /\ req[w].inv = i)
  /\ \A p \in payments' : p.inv # i

Created(i) ==
  /\ invoices[i].status = "none" /\ paidTotal'[i] = paidTotal[i]
  /\ invoices'[i].status = "draft" /\ invoices'[i].paid = 0

Effect(i) == \/ Same(i) \/ Moved(i) \/ Posted(i)
             \/ \E w \in Worker : Paid(w, i)
             \/ Removed(i) \/ Created(i)

\* There is no other way for a step to touch a row.
LEMMA Effects ==
  ASSUME TypeInv, [Next]_vars, NEW i \in InvoiceId PROVE Effect(i)
<1>0. /\ invoices \in [InvoiceId -> Row] /\ paidTotal \in [InvoiceId -> Nat]
      /\ \A w \in Worker : req[w] \in Request /\ HoldsIds(req[w])
  BY DEF TypeInv, TypeOK, TablesOK, RequestsOK
<1>1. CASE UNCHANGED <<invoices, paidTotal>>
  BY <1>1 DEF Effect, Same
<1>2. ASSUME NEW w \in Worker, Proceed(w) PROVE Effect(i)
  <2>1. CASE SubmitUpdate(w) \/ ApproveUpdate(w) \/ RejectUpdate(w) \/ RecallUpdate(w)
    BY <1>0, <2>1 DEF SubmitUpdate, ApproveUpdate, RejectUpdate, RecallUpdate,
       ApproveRow, WriteInvoices, UpdateStatus, Effect, Same, Moved
  <2>2. CASE PostMark(w)
    BY <1>0, <2>2 DEF PostMark, At, HoldsIds, WriteInvoices, MarkAsPosted, Effect, Same, Posted
  <2>3. CASE PayCommit(w)
    <3>1. Exists(req[w].inv) /\ req[w].inv \in InvoiceId
      BY <1>0, <2>3 DEF TypeInv, OpenInsertHasRow, PayCommit, At, HoldsIds
    <3>2. CASE req[w].inv = i
      <4>1. Paid(w, i)
        BY <1>0, <2>3, <3>1, <3>2 DEF Paid, PayCommit, UpdatePaymentStatus
      <4> QED
        BY <4>1 DEF Effect
    <3>3. CASE req[w].inv # i
      BY <1>0, <2>3, <3>1, <3>3 DEF PayCommit, UpdatePaymentStatus, Effect, Same
    <3> QED
      BY <3>2, <3>3
  <2>4. CASE DeleteExec(w)
    <3>1. CASE req[w].inv = i /\ Deletable(i)
      BY <1>0, <2>4, <3>1 DEF DeleteExec, DeleteRow, Deletable, Effect, Removed
    <3>2. CASE req[w].inv # i \/ ~Deletable(i)
      BY <1>0, <2>4, <3>2 DEF DeleteExec, DeleteRow, Effect, Same
    <3> QED
      BY <3>1, <3>2
  <2> QED
    BY <1>1, <1>2, <2>1, <2>2, <2>3, <2>4 DEF Proceed, PostReadLines, PostCreate, PostPost,
       PostBalance, PaySum, PayCreate, PayPost, PayBalance, CreateJournal, PostJournal, UpdateBalance
<1>3. CASE CreateInvoice
  <2>1. PICK k \in InvoiceId, n \in Number, t \in Totals :
           invoices[k].status = "none" /\ invoices' = Insert(k, n, t)
    BY <1>3 DEF CreateInvoice
  <2> QED
    BY <1>0, <1>3, <2>1 DEF CreateInvoice, Insert, Effect, Same, Created
<1>4. ASSUME NEW w \in Worker, NEW k \in InvoiceId, Begin(w, k) PROVE Effect(i)
  BY <1>1, <1>4, BeginReceives DEF Receive
<1> QED
  BY <1>1, <1>2, <1>3, <1>4 DEF Next, Serve, Abort, vars

\* A row that is not there has no column set, and one that is there goes on
\* through its columns as LiveRow has them.
LEMMA RowColumns ==
  ASSUME TypeInv, NEW i \in InvoiceId
  PROVE  /\ Exists(i) => invoices[i] \in LiveRow
         /\ ~Exists(i) => /\ ~invoices[i].posted /\ invoices[i].paid = 0
                          /\ invoices[i].status \in {"none", "deleted"}
         /\ Exists(i) <=> invoices[i].status \notin {"none", "deleted"}
BY AbsentFields, LiveRows DEF TypeInv, TypeOK, TablesOK, Row, Exists, LiveRow, InvoiceStatus

\* A row disappears from status draft only: the clause of the DELETE decides,
\* and no other statement removes a row (invoice_repository.go:551).
THEOREM DeletesDraftsOnly == Spec => DeletedOnlyDraft
<1>1. TypeInv /\ [Next]_vars =>
        [\A i \in InvoiceId : Exists(i) /\ ~Exists(i)' => invoices[i].status = "draft"]_vars
  <2> SUFFICES ASSUME TypeInv, [Next]_vars, NEW i \in InvoiceId, Exists(i), ~Exists(i)'
               PROVE  invoices[i].status = "draft"
    OBVIOUS
  <2>1. invoices[i] \in LiveRow
    BY RowColumns
  <2>2. CASE Moved(i) \/ Posted(i)
    BY <2>1, <2>2 DEF Moved, Posted, Exists, LiveRow, InvoiceStatus
  <2>3. ASSUME NEW w \in Worker, Paid(w, i) PROVE FALSE
    BY <2>1, <2>3 DEF Paid, PaidStatus, Exists, LiveRow, InvoiceStatus
  <2>4. CASE Created(i)
    BY <2>4 DEF Created, Exists, InvoiceStatus
  <2> QED
    BY <2>2, <2>3, <2>4, Effects DEF Effect, Same, Removed, Exists
<1>2. Spec => []TypeInv
  BY TypeInit, TypeStep, PTL DEF Spec
<1> QED
  BY <1>1, <1>2, PTL DEF Spec, DeletedOnlyDraft

-----------------------------------------------------------------------------
(* Payments follow the posting, and amount_paid the payments               *)

\* What the reads of a worker r that records a payment are still worth: the
\* invoice is posted for as long as it is there, and the sum its trigger will
\* store counts no payment but its own and committed ones.
PayProgress(r) ==
  /\ r.pc \in {"pay_sum", "pay_commit"} /\ Exists(r.inv) => invoices[r.inv].posted
  /\ r.pc = "pay_commit" => r.sum <= paidTotal[r.inv] + r.amount

PayInv == /\ PaymentsOnlyForPosted /\ PaidWithinPayments /\ PaidMeansFullyPaid
          /\ \A w \in Worker : PayProgress(req[w])

\* A committed payment was there before or is the one a worker commits now.
LEMMA PaymentsCommitted ==
  ASSUME TypeInv, [Next]_vars, NEW p \in payments'
  PROVE  p \in payments \/ \E w \in Worker : Paid(w, p.inv)
<1>0. \A w \in Worker : req[w] \in Request /\ HoldsIds(req[w])
  BY DEF TypeInv, TypeOK, RequestsOK
<1>1. ASSUME NEW w \in Worker, PayCommit(w) PROVE p \in payments \/ Paid(w, p.inv)
  <2>1. CASE p.inv = req[w].inv
    BY <1>0, <1>1, <2>1 DEF TypeInv, TypeOK, TablesOK, OpenInsertHasRow, Paid, PayCommit,
       UpdatePaymentStatus, At, HoldsIds
  <2>2. CASE p.inv # req[w].inv
    BY <1>1, <2>2 DEF PayCommit
  <2> QED
    BY <2>1, <2>2
<1>2. ASSUME NEW w \in Worker, DeleteExec(w) PROVE p \in payments
  BY <1>2 DEF DeleteExec
<1>3. ASSUME NEW w \in Worker, Proceed(w) PROVE p \in payments \/ \E v \in Worker : Paid(v, p.inv)
  BY <1>1, <1>2, <1>3 DEF Proceed, SubmitUpdate, ApproveUpdate, RejectUpdate, RecallUpdate,
     WriteInvoices, PostReadLines, PostCreate, PostPost, PostBalance, PostMark, PaySum,
     PayCreate, PayPost, PayBalance, CreateJournal, PostJournal, UpdateBalance
<1>4. ASSUME NEW w \in Worker, NEW k \in InvoiceId, Begin(w, k) PROVE p \in payments
  BY <1>4, BeginReceives DEF Receive
<1> QED
  BY <1>3, <1>4 DEF Next, Serve, CreateInvoice, Abort, vars

\* A worker commits payments of a posted invoice, with what it knows of them.
LEMMA CommitsPosted ==
  ASSUME TypeInv, PayInv, NEW w \in Worker, NEW i \in InvoiceId, Paid(w, i)
  PROVE  /\ invoices[i].posted /\ invoices[i] \in LiveRow
         /\ req[w].sum <= paidTotal[i] + req[w].amount
         /\ req[w].sum \in Nat /\ req[w].amount \in Nat
BY RowColumns DEF Paid, PayCommit, At, PayInv, PayProgress, TypeInv, TypeOK, RequestsOK, Request

\* No payment and no status posted or paid without the flag.
LEMMA PaymentsStep == TypeInv /\ PayInv /\ [Next]_vars => PaymentsOnlyForPosted'
<1> SUFFICES ASSUME TypeInv, PayInv, [Next]_vars PROVE PaymentsOnlyForPosted'
  OBVIOUS
<1>1. ASSUME NEW i \in InvoiceId, invoices[i].posted, ~Removed(i) PROVE invoices'[i].posted
  <2>1. Exists(i) /\ invoices[i] \in LiveRow
    BY <1>1, RowColumns
  <2>2. ASSUME NEW w \in Worker, Paid(w, i) PROVE invoices'[i].posted
    BY <1>1, <2>1, <2>2 DEF Paid, LiveRow
  <2> QED
    BY <1>1, <2>1, <2>2, Effects DEF Effect, Same, Moved, Posted, Created, LiveRow, Exists, InvoiceStatus
<1>2. ASSUME NEW p \in payments' PROVE invoices'[p.inv].posted
  <2>1. p.inv \in InvoiceId
    BY <1>2, TypeStep DEF TypeInv, TypeOK, TablesOK, Payment
  <2>2. invoices[p.inv].posted
    BY <1>2, <2>1, PaymentsCommitted, CommitsPosted DEF PayInv, PaymentsOnlyForPosted
  <2> QED
    BY <1>1, <1>2, <2>1, <2>2 DEF Removed
<1>3. ASSUME NEW i \in InvoiceId, invoices'[i].status \in {"posted", "paid"}
      PROVE  invoices'[i].posted
  <2>0. ~Removed(i)
    BY <1>3, AbsentFields DEF Removed, InvoiceStatus
  <2>1. CASE Same(i)
    BY <1>1, <1>3, <2>0, <2>1 DEF Same, PayInv, PaymentsOnlyForPosted
  <2>2. CASE Moved(i)
    BY <1>3, <2>2, RowColumns DEF Moved, LiveRow
  <2>3. CASE Posted(i)
    BY <2>3, RowColumns DEF Posted, LiveRow
  <2>4. ASSUME NEW w \in Worker, Paid(w, i) PROVE invoices'[i].posted
    BY <1>1, <2>0, <2>4, CommitsPosted
  <2>5. CASE Created(i)
    BY <1>3, <2>5 DEF Created
  <2> QED
    BY <2>0, <2>1, <2>2, <2>3, <2>4, <2>5, Effects DEF Effect
<1> QED
  BY <1>2, <1>3 DEF PaymentsOnlyForPosted

\* The trigger stores a sum of payments that are there, so neither the amount
\* nor the status it derives from it is ahead of them.
LEMMA AmountsStep ==
  TypeInv /\ PayInv /\ [Next]_vars => PaidWithinPayments' /\ PaidMeansFullyPaid'
<1> SUFFICES ASSUME TypeInv, PayInv, [Next]_vars, NEW i \in InvoiceId
             PROVE  /\ invoices'[i].paid <= paidTotal'[i]
                    /\ invoices'[i].status = "paid" => paidTotal'[i] >= invoices'[i].total
  BY DEF PaidWithinPayments, PaidMeansFullyPaid
<1>0. /\ invoices[i].paid <= paidTotal[i]
      /\ invoices[i].status = "paid" => paidTotal[i] >= invoices[i].total
      /\ paidTotal[i] \in Nat /\ paidTotal'[i] \in Nat
      /\ invoices[i].total \in Nat /\ invoices[i].paid \in Nat
  BY RowFields, TypeStep DEF PayInv, PaidWithinPayments, PaidMeansFullyPaid, TypeInv, TypeOK, TablesOK
<1>1. CASE Same(i)
  BY <1>0, <1>1 DEF Same
<1>2. CASE Moved(i)
  BY <1>0, <1>2, RowColumns DEF Moved, LiveRow
<1>3. CASE Posted(i)
  BY <1>0, <1>3, RowColumns DEF Posted, LiveRow
<1>4. ASSUME NEW w \in Worker, Paid(w, i)
      PROVE  /\ invoices'[i].paid <= paidTotal'[i]
             /\ invoices'[i].status = "paid" => paidTotal'[i] >= invoices'[i].total
  <2>1. /\ invoices'[i].paid = req[w].sum /\ invoices'[i].total = invoices[i].total
        /\ invoices'[i].status = PaidStatus(i, req[w].sum)
        /\ paidTotal'[i] = paidTotal[i] + req[w].amount
    BY <1>4, CommitsPosted DEF Paid, LiveRow
  <2> QED
    BY <1>0, <1>4, <2>1, CommitsPosted DEF PaidStatus
<1>5. CASE Removed(i)
  BY <1>0, <1>5, AbsentFields DEF Removed, InvoiceStatus
<1>6. CASE Created(i)
  BY <1>0, <1>6 DEF Created
<1> QED
  BY <1>1, <1>2, <1>3, <1>4, <1>5, <1>6, Effects DEF Effect

\* What a worker has read stays worth what it was while the others act.
LEMMA PayProgressKept ==
  ASSUME TypeInv, PayInv, [Next]_vars, NEW w \in Worker, PostProgress(req[w]), req'[w] = req[w]
  PROVE  PayProgress(req[w])'
<1> DEFINE r == req[w]
           i == r.inv
<1>0. r \in Request /\ HoldsIds(r) /\ r' = r /\ PayProgress(r)
  BY DEF TypeInv, TypeOK, RequestsOK, PayInv
<1> SUFFICES ASSUME r.pc \in {"pay_sum", "pay_commit"}
             PROVE  /\ Exists(i)' => invoices'[i].posted
                    /\ r.pc = "pay_commit" => r.sum <= paidTotal'[i] + r.amount
  BY <1>0 DEF PayProgress, Exists
<1>1. i \in InvoiceId /\ invoices[i].status # "none" /\ paidTotal[i] \in Nat
  BY <1>0 DEF HoldsIds, PostProgress, TypeInv, TypeOK, TablesOK
<1>2. Exists(i) => invoices[i].posted /\ invoices[i] \in LiveRow
  BY <1>0, <1>1, RowColumns DEF PayProgress
<1>3. ASSUME NEW v \in Worker, Paid(v, i)
      PROVE  /\ invoices'[i].posted
             /\ paidTotal'[i] = paidTotal[i] + req[v].amount /\ req[v].amount \in Nat
  BY <1>1, <1>3, CommitsPosted DEF Paid, LiveRow
<1>4. CASE Removed(i)
  BY <1>1, <1>4, AbsentFields DEF Removed, At, Exists
<1>5. CASE Same(i) \/ Moved(i) \/ Posted(i)
  BY <1>0, <1>2, <1>5 DEF Same, Moved, Posted, LiveRow, Exists, PayProgress
<1>6. ASSUME NEW v \in Worker, Paid(v, i)
      PROVE  /\ Exists(i)' => invoices'[i].posted
             /\ r.pc = "pay_commit" => r.sum <= paidTotal'[i] + r.amount
  BY <1>0, <1>1, <1>3, <1>6 DEF PayProgress, Request
<1> QED
  BY <1>1, <1>4, <1>5, <1>6, Effects DEF Effect, Created

\* Of the steps of a request, PaySum alone reads for a payment's commit.
LEMMA PayProgressStep ==
  ASSUME TypeInv, PayInv, NEW w \in Worker, Proceed(w) PROVE PayProgress(req[w])'
<1> DEFINE r == req[w]
           n == req'[w]
<1>0. r \in Request /\ HoldsIds(r) /\ PayProgress(r) /\ req \in [Worker -> Request]
  BY DEF TypeInv, TypeOK, RequestsOK, PayInv
<1>1. ASSUME n.pc \notin {"pay_sum", "pay_commit"} PROVE PayProgress(req[w])'
  BY <1>1 DEF PayProgress
<1>2. CASE PaySum(w)
  <2>1. /\ r.pc = "pay_sum" /\ n.inv = r.inv /\ n.amount = r.amount
        /\ n.sum = paidTotal[r.inv] + r.amount
        /\ UNCHANGED <<invoices, paidTotal>>
    BY <1>0, <1>2 DEF PaySum, At, Request
  <2>2. paidTotal[r.inv] + r.amount \in Nat
    BY <1>0, <2>1 DEF HoldsIds, Request, TypeInv, TypeOK, TablesOK
  <2> QED
    BY <1>0, <2>1, <2>2 DEF PayProgress, Exists
<1>3. CASE PayCommit(w) \/ PostPost(w) \/ PostBalance(w) \/ PayPost(w)
  <2>1. n.pc \in {"pay_create", "post_balance", "post_mark", "pay_balance"}
    BY <1>0, <1>3 DEF PayCommit, PostPost, PostBalance, PayPost, PostJournal, Continue, Request
  <2> QED
    BY <1>1, <2>1
<1>4. CASE PostCreate(w) \/ PayCreate(w) \/ PostReadLines(w)
  <2>1. n.pc \in {"post_post", "pay_post", "post_create"}
    <3>1. ASSUME NEW pc \in Step, NEW entry, CreateJournal(w, entry, pc) PROVE n.pc = pc
      BY <1>0, <3>1 DEF CreateJournal, Request
    <3>2. CASE PostCreate(w)
      BY <3>1, <3>2 DEF PostCreate, Step
    <3>3. CASE PayCreate(w)
      BY <3>1, <3>3 DEF PayCreate, Step
    <3>4. CASE PostReadLines(w)
      BY <1>0, <3>4 DEF PostReadLines, Request
    <3> QED
      BY <1>4, <3>2, <3>3, <3>4
  <2> QED
    BY <1>1, <2>1
<1>5. ASSUME Finish(w) PROVE PayProgress(req[w])'
  BY <1>0, <1>1, <1>5 DEF Finish, NoRequest
<1> QED
  BY <1>2, <1>3, <1>4, <1>5 DEF Proceed, SubmitUpdate, ApproveUpdate, RejectUpdate,
     RecallUpdate, WriteInvoices, DeleteExec, PostMark, PayBalance

\* Every step keeps the inductive invariant of the payments.
LEMMA PayStep == TypeInv /\ PostInv /\ PayInv /\ [Next]_vars => PayInv'
<1> SUFFICES ASSUME TypeInv, PostInv, PayInv, [Next]_vars, NEW v \in Worker
             PROVE  PayProgress(req[v])'
  BY PaymentsStep, AmountsStep DEF PayInv
<1>0. PostProgress(req[v]) /\ req \in [Worker -> Request]
  BY DEF PostInv, TypeInv, TypeOK, RequestsOK
<1>1. CASE req'[v] = req[v]
  BY <1>0, <1>1, PayProgressKept
<1>2. ASSUME Abort(v) PROVE PayProgress(req[v])'
  BY <1>0, <1>2 DEF Abort, Finish, NoRequest, PayProgress
<1>3. ASSUME NEW i \in InvoiceId, Begin(v, i) PROVE PayProgress(req[v])'
  <2>1. ASSUME NEW pc \in FirstSteps \ {"pay_sum"}, NEW a \in Nat, Receive(v, i, pc, a)
        PROVE  PayProgress(req[v])'
    BY <1>0, <2>1 DEF Receive, NoRequest, FirstSteps, PayProgress
  <2>2. ASSUME NEW a \in Nat, RecordPayment(v, i, a) PROVE PayProgress(req[v])'
    <3>1. invoices[i].posted /\ UNCHANGED invoices
      BY <2>2 DEF RecordPayment, Receive, PayInv, PaymentsOnlyForPosted
    <3>2. req'[v].pc = "pay_sum" /\ req'[v].inv = i
      BY <1>0, <2>2 DEF RecordPayment, Receive, NoRequest
    <3> QED
      BY <3>1, <3>2 DEF PayProgress
  <2>3. invoices[i].total \in Nat
    BY RowFields DEF TypeInv, TypeOK, TablesOK
  <2>4. CASE \E a \in 0 .. invoices[i].total + 1 : RecordPayment(v, i, a)
    BY <2>2, <2>3, <2>4
  <2>5. CASE PostInvoice(v, i)
    BY <2>1, <2>3, <2>5 DEF PostInvoice, FirstSteps
  <2> QED
    BY <1>3, <2>1, <2>4, <2>5 DEF Begin, SubmitForApproval, ApproveInvoice, RejectInvoice,
       RecallInvoice, DeleteInvoice, FirstSteps
<1>4. ASSUME NEW w \in Worker, w # v, Proceed(w) \/ Abort(w) \/ \E i \in InvoiceId : Begin(w, i)
      PROVE  req'[v] = req[v]
  BY <1>0, <1>4, ProceedAlone, BeginReceives DEF Abort, Finish, Receive
<1> QED
  BY <1>1, <1>2, <1>3, <1>4, PayProgressStep DEF Next, Serve, CreateInvoice, vars

\* At the start there is neither a row nor a payment.
LEMMA PayInit == Init => PayInv
<1> SUFFICES ASSUME Init PROVE PayInv
  OBVIOUS
<1>1. PaymentsOnlyForPosted /\ PaidWithinPayments /\ PaidMeansFullyPaid
  BY AbsentFields DEF Init, PaymentsOnlyForPosted, PaidWithinPayments, PaidMeansFullyPaid, InvoiceStatus
<1>2. ASSUME NEW w \in Worker PROVE PayProgress(req[w])
  BY DEF Init, NoRequest, PayProgress
<1> QED
  BY <1>1, <1>2 DEF PayInv

\* The two invariants of the workers, for every reachable state.
LEMMA WorkersProgress == Spec => [](TypeInv /\ PostInv /\ PayInv)
<1>1. Init => PostInv
  <2> SUFFICES ASSUME Init PROVE PostInv
    OBVIOUS
  <2>1. PostedIsBacked
    BY AbsentFields DEF Init, PostedIsBacked
  <2>2. ASSUME NEW w \in Worker PROVE PostProgress(req[w])
    BY DEF Init, NoRequest, PostProgress, PostSteps
  <2> QED
    BY <2>1, <2>2 DEF PostInv
<1> QED
  BY <1>1, TypeInit, TypeStep, PostStep, PayInit, PayStep, PTL DEF Spec

\* Whatever requests overlap or die: payments and the statuses posted and paid
\* are only seen on an invoice that was posted, although RecordPayment checked
\* its status long before the payment is committed.
THEOREM PaymentsFollowPosting == Spec => []PaymentsOnlyForPosted
<1>1. PayInv => PaymentsOnlyForPosted
  BY DEF PayInv
<1> QED
  BY <1>1, WorkersProgress, PTL

\* Triggers that miss each other's payments leave amount_paid too low, never
\* too high.
THEOREM PaidNeverAhead == Spec => []PaidWithinPayments
<1>1. PayInv => PaidWithinPayments
  BY DEF PayInv
<1> QED
  BY <1>1, WorkersProgress, PTL

\* The status paid is never given before the payments cover the total.
THEOREM PaidIsPaid == Spec => []PaidMeansFullyPaid
<1>1. PayInv => PaidMeansFullyPaid
  BY DEF PayInv
<1> QED
  BY <1>1, WorkersProgress, PTL

-----------------------------------------------------------------------------
(* The entries of GL-2 that stand for payments                             *)

PaymentRow(r) == [id |-> r.pay, inv |-> r.inv, amount |-> r.amount]

\* A payment's identifier is the worker's alone until its entry is created.
OwnPayments ==
  /\ \A v, w \in Worker : v # w /\ req[v].pay # Nil => req[v].pay # req[w].pay
  /\ \A w \in Worker : req[w].pc \in {"pay_commit", "pay_create"}
                          => \A j \in JournalId : journals[j].pay # req[w].pay

\* The inductive invariant: PaymentEntriesBacked, and the same of the entry
\* that a worker is about to create.
EntryInv ==
  /\ OwnPayments
  /\ \A w \in Worker : req[w].pc = "pay_create" /\ Exists(req[w].inv)
                          => PaymentRow(req[w]) \in payments
  /\ \A j \in JournalId :
        journals[j].type = "ap_payment" =>
           /\ journals[j].inv \in InvoiceId /\ invoices[journals[j].inv].status # "none"
           /\ Exists(journals[j].inv) =>
                 [id |-> journals[j].pay, inv |-> journals[j].inv,
                  amount |-> journals[j].credit] \in payments
           /\ \A k \in JournalId :
                 journals[k].type = "ap_payment" /\ journals[k].pay = journals[j].pay => k = j

\* What a step does to a request, as far as its payment is concerned.
RequestEffect(v) ==
  \/ req'[v] = req[v]
  \/ /\ req'[v].pc \notin {"pay_commit", "pay_create"}
     /\ req'[v].pay \in {req[v].pay, Nil}
  \/ /\ PaySum(v) /\ req'[v].pc = "pay_commit" /\ req'[v].pay \notin UsedPayments
     /\ \A w \in Worker \ {v} : req'[w] = req[w]
  \/ /\ PayCommit(v) /\ req'[v].pc = "pay_create"
     /\ req'[v].pay = req[v].pay /\ PaymentRow(req[v])' = PaymentRow(req[v])

\* There is no other way for a step to touch a request.
LEMMA RequestEffects ==
  ASSUME TypeInv, [Next]_vars, NEW v \in Worker PROVE RequestEffect(v)
<1> DEFINE r == req[v]
           n == req'[v]
<1>0. r \in Request /\ HoldsIds(r) /\ req \in [Worker -> Request]
  BY DEF TypeInv, TypeOK, RequestsOK
<1>1. ASSUME Finish(v) PROVE RequestEffect(v)
  BY <1>0, <1>1 DEF Finish, NoRequest, RequestEffect
<1>2. ASSUME NEW pc \in Step \ {"pay_commit", "pay_create"}, Continue(v, pc) PROVE RequestEffect(v)
  BY <1>0, <1>2 DEF Continue, Request, RequestEffect
<1>3. ASSUME NEW pc \in Step \ {"pay_commit", "pay_create"}, NEW entry, CreateJournal(v, entry, pc)
      PROVE  RequestEffect(v)
  BY <1>0, <1>3 DEF CreateJournal, Request, RequestEffect
<1>4. ASSUME Proceed(v) PROVE RequestEffect(v)
  <2>1. CASE PaySum(v)
    <3>1. PICK p \in PaymentId \ UsedPayments :
             req' = [req EXCEPT ![v] = [@ EXCEPT !.pc = "pay_commit", !.pay = p,
                                              !.sum = paidTotal[r.inv] + r.amount]]
      BY <2>1 DEF PaySum
    <3>2. n.pc = "pay_commit" /\ n.pay = p /\ \A w \in Worker \ {v} : req'[w] = req[w]
      BY <1>0, <3>1 DEF Request
    <3> QED
      BY <2>1, <3>1, <3>2 DEF RequestEffect
  <2>2. CASE PayCommit(v)
    <3>1. n = [r EXCEPT !.pc = "pay_create"]
      BY <1>0, <2>2 DEF PayCommit, Continue
    <3> QED
      BY <1>0, <2>2, <3>1 DEF Request, RequestEffect, PaymentRow
  <2>3. CASE PostReadLines(v)
    BY <1>0, <2>3 DEF PostReadLines, Request, RequestEffect
  <2>4. CASE PostCreate(v) \/ PayCreate(v)
    BY <1>3, <2>4 DEF PostCreate, PayCreate, Step
  <2>5. CASE PostPost(v) \/ PayPost(v) \/ PostBalance(v)
    BY <1>2, <2>5 DEF PostPost, PayPost, PostBalance, PostJournal, Step
  <2> QED
    BY <1>1, <1>4, <2>1, <2>2, <2>3, <2>4, <2>5 DEF Proceed, SubmitUpdate, ApproveUpdate,
       RejectUpdate, RecallUpdate, WriteInvoices, DeleteExec, PostMark, PayBalance
<1>5. ASSUME NEW i \in InvoiceId, Begin(v, i) PROVE RequestEffect(v)
  <2>1. PICK pc \in FirstSteps, a \in Nat : Receive(v, i, pc, a)
    BY <1>5, BeginReceives
  <2> QED
    BY <1>0, <2>1 DEF Receive, FirstSteps, NoRequest, RequestEffect
<1>6. ASSUME NEW w \in Worker, w # v, Proceed(w) \/ Abort(w) \/ \E i \in InvoiceId : Begin(w, i)
      PROVE  req'[v] = req[v]
  BY <1>0, <1>6, ProceedAlone, BeginReceives DEF Abort, Finish, Receive
<1> QED
  BY <1>1, <1>4, <1>5, <1>6 DEF Next, Serve, CreateInvoice, Abort, vars, RequestEffect

\* What a step does to an entry of GL-2.
NewEntry(w, j) ==
  /\ PayCreate(w) /\ req'[w].pc = "pay_post"
  /\ journals'[j].inv = req[w].inv /\ journals'[j].pay = req[w].pay
  /\ journals'[j].credit = req[w].amount
  /\ \A k \in JournalId \ {j} : journals'[k] = journals[k]

EntryEffect(j) ==
  \/ /\ journals'[j].type = journals[j].type /\ journals'[j].inv = journals[j].inv
     /\ journals'[j].pay = journals[j].pay /\ journals'[j].credit = journals[j].credit
  \/ journals'[j].type = "ap_invoice" /\ journals'[j].pay = Nil
  \/ \E w \in Worker : NewEntry(w, j)

\* There is no other way for a step to touch an entry.
LEMMA EntryEffects ==
  ASSUME TypeInv, [Next]_vars, NEW j \in JournalId PROVE EntryEffect(j)
<1>0. journals \in [JournalId -> Journal] /\ req \in [Worker -> Request]
  BY DEF TypeInv, TypeOK, RemotesOK, RequestsOK
<1>1. CASE UNCHANGED journals
  BY <1>1 DEF EntryEffect
<1>2. ASSUME NEW w \in Worker, NEW pc, PostJournal(w, pc) PROVE EntryEffect(j)
  BY <1>0, <1>2 DEF PostJournal, Journal, EntryEffect
<1>3. ASSUME NEW w \in Worker, PostCreate(w) PROVE EntryEffect(j)
  BY <1>0, <1>3 DEF PostCreate, CreateJournal, EntryEffect
<1>4. ASSUME NEW w \in Worker, PayCreate(w) PROVE EntryEffect(j)
  <2>1. PICK k \in JournalId :
          /\ journals' = [journals EXCEPT ![k] =
                [type |-> "ap_payment", inv |-> req[w].inv, pay |-> req[w].pay,
                 debit |-> req[w].amount, credit |-> req[w].amount, posted |-> FALSE]]
          /\ req' = [req EXCEPT ![w] = [@ EXCEPT !.pc = "pay_post", !.journal = k]]
    BY <1>4 DEF PayCreate, CreateJournal
  <2>2. req'[w].pc = "pay_post"
    BY <1>0, <2>1 DEF Request
  <2>3. CASE k = j
    BY <1>0, <1>4, <2>1, <2>2, <2>3 DEF EntryEffect, NewEntry
  <2>4. CASE k # j
    BY <1>0, <2>1, <2>4 DEF EntryEffect
  <2> QED
    BY <2>3, <2>4
<1>5. ASSUME NEW w \in Worker, Proceed(w) PROVE EntryEffect(j)
  BY <1>1, <1>2, <1>3, <1>4, <1>5 DEF Proceed, SubmitUpdate, ApproveUpdate, RejectUpdate,
     RecallUpdate, WriteInvoices, DeleteExec, PostReadLines, PostPost, PostBalance,
     PostMark, PaySum, PayCommit, PayPost, PayBalance, UpdateBalance, remotes
<1>6. ASSUME NEW w \in Worker, NEW i \in InvoiceId, Begin(w, i) PROVE EntryEffect(j)
  BY <1>1, <1>6, BeginReceives DEF Receive
<1> QED
  BY <1>1, <1>5, <1>6 DEF Next, Serve, CreateInvoice, Abort, vars

\* A payment row stays as long as its invoice.
LEMMA PaymentsStay ==
  ASSUME TypeInv, [Next]_vars, NEW p \in payments, Exists(p.inv)'
  PROVE  p \in payments'
<1>0. \A w \in Worker : req[w] \in Request /\ HoldsIds(req[w])
  BY DEF TypeInv, TypeOK, RequestsOK
<1>1. ASSUME NEW w \in Worker, DeleteExec(w) PROVE p \in payments'
  <2>1. CASE Deletable(req[w].inv) /\ req[w].inv = p.inv
    <3>1. invoices'[p.inv] = Absent("deleted")
      BY <1>0, <1>1, <2>1 DEF DeleteExec, At, HoldsIds, DeleteRow, TypeInv, TypeOK, TablesOK
    <3> QED
      BY <3>1, AbsentFields DEF Exists
  <2> QED
    BY <1>1, <2>1 DEF DeleteExec
<1>2. ASSUME NEW w \in Worker, Proceed(w) PROVE p \in payments'
  BY <1>1, <1>2 DEF Proceed, SubmitUpdate, ApproveUpdate, RejectUpdate, RecallUpdate,
     WriteInvoices, PostReadLines, PostCreate, PostPost, PostBalance, PostMark, PaySum, PayCommit,
     PayCreate, PayPost, PayBalance, CreateJournal, PostJournal, UpdateBalance
<1>3. ASSUME NEW w \in Worker, NEW k \in InvoiceId, Begin(w, k) PROVE p \in payments'
  BY <1>3, BeginReceives DEF Receive
<1> QED
  BY <1>2, <1>3 DEF Next, Serve, CreateInvoice, Abort, vars

\* Nobody else gets an identifier that a worker is to write an entry for.
LEMMA OwnPaymentsStep == TypeInv /\ EntryInv /\ [Next]_vars => OwnPayments'
<1> SUFFICES ASSUME TypeInv, EntryInv, [Next]_vars PROVE OwnPayments'
  OBVIOUS
<1>0. /\ \A v, w \in Worker : v # w /\ req[v].pay # Nil => req[v].pay # req[w].pay
      /\ \A w \in Worker : req[w].pc \in {"pay_commit", "pay_create"}
                              => \A j \in JournalId : journals[j].pay # req[w].pay
      /\ \A w \in Worker : HoldsIds(req[w]) /\ HoldsIds(req[w])'
  BY TypeStep DEF EntryInv, OwnPayments, TypeInv, TypeOK, RequestsOK
<1>1. ASSUME NEW v \in Worker, PaySum(v), req'[v].pay \notin UsedPayments,
             \A w \in Worker \ {v} : req'[w] = req[w]
      PROVE  OwnPayments'
  <2>1. \A w \in Worker : req'[v].pay # req[w].pay
    BY <1>1 DEF UsedPayments
  <2>2. \A j \in JournalId : req'[v].pay # journals[j].pay /\ journals'[j] = journals[j]
    BY <1>1 DEF UsedPayments, PaySum
  <2> QED
    BY <1>0, <1>1, <2>1, <2>2 DEF OwnPayments
<1>2. ASSUME \A v \in Worker : req'[v].pay \in {req[v].pay, Nil},
             \A v \in Worker : req'[v].pc \in {"pay_commit", "pay_create"}
                => req'[v].pay = req[v].pay /\ req[v].pc \in {"pay_commit", "pay_create"}
      PROVE  OwnPayments'
  <2>1. ASSUME NEW v \in Worker, NEW w \in Worker, v # w, req'[v].pay # Nil
        PROVE  req'[v].pay # req'[w].pay
    BY <1>0, <1>2, <2>1
  <2>2. ASSUME NEW v \in Worker, req'[v].pc \in {"pay_commit", "pay_create"}, NEW j \in JournalId
        PROVE  journals'[j].pay # req'[v].pay
    <3>1. req'[v].pay \in PaymentId /\ Nil \notin PaymentId
      BY <1>0, <2>2, NilAssumption DEF HoldsIds
    <3>2. ASSUME NEW w \in Worker, NewEntry(w, j) PROVE journals'[j].pay # req'[v].pay
      <4>1. w # v
        BY <2>2, <3>2 DEF NewEntry
      <4> QED
        BY <1>0, <1>2, <2>2, <3>1, <3>2, <4>1 DEF NewEntry
    <3> QED
      BY <1>0, <1>2, <2>2, <3>1, <3>2, EntryEffects DEF EntryEffect
  <2> QED
    BY <2>1, <2>2 DEF OwnPayments
<1>3. CASE \E v \in Worker : /\ PaySum(v) /\ req'[v].pay \notin UsedPayments
                             /\ \A w \in Worker \ {v} : req'[w] = req[w]
  BY <1>1, <1>3
<1>4. ASSUME NEW v \in Worker, ~ \E w \in Worker : /\ PaySum(w) /\ req'[w].pay \notin UsedPayments
                                                   /\ \A u \in Worker \ {w} : req'[u] = req[u]
      PROVE  /\ req'[v].pay \in {req[v].pay, Nil}
             /\ req'[v].pc \in {"pay_commit", "pay_create"}
                   => req'[v].pay = req[v].pay /\ req[v].pc \in {"pay_commit", "pay_create"}
  BY <1>4, RequestEffects DEF RequestEffect, PayCommit, At
<1> QED
  BY <1>2, <1>3, <1>4

\* What a worker is about to write an entry for is there, or its invoice gone.
LEMMA AwaitingStep ==
  ASSUME TypeInv, PostInv, EntryInv, [Next]_vars, NEW v \in Worker,
         req'[v].pc = "pay_create", Exists(req[v].inv)'
  PROVE  PaymentRow(req[v])' \in payments'
<1>1. CASE PayCommit(v) /\ PaymentRow(req[v])' = PaymentRow(req[v])
  BY <1>1 DEF PayCommit, PaymentRow
<1>2. CASE req'[v] = req[v]
  <2>1. req[v].inv \in InvoiceId /\ invoices[req[v].inv].status # "none" /\ req[v].pc = "pay_create"
    BY <1>2 DEF PostInv, PostProgress, TypeInv, TypeOK, RequestsOK, HoldsIds
  <2>2. Exists(req[v].inv) /\ Exists(req[v].inv)'
    BY <1>2, <2>1, RowsKept DEF RowKept, Exists
  <2>3. PaymentRow(req[v]) \in payments /\ PaymentRow(req[v]).inv = req[v].inv
    BY <2>1, <2>2 DEF EntryInv, PaymentRow
  <2>4. PaymentRow(req[v]) \in payments'
    BY <1>2, <2>2, <2>3, PaymentsStay DEF Exists
  <2> QED
    BY <1>2, <2>4 DEF PaymentRow
<1> QED
  BY <1>1, <1>2, RequestEffects DEF RequestEffect

\* An entry is created for a payment that is there, and only one.
LEMMA EntriesStep ==
  ASSUME TypeInv, PostInv, EntryInv, [Next]_vars, NEW j \in JournalId,
         journals'[j].type = "ap_payment"
  PROVE  /\ journals'[j].inv \in InvoiceId /\ invoices'[journals'[j].inv].status # "none"
         /\ Exists(journals[j].inv)' =>
               [id |-> journals'[j].pay, inv |-> journals'[j].inv,
                amount |-> journals'[j].credit] \in payments'
         /\ \A k \in JournalId :
               journals'[k].type = "ap_payment" /\ journals'[k].pay = journals'[j].pay => k = j
<1> DEFINE Old(k) == /\ journals'[k].type = journals[k].type /\ journals'[k].inv = journals[k].inv
                     /\ journals'[k].pay = journals[k].pay /\ journals'[k].credit = journals[k].credit
           Entry(k) == [id |-> journals[k].pay, inv |-> journals[k].inv,
                        amount |-> journals[k].credit]
           Stands(k) == /\ journals'[k].inv \in InvoiceId
                        /\ invoices'[journals'[k].inv].status # "none"
                        /\ Exists(journals[k].inv)' => Entry(k)' \in payments'
<1>1. ASSUME NEW k \in JournalId, journals'[k].type = "ap_payment"
      PROVE  Old(k) \/ \E w \in Worker : NewEntry(w, k)
  BY <1>1, EntryEffects DEF EntryEffect
<1>2. ASSUME Old(j) PROVE Stands(j)
  <2>1. /\ journals[j].inv \in InvoiceId /\ invoices[journals[j].inv].status # "none"
        /\ Exists(journals[j].inv) => Entry(j) \in payments
    BY <1>2 DEF EntryInv
  <2>2. /\ invoices'[journals[j].inv].status # "none"
        /\ invoices'[journals[j].inv].status \in InvoiceStatus => Exists(journals[j].inv)
    BY <2>1, RowsKept DEF RowKept, Exists
  <2>3. ASSUME invoices'[journals[j].inv].status \in InvoiceStatus PROVE Entry(j) \in payments'
    <3>1. Entry(j) \in payments /\ Entry(j).inv = journals[j].inv
      BY <2>1, <2>2, <2>3
    <3> HIDE DEF Entry
    <3> QED
      BY <2>3, <3>1, PaymentsStay DEF Exists
  <2> QED
    BY <1>2, <2>1, <2>2, <2>3 DEF Exists
<1>3. ASSUME NEW w \in Worker, NewEntry(w, j) PROVE Stands(j)
  <2>1. /\ req[w].pc = "pay_create" /\ req[w].inv \in InvoiceId
        /\ invoices[req[w].inv].status # "none"
        /\ UNCHANGED <<invoices, payments>>
    BY <1>3 DEF NewEntry, PayCreate, CreateJournal, At, PostInv, PostProgress, TypeInv, TypeOK,
       RequestsOK, HoldsIds
  <2>2. Exists(req[w].inv) => PaymentRow(req[w]) \in payments
    BY <2>1 DEF EntryInv
  <2> QED
    BY <1>3, <2>1, <2>2 DEF NewEntry, PaymentRow, Exists
<1>4. ASSUME NEW k \in JournalId, NEW m \in JournalId, k # m, Old(k), journals[k].type = "ap_payment",
             NEW w \in Worker, NewEntry(w, m)
      PROVE  journals'[k].pay # journals'[m].pay
  BY <1>4 DEF NewEntry, PayCreate, At, EntryInv, OwnPayments
<1>5. ASSUME NEW k \in JournalId, journals'[k].type = "ap_payment",
             journals'[k].pay = journals'[j].pay, k # j
      PROVE  FALSE
  <2>1. CASE Old(k) /\ Old(j)
    BY <1>5, <2>1 DEF EntryInv
  <2>2. CASE \E w \in Worker : NewEntry(w, k)
    <3>1. Old(j)
      BY <1>5, <2>2 DEF NewEntry
    <3> QED
      BY <1>4, <1>5, <2>2, <3>1
  <2>3. CASE \E w \in Worker : NewEntry(w, j)
    <3>1. Old(k)
      BY <1>5, <2>3 DEF NewEntry
    <3> QED
      BY <1>4, <1>5, <2>3, <3>1
  <2> QED
    BY <1>1, <1>5, <2>1, <2>2, <2>3
<1> QED
  BY <1>1, <1>2, <1>3, <1>5

\* Every step keeps the inductive invariant of the entries.
LEMMA EntryStep == TypeInv /\ PostInv /\ EntryInv /\ [Next]_vars => EntryInv'
<1> SUFFICES ASSUME TypeInv, PostInv, EntryInv, [Next]_vars PROVE EntryInv'
  OBVIOUS
<1>1. OwnPayments'
  BY OwnPaymentsStep
<1>2. ASSUME NEW w \in Worker, req'[w].pc = "pay_create", Exists(req[w].inv)'
      PROVE  PaymentRow(req[w])' \in payments'
  BY <1>2, AwaitingStep
<1> QED
  BY <1>1, <1>2, EntriesStep DEF EntryInv

\* Every entry of a payment has its row, and every worker its own payment.
LEMMA EntriesInvariant == Spec => []EntryInv
<1>1. Init => EntryInv
  BY DEF Init, NoRequest, NoJournal, EntryInv, OwnPayments
<1> QED
  BY <1>1, WorkersProgress, EntryStep, PTL DEF Spec

\* An entry of type ap_payment in GL-2 stands for a payment row of its amount,
\* as long as the invoice is there, and is the only one that does: however
\* many payments of an invoice are recorded at the same time, and die.
THEOREM EntriesStandForPayments == Spec => []PaymentEntriesBacked
<1>1. EntryInv => PaymentEntriesBacked
  BY DEF EntryInv, PaymentEntriesBacked
<1> QED
  BY <1>1, EntriesInvariant, PTL

=============================================================================
