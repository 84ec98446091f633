------------------------ MODULE InvoiceServiceProofs ------------------------
(***************************************************************************)
(* Proofs about InvoiceService, for any number of invoices, vendors,       *)
(* totals, journals, payments and concurrent requests.                     *)
(*                                                                         *)
(* Type correctness needs OpenInsertHasRow: the trigger of an open payment *)
(* insert writes the invoice row, which must not have been deleted.        *)
(* PostedIsBacked needs PostInv: the last statement of PostInvoice writes  *)
(* the flag from the worker's local variables, so the invariant says what  *)
(* GL-2 and AP-1 hold for each worker at each step of its handler.  It is  *)
(* kept by every other request because the other services take nothing     *)
(* back and a row keeps its total as long as it is there.                  *)
(***************************************************************************)
EXTENDS InvoiceService, TLAPS

\* The inductive type invariant.
TypeInv == TypeOK /\ OpenInsertHasRow

\* The tables and the other services start empty, the workers idle.
LEMMA TypeInit == Init => TypeInv
BY DEF Init, TypeInv, TypeOK, TablesOK, RemotesOK, RequestsOK, HoldsIds, OpenInsertHasRow,
       Row, NoJournal, Journal, NoRequest, Request, Step, At

\* What the type of a row says of its columns.
LEMMA AbsentFields ==
  ASSUME NEW why \in {"none", "deleted"}
  PROVE  /\ Absent(why).status = why /\ why \notin InvoiceStatus
         /\ Absent(why).total = 0 /\ Absent(why).paid = 0
         /\ Absent(why).posted = FALSE /\ Absent(why).journal = Nil
BY DEF Absent, InvoiceStatus

\* A row with a status of the enum is a row of the table.
LEMMA LiveRows ==
  ASSUME NEW r \in Row, r.status \in InvoiceStatus PROVE r \in LiveRow
BY AbsentFields DEF Row

\* The columns of a row, present or absent.
LEMMA RowFields ==
  ASSUME NEW r \in Row
  PROVE  r.total \in Nat /\ r.paid \in Nat /\ r.journal \in JournalId \cup {Nil}
<1>1. CASE r \in LiveRow
  BY <1>1 DEF LiveRow
<1>2. CASE r \notin LiveRow
  BY <1>2, AbsentFields DEF Row
<1> QED
  BY <1>1, <1>2

\* Each UPDATE of the repository keeps a row well formed.
LEMMA RowUpdates ==
  ASSUME NEW r \in LiveRow
  PROVE  /\ \A s \in InvoiceStatus : [r EXCEPT !.status = s] \in LiveRow
         /\ \A j \in JournalId :
               [r EXCEPT !.status = "posted", !.posted = TRUE, !.journal = j] \in LiveRow
         /\ \A n \in Nat, s \in InvoiceStatus : [r EXCEPT !.paid = n, !.status = s] \in LiveRow
<1>1. \A s \in InvoiceStatus : [r EXCEPT !.status = s] \in LiveRow
  BY DEF LiveRow
<1>2. \A j \in JournalId :
               [r EXCEPT !.status = "posted", !.posted = TRUE, !.journal = j] \in LiveRow
  BY DEF LiveRow, InvoiceStatus
<1>3. \A n \in Nat, s \in InvoiceStatus : [r EXCEPT !.paid = n, !.status = s] \in LiveRow
  BY DEF LiveRow
<1> QED
  BY <1>1, <1>2, <1>3

\* A statement that replaces a row by one that exists.
LEMMA OneRowChanges ==
  ASSUME invoices \in [InvoiceId -> Row], NEW i \in InvoiceId, NEW r \in LiveRow,
         invoices' = [invoices EXCEPT ![i] = r]
  PROVE  /\ invoices' \in [InvoiceId -> Row]
         /\ \A k \in InvoiceId : Exists(k) => Exists(k)'
BY DEF Row, LiveRow, Exists

\* An idle worker holds nothing.
LEMMA NoRequestOK == NoRequest \in Request /\ HoldsIds(NoRequest)
BY DEF NoRequest, Request, Step, HoldsIds

\* A step that replaces one worker's request by a well-formed one keeps
\* RequestsOK.
LEMMA OneRequestChanges ==
  ASSUME RequestsOK, NEW w \in Worker, NEW r \in Request, HoldsIds(r),
         req' = [req EXCEPT ![w] = r]
  PROVE  RequestsOK'
BY DEF RequestsOK

\* A handler hands each of its steps the identifiers that step works on.
LEMMA RequestsStep ==
  ASSUME TypeInv, NEW w \in Worker, Proceed(w) PROVE RequestsOK'
<1> DEFINE r == req[w]
<1>0. r \in Request /\ HoldsIds(r)
  BY DEF TypeInv, TypeOK, RequestsOK
<1>1. ASSUME req' = [req EXCEPT ![w] = NoRequest] PROVE RequestsOK'
  BY <1>1, NoRequestOK, OneRequestChanges DEF TypeInv, TypeOK
<1>2. CASE PostReadLines(w)
  <2> DEFINE n == [r EXCEPT !.pc = "post_create", !.debit = LineSum(r.inv)]
  <2>1. LineSum(r.inv) \in Nat
    BY <1>0, <1>2, RowFields DEF TypeInv, TypeOK, TablesOK, PostReadLines, At, LineSum, HoldsIds
  <2>2. n \in Request /\ HoldsIds(n)
    BY <1>0, <1>2, <2>1 DEF PostReadLines, At, HoldsIds, Request, Step
  <2> QED
    BY <1>2, <2>2, OneRequestChanges DEF TypeInv, TypeOK, PostReadLines
<1>3. ASSUME NEW j \in JournalId, NEW pc \in {"post_post", "pay_post"},
             ~At(w, "idle"), req' = [req EXCEPT ![w] = [@ EXCEPT !.pc = pc, !.journal = j]]
      PROVE RequestsOK'
  <2> DEFINE n == [r EXCEPT !.pc = pc, !.journal = j]
  <2>2. n \in Request /\ HoldsIds(n)
    BY <1>0, <1>3 DEF At, HoldsIds, Request, Step
  <2> QED
    BY <1>3, <2>2, OneRequestChanges DEF TypeInv, TypeOK
<1>4. ASSUME NEW pc \in Step, ~At(w, "idle"), Continue(w, pc),
             HoldsIds([r EXCEPT !.pc = pc])
      PROVE RequestsOK'
  <2> DEFINE n == [r EXCEPT !.pc = pc]
  <2>2. n \in Request /\ HoldsIds(n)
    BY <1>0, <1>4 DEF Request
  <2>3. req' = [req EXCEPT ![w] = n]
    BY <1>4 DEF Continue, TypeInv, TypeOK, RequestsOK, Request
  <2> QED
    BY <2>3, <2>2, OneRequestChanges DEF TypeInv, TypeOK
<1>5. CASE PaySum(w)
  <2> PICK p \in PaymentId : req' = [req EXCEPT ![w] = [@ EXCEPT !.pc = "pay_commit", !.pay = p,
                                              !.sum = paidTotal[r.inv] + r.amount]]
    BY <1>5 DEF PaySum
  <2> DEFINE n == [r EXCEPT !.pc = "pay_commit", !.pay = p, !.sum = paidTotal[r.inv] + r.amount]
  <2>1. paidTotal[r.inv] + r.amount \in Nat
    BY <1>0, <1>5 DEF TypeInv, TypeOK, TablesOK, PaySum, At, HoldsIds, Request
  <2>2. n \in Request /\ HoldsIds(n)
    BY <1>0, <1>5, <2>1 DEF PaySum, At, HoldsIds, Request, Step
  <2> QED
    BY <2>2, OneRequestChanges DEF TypeInv, TypeOK
<1>6. CASE PostCreate(w) \/ PayCreate(w)
  BY <1>3, <1>6 DEF PostCreate, PayCreate, CreateJournal, At
<1>7. CASE PostPost(w) \/ PayPost(w) \/ PostBalance(w) \/ PayCommit(w)
  BY <1>0, <1>4, <1>7 DEF PostPost, PayPost, PostBalance, PayCommit, PostJournal, At, HoldsIds, Request, Step
<1>8. CASE PayBalance(w) \/ DeleteExec(w) \/ PostMark(w) \/ SubmitUpdate(w) \/ ApproveUpdate(w) \/ RejectUpdate(w) \/ RecallUpdate(w)
  BY <1>1, <1>8 DEF PayBalance, DeleteExec, PostMark, SubmitUpdate, ApproveUpdate, RejectUpdate, RecallUpdate, WriteInvoices, Finish
<1> QED
  BY <1>2, <1>5, <1>6, <1>7, <1>8 DEF Proceed

\* Rows stay well formed, and only DeleteExec removes one.
LEMMA RowsStep ==
  ASSUME TypeInv, NEW w \in Worker, Proceed(w)
  PROVE  /\ TablesOK'
         /\ \A i \in InvoiceId : Exists(i) => Exists(i)' \/ (DeleteExec(w) /\ i = req[w].inv)
<1> DEFINE r == req[w]
           Kept == \A i \in InvoiceId : Exists(i) => Exists(i)'
<1>0. r \in Request /\ HoldsIds(r)
  BY DEF TypeInv, TypeOK, RequestsOK
<1>t. TablesOK
  BY DEF TypeInv, TypeOK
<1>1. CASE SubmitUpdate(w) \/ ApproveUpdate(w) \/ RejectUpdate(w) \/ RecallUpdate(w)
  <2>1. PICK s \in InvoiceStatus : WriteInvoices(w, UpdateStatus(r.inv, s)) /\ r.inv \in InvoiceId
    BY <1>0, <1>1 DEF SubmitUpdate, ApproveUpdate, RejectUpdate, RecallUpdate,
                      ApproveRow, InvoiceStatus, At, HoldsIds
  <2>2. invoices' \in [InvoiceId -> Row] /\ Kept
    <3>1. CASE Exists(r.inv)
      <4> DEFINE n == [invoices[r.inv] EXCEPT !.status = s]
      <4>1. n \in LiveRow
        BY <1>t, <2>1, <3>1, LiveRows, RowUpdates DEF TablesOK, Exists
      <4>2. invoices' = [invoices EXCEPT ![r.inv] = n]
        BY <2>1, <3>1 DEF WriteInvoices, UpdateStatus
      <4> QED
        BY <1>t, <2>1, <4>1, <4>2, OneRowChanges DEF TablesOK
    <3>2. CASE ~Exists(r.inv)
      BY <1>t, <2>1, <3>2 DEF TablesOK, WriteInvoices, UpdateStatus, Exists
    <3> QED
      BY <3>1, <3>2
  <2> QED
    BY <1>t, <2>1, <2>2 DEF TablesOK, WriteInvoices
<1>2. CASE PostMark(w)
  <2>1. r.inv \in InvoiceId /\ r.journal \in JournalId /\ WriteInvoices(w, MarkAsPosted(r.inv, r.journal))
    BY <1>0, <1>2 DEF PostMark, At, HoldsIds
  <2>2. invoices' \in [InvoiceId -> Row] /\ Kept
    <3>1. CASE Exists(r.inv)
      <4> DEFINE n == [invoices[r.inv] EXCEPT !.status = "posted", !.posted = TRUE,
                                              !.journal = r.journal]
      <4>1. n \in LiveRow
        BY <1>t, <2>1, <3>1, LiveRows, RowUpdates DEF TablesOK, Exists
      <4>2. invoices' = [invoices EXCEPT ![r.inv] = n]
        BY <2>1, <3>1 DEF WriteInvoices, MarkAsPosted
      <4> QED
        BY <1>t, <2>1, <4>1, <4>2, OneRowChanges DEF TablesOK
    <3>2. CASE ~Exists(r.inv)
      BY <1>t, <2>1, <3>2 DEF TablesOK, WriteInvoices, MarkAsPosted, Exists
    <3> QED
      BY <3>1, <3>2
  <2> QED
    BY <1>t, <2>1, <2>2 DEF TablesOK, WriteInvoices
<1>3. CASE DeleteExec(w)
  <2>1. Absent("deleted") \in Row
    BY DEF Row
  <2>2. r.inv \in InvoiceId
    BY <1>0, <1>3 DEF DeleteExec, At, HoldsIds
  <2> QED
    BY <1>t, <1>3, <2>1, <2>2 DEF TablesOK, DeleteExec, DeleteRow, Exists
<1>4. CASE PayCommit(w)
  <2>1. /\ r.inv \in InvoiceId /\ r.pay \in PaymentId /\ r.sum \in Nat /\ r.amount \in Nat
        /\ Exists(r.inv)
    BY <1>0, <1>4 DEF PayCommit, At, HoldsIds, Request, TypeInv, OpenInsertHasRow
  <2>2. invoices' \in [InvoiceId -> Row] /\ Kept
    <3> DEFINE s == PaidStatus(r.inv, r.sum)
               n == [invoices[r.inv] EXCEPT !.paid = r.sum, !.status = s]
    <3>1. s \in InvoiceStatus
      BY <2>1 DEF PaidStatus, Exists, InvoiceStatus
    <3>2. n \in LiveRow
      BY <1>t, <2>1, <3>1, LiveRows, RowUpdates DEF TablesOK, Exists
    <3>3. invoices' = [invoices EXCEPT ![r.inv] = n]
      BY <1>4 DEF PayCommit, UpdatePaymentStatus
    <3> QED
      BY <1>t, <2>1, <3>2, <3>3, OneRowChanges DEF TablesOK
  <2>3. payments' \subseteq Payment /\ paidTotal' \in [InvoiceId -> Nat]
    BY <1>t, <1>4, <2>1 DEF TablesOK, PayCommit, Payment
  <2> QED
    BY <2>2, <2>3 DEF TablesOK
<1>5. ASSUME UNCHANGED <<invoices, payments, paidTotal>>
      PROVE  TablesOK' /\ Kept
  BY <1>t, <1>5 DEF TablesOK, Exists
<1> QED
  BY <1>1, <1>2, <1>3, <1>4, <1>5 DEF Proceed, PostReadLines, PostCreate, PostPost, PostBalance,
     PaySum, PayCreate, PayPost, PayBalance, CreateJournal, PostJournal, UpdateBalance

\* GL-2 and AP-1 are only sent well-formed entries and balance updates.
LEMMA RemotesStep ==
  ASSUME TypeInv, NEW w \in Worker, Proceed(w) PROVE RemotesOK'
<1> DEFINE r == req[w]
<1>0. r \in Request /\ HoldsIds(r) /\ RemotesOK
  BY DEF TypeInv, TypeOK, RequestsOK
<1>1. CASE PostCreate(w) \/ PayCreate(w)
  <2>1. PICK entry \in Journal, pc \in Step : CreateJournal(w, entry, pc)
    BY <1>0, <1>1 DEF PostCreate, PayCreate, Journal, At, HoldsIds, Request, Step
  <2> QED
    BY <1>0, <2>1 DEF CreateJournal, RemotesOK
<1>2. CASE PostPost(w) \/ PayPost(w)
  <2>1. r.journal \in JournalId /\ journals' = [journals EXCEPT ![r.journal].posted = TRUE]
           /\ balanceCalls' = balanceCalls
    BY <1>0, <1>2 DEF PostPost, PayPost, PostJournal, At, HoldsIds
  <2>2. \A e \in Journal : [e EXCEPT !.posted = TRUE] \in Journal
    BY DEF Journal
  <2> QED
    BY <1>0, <2>1, <2>2 DEF RemotesOK
<1>3. CASE PostBalance(w) \/ PayBalance(w)
  BY <1>0, <1>3 DEF PostBalance, PayBalance, UpdateBalance, RemotesOK, BalanceCall, Request, HoldsIds, At
<1>4. ASSUME UNCHANGED remotes PROVE RemotesOK'
  BY <1>0, <1>4 DEF RemotesOK, remotes
<1> QED
  BY <1>1, <1>2, <1>3, <1>4 DEF Proceed, SubmitUpdate, ApproveUpdate, RejectUpdate, RecallUpdate,
     WriteInvoices, DeleteExec, PostReadLines, PostMark, PaySum, PayCommit, remotes

\* An open payment insert finds its row: PaySum needs the row and DeleteExec,
\* the one statement that removes it, waits for the insert.
LEMMA OpenInsertStep ==
  ASSUME TypeInv, NEW w \in Worker, Proceed(w) PROVE OpenInsertHasRow'
<1> SUFFICES ASSUME NEW v \in Worker, At(v, "pay_commit")' 
                PROVE  invoices'[req'[v].inv].status \in InvoiceStatus
  BY DEF OpenInsertHasRow, Exists
<1>0. req \in [Worker -> Request] /\ \A u \in Worker : HoldsIds(req[u])
  BY DEF TypeInv, TypeOK, RequestsOK
<1>1. CASE PaySum(w) /\ v = w
  BY <1>0, <1>1 DEF PaySum, Exists, Request, At
<1>2. CASE ~(PaySum(w) /\ v = w)
  <2>1. At(v, "pay_commit") /\ req'[v].inv = req[v].inv
    <3>1. CASE PostReadLines(w) \/ PostCreate(w) \/ PostPost(w) \/ PaySum(w) \/ PayCreate(w) \/ PayPost(w)
      BY <1>0, <1>2, <3>1 DEF Request, At, PostReadLines, PostCreate, PostPost, PaySum, PayCreate, PayPost, CreateJournal, PostJournal, Continue
    <3>2. CASE PostBalance(w) \/ PayCommit(w)
      BY <1>0, <3>2 DEF Request, At, PostBalance, PayCommit, UpdateBalance, Continue
    <3>3. ASSUME req' = [req EXCEPT ![w] = NoRequest] PROVE v # w /\ req'[v] = req[v]
      BY <1>0, <3>3 DEF At, NoRequest
    <3> QED
      BY <3>1, <3>2, <3>3 DEF Proceed, SubmitUpdate, ApproveUpdate, RejectUpdate, RecallUpdate,
     WriteInvoices, DeleteExec, PostMark, PayBalance, Finish, At
  <2>2. ~(DeleteExec(w) /\ req[v].inv = req[w].inv)
    BY <2>1 DEF DeleteExec
  <2>3. req[v].inv \in InvoiceId /\ Exists(req[v].inv)
    BY <1>0, <2>1 DEF TypeInv, OpenInsertHasRow, At, HoldsIds
  <2>4. invoices'[req[v].inv].status \in InvoiceStatus
    BY <2>2, <2>3, RowsStep DEF Exists
  <2> QED
    BY <2>1, <2>4
<1> QED
  BY <1>1, <1>2

\* A request is taken with the identifier of its invoice and nothing else,
\* at the first step of its handler.
FirstSteps == {"submit", "approve", "reject", "recall", "delete", "post_lines", "pay_sum"}

\* The checks of a handler end in Receive.
LEMMA BeginReceives ==
  ASSUME TypeInv, NEW w \in Worker, NEW i \in InvoiceId, Begin(w, i)
  PROVE  \E pc \in FirstSteps, a \in Nat : Receive(w, i, pc, a)
<1>1. invoices[i].total \in Nat
  BY RowFields DEF TypeInv, TypeOK, TablesOK
<1>2. CASE SubmitForApproval(w, i) \/ ApproveInvoice(w, i) \/ RejectInvoice(w, i)
             \/ RecallInvoice(w, i) \/ DeleteInvoice(w, i)
  BY <1>2 DEF FirstSteps, SubmitForApproval, ApproveInvoice, RejectInvoice, RecallInvoice, DeleteInvoice
<1>3. CASE PostInvoice(w, i)
  BY <1>1, <1>3 DEF FirstSteps, PostInvoice
<1>4. CASE \E amount \in 0 .. invoices[i].total + 1 : RecordPayment(w, i, amount)
  BY <1>4 DEF FirstSteps, RecordPayment
<1> QED
  BY <1>2, <1>3, <1>4 DEF Begin

\* Every step of every request keeps the types.
LEMMA TypeStep == TypeInv /\ [Next]_vars => TypeInv'
<1> SUFFICES ASSUME TypeInv, [Next]_vars PROVE TypeInv'
  OBVIOUS
<1>0. TablesOK /\ RemotesOK /\ RequestsOK /\ OpenInsertHasRow
  BY DEF TypeInv, TypeOK
<1>1. ASSUME NEW w \in Worker, NEW r \in Request, HoldsIds(r), r.pc # "pay_commit",
             req' = [req EXCEPT ![w] = r],
             UNCHANGED <<invoices, payments, paidTotal, journals, balanceCalls>>
      PROVE  TypeInv'
  <2>1. RequestsOK'
    BY <1>0, <1>1, OneRequestChanges
  <2>2. TablesOK' /\ RemotesOK'
    BY <1>0, <1>1 DEF TablesOK, RemotesOK
  <2>3. OpenInsertHasRow'
    BY <1>0, <1>1 DEF OpenInsertHasRow, At, Exists, RequestsOK
  <2> QED
    BY <2>1, <2>2, <2>3 DEF TypeInv, TypeOK
<1>2. CASE CreateInvoice
  <2>1. PICK i \in InvoiceId, n \in Number, t \in Totals :
           invoices[i].status = "none" /\ invoices' = Insert(i, n, t)
    BY <1>2 DEF CreateInvoice
  <2> DEFINE row == [status |-> "draft", number |-> n, total |-> t, paid |-> 0,
                     posted |-> FALSE, journal |-> Nil]
  <2>2. row \in LiveRow
    BY TotalsAssumption DEF LiveRow, InvoiceStatus
  <2>3. invoices' \in [InvoiceId -> Row] /\ \A k \in InvoiceId : Exists(k) => Exists(k)'
    BY <1>0, <2>1, <2>2, OneRowChanges DEF TablesOK, Insert
  <2>4. OpenInsertHasRow'
    BY <1>0, <1>2, <2>3 DEF CreateInvoice, OpenInsertHasRow, At, Exists, RequestsOK, HoldsIds
  <2> QED
    BY <1>0, <1>2, <2>3, <2>4 DEF CreateInvoice, TypeInv, TypeOK, TablesOK, RemotesOK, RequestsOK
<1>3. ASSUME NEW w \in Worker, NEW i \in InvoiceId, Begin(w, i)
      PROVE  TypeInv'
  <2>1. PICK pc \in FirstSteps, a \in Nat : Receive(w, i, pc, a)
    BY <1>3, BeginReceives
  <2> DEFINE r == [NoRequest EXCEPT !.pc = pc, !.inv = i, !.amount = a]
  <2>2. r \in Request /\ HoldsIds(r) /\ r.pc # "pay_commit"
    BY DEF FirstSteps, NoRequest, Request, HoldsIds, Step
  <2> QED
    BY <1>1, <2>1, <2>2 DEF Receive
<1>4. ASSUME NEW w \in Worker, Proceed(w) PROVE TypeInv'
  BY <1>4, RequestsStep, RowsStep, RemotesStep, OpenInsertStep DEF TypeInv, TypeOK
<1>5. ASSUME NEW w \in Worker, Abort(w) PROVE TypeInv'
  BY <1>1, <1>5, NoRequestOK DEF Abort, Finish, NoRequest
<1>6. CASE UNCHANGED vars
  BY <1>0, <1>6 DEF vars, TypeInv, TypeOK, TablesOK, RemotesOK, RequestsOK, OpenInsertHasRow, At, Exists
<1> QED
  BY <1>2, <1>3, <1>4, <1>5, <1>6 DEF Next, Serve

\* The tables, the remote services and the requests keep their types, and the
\* row of an open payment insert stays.
THEOREM TypeCorrect == Spec => [](TypeOK /\ OpenInsertHasRow)
<1>1. Spec => []TypeInv
  BY TypeInit, TypeStep, PTL DEF Spec
<1> QED
  BY <1>1, PTL DEF TypeInv

-----------------------------------------------------------------------------
(* What no step undoes                                                     *)

\* GL-2 keeps its entries and what is posted stays posted.
LEMMA EntriesStay ==
  ASSUME TypeInv, [Next]_vars, NEW j \in JournalId, journals[j].type # "none"
  PROVE  /\ journals'[j].type = journals[j].type
         /\ journals'[j].inv = journals[j].inv
         /\ journals'[j].pay = journals[j].pay
         /\ journals'[j].credit = journals[j].credit
         /\ journals[j].posted => journals'[j].posted
<1> DEFINE Stays == /\ journals'[j].type = journals[j].type
                    /\ journals'[j].inv = journals[j].inv
                    /\ journals'[j].pay = journals[j].pay
                    /\ journals'[j].credit = journals[j].credit
                    /\ journals[j].posted => journals'[j].posted
<1>0. journals \in [JournalId -> Journal]
  BY DEF TypeInv, TypeOK, RemotesOK
<1>1. ASSUME NEW w \in Worker, NEW pc, NEW entry, CreateJournal(w, entry, pc) PROVE Stays
  BY <1>0, <1>1 DEF CreateJournal
<1>2. ASSUME NEW w \in Worker, NEW pc, PostJournal(w, pc) PROVE Stays
  BY <1>0, <1>2 DEF PostJournal, Journal
<1>3. CASE UNCHANGED journals
  BY <1>3
<1>4. ASSUME NEW w \in Worker, Proceed(w) PROVE Stays
  BY <1>1, <1>2, <1>3, <1>4 DEF Proceed, SubmitUpdate, ApproveUpdate, RejectUpdate,
     RecallUpdate, WriteInvoices, DeleteExec, PostReadLines, PostCreate, PostPost, PostBalance,
     PostMark, PaySum, PayCommit, PayCreate, PayPost, PayBalance, UpdateBalance, remotes
<1>5. ASSUME NEW w \in Worker, NEW i \in InvoiceId, Begin(w, i) PROVE Stays
  BY <1>3, <1>5, BeginReceives DEF Receive
<1> QED
  BY <1>3, <1>4, <1>5 DEF Next, Serve, CreateInvoice, Abort, vars

\* AP-1 keeps the balance updates it has served.
LEMMA CallsStay ==
  ASSUME TypeInv, [Next]_vars PROVE balanceCalls \subseteq balanceCalls'
<1>4. ASSUME NEW w \in Worker, Proceed(w) PROVE balanceCalls \subseteq balanceCalls'
  BY <1>4 DEF Proceed, SubmitUpdate, ApproveUpdate, RejectUpdate,
     RecallUpdate, WriteInvoices, DeleteExec, PostReadLines, PostCreate, PostPost, PostBalance,
     PostMark, PaySum, PayCommit, PayCreate, PayPost, PayBalance, UpdateBalance, remotes,
     CreateJournal, PostJournal
<1>5. ASSUME NEW w \in Worker, NEW i \in InvoiceId, Begin(w, i)
      PROVE  balanceCalls \subseteq balanceCalls'
  BY <1>5, BeginReceives DEF Receive
<1> QED
  BY <1>4, <1>5 DEF Next, Serve, CreateInvoice, Abort, vars

\* A row keeps its total, and the flag and the journal of its posting but for
\* PostMark; an identifier is never used again.
RowKept(i) ==
  /\ invoices[i].status # "none" =>
        /\ invoices'[i].status # "none"
        /\ Exists(i)' => Exists(i) /\ invoices'[i].total = invoices[i].total
  /\ invoices'[i].posted =>
        \/ /\ invoices[i].posted
           /\ invoices'[i].journal = invoices[i].journal
           /\ invoices'[i].total = invoices[i].total
        \/ \E w \in Worker : PostMark(w) /\ i = req[w].inv /\ Exists(i)
                             /\ invoices'[i].journal = req[w].journal
                             /\ invoices'[i].total = invoices[i].total

\* What RowKept says holds of every step.
LEMMA RowsKept ==
  ASSUME TypeInv, [Next]_vars, NEW i \in InvoiceId PROVE RowKept(i)
<1>0. /\ invoices \in [InvoiceId -> Row]
      /\ \A w \in Worker : req[w] \in Request /\ HoldsIds(req[w])
  BY DEF TypeInv, TypeOK, TablesOK, RequestsOK
<1>r. Exists(i) => invoices[i] \in LiveRow
  BY <1>0, LiveRows DEF Exists
<1>1. CASE invoices'[i] = invoices[i]
  BY <1>1 DEF RowKept, Exists
<1>2. ASSUME Exists(i), NEW s \in InvoiceStatus, invoices'[i] = [invoices[i] EXCEPT !.status = s]
      PROVE  RowKept(i)
  BY <1>r, <1>2 DEF RowKept, Exists, LiveRow, InvoiceStatus
<1>3. ASSUME NEW w \in Worker, i = req[w].inv, PostMark(w), Exists(i)
      PROVE  RowKept(i)
  <2>1. invoices'[i] = [invoices[i] EXCEPT !.status = "posted", !.posted = TRUE, !.journal = req[w].journal]
    BY <1>0, <1>3 DEF PostMark, WriteInvoices, MarkAsPosted
  <2> QED
    BY <1>r, <1>3, <2>1 DEF RowKept, Exists, LiveRow, InvoiceStatus
<1>4. ASSUME NEW w \in Worker, i = req[w].inv, PayCommit(w)
      PROVE  RowKept(i)
  <2>1. Exists(i)
    BY <1>4 DEF TypeInv, OpenInsertHasRow, PayCommit
  <2>2. invoices'[i] = [invoices[i] EXCEPT !.paid = req[w].sum, !.status = PaidStatus(i, req[w].sum)]
    BY <1>0, <1>4 DEF PayCommit, UpdatePaymentStatus
  <2>3. PaidStatus(i, req[w].sum) \in InvoiceStatus
    BY <2>1 DEF PaidStatus, Exists, InvoiceStatus
  <2> QED
    BY <1>r, <2>1, <2>2, <2>3 DEF RowKept, Exists, LiveRow, InvoiceStatus
<1>5. ASSUME Exists(i), invoices'[i] = Absent("deleted") PROVE RowKept(i)
  BY <1>5, AbsentFields DEF RowKept, Exists
<1>6. ASSUME NEW w \in Worker, Proceed(w) PROVE RowKept(i)
  <2>1. CASE SubmitUpdate(w) \/ ApproveUpdate(w) \/ RejectUpdate(w) \/ RecallUpdate(w)
    BY <1>0, <1>1, <1>2, <2>1 DEF SubmitUpdate, ApproveUpdate, RejectUpdate, RecallUpdate,
       ApproveRow, WriteInvoices, UpdateStatus, InvoiceStatus
  <2>2. CASE PostMark(w)
    BY <1>0, <1>1, <1>3, <2>2 DEF PostMark, WriteInvoices, MarkAsPosted
  <2>3. CASE PayCommit(w)
    BY <1>0, <1>1, <1>4, <2>3 DEF PayCommit, UpdatePaymentStatus
  <2>4. CASE DeleteExec(w)
    BY <1>0, <1>1, <1>5, <2>4 DEF DeleteExec, DeleteRow, Deletable, Exists, InvoiceStatus
  <2> QED
    BY <1>1, <1>6, <2>1, <2>2, <2>3, <2>4 DEF Proceed, PostReadLines, PostCreate, PostPost, PostBalance,
     PaySum, PayCreate, PayPost, PayBalance, CreateJournal, PostJournal, UpdateBalance
<1>7. CASE CreateInvoice
  <2>1. PICK k \in InvoiceId, n \in Number, t \in Totals :
           invoices[k].status = "none" /\ invoices' = Insert(k, n, t)
    BY <1>7 DEF CreateInvoice
  <2>2. CASE k = i
    BY <1>0, <2>1, <2>2 DEF Insert, RowKept
  <2> QED
    BY <1>0, <1>1, <2>1, <2>2 DEF Insert
<1>8. ASSUME NEW w \in Worker, NEW k \in InvoiceId, Begin(w, k) PROVE RowKept(i)
  BY <1>1, <1>8, BeginReceives DEF Receive
<1> QED
  BY <1>1, <1>6, <1>7, <1>8 DEF Next, Serve, Abort, vars

-----------------------------------------------------------------------------
(* An invoice flagged as posted is backed by the ledger                    *)

PostSteps == {"post_lines", "post_create", "post_post", "post_balance", "post_mark"}

\* What a worker r that is posting an invoice has achieved by its step.
PostProgress(r) ==
  /\ r.pc # "idle" => invoices[r.inv].status # "none"
  /\ r.pc \in PostSteps /\ Exists(r.inv) => r.amount = invoices[r.inv].total
  /\ r.pc \in {"post_post", "post_balance", "post_mark"} =>
        /\ journals[r.journal].type = "ap_invoice"
        /\ journals[r.journal].inv = r.inv
        /\ journals[r.journal].credit = r.amount
  /\ r.pc \in {"post_balance", "post_mark"} => journals[r.journal].posted
  /\ r.pc = "post_mark" =>
        [journal |-> r.journal, inv |-> r.inv, amount |-> r.amount] \in balanceCalls

\* The inductive invariant: PostedIsBacked needs the progress of the workers,
\* because the flag is written from a worker's local variables.
PostInv == PostedIsBacked /\ \A w \in Worker : PostProgress(req[w])

\* What a worker has achieved stays so while the others act.
LEMMA ProgressKept ==
  ASSUME TypeInv, [Next]_vars, NEW w \in Worker, PostProgress(req[w]), req'[w] = req[w]
  PROVE  PostProgress(req[w])'
<1> DEFINE r == req[w]
<1>0. r \in Request /\ HoldsIds(r) /\ r' = r
  BY DEF TypeInv, TypeOK, RequestsOK
<1>1. r.pc # "idle" => /\ invoices'[r.inv].status # "none"
                       /\ Exists(r.inv)' => Exists(r.inv) /\ invoices'[r.inv].total = invoices[r.inv].total
  BY <1>0, RowsKept DEF RowKept, PostProgress, HoldsIds, Exists
<1>2. r.pc \in {"post_post", "post_balance", "post_mark"} =>
        /\ journals'[r.journal].type = "ap_invoice"
        /\ journals'[r.journal].inv = r.inv
        /\ journals'[r.journal].credit = r.amount
        /\ journals[r.journal].posted => journals'[r.journal].posted
  BY <1>0, EntriesStay DEF PostProgress, HoldsIds
<1>3. balanceCalls \subseteq balanceCalls'
  BY CallsStay
<1> QED
  BY <1>0, <1>1, <1>2, <1>3 DEF PostProgress, PostSteps

\* A handler changes no request but its own.
LEMMA ProceedAlone ==
  ASSUME TypeInv, NEW w \in Worker, Proceed(w), NEW v \in Worker, v # w
  PROVE  req'[v] = req[v]
<1>0. req \in [Worker -> Request]
  BY DEF TypeInv, TypeOK, RequestsOK
<1>1. ASSUME NEW pc, NEW entry, CreateJournal(w, entry, pc) PROVE req'[v] = req[v]
  BY <1>0, <1>1 DEF CreateJournal
<1>2. ASSUME NEW pc, Continue(w, pc) PROVE req'[v] = req[v]
  BY <1>0, <1>2 DEF Continue
<1>3. ASSUME Finish(w) PROVE req'[v] = req[v]
  BY <1>0, <1>3 DEF Finish
<1>4. CASE PostReadLines(w) \/ PaySum(w)
  BY <1>0, <1>4 DEF PostReadLines, PaySum
<1> QED
  BY <1>1, <1>2, <1>3, <1>4 DEF Proceed, SubmitUpdate, ApproveUpdate, RejectUpdate,
     RecallUpdate, WriteInvoices, DeleteExec, PostCreate, PostPost, PostBalance,
     PostMark, PayCommit, PayCreate, PayPost, PayBalance, PostJournal

\* The worker that proceeds: one step per position in PostInvoice.
LEMMA ProgressStep ==
  ASSUME TypeInv, NEW w \in Worker, Proceed(w), PostProgress(req[w]),
         \A i \in InvoiceId : RowKept(i)
  PROVE  PostProgress(req[w])'
<1> DEFINE r == req[w]
           n == req'[w]
<1>0. /\ req \in [Worker -> Request] /\ r \in Request /\ HoldsIds(r)
      /\ journals \in [JournalId -> Journal]
  BY DEF TypeInv, TypeOK, RequestsOK, RemotesOK
<1>1. ASSUME n.pc = "idle" PROVE PostProgress(req[w])'
  BY <1>1 DEF PostProgress, PostSteps
<1>2. ASSUME r.pc # "idle", n.inv = r.inv, n.pc \notin PostSteps
      PROVE  PostProgress(req[w])'
  BY <1>0, <1>2 DEF PostProgress, PostSteps, HoldsIds, RowKept
<1>3. CASE PostReadLines(w)
  <2>1. n = [r EXCEPT !.pc = "post_create", !.debit = LineSum(r.inv)] /\ r.pc = "post_lines"
        /\ UNCHANGED <<invoices, journals, balanceCalls>>
    BY <1>0, <1>3 DEF PostReadLines, At
  <2> QED
    BY <1>0, <2>1 DEF PostProgress, PostSteps, Request, Exists
<1>4. CASE PostCreate(w)
  <2>1. PICK j \in JournalId :
          /\ journals' = [journals EXCEPT ![j] =
                [type |-> "ap_invoice", inv |-> r.inv, pay |-> Nil, debit |-> r.debit,
                 credit |-> r.amount, posted |-> FALSE]]
          /\ n = [r EXCEPT !.pc = "post_post", !.journal = j]
          /\ r.pc = "post_create"
          /\ UNCHANGED <<invoices, balanceCalls>>
    BY <1>0, <1>4 DEF PostCreate, CreateJournal, At
  <2>2. n.pc = "post_post" /\ n.journal = j /\ n.inv = r.inv /\ n.amount = r.amount
    BY <1>0, <2>1 DEF Request
  <2>3. journals'[j].type = "ap_invoice" /\ journals'[j].inv = r.inv /\ journals'[j].credit = r.amount
    BY <1>0, <2>1
  <2> QED
    BY <2>1, <2>2, <2>3 DEF PostProgress, PostSteps, Exists
<1>5. CASE PostPost(w)
  <2>1. /\ n = [r EXCEPT !.pc = "post_balance"] /\ r.pc = "post_post"
        /\ journals' = [journals EXCEPT ![r.journal].posted = TRUE]
        /\ UNCHANGED <<invoices, balanceCalls>>
    BY <1>0, <1>5 DEF PostPost, PostJournal, Continue, At
  <2>2. n.pc = "post_balance" /\ n.journal = r.journal /\ n.inv = r.inv /\ n.amount = r.amount
    BY <1>0, <2>1 DEF Request
  <2>3. /\ journals'[r.journal].type = "ap_invoice" /\ journals'[r.journal].inv = r.inv
        /\ journals'[r.journal].credit = r.amount /\ journals'[r.journal].posted
    BY <1>0, <2>1 DEF HoldsIds, Journal, PostProgress
  <2> QED
    BY <2>1, <2>2, <2>3 DEF PostProgress, PostSteps, Exists
<1>6. CASE PostBalance(w)
  <2>1. /\ n = [r EXCEPT !.pc = "post_mark"] /\ r.pc = "post_balance"
        /\ [journal |-> r.journal, inv |-> r.inv, amount |-> r.amount] \in balanceCalls'
        /\ UNCHANGED <<invoices, journals>>
    BY <1>0, <1>6 DEF PostBalance, UpdateBalance, Continue, At
  <2>2. n.pc = "post_mark" /\ n.journal = r.journal /\ n.inv = r.inv /\ n.amount = r.amount
    BY <1>0, <2>1 DEF Request
  <2> QED
    BY <2>1, <2>2 DEF PostProgress, PostSteps, Exists
<1>7. CASE PaySum(w) \/ PayCommit(w) \/ PayCreate(w) \/ PayPost(w)
  <2>1. r.pc \in {"pay_sum", "pay_commit", "pay_create", "pay_post"}
    BY <1>7 DEF PaySum, PayCommit, PayCreate, PayPost, At
  <2>2. n.inv = r.inv /\ n.pc \in {"pay_commit", "pay_create", "pay_post", "pay_balance"}
    <3>1. CASE PaySum(w)
      BY <1>0, <3>1 DEF PaySum, Request
    <3>2. CASE PayCommit(w)
      BY <1>0, <3>2 DEF PayCommit, Continue, Request
    <3>3. CASE PayCreate(w)
      BY <1>0, <3>3 DEF PayCreate, CreateJournal, Request
    <3>4. CASE PayPost(w)
      BY <1>0, <3>4 DEF PayPost, PostJournal, Continue, Request
    <3> QED
      BY <1>7, <3>1, <3>2, <3>3, <3>4
  <2> QED
    BY <1>2, <2>1, <2>2 DEF PostSteps
<1>8. ASSUME Finish(w) PROVE PostProgress(req[w])'
  BY <1>0, <1>1, <1>8 DEF Finish, NoRequest
<1> QED
  BY <1>3, <1>4, <1>5, <1>6, <1>7, <1>8 DEF Proceed, SubmitUpdate, ApproveUpdate, RejectUpdate,
     RecallUpdate, WriteInvoices, DeleteExec, PostMark, PayBalance

\* PostMark flags an invoice only with a journal that backs it, and nothing
\* removes what backs an invoice flagged before.
LEMMA BackedStep ==
  ASSUME TypeInv, [Next]_vars, PostInv PROVE PostedIsBacked'
<1> DEFINE Backed(j, i, a) ==
             /\ journals'[j].type = "ap_invoice"
             /\ journals'[j].inv = i
             /\ journals'[j].credit = a
             /\ journals'[j].posted
             /\ [journal |-> j, inv |-> i, amount |-> a] \in balanceCalls'
<1> SUFFICES ASSUME NEW i \in InvoiceId, invoices'[i].posted
             PROVE  /\ invoices'[i].journal \in JournalId
                    /\ Backed(invoices'[i].journal, i, invoices'[i].total)
  BY DEF PostedIsBacked, Backs
<1>1. ASSUME NEW j \in JournalId, NEW a, Backs(j, i, a) PROVE Backed(j, i, a)
  BY <1>1, EntriesStay, CallsStay DEF Backs
<1>2. CASE /\ invoices[i].posted
           /\ invoices'[i].journal = invoices[i].journal
           /\ invoices'[i].total = invoices[i].total
  <2>1. invoices[i].journal \in JournalId /\ Backs(invoices[i].journal, i, invoices[i].total)
    BY <1>2 DEF PostInv, PostedIsBacked
  <2>2. Backed(invoices[i].journal, i, invoices[i].total)
    BY <1>1, <2>1
  <2> QED
    BY <1>2, <2>1, <2>2
<1>3. ASSUME NEW w \in Worker, PostMark(w), i = req[w].inv, Exists(i),
             invoices'[i].journal = req[w].journal, invoices'[i].total = invoices[i].total
      PROVE  /\ invoices'[i].journal \in JournalId
             /\ Backed(invoices'[i].journal, i, invoices'[i].total)
  <2>1. req[w].pc = "post_mark" /\ HoldsIds(req[w]) /\ PostProgress(req[w])
    BY <1>3 DEF PostInv, PostMark, At, TypeInv, TypeOK, RequestsOK
  <2>2. req[w].journal \in JournalId /\ Backs(req[w].journal, i, invoices[i].total)
    BY <1>3, <2>1 DEF PostProgress, PostSteps, Backs, HoldsIds
  <2>3. Backed(req[w].journal, i, invoices[i].total)
    BY <1>1, <2>2
  <2> QED
    BY <1>3, <2>2, <2>3
<1> QED
  BY <1>2, <1>3, RowsKept DEF RowKept

\* Every step keeps the inductive invariant of the posting.
LEMMA PostStep == TypeInv /\ PostInv /\ [Next]_vars => PostInv'
<1> SUFFICES ASSUME TypeInv, PostInv, [Next]_vars, NEW v \in Worker
             PROVE  PostProgress(req[v])'
  BY BackedStep DEF PostInv
<1>0. PostProgress(req[v]) /\ req \in [Worker -> Request]
  BY DEF PostInv, TypeInv, TypeOK, RequestsOK
<1>1. CASE req'[v] = req[v]
  BY <1>0, <1>1, ProgressKept
<1>2. ASSUME req' = [req EXCEPT ![v] = NoRequest] PROVE PostProgress(req[v])'
  <2>1. req'[v].pc = "idle"
    BY <1>0, <1>2 DEF NoRequest
  <2> QED
    BY <2>1 DEF PostProgress, PostSteps
<1>3. ASSUME NEW i \in InvoiceId, Begin(v, i) PROVE PostProgress(req[v])'
  <2>1. invoices[i].status \in InvoiceStatus
    BY <1>3 DEF Begin, SubmitForApproval, ApproveInvoice, RejectInvoice, RecallInvoice,
       DeleteInvoice, PostInvoice, RecordPayment, InvoiceStatus
  <2>2. CASE PostInvoice(v, i)
    <3>1. /\ req'[v].pc = "post_lines" /\ req'[v].inv = i
          /\ req'[v].amount = invoices[i].total /\ UNCHANGED invoices
      BY <1>0, <2>2 DEF PostInvoice, Receive, NoRequest
    <3> QED
      BY <2>1, <3>1 DEF PostProgress, PostSteps, InvoiceStatus
  <2>3. ASSUME NEW pc \in FirstSteps \ {"post_lines"}, NEW a \in Nat, Receive(v, i, pc, a)
        PROVE  PostProgress(req[v])'
    <3>1. req'[v].pc = pc /\ req'[v].inv = i /\ UNCHANGED invoices
      BY <1>0, <2>3 DEF Receive, NoRequest
    <3> QED
      BY <2>1, <3>1 DEF PostProgress, PostSteps, FirstSteps, InvoiceStatus
  <2>4. CASE \E amount \in 0 .. invoices[i].total + 1 : RecordPayment(v, i, amount)
    BY <2>3, <2>4 DEF RecordPayment, FirstSteps
  <2> QED
    BY <1>3, <2>2, <2>3, <2>4 DEF Begin, SubmitForApproval, ApproveInvoice, RejectInvoice,
       RecallInvoice, DeleteInvoice, FirstSteps
<1>4. ASSUME NEW w \in Worker, Proceed(w) PROVE PostProgress(req[v])'
  <2>1. CASE v = w
    BY <1>0, <1>4, <2>1, ProgressStep, RowsKept
  <2>2. CASE v # w
    BY <1>0, <1>1, <1>4, <2>2, ProceedAlone
  <2> QED
    BY <2>1, <2>2
<1>5. ASSUME NEW w \in Worker, NEW i \in InvoiceId, Begin(w, i), w # v PROVE req'[v] = req[v]
  BY <1>0, <1>5, BeginReceives DEF Receive
<1>6. ASSUME NEW w \in Worker, Abort(w) PROVE PostProgress(req[v])'
  BY <1>0, <1>1, <1>2, <1>6 DEF Abort, Finish
<1>7. CASE CreateInvoice \/ UNCHANGED vars
  BY <1>1, <1>7 DEF CreateInvoice, vars
<1> QED
  BY <1>1, <1>3, <1>4, <1>5, <1>6, <1>7 DEF Next, Serve

\* Whatever requests overlap, fail or are repeated: the flag posted_to_gl is
\* only set on an invoice whose journal GL-2 has posted for its total and
\* whose vendor balance AP-1 has raised by it.
THEOREM PostedIsBackedAlways == Spec => []PostedIsBacked
<1>1. Init => PostInv
  <2> SUFFICES ASSUME Init PROVE PostInv
    OBVIOUS
  <2>1. PostedIsBacked
    BY AbsentFields DEF Init, PostedIsBacked
  <2>2. ASSUME NEW w \in Worker PROVE PostProgress(req[w])
    <3>1. req[w].pc = "idle"
      BY DEF Init, NoRequest
    <3> QED
      BY <3>1 DEF PostProgress, PostSteps
  <2> QED
    BY <2>1, <2>2 DEF PostInv
<1>2. Spec => []TypeInv
  BY TypeInit, TypeStep, PTL DEF Spec
<1>3. Spec => []PostInv
  BY <1>1, <1>2, PostStep, PTL DEF Spec
<1> QED
  BY <1>3, PTL DEF PostInv

=============================================================================
