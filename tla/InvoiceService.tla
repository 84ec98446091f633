--------------------------- MODULE InvoiceService ---------------------------
(***************************************************************************)
(* The AP invoice service (internal/service/invoice_service.go) over its   *)
(* PostgreSQL tables (internal/repository/invoice_repository.go and the    *)
(* triggers of migrations/001_initial_schema.sql), the general ledger GL-2 *)
(* and the vendor service AP-1.                                            *)
(*                                                                         *)
(* A worker is one request being served.  The handlers hold no lock and    *)
(* open no transaction around a request: each reads the invoice, checks    *)
(* it, and then issues its writes and its remote calls one by one.  So     *)
(* the first action of a handler is its read with all its checks, and      *)
(* every later statement or call is an action of its own that uses what    *)
(* the read returned.  A refused request changes nothing and is no action. *)
(*                                                                         *)
(* Amounts are naturals (BIGINT columns, CHECK amount >= 0).  The vendor   *)
(* and the invoice number are one value, the key of the table's UNIQUE     *)
(* constraint; a journal's lines are their debit and credit sums.          *)
(***************************************************************************)
EXTENDS Integers, FiniteSets

CONSTANTS
    InvoiceId,      \* row identifiers; uuid_generate_v4 never repeats one
    Number,         \* (vendor, invoice number) pairs of one entity
    Worker,         \* requests that can be in flight at the same time
    JournalId,      \* identifiers GL-2 can hand out
    PaymentId,      \* identifiers of payment rows
    Totals,         \* invoice totals a client may ask for
    Nil             \* SQL NULL, or a request field that is not in use

ASSUME TotalsAssumption == Totals \subseteq Nat
ASSUME NilAssumption ==
    Nil \notin InvoiceId \cup Number \cup JournalId \cup PaymentId

VARIABLES
    invoices,       \* table invoices, by identifier
    payments,       \* table invoice_payments, the committed rows
    paidTotal,      \* SUM(payment_amount) of an invoice's committed rows
    journals,       \* GL-2's journal entries
    balanceCalls,   \* the UpdateBalance calls AP-1 has served
    req             \* what each worker is doing, with its local variables

tables == <<invoices, payments, paidTotal>>
remotes == <<journals, balanceCalls>>
vars == <<invoices, payments, paidTotal, journals, balanceCalls, req>>

-----------------------------------------------------------------------------
(* Types                                                                   *)

InvoiceStatus ==
    {"draft", "pending_approval", "approved", "posted", "paid", "cancelled"}

\* No row, with the reason: not created yet, or gone for good.
Absent(why) == [status |-> why, number |-> Nil, total |-> 0, paid |-> 0,
                posted |-> FALSE, journal |-> Nil]

LiveRow == [status : InvoiceStatus, number : Number, total : Nat, paid : Nat,
            posted : BOOLEAN, journal : JournalId \cup {Nil}]

Row == LiveRow \cup {Absent("none"), Absent("deleted")}

Payment == [id : PaymentId, inv : InvoiceId, amount : Nat]

Journal == [type : {"none", "ap_invoice", "ap_payment"},
            inv : InvoiceId \cup {Nil}, pay : PaymentId \cup {Nil},
            debit : Nat, credit : Nat, posted : BOOLEAN]

NoJournal == [type |-> "none", inv |-> Nil, pay |-> Nil,
              debit |-> 0, credit |-> 0, posted |-> FALSE]

BalanceCall == [journal : JournalId, inv : InvoiceId, amount : Int]

Step == {"idle", "submit", "approve", "reject", "recall", "delete",
         "post_lines", "post_create", "post_post", "post_balance", "post_mark",
         "pay_sum", "pay_commit", "pay_create", "pay_post", "pay_balance"}

Request == [pc : Step, inv : InvoiceId \cup {Nil}, amount : Nat, debit : Nat,
            sum : Nat, pay : PaymentId \cup {Nil},
            journal : JournalId \cup {Nil}]

NoRequest == [pc |-> "idle", inv |-> Nil, amount |-> 0, debit |-> 0,
              sum |-> 0, pay |-> Nil, journal |-> Nil]

Exists(i) == invoices[i].status \in InvoiceStatus
Due(i) == invoices[i].total - invoices[i].paid

-----------------------------------------------------------------------------
(* The statements of the repository.  Each is the table invoices after     *)
(* it; UPDATE and DELETE match on the identifier and do nothing when no    *)
(* row matches (the handler then answers NotFound).                        *)

Insert(i, n, t) ==
    [invoices EXCEPT ![i] = [status |-> "draft", number |-> n, total |-> t,
                             paid |-> 0, posted |-> FALSE, journal |-> Nil]]

\* Mutant: an upsert that brings a deleted row back.
UpsertStatus(i, s) == [invoices EXCEPT ![i].status = s]

UpdateStatus(i, s) ==
    IF Exists(i) THEN [invoices EXCEPT ![i].status = s] ELSE invoices

ApproveRow(i) == UpdateStatus(i, "approved")

MarkAsPosted(i, j) ==
    IF Exists(i)
    THEN [invoices EXCEPT ![i] = [@ EXCEPT !.status = "posted", !.posted = TRUE,
                                           !.journal = j]]
    ELSE invoices

\* Mutant: the DELETE without its status = 'draft' clause.
DeletableInAnyStatus(i) == Exists(i)

Deletable(i) == invoices[i].status = "draft"

DeleteRow(i) ==
    IF Deletable(i)
    THEN [invoices EXCEPT ![i] = Absent("deleted")]
    ELSE invoices

\* Mutant: the new payment counted twice, once more than SUM has it.
PaidStatusTooEarly(i, s) ==
    IF s + s >= invoices[i].total THEN "paid" ELSE invoices[i].status

\* The CASE of trigger update_invoice_payment_status, s = v_total_paid.
PaidStatus(i, s) ==
    IF s >= invoices[i].total THEN "paid" ELSE invoices[i].status

\* Mutant: the trigger adds the sum to amount_paid instead of storing it.
AccumulatePaid(i, s) ==
    [invoices EXCEPT ![i] = [@ EXCEPT !.paid = invoices[i].paid + s,
                                      !.status = PaidStatus(i, s)]]

\* The trigger's UPDATE.
UpdatePaymentStatus(i, s) ==
    [invoices EXCEPT ![i] = [@ EXCEPT !.paid = s, !.status = PaidStatus(i, s)]]

\* GetLines: the debit lines of the row, none once the row is gone.
LineSum(i) == IF Exists(i) THEN invoices[i].total ELSE 0

-----------------------------------------------------------------------------
(* Requests                                                                *)

At(w, pc) == req[w].pc = pc

\* An idle worker takes a request whose read and checks have succeeded.
Receive(w, i, pc, amount) ==
    /\ At(w, "idle")
    /\ req' = [req EXCEPT ![w] = [NoRequest EXCEPT !.pc = pc, !.inv = i,
                                                   !.amount = amount]]
    /\ UNCHANGED <<invoices, payments, paidTotal, journals, balanceCalls>>

Continue(w, pc) == req' = [req EXCEPT ![w].pc = pc]
Finish(w) == req' = [req EXCEPT ![w] = NoRequest]

\* The last statement of a handler: write the invoice row, then answer.
WriteInvoices(w, rows) ==
    /\ invoices' = rows
    /\ Finish(w)
    /\ UNCHANGED <<payments, paidTotal, journals, balanceCalls>>

-----------------------------------------------------------------------------
(* Create, submit, approve, reject, recall, delete                         *)

\* One transaction inserts header and lines; UNIQUE guards the number.
CreateInvoice ==
    /\ \E i \in InvoiceId, n \in Number, t \in Totals :
          /\ invoices[i].status = "none"
          /\ \A k \in InvoiceId : Exists(k) => invoices[k].number # n
          /\ invoices' = Insert(i, n, t)
    /\ UNCHANGED <<payments, paidTotal, journals, balanceCalls, req>>

SubmitForApproval(w, i) ==
    /\ invoices[i].status = "draft"
    /\ Receive(w, i, "submit", 0)

SubmitUpdate(w) ==
    /\ At(w, "submit")
    /\ WriteInvoices(w, UpdateStatus(req[w].inv, "pending_approval"))

\* Mutant: the status check forgotten.
ApproveAnyInvoice(w, i) ==
    /\ Exists(i)
    /\ Receive(w, i, "approve", 0)

ApproveInvoice(w, i) ==
    /\ invoices[i].status = "pending_approval"
    /\ Receive(w, i, "approve", 0)

ApproveUpdate(w) ==
    /\ At(w, "approve")
    /\ WriteInvoices(w, ApproveRow(req[w].inv))

RejectInvoice(w, i) ==
    /\ invoices[i].status = "pending_approval"
    /\ Receive(w, i, "reject", 0)

RejectUpdate(w) ==
    /\ At(w, "reject")
    /\ WriteInvoices(w, UpdateStatus(req[w].inv, "draft"))

RecallInvoice(w, i) ==
    /\ invoices[i].status = "pending_approval"
    /\ Receive(w, i, "recall", 0)

RecallUpdate(w) ==
    /\ At(w, "recall")
    /\ WriteInvoices(w, UpdateStatus(req[w].inv, "draft"))

DeleteInvoice(w, i) ==
    /\ invoices[i].status = "draft"
    /\ Receive(w, i, "delete", 0)

\* DELETE cascades to the payment rows.  It waits for the transactions that
\* hold the row's foreign-key lock, the open payment inserts.
DeleteExec(w) ==
    LET i == req[w].inv IN
    /\ At(w, "delete")
    /\ \A v \in Worker : ~(At(v, "pay_commit") /\ req[v].inv = i)
    /\ invoices' = DeleteRow(i)
    /\ payments' = IF Deletable(i) THEN {p \in payments : p.inv # i}
                                   ELSE payments
    /\ paidTotal' = IF Deletable(i) THEN [paidTotal EXCEPT ![i] = 0]
                                    ELSE paidTotal
    /\ Finish(w)
    /\ UNCHANGED remotes

-----------------------------------------------------------------------------
(* Post to the general ledger                                              *)

PostInvoice(w, i) ==
    /\ invoices[i].status = "approved"
    /\ ~invoices[i].posted
    /\ Receive(w, i, "post_lines", invoices[i].total)

\* GetByID reads the lines in a second query, outside any transaction.
PostReadLines(w) ==
    /\ At(w, "post_lines")
    /\ req' = [req EXCEPT ![w] = [@ EXCEPT !.pc = "post_create",
                                           !.debit = LineSum(req[w].inv)]]
    /\ UNCHANGED <<invoices, payments, paidTotal, journals, balanceCalls>>

\* CreateJournal: GL-2 stores the entry under an identifier of its own.
CreateJournal(w, entry, next) ==
    /\ \E j \in JournalId :
          /\ journals[j].type = "none"
          /\ journals' = [journals EXCEPT ![j] = entry]
          /\ req' = [req EXCEPT ![w] = [@ EXCEPT !.pc = next, !.journal = j]]
    /\ UNCHANGED <<invoices, payments, paidTotal, balanceCalls>>

PostJournal(w, next) ==
    /\ journals' = [journals EXCEPT ![req[w].journal].posted = TRUE]
    /\ Continue(w, next)
    /\ UNCHANGED <<invoices, payments, paidTotal, balanceCalls>>

UpdateBalance(w, amount) ==
    /\ balanceCalls' = balanceCalls \cup
          {[journal |-> req[w].journal, inv |-> req[w].inv, amount |-> amount]}
    /\ UNCHANGED <<invoices, payments, paidTotal, journals>>

PostCreate(w) ==
    /\ At(w, "post_create")
    /\ CreateJournal(w, [type |-> "ap_invoice", inv |-> req[w].inv,
                         pay |-> Nil, debit |-> req[w].debit,
                         credit |-> req[w].amount, posted |-> FALSE],
                     "post_post")

\* Mutant: the invoice is marked before (here: instead of) the balance call.
PostSkippingBalance(w) ==
    /\ At(w, "post_post")
    /\ PostJournal(w, "post_mark")

PostPost(w) ==
    /\ At(w, "post_post")
    /\ PostJournal(w, "post_balance")

PostBalance(w) ==
    /\ At(w, "post_balance")
    /\ UpdateBalance(w, req[w].amount)
    /\ Continue(w, "post_mark")

PostMark(w) ==
    /\ At(w, "post_mark")
    /\ WriteInvoices(w, MarkAsPosted(req[w].inv, req[w].journal))

-----------------------------------------------------------------------------
(* Record a payment                                                        *)

\* Mutant: payments accepted as soon as the invoice is approved.
PayApproved(w, i, amount) ==
    /\ invoices[i].status \in {"approved", "posted", "paid"}
    /\ amount > 0
    /\ amount <= Due(i)
    /\ Receive(w, i, "pay_sum", amount)

\* Mutant: the check against the amount due forgotten.
PayAnyAmount(w, i, amount) ==
    /\ invoices[i].status \in {"posted", "paid"}
    /\ amount > 0
    /\ Receive(w, i, "pay_sum", amount)

RecordPayment(w, i, amount) ==
    /\ invoices[i].status \in {"posted", "paid"}
    /\ amount > 0
    /\ amount <= Due(i)
    /\ Receive(w, i, "pay_sum", amount)

\* Every payment identifier a row, a journal or an open insert refers to.
UsedPayments == {p.id : p \in payments} \cup {journals[j].pay : j \in JournalId}
                   \cup {req[w].pay : w \in Worker}

\* The INSERT up to its trigger's SELECT SUM: the foreign key needs the row,
\* the sum sees the committed payments and the new one, no other open insert.
PaySum(w) ==
    LET i == req[w].inv IN
    /\ At(w, "pay_sum")
    /\ Exists(i)
    /\ \E p \in PaymentId \ UsedPayments :
          req' = [req EXCEPT ![w] = [@ EXCEPT !.pc = "pay_commit", !.pay = p,
                                              !.sum = paidTotal[i] + req[w].amount]]
    /\ UNCHANGED <<invoices, payments, paidTotal, journals, balanceCalls>>

\* Mutant: a failed insert is not noticed and the handler goes on.
PayCommitLost(w) ==
    /\ At(w, "pay_commit")
    /\ Continue(w, "pay_create")
    /\ UNCHANGED <<invoices, payments, paidTotal, journals, balanceCalls>>

\* The trigger's UPDATE of the invoice and the commit of the INSERT.
PayCommit(w) ==
    LET i == req[w].inv IN
    /\ At(w, "pay_commit")
    /\ invoices' = UpdatePaymentStatus(i, req[w].sum)
    /\ payments' = payments \cup
          {[id |-> req[w].pay, inv |-> i, amount |-> req[w].amount]}
    /\ paidTotal' = [paidTotal EXCEPT ![i] = @ + req[w].amount]
    /\ Continue(w, "pay_create")
    /\ UNCHANGED remotes

PayCreate(w) ==
    /\ At(w, "pay_create")
    /\ CreateJournal(w, [type |-> "ap_payment", inv |-> req[w].inv,
                         pay |-> req[w].pay, debit |-> req[w].amount,
                         credit |-> req[w].amount, posted |-> FALSE],
                     "pay_post")

PayPost(w) ==
    /\ At(w, "pay_post")
    /\ PostJournal(w, "pay_balance")

\* Mutant: the balance moved in the direction of an invoice.
PayBalanceUp(w) ==
    /\ At(w, "pay_balance")
    /\ UpdateBalance(w, req[w].amount)
    /\ Finish(w)

PayBalance(w) ==
    /\ At(w, "pay_balance")
    /\ UpdateBalance(w, -req[w].amount)
    /\ Finish(w)

-----------------------------------------------------------------------------
(* An error, the 30 s timeout, a client that hangs up or a crash ends the   *)
(* request where it is: done writes stay, an open insert is rolled back.   *)

Abort(w) ==
    /\ ~At(w, "idle")
    /\ Finish(w)
    /\ UNCHANGED <<invoices, payments, paidTotal, journals, balanceCalls>>

-----------------------------------------------------------------------------
Init ==
    /\ invoices = [i \in InvoiceId |-> Absent("none")]
    /\ payments = {}
    /\ paidTotal = [i \in InvoiceId |-> 0]
    /\ journals = [j \in JournalId |-> NoJournal]
    /\ balanceCalls = {}
    /\ req = [w \in Worker |-> NoRequest]

Begin(w, i) ==
    \/ SubmitForApproval(w, i)
    \/ ApproveInvoice(w, i)
    \/ RejectInvoice(w, i)
    \/ RecallInvoice(w, i)
    \/ DeleteInvoice(w, i)
    \/ PostInvoice(w, i)
    \/ \E amount \in 0 .. invoices[i].total + 1 : RecordPayment(w, i, amount)

Proceed(w) ==
    \/ SubmitUpdate(w)
    \/ ApproveUpdate(w)
    \/ RejectUpdate(w)
    \/ RecallUpdate(w)
    \/ DeleteExec(w)
    \/ PostReadLines(w)
    \/ PostCreate(w)
    \/ PostPost(w)
    \/ PostBalance(w)
    \/ PostMark(w)
    \/ PaySum(w)
    \/ PayCommit(w)
    \/ PayCreate(w)
    \/ PayPost(w)
    \/ PayBalance(w)

Serve == \/ CreateInvoice
         \/ \E w \in Worker : Proceed(w) \/ \E i \in InvoiceId : Begin(w, i)

Next == Serve \/ \E w \in Worker : Abort(w)

Spec == Init /\ [][Next]_vars

-----------------------------------------------------------------------------
(* Nothing in the code keeps two requests for one invoice apart.  What the *)
(* service promises when its clients do is stated of this specification.   *)

OneRequestPerInvoice ==
    \A v, w \in Worker :
        v # w /\ ~At(v, "idle") /\ ~At(w, "idle") => req[v].inv # req[w].inv

SerialSpec == Init /\ [][Next /\ OneRequestPerInvoice']_vars

-----------------------------------------------------------------------------
(* Invariants                                                              *)

\* The tables hold whole rows or none (README.md:138), the other services
\* what they were sent, and a worker the identifiers its step works on.
TablesOK ==
    /\ invoices \in [InvoiceId -> Row]
    /\ payments \subseteq Payment
    /\ paidTotal \in [InvoiceId -> Nat]

RemotesOK ==
    /\ journals \in [JournalId -> Journal]
    /\ balanceCalls \subseteq BalanceCall

\* The identifiers a request has obtained by its step.
HoldsIds(r) ==
    /\ r.pc # "idle" => r.inv \in InvoiceId
    /\ r.pc \in {"pay_commit", "pay_create"} => r.pay \in PaymentId
    /\ r.pc \in {"post_post", "post_balance", "post_mark", "pay_post", "pay_balance"}
          => r.journal \in JournalId

RequestsOK ==
    /\ req \in [Worker -> Request]
    /\ \A w \in Worker : HoldsIds(req[w])

TypeOK == TablesOK /\ RemotesOK /\ RequestsOK

\* An open payment insert keeps the row it refers to, by the foreign key.
OpenInsertHasRow ==
    \A w \in Worker : At(w, "pay_commit") => Exists(req[w].inv)

\* The ledger evidence for an invoice and an amount under journal j: a posted
\* ap_invoice entry that credits AP with it, and the vendor balance raised.
Backs(j, i, amount) ==
    /\ journals[j].type = "ap_invoice"
    /\ journals[j].inv = i
    /\ journals[j].credit = amount
    /\ journals[j].posted
    /\ [journal |-> j, inv |-> i, amount |-> amount] \in balanceCalls

\* Whatever requests overlap or die half way, an invoice flagged posted_to_gl
\* names a journal of its own that GL-2 has posted for its total, and AP-1
\* has been told: MarkAsPosted comes last in PostInvoice.
PostedIsBacked ==
    \A i \in InvoiceId :
        invoices[i].posted =>
            /\ invoices[i].journal \in JournalId
            /\ Backs(invoices[i].journal, i, invoices[i].total)

\* A payment row, or a status posted or paid, is only ever seen on an invoice
\* that went through the general ledger, also when a slow reject or recall
\* has put the invoice back to draft meanwhile (README.md:39).
PaymentsOnlyForPosted ==
    /\ \A p \in payments : invoices[p.inv].posted
    /\ \A i \in InvoiceId :
          invoices[i].status \in {"posted", "paid"} => invoices[i].posted

\* An ap_payment entry in GL-2 belongs to a payment row with its amount as
\* long as the invoice is there, and no two entries to the same payment: the
\* journal is created after the row committed, once.
PaymentEntriesBacked ==
    \A j \in JournalId :
        journals[j].type = "ap_payment" =>
            /\ Exists(journals[j].inv) =>
                  [id |-> journals[j].pay, inv |-> journals[j].inv,
                   amount |-> journals[j].credit] \in payments
            /\ \A k \in JournalId :
                  journals[k].type = "ap_payment" /\ journals[k].pay = journals[j].pay
                      => k = j

\* Two triggers that run at the same time may lose a payment in amount_paid,
\* but never invent one: amount_paid is at most the sum of the payment rows.
PaidWithinPayments ==
    \A i \in InvoiceId : invoices[i].paid <= paidTotal[i]

\* Status paid is never given too early: the committed payments cover the
\* total, whichever trigger ran last.
PaidMeansFullyPaid ==
    \A i \in InvoiceId :
        invoices[i].status = "paid" => paidTotal[i] >= invoices[i].total

\* A row only disappears from status draft: the check in the DELETE itself,
\* not the one read before it, decides (README.md:134).
DeletedOnlyDraft ==
    [][\A i \in InvoiceId :
          Exists(i) /\ ~Exists(i)' => invoices[i].status = "draft"]_vars

=============================================================================
