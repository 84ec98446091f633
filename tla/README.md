# Verification of be-ap-invoices

TLA+ specifications of the accounts-payable invoice service (AP-2), the TLC
configurations that check them on small instances, and theorems about them
that TLAPS checks for every value of the constants. Paths below are those of
the repository.

1. [Inventory](#1-inventory)
2. [Modules and the code they model](#2-modules-and-the-code-they-model)
3. [Runs](#3-runs)
4. [Disagreements between code and documentation](#4-disagreements-between-code-and-documentation)
5. [Fairness](#5-fairness)
6. [Proofs](#6-proofs)
7. [What is not modelled](#7-what-is-not-modelled)
8. [Plan](#8-plan)

## 1. Inventory

The service is one Go process (`cmd/server/main.go`) with an HTTP and a gRPC
server over one PostgreSQL database. It calls four other services and publishes
notifications. Every request runs in a goroutine of its own; there is no lock,
no queue and no background job, and the only transactions are the inserts of an
invoice with its lines and of a workflow with its steps. All coordination is
left to single SQL statements.

| component | state it keeps | operations that change it |
|---|---|---|
| invoice service, `service/invoice_service.go` | none; a request's local variables | create, submit, approve, reject, recall, delete, post to GL, record payment |
| invoice repository and `migrations/001` | tables `invoices`, `invoice_lines`, `invoice_payments`; triggers for totals and payment status | one statement per operation: INSERT in a transaction, unguarded UPDATEs, guarded DELETE, INSERT with trigger |
| gRPC handler, `handler/grpc_handler.go` | none | pairs submit, approve, reject and recall with calls to be-plt-approvals; passes the rest on |
| HTTP handler, `handler/http_handler.go` | none | passes create, submit, approve, post, payment and delete on, without a user |
| approval routing service, `service/approval_routing_service.go` | none | create workflow, approve step, reject, recall, delegate |
| approval repositories and `migrations/002` | workflows, steps, append-only audit log | one UPDATE or INSERT each |
| approval rules repository | table `invoice_approval_rules` | create, update, delete, find the matching rule |
| clients: GL-2 journals, AP-1 vendors, GL-1 accounts, identity, be-plt-approvals | the other service's | create and post a journal, move a balance, the workflow calls; the others only read |
| notification publisher | none | publishes an event and logs a failure |

**Interaction.** A handler calls the service, the service reads the invoice,
checks it, and issues its statements and remote calls one after the other. The
gRPC handler wraps this in calls to be-plt-approvals. `main.go` builds the
routing service too, but the gRPC handler asks it for the approval history
only; the workflow calls go to be-plt-approvals, which took them over.

**What is hard.**

- Check-then-act: every status check is made on a row read earlier, and the
  UPDATE that follows matches on the identifier only (`invoice_repository.go`
  lines 451, 477, 504). Requests on one invoice interleave freely.
- The payment trigger sums rows under READ COMMITTED and then waits for the
  invoice's row lock.
- Posting and paying span three services, approval spans two, with no
  compensation and no idempotency: a failure in the middle stays.
- Approvers, submitters and retries race on the same workflow.
- Rules change, and drafts are deleted, while a workflow is made or decided.
- A shutdown waits for HTTP requests up to a time limit and for gRPC calls
  without one, one after the other.

**What makes each component correct.**

- *Invoice service*: an invoice marked posted is backed by the ledger and the
  vendor balance; payments exist for posted invoices only, are never more than
  the total, and `amount_paid` is their sum; a row leaves the table from draft
  only; the status follows the documented life cycle; the three books agree.
- *gRPC handler*: an active workflow means a pending invoice and the other way
  round; an approved invoice had all its steps approved; only the submitter
  recalls; a notification tells what is so.
- *Routing service*: no step is passed over; a step is decided by whom it was
  assigned or delegated to; an approved invoice had every step approve; every decision is in
  the audit log, and stays there; a delegated step reaches its delegate.
- *Rules*: an invoice is routed by the first rule that matches, and there is
  only one such; amount ranges meet without a gap; a workflow asks somebody.
- *Server*: a shutdown ends; what it cuts off is an HTTP request out of time.

`PROJECT.json` lists the hazards at their lines, with the properties that would
catch each one.

## 2. Modules and the code they model

```
InvoiceLifecycle (abstract)
       ^ INSTANCE
InvoiceSerial      InvoiceServer
       |               v
       |---------> InvoiceLedger
 MCInvoiceService      v
                 InvoiceService <-- ApprovalGateway <-- MCApprovalGateway

InvoiceService <-- InvoiceServiceProofs <-- InvoicePaymentProofs
InvoicePaymentProofs, InvoiceSerial <-- InvoiceSerialProofs
InvoiceSerialProofs, InvoiceServer <-- InvoiceLedgerProofs
InvoiceSerialProofs, ApprovalGateway <-- ApprovalGatewayProofs

ApprovalRouting <-- MCApprovalRouting
ApprovalRouting <-- ApprovalRoutingProofs <-- ApprovalRoutingSerialProofs
ApprovalRules   <-- MCApprovalRules, ApprovalRulesProofs
```

Plain arrows are EXTENDS.

**InvoiceService** is the core. `invoices` is the table by identifier with the
columns `status`, number, `total_amount`, `amount_paid`, `posted_to_gl` and
`gl_journal_id`; `payments` the committed payment rows and `paidTotal` their
sum per invoice, what the trigger's `SELECT SUM` returns; `journals` and
`balanceCalls` are what GL-2 and AP-1 were told; `req[w]` is the request worker
`w` serves: where its handler is and its local variables. Each handler is split
where another request can come in between:

| handler | actions |
|---|---|
| CreateInvoice | `CreateInvoice`, one transaction |
| SubmitForApproval, ApproveInvoice, RejectInvoice, RecallInvoice, DeleteInvoice | the read with its checks (`SubmitForApproval`, ...), then the statement (`SubmitUpdate`, ..., `DeleteExec`) |
| PostInvoice | `PostInvoice` (header and checks), `PostReadLines`, `PostCreate`, `PostPost`, `PostBalance`, `PostMark` |
| RecordPayment | `RecordPayment` (read and checks), `PaySum` (insert up to the trigger's sum), `PayCommit` (the trigger's UPDATE and commit), `PayCreate`, `PayPost`, `PayBalance` |
| any error, timeout, closed connection, crash | `Abort` |

Reading twice, as `PostInvoice` does, is two actions because `GetByID` issues
two queries outside a transaction. The final `GetByID` of a handler only builds
the answer. A request that is refused changes nothing and is no action. The
foreign key of `invoice_payments` is in `PaySum` (the row must be there) and in
`DeleteExec` (it waits for open inserts).

**InvoiceLedger** adds sums over payments, journals and balances.
**InvoiceLifecycle** is the abstract promise, a stage and an
amount due per invoice; **InvoiceSerial** shows that the service implements it,
with `stage` the status column and `due` the generated column `amount_due`.

**InvoiceServer** puts the process around the service: `phase` is how far `main`
is with its shutdown, `http` says which workers serve an HTTP request, and `cut`
remembers the invoices whose request the exit cut off. `HttpRequest` and
`GrpcCall` are the routes of the two servers, `Handle` a step of a handler in a
process that is still there, `Signal`, `HttpShutdown` and `GracefulStop` the end
of `main`.

**ApprovalGateway** puts the gRPC and HTTP handlers on top of InvoiceService:
`rpc[w]` is the gRPC call of worker `w`, `workflows` the workflows of
be-plt-approvals, `updatedBy` and `approvedBy` the columns in which a
submission and an approval leave the user (HTTP requests leave none), and
`disturbed` the history of the invoices for which a call was cut short or came
over HTTP. A call that publishes an event does so last (`GrpcAnnounce`); what
the event says, its position in `rpc` says.
Calls that go on to the service use its actions unchanged, among them those
that pay no attention to the workflow: delete, PostToGL and the HTTP routes for
posting and payment (`PlainRequest`, `PlainExec`), by which an approved invoice
becomes posted and paid whatever its workflow does. be-plt-approvals is
external: its calls are atomic, `ApproveStep` and `RejectWorkflow` are refused
unless the workflow is active and the step current, `RecallWorkflow` unless the
caller submitted it (the handler's comment at line 447 relies on that),
`DelegateStep` changes who may act and nothing the handlers see, and
`CreateWorkflow` does not refuse a second one.

**ApprovalRouting** is the routing service of this repository with its tables.
`call[w]` is the call of worker `w`: after its reads (`ReadWorkflow` or
`RecallWorkflow` or `DelegateStep`, then `ReadStep`) come the step, the
workflow, the invoice and the audit entry, one statement each. The invoice is
reduced to its status. A rule's outcome is any non-empty set of step numbers up
to `MaxStep` and any assignment of users, gaps included, because rules choose
the numbers freely and `buildSteps` copies them. (The identity client of this
build answers with no user, so that all steps are unassigned; the model has the
assigned ones of its interface too.) `DeleteInvoice` is the DELETE of a draft
with what the schema does: workflows and steps go along, the trigger of the
audit log refuses. A call whose invoice is deleted meanwhile can only end.

**ApprovalRules** is the rules table with the methods of its repository, one
statement each, and CreateApprovalWorkflow from its lookup (`LookUpRule`) to its
insert (`InsertWorkflow`), between which it asks the identity service for
approvers. `rules` is the table; `builds` what became of each workflow. List and
match are pure operators: `List` is the sequence of the active rules in which
none is ahead of one that ORDER BY puts before it;
`FindMatchingRule` takes the first that `ruleMatches`. The repository's create,
update and delete have no caller in this build; administrators are modelled as
calling them at any time.

## 3. Runs

There is one run for each question. All amounts, identifiers and users are
interchangeable small sets, with symmetry except where liveness is checked.
Every run sets `CHECK_DEADLOCK FALSE`: the instances stop when identifiers are
used up or no request is legal any more, which the service may do too. "Serial"
means that requests for one invoice do not overlap (they may still fail at any
step); "reliable" that they do not fail by themselves either.

| run | instance | question and properties |
|---|---|---|
| Concurrent | 1 invoice of total 0 or 2, 3 workers, 3 journals, 2 payments | What holds whatever overlaps or fails? `PostedIsBacked`, `PaymentsOnlyForPosted`, `PaymentEntriesBacked`, `PaidWithinPayments`, `PaidMeansFullyPaid`, `BalanceCoversPosted`, `DeletedOnlyDraft` |
| Serial | serial: 2 invoices of total 0 or 2, 2 workers | Is the documented life cycle implemented, and the payment arithmetic right? `AmountPaidIsSum`, `NoOverpayment`, `RefinesLifecycle` |
| Shutdown | reliable and fair, HTTP and gRPC: 2 invoices, 2 workers, 3 journals, 1 payment, a signal at any time | Do posts and payments complete, what does a shutdown cut off, and does it end? `PostCompletes`, `PaymentSettles`, `BooksClosed`, `ShutdownEnds` |
| Gateway | serial and fair, gRPC and HTTP: 1 invoice, 2 workflows of up to 2 steps, 2 users, 2 journals, 1 payment | Do invoice and workflow agree, does a completed workflow approve, and are notifications true? `ActiveWorkflowIsPending`, `ServicesAgree`, `CompletionApproves`, `AnnouncedIsTrue`, `GatewayTypeOK` |
| Routing | 1 workflow of up to 2 steps, 2 workers, 2 users, any overlap or failure, deletes | Can an approver be passed over or replaced, or the audit log lose what it tells of? `NoStepSkipped`, `OnlyApproversAct`, `AuditKept` |
| RoutingSerial | serial: 2 workflows of one invoice | Is every approval complete, and the audit log true? `ApprovedByAllSteps`, `AuditTruthful` |
| Rules | 3 rules of 2 entities, 2 names, 2 priorities, 2 amounts, 2 vendors; 1 workflow | Is an invoice routed by the first rule that matches, with no other level with it, and does a workflow survive changes of its rule? `FirstMatchRoutes`, `RangesMeet`, `WorkflowRuleKnown`, `WorkflowHasSteps` |

The invariants named `TypeOK` and `GatewayTypeOK` are more than types where the
proofs need it: they say that a row is there or not, that a request keeps to
the invoice and workflow it read, and that a decision is not taken back.

**Why the bounds are enough.** All guards and statements concern one invoice
(the unique number apart, for which Serial has two invoices), so one invoice is
where requests meet. Three workers allow a request to be overtaken by another
while a third completes the life cycle, which is what the stale updates need.
Two payments of 1 on a total of 2 give the partial payment, the exact payment,
the overpayment and the lost update; a total of 0 is the boundary of the
comparison with the amount due. Three journals allow a post, its repetition
after a failure, and a payment; `PaymentId` and `JournalId` run out before other
effects would repeat themselves. Two workflows give a resubmission; two steps
give a first and a last one, and a gap (`{2}`).
Gateway has one worker and one invoice: calls for one invoice do not overlap in
it, and calls for different ones share nothing but the identifiers of
be-plt-approvals. Two workflows give a submission after one that was rejected,
recalled or forgotten; two steps give a first and a last one. Two journals and a
payment let an invoice be posted, after a failed attempt too, and be paid, while
its workflow is completed or goes on. Overlapping gateway calls are in
StaleApproval, with two workers.
Shutdown has a second invoice and worker so that an HTTP request and a gRPC call
are under way together; its total is not zero, as a payment has to be possible.
Routing has one workflow, since two workflows share nothing but the invoice's
status, of which its properties read only whether it was deleted. Its
configuration gives TLC the `VIEW` `AuditedWorkflows`, which leaves out what no
guard or update reads again: of the audit log all but the workflows it knows,
the user of a call that has written its step, and
what a call was about that can only end. States that differ in nothing else go
on alike, and of this run's properties only `TypeOK` reads these parts, for
their types.
Rules has three rules so that an order of two can be disturbed by a third; the
two amounts are below and at the threshold that the ranges share; the steps of
the rules are in order, absent, doubled or 0.

For each property a mutant of the code is kept beside the definition it mutates
(a comment "Mutant:" names it): a dropped status check, an UPSERT, a trigger
that adds instead of stores, a skipped balance call, a bound that is inclusive,
a server that stops without waiting. Each of them breaks the
property in the run that checks it.

## 4. Disagreements between code and documentation

These runs end in a counterexample, kept so that a repair shows: the property
states what a comment or the documentation says.

| run | the text | the code |
|---|---|---|
| LatePosted | `README.md:38` posted invoices are immutable | a reject that was checked earlier writes draft over a posted invoice |
| Overpaid | `invoice_service.go:451` "Validate not overpaying" | the amount due is read without a lock |
| RecallByOther | `grpc_handler.go:431` "submitter only" | without an active workflow nobody checks the submitter |
| StaleApproval | `grpc_handler.go:324` "All steps done", `:362` "no active workflow" | an approval between a submission's update and its CreateWorkflow approves the invoice, whose workflow is then created |
| DelegatedStep | `approval_steps_repository.go:65` delegated steps included | the list asks for status pending |

The models contain more behaviours of the same two kinds, which have no run of
their own. Where calls overlap: two payment triggers that miss each other's
row, a post whose lines were deleted between its two queries, an approval that
lands on a resubmission, a rejection that overwrites the step of an
approval, a delete that takes a recalled workflow away before its audit entry
is written. Where a call fails half way: a journal without the flag, a decision
without its audit entry. The passing runs say how far these go. A late reject
does not undo `posted_to_gl` or lose the journal (`PostedIsBacked`); a lost
trigger update makes `amount_paid` too small, never too large
(`PaidWithinPayments`); a repeated post raises the vendor balance too much,
never too little (`BalanceCoversPosted`); a missing audit entry is missing, but
no entry is wrong (`AuditTruthful`). Clients that keep requests for one invoice
apart get the documented life cycle (`RefinesLifecycle`).

What the passing runs do not forbid, since the code does it: the second journal
and vendor balance of overlapping or repeated posts; a payment missing in
`amount_paid`; a payment row without its journal after a failure; an approval
that lands after a recall, a decision overwritten by another, a workflow that is
revived or stuck; the lost trace of a deleted invoice. Of the handlers,
`ServicesAgree` and `CompletionApproves` except the invoices with a call that
was cut short or came over HTTP, and `ActiveWorkflowIsPending` says exactly what
is left then: an active workflow belongs to a pending invoice or to one that
was approved over HTTP, which may have been posted and paid since, and there is
never a second one. A pending invoice without a workflow satisfies it.
An unassigned step that is delegated between the check and the write is decided
by anybody who was allowed it before. Of assigned steps, `OnlyApproversAct` is met
by the assignee alone, as no approver passes the check of a delegated step
(DelegatedStep); it admits the delegate, so that it still holds once that is
repaired.

A payment credits the AP account like an invoice does while it lowers the vendor
balance (`invoice_service.go:503`, `:544`). `README.md:252-255` documents these
entries, so the models have them and no run calls them wrong.

The comment at `approval_rules_repository.go:201` says that only rules without
workflows can be deleted; the foreign key is `ON DELETE SET NULL`, so the delete
succeeds, which is how ApprovalRules has it: `WorkflowRuleKnown` says what is
left.

## 5. Fairness

Safety runs assume none. `ServerSpec` and `SerialGatewaySpec` assume weak
fairness of `Handle(w)` and `GatewayProceed(w)` for each worker: a handler that
has started is a goroutine running straight-line code, so it takes its next
statement unless that blocks. It can block on a row lock, which other statements
release, or on a remote call, which returns, or fails as in `GatewayAbort`; a
call that was cut short is never resumed, and the gateway's liveness property
says so. `InvoiceServer` has no failures of single requests: a shutdown is the
only thing that stops them there. `main` is fair once it was told to stop:
`HttpShutdown` returns at its time limit at the latest, and `GracefulStop` when
no call is left, which the fairness of the handlers brings about; a peer that
never answers a gRPC call would hold it up for good. Beginning a request is
never fair, nor is the signal: no client has to come.

## 6. Proofs

TLAPS checks the following for any sets of invoices, workers, journals,
payments, workflows, users and rules, any totals and any number of steps. The
assumptions are those declared in the modules: totals are naturals, `MaxStep`
is positive, rules are rows of their table, and `Nil` is none of the
identifiers. Each safety property a passing run checks has its theorem.

| theorem | says |
|---|---|
| `InvoiceServiceProofs!TypeCorrect` | `Spec => [](TypeOK /\ OpenInsertHasRow)` |
| `InvoiceServiceProofs!PostedIsBackedAlways` | `Spec => []PostedIsBacked` |
| `InvoicePaymentProofs!PaymentsFollowPosting` | `Spec => []PaymentsOnlyForPosted` |
| `InvoicePaymentProofs!PaidNeverAhead` | `Spec => []PaidWithinPayments` |
| `InvoicePaymentProofs!PaidIsPaid` | `Spec => []PaidMeansFullyPaid` |
| `InvoicePaymentProofs!EntriesStandForPayments` | `Spec => []PaymentEntriesBacked` |
| `InvoicePaymentProofs!DeletesDraftsOnly` | `Spec => DeletedOnlyDraft` |
| `InvoiceSerialProofs!ServiceImplementsLifecycle` | `SerialSpec => RefinesLifecycle` |
| `InvoiceLedgerProofs!BalanceCovers` | `Spec => []BalanceCoversPosted` |
| `InvoiceLedgerProofs!PaidIsSum` | `SerialSpec => []AmountPaidIsSum` |
| `InvoiceLedgerProofs!NeverOverpaid` | `SerialSpec => []NoOverpayment` |
| `InvoiceLedgerProofs!BooksAlwaysClose` | `ServerSpec => []BooksClosed` |
| `ApprovalGatewayProofs!GatewayTypeCorrect` | `GatewaySpec => []GatewayTypeOK` |
| `ApprovalGatewayProofs!GatewayImplementsService` | `GatewaySpec => Spec` |
| `ApprovalGatewayProofs!GatewayKeepsLifecycle` | `SerialGatewaySpec => RefinesLifecycle` |
| `ApprovalGatewayProofs!ActiveIsPending` | `SerialGatewaySpec => []ActiveWorkflowIsPending` |
| `ApprovalGatewayProofs!ServicesAgreeAlways` | `SerialGatewaySpec => []ServicesAgree` |
| `ApprovalGatewayProofs!AnnouncementsTrue` | `SerialGatewaySpec => []AnnouncedIsTrue` |
| `ApprovalRoutingProofs!TypeCorrect` | `Spec => []TypeOK` |
| `ApprovalRoutingProofs!NobodyPassedOver` | `Spec => []NoStepSkipped` |
| `ApprovalRoutingProofs!LogKept` | `Spec => []AuditKept` |
| `ApprovalRoutingProofs!ApproversDecide` | `Spec => []OnlyApproversAct` |
| `ApprovalRoutingSerialProofs!AllStepsApproved` | `SerialSpec => []ApprovedByAllSteps` |
| `ApprovalRoutingSerialProofs!LogTruthful` | `SerialSpec => []AuditTruthful` |
| `ApprovalRulesProofs!RulesTypeCorrect` | `Spec => []TypeOK` |
| `ApprovalRulesProofs!LookupFindsFirst` | `Spec => []FirstMatchRoutes` |
| `ApprovalRulesProofs!AmountRangesMeet` | `Spec => []RangesMeet` |
| `ApprovalRulesProofs!RuleOfWorkflowKnown` | `Spec => []WorkflowRuleKnown` |
| `ApprovalRulesProofs!WorkflowAsks` | `Spec => []WorkflowHasSteps` |

*TypeCorrect (invoice service).* `TypeOK` alone is not inductive: `PayCommit`
updates the invoice row without asking whether it is there, and would turn an
absent row into something that is no row. `OpenInsertHasRow`, the foreign key's
lock, is the missing half; it is preserved because `DeleteExec` waits for open
inserts and nothing else removes a row. One lemma per part (rows, requests,
remotes, open inserts) treats the actions, over lemmas on what one record or one
row update does.

*PostedIsBackedAlways.* The invariant says nothing of a handler on its way to
`PostMark`. The strengthening (`PostProgress`) states for each worker what it
has done: past `PostCreate` the journal is an `ap_invoice` entry of its invoice
with its credit, past `PostPost` it is posted, past `PostBalance` AP-1 was told, and
the amount is the total of the invoice as long as that is there. The first facts
are stable since GL-2's entries are only created and posted and AP-1's calls
only grow, the last since a total never changes and an identifier is
never used twice.

*The payments.* `Effects` lists what a step can do to a row and to the sum of
its payments; `DeletesDraftsOnly` is read off it. `PayInv` adds to the three
properties what the reads of a payment in flight are still worth
(`PayProgress`): the invoice has stayed posted as long as it is there, since
nothing takes the flag back and identifiers are not used twice; and the sum the
trigger will store is at most the committed sum and its own amount, since only a
delete lowers the sum and the foreign key makes a delete wait. *PaidNeverAhead*
and *PaidIsPaid* follow at the commit. *EntriesStandForPayments* needs, besides,
that the identifier of a payment without an entry is its worker's alone
(`OwnPayments`), and that the row is there when the entry is created.

*ServiceImplementsLifecycle.* The statements match on the identifier alone, so
that they do what the life cycle allows only if the row is as the check has seen
it. `SerialInv` says that it is when the requests for one invoice do not overlap
(`Fresh`: nobody else writes the row), and that `amount_paid` is the committed
sum and status paid leaves nothing due (`Settled`), so that no payment is begun
on a paid invoice. `ProceedImplements` then maps each handler's write to the
action of the life cycle, and everything else to a stutter. Failures need no
step of their own: they end a request between its statements.

*The sums.* The prover has no induction over data, but a finite set has, among
any of its subsets, one that contains no other: `MinimalSubset`, from the
library's theorem that strict inclusion is well founded. So a statement about
all finite sets is proved by looking at a smallest counterexample. That gives,
for the partial sums `MapThenSumSet` goes through, that they exist and do not
depend on which element is taken first, and from there what the proofs use: a
sum with one element more (`SumAdd`), along a bijection (`SumPairs`), and
group by group (`SumGroups`).

*PaidIsSum* and *NeverOverpaid.* `SumInv` says that the sum a trigger reads is
that of the rows, for any overlap. `Settled` of the life cycle proof then gives
`amount_paid`, and `Fresh` that the amount due the payment was compared with is
still due at its commit.

*BalanceCovers* holds with every overlap and failure. `CallsInv` pairs what
AP-1 was told with the entries of GL-2: each call names a posted entry and moves
the balance by its credit, up for an invoice and down for a payment, and no
entry has two calls. A repeated post has an entry and a call of its own, which
only adds to the balance; `PostedIsBacked` provides one for each posted invoice.

*BooksAlwaysClose* needs equality instead, for requests that do not overlap and
do not fail by themselves. `BooksInv` says that nothing is lost on the way: an
entry is marked in AP-2 or told to AP-1, or a worker is about to do it; a payment row
has its entry, or a worker is about to create it. When nobody is at work only the
first halves are left, and the sums are equal by pairing. A shutdown keeps all
this until it cuts a request off, after which nothing happens any more
(`ServerInv`, `ServerServes`).

*The gateway.* `GatewayTypeCorrect` rests on `GatewayInv`, which ties the
service's request to the handler's step (`CallOK`). The handlers use the
service's operations and nothing else (`GatewayImplementsService`), so that the
service's invariants, and the life cycle, hold behind them; that an invoice is
as it was checked is inherited from `SerialInv`. `StoryInv` adds the other
service: what a handler knows by its step (`Knows`), what the event it is about
to publish says (`Tells`), and that invoice and workflow agree unless a handler
is `Between` its change of the one and of the other (`Reviewed`). A call changes only the invoice
of its own and the workflows tied to it (`ElsewhereKept`), and is alone there;
the failures need that `disturbed` remembers them. What can still be wrong is
said, too: an approval over HTTP, which has no `approvedBy`, leaves the workflow
active. Posting and payment (`PlainGoesOn`, `PlainStarts`) keep all this, since
they move an approved invoice along `Approved` only and touch no workflow.

*TypeCorrect (routing)* keeps, beside types, that a step has an actor exactly
when it was decided: no statement takes a decision back, which is where
`RecallSteps`' clause `status = 'pending'` is needed.

*NobodyPassedOver.* Two calls may work on one workflow, and `AdvanceStep` and
`UpdateStatus` are unconditional. `InTurn` carries what an approval knows
from its reads to its writes: the steps before its own are decided. As decisions
stay (`DecidedStays`) this cannot expire, however late the write.

*LogKept* is inductive with `TypeOK`: an entry is only appended for an invoice
that is there, whose workflow then is, and only `DeleteInvoice` deletes, which
the trigger stops for an audited invoice.

*ApproversDecide.* An approval writes with the user it was checked for long
before. `Permitted` says of such a call that its step is unassigned or its
user's; `Owned` says of each row that it is not delegated while it is pending,
so that on a pending, assigned step `assertCanAct` lets its assignee pass and no
delegate, and that a decided one was decided by him. Assignments never change, so the
check cannot expire.

*AllStepsApproved* and *LogTruthful.* Calls for one invoice do not overlap, but
any of them may stop between two statements, so what a call leaves has to be as
sound as what it finds. `Sound` says that the steps before a workflow's current
one are approved and that it has as many steps as its total says. A workflow
that passes its last step has then all of them approved, by counting: as many
approved steps as there are steps leave none, whatever gaps the numbers have.
`Knows` says what a call's reads are still worth at each of its statements;
`Stands`, that no later call takes back what an entry of the log may tell of.

*The rules.* `RulesInv` says that names are unique, the rows finitely many, and
what a workflow under construction knows of its rule. `List` is given by the
property that ORDER BY promises; that there is such a list for any finite set of
rules is proved by taking a smallest set without one and putting its last rule
behind the rest (`OrderedExtends`). The loop of `FindMatchingRule` then returns
the first match, with no other level with it, as names are unique in an entity
after any create and update (`NamesUnique`, `BeforeOrders`).
*RuleOfWorkflowKnown* is where the foreign key counts: a rule deleted between the
lookup and the insert fails the insert, one deleted later is set to NULL.
*RangesMeet* is arithmetic at the bound that two ranges share.

*WorkflowAsks* strengthens the property to builds that are not inserted yet:
`resolveStepDefs` never answers with nothing, and the constraints of the step
table stand at the insert.

**Model-checked only:** liveness, which is out of the prover's reach:
`PostCompletes`, `PaymentSettles`, `ShutdownEnds` and `CompletionApproves`. The
runs of section 4 end in counterexamples and have nothing to prove.

## 7. What is not modelled

- Validation of request fields, lookups in GL-1, AP-1 and the identity service:
  a failure refuses the request before it changes anything, or is an `Abort`.
- Invoice types, currencies, dates, discounts, dimensions, tax: no state change
  depends on them. The lines of an invoice are their sum, which the trigger
  `update_invoice_totals` keeps equal to the total within the insert.
- BIGINT overflow: PostgreSQL raises an error, which aborts the statement.
- Entities: every statement also matches on `entity_id`; one entity is modelled.
- Queries (get, list, history, pending), except the routing service's pending list.
- The content and delivery of notifications: fire and forget, no state depends
  on them. The documented event `invoice_recalled` is never published.
- The mapping of errors to gRPC codes (`grpc_handler.go:752`): wording only.
- `AssignStep` of the steps repository: no code calls it.
- The approval history: the wired code reads a local table it never writes.
- `UpdateInvoice`: answers Unimplemented.
- GL-2 might refuse a repeated journal number `AP-INV-<number>`; it is assumed
  to accept it, the choice that allows more behaviours after a failed post.
- Configuration and the opening of connections at the start of `main`.

## 8. Plan

Done: the invoice service with its ledger and life cycle, the server with its
shutdown, the gateway with delegation and notifications, the routing service
with deletes, and the rules; every safety property of the passing runs proved.
Left, in this order:

1. **ApprovalGateway**, overlapping calls: what remains of the agreement of
   invoice and workflow then, checked and proved.
2. **Actions**: what no step may do, beside `DeletedOnlyDraft`, where a theorem
   says more than the invariants do: a decision taken back, a total changed.
3. **Routing**: an abstract workflow (an approver list worked off in order) that
   the serial routing service implements.

A new run replaces or joins an old one where it asks the same question, so that
the list in section 3 stays short.
