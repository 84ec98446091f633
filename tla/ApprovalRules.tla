---------------------------- MODULE ApprovalRules ----------------------------
(***************************************************************************)
(* The approval rules (internal/repository/approval_rules_repository.go,   *)
(* table invoice_approval_rules of migrations/002_approval_workflow.sql)   *)
(* and the one reader they have: the first half of CreateApprovalWorkflow  *)
(* (internal/service/approval_routing_service.go), which looks a rule up,  *)
(* asks the identity service for approvers and only then inserts the       *)
(* workflow that refers to the rule.  Nothing holds the rule in between,   *)
(* so that administrators can change or delete it.                         *)
(*                                                                         *)
(* Each repository method is one SQL statement and so one action.  Rules   *)
(* are told apart by name and priority; a step definition is its number.   *)
(* What becomes of the workflow afterwards is ApprovalRouting's matter.    *)
(***************************************************************************)
EXTENDS Integers, SequencesExt

CONSTANTS
    RuleId, WorkflowId, Entity, Vendor, Department,
    Amounts,        \* totals of invoices, in cents
    Rows,           \* the rows administrators enter
    Nil             \* SQL NULL

VARIABLES
    rules,          \* table invoice_approval_rules: by identifier
    builds          \* CreateApprovalWorkflow by the workflow it creates, and
                    \* once it is there the row's rule_id and steps

vars == <<rules, builds>>

-----------------------------------------------------------------------------
(* Rows                                                                    *)

\* A threshold; the CHECK constraints refuse negative ones.
Bound == Nat \cup {Nil}

\* What a rule looks at.  Columns its type does not use are NULL.
AmountCriteria == [type : {"amount_based"}, min : Bound, max : Bound,
                   vendor : {Nil}, department : {Nil}]
VendorCriteria == [type : {"vendor_based"}, min : {Nil}, max : {Nil},
                   vendor : Vendor \cup {Nil}, department : {Nil}]
DepartmentCriteria == [type : {"department_based"}, min : {Nil}, max : {Nil},
                       vendor : {Nil}, department : Department \cup {Nil}]

Criteria == AmountCriteria \cup VendorCriteria \cup DepartmentCriteria

\* A name is its place in the order of the column, steps the step numbers of
\* the column approval_steps.
Rule == [entity : Entity, name : Int, active : BOOLEAN, on : Criteria,
         steps : Seq(Int), priority : Int]

ASSUME RowsAssumption == Rows \subseteq Rule
ASSUME AmountsAssumption == Amounts \subseteq Nat
ASSUME RulesNilAssumption == Nil \notin RuleId \cup Entity \cup Vendor \cup Department

\* Before its row is inserted, and after it is deleted: identifiers are not
\* used twice.
NoRule == [entity |-> Nil, gone |-> FALSE]
DeletedRule == [entity |-> Nil, gone |-> TRUE]

Exists(r) == rules[r] \notin {NoRule, DeletedRule}
Of(r, e) == Exists(r) /\ rules[r].entity = e

\* What an invoice is matched by: its total, its vendor and the department of
\* its first line.
Attributes == [amount : Amounts, vendor : Vendor, department : Department \cup {Nil}]

BuildStep == {"none", "insert", "created", "failed"}

Build == [pc : BuildStep, entity : Entity \cup {Nil}, rule : RuleId \cup {Nil},
          steps : Seq(Int)]

NoBuild == [pc |-> "none", entity |-> Nil, rule |-> Nil, steps |-> <<>>]

-----------------------------------------------------------------------------
(* Repository                                                              *)

\* CHECK and UNIQUE constraints of the table, for row r to become row.
RowAllowed(r, row) ==
    /\ row.on.min # Nil /\ row.on.max # Nil => row.on.min <= row.on.max
    /\ \A q \in RuleId \ {r} : Of(q, row.entity) => rules[q].name # row.name

\* Create: refused by the constraints, or a new row.
CreateRule(row) ==
    \E r \in RuleId :
        /\ rules[r] = NoRule
        /\ RowAllowed(r, row)
        /\ rules' = [rules EXCEPT ![r] = row]
        /\ UNCHANGED builds

\* Update: every column but the entity, which is matched with the identifier.
UpdateRule(r, row) ==
    /\ Of(r, row.entity)
    /\ RowAllowed(r, row)
    /\ rules' = [rules EXCEPT ![r] = row]
    /\ UNCHANGED builds

\* Delete; workflows of the rule lose their rule_id (ON DELETE SET NULL).
DeleteRule(r, e) ==
    /\ Of(r, e)
    /\ rules' = [rules EXCEPT ![r] = DeletedRule]
    /\ builds' = [x \in WorkflowId |->
          IF builds[x].pc = "created" /\ builds[x].rule = r
          THEN [builds[x] EXCEPT !.rule = Nil] ELSE builds[x]]

\* ORDER BY priority ASC, rule_name ASC
Before(q, r) ==
    \/ rules[q].priority < rules[r].priority
    \/ rules[q].priority = rules[r].priority /\ rules[q].name < rules[r].name

\* The rows of S, each once, and none ahead of one that Op puts before it.
Sorted(S, Op(_, _)) ==
    CHOOSE s \in SetToSeqs(S) :
        \A a, b \in DOMAIN s : a < b => ~Op(s[b], s[a])

Active(e) == {r \in RuleId : Of(r, e) /\ rules[r].active}

\* Mutant: the order of the rows is left to their names.
ListByName(e) == Sorted(Active(e), LAMBDA q, r : rules[q].name < rules[r].name)

\* List, active rules only.
List(e) == Sorted(Active(e), Before)

\* Mutant: the upper bound is inclusive.
MatchesUpTo(on, inv) ==
    \/ /\ on.type = "amount_based"
       /\ on.min # Nil => inv.amount >= on.min
       /\ on.max # Nil => inv.amount <= on.max
    \/ /\ on.type = "vendor_based"
       /\ on.vendor # Nil /\ on.vendor = inv.vendor
    \/ /\ on.type = "department_based"
       /\ on.department # Nil /\ on.department = inv.department

ruleMatches(on, inv) ==
    \/ /\ on.type = "amount_based"
       /\ on.min # Nil => inv.amount >= on.min
       /\ on.max # Nil => inv.amount < on.max
    \/ /\ on.type = "vendor_based"
       /\ on.vendor # Nil /\ on.vendor = inv.vendor
    \/ /\ on.type = "department_based"
       /\ on.department # Nil /\ on.department = inv.department

\* The loop over the list: the first rule that matches, or nil.
FindMatchingRule(e, inv) ==
    LET k == SelectInSeq(List(e), LAMBDA r : ruleMatches(rules[r].on, inv))
    IN  IF k = 0 THEN Nil ELSE List(e)[k]

-----------------------------------------------------------------------------
(* CreateApprovalWorkflow                                                  *)

DefaultSteps == <<1>>

\* Mutant: a rule without steps asks for none.
StepsOfRule(r) == IF r # Nil THEN rules[r].steps ELSE DefaultSteps

resolveStepDefs(r) ==
    IF r # Nil /\ rules[r].steps # <<>> THEN rules[r].steps ELSE DefaultSteps

\* Mutant: the entity of the workflow is taken from the rule.
EntityOfRule(x, e, inv) ==
    LET r == FindMatchingRule(e, inv) IN
    /\ builds[x].pc = "none"
    /\ builds' = [builds EXCEPT ![x] =
          [pc |-> "insert", entity |-> IF r = Nil THEN Nil ELSE rules[r].entity,
           rule |-> r, steps |-> resolveStepDefs(r)]]
    /\ UNCHANGED rules

\* From the lookup to the insert, with the approvers asked for in between.
LookUpRule(x, e, inv) ==
    LET r == FindMatchingRule(e, inv) IN
    /\ builds[x].pc = "none"
    /\ builds' = [builds EXCEPT ![x] =
          [pc |-> "insert", entity |-> e, rule |-> r, steps |-> resolveStepDefs(r)]]
    /\ UNCHANGED rules

\* Constraints of table invoice_approval_steps: a workflow has no step number
\* twice and none below 1.
StepsAllowed(steps) ==
    IsInjective(steps) /\ \A k \in DOMAIN steps : steps[k] >= 1

\* Mutant: the foreign key is not checked.
InsertUnchecked(x) ==
    /\ builds[x].pc = "insert"
    /\ builds' = [builds EXCEPT ![x] = [@ EXCEPT !.pc =
          IF StepsAllowed(builds[x].steps) THEN "created" ELSE "failed"]]
    /\ UNCHANGED rules

\* One transaction for the workflow and its steps: the rule has to be there,
\* and the table of the steps has to take them.
InsertWorkflow(x) ==
    LET b == builds[x] IN
    /\ b.pc = "insert"
    /\ builds' = [builds EXCEPT ![x] = [@ EXCEPT !.pc =
          IF (b.rule # Nil => Exists(b.rule)) /\ StepsAllowed(b.steps)
          THEN "created" ELSE "failed"]]
    /\ UNCHANGED rules

-----------------------------------------------------------------------------
Init ==
    /\ rules = [r \in RuleId |-> NoRule]
    /\ builds = [x \in WorkflowId |-> NoBuild]

Administer ==
    \/ \E row \in Rows :
          \/ CreateRule(row)
          \/ \E r \in RuleId : UpdateRule(r, row)
    \/ \E r \in RuleId, e \in Entity : DeleteRule(r, e)

Next ==
    \/ Administer
    \/ \E x \in WorkflowId :
          \/ \E e \in Entity, inv \in Attributes : LookUpRule(x, e, inv)
          \/ InsertWorkflow(x)

Spec == Init /\ [][Next]_vars

-----------------------------------------------------------------------------
(* Properties                                                              *)

\* Rows and local variables are whole: a build knows its entity from its
\* lookup on, and the rule it found was inserted, if not still there.
TypeOK ==
    /\ rules \in [RuleId -> Rule \cup {NoRule, DeletedRule}]
    /\ builds \in [WorkflowId -> Build]
    /\ \A x \in WorkflowId :
          /\ builds[x].pc # "none" => builds[x].entity \in Entity
          /\ builds[x].rule # Nil => rules[builds[x].rule] # NoRule

\* Every invoice is routed by the rule of its entity that is first among the
\* active ones that match, by priority and then by name, and by none only if
\* none matches.  No other that matches is level with it, so that routing does
\* not depend on the order in which the database happens to return rows.
FirstMatchRoutes ==
    \A e \in Entity, inv \in Attributes :
        LET Fits(r) == Of(r, e) /\ rules[r].active /\ ruleMatches(rules[r].on, inv)
            found == FindMatchingRule(e, inv)
        IN  IF found = Nil THEN \A r \in RuleId : ~Fits(r)
            ELSE Fits(found) /\ \A r \in RuleId \ {found} : Fits(r) => Before(found, r)

\* "Inclusive lower bound", "Exclusive upper bound" (002_approval_workflow.sql:
\* 223): where one amount range ends and another begins, each total belongs
\* to exactly one of the two.
RangesMeet ==
    \A q, r \in RuleId :
        LET on == rules[q].on
            next == rules[r].on
        IN  /\ Exists(q) /\ Exists(r)
            /\ {on.type, next.type} = {"amount_based"}
            /\ on.max # Nil /\ on.max = next.min
            => \A inv \in Attributes :
                  /\ ~(ruleMatches(on, inv) /\ ruleMatches(next, inv))
                  /\ /\ on.min # Nil => inv.amount >= on.min
                     /\ next.max # Nil => inv.amount < next.max
                     => ruleMatches(on, inv) \/ ruleMatches(next, inv)

\* However administrators and submissions interleave, a workflow refers to a
\* rule that is there, of its own entity, or to none.
WorkflowRuleKnown ==
    \A x \in WorkflowId :
        builds[x].pc = "created" /\ builds[x].rule # Nil
            => Of(builds[x].rule, builds[x].entity)

\* A workflow has at least one step, no number twice and none below 1,
\* whatever the rule it was made from says or became: there is always somebody
\* to ask, and total_steps counts the steps.
WorkflowHasSteps ==
    \A x \in WorkflowId :
        builds[x].pc = "created" =>
            LET steps == builds[x].steps IN
            /\ steps # <<>>
            /\ IsInjective(steps) /\ \A k \in DOMAIN steps : steps[k] >= 1

=============================================================================
