------------------------- MODULE ApprovalRulesProofs -------------------------
(***************************************************************************)
(* Proofs about ApprovalRules for any sets of rules, entities and rows:    *)
(* the order of the rules, what the sorted list and the loop over it find, *)
(* and the workflows made from it.                                         *)
(***************************************************************************)
EXTENDS ApprovalRules, FiniteSetTheorems, SequenceTheorems, TLAPS

-----------------------------------------------------------------------------
(* The order of the rules                                                  *)

RuleRowsOK == rules \in [RuleId -> Rule \cup {NoRule, DeletedRule}]

NamesUnique ==
    \A q, r \in RuleId :
        /\ Exists(q) /\ Exists(r) /\ q # r
        /\ rules[q].entity = rules[r].entity
        => rules[q].name # rules[r].name

Ordered == RuleRowsOK /\ NamesUnique

\* A row that is there is a rule: an entity tells it from the two marks.
LEMMA RowIsThere ==
    ASSUME RuleRowsOK, NEW r \in RuleId
    PROVE  /\ Exists(r) <=> rules[r] \in Rule
           /\ Exists(r) => rules[r].entity \in Entity /\ rules[r].entity # Nil
<1>1. NoRule \notin Rule /\ DeletedRule \notin Rule
  BY RulesNilAssumption DEF NoRule, DeletedRule, Rule
<1> QED
  BY <1>1, RulesNilAssumption DEF RuleRowsOK, Exists, Rule

\* Writing an allowed row keeps the names apart.
LEMMA WriteKeepsOrder ==
    ASSUME Ordered, NEW r \in RuleId, NEW row \in Rows, RowAllowed(r, row),
           rules' = [rules EXCEPT ![r] = row]
    PROVE  Ordered'
<1>1. row \in Rule
  BY RowsAssumption
<1>2. RuleRowsOK'
  BY <1>1 DEF Ordered, RuleRowsOK
<1>3. rules'[r] = row /\ \A q \in RuleId \ {r} : rules'[q] = rules[q]
  BY DEF Ordered, RuleRowsOK
<1>4. NamesUnique'
  <2>1. SUFFICES ASSUME NEW p \in RuleId, NEW q \in RuleId, p # q,
                        Exists(p)', Exists(q)', (rules[p].entity = rules[q].entity)'
                 PROVE  (rules[p].name # rules[q].name)'
    BY DEF NamesUnique
  <2>2. ASSUME NEW s \in RuleId \ {r}, Exists(s), rules[s].entity = row.entity
        PROVE  rules[s].name # row.name
    BY <2>2 DEF RowAllowed, Of
  <2>3. CASE p = r
    BY <1>3, <2>1, <2>2, <2>3 DEF Exists
  <2>4. CASE q = r
    BY <1>3, <2>1, <2>2, <2>4 DEF Exists
  <2>5. CASE p # r /\ q # r
    BY <1>3, <2>1, <2>5 DEF Exists, Ordered, NamesUnique
  <2> QED
    BY <2>3, <2>4, <2>5
<1> QED
  BY <1>2, <1>4 DEF Ordered

LEMMA OrderedInit == Init => Ordered
<1> SUFFICES ASSUME Init PROVE Ordered
  OBVIOUS
<1>1. \A r \in RuleId : ~Exists(r)
  BY DEF Init, Exists
<1> QED
  BY <1>1 DEF Init, Ordered, RuleRowsOK, NamesUnique

LEMMA OrderedNext == Ordered /\ [Next]_vars => Ordered'
<1> SUFFICES ASSUME Ordered, [Next]_vars PROVE Ordered'
  OBVIOUS
<1>1. ASSUME NEW row \in Rows, CreateRule(row) PROVE Ordered'
  BY <1>1, WriteKeepsOrder DEF CreateRule
<1>2. ASSUME NEW row \in Rows, NEW r \in RuleId, UpdateRule(r, row) PROVE Ordered'
  BY <1>2, WriteKeepsOrder DEF UpdateRule
<1>3. ASSUME NEW r \in RuleId, NEW e \in Entity, DeleteRule(r, e) PROVE Ordered'
  <2>1. rules' = [rules EXCEPT ![r] = DeletedRule]
    BY <1>3 DEF DeleteRule
  <2>2. RuleRowsOK'
    BY <2>1 DEF Ordered, RuleRowsOK
  <2>3. \A q \in RuleId : Exists(q)' => Exists(q) /\ rules'[q] = rules[q]
    BY <2>1 DEF Exists, Ordered, RuleRowsOK
  <2> QED
    BY <2>2, <2>3 DEF Ordered, NamesUnique
<1>4. CASE UNCHANGED rules
  BY <1>4 DEF Ordered, RuleRowsOK, NamesUnique, Exists
<1> QED
  BY <1>1, <1>2, <1>3, <1>4 DEF Next, Administer, LookUpRule, InsertWorkflow, vars

-----------------------------------------------------------------------------
(* Least elements                                                          *)

\* A set of naturals has a least one.
LEMMA LeastNat ==
    ASSUME NEW T, T \subseteq Nat, T # {}
    PROVE  \E n \in T : \A m \in T : n <= m
<1>1. PICK n \in T : \A m \in T : ~(<<m, n>> \in OpToRel(<, Nat))
  BY NatLessThanWellFounded, WFMin
<1>2. \A m \in T : ~(m < n)
  BY <1>1 DEF OpToRel
<1> QED
  BY <1>2

\* Of some subsets of a finite set, one contains no other: the induction over
\* the rules of an entity.
LEMMA MinimalSubset ==
    ASSUME NEW S, IsFiniteSet(S), NEW B, B \subseteq SUBSET S, B # {}
    PROVE  \E T \in B : \A U \in B : U \subseteq T => U = T
<1>1. B \subseteq FiniteSubsetsOf(S)
  BY FS_FiniteSubsetsOfFinite
<1>2. PICK T \in B : \A U \in B : <<U, T>> \notin StrictSubsetOrdering(S)
  BY <1>1, FS_StrictSubsetOrderingWellFounded, WFMin
<1> QED
  BY <1>2 DEF StrictSubsetOrdering

-----------------------------------------------------------------------------
(* What the lookup finds                                                   *)

\* Only finitely many rules were ever there.
FewRules == IsFiniteSet({r \in RuleId : Exists(r)})

\* The order of the rules of an entity is total and strict.
LEMMA BeforeOrders ==
    ASSUME Ordered, NEW e \in Entity, NEW q \in Active(e), NEW r \in Active(e)
    PROVE  /\ q # r => Before(q, r) \/ Before(r, q)
           /\ ~(Before(q, r) /\ Before(r, q))
           /\ \A p \in Active(e) : Before(p, q) /\ Before(q, r) => Before(p, r)
<1>1. \A p \in Active(e) :
          /\ p \in RuleId /\ Exists(p) /\ rules[p].entity = e
          /\ rules[p].name \in Int /\ rules[p].priority \in Int
  BY RowIsThere DEF Ordered, Active, Of, Rule
<1>2. q # r => rules[q].name # rules[r].name
  BY <1>1 DEF Ordered, NamesUnique
<1> QED
  BY <1>1, <1>2 DEF Before

\* Some rules of an entity have a last one.
LEMMA LastRule ==
    ASSUME Ordered, NEW e \in Entity, NEW S, S \subseteq Active(e),
           IsFiniteSet(S), S # {}
    PROVE  \E x \in S : \A y \in S \ {x} : Before(y, x)
<1> DEFINE IsLast(T, x) == x \in T /\ \A y \in T \ {x} : Before(y, x)
           B == {T \in SUBSET S : T # {} /\ \A x \in T : ~IsLast(T, x)}
<1>1. SUFFICES ASSUME B # {} PROVE FALSE
  <2> S \in SUBSET S
    OBVIOUS
  <2> QED
    BY <1>1
<1>2. PICK T \in B : \A U \in B : U \subseteq T => U = T
  <2>1. B \subseteq SUBSET S
    OBVIOUS
  <2> HIDE DEF B
  <2> QED
    BY <1>1, <2>1, MinimalSubset
<1>3. PICK x \in T : TRUE
  OBVIOUS
<1>4. T \ {x} # {}
  BY <1>3 DEF IsLast
<1>5. PICK y \in T \ {x} : IsLast(T \ {x}, y)
  <2>1. T \ {x} \notin B
    BY <1>2, <1>3
  <2> QED
    BY <1>4, <2>1
<1>6. \A p \in T : p \in Active(e)
  OBVIOUS
<1>7. CASE Before(x, y)
  <2>1. IsLast(T, y)
    BY <1>5, <1>7
  <2> QED
    BY <2>1
<1>8. CASE Before(y, x)
  <2>1. ASSUME NEW p \in T \ {x} PROVE Before(p, x)
    <3>1. CASE p = y
      BY <1>8, <3>1
    <3>2. CASE p # y
      <4>1. Before(p, y)
        BY <1>5, <3>2
      <4> QED
        BY <4>1, <1>6, <1>8, BeforeOrders
    <3> QED
      BY <3>1, <3>2
  <2>2. IsLast(T, x)
    BY <2>1, <1>3
  <2> QED
    BY <2>2, <1>3
<1> QED
  BY <1>6, <1>7, <1>8, BeforeOrders, <1>3, <1>5

\* A sequence of the rules S in their order.
InOrder(s, S) ==
    /\ s \in SetToSeqs(S)
    /\ \A a, b \in DOMAIN s : a < b => ~Before(s[b], s[a])

\* x put behind a sequence of the rules before it.
LEMMA OrderedExtends ==
    ASSUME Ordered, NEW e \in Entity, NEW T, T \subseteq Active(e),
           IsFiniteSet(T), NEW x \in T, \A y \in T \ {x} : Before(y, x),
           NEW s, InOrder(s, T \ {x})
    PROVE  \E z : InOrder(z, T)
<1> DEFINE n == Cardinality(T)
<1>1. n \in Nat /\ n >= 1 /\ Cardinality(T \ {x}) = n - 1
  <2>1. n \in Nat /\ Cardinality(T \ {x}) = n - 1
    BY FS_CardinalityType, FS_RemoveElement
  <2>2. n # 0
    BY FS_EmptySet
  <2> QED
    BY <2>1, <2>2
<1> DEFINE z == [k \in 1 .. n |-> IF k = n THEN x ELSE s[k]]
<1> HIDE DEF n
<1>2. /\ s \in [1 .. n - 1 -> T \ {x}]
      /\ \A a, b \in 1 .. n - 1 : a # b => s[a] # s[b]
      /\ \A a, b \in 1 .. n - 1 : a < b => ~Before(s[b], s[a])
  BY <1>1 DEF InOrder, SetToSeqs
<1>3. z[n] = x /\ \A k \in 1 .. n - 1 : z[k] = s[k] /\ s[k] \in T \ {x}
  BY <1>1, <1>2
<1>4. \A k \in 1 .. n : k = n \/ k \in 1 .. n - 1
  BY <1>1
<1>5. z \in [1 .. n -> T]
  BY <1>2, <1>4
<1>6. ASSUME NEW a \in 1 .. n, NEW b \in 1 .. n, a # b PROVE z[a] # z[b]
  BY <1>2, <1>3, <1>4, <1>6
<1>7. ASSUME NEW a \in 1 .. n, NEW b \in 1 .. n, a < b PROVE ~Before(z[b], z[a])
  <2>1. a # n /\ a \in 1 .. n - 1
    BY <1>1, <1>4, <1>7
  <2>2. CASE b = n
    <3>1. z[a] \in Active(e) /\ x \in Active(e) /\ Before(z[a], x) /\ z[b] = x
      BY <1>3, <2>1, <2>2
    <3> QED
      BY <3>1, BeforeOrders
  <2>3. CASE b \in 1 .. n - 1
    BY <1>2, <1>3, <1>7, <2>1, <2>3
  <2> QED
    BY <1>4, <2>2, <2>3
<1>8. DOMAIN z = 1 .. n
  OBVIOUS
<1> HIDE DEF z
<1>9. InOrder(z, T)
  BY <1>5, <1>6, <1>7, <1>8 DEF InOrder, SetToSeqs, n
<1> QED
  BY <1>9

\* Rules of an entity can be put in order.
LEMMA OrderExists ==
    ASSUME Ordered, NEW e \in Entity, NEW S, S \subseteq Active(e), IsFiniteSet(S)
    PROVE  \E s : InOrder(s, S)
<1> DEFINE B == {T \in SUBSET S : ~\E s : InOrder(s, T)}
<1>1. SUFFICES ASSUME B # {} PROVE FALSE
  <2> S \in SUBSET S
    OBVIOUS
  <2> QED
    BY <1>1
<1>2. PICK T \in B : \A U \in B : U \subseteq T => U = T
  <2>1. B \subseteq SUBSET S
    OBVIOUS
  <2> HIDE DEF B
  <2> QED
    BY <1>1, <2>1, MinimalSubset
<1>3. IsFiniteSet(T) /\ T \subseteq Active(e) /\ ~\E s : InOrder(s, T)
  BY FS_Subset
<1>4. CASE T = {}
  <2>1. Cardinality({}) = 0 /\ 1 .. 0 = {}
    BY FS_EmptySet
  <2>2. << >> \in [1 .. 0 -> {}] /\ DOMAIN << >> = {}
    BY <2>1
  <2>3. InOrder(<< >>, T)
    BY <1>4, <2>1, <2>2 DEF InOrder, SetToSeqs
  <2> QED
    BY <1>3, <2>3
<1>5. CASE T # {}
  <2>1. PICK x \in T : \A y \in T \ {x} : Before(y, x)
    BY <1>3, <1>5, LastRule
  <2>2. T \ {x} \in SUBSET S /\ T \ {x} # T /\ T \ {x} \subseteq T
    BY <1>2
  <2>3. PICK s : InOrder(s, T \ {x})
    BY <1>2, <2>2
  <2> HIDE DEF B
  <2>4. \E z : InOrder(z, T)
    BY <1>3, <2>1, <2>3, OrderedExtends
  <2> QED
    BY <1>3, <2>4
<1> QED
  BY <1>4, <1>5

\* List returns the active rules of the entity, each once, in their order.
LEMMA ListInOrder ==
    ASSUME Ordered, FewRules, NEW e \in Entity
    PROVE  /\ List(e) \in Seq(Active(e))
           /\ \A r \in Active(e) : \E k \in 1 .. Len(List(e)) : List(e)[k] = r
           /\ \A a, b \in 1 .. Len(List(e)) : a < b => Before(List(e)[a], List(e)[b])
<1> DEFINE A == Active(e)
           n == Cardinality(A)
<1>1. IsFiniteSet(A) /\ n \in Nat
  <2>1. A \in SUBSET {r \in RuleId : Exists(r)}
    BY DEF Active, Of
  <2> QED
    BY <2>1, FS_Subset, FS_CardinalityType DEF FewRules
<1>2. PICK z : InOrder(z, A)
  BY <1>1, OrderExists
<1>3. PICK s : s = List(e)
  OBVIOUS
<1>4. InOrder(s, A)
  <2>1. s = CHOOSE t \in SetToSeqs(A) :
               \A a, b \in DOMAIN t : a < b => ~Before(t[b], t[a])
    BY <1>3 DEF List, Sorted
  <2> HIDE DEF A
  <2> QED
    BY <1>2, <2>1 DEF InOrder
<1>5. /\ s \in [1 .. n -> A]
      /\ \A a, b \in 1 .. n : a # b => s[a] # s[b]
      /\ \A a, b \in 1 .. n : a < b => ~Before(s[b], s[a])
  BY <1>4 DEF InOrder, SetToSeqs
<1>6. s \in Seq(A) /\ Len(s) = n
  BY <1>1, <1>5, IsASeq
<1>7. s \in Surjection(1 .. n, A)
  <2>1. s \in Injection(1 .. n, A)
    BY <1>5 DEF Injection, IsInjective
  <2>2. 1 \in Int /\ n \in Int
    BY <1>1
  <2>3. Cardinality(1 .. n) = n
    <3>1. Cardinality(1 .. n) = IF 1 > n THEN 0 ELSE n - 1 + 1
      BY ONLY <2>2, FS_Interval
    <3> HIDE DEF n
    <3> QED
      BY <1>1, <3>1
  <2> QED
    BY <1>1, <2>1, <2>3, FS_Injection
<1>8. \A r \in A : \E k \in 1 .. n : s[k] = r
  BY <1>7 DEF Surjection
<1>9. ASSUME NEW a \in 1 .. n, NEW b \in 1 .. n, a < b PROVE Before(s[a], s[b])
  <2>1. a # b /\ s[a] \in A /\ s[b] \in A
    BY <1>5, <1>9
  <2>2. s[a] # s[b] /\ ~Before(s[b], s[a])
    BY <1>5, <1>9, <2>1
  <2> QED
    BY <2>1, <2>2, BeforeOrders
<1> HIDE DEF A, n
<1> QED
  BY <1>3, <1>6, <1>8, <1>9 DEF A

\* The loop returns the first rule that matches, or none if none does.
LEMMA FindsFirst ==
    ASSUME Ordered, FewRules, NEW e \in Entity, NEW inv
    PROVE  LET Fits(r) == r \in Active(e) /\ ruleMatches(rules[r].on, inv)
               found == FindMatchingRule(e, inv)
           IN  \/ found = Nil /\ \A r \in RuleId : ~Fits(r)
               \/ /\ found \in RuleId /\ found # Nil /\ Fits(found)
                  /\ \A r \in RuleId \ {found} : Fits(r) => Before(found, r)
<1> DEFINE Fits(r) == r \in Active(e) /\ ruleMatches(rules[r].on, inv)
           found == FindMatchingRule(e, inv)
<1>1. PICK s : s = List(e)
  OBVIOUS
<1> DEFINE I == {k \in 1 .. Len(s) : ruleMatches(rules[s[k]].on, inv)}
<1>2. /\ s \in Seq(Active(e)) /\ Len(s) \in Nat
      /\ \A k \in 1 .. Len(s) : s[k] \in Active(e)
      /\ \A r \in Active(e) : \E k \in 1 .. Len(s) : s[k] = r
      /\ \A a, b \in 1 .. Len(s) : a < b => Before(s[a], s[b])
  <2>1. s \in Seq(Active(e))
    BY <1>1, ListInOrder
  <2> QED
    BY <1>1, <2>1, ListInOrder, LenProperties, ElementOfSeq
<1>3. found = LET k == IF I # {} THEN Min(I) ELSE 0
              IN  IF k = 0 THEN Nil ELSE s[k]
  BY <1>1 DEF FindMatchingRule, SelectInSeq
<1>4. Active(e) \subseteq RuleId
  BY DEF Active
<1> HIDE DEF found
<1>5. CASE I = {}
  <2>1. found = Nil
    BY <1>3, <1>5
  <2>2. \A r \in RuleId : ~Fits(r)
    BY <1>2, <1>5
  <2> QED
    BY <2>1, <2>2 DEF found
<1>6. CASE I # {}
  <2>1. PICK k : k = Min(I)
    OBVIOUS
  <2>2. I \subseteq Nat
    OBVIOUS
  <2>3. k \in I /\ \A m \in I : k <= m
    <3> HIDE DEF I
    <3>1. \E n \in I : \A m \in I : n <= m
      BY <1>6, <2>2, LeastNat
    <3>2. k = CHOOSE n \in I : \A m \in I : n <= m
      BY <2>1 DEF Min
    <3> QED
      BY <3>1, <3>2
  <2>4. found = s[k]
    <3>1. k # 0
      BY <2>3
    <3> HIDE DEF I
    <3> QED
      BY <1>3, <1>6, <2>1, <3>1
  <2>5. Fits(found) /\ found \in RuleId
    BY <1>2, <1>4, <2>3, <2>4
  <2>6. found # Nil
    BY <2>5, RulesNilAssumption
  <2>7. ASSUME NEW r \in RuleId \ {found}, Fits(r) PROVE Before(found, r)
    <3>1. PICK m \in 1 .. Len(s) : s[m] = r
      BY <1>2, <2>7
    <3>2. m \in I /\ m # k
      BY <2>4, <2>7, <3>1
    <3>3. k < m
      BY <2>3, <3>2
    <3> QED
      BY <1>2, <2>3, <2>4, <3>1, <3>3
  <2> QED
    BY <2>5, <2>6, <2>7 DEF found
<1> QED
  BY <1>5, <1>6

-----------------------------------------------------------------------------
(* The steps of a workflow                                                 *)

\* From the lookup on there are steps, and once the workflow is created they are
\* such as the table of the steps takes.
Asked(b) ==
    /\ b = [pc |-> b.pc, entity |-> b.entity, rule |-> b.rule, steps |-> b.steps]
    /\ b.pc \in {"insert", "created"} => b.steps # <<>>
    /\ b.pc = "created" => StepsAllowed(b.steps)

SomebodyAsked ==
    /\ builds = [x \in WorkflowId |-> builds[x]]
    /\ \A x \in WorkflowId : Asked(builds[x])

\* A rule without steps is not a reason to ask nobody.
LEMMA StepsResolved == \A r : resolveStepDefs(r) # <<>>
  BY DEF resolveStepDefs, DefaultSteps

LEMMA SomebodyAskedInit == Init => SomebodyAsked
  BY DEF Init, SomebodyAsked, Asked, NoBuild

\* One build changes, and is as it should be.
LEMMA OneBuild ==
    ASSUME SomebodyAsked, NEW x \in WorkflowId, NEW b, Asked(b),
           builds' = [builds EXCEPT ![x] = b]
    PROVE  SomebodyAsked'
  BY DEF SomebodyAsked

LEMMA SomebodyAskedNext == SomebodyAsked /\ [Next]_vars => SomebodyAsked'
<1> SUFFICES ASSUME SomebodyAsked, [Next]_vars PROVE SomebodyAsked'
  OBVIOUS
<1>1. ASSUME NEW x \in WorkflowId, NEW e \in Entity, NEW inv \in Attributes,
             LookUpRule(x, e, inv)
      PROVE  SomebodyAsked'
  <2> DEFINE r == FindMatchingRule(e, inv)
             b == [pc |-> "insert", entity |-> e, rule |-> r,
                   steps |-> resolveStepDefs(r)]
  <2>1. builds' = [builds EXCEPT ![x] = b]
    BY <1>1 DEF LookUpRule
  <2>2. resolveStepDefs(r) # <<>>
    BY StepsResolved
  <2> HIDE DEF r
  <2>3. Asked(b)
    BY <2>2 DEF Asked
  <2> QED
    BY <2>1, <2>3, OneBuild
<1>2. ASSUME NEW x \in WorkflowId, InsertWorkflow(x) PROVE SomebodyAsked'
  <2> DEFINE b == builds[x]
             ok == (b.rule # Nil => Exists(b.rule)) /\ StepsAllowed(b.steps)
             c == [b EXCEPT !.pc = IF ok THEN "created" ELSE "failed"]
  <2>1. b.pc = "insert" /\ builds' = [builds EXCEPT ![x] = c]
    BY <1>2 DEF InsertWorkflow
  <2>2. Asked(b)
    BY DEF SomebodyAsked
  <2>3. c = [pc |-> IF ok THEN "created" ELSE "failed", entity |-> b.entity,
             rule |-> b.rule, steps |-> b.steps]
    BY <2>2 DEF Asked
  <2>4. b.steps # <<>> /\ (ok => StepsAllowed(b.steps))
    BY <2>1, <2>2 DEF Asked
  <2> HIDE DEF ok, b
  <2>5. Asked(c)
    BY <2>3, <2>4 DEF Asked
  <2> HIDE DEF c
  <2> QED
    BY <2>1, <2>5, OneBuild
<1>3. ASSUME NEW r \in RuleId, NEW e \in Entity, DeleteRule(r, e) PROVE SomebodyAsked'
  <2>1. builds' = [x \in WorkflowId |->
           IF builds[x].pc = "created" /\ builds[x].rule = r
           THEN [builds[x] EXCEPT !.rule = Nil] ELSE builds[x]]
    BY <1>3 DEF DeleteRule
  <2>2. ASSUME NEW x \in WorkflowId PROVE Asked(builds'[x])
    <3> DEFINE b == builds[x]
    <3>1. Asked(b)
      BY DEF SomebodyAsked
    <3>2. [b EXCEPT !.rule = Nil] =
             [pc |-> b.pc, entity |-> b.entity, rule |-> Nil, steps |-> b.steps]
      BY <3>1 DEF Asked
    <3>3. Asked([b EXCEPT !.rule = Nil])
      BY <3>1, <3>2 DEF Asked
    <3> QED
      BY <2>1, <3>1, <3>3
  <2>3. builds' = [x \in WorkflowId |-> builds'[x]]
    BY <2>1
  <2> QED
    BY <2>2, <2>3 DEF SomebodyAsked
<1>4. CASE UNCHANGED builds
  BY <1>4 DEF SomebodyAsked
<1> QED
  BY <1>1, <1>2, <1>3, <1>4 DEF Next, Administer, CreateRule, UpdateRule, vars

\* Whatever rules there are, and however they change while a workflow is made,
\* it asks somebody, and a step number stands for one step.
THEOREM WorkflowAsks == Spec => []WorkflowHasSteps
<1>1. SomebodyAsked => WorkflowHasSteps
  <2> SUFFICES ASSUME SomebodyAsked, NEW x \in WorkflowId, builds[x].pc = "created"
               PROVE  /\ builds[x].steps # <<>> /\ IsInjective(builds[x].steps)
                      /\ \A k \in DOMAIN builds[x].steps : builds[x].steps[k] >= 1
    BY DEF WorkflowHasSteps
  <2>1. builds[x].steps # <<>> /\ StepsAllowed(builds[x].steps)
    BY DEF SomebodyAsked, Asked
  <2> QED
    BY <2>1 DEF StepsAllowed
<1> QED
  BY <1>1, SomebodyAskedInit, SomebodyAskedNext, PTL DEF Spec

-----------------------------------------------------------------------------
(* Rules and workflows together                                            *)

\* The rule of a workflow, once looked up, was there, of the workflow's entity
\* unless it is deleted by now; the row of a workflow has one that is there.
Made(b) ==
    /\ b \in Build
    /\ b.pc # "none" => b.entity \in Entity
    /\ b.rule # Nil => /\ rules[b.rule] # NoRule
                       /\ Exists(b.rule) => rules[b.rule].entity = b.entity
                       /\ b.pc = "created" => Exists(b.rule)

WorkflowsMade ==
    /\ builds = [x \in WorkflowId |-> builds[x]]
    /\ \A x \in WorkflowId : Made(builds[x])

RulesInv == Ordered /\ FewRules /\ WorkflowsMade

LEMMA RulesInvInit == Init => RulesInv
<1> SUFFICES ASSUME Init PROVE RulesInv
  OBVIOUS
<1>1. Ordered
  BY OrderedInit
<1>2. FewRules
  <2>1. {r \in RuleId : Exists(r)} = {}
    BY DEF Init, Exists
  <2> QED
    BY <2>1, FS_EmptySet DEF FewRules
<1>3. Made(NoBuild)
  <2>1. << >> \in Seq(Int)
    OBVIOUS
  <2> QED
    BY <2>1 DEF Made, NoBuild, Build, BuildStep
<1> QED
  BY <1>1, <1>2, <1>3 DEF Init, RulesInv, WorkflowsMade

\* The steps asked for are step numbers.
LEMMA StepsTyped ==
    ASSUME Ordered, NEW r \in RuleId \cup {Nil}, r # Nil => Exists(r)
    PROVE  resolveStepDefs(r) \in Seq(Int)
<1>1. r # Nil => rules[r].steps \in Seq(Int)
  BY RowIsThere DEF Ordered, Rule
<1>2. <<1>> \in Seq(Int)
  OBVIOUS
<1> QED
  BY <1>1, <1>2 DEF resolveStepDefs, DefaultSteps

\* One more rule is still a finite number.
LEMMA FewRulesKept ==
    ASSUME FewRules, NEW r \in RuleId,
           \A q \in RuleId \ {r} : Exists(q)' => Exists(q)
    PROVE  FewRules'
<1> DEFINE S == {q \in RuleId : Exists(q)}
<1>1. IsFiniteSet(S \cup {r})
  BY FS_AddElement DEF FewRules
<1>2. {q \in RuleId : Exists(q)'} \subseteq S \cup {r}
  OBVIOUS
<1>3. IsFiniteSet({q \in RuleId : Exists(q)'})
  BY <1>1, <1>2, FS_Subset
<1> QED
  BY <1>3 DEF FewRules

\* A row is written; no workflow loses its rule.
LEMMA WriteKeepsMade ==
    ASSUME RulesInv, NEW r \in RuleId, NEW row \in Rows, RowAllowed(r, row),
           rules[r] = NoRule \/ Of(r, row.entity),
           rules' = [rules EXCEPT ![r] = row], UNCHANGED builds
    PROVE  RulesInv'
<1>1. row \in Rule /\ row \notin {NoRule, DeletedRule}
  BY RowsAssumption, RulesNilAssumption DEF NoRule, DeletedRule, Rule
<1>2. Ordered'
  BY WriteKeepsOrder DEF RulesInv
<1>3. rules'[r] = row /\ \A q \in RuleId \ {r} : rules'[q] = rules[q]
  BY DEF RulesInv, Ordered, RuleRowsOK
<1>4. FewRules'
  BY <1>3, FewRulesKept DEF RulesInv, Exists
<1>5. ASSUME NEW x \in WorkflowId PROVE Made(builds[x])'
  <2> DEFINE b == builds[x]
  <2>1. Made(b)
    BY DEF RulesInv, WorkflowsMade
  <2>2. CASE b.rule # r \/ b.rule = Nil
    BY <1>3, <2>1, <2>2 DEF Made, Exists, Build
  <2>3. CASE b.rule = r /\ b.rule # Nil
    <3>1. Of(r, row.entity)
      BY <2>1, <2>3 DEF Made
    <3> QED
      BY <1>1, <1>3, <2>1, <2>3, <3>1 DEF Made, Exists, Of
  <2> QED
    BY <2>2, <2>3
<1> QED
  BY <1>2, <1>4, <1>5 DEF RulesInv, WorkflowsMade

\* One workflow changes, no rule does.
LEMMA OneMade ==
    ASSUME RulesInv, NEW x \in WorkflowId, NEW b, Made(b), UNCHANGED rules,
           builds' = [builds EXCEPT ![x] = b]
    PROVE  RulesInv'
<1>1. Ordered' /\ FewRules'
  BY DEF RulesInv, Ordered, RuleRowsOK, NamesUnique, FewRules, Exists
<1>2. \A c : Made(c) => Made(c)'
  BY DEF Made, Exists
<1> QED
  BY <1>1, <1>2 DEF RulesInv, WorkflowsMade

LEMMA RulesInvNext == RulesInv /\ [Next]_vars => RulesInv'
<1> SUFFICES ASSUME RulesInv, [Next]_vars PROVE RulesInv'
  OBVIOUS
<1>1. ASSUME NEW row \in Rows, CreateRule(row) PROVE RulesInv'
  BY <1>1, WriteKeepsMade DEF CreateRule
<1>2. ASSUME NEW row \in Rows, NEW r \in RuleId, UpdateRule(r, row) PROVE RulesInv'
  BY <1>2, WriteKeepsMade DEF UpdateRule
<1>3. ASSUME NEW r \in RuleId, NEW e \in Entity, DeleteRule(r, e) PROVE RulesInv'
  <2>1. /\ Of(r, e)
        /\ rules' = [rules EXCEPT ![r] = DeletedRule]
        /\ builds' = [x \in WorkflowId |->
              IF builds[x].pc = "created" /\ builds[x].rule = r
              THEN [builds[x] EXCEPT !.rule = Nil] ELSE builds[x]]
    BY <1>3 DEF DeleteRule
  <2>2. Ordered'
    BY <1>3, OrderedNext DEF RulesInv, Next, Administer
  <2>3. rules'[r] = DeletedRule /\ \A q \in RuleId \ {r} : rules'[q] = rules[q]
    BY <2>1 DEF RulesInv, Ordered, RuleRowsOK
  <2>4. FewRules'
    BY <2>3, FewRulesKept DEF RulesInv, Exists
  <2>5. DeletedRule # NoRule
    BY DEF DeletedRule, NoRule
  <2>6. ASSUME NEW x \in WorkflowId PROVE Made(builds[x])'
    <3>1. PICK b : b = builds[x]
      OBVIOUS
    <3>2. Made(b)
      BY <3>1 DEF RulesInv, WorkflowsMade
    <3>3. CASE b.pc = "created" /\ b.rule = r
      <4>1. builds'[x] = [b EXCEPT !.rule = Nil]
        BY <2>1, <3>1, <3>3
      <4>2. b \in Build
        BY <3>2 DEF Made
      <4>3. PICK c : c = [b EXCEPT !.rule = Nil]
        OBVIOUS
      <4>4. c \in Build /\ c.rule = Nil /\ c.pc = b.pc /\ c.entity = b.entity
        BY <4>2, <4>3 DEF Build
      <4> QED
        BY <3>2, <4>1, <4>3, <4>4 DEF Made
    <3>4. CASE b.rule # r
      <4>1. builds'[x] = b
        BY <2>1, <3>1, <3>4
      <4> QED
        BY <2>3, <3>2, <3>4, <4>1 DEF Made, Exists, Build
    <3>5. CASE b.rule = r /\ b.pc # "created"
      <4>1. builds'[x] = b
        BY <2>1, <3>1, <3>5
      <4>2. r # Nil
        BY RulesNilAssumption
      <4> QED
        BY <2>3, <2>5, <3>2, <3>5, <4>1 DEF Made, Exists
    <3> QED
      BY <3>3, <3>4, <3>5
  <2> QED
    BY <2>1, <2>2, <2>4, <2>6 DEF RulesInv, WorkflowsMade
<1>4. ASSUME NEW x \in WorkflowId, NEW e \in Entity, NEW inv \in Attributes,
             LookUpRule(x, e, inv)
      PROVE  RulesInv'
  <2>1. PICK r : r = FindMatchingRule(e, inv)
    OBVIOUS
  <2>2. /\ r \in RuleId \cup {Nil}
        /\ r # Nil => Exists(r) /\ rules[r].entity = e
    BY <2>1, FindsFirst DEF RulesInv, Active, Of
  <2>3. PICK d : d = resolveStepDefs(r)
    OBVIOUS
  <2>4. d \in Seq(Int)
    BY <2>2, <2>3, StepsTyped DEF RulesInv
  <2> DEFINE b == [pc |-> "insert", entity |-> e, rule |-> r, steps |-> d]
  <2>5. Made(b)
    BY <2>2, <2>4 DEF Made, Build, BuildStep, Exists
  <2>6. builds' = [builds EXCEPT ![x] = b] /\ UNCHANGED rules
    BY <1>4, <2>1, <2>3 DEF LookUpRule
  <2> HIDE DEF b
  <2> QED
    BY <2>5, <2>6, OneMade
<1>5. ASSUME NEW x \in WorkflowId, InsertWorkflow(x) PROVE RulesInv'
  <2>1. PICK b : b = builds[x]
    OBVIOUS
  <2> DEFINE ok == (b.rule # Nil => Exists(b.rule)) /\ StepsAllowed(b.steps)
  <2>2. PICK p : p = IF ok THEN "created" ELSE "failed"
    OBVIOUS
  <2>3. PICK c : c = [b EXCEPT !.pc = p]
    OBVIOUS
  <2>4. b.pc = "insert" /\ builds' = [builds EXCEPT ![x] = c] /\ UNCHANGED rules
    BY <1>5, <2>1, <2>2, <2>3 DEF InsertWorkflow
  <2>5. Made(b)
    BY <2>1 DEF RulesInv, WorkflowsMade
  <2>6. /\ c \in Build /\ c.pc = p /\ c.rule = b.rule /\ c.entity = b.entity
        /\ p \in BuildStep
        /\ p = "created" => (b.rule # Nil => Exists(b.rule))
    BY <2>2, <2>3, <2>5 DEF Made, Build, BuildStep
  <2>7. Made(c)
    BY <2>4, <2>5, <2>6 DEF Made
  <2> QED
    BY <2>4, <2>7, OneMade
<1>6. CASE UNCHANGED vars
  BY <1>6 DEF vars, RulesInv, Ordered, RuleRowsOK, NamesUnique, FewRules,
              WorkflowsMade, Made, Exists
<1> QED
  BY <1>1, <1>2, <1>3, <1>4, <1>5, <1>6 DEF Next, Administer

\* What every reachable state has in common.
LEMMA RulesInvariant == Spec => []RulesInv
  BY RulesInvInit, RulesInvNext, PTL DEF Spec

\* Rows and builds stay whole, and what a lookup found was inserted.
THEOREM RulesTypeCorrect == Spec => []TypeOK
<1>1. RulesInv => TypeOK
  BY DEF RulesInv, Ordered, RuleRowsOK, WorkflowsMade, Made, TypeOK
<1> QED
  BY <1>1, RulesInvariant, PTL

\* The loop of FindMatchingRule over the sorted list finds the first rule that
\* matches, for any number of rules, and none only if none matches.
THEOREM LookupFindsFirst == Spec => []FirstMatchRoutes
<1>1. RulesInv => FirstMatchRoutes
  <2> SUFFICES ASSUME RulesInv PROVE FirstMatchRoutes
    OBVIOUS
  <2>1. \A e \in Entity : \A r \in RuleId :
           r \in Active(e) <=> Of(r, e) /\ rules[r].active
    BY DEF Active
  <2> QED
    BY <2>1, FindsFirst DEF RulesInv, FirstMatchRoutes
<1> QED
  BY <1>1, RulesInvariant, PTL

\* Ranges that meet share no total and leave none out between them, for any
\* bounds administrators enter.
THEOREM AmountRangesMeet == Spec => []RangesMeet
<1>1. RulesInv => RangesMeet
  <2> SUFFICES ASSUME RulesInv, NEW q \in RuleId, NEW r \in RuleId,
                      Exists(q), Exists(r),
                      {rules[q].on.type, rules[r].on.type} = {"amount_based"},
                      rules[q].on.max # Nil, rules[q].on.max = rules[r].on.min,
                      NEW inv \in Attributes
               PROVE  LET on == rules[q].on
                          next == rules[r].on
                      IN  /\ ~(ruleMatches(on, inv) /\ ruleMatches(next, inv))
                          /\ /\ on.min # Nil => inv.amount >= on.min
                             /\ next.max # Nil => inv.amount < next.max
                             => ruleMatches(on, inv) \/ ruleMatches(next, inv)
    BY DEF RangesMeet
  <2>1. rules[q].on \in Criteria /\ rules[r].on \in Criteria
    BY RowIsThere DEF RulesInv, Ordered, Rule
  <2>2. rules[q].on.type = "amount_based" /\ rules[r].on.type = "amount_based"
    OBVIOUS
  <2>3. rules[q].on.max \in Nat
    BY <2>1, <2>2
       DEF Criteria, AmountCriteria, VendorCriteria, DepartmentCriteria, Bound
  <2>4. inv.amount \in Nat
    BY AmountsAssumption DEF Attributes
  <2> QED
    BY <2>2, <2>3, <2>4 DEF ruleMatches
<1> QED
  BY <1>1, RulesInvariant, PTL

\* A workflow refers to a rule that is there, of its own entity, or to none,
\* however administrators and submissions interleave.
THEOREM RuleOfWorkflowKnown == Spec => []WorkflowRuleKnown
<1>1. RulesInv => WorkflowRuleKnown
  BY DEF RulesInv, WorkflowsMade, Made, WorkflowRuleKnown, Of
<1> QED
  BY <1>1, RulesInvariant, PTL

=============================================================================
