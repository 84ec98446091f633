------------------------- MODULE InvoiceLedgerProofs -------------------------
(***************************************************************************)
(* Proofs about the sums of InvoiceLedger and, with a shutdown, of         *)
(* InvoiceServer: amount_paid and the payment rows, what payments come to, *)
(* the vendor balance of AP-1 and the entries of GL-2.                     *)
(***************************************************************************)
EXTENDS InvoiceSerialProofs, InvoiceServer, FiniteSetTheorems

-----------------------------------------------------------------------------
(* Sums over finite sets                                                   *)

\* The induction over a finite set: of some of its subsets, one contains no
\* other.
LEMMA MinimalSubset ==
    ASSUME NEW S, IsFiniteSet(S), NEW B, B \subseteq SUBSET S, B # {}
    PROVE  \E T \in B : \A U \in B : U \subseteq T => U = T
<1>1. B \subseteq FiniteSubsetsOf(S)
  BY FS_FiniteSubsetsOfFinite
<1>2. PICK T \in B : \A U \in B : <<U, T>> \notin StrictSubsetOrdering(S)
  BY <1>1, FS_StrictSubsetOrderingWellFounded, WFMin
<1> QED
  BY <1>2 DEF StrictSubsetOrdering

\* The partial sums of f that MapThenSumSet goes through, and the last of them.
PartialSums(f, S, h) ==
    h = [T \in SUBSET S |-> IF T = {} THEN 0
                            ELSE LET x == CHOOSE y \in T : TRUE
                                 IN  f[x] + h[T \ {x}]]

Sum(f, S) == (CHOOSE h : PartialSums(f, S, h))[S]

\* Partial sums do not depend on where the sum begins.
LEMMA SumsUnique ==
    ASSUME NEW f, NEW S, NEW g, PartialSums(f, S, g), NEW T, NEW h, PartialSums(f, T, h),
           NEW U, IsFiniteSet(U), U \subseteq S, U \subseteq T
    PROVE  g[U] = h[U]
<1> DEFINE B == {V \in SUBSET U : g[V] # h[V]}
<1>1. SUFFICES ASSUME B # {} PROVE FALSE
  <2> U \in SUBSET U
    OBVIOUS
  <2> QED
    BY <1>1
<1>2. PICK V \in B : \A W \in B : W \subseteq V => W = V
  <2>1. B \subseteq SUBSET U
    OBVIOUS
  <2> HIDE DEF B
  <2> QED
    BY <1>1, <2>1, MinimalSubset
<1>3. PICK x : x = CHOOSE y \in V : TRUE
  OBVIOUS
<1>4. /\ g[V] = IF V = {} THEN 0 ELSE f[x] + g[V \ {x}]
      /\ h[V] = IF V = {} THEN 0 ELSE f[x] + h[V \ {x}]
  <2>1. V \in SUBSET S /\ V \in SUBSET T
    OBVIOUS
  <2> HIDE DEF B
  <2> QED
    BY <1>3, <2>1 DEF PartialSums
<1>5. V # {}
  BY <1>4
<1>6. x \in V
  BY <1>3, <1>5
<1>7. V \ {x} \notin B
  BY <1>2, <1>6
<1> QED
  BY <1>4, <1>5, <1>7

\* There are partial sums.
LEMMA SumsExist ==
    ASSUME NEW f, NEW S, IsFiniteSet(S) PROVE \E h : PartialSums(f, S, h)
<1> DEFINE B == {T \in SUBSET S : ~\E h : PartialSums(f, T, h)}
<1>1. SUFFICES ASSUME B # {} PROVE FALSE
  <2> S \in SUBSET S
    OBVIOUS
  <2> QED
    BY <1>1
<1>2. PICK T \in B : \A U \in B : U \subseteq T => U = T
  <2>1. B \subseteq SUBSET S
    OBVIOUS
  <2> HIDE DEF B
  <2> QED
    BY <1>1, <2>1, MinimalSubset
<1>3. T \in SUBSET S /\ ~\E h : PartialSums(f, T, h)
  OBVIOUS
<1> DEFINE H(U) == CHOOSE h : PartialSums(f, U, h)
<1>4. ASSUME NEW U, U \subseteq T, U # T PROVE PartialSums(f, U, H(U)) /\ IsFiniteSet(U)
  <2>1. \E h : PartialSums(f, U, h)
    BY <1>2, <1>4
  <2>2. IsFiniteSet(U)
    BY <1>3, <1>4, FS_Subset
  <2> QED
    BY <2>1, <2>2
<1> HIDE DEF B
<1> DEFINE Pick(U) == CHOOSE x \in U : TRUE
           After(U) == IF U = {} THEN 0 ELSE f[Pick(U)] + Sum(f, U \ {Pick(U)})
           g == [U \in SUBSET T |-> IF U = T THEN After(T) ELSE Sum(f, U)]
<1>5. ASSUME NEW U, U \subseteq T, U # T PROVE Sum(f, U) = After(U)
  <2>1. PICK h : h = H(U)
    OBVIOUS
  <2>2. Sum(f, U) = h[U]
    BY <2>1 DEF Sum
  <2>3. h[U] = IF U = {} THEN 0 ELSE f[Pick(U)] + h[U \ {Pick(U)}]
    <3>1. PartialSums(f, U, h) /\ U \in SUBSET U
      BY <1>4, <1>5, <2>1
    <3> HIDE DEF H
    <3> QED
      BY <3>1 DEF PartialSums
  <2>4. CASE U = {}
    BY <2>2, <2>3, <2>4
  <2>5. CASE U # {}
    <3>1. PICK V : V = U \ {Pick(U)}
      OBVIOUS
    <3>2. V \subseteq U /\ V \subseteq T /\ V # T
      BY <1>5, <3>1
    <3>3. h[V] = H(V)[V]
      <4>1. PartialSums(f, U, h) /\ PartialSums(f, V, H(V)) /\ IsFiniteSet(V)
        BY <1>4, <1>5, <2>1, <3>2
      <4> HIDE DEF H
      <4> QED
        BY <3>2, <4>1, SumsUnique
    <3>4. h[V] = Sum(f, V)
      BY <3>3 DEF Sum
    <3> QED
      BY <2>2, <2>3, <2>5, <3>1, <3>4
  <2> QED
    BY <2>4, <2>5
<1>6. ASSUME NEW U \in SUBSET T
      PROVE  g[U] = IF U = {} THEN 0 ELSE f[Pick(U)] + g[U \ {Pick(U)}]
  <2>1. g[U] = After(U)
    <3>1. CASE U = T
      BY <3>1
    <3>2. CASE U # T
      <4>1. g[U] = Sum(f, U)
        BY <3>2
      <4> QED
        BY <1>5, <3>2, <4>1
    <3> QED
      BY <3>1, <3>2
  <2>2. ASSUME U # {} PROVE g[U \ {Pick(U)}] = Sum(f, U \ {Pick(U)})
    <3>1. PICK x : x = Pick(U)
      OBVIOUS
    <3>2. x \in U
      BY <2>2, <3>1
    <3>3. U \ {x} \in SUBSET T /\ U \ {x} # T
      BY <3>2
    <3>4. g[U \ {x}] = Sum(f, U \ {x})
      BY <3>3
    <3> QED
      BY <3>1, <3>4
  <2> HIDE DEF g
  <2> QED
    BY <2>1, <2>2
<1>7. g = [U \in SUBSET T |-> g[U]]
  OBVIOUS
<1> HIDE DEF g
<1>8. PartialSums(f, T, g)
  BY <1>6, <1>7 DEF PartialSums
<1> QED
  BY <1>3, <1>8

\* A sum by its first element.
LEMMA SumFirst ==
    ASSUME NEW f, NEW S, IsFiniteSet(S)
    PROVE  Sum(f, S) = IF S = {} THEN 0
                       ELSE LET x == CHOOSE y \in S : TRUE IN f[x] + Sum(f, S \ {x})
<1> DEFINE H(U) == CHOOSE h : PartialSums(f, U, h)
<1>1. ASSUME NEW U, IsFiniteSet(U) PROVE PartialSums(f, U, H(U)) /\ Sum(f, U) = H(U)[U]
  BY <1>1, SumsExist DEF Sum
<1>2. PICK x : x = CHOOSE y \in S : TRUE
  OBVIOUS
<1>3. PICK T : T = S \ {x}
  OBVIOUS
<1>4. IsFiniteSet(T) /\ T \subseteq S
  BY <1>3, FS_RemoveElement
<1> HIDE DEF H
<1>5. H(S)[S] = IF S = {} THEN 0 ELSE f[x] + H(S)[T]
  <2>1. S \in SUBSET S
    OBVIOUS
  <2> QED
    BY <1>1, <1>2, <1>3, <2>1 DEF PartialSums
<1>6. H(S)[T] = H(T)[T]
  BY <1>1, <1>4, SumsUnique
<1> QED
  BY <1>1, <1>2, <1>3, <1>4, <1>5, <1>6

\* The sum over no element.
LEMMA SumEmpty == \A f : Sum(f, {}) = 0
  BY SumFirst, FS_EmptySet

\* A sum of integers is one, and any element can be taken first.
LEMMA SumRemove ==
    ASSUME NEW S, IsFiniteSet(S), NEW f, \A x \in S : f[x] \in Int
    PROVE  /\ Sum(f, S) \in Int
           /\ \A x \in S : Sum(f, S) = f[x] + Sum(f, S \ {x})
<1> DEFINE Adds(T) == /\ Sum(f, T) \in Int
                      /\ \A x \in T : Sum(f, T) = f[x] + Sum(f, T \ {x})
           B == {T \in SUBSET S : ~Adds(T)}
<1>1. SUFFICES ASSUME B # {} PROVE FALSE
  <2>1. S \notin B
    BY <1>1
  <2>2. Adds(S)
    BY <2>1
  <2> QED
    BY <2>2
<1>2. PICK T \in B : \A U \in B : U \subseteq T => U = T
  <2>1. B \subseteq SUBSET S
    OBVIOUS
  <2> HIDE DEF B
  <2> QED
    BY <1>1, <2>1, MinimalSubset
<1>3. T \subseteq S /\ ~Adds(T) /\ IsFiniteSet(T)
  BY FS_Subset
<1>4. ASSUME NEW x \in T PROVE Adds(T \ {x})
  <2>1. T \ {x} \notin B
    BY <1>2
  <2>2. T \ {x} \in SUBSET S
    BY <1>3
  <2> HIDE DEF Adds
  <2> QED
    BY <2>1, <2>2
<1> HIDE DEF B
<1>5. PICK c : c = CHOOSE x \in T : TRUE
  OBVIOUS
<1>6. Sum(f, T) = IF T = {} THEN 0 ELSE f[c] + Sum(f, T \ {c})
  BY <1>3, <1>5, SumFirst
<1>7. T # {}
  <2>1. T = {} => Adds(T)
    BY <1>6
  <2> QED
    BY <1>3, <2>1
<1>8. c \in T /\ f[c] \in Int
  BY <1>3, <1>5, <1>7
<1>9. Sum(f, T) \in Int
  BY <1>4, <1>6, <1>7, <1>8
<1>10. ASSUME NEW x \in T PROVE Sum(f, T) = f[x] + Sum(f, T \ {x})
  <2>1. CASE x = c
    BY <1>6, <1>7, <2>1
  <2>2. CASE x # c
    <3>1. x \in T \ {c} /\ c \in T \ {x} /\ f[x] \in Int
      BY <1>3, <1>8, <2>2
    <3>2. PICK U : U = T \ {c, x}
      OBVIOUS
    <3>3. (T \ {c}) \ {x} = U /\ (T \ {x}) \ {c} = U
      BY <3>2
    <3>4. Sum(f, T \ {c}) = f[x] + Sum(f, U)
      BY <1>4, <1>8, <3>1, <3>3
    <3>5. Sum(f, T \ {x}) = f[c] + Sum(f, U)
      BY <1>4, <3>1, <3>3
    <3>6. Adds(T \ {x}) /\ U = (T \ {x}) \ {c}
      BY <1>4, <3>3
    <3>7. Sum(f, U) \in Int
      <4>1. IsFiniteSet(U) /\ U \subseteq T
        BY <1>3, <3>2, FS_Subset
      <4>2. U \in SUBSET S /\ U # T
        BY <1>3, <1>8, <3>2, <4>1
      <4>3. Adds(U)
        BY <1>2, <4>1, <4>2 DEF B
      <4> QED
        BY <4>3
    <3> QED
      BY <1>6, <1>7, <1>8, <3>1, <3>4, <3>5, <3>7
  <2> QED
    BY <2>1, <2>2
<1> QED
  BY <1>3, <1>9, <1>10

\* One more element adds its value.
LEMMA SumAdd ==
    ASSUME NEW S, IsFiniteSet(S), NEW x, x \notin S,
           NEW f, \A y \in S \cup {x} : f[y] \in Int
    PROVE  Sum(f, S \cup {x}) = f[x] + Sum(f, S)
<1>1. IsFiniteSet(S \cup {x}) /\ (S \cup {x}) \ {x} = S
  BY FS_AddElement
<1> QED
  BY <1>1, SumRemove

\* A sum over two parts.
LEMMA SumSplit ==
    ASSUME NEW S, IsFiniteSet(S), NEW A, A \subseteq S,
           NEW f, \A x \in S : f[x] \in Int
    PROVE  Sum(f, S) = Sum(f, A) + Sum(f, S \ A)
<1> DEFINE B == {T \in SUBSET S : Sum(f, T) # Sum(f, T \cap A) + Sum(f, T \ A)}
<1>1. SUFFICES ASSUME B # {} PROVE FALSE
  <2>1. S \notin B /\ S \cap A = A
    BY <1>1
  <2> QED
    BY <2>1
<1>2. PICK T \in B : \A U \in B : U \subseteq T => U = T
  <2>1. B \subseteq SUBSET S
    OBVIOUS
  <2> HIDE DEF B
  <2> QED
    BY <1>1, <2>1, MinimalSubset
<1>3. T \subseteq S /\ Sum(f, T) # Sum(f, T \cap A) + Sum(f, T \ A)
  OBVIOUS
<1>4. /\ IsFiniteSet(T) /\ IsFiniteSet(T \cap A) /\ IsFiniteSet(T \ A)
      /\ \A x \in T : f[x] \in Int
  BY <1>3, FS_Subset
<1>5. T # {}
  <2>1. {} \cap A = {} /\ {} \ A = {} /\ 0 + 0 = 0
    OBVIOUS
  <2> QED
    BY <1>3, <2>1, SumEmpty
<1>6. PICK x \in T : TRUE
  BY <1>5
<1> DEFINE U == T \ {x}
<1>7. Sum(f, U) = Sum(f, U \cap A) + Sum(f, U \ A)
  <2>1. U \in SUBSET S /\ U \subseteq T /\ U # T
    BY <1>3, <1>6
  <2>2. U \notin B
    BY <1>2, <2>1
  <2> QED
    BY <2>1, <2>2
<1> HIDE DEF B
<1>8. /\ Sum(f, T) = f[x] + Sum(f, U)
      /\ Sum(f, T \cap A) \in Int /\ Sum(f, T \ A) \in Int
      /\ Sum(f, U \cap A) \in Int /\ Sum(f, U \ A) \in Int
  <2>1. IsFiniteSet(U \cap A) /\ IsFiniteSet(U \ A)
    BY <1>3, FS_Subset
  <2> QED
    BY <1>4, <1>6, <2>1, SumRemove
<1>9. CASE x \in A
  <2>1. U \ A = T \ A /\ U \cap A = (T \cap A) \ {x} /\ x \in T \cap A
    BY <1>6, <1>9
  <2>2. Sum(f, T \cap A) = f[x] + Sum(f, U \cap A)
    BY <1>4, <2>1, SumRemove
  <2>3. f[x] \in Int /\ Sum(f, U \ A) = Sum(f, T \ A)
    BY <1>4, <1>6, <2>1
  <2> HIDE DEF U
  <2> QED
    BY ONLY <1>3, <1>7, <1>8, <2>2, <2>3
<1>10. CASE x \notin A
  <2>1. U \cap A = T \cap A /\ U \ A = (T \ A) \ {x} /\ x \in T \ A
    BY <1>6, <1>10
  <2>2. Sum(f, T \ A) = f[x] + Sum(f, U \ A)
    BY <1>4, <2>1, SumRemove
  <2>3. f[x] \in Int /\ Sum(f, U \cap A) = Sum(f, T \cap A)
    BY <1>4, <1>6, <2>1
  <2> HIDE DEF U
  <2> QED
    BY ONLY <1>3, <1>7, <1>8, <2>2, <2>3
<1> QED
  BY <1>9, <1>10

\* A sum of naturals is one.
LEMMA SumNatural ==
    ASSUME NEW S, IsFiniteSet(S), NEW f, \A x \in S : f[x] \in Nat
    PROVE  Sum(f, S) \in Nat
<1> DEFINE B == {T \in SUBSET S : Sum(f, T) \notin Nat}
<1>1. SUFFICES ASSUME B # {} PROVE FALSE
  <2> S \in SUBSET S
    OBVIOUS
  <2> QED
    BY <1>1
<1>2. PICK T \in B : \A U \in B : U \subseteq T => U = T
  <2>1. B \subseteq SUBSET S
    OBVIOUS
  <2> HIDE DEF B
  <2> QED
    BY <1>1, <2>1, MinimalSubset
<1>3. T # {}
  BY SumEmpty
<1>4. PICK x \in T : TRUE
  BY <1>3
<1>5. Sum(f, T \ {x}) \in Nat
  BY <1>2, <1>4
<1>6. Sum(f, T) = f[x] + Sum(f, T \ {x}) /\ f[x] \in Nat /\ Sum(f, T) \notin Nat
  <2>1. IsFiniteSet(T) /\ T \subseteq S /\ \A y \in T : f[y] \in Int
    BY FS_Subset
  <2> QED
    BY <1>4, <2>1, SumRemove
<1> QED
  BY <1>5, <1>6

\* Two sums are the same if b pairs their elements off, with signs if s is -1.
LEMMA SumPairs ==
    ASSUME NEW S, IsFiniteSet(S), NEW f, \A x \in S : f[x] \in Int,
           NEW b, \A x, y \in S : b[x] = b[y] => x = y,
           NEW s \in {1, -1}, NEW g, \A x \in S : g[b[x]] = s * f[x]
    PROVE  /\ IsFiniteSet({b[x] : x \in S})
           /\ Sum(g, {b[x] : x \in S}) = s * Sum(f, S)
<1> DEFINE Image(T) == {b[x] : x \in T}
           Agrees(T) == IsFiniteSet(Image(T)) /\ Sum(g, Image(T)) = s * Sum(f, T)
           B == {T \in SUBSET S : ~Agrees(T)}
<1>1. SUFFICES ASSUME B # {} PROVE FALSE
  <2>1. S \notin B
    BY <1>1
  <2>2. Agrees(S)
    BY <2>1
  <2> QED
    BY <2>2
<1>2. PICK T \in B : \A U \in B : U \subseteq T => U = T
  <2>1. B \subseteq SUBSET S
    OBVIOUS
  <2> HIDE DEF B
  <2> QED
    BY <1>1, <2>1, MinimalSubset
<1>3. T \subseteq S /\ ~Agrees(T)
  OBVIOUS
<1>4. T # {}
  <2>1. Image({}) = {} /\ s * 0 = 0
    OBVIOUS
  <2> HIDE DEF Image
  <2>2. Agrees({})
    BY <2>1, SumEmpty, FS_EmptySet
  <2> QED
    BY <1>3, <2>2
<1>5. PICK x \in T : TRUE
  BY <1>4
<1> DEFINE U == T \ {x}
<1>6. Agrees(U)
  <2>1. U \in SUBSET S /\ U \subseteq T /\ U # T
    BY <1>3, <1>5
  <2>2. U \notin B
    BY <1>2, <2>1
  <2> HIDE DEF Agrees, U
  <2> QED
    BY <2>1, <2>2
<1> HIDE DEF B
<1>7. /\ Image(T) = Image(U) \cup {b[x]} /\ b[x] \notin Image(U)
      /\ \A z \in Image(T) : g[z] \in Int
  BY <1>3, <1>5
<1>8. IsFiniteSet(Image(T)) /\ Sum(g, Image(T)) = g[b[x]] + Sum(g, Image(U))
  <2>1. PICK z : z = b[x]
    OBVIOUS
  <2> HIDE DEF Image, U
  <2>2. PICK I : I = Image(U)
    OBVIOUS
  <2>3. IsFiniteSet(I) /\ z \notin I /\ \A y \in I \cup {z} : g[y] \in Int
    BY <1>6, <1>7, <2>1, <2>2
  <2>4. IsFiniteSet(I \cup {z}) /\ Sum(g, I \cup {z}) = g[z] + Sum(g, I)
    BY <2>3, FS_AddElement, SumAdd
  <2> QED
    BY <1>7, <2>1, <2>2, <2>4
<1>9. /\ Sum(f, T) = f[x] + Sum(f, U) /\ f[x] \in Int /\ Sum(f, U) \in Int
      /\ g[b[x]] = s * f[x]
  <2>1. IsFiniteSet(T) /\ IsFiniteSet(U) /\ U \subseteq S
    BY <1>3, FS_Subset
  <2> QED
    BY <1>3, <1>5, <2>1, SumRemove
<1>10. s * f[x] + s * Sum(f, U) = s * (f[x] + Sum(f, U))
  BY <1>9
<1> HIDE DEF Image, U
<1>11. Agrees(T)
  BY <1>6, <1>8, <1>9, <1>10
<1> QED
  BY <1>3, <1>11

\* The sum of differences.
LEMMA SumMinus ==
    ASSUME NEW S, IsFiniteSet(S), NEW f, NEW g, NEW h,
           \A x \in S : f[x] \in Int /\ g[x] \in Int /\ h[x] = f[x] - g[x]
    PROVE  Sum(h, S) = Sum(f, S) - Sum(g, S)
<1> DEFINE B == {T \in SUBSET S : Sum(h, T) # Sum(f, T) - Sum(g, T)}
<1>1. SUFFICES ASSUME B # {} PROVE FALSE
  <2>1. S \in SUBSET S
    OBVIOUS
  <2> QED
    BY <1>1, <2>1
<1>2. PICK T \in B : \A U \in B : U \subseteq T => U = T
  <2>1. B \subseteq SUBSET S
    OBVIOUS
  <2> HIDE DEF B
  <2> QED
    BY <1>1, <2>1, MinimalSubset
<1>3. T \subseteq S /\ Sum(h, T) # Sum(f, T) - Sum(g, T)
  OBVIOUS
<1>4. IsFiniteSet(T)
  BY <1>3, FS_Subset
<1>5. T # {}
  BY <1>3, SumEmpty
<1>6. PICK x \in T : TRUE
  BY <1>5
<1> DEFINE U == T \ {x}
<1>7. Sum(h, U) = Sum(f, U) - Sum(g, U)
  <2>1. U \in SUBSET S /\ U \subseteq T /\ U # T
    BY <1>3, <1>6
  <2>2. U \notin B
    BY <1>2, <2>1
  <2> QED
    BY <2>1, <2>2
<1> HIDE DEF B
<1>8. IsFiniteSet(U) /\ U \subseteq S
  BY <1>3, <1>4, FS_Subset
<1>9. /\ Sum(f, T) = f[x] + Sum(f, U) /\ Sum(g, T) = g[x] + Sum(g, U)
      /\ Sum(h, T) = h[x] + Sum(h, U)
      /\ Sum(f, U) \in Int /\ Sum(g, U) \in Int
  <2>1. \A y \in S : f[y] \in Int /\ g[y] \in Int /\ h[y] \in Int
    OBVIOUS
  <2>2. \A y \in T : f[y] \in Int /\ g[y] \in Int /\ h[y] \in Int
    BY <1>3, <2>1
  <2>3. \A y \in U : f[y] \in Int /\ g[y] \in Int /\ h[y] \in Int
    BY <2>2
  <2> HIDE DEF U
  <2>4. Sum(f, U) \in Int /\ Sum(g, U) \in Int
    BY <1>8, <2>3, SumRemove
  <2> USE DEF U
  <2> QED
    BY <1>4, <1>6, <2>2, <2>4, SumRemove
<1>10. f[x] \in Int /\ g[x] \in Int /\ h[x] = f[x] - g[x]
  BY <1>3, <1>6
<1> HIDE DEF U
<1> QED
  BY <1>3, <1>7, <1>9, <1>10

\* P has the elements of S in groups, k naming the group of an element.
Groups(S, I, k, P) ==
    /\ \A x \in S : k[x] \in I
    /\ \A i \in I : P[i] \subseteq S /\ \A x \in S : x \in P[i] <=> k[x] = i

\* A sum can be taken group by group, g having the sum of each.
LEMMA SumGroups ==
    ASSUME NEW S, IsFiniteSet(S), NEW f, \A x \in S : f[x] \in Int,
           NEW I, IsFiniteSet(I), NEW k, NEW P, Groups(S, I, k, P),
           NEW g, \A i \in I : g[i] = Sum(f, P[i])
    PROVE  Sum(g, I) = Sum(f, S)
<1> DEFINE Of(J) == {x \in S : k[x] \in J}
           B == {J \in SUBSET I : Sum(g, J) # Sum(f, Of(J))}
<1>1. SUFFICES ASSUME B # {} PROVE FALSE
  <2>1. Of(I) = S
    BY DEF Groups
  <2>2. I \notin B
    BY <1>1
  <2>3. Sum(g, I) = Sum(f, Of(I))
    BY <2>2
  <2> HIDE DEF Of
  <2> QED
    BY <2>1, <2>3
<1>2. PICK J \in B : \A U \in B : U \subseteq J => U = J
  <2>1. B \subseteq SUBSET I
    OBVIOUS
  <2> HIDE DEF B
  <2> QED
    BY <1>1, <2>1, MinimalSubset
<1>3. J \subseteq I /\ Sum(g, J) # Sum(f, Of(J))
  OBVIOUS
<1>4. J # {}
  <2>1. Of({}) = {}
    OBVIOUS
  <2> HIDE DEF Of
  <2> QED
    BY <1>3, <2>1, SumEmpty
<1>5. PICK i \in J : TRUE
  BY <1>4
<1> DEFINE U == J \ {i}
<1>6. Sum(g, U) = Sum(f, Of(U))
  <2>1. U \in SUBSET I /\ U \subseteq J /\ U # J
    BY <1>3, <1>5
  <2>2. U \notin B
    BY <1>2, <2>1
  <2> HIDE DEF Of, U
  <2> QED
    BY <2>1, <2>2
<1> HIDE DEF B
<1>7. IsFiniteSet(J) /\ IsFiniteSet(Of(J)) /\ IsFiniteSet(Of(U))
  BY <1>3, FS_Subset
<1>8. Sum(f, Of(J)) = Sum(f, P[i]) + Sum(f, Of(U))
  <2>1. P[i] \subseteq Of(J) /\ Of(J) \ P[i] = Of(U) /\ \A x \in Of(J) : f[x] \in Int
    BY <1>3, <1>5 DEF Groups
  <2> HIDE DEF Of, U
  <2> QED
    BY <1>7, <2>1, SumSplit
<1>9. \A l \in J : g[l] \in Int
  <2> SUFFICES ASSUME NEW l \in J PROVE g[l] \in Int
    OBVIOUS
  <2>1. g[l] = Sum(f, P[l]) /\ IsFiniteSet(P[l]) /\ \A x \in P[l] : f[x] \in Int
    BY <1>3, FS_Subset DEF Groups
  <2> QED
    BY <2>1, SumRemove
<1>10. Sum(g, J) = g[i] + Sum(g, U) /\ g[i] = Sum(f, P[i])
  BY <1>3, <1>5, <1>7, <1>9, SumRemove
<1> HIDE DEF Of, U
<1> QED
  BY <1>3, <1>6, <1>8, <1>10

\* A sum of the model is the last of the partial sums of its terms f.
LEMMA AmountSum ==
    ASSUME NEW S, IsFiniteSet(S), NEW f, \A x \in S : f[x] = x.amount
    PROVE  MapThenSumSet(LAMBDA p : p.amount, S) = Sum(f, S)
<1> DEFINE E(h) == h = [T \in SUBSET S |->
                          IF T = {} THEN 0
                          ELSE (CHOOSE x \in T : TRUE).amount
                                  + h[T \ {CHOOSE x \in T : TRUE}]]
<1>1. MapThenSumSet(LAMBDA p : p.amount, S) = (CHOOSE h : E(h))[S]
  BY DEF MapThenSumSet, MapThenFoldSet
<1>2. ASSUME NEW h PROVE E(h) <=> PartialSums(f, S, h)
  <2>1. \A T \in SUBSET S : T # {} => /\ (CHOOSE x \in T : TRUE) \in S
                                      /\ f[CHOOSE x \in T : TRUE] = (CHOOSE x \in T : TRUE).amount
    OBVIOUS
  <2> QED
    BY <2>1 DEF PartialSums
<1> HIDE DEF E
<1>3. PartialSums(f, S, CHOOSE h : E(h)) /\ PartialSums(f, S, CHOOSE h : PartialSums(f, S, h))
  BY <1>2, SumsExist
<1> QED
  BY <1>1, <1>3, SumsUnique DEF Sum

\* The same of the credits of entries.
LEMMA CreditSum ==
    ASSUME NEW S, IsFiniteSet(S), NEW f, \A j \in S : f[j] = journals[j].credit
    PROVE  Credits(S) = Sum(f, S)
<1> DEFINE E(h) == h = [T \in SUBSET S |->
                          IF T = {} THEN 0
                          ELSE journals[CHOOSE x \in T : TRUE].credit
                                  + h[T \ {CHOOSE x \in T : TRUE}]]
<1>1. Credits(S) = (CHOOSE h : E(h))[S]
  BY DEF Credits, MapThenSumSet, MapThenFoldSet
<1>2. ASSUME NEW h PROVE E(h) <=> PartialSums(f, S, h)
  <2>1. \A T \in SUBSET S : T # {} =>
           f[CHOOSE x \in T : TRUE] = journals[CHOOSE x \in T : TRUE].credit
    OBVIOUS
  <2> QED
    BY <2>1 DEF PartialSums
<1> HIDE DEF E
<1>3. PartialSums(f, S, CHOOSE h : E(h)) /\ PartialSums(f, S, CHOOSE h : PartialSums(f, S, h))
  BY <1>2, SumsExist
<1> QED
  BY <1>1, <1>3, SumsUnique DEF Sum

\* The same of the totals of invoices.
LEMMA TotalSum ==
    ASSUME NEW S, IsFiniteSet(S), NEW f, \A i \in S : f[i] = invoices[i].total
    PROVE  MapThenSumSet(LAMBDA i : invoices[i].total, S) = Sum(f, S)
<1> DEFINE E(h) == h = [T \in SUBSET S |->
                          IF T = {} THEN 0
                          ELSE invoices[CHOOSE x \in T : TRUE].total
                                  + h[T \ {CHOOSE x \in T : TRUE}]]
<1>1. MapThenSumSet(LAMBDA i : invoices[i].total, S) = (CHOOSE h : E(h))[S]
  BY DEF MapThenSumSet, MapThenFoldSet
<1>2. ASSUME NEW h PROVE E(h) <=> PartialSums(f, S, h)
  <2>1. \A T \in SUBSET S : T # {} =>
           f[CHOOSE x \in T : TRUE] = invoices[CHOOSE x \in T : TRUE].total
    OBVIOUS
  <2> QED
    BY <2>1 DEF PartialSums
<1> HIDE DEF E
<1>3. PartialSums(f, S, CHOOSE h : E(h)) /\ PartialSums(f, S, CHOOSE h : PartialSums(f, S, h))
  BY <1>2, SumsExist
<1> QED
  BY <1>1, <1>3, SumsUnique DEF Sum

\* The same of the amounts due on invoices.
LEMMA DueSum ==
    ASSUME NEW S, IsFiniteSet(S), NEW f, \A i \in S : f[i] = Due(i)
    PROVE  MapThenSumSet(Due, S) = Sum(f, S)
<1> DEFINE E(h) == h = [T \in SUBSET S |->
                          IF T = {} THEN 0
                          ELSE Due(CHOOSE x \in T : TRUE) + h[T \ {CHOOSE x \in T : TRUE}]]
<1>1. MapThenSumSet(Due, S) = (CHOOSE h : E(h))[S]
  BY DEF MapThenSumSet, MapThenFoldSet
<1>2. ASSUME NEW h PROVE E(h) <=> PartialSums(f, S, h)
  <2>1. \A T \in SUBSET S : T # {} => f[CHOOSE x \in T : TRUE] = Due(CHOOSE x \in T : TRUE)
    OBVIOUS
  <2> HIDE DEF Due
  <2> QED
    BY <2>1 DEF PartialSums
<1> HIDE DEF E
<1>3. PartialSums(f, S, CHOOSE h : E(h)) /\ PartialSums(f, S, CHOOSE h : PartialSums(f, S, h))
  BY <1>2, SumsExist
<1> QED
  BY <1>1, <1>3, SumsUnique DEF Sum

-----------------------------------------------------------------------------
(* The sum of the payment rows                                             *)

Cents == [p \in Payment |-> p.amount]

\* The payment rows of an invoice, and their sum.
LEMMA RowsSum ==
    ASSUME NEW P, P \subseteq Payment, IsFiniteSet(P), NEW i, NEW R, R = {p \in P : p.inv = i}
    PROVE  /\ IsFiniteSet(R) /\ \A p \in R : Cents[p] \in Nat
           /\ MapThenSumSet(LAMBDA p : p.amount, R) = Sum(Cents, R)
<1>1. IsFiniteSet(R)
  BY FS_Subset
<1>2. \A p \in R : Cents[p] = p.amount /\ p.amount \in Nat
  BY DEF Cents, Payment
<1> QED
  BY <1>1, <1>2, AmountSum

\* The columns the trigger sums up agree with the rows, and an open insert has
\* an identifier of its own.
SumInv ==
    /\ IsFiniteSet(payments)
    /\ \A w \in Worker : At(w, "pay_commit") => \A p \in payments : p.id # req[w].pay
    /\ \A i \in InvoiceId : paidTotal[i] = Sum(Cents, PaymentRows(i))

\* The sum is the one that InvoiceLedger speaks of.
LEMMA RowSumIsSum ==
    ASSUME TypeInv, SumInv, NEW i \in InvoiceId PROVE RowSum(i) = Sum(Cents, PaymentRows(i))
<1>1. payments \subseteq Payment /\ IsFiniteSet(payments)
  BY DEF SumInv, TypeInv, TypeOK, TablesOK
<1> QED
  BY <1>1, RowsSum DEF RowSum, PaymentRows

\* There are no rows and no sums at the start.
LEMMA SumInit == Init => SumInv
<1> SUFFICES ASSUME Init PROVE SumInv
  OBVIOUS
<1>1. payments = {} /\ IsFiniteSet({}) /\ {} \subseteq Payment
  BY FS_EmptySet DEF Init
<1>2. ASSUME NEW i \in InvoiceId PROVE Sum(Cents, PaymentRows(i)) = 0
  <2>1. PaymentRows(i) = {}
    BY <1>1 DEF PaymentRows
  <2> QED
    BY <2>1, SumEmpty
<1> QED
  BY <1>1, <1>2 DEF Init, NoRequest, At, SumInv

\* Only a commit and a delete touch the payment rows.
LEMMA PaymentEffects ==
    ASSUME TypeInv, [Next]_vars
    PROVE  \/ UNCHANGED <<payments, paidTotal>>
           \/ \E w \in Worker : PayCommit(w)
           \/ \E w \in Worker : DeleteExec(w) /\ Deletable(req[w].inv)
<1>1. ASSUME NEW w \in Worker, NEW k \in InvoiceId, Begin(w, k)
      PROVE  UNCHANGED <<payments, paidTotal>>
  BY <1>1, BeginReceives DEF Receive
<1> QED
  BY <1>1 DEF Next, Serve, CreateInvoice, Abort, vars, Proceed, SubmitUpdate, ApproveUpdate,
     RejectUpdate, RecallUpdate, WriteInvoices, DeleteExec, PostReadLines, PostCreate,
     PostPost, PostBalance, PostMark, PaySum, PayCreate, PayPost, PayBalance, CreateJournal,
     PostJournal, UpdateBalance

\* The row a worker commits.
LEMMA CommitRow ==
    ASSUME TypeInv, SumInv, NEW w \in Worker, PayCommit(w)
    PROVE  /\ payments' = payments \cup {PaymentRow(req[w])}
           /\ PaymentRow(req[w]) \in Payment \ payments
           /\ PaymentRow(req[w]).inv = req[w].inv /\ PaymentRow(req[w]).id = req[w].pay
           /\ Cents[PaymentRow(req[w])] = req[w].amount /\ req[w].amount \in Nat
           /\ req[w].inv \in InvoiceId
           /\ paidTotal' = [paidTotal EXCEPT ![req[w].inv] = @ + req[w].amount]
<1>1. /\ req[w].pay \in PaymentId /\ req[w].inv \in InvoiceId /\ req[w].amount \in Nat
      /\ At(w, "pay_commit")
  BY DEF PayCommit, At, TypeInv, TypeOK, RequestsOK, HoldsIds, Request
<1>2. PaymentRow(req[w]) \in Payment /\ PaymentRow(req[w]) \notin payments
  BY <1>1 DEF PaymentRow, Payment, SumInv
<1> QED
  BY <1>1, <1>2 DEF PayCommit, PaymentRow, Cents

\* The identifier of an open insert stays unused.
LEMMA NewIdStep ==
    ASSUME TypeInv, EntryInv, SumInv, [Next]_vars, NEW v \in Worker, At(v, "pay_commit")',
           NEW p \in payments'
    PROVE  p.id # req'[v].pay
<1>0. req'[v].pc = "pay_commit" /\ req \in [Worker -> Request]
  BY DEF At, TypeInv, TypeOK, RequestsOK
<1>1. CASE PaySum(v) /\ req'[v].pay \notin UsedPayments
  BY <1>1 DEF PaySum, UsedPayments
<1>2. CASE req'[v] = req[v]
  <2>1. At(v, "pay_commit") /\ req[v].pay \in PaymentId
    BY <1>0, <1>2 DEF At, TypeInv, TypeOK, RequestsOK, HoldsIds
  <2>2. CASE p \in payments
    BY <1>2, <2>1, <2>2 DEF SumInv
  <2>3. ASSUME NEW w \in Worker, PayCommit(w), p \notin payments PROVE p.id # req'[v].pay
    <3>1. p.id = req[w].pay /\ req[w].pay \in PaymentId
      BY <2>3, CommitRow DEF PayCommit, At, TypeInv, TypeOK, RequestsOK, HoldsIds
    <3>2. w # v
      BY <1>0, <2>3 DEF PayCommit, Continue, Request
    <3> QED
      BY <1>2, <3>1, <3>2, NilAssumption DEF EntryInv, OwnPayments
  <2> QED
    BY <2>2, <2>3, PaymentEffects DEF DeleteExec
<1> QED
  BY <1>0, <1>1, <1>2, RequestEffects DEF RequestEffect

\* The column follows the rows of an invoice.
LEMMA RowSumStep ==
    ASSUME TypeInv, SumInv, [Next]_vars, IsFiniteSet(payments'), payments' \subseteq Payment,
           NEW i \in InvoiceId
    PROVE  paidTotal'[i] = Sum(Cents, PaymentRows(i)')
<1> DEFINE R == {p \in payments : p.inv = i}
           N == {p \in payments' : p.inv = i}
<1>0. /\ payments \subseteq Payment /\ IsFiniteSet(payments)
      /\ paidTotal \in [InvoiceId -> Nat] /\ paidTotal[i] = Sum(Cents, R)
  BY DEF SumInv, TypeInv, TypeOK, TablesOK, PaymentRows
<1>1. IsFiniteSet(R) /\ \A p \in R : Cents[p] \in Nat
  BY <1>0, RowsSum
<1>2. PaymentRows(i)' = N
  BY DEF PaymentRows
<1>3. CASE UNCHANGED <<payments, paidTotal>>
  BY <1>0, <1>1, <1>2, <1>3
<1>4. ASSUME NEW w \in Worker, PayCommit(w) PROVE paidTotal'[i] = Sum(Cents, PaymentRows(i)')
  <2>1. PICK r \in Payment \ payments :
          /\ payments' = payments \cup {r} /\ r.inv = req[w].inv
          /\ Cents[r] = req[w].amount /\ req[w].amount \in Nat
          /\ paidTotal' = [paidTotal EXCEPT ![req[w].inv] = @ + req[w].amount]
    BY <1>4, CommitRow
  <2>2. CASE r.inv = i
    <3>1. N = R \cup {r} /\ r \notin R
      BY <2>1, <2>2
    <3>2. Sum(Cents, R \cup {r}) = Cents[r] + Sum(Cents, R)
      <4>1. \A p \in R \cup {r} : Cents[p] \in Int
        BY <1>1, <2>1
      <4> HIDE DEF R
      <4> QED
        BY <1>1, <3>1, <4>1, SumAdd
    <3>3. Sum(Cents, R) \in Int
      BY <1>0, <1>1
    <3>4. paidTotal'[i] = paidTotal[i] + Cents[r]
      BY <1>0, <2>1, <2>2
    <3> HIDE DEF R, N
    <3> QED
      BY <1>0, <1>1, <1>2, <2>1, <3>1, <3>2, <3>3, <3>4
  <2>3. CASE r.inv # i
    <3>1. N = R /\ paidTotal'[i] = paidTotal[i]
      BY <1>0, <2>1, <2>3
    <3> QED
      BY <1>0, <1>1, <1>2, <3>1
  <2> QED
    BY <2>2, <2>3
<1>5. ASSUME NEW w \in Worker, DeleteExec(w), Deletable(req[w].inv)
      PROVE  paidTotal'[i] = Sum(Cents, PaymentRows(i)')
  <2>1. /\ payments' = {p \in payments : p.inv # req[w].inv}
        /\ paidTotal' = [paidTotal EXCEPT ![req[w].inv] = 0]
    BY <1>5 DEF DeleteExec
  <2>2. CASE req[w].inv = i
    <3>1. N = {} /\ paidTotal'[i] = 0
      BY <1>0, <2>1, <2>2
    <3> HIDE DEF N
    <3> QED
      BY <1>2, <3>1, SumEmpty
  <2>3. CASE req[w].inv # i
    <3>1. N = R /\ paidTotal'[i] = paidTotal[i]
      BY <1>0, <2>1, <2>3
    <3> QED
      BY <1>0, <1>1, <1>2, <3>1
  <2> QED
    BY <2>2, <2>3
<1> QED
  BY <1>3, <1>4, <1>5, PaymentEffects

\* Every step keeps the invariant of the sums.
LEMMA SumStep == TypeInv /\ EntryInv /\ SumInv /\ [Next]_vars => SumInv'
<1> SUFFICES ASSUME TypeInv, EntryInv, SumInv, [Next]_vars PROVE SumInv'
  OBVIOUS
<1>1. payments' \subseteq Payment
  BY TypeStep DEF TypeInv, TypeOK, TablesOK
<1>2. IsFiniteSet(payments')
  <2>1. IsFiniteSet(payments)
    BY DEF SumInv
  <2>2. ASSUME NEW w \in Worker, PayCommit(w) PROVE IsFiniteSet(payments')
    BY <2>1, <2>2, CommitRow, FS_AddElement
  <2>3. ASSUME NEW w \in Worker, DeleteExec(w) PROVE IsFiniteSet(payments')
    <3>1. payments' \subseteq payments
      BY <2>3 DEF DeleteExec
    <3> QED
      BY <2>1, <3>1, FS_Subset
  <2> QED
    BY <2>1, <2>2, <2>3, PaymentEffects
<1> QED
  BY <1>1, <1>2, NewIdStep, RowSumStep DEF SumInv

\* However requests overlap and fail, the sum that the next trigger will read
\* is that of the payment rows.
LEMMA SumInvariant == Spec => [](TypeInv /\ PostInv /\ PayInv /\ EntryInv /\ SumInv)
<1>1. Spec => [](TypeInv /\ PostInv /\ PayInv) /\ []EntryInv
  BY WorkersProgress, EntriesInvariant
<1> QED
  BY <1>1, SumInit, SumStep, PTL DEF Spec

-----------------------------------------------------------------------------
(* Requests for one invoice that do not overlap                            *)

\* What holds of any requests holds of these.
LEMMA SerialRuns == SerialSpec => Spec
<1>1. [Next /\ OneRequestPerInvoice']_vars => [Next]_vars
  OBVIOUS
<1> QED
  BY <1>1, PTL DEF SerialSpec, Spec

\* amount_paid is the sum of the payment rows, and so is the sum that the next
\* trigger reads, for any number of invoices and payments, wherever requests
\* fail.
THEOREM PaidIsSum == SerialSpec => []AmountPaidIsSum
<1>1. TypeInv /\ SerialInv /\ SumInv => AmountPaidIsSum
  BY RowSumIsSum DEF SerialInv, Settled, SumInv, AmountPaidIsSum
<1> QED
  BY <1>1, SerialInvariant, SumInvariant, SerialRuns, PTL

\* Not more is paid than is owed.
PaidWithinTotal == \A i \in InvoiceId : invoices[i].paid <= invoices[i].total

\* A payment is checked against what is still due when it is written.
LEMMA WithinTotalStep ==
    TypeInv /\ SerialInv /\ PaidWithinTotal /\ [Next]_vars => PaidWithinTotal'
<1> SUFFICES ASSUME TypeInv, SerialInv, PaidWithinTotal, [Next]_vars, NEW i \in InvoiceId
             PROVE  invoices'[i].paid <= invoices'[i].total
  BY DEF PaidWithinTotal
<1>0. /\ invoices[i].paid <= invoices[i].total
      /\ invoices[i].total \in Nat /\ invoices[i].paid \in Nat
  BY RowFields DEF PaidWithinTotal, TypeInv, TypeOK, TablesOK
<1>1. CASE Same(i)
  BY <1>0, <1>1 DEF Same
<1>2. ASSUME NEW w \in Worker, Proceed(w), i = req[w].inv
      PROVE  invoices'[i].paid <= invoices'[i].total
  <2>1. Writes(w, i) /\ Fresh(req[w])
    BY <1>2, FreshWrites DEF SerialInv
  <2>2. CASE At(w, "pay_commit") /\ ~Same(i)
    <3>1. req[w].amount \in Nat /\ req[w].amount <= Due(i)
      BY <1>2, <2>1, <2>2 DEF Fresh, At, TypeInv, TypeOK, RequestsOK, Request
    <3> QED
      BY <1>0, <2>1, <2>2, <3>1 DEF Writes, At, Due
  <2>3. CASE ~At(w, "pay_commit")
    BY <1>0, <1>1, <2>1, <2>3, AbsentFields DEF Writes, Moves
  <2> QED
    BY <1>1, <2>2, <2>3
<1>3. CASE \A w \in Worker : ~Proceed(w)
  <2>1. Same(i) \/ (invoices'[i].paid = 0 /\ invoices'[i].total \in Totals)
    BY <1>3, OthersWrite
  <2>2. CASE invoices'[i].paid = 0 /\ invoices'[i].total \in Totals
    <3>1. invoices'[i].total \in Nat
      BY <2>2, TotalsAssumption
    <3> QED
      BY <2>2, <3>1
  <2> QED
    BY <1>1, <2>1, <2>2
<1> QED
  BY <1>1, <1>2, <1>3, RowsApart

\* The payments of an invoice never exceed its total, as the comparison in
\* RecordPayment is meant to ensure.
THEOREM NeverOverpaid == SerialSpec => []NoOverpayment
<1>1. Init => PaidWithinTotal
  BY AbsentFields DEF Init, PaidWithinTotal
<1>2. [Next /\ OneRequestPerInvoice']_vars => [Next]_vars
  OBVIOUS
<1>3. SerialSpec => []PaidWithinTotal
  BY <1>1, <1>2, WithinTotalStep, SerialInvariant, PTL DEF SerialSpec
<1>4. AmountPaidIsSum /\ PaidWithinTotal => NoOverpayment
  BY DEF AmountPaidIsSum, PaidWithinTotal, NoOverpayment
<1> QED
  BY <1>3, <1>4, PaidIsSum, PTL

-----------------------------------------------------------------------------
(* The vendor balance and the entries                                      *)

\* The entries of GL-2 that are there.
Entries == {j \in JournalId : journals[j].type # "none"}

\* A call to AP-1 names a posted entry and moves the balance by its credit, up
\* for an invoice and down for a payment.
CallStands(c) ==
    /\ journals[c.journal].posted
    /\ journals[c.journal].inv = c.inv
    /\ \/ journals[c.journal].type = "ap_invoice" /\ c.amount = journals[c.journal].credit
       \/ journals[c.journal].type = "ap_payment" /\ c.amount = -journals[c.journal].credit

\* What a worker has achieved for its payment.
SettleProgress(r) ==
    /\ r.pc \in {"pay_post", "pay_balance"} =>
          /\ journals[r.journal].type = "ap_payment"
          /\ journals[r.journal].inv = r.inv
          /\ journals[r.journal].credit = r.amount
    /\ r.pc = "pay_balance" => journals[r.journal].posted

CallsInv ==
    /\ IsFiniteSet(Entries) /\ IsFiniteSet(balanceCalls)
    /\ \A c \in balanceCalls : CallStands(c)
    /\ \A w \in Worker : SettleProgress(req[w])

\* Only three calls to the other services change what they hold.
LEMMA RemoteEffects ==
    ASSUME TypeInv, [Next]_vars
    PROVE  \/ UNCHANGED <<journals, balanceCalls>>
           \/ \E w \in Worker : PostCreate(w) \/ PayCreate(w)
           \/ \E w \in Worker : PostPost(w) \/ PayPost(w)
           \/ \E w \in Worker : PostBalance(w) \/ PayBalance(w)
<1>1. ASSUME NEW w \in Worker, NEW i \in InvoiceId, Begin(w, i)
      PROVE  UNCHANGED <<journals, balanceCalls>>
  BY <1>1, BeginReceives DEF Receive
<1> QED
  BY <1>1 DEF Next, Serve, CreateInvoice, Abort, vars, Proceed, SubmitUpdate, ApproveUpdate,
     RejectUpdate, RecallUpdate, WriteInvoices, DeleteExec, remotes, PostReadLines, PostMark,
     PaySum, PayCommit

\* What a worker has achieved stays so while the others act.
LEMMA SettleProgressKept ==
    ASSUME TypeInv, CallsInv, [Next]_vars, NEW w \in Worker, req'[w] = req[w]
    PROVE  SettleProgress(req[w])'
<1> DEFINE r == req[w]
<1>1. r.pc \in {"pay_post", "pay_balance"} =>
         /\ r.journal \in JournalId /\ journals[r.journal].type # "none"
  BY DEF TypeInv, TypeOK, RequestsOK, HoldsIds, CallsInv, SettleProgress
<1> QED
  BY <1>1, EntriesStay DEF CallsInv, SettleProgress

\* A step of its own takes the worker on.
LEMMA SettleProgressStep ==
    ASSUME TypeInv, CallsInv, [Next]_vars, NEW w \in Worker
    PROVE  SettleProgress(req[w])'
<1>0. /\ req \in [Worker -> Request] /\ HoldsIds(req[w])
      /\ journals \in [JournalId -> Journal]
  BY DEF TypeInv, TypeOK, RequestsOK, RemotesOK
<1>1. ASSUME Finish(w) PROVE SettleProgress(req[w])'
  BY <1>0, <1>1 DEF Finish, NoRequest, SettleProgress
<1>2. ASSUME NEW pc \in Step \ {"pay_post", "pay_balance"}, Continue(w, pc)
      PROVE  SettleProgress(req[w])'
  BY <1>0, <1>2 DEF Continue, Request, SettleProgress
<1>3. CASE PayCreate(w)
  <2>1. PICK k \in JournalId :
          /\ journals' = [journals EXCEPT ![k] =
                [type |-> "ap_payment", inv |-> req[w].inv, pay |-> req[w].pay,
                 debit |-> req[w].amount, credit |-> req[w].amount, posted |-> FALSE]]
          /\ req' = [req EXCEPT ![w] = [@ EXCEPT !.pc = "pay_post", !.journal = k]]
    BY <1>3 DEF PayCreate, CreateJournal
  <2>2. /\ req'[w].pc = "pay_post" /\ req'[w].journal = k
        /\ req'[w].inv = req[w].inv /\ req'[w].amount = req[w].amount
    BY <1>0, <2>1 DEF Request
  <2> QED
    BY <1>0, <2>1, <2>2 DEF SettleProgress
<1>4. CASE PayPost(w)
  <2>1. /\ req'[w].pc = "pay_balance" /\ req'[w].journal = req[w].journal
        /\ req'[w].inv = req[w].inv /\ req'[w].amount = req[w].amount
    BY <1>0, <1>4 DEF PayPost, PostJournal, Continue, Request
  <2>2. /\ req[w].pc = "pay_post" /\ req[w].journal \in JournalId
        /\ journals' = [journals EXCEPT ![req[w].journal].posted = TRUE]
    BY <1>0, <1>4 DEF PayPost, PostJournal, At, HoldsIds
  <2>3. SettleProgress(req[w])
    BY DEF CallsInv
  <2> QED
    BY <1>0, <2>1, <2>2, <2>3 DEF SettleProgress, Journal
<1>5. CASE PostCreate(w)
  <2>1. req'[w].pc = "post_post"
    BY <1>0, <1>5 DEF PostCreate, CreateJournal, Request
  <2> QED
    BY <2>1 DEF SettleProgress
<1>6. CASE PostReadLines(w)
  <2>1. req'[w].pc = "post_create"
    BY <1>0, <1>6 DEF PostReadLines, Request
  <2> QED
    BY <2>1 DEF SettleProgress
<1>7. CASE PaySum(w)
  <2>1. req'[w].pc = "pay_commit"
    BY <1>0, <1>7 DEF PaySum, Request
  <2> QED
    BY <2>1 DEF SettleProgress
<1>8. CASE PostPost(w) \/ PostBalance(w) \/ PayCommit(w)
  BY <1>2, <1>8 DEF PostPost, PostBalance, PayCommit, PostJournal, Step
<1>9. CASE Proceed(w)
  BY <1>1, <1>3, <1>4, <1>5, <1>6, <1>7, <1>8, <1>9 DEF Proceed, SubmitUpdate, ApproveUpdate,
     RejectUpdate, RecallUpdate, WriteInvoices, DeleteExec, PostMark, PayBalance
<1>10. ASSUME NEW i \in InvoiceId, Begin(w, i) PROVE SettleProgress(req[w])'
  <2>1. PICK pc \in FirstSteps, a \in Nat : Receive(w, i, pc, a)
    BY <1>10, BeginReceives
  <2> QED
    BY <1>0, <2>1 DEF Receive, FirstSteps, NoRequest, SettleProgress
<1>11. ASSUME NEW v \in Worker, v # w, Proceed(v) \/ Abort(v) \/ \E i \in InvoiceId : Begin(v, i)
       PROVE  req'[w] = req[w]
  BY <1>0, <1>11, ProceedAlone, BeginReceives DEF Abort, Finish, Receive
<1>12. CASE req'[w] = req[w]
  BY <1>12, SettleProgressKept
<1> QED
  BY <1>1, <1>9, <1>10, <1>11, <1>12 DEF Next, Serve, CreateInvoice, Abort, vars

\* The entries and the calls stay finitely many.
LEMMA FiniteStep ==
    ASSUME TypeInv, CallsInv, [Next]_vars
    PROVE  IsFiniteSet(Entries') /\ IsFiniteSet(balanceCalls')
<1>0. journals \in [JournalId -> Journal] /\ IsFiniteSet(Entries) /\ IsFiniteSet(balanceCalls)
  BY DEF TypeInv, TypeOK, RemotesOK, CallsInv
<1>1. CASE UNCHANGED <<journals, balanceCalls>>
  <2>1. Entries' = Entries
    BY <1>1 DEF Entries
  <2> QED
    BY <1>0, <1>1, <2>1
<1>2. ASSUME NEW w \in Worker, PostCreate(w) \/ PayCreate(w)
      PROVE  IsFiniteSet(Entries') /\ IsFiniteSet(balanceCalls')
  <2>1. PICK j \in JournalId : \E e : journals' = [journals EXCEPT ![j] = e]
    BY <1>2 DEF PostCreate, PayCreate, CreateJournal
  <2>2. Entries' \subseteq Entries \cup {j}
    BY <1>0, <2>1 DEF Entries
  <2>3. IsFiniteSet(Entries \cup {j})
    BY <1>0, FS_AddElement
  <2> QED
    BY <1>0, <1>2, <2>2, <2>3, FS_Subset DEF PostCreate, PayCreate, CreateJournal
<1>3. ASSUME NEW w \in Worker, PostPost(w) \/ PayPost(w)
      PROVE  IsFiniteSet(Entries') /\ IsFiniteSet(balanceCalls')
  <2>1. journals' = [journals EXCEPT ![req[w].journal].posted = TRUE] /\ UNCHANGED balanceCalls
    BY <1>3 DEF PostPost, PayPost, PostJournal
  <2>2. Entries' = Entries
    BY <1>0, <2>1 DEF Entries, Journal
  <2> QED
    BY <1>0, <2>1, <2>2
<1>4. ASSUME NEW w \in Worker, PostBalance(w) \/ PayBalance(w)
      PROVE  IsFiniteSet(Entries') /\ IsFiniteSet(balanceCalls')
  <2>1. Entries' = Entries /\ \E c : balanceCalls' = balanceCalls \cup {c}
    BY <1>4 DEF PostBalance, PayBalance, UpdateBalance, Entries
  <2> QED
    BY <1>0, <2>1, FS_AddElement
<1> QED
  BY <1>1, <1>2, <1>3, <1>4, RemoteEffects

\* A call is made for an entry that is posted, and the entry stays.
LEMMA CallsStep ==
    ASSUME TypeInv, PostInv, CallsInv, [Next]_vars, NEW c \in balanceCalls'
    PROVE  CallStands(c)'
<1>0. /\ journals \in [JournalId -> Journal] /\ balanceCalls \subseteq BalanceCall
      /\ \A w \in Worker : req[w] \in Request /\ HoldsIds(req[w])
      /\ \A d \in balanceCalls : CallStands(d)
  BY DEF TypeInv, TypeOK, RemotesOK, RequestsOK, CallsInv
<1>1. CASE c \in balanceCalls
  <2>1. c.journal \in JournalId /\ CallStands(c)
    BY <1>0, <1>1 DEF BalanceCall
  <2>2. journals[c.journal].type # "none"
    BY <2>1 DEF CallStands
  <2> QED
    BY <2>1, <2>2, EntriesStay DEF CallStands
<1>2. ASSUME NEW w \in Worker, PostBalance(w), c \notin balanceCalls PROVE CallStands(c)'
  <2>1. /\ c = [journal |-> req[w].journal, inv |-> req[w].inv, amount |-> req[w].amount]
        /\ req[w].pc = "post_balance" /\ UNCHANGED journals
    BY <1>2 DEF PostBalance, UpdateBalance, At
  <2>2. PostProgress(req[w])
    BY DEF PostInv
  <2> QED
    BY <2>1, <2>2 DEF CallStands, PostProgress
<1>3. ASSUME NEW w \in Worker, PayBalance(w), c \notin balanceCalls PROVE CallStands(c)'
  <2>1. /\ c = [journal |-> req[w].journal, inv |-> req[w].inv, amount |-> -req[w].amount]
        /\ req[w].pc = "pay_balance" /\ UNCHANGED journals
    BY <1>3 DEF PayBalance, UpdateBalance, At
  <2>2. SettleProgress(req[w])
    BY DEF CallsInv
  <2> QED
    BY <2>1, <2>2 DEF CallStands, SettleProgress
<1> QED
  BY <1>1, <1>2, <1>3, RemoteEffects DEF PostCreate, PayCreate, CreateJournal, PostPost, PayPost,
     PostJournal

\* At the start no entry is there and no call was made.
LEMMA CallsInit == Init => CallsInv
<1> SUFFICES ASSUME Init PROVE CallsInv
  OBVIOUS
<1>1. Entries = {} /\ balanceCalls = {} /\ \A w \in Worker : SettleProgress(req[w])
  BY DEF Init, NoJournal, NoRequest, Entries, SettleProgress
<1> QED
  BY <1>1, FS_EmptySet DEF CallsInv

\* Every step keeps the invariant of the calls.
LEMMA CallsInvStep == TypeInv /\ PostInv /\ CallsInv /\ [Next]_vars => CallsInv'
BY FiniteStep, CallsStep, SettleProgressStep DEF CallsInv

\* However requests overlap and fail, every call to AP-1 has its entry in GL-2.
LEMMA CallsInvariant == Spec => [](TypeInv /\ PostInv /\ CallsInv)
<1>1. Spec => [](TypeInv /\ PostInv)
  BY WorkersProgress, PTL
<1> QED
  BY <1>1, CallsInit, CallsInvStep, PTL DEF Spec

\* What is summed up, as functions of entries and calls.
Credit == [j \in JournalId |-> journals[j].credit]
CallAmount == [c \in BalanceCall |-> c.amount]
CallJournal == [c \in BalanceCall |-> c.journal]

\* The calls for entries of one type come to the credits of these entries.
LEMMA CallSums ==
    ASSUME TypeInv, CallsInv, NEW type \in {"ap_invoice", "ap_payment"},
           NEW s \in {1, -1}, s = (IF type = "ap_invoice" THEN 1 ELSE -1),
           NEW C, C = {c \in balanceCalls : journals[c.journal].type = type}
    PROVE  /\ IsFiniteSet({c.journal : c \in C}) /\ Sum(CallAmount, C) \in Int
           /\ Sum(Credit, {c.journal : c \in C}) = s * Sum(CallAmount, C)
<1>0. /\ journals \in [JournalId -> Journal] /\ C \subseteq BalanceCall
      /\ \A c \in C : CallStands(c) /\ journals[c.journal].type = type
  BY DEF TypeInv, TypeOK, RemotesOK, CallsInv
<1>1. IsFiniteSet(C)
  BY FS_Subset DEF CallsInv
<1>2. \A c \in C : CallAmount[c] = c.amount /\ c.amount \in Int /\ CallJournal[c] = c.journal
  BY <1>0 DEF CallAmount, CallJournal, BalanceCall
<1>3. \A c \in C : Credit[CallJournal[c]] = s * CallAmount[c]
  <2> SUFFICES ASSUME NEW c \in C PROVE Credit[CallJournal[c]] = s * CallAmount[c]
    OBVIOUS
  <2>1. Credit[CallJournal[c]] = journals[c.journal].credit /\ journals[c.journal].credit \in Nat
    BY <1>0, <1>2 DEF Credit, BalanceCall, Journal
  <2>2. c.amount = (IF type = "ap_invoice" THEN 1 ELSE -1) * journals[c.journal].credit
    <3>1. CASE type = "ap_invoice"
      BY <1>0, <2>1, <3>1 DEF CallStands
    <3>2. CASE type = "ap_payment"
      BY <1>0, <2>1, <3>2 DEF CallStands
    <3> QED
      BY <3>1, <3>2
  <2>3. CASE s = 1 /\ type = "ap_invoice"
    BY <1>2, <2>1, <2>2, <2>3
  <2>4. CASE s = -1 /\ type = "ap_payment"
    BY <1>2, <2>1, <2>2, <2>4
  <2> QED
    BY <2>3, <2>4
<1>4. \A c, d \in C : CallJournal[c] = CallJournal[d] => c = d
  <2> SUFFICES ASSUME NEW c \in C, NEW d \in C, c.journal = d.journal PROVE c = d
    BY <1>2
  <2>1. c.inv = d.inv /\ c.amount = d.amount
    BY <1>0 DEF CallStands
  <2> QED
    BY <1>0, <2>1 DEF BalanceCall
<1>5. {CallJournal[c] : c \in C} = {c.journal : c \in C}
  BY <1>2
<1>6. Sum(CallAmount, C) \in Int
  BY <1>1, <1>2, SumRemove
<1>7. /\ IsFiniteSet({CallJournal[c] : c \in C})
      /\ Sum(Credit, {CallJournal[c] : c \in C}) = s * Sum(CallAmount, C)
  <2>1. PICK f : f = CallAmount
    OBVIOUS
  <2>2. PICK b : b = CallJournal
    OBVIOUS
  <2>3. PICK g : g = Credit
    OBVIOUS
  <2> QED
    BY <1>1, <1>2, <1>3, <1>4, <2>1, <2>2, <2>3, SumPairs
<1> QED
  BY <1>5, <1>6, <1>7

\* The credits of some entries are not more than those of all.
LEMMA FewerCredits ==
    ASSUME TypeInv, NEW S, S \subseteq JournalId, IsFiniteSet(S), NEW A, A \subseteq S
    PROVE  /\ IsFiniteSet(A) /\ Sum(Credit, A) \in Int /\ Sum(Credit, S) \in Int
           /\ Sum(Credit, A) <= Sum(Credit, S)
<1>1. \A j \in S : Credit[j] \in Nat
  BY DEF TypeInv, TypeOK, RemotesOK, Credit, Journal
<1>2. IsFiniteSet(A) /\ IsFiniteSet(S \ A)
  BY FS_Subset
<1>3. Sum(Credit, A) \in Nat /\ Sum(Credit, S \ A) \in Nat
  BY <1>1, <1>2, SumNatural
<1>4. Sum(Credit, S) = Sum(Credit, A) + Sum(Credit, S \ A)
  BY <1>1, SumSplit
<1> QED
  BY <1>2, <1>3, <1>4

\* The totals of the posted invoices are credits of as many entries that AP-1
\* has a call for.
LEMMA PostedSums ==
    ASSUME TypeInv, PostInv, CallsInv, NEW E,
           E = {c.journal : c \in {d \in balanceCalls : journals[d.journal].type = "ap_invoice"}}
    PROVE  /\ MapThenSumSet(LAMBDA i : invoices[i].total, PostedInvoices) \in Int
           /\ MapThenSumSet(LAMBDA i : invoices[i].total, PostedInvoices) <= Sum(Credit, E)
<1> DEFINE T == [i \in InvoiceId |-> invoices[i].total]
           b == [i \in InvoiceId |-> invoices[i].journal]
<1>0. /\ \A i \in InvoiceId : invoices[i].total \in Nat
      /\ journals \in [JournalId -> Journal]
  BY RowFields DEF TypeInv, TypeOK, TablesOK, RemotesOK
<1>1. \A i \in PostedInvoices : /\ i \in InvoiceId /\ b[i] \in JournalId
                                /\ Backs(b[i], i, invoices[i].total)
  BY DEF PostedInvoices, PostInv, PostedIsBacked
<1>2. \A i \in PostedInvoices : b[i] \in E /\ Credit[b[i]] = 1 * T[i] /\ T[i] \in Int
  <2> SUFFICES ASSUME NEW i \in PostedInvoices
               PROVE  b[i] \in E /\ Credit[b[i]] = 1 * T[i] /\ T[i] \in Int
    OBVIOUS
  <2>1. PICK j \in JournalId : j = b[i] /\ Backs(j, i, invoices[i].total)
    BY <1>1
  <2>2. PICK c \in balanceCalls : c = [journal |-> j, inv |-> i, amount |-> invoices[i].total]
    BY <2>1 DEF Backs
  <2>3. j \in E
    <3>1. c.journal = j /\ journals[c.journal].type = "ap_invoice"
      BY <2>1, <2>2 DEF Backs
    <3> HIDE DEF T, b
    <3> QED
      BY <3>1
  <2>4. /\ T[i] = invoices[i].total /\ T[i] \in Nat
        /\ Credit[j] = invoices[i].total
    BY <1>0, <1>1, <2>1 DEF Backs, Credit
  <2> HIDE DEF T, b
  <2> QED
    BY <2>1, <2>3, <2>4
<1>3. \A i, k \in PostedInvoices : b[i] = b[k] => i = k
  <2> HIDE DEF b
  <2> QED
    BY <1>1 DEF Backs
<1>4. IsFiniteSet(E) /\ E \subseteq JournalId
  <2>1. "ap_invoice" \in {"ap_invoice", "ap_payment"} /\ 1 \in {1, -1}
    OBVIOUS
  <2> QED
    BY <2>1, CallSums DEF TypeInv, TypeOK, RemotesOK, BalanceCall
<1>5. IsFiniteSet(PostedInvoices)
  <2>1. [i \in PostedInvoices |-> b[i]] \in Injection(PostedInvoices, E)
    <3> HIDE DEF b
    <3>1. [i \in PostedInvoices |-> b[i]] \in [PostedInvoices -> E]
      BY <1>2
    <3> QED
      BY <1>3, <3>1 DEF Injection, IsInjective
  <2> QED
    BY <1>4, <2>1, FS_Injection
<1>6. /\ IsFiniteSet({b[i] : i \in PostedInvoices})
      /\ Sum(Credit, {b[i] : i \in PostedInvoices}) = 1 * Sum(T, PostedInvoices)
  <2> HIDE DEF T, b
  <2>1. PICK g : g = Credit
    OBVIOUS
  <2>2. 1 \in {1, -1}
    OBVIOUS
  <2> QED
    BY <1>2, <1>3, <1>5, <2>1, <2>2, SumPairs
<1>7. Sum(T, PostedInvoices) \in Int
  <2> HIDE DEF T
  <2> QED
    BY <1>2, <1>5, SumRemove
<1>8. Sum(Credit, {b[i] : i \in PostedInvoices}) <= Sum(Credit, E)
  <2>1. {b[i] : i \in PostedInvoices} \subseteq E
    BY <1>2
  <2> HIDE DEF b
  <2> QED
    BY <1>4, <2>1, FewerCredits
<1>9. MapThenSumSet(LAMBDA i : invoices[i].total, PostedInvoices) = Sum(T, PostedInvoices)
  <2>1. \A i \in PostedInvoices : T[i] = invoices[i].total
    BY <1>1
  <2> HIDE DEF T
  <2> QED
    BY <1>5, <2>1, TotalSum
<1> HIDE DEF T, b
<1> QED
  BY <1>6, <1>7, <1>8, <1>9

\* AP-1 has the vendor owed at least the posted invoices less the payments in
\* GL-2, for any number of each, however requests overlap and wherever they
\* die: every posted invoice has raised the balance under its own entry, and
\* the balance was lowered for posted payments only, once for each.
THEOREM BalanceCovers == Spec => []BalanceCoversPosted
<1>1. ASSUME TypeInv, PostInv, CallsInv PROVE BalanceCoversPosted
  <2> DEFINE CI == {c \in balanceCalls : journals[c.journal].type = "ap_invoice"}
             CP == {c \in balanceCalls : journals[c.journal].type = "ap_payment"}
             EI == {c.journal : c \in CI}
             EP == {c.journal : c \in CP}
             PE == PostedEntries("ap_payment")
  <2>0. /\ journals \in [JournalId -> Journal] /\ balanceCalls \subseteq BalanceCall
        /\ IsFiniteSet(balanceCalls) /\ IsFiniteSet(Entries)
        /\ \A c \in balanceCalls : CallStands(c) /\ CallAmount[c] = c.amount /\ CallAmount[c] \in Int
    BY <1>1 DEF TypeInv, TypeOK, RemotesOK, CallsInv, CallAmount, BalanceCall
  <2>1. VendorBalance = Sum(CallAmount, balanceCalls)
    <3>1. MapThenSumSet(LAMBDA p : p.amount, balanceCalls) = Sum(CallAmount, balanceCalls)
      BY <2>0, AmountSum
    <3> QED
      BY <3>1 DEF VendorBalance
  <2>2. Sum(CallAmount, balanceCalls) = Sum(CallAmount, CI) + Sum(CallAmount, CP)
    <3>1. CP = balanceCalls \ CI /\ CI \subseteq balanceCalls
      BY <2>0 DEF CallStands
    <3> HIDE DEF CI, CP
    <3> QED
      BY <2>0, <3>1, SumSplit
  <2>3. /\ IsFiniteSet(EI) /\ Sum(CallAmount, CI) \in Int /\ Sum(Credit, EI) = 1 * Sum(CallAmount, CI)
    <3>1. "ap_invoice" \in {"ap_invoice", "ap_payment"} /\ 1 \in {1, -1}
          /\ 1 = (IF "ap_invoice" = "ap_invoice" THEN 1 ELSE -1)
      OBVIOUS
    <3> QED
      BY <1>1, <3>1, CallSums
  <2>4. /\ IsFiniteSet(EP) /\ Sum(CallAmount, CP) \in Int /\ Sum(Credit, EP) = (-1) * Sum(CallAmount, CP)
    <3>1. "ap_payment" \in {"ap_invoice", "ap_payment"} /\ -1 \in {1, -1}
          /\ -1 = (IF "ap_payment" = "ap_invoice" THEN 1 ELSE -1)
      OBVIOUS
    <3> QED
      BY <1>1, <3>1, CallSums
  <2>5. IsFiniteSet(PE) /\ PE \subseteq JournalId /\ EP \subseteq PE
    <3>1. PE \subseteq Entries /\ PE \subseteq JournalId
      BY DEF PostedEntries, Entries
    <3>2. EP \subseteq PE
      BY <2>0 DEF PostedEntries, CallStands, BalanceCall
    <3> QED
      BY <2>0, <3>1, <3>2, FS_Subset
  <2>6. Credits(PE) = Sum(Credit, PE)
    <3>1. \A j \in PE : Credit[j] = journals[j].credit
      BY <2>5 DEF Credit
    <3> HIDE DEF PE
    <3> QED
      BY <2>5, <3>1, CreditSum
  <2>7. Sum(Credit, EP) <= Sum(Credit, PE) /\ Sum(Credit, PE) \in Int
    <3> HIDE DEF PE, EP
    <3> QED
      BY <1>1, <2>5, FewerCredits
  <2> DEFINE Owed == MapThenSumSet(LAMBDA i : invoices[i].total, PostedInvoices)
  <2>8. Owed \in Int /\ Owed <= Sum(Credit, EI)
    BY <1>1, PostedSums
  <2>9. VendorBalance >= Owed - Credits(PE)
    <3> HIDE DEF Owed, CI, CP, EI, EP, PE
    <3> QED
      BY <2>1, <2>2, <2>3, <2>4, <2>6, <2>7, <2>8
  <2> QED
    BY <2>9 DEF BalanceCoversPosted
<1> QED
  BY <1>1, CallsInvariant, PTL

-----------------------------------------------------------------------------
(* Requests that do not overlap and do not fail                            *)

\* The payment row an entry stands for.
EntryRow(j) ==
    [id |-> journals[j].pay, inv |-> journals[j].inv, amount |-> journals[j].credit]

\* What becomes of an entry: its invoice is marked with it, its call is made.
Marked(j) == \E i \in InvoiceId : /\ i = journals[j].inv
                                 /\ invoices[i].posted /\ invoices[i].journal = j
Called(j) == \E c \in balanceCalls : c.journal = j

\* Until then a worker is on its way.
Posting(w, j) == req[w].pc \in {"post_post", "post_balance", "post_mark"} /\ req[w].journal = j
Paying(w, j) == req[w].pc \in {"pay_post", "pay_balance"} /\ req[w].journal = j

RequestBooks(r) ==
    /\ r.pc = "idle" => r = NoRequest
    /\ r.pc = "post_create" => r.debit = r.amount
    /\ r.pc = "pay_create" => PaymentRow(r) \in payments

InvoiceBooks(j) ==
    journals[j].type = "ap_invoice" =>
        /\ journals[j].debit = journals[j].credit
        /\ Marked(j) \/ \E w \in Worker : Posting(w, j)

PaymentBooks(j) ==
    journals[j].type = "ap_payment" =>
        /\ EntryRow(j) \in payments
        /\ Called(j) \/ \E w \in Worker : Paying(w, j)

\* A payment row has its entry, or a worker is to create it.
RowBooked(p) ==
    \/ \E j \in JournalId : journals[j].type = "ap_payment" /\ EntryRow(j) = p
    \/ \E w \in Worker : req[w].pc = "pay_create" /\ PaymentRow(req[w]) = p

BooksInv ==
    /\ \A i \in InvoiceId : invoices[i].posted => invoices[i].status \in {"posted", "paid"}
    /\ \A w \in Worker : RequestBooks(req[w])
    /\ \A j \in JournalId : InvoiceBooks(j) /\ PaymentBooks(j)
    /\ \A p \in payments : RowBooked(p)

\* Everything that is known of the service in such a run.
ServedInv == /\ TypeInv /\ PostInv /\ PayInv /\ SerialInv
             /\ EntryInv /\ SumInv /\ CallsInv /\ BooksInv

\* A request moves by a step of its own handler.
LEMMA ServeRequests ==
    ASSUME TypeInv, [Serve]_vars, NEW w \in Worker
    PROVE  req'[w] = req[w] \/ Proceed(w) \/ \E i \in InvoiceId : Begin(w, i)
<1>0. req \in [Worker -> Request]
  BY DEF TypeInv, TypeOK, RequestsOK
<1>1. ASSUME NEW v \in Worker, v # w, Proceed(v) \/ \E i \in InvoiceId : Begin(v, i)
      PROVE  req'[w] = req[w]
  BY <1>0, <1>1, ProceedAlone, BeginReceives DEF Receive
<1> QED
  BY <1>1 DEF Serve, CreateInvoice, vars

\* A request that has begun goes on where it is.
LEMMA NextStatement ==
    ASSUME TypeInv, [Serve]_vars, NEW w \in Worker, req'[w] # req[w]
    PROVE  /\ req[w].pc = "pay_create" => PayCreate(w)
           /\ req[w].pc = "pay_post" => PayPost(w)
           /\ req[w].pc = "pay_balance" => PayBalance(w)
           /\ req[w].pc = "post_post" => PostPost(w)
           /\ req[w].pc = "post_balance" => PostBalance(w)
           /\ req[w].pc = "post_mark" => PostMark(w)
<1>1. ASSUME NEW i \in InvoiceId, Begin(w, i) PROVE req[w].pc = "idle"
  BY <1>1, BeginReceives DEF Receive, At
<1>2. CASE Proceed(w)
  BY <1>2 DEF Proceed, SubmitUpdate, ApproveUpdate, RejectUpdate, RecallUpdate, DeleteExec,
     PostReadLines, PostCreate, PostPost, PostBalance, PostMark, PaySum, PayCommit, PayCreate,
     PayPost, PayBalance, At
<1> QED
  BY <1>1, <1>2, ServeRequests

\* The flag of a posting goes with the statuses that follow it.
LEMMA PostedStatusStep ==
    ASSUME ServedInv, [Serve]_vars, NEW i \in InvoiceId, invoices'[i].posted
    PROVE  invoices'[i].status \in {"posted", "paid"}
<1>0. /\ TypeInv /\ SerialInv /\ [Next]_vars
      /\ invoices[i].posted => invoices[i].status \in {"posted", "paid"}
  BY DEF ServedInv, BooksInv, Next
<1>1. CASE Same(i)
  BY <1>0, <1>1 DEF Same
<1>2. ASSUME NEW w \in Worker, Proceed(w), i = req[w].inv, ~Same(i)
      PROVE  invoices'[i].status \in {"posted", "paid"}
  <2>1. Writes(w, i) /\ Fresh(req[w])
    BY <1>0, <1>2, FreshWrites DEF SerialInv
  <2>2. CASE At(w, "post_mark") \/ At(w, "pay_commit")
    BY <1>2, <2>1, <2>2 DEF Writes, Moves, At
  <2>3. CASE ~(At(w, "post_mark") \/ At(w, "pay_commit"))
    <3>1. invoices[i].status \in {"draft", "pending_approval"}
      BY <1>2, <2>1, <2>3 DEF Writes, Fresh, At
    <3>2. PICK v \in Worker : PostMark(v) /\ i = req[v].inv
      BY <1>0, <3>1, RowsKept DEF RowKept
    <3>3. invoices[i].status = "approved"
      BY <1>0, <3>2 DEF PostMark, At, SerialInv, Fresh, PostSteps
    <3> QED
      BY <3>1, <3>3
  <2> QED
    BY <2>2, <2>3
<1>3. CASE \A w \in Worker : ~Proceed(w)
  <2>1. Same(i) \/ invoices[i].status = "none"
    BY <1>0, <1>3, OthersWrite
  <2>2. invoices[i].posted
    BY <1>0, <1>3, RowsKept DEF RowKept, Proceed
  <2> QED
    BY <1>0, <1>1, <2>1, <2>2
<1> QED
  BY <1>0, <1>1, <1>2, <1>3, RowsApart

\* A posting is for good.
LEMMA PostedStays ==
    ASSUME ServedInv, [Serve]_vars, NEW i \in InvoiceId, invoices[i].posted
    PROVE  invoices'[i].posted /\ invoices'[i].journal = invoices[i].journal
<1>0. /\ TypeInv /\ SerialInv /\ [Next]_vars
      /\ invoices[i].status \in {"posted", "paid"}
  BY DEF ServedInv, BooksInv, Next
<1>1. Exists(i) /\ invoices[i] \in LiveRow
  BY <1>0, RowColumns
<1>2. ASSUME NEW w \in Worker, Paid(w, i) PROVE invoices'[i].posted
  BY <1>1, <1>2 DEF Paid, LiveRow
<1>3. invoices'[i].posted
  BY <1>0, <1>1, <1>2, Effects DEF Effect, Same, Moved, Posted, Removed, Created, LiveRow
<1>4. ASSUME NEW w \in Worker, PostMark(w), i = req[w].inv PROVE FALSE
  BY <1>0, <1>4 DEF PostMark, At, SerialInv, Fresh, PostSteps
<1> QED
  BY <1>0, <1>3, <1>4, RowsKept DEF RowKept

\* No payment row goes.
LEMMA RowsStay == ASSUME ServedInv, [Serve]_vars PROVE payments \subseteq payments'
<1>0. TypeInv /\ [Next]_vars
  BY DEF ServedInv, Next
<1>1. ASSUME NEW w \in Worker, DeleteExec(w), Deletable(req[w].inv), NEW p \in payments
      PROVE  p \in payments'
  <2>1. invoices[p.inv].posted /\ p.inv \in InvoiceId
    BY DEF ServedInv, PayInv, PaymentsOnlyForPosted, TypeInv, TypeOK, TablesOK, Payment
  <2>2. p.inv # req[w].inv
    BY <1>1, <2>1 DEF ServedInv, BooksInv, Deletable
  <2> QED
    BY <1>1, <2>2 DEF DeleteExec
<1>2. ASSUME NEW w \in Worker, PayCommit(w) PROVE payments \subseteq payments'
  BY <1>2 DEF PayCommit
<1> QED
  BY <1>0, <1>1, <1>2, PaymentEffects

\* A request is empty, has read its lines, or has its payment row.
LEMMA RequestBooksStep ==
    ASSUME ServedInv, [Serve]_vars, NEW w \in Worker
    PROVE  RequestBooks(req[w])'
<1> DEFINE r == req[w]
           n == req'[w]
<1>0. /\ req \in [Worker -> Request] /\ r \in Request /\ HoldsIds(r) /\ RequestBooks(r)
      /\ TypeInv /\ SumInv
  BY DEF ServedInv, BooksInv, TypeInv, TypeOK, RequestsOK
<1>1. ASSUME Finish(w) PROVE RequestBooks(req[w])'
  BY <1>0, <1>1 DEF Finish, NoRequest, RequestBooks
<1>2. CASE n = r
  <2>1. r.pc = "pay_create" => PaymentRow(r) \in payments'
    BY <1>0, RowsStay DEF RequestBooks
  <2> QED
    BY <1>0, <1>2, <2>1 DEF RequestBooks, PaymentRow
<1>3. ASSUME n.pc \notin {"idle", "post_create", "pay_create"} PROVE RequestBooks(req[w])'
  BY <1>3 DEF RequestBooks
<1>4. CASE PostReadLines(w)
  <2>1. /\ r.pc = "post_lines" /\ n.pc = "post_create" /\ n.debit = LineSum(r.inv)
        /\ n.amount = r.amount
    BY <1>0, <1>4 DEF PostReadLines, At, Request
  <2>2. Exists(r.inv) /\ r.amount = invoices[r.inv].total
    BY <2>1 DEF ServedInv, SerialInv, Fresh, PostSteps, Exists, InvoiceStatus, PostInv, PostProgress
  <2> QED
    BY <2>1, <2>2 DEF RequestBooks, LineSum
<1>5. CASE PayCommit(w)
  <2>1. /\ n.pc = "pay_create" /\ n.pay = r.pay /\ n.inv = r.inv /\ n.amount = r.amount
        /\ payments' = payments \cup {PaymentRow(r)}
    BY <1>0, <1>5, CommitRow DEF PayCommit, Continue, Request
  <2> QED
    BY <2>1 DEF RequestBooks, PaymentRow
<1>6. CASE PostCreate(w) \/ PayCreate(w)
  <2>1. PICK j \in JournalId, pc \in {"post_post", "pay_post"} :
           req' = [req EXCEPT ![w] = [@ EXCEPT !.pc = pc, !.journal = j]]
    BY <1>6 DEF PostCreate, PayCreate, CreateJournal
  <2>2. n.pc \in {"post_post", "pay_post"}
    BY <1>0, <2>1 DEF Request
  <2> QED
    BY <1>3, <2>2
<1>7. CASE PostPost(w) \/ PostBalance(w) \/ PayPost(w)
  <2>1. n.pc \in {"post_balance", "post_mark", "pay_balance"}
    BY <1>0, <1>7 DEF PostPost, PostBalance, PayPost, PostJournal, Continue, Request
  <2> QED
    BY <1>3, <2>1
<1>8. CASE PaySum(w)
  <2>1. n.pc = "pay_commit"
    BY <1>0, <1>8 DEF PaySum, Request
  <2> QED
    BY <1>3, <2>1
<1>9. CASE Proceed(w)
  BY <1>1, <1>4, <1>5, <1>6, <1>7, <1>8, <1>9 DEF Proceed, SubmitUpdate, ApproveUpdate,
     RejectUpdate, RecallUpdate, WriteInvoices, DeleteExec, PostMark, PayBalance
<1>10. ASSUME NEW i \in InvoiceId, Begin(w, i) PROVE RequestBooks(req[w])'
  <2>1. PICK pc \in FirstSteps, a \in Nat : Receive(w, i, pc, a)
    BY <1>0, <1>10, BeginReceives
  <2>2. n.pc \in FirstSteps
    BY <1>0, <2>1 DEF Receive, NoRequest
  <2> QED
    BY <1>3, <2>2 DEF FirstSteps
<1> QED
  BY <1>0, <1>2, <1>9, <1>10, ServeRequests

\* An entry keeps its debit.
LEMMA DebitsStay ==
    ASSUME TypeInv, [Next]_vars, NEW j \in JournalId, journals[j].type # "none"
    PROVE  journals'[j].debit = journals[j].debit
<1>0. journals \in [JournalId -> Journal]
  BY DEF TypeInv, TypeOK, RemotesOK
<1>1. ASSUME NEW w \in Worker, NEW entry, NEW pc, CreateJournal(w, entry, pc)
      PROVE  journals'[j].debit = journals[j].debit
  BY <1>0, <1>1 DEF CreateJournal
<1>2. ASSUME NEW w \in Worker, NEW pc, PostJournal(w, pc)
      PROVE  journals'[j].debit = journals[j].debit
  BY <1>0, <1>2 DEF PostJournal, Journal
<1> QED
  BY <1>1, <1>2, RemoteEffects DEF PostCreate, PayCreate, PostPost, PayPost, PostBalance,
     PayBalance, UpdateBalance

\* The entry of an invoice is created with both sides equal, by a worker that
\* goes on to mark the invoice.
LEMMA InvoiceBooksStep ==
    ASSUME ServedInv, [Serve]_vars, NEW j \in JournalId PROVE InvoiceBooks(j)'
<1>0. /\ TypeInv /\ [Next]_vars /\ req \in [Worker -> Request]
      /\ journals \in [JournalId -> Journal]
      /\ \A w \in Worker : HoldsIds(req[w]) /\ Fresh(req[w]) /\ PostProgress(req[w])
  BY DEF ServedInv, SerialInv, PostInv, TypeInv, TypeOK, RequestsOK, RemotesOK, Next
<1>1. CASE journals[j].type = "ap_invoice"
  <2>0. /\ journals[j].debit = journals[j].credit
        /\ Marked(j) \/ \E w \in Worker : Posting(w, j)
    BY <1>1 DEF ServedInv, BooksInv, InvoiceBooks
  <2>1. /\ journals'[j].debit = journals'[j].credit
        /\ journals'[j].inv = journals[j].inv
    BY <1>0, <1>1, <2>0, EntriesStay, DebitsStay
  <2>2. ASSUME Marked(j) PROVE Marked(j)'
    BY <2>1, <2>2, PostedStays DEF Marked
  <2>3. ASSUME NEW w \in Worker, Posting(w, j)
        PROVE  Marked(j)' \/ Posting(w, j)'
    <3>1. CASE req'[w] = req[w]
      BY <2>3, <3>1 DEF Posting
    <3>2. CASE PostPost(w) \/ PostBalance(w)
      <4>1. req'[w].pc \in {"post_balance", "post_mark"} /\ req'[w].journal = req[w].journal
        BY <1>0, <3>2 DEF PostPost, PostBalance, PostJournal, Continue, Request
      <4> QED
        BY <2>3, <4>1 DEF Posting
    <3>3. CASE PostMark(w)
      <4>1. /\ req[w].inv \in InvoiceId /\ req[w].inv = journals[j].inv
            /\ Exists(req[w].inv) /\ invoices[req[w].inv] \in LiveRow
        BY <1>0, <2>3, <3>3, RowColumns DEF PostMark, At, HoldsIds, Posting, PostProgress, Fresh,
           PostSteps, Exists, InvoiceStatus
      <4>2. invoices' = MarkAsPosted(req[w].inv, j)
        BY <2>3, <3>3 DEF PostMark, WriteInvoices, Posting
      <4>3. invoices'[req[w].inv].posted /\ invoices'[req[w].inv].journal = j
        BY <1>0, <4>1, <4>2 DEF MarkAsPosted, LiveRow, TypeInv, TypeOK, TablesOK
      <4> QED
        BY <2>1, <4>1, <4>3 DEF Marked
    <3> QED
      BY <1>0, <2>3, <3>1, <3>2, <3>3, NextStatement DEF Posting
  <2> QED
    BY <2>0, <2>1, <2>2, <2>3 DEF InvoiceBooks
<1>2. ASSUME NEW w \in Worker, PostCreate(w), journals'[j] # journals[j] PROVE InvoiceBooks(j)'
  <2>1. /\ journals'[j].debit = req[w].debit /\ journals'[j].credit = req[w].amount
        /\ req'[w].pc = "post_post" /\ req'[w].journal = j
    <3>1. PICK k \in JournalId :
            /\ journals' = [journals EXCEPT ![k] =
                  [type |-> "ap_invoice", inv |-> req[w].inv, pay |-> Nil,
                   debit |-> req[w].debit, credit |-> req[w].amount, posted |-> FALSE]]
            /\ req' = [req EXCEPT ![w] = [@ EXCEPT !.pc = "post_post", !.journal = k]]
      BY <1>2 DEF PostCreate, CreateJournal
    <3>2. k = j
      BY <1>0, <1>2, <3>1
    <3> QED
      BY <1>0, <3>1, <3>2 DEF Request
  <2>2. req[w].debit = req[w].amount
    BY <1>2 DEF PostCreate, At, ServedInv, BooksInv, RequestBooks
  <2> QED
    BY <2>1, <2>2 DEF InvoiceBooks, Posting
<1>3. ASSUME journals[j].type # "ap_invoice", journals'[j].type = "ap_invoice"
      PROVE  \E w \in Worker : PostCreate(w) /\ journals'[j] # journals[j]
  <2>1. ASSUME NEW w \in Worker, PayCreate(w) PROVE FALSE
    BY <1>0, <1>3, <2>1 DEF PayCreate, CreateJournal
  <2>2. ASSUME NEW w \in Worker, PostPost(w) \/ PayPost(w) PROVE FALSE
    BY <1>0, <1>3, <2>2 DEF PostPost, PayPost, PostJournal, Journal
  <2> QED
    BY <1>0, <1>3, <2>1, <2>2, RemoteEffects DEF PostBalance, PayBalance, UpdateBalance
<1> QED
  BY <1>1, <1>2, <1>3 DEF InvoiceBooks

\* The entry of a payment is created for its row, by a worker that goes on to
\* call AP-1.
LEMMA PaymentBooksStep ==
    ASSUME ServedInv, [Serve]_vars, NEW j \in JournalId PROVE PaymentBooks(j)'
<1>0. /\ TypeInv /\ [Next]_vars /\ req \in [Worker -> Request]
      /\ journals \in [JournalId -> Journal]
      /\ payments \subseteq payments' /\ balanceCalls \subseteq balanceCalls'
  BY RowsStay, CallsStay DEF ServedInv, TypeInv, TypeOK, RequestsOK, RemotesOK, Next
<1>1. CASE journals[j].type = "ap_payment"
  <2>0. EntryRow(j) \in payments /\ (Called(j) \/ \E w \in Worker : Paying(w, j))
    BY <1>1 DEF ServedInv, BooksInv, PaymentBooks
  <2>1. EntryRow(j)' \in payments'
    BY <1>0, <1>1, <2>0, EntriesStay DEF EntryRow
  <2>2. ASSUME Called(j) PROVE Called(j)'
    BY <1>0, <2>2 DEF Called
  <2>3. ASSUME NEW w \in Worker, Paying(w, j)
        PROVE  Called(j)' \/ Paying(w, j)'
    <3>1. CASE req'[w] = req[w]
      BY <2>3, <3>1 DEF Paying
    <3>2. CASE PayPost(w)
      <4>1. req'[w].pc = "pay_balance" /\ req'[w].journal = req[w].journal
        BY <1>0, <3>2 DEF PayPost, PostJournal, Continue, Request
      <4> QED
        BY <2>3, <4>1 DEF Paying
    <3>3. CASE PayBalance(w)
      <4>1. PICK c \in balanceCalls' :
               c = [journal |-> req[w].journal, inv |-> req[w].inv, amount |-> -req[w].amount]
        BY <3>3 DEF PayBalance, UpdateBalance
      <4>2. c.journal = j
        BY <2>3, <4>1 DEF Paying
      <4> QED
        BY <4>2 DEF Called
    <3> QED
      BY <1>0, <2>3, <3>1, <3>2, <3>3, NextStatement DEF Paying
  <2> QED
    BY <2>0, <2>1, <2>2, <2>3 DEF PaymentBooks
<1>2. ASSUME NEW w \in Worker, PayCreate(w), journals'[j] # journals[j] PROVE PaymentBooks(j)'
  <2>1. /\ EntryRow(j)' = PaymentRow(req[w])
        /\ req'[w].pc = "pay_post" /\ req'[w].journal = j
    <3>1. PICK k \in JournalId :
            /\ journals' = [journals EXCEPT ![k] =
                  [type |-> "ap_payment", inv |-> req[w].inv, pay |-> req[w].pay,
                   debit |-> req[w].amount, credit |-> req[w].amount, posted |-> FALSE]]
            /\ req' = [req EXCEPT ![w] = [@ EXCEPT !.pc = "pay_post", !.journal = k]]
      BY <1>2 DEF PayCreate, CreateJournal
    <3>2. k = j
      BY <1>0, <1>2, <3>1
    <3> QED
      BY <1>0, <3>1, <3>2 DEF Request, EntryRow, PaymentRow
  <2>2. PaymentRow(req[w]) \in payments
    BY <1>2 DEF PayCreate, At, ServedInv, BooksInv, RequestBooks
  <2> QED
    BY <1>0, <2>1, <2>2 DEF PaymentBooks, Paying
<1>3. ASSUME journals[j].type # "ap_payment", journals'[j].type = "ap_payment"
      PROVE  \E w \in Worker : PayCreate(w) /\ journals'[j] # journals[j]
  <2>1. ASSUME NEW w \in Worker, PostCreate(w) PROVE FALSE
    BY <1>0, <1>3, <2>1 DEF PostCreate, CreateJournal
  <2>2. ASSUME NEW w \in Worker, PostPost(w) \/ PayPost(w) PROVE FALSE
    BY <1>0, <1>3, <2>2 DEF PostPost, PayPost, PostJournal, Journal
  <2> QED
    BY <1>0, <1>3, <2>1, <2>2, RemoteEffects DEF PostBalance, PayBalance, UpdateBalance
<1> QED
  BY <1>1, <1>2, <1>3 DEF PaymentBooks

\* A payment row gets its entry.
LEMMA RowBookedStep ==
    ASSUME ServedInv, [Serve]_vars, NEW p \in payments' PROVE RowBooked(p)'
<1>0. /\ TypeInv /\ SumInv /\ [Next]_vars /\ req \in [Worker -> Request]
      /\ journals \in [JournalId -> Journal]
  BY DEF ServedInv, TypeInv, TypeOK, RequestsOK, RemotesOK, Next
<1>1. ASSUME NEW j \in JournalId, journals[j].type = "ap_payment", EntryRow(j) = p
      PROVE  RowBooked(p)'
  <2>1. journals'[j].type = "ap_payment" /\ EntryRow(j)' = p
    BY <1>0, <1>1, EntriesStay DEF EntryRow
  <2> QED
    BY <2>1 DEF RowBooked
<1>2. ASSUME NEW w \in Worker, req[w].pc = "pay_create", PaymentRow(req[w]) = p
      PROVE  RowBooked(p)'
  <2>1. CASE req'[w] = req[w]
    <3>1. req'[w].pc = "pay_create" /\ PaymentRow(req[w])' = p
      BY <1>2, <2>1 DEF PaymentRow
    <3> QED
      BY <3>1 DEF RowBooked
  <2>2. CASE PayCreate(w)
    <3>1. PICK k \in JournalId :
            journals' = [journals EXCEPT ![k] =
                  [type |-> "ap_payment", inv |-> req[w].inv, pay |-> req[w].pay,
                   debit |-> req[w].amount, credit |-> req[w].amount, posted |-> FALSE]]
      BY <2>2 DEF PayCreate, CreateJournal
    <3>2. journals'[k].type = "ap_payment" /\ EntryRow(k)' = p
      BY <1>0, <1>2, <3>1 DEF EntryRow, PaymentRow
    <3> QED
      BY <3>2 DEF RowBooked
  <2> QED
    BY <1>0, <1>2, <2>1, <2>2, NextStatement
<1>3. CASE p \in payments
  BY <1>1, <1>2, <1>3 DEF ServedInv, BooksInv, RowBooked
<1>4. ASSUME NEW w \in Worker, PayCommit(w), p \notin payments PROVE RowBooked(p)'
  <2>1. p = PaymentRow(req[w])
    BY <1>0, <1>4, CommitRow
  <2>2. /\ req'[w].pc = "pay_create" /\ req'[w].pay = req[w].pay
        /\ req'[w].inv = req[w].inv /\ req'[w].amount = req[w].amount
    BY <1>0, <1>4 DEF PayCommit, Continue, Request
  <2>3. PaymentRow(req[w])' = p
    BY <2>1, <2>2 DEF PaymentRow
  <2> QED
    BY <2>2, <2>3 DEF RowBooked
<1> QED
  BY <1>0, <1>3, <1>4, PaymentEffects DEF DeleteExec

\* Every statement of every handler keeps what is known.
LEMMA ServedStep == ServedInv /\ [Serve /\ OneRequestPerInvoice']_vars => ServedInv'
<1> SUFFICES ASSUME ServedInv, [Serve /\ OneRequestPerInvoice']_vars PROVE ServedInv'
  OBVIOUS
<1>0. /\ TypeInv /\ PostInv /\ PayInv /\ SerialInv /\ EntryInv /\ SumInv /\ CallsInv
      /\ [Serve]_vars /\ [Next]_vars /\ [Next /\ OneRequestPerInvoice']_vars
  BY DEF ServedInv, Next
<1>1. TypeInv' /\ PostInv' /\ PayInv' /\ SerialInv' /\ EntryInv' /\ SumInv'
  BY <1>0, TypeStep, PostStep, PayStep, SerialStep, EntryStep, SumStep
<1>2. CallsInv'
  BY <1>0, CallsInvStep
<1>3. BooksInv'
  BY <1>0, PostedStatusStep, RequestBooksStep, InvoiceBooksStep, PaymentBooksStep, RowBookedStep
     DEF BooksInv
<1> QED
  BY <1>1, <1>2, <1>3 DEF ServedInv

\* It holds at the start.
LEMMA ServedInit == Init => ServedInv
<1> SUFFICES ASSUME Init PROVE ServedInv
  OBVIOUS
<1>1. TypeInv /\ PostInv /\ SerialInv /\ PayInv /\ SumInv /\ CallsInv
  BY SerialStart, PayInit, SumInit, CallsInit
<1>2. EntryInv
  BY DEF Init, NoRequest, NoJournal, EntryInv, OwnPayments
<1>3. BooksInv
  <2>1. /\ \A i \in InvoiceId : ~invoices[i].posted
        /\ \A w \in Worker : req[w] = NoRequest
        /\ \A j \in JournalId : journals[j] = NoJournal
        /\ payments = {}
    BY AbsentFields DEF Init
  <2> QED
    BY <2>1 DEF BooksInv, RequestBooks, InvoiceBooks, PaymentBooks, NoRequest, NoJournal
<1> QED
  BY <1>1, <1>2, <1>3 DEF ServedInv

-----------------------------------------------------------------------------
(* The books between requests                                              *)

\* With nobody at work every entry has been followed to its end.
LEMMA QuietEntries ==
    ASSUME ServedInv, Quiet, NEW j \in JournalId
    PROVE  /\ journals[j].type = "ap_invoice" =>
                 journals[j].debit = journals[j].credit /\ Marked(j)
           /\ journals[j].type = "ap_payment" => EntryRow(j) \in payments /\ Called(j)
BY DEF ServedInv, BooksInv, InvoiceBooks, PaymentBooks, Quiet, At, Posting, Paying

\* The entries of the payments in P, any of the rows, add up as they do.
LEMMA EntriesAddUp ==
    ASSUME ServedInv, Quiet, NEW P, P \subseteq payments,
           NEW E, E = {j \in JournalId : journals[j].type = "ap_payment" /\ EntryRow(j) \in P}
    PROVE  /\ IsFiniteSet(E) /\ Sum(Credit, E) = Sum(Cents, P) /\ Sum(Credit, E) \in Int
<1> DEFINE b == [j \in JournalId |-> EntryRow(j)]
<1>0. /\ journals \in [JournalId -> Journal] /\ IsFiniteSet(Entries)
      /\ payments \subseteq Payment
  BY DEF ServedInv, TypeInv, TypeOK, TablesOK, RemotesOK, CallsInv
<1>1. IsFiniteSet(E)
  <2>1. E \subseteq Entries
    BY DEF Entries
  <2> QED
    BY <1>0, <2>1, FS_Subset
<1>2. \A j \in E : Credit[j] \in Int /\ Cents[b[j]] = 1 * Credit[j]
  <2> SUFFICES ASSUME NEW j \in E PROVE Credit[j] \in Int /\ Cents[b[j]] = 1 * Credit[j]
    OBVIOUS
  <2>1. b[j] \in Payment /\ b[j].amount = Credit[j] /\ Credit[j] \in Nat
    BY <1>0 DEF EntryRow, Credit, Journal
  <2>2. Cents[b[j]] = b[j].amount
    BY <2>1 DEF Cents
  <2> HIDE DEF b
  <2> QED
    BY <2>1, <2>2
<1>3. \A j, k \in E : b[j] = b[k] => j = k
  <2> SUFFICES ASSUME NEW j \in E, NEW k \in E, b[j] = b[k] PROVE j = k
    OBVIOUS
  <2>1. journals[k].pay = journals[j].pay
    BY DEF EntryRow
  <2> QED
    BY <2>1 DEF ServedInv, EntryInv
<1>4. {b[j] : j \in E} = P
  <2>1. ASSUME NEW p \in P PROVE \E j \in E : b[j] = p
    <3>1. RowBooked(p) /\ \A w \in Worker : req[w].pc = "idle"
      BY DEF ServedInv, BooksInv, Quiet, At
    <3>2. PICK j \in JournalId : journals[j].type = "ap_payment" /\ EntryRow(j) = p
      BY <3>1 DEF RowBooked
    <3> QED
      BY <3>2
  <2>2. \A j \in E : b[j] \in P
    OBVIOUS
  <2> HIDE DEF b
  <2> QED
    BY <2>1, <2>2
<1>5. Sum(Cents, {b[j] : j \in E}) = 1 * Sum(Credit, E) /\ Sum(Credit, E) \in Int
  <2>1. PICK f : f = Credit
    OBVIOUS
  <2>2. PICK g : g = Cents
    OBVIOUS
  <2>3. 1 \in {1, -1} /\ \A j \in E : f[j] \in Int
    BY <1>2, <2>1
  <2> HIDE DEF b
  <2>4. Sum(g, {b[j] : j \in E}) = 1 * Sum(f, E)
    BY <1>1, <1>2, <1>3, <2>1, <2>2, <2>3, SumPairs
  <2>5. Sum(f, E) \in Int
    BY <1>1, <2>3, SumRemove
  <2> QED
    BY <2>1, <2>2, <2>4, <2>5
<1> HIDE DEF b
<1> QED
  BY <1>1, <1>4, <1>5

\* An invoice's payments in GL-2 come to its amount_paid.
LEMMA PaymentsReconciled ==
    ASSUME ServedInv, Quiet, NEW i \in InvoiceId
    PROVE  Credits(EntriesOf(i, "ap_payment")) = invoices[i].paid
<1> DEFINE E == EntriesOf(i, "ap_payment")
<1>1. E = {j \in JournalId : journals[j].type = "ap_payment" /\ EntryRow(j) \in PaymentRows(i)}
  BY QuietEntries DEF EntriesOf, PaymentRows, EntryRow
<1>2. IsFiniteSet(E) /\ Sum(Credit, E) = Sum(Cents, PaymentRows(i))
  <2>1. PaymentRows(i) \subseteq payments
    BY DEF PaymentRows
  <2> HIDE DEF E
  <2> QED
    BY <1>1, <2>1, EntriesAddUp
<1>3. Credits(E) = Sum(Credit, E)
  <2>1. \A j \in E : Credit[j] = journals[j].credit
    BY DEF EntriesOf, Credit
  <2> HIDE DEF E
  <2> QED
    BY <1>2, <2>1, CreditSum
<1>4. invoices[i].paid = Sum(Cents, PaymentRows(i))
  BY DEF ServedInv, SerialInv, Settled, SumInv
<1> HIDE DEF E
<1>5. Credits(E) = invoices[i].paid
  BY <1>2, <1>3, <1>4
<1> QED
  BY <1>5 DEF E

\* A posted invoice has its entry, and no other; an unposted one has none.
LEMMA InvoicesReconciled ==
    ASSUME ServedInv, Quiet, NEW i \in InvoiceId
    PROVE  /\ Cardinality(EntriesOf(i, "ap_invoice")) = (IF invoices[i].posted THEN 1 ELSE 0)
           /\ \A j \in EntriesOf(i, "ap_invoice") : journals[j].debit = journals[j].credit
<1>1. \A j \in EntriesOf(i, "ap_invoice") : /\ journals[j].debit = journals[j].credit
                                            /\ invoices[i].posted /\ invoices[i].journal = j
  BY QuietEntries DEF EntriesOf, Marked
<1>2. CASE invoices[i].posted
  <2>1. PICK j : j = invoices[i].journal
    OBVIOUS
  <2>2. j \in EntriesOf(i, "ap_invoice")
    BY <1>2, <2>1 DEF ServedInv, PostInv, PostedIsBacked, Backs, EntriesOf
  <2>3. EntriesOf(i, "ap_invoice") = {j}
    BY <1>1, <2>1, <2>2
  <2> QED
    BY <1>1, <1>2, <2>3, FS_Singleton
<1>3. CASE ~invoices[i].posted
  <2>1. EntriesOf(i, "ap_invoice") = {}
    BY <1>1, <1>3
  <2> QED
    BY <1>3, <2>1, FS_EmptySet
<1> QED
  BY <1>2, <1>3

\* The columns that are summed up, as functions of invoices.
Total == [i \in InvoiceId |-> invoices[i].total]
PaidColumn == [i \in InvoiceId |-> invoices[i].paid]
DueColumn == [i \in InvoiceId |-> Due(i)]
InvoiceEntry == [i \in InvoiceId |-> invoices[i].journal]
PaidInvoice == [p \in Payment |-> p.inv]
RowsByInvoice == [i \in InvoiceId |-> PaymentRows(i)]

\* What the calls for invoices come to, and that they are those of the posted
\* invoices.
LEMMA PostedCalls ==
    ASSUME ServedInv, Quiet, NEW C,
           C = {c \in balanceCalls : journals[c.journal].type = "ap_invoice"}
    PROVE  /\ IsFiniteSet(PostedInvoices) /\ Sum(CallAmount, C) \in Int
           /\ Sum(CallAmount, C) = Sum(Total, PostedInvoices)
<1> DEFINE E == {c.journal : c \in C}
<1>0. /\ TypeInv /\ CallsInv /\ journals \in [JournalId -> Journal]
      /\ balanceCalls \subseteq BalanceCall
      /\ \A i \in InvoiceId : invoices[i].total \in Nat
  BY RowFields DEF ServedInv, TypeInv, TypeOK, TablesOK, RemotesOK
<1>1. IsFiniteSet(E) /\ Sum(CallAmount, C) \in Int /\ Sum(Credit, E) = 1 * Sum(CallAmount, C)
  <2>1. "ap_invoice" \in {"ap_invoice", "ap_payment"} /\ 1 \in {1, -1}
        /\ 1 = (IF "ap_invoice" = "ap_invoice" THEN 1 ELSE -1)
    OBVIOUS
  <2> QED
    BY <1>0, <2>1, CallSums
<1>2. ASSUME NEW i \in PostedInvoices
      PROVE  /\ InvoiceEntry[i] \in E /\ journals[InvoiceEntry[i]].inv = i
             /\ Total[i] \in Int /\ Credit[InvoiceEntry[i]] = 1 * Total[i]
  <2>1. PICK j \in JournalId : j = InvoiceEntry[i] /\ Backs(j, i, invoices[i].total)
    BY DEF ServedInv, PostInv, PostedIsBacked, PostedInvoices, InvoiceEntry
  <2>2. PICK c \in balanceCalls : c = [journal |-> j, inv |-> i, amount |-> invoices[i].total]
    BY <2>1 DEF Backs
  <2>3. c.journal = j /\ journals[c.journal].type = "ap_invoice" /\ journals[j].inv = i
    BY <2>1, <2>2 DEF Backs
  <2>4. Total[i] = invoices[i].total /\ Total[i] \in Nat /\ Credit[j] = invoices[i].total
    BY <1>0, <2>1 DEF Backs, Credit, Total, PostedInvoices
  <2>5. j \in E
    BY <2>3
  <2> HIDE DEF E
  <2> QED
    BY <2>1, <2>3, <2>4, <2>5
<1>3. \A i, k \in PostedInvoices : InvoiceEntry[i] = InvoiceEntry[k] => i = k
  BY <1>2
<1>4. \A j \in E : \E i \in PostedInvoices : InvoiceEntry[i] = j
  <2> SUFFICES ASSUME NEW c \in C PROVE \E i \in PostedInvoices : InvoiceEntry[i] = c.journal
    OBVIOUS
  <2>1. c.journal \in JournalId /\ journals[c.journal].type = "ap_invoice"
    BY <1>0 DEF BalanceCall
  <2>2. Marked(c.journal)
    BY <2>1, QuietEntries
  <2> QED
    BY <2>2 DEF Marked, InvoiceEntry, PostedInvoices
<1> HIDE DEF E
<1>5. {InvoiceEntry[i] : i \in PostedInvoices} = E
  BY <1>2, <1>4
<1>6. IsFiniteSet(PostedInvoices)
  <2>1. [i \in PostedInvoices |-> InvoiceEntry[i]] \in [PostedInvoices -> E]
    BY <1>2
  <2>2. [i \in PostedInvoices |-> InvoiceEntry[i]] \in Injection(PostedInvoices, E)
    BY <1>3, <2>1 DEF Injection, IsInjective
  <2> QED
    BY <1>1, <2>2, FS_Injection
<1>7. Sum(Credit, {InvoiceEntry[i] : i \in PostedInvoices}) = 1 * Sum(Total, PostedInvoices)
  <2>1. PICK f : f = Total
    OBVIOUS
  <2>2. PICK g : g = Credit
    OBVIOUS
  <2>3. PICK b : b = InvoiceEntry
    OBVIOUS
  <2>4. 1 \in {1, -1}
    OBVIOUS
  <2> QED
    BY <1>2, <1>3, <1>6, <2>1, <2>2, <2>3, <2>4, SumPairs
<1>8. Sum(Total, PostedInvoices) \in Int
  BY <1>2, <1>6, SumRemove
<1>9. Sum(CallAmount, C) = Sum(Credit, E)
  BY <1>1
<1>10. Sum(Credit, E) = 1 * Sum(Total, PostedInvoices)
  BY <1>5, <1>7, Zenon
<1> QED
  BY <1>1, <1>6, <1>8, <1>9, <1>10

\* What the calls for payments come to.
LEMMA PaymentCalls ==
    ASSUME ServedInv, Quiet, NEW C,
           C = {c \in balanceCalls : journals[c.journal].type = "ap_payment"}
    PROVE  /\ Sum(CallAmount, C) \in Int
           /\ Sum(CallAmount, C) = -Sum(Cents, payments) /\ Sum(Cents, payments) \in Int
<1> DEFINE E == {c.journal : c \in C}
           All == {j \in JournalId : journals[j].type = "ap_payment" /\ EntryRow(j) \in payments}
<1>0. /\ TypeInv /\ CallsInv /\ balanceCalls \subseteq BalanceCall
  BY DEF ServedInv, TypeInv, TypeOK, RemotesOK
<1>1. IsFiniteSet(E) /\ Sum(CallAmount, C) \in Int /\ Sum(Credit, E) = (-1) * Sum(CallAmount, C)
  <2>1. "ap_payment" \in {"ap_invoice", "ap_payment"} /\ -1 \in {1, -1}
        /\ -1 = (IF "ap_payment" = "ap_invoice" THEN 1 ELSE -1)
    OBVIOUS
  <2> QED
    BY <1>0, <2>1, CallSums
<1>2. E = All
  <2>1. \A j \in E : j \in All
    BY <1>0, QuietEntries DEF BalanceCall
  <2>2. \A j \in All : j \in E
    BY QuietEntries DEF Called
  <2> HIDE DEF E, All
  <2> QED
    BY <2>1, <2>2
<1>3. Sum(Credit, All) = Sum(Cents, payments) /\ Sum(Credit, All) \in Int
  BY EntriesAddUp
<1> HIDE DEF E, All
<1> QED
  BY <1>1, <1>2, <1>3

\* All payments together come to what the posted invoices have been paid.
LEMMA PaymentsByInvoice ==
    ASSUME ServedInv, IsFiniteSet(PostedInvoices)
    PROVE  Sum(PaidColumn, PostedInvoices) = Sum(Cents, payments)
<1>0. /\ payments \subseteq Payment /\ IsFiniteSet(payments)
      /\ \A p \in payments : p.inv \in PostedInvoices
  BY DEF ServedInv, TypeInv, TypeOK, TablesOK, SumInv, PayInv, PaymentsOnlyForPosted, Payment,
     PostedInvoices
<1>1. \A p \in payments : Cents[p] \in Int /\ PaidInvoice[p] = p.inv
  BY <1>0 DEF Cents, PaidInvoice, Payment
<1>2. ASSUME NEW i \in PostedInvoices
      PROVE  /\ RowsByInvoice[i] \subseteq payments
             /\ \A p \in payments : p \in RowsByInvoice[i] <=> PaidInvoice[p] = i
             /\ PaidColumn[i] = Sum(Cents, RowsByInvoice[i])
  <2>1. i \in InvoiceId /\ RowsByInvoice[i] = PaymentRows(i) /\ PaidColumn[i] = invoices[i].paid
    BY DEF PostedInvoices, RowsByInvoice, PaidColumn
  <2>2. invoices[i].paid = Sum(Cents, PaymentRows(i))
    BY <2>1 DEF ServedInv, SerialInv, Settled, SumInv
  <2> QED
    BY <1>1, <2>1, <2>2 DEF PaymentRows
<1>3. Groups(payments, PostedInvoices, PaidInvoice, RowsByInvoice)
  BY <1>0, <1>1, <1>2 DEF Groups
<1> QED
  BY <1>0, <1>1, <1>2, <1>3, SumGroups

\* The vendor balance is what is due on the posted invoices.
LEMMA BalanceReconciled ==
    ASSUME ServedInv, Quiet
    PROVE  VendorBalance = MapThenSumSet(Due, PostedInvoices)
<1> DEFINE CI == {c \in balanceCalls : journals[c.journal].type = "ap_invoice"}
           CP == {c \in balanceCalls : journals[c.journal].type = "ap_payment"}
<1>0. /\ balanceCalls \subseteq BalanceCall /\ IsFiniteSet(balanceCalls)
      /\ \A c \in balanceCalls : CallStands(c) /\ CallAmount[c] = c.amount /\ CallAmount[c] \in Int
      /\ \A i \in InvoiceId : invoices[i].total \in Nat /\ invoices[i].paid \in Nat
  BY RowFields DEF ServedInv, TypeInv, TypeOK, TablesOK, RemotesOK, CallsInv, CallAmount, BalanceCall
<1>1. VendorBalance = Sum(CallAmount, balanceCalls)
  <2>1. MapThenSumSet(LAMBDA p : p.amount, balanceCalls) = Sum(CallAmount, balanceCalls)
    BY <1>0, AmountSum
  <2> QED
    BY <2>1 DEF VendorBalance
<1>2. Sum(CallAmount, balanceCalls) = Sum(CallAmount, CI) + Sum(CallAmount, CP)
  <2>1. CP = balanceCalls \ CI /\ CI \subseteq balanceCalls
    BY <1>0 DEF CallStands
  <2> HIDE DEF CI, CP
  <2> QED
    BY <1>0, <2>1, SumSplit
<1>3. /\ IsFiniteSet(PostedInvoices) /\ Sum(CallAmount, CI) \in Int
      /\ Sum(CallAmount, CI) = Sum(Total, PostedInvoices)
  BY PostedCalls
<1>4. /\ Sum(CallAmount, CP) = -Sum(Cents, payments) /\ Sum(Cents, payments) \in Int
  BY PaymentCalls
<1>5. Sum(PaidColumn, PostedInvoices) = Sum(Cents, payments)
  BY <1>3, PaymentsByInvoice
<1>6. Sum(DueColumn, PostedInvoices) = Sum(Total, PostedInvoices) - Sum(PaidColumn, PostedInvoices)
  <2>1. \A i \in PostedInvoices : /\ Total[i] \in Int /\ PaidColumn[i] \in Int
                                  /\ DueColumn[i] = Total[i] - PaidColumn[i]
    BY <1>0 DEF PostedInvoices, Total, PaidColumn, DueColumn, Due
  <2>2. PICK f : f = Total
    OBVIOUS
  <2>3. PICK g : g = PaidColumn
    OBVIOUS
  <2>4. PICK h : h = DueColumn
    OBVIOUS
  <2> QED
    BY <1>3, <2>1, <2>2, <2>3, <2>4, SumMinus
<1>7. MapThenSumSet(Due, PostedInvoices) = Sum(DueColumn, PostedInvoices)
  <2>1. \A i \in PostedInvoices : DueColumn[i] = Due(i)
    BY DEF PostedInvoices, DueColumn
  <2> QED
    BY <1>3, <2>1, DueSum
<1> HIDE DEF CI, CP
<1> QED
  BY <1>1, <1>2, <1>3, <1>4, <1>5, <1>6, <1>7

\* The three parts of Reconciled.
LEMMA BooksReconciled == ServedInv => Reconciled
BY BalanceReconciled, InvoicesReconciled, PaymentsReconciled DEF Reconciled

-----------------------------------------------------------------------------
(* The server                                                              *)

\* Once the exit has cut requests off, nothing is promised and nothing moves.
ServerInv == IF cut = {} THEN ServedInv ELSE phase = "exited"

\* Unless the exit cuts a request off, the server only serves: a stop that
\* finds nobody at work changes nothing of the service.
LEMMA ServerServes ==
    ASSUME ServerInv, [ServerNext /\ OneRequestPerInvoice']_serverVars, cut' = {}
    PROVE  ServedInv /\ [Serve /\ OneRequestPerInvoice']_vars
<1>1. CASE UNCHANGED serverVars
  BY <1>1 DEF ServerInv, serverVars
<1>2. CASE cut' = cut /\ OneRequestPerInvoice' /\ (Create \/ \E w \in Worker : Handle(w))
  BY <1>2 DEF ServerInv, Create, Handle, Serve
<1>3. ASSUME cut' = cut, OneRequestPerInvoice', NEW w \in Worker, NEW i \in InvoiceId,
             HttpRequest(w, i) \/ GrpcCall(w, i)
      PROVE  ServedInv /\ [Serve /\ OneRequestPerInvoice']_vars
  <2>0. ServedInv /\ invoices[i].total \in Nat /\ invoices[i].paid \in Nat
    BY <1>3, RowFields DEF ServerInv, ServedInv, TypeInv, TypeOK, TablesOK
  <2>1. Due(i) <= invoices[i].total /\ Due(i) \in Int
    BY <2>0 DEF Due
  <2>2. 1 .. Due(i) \subseteq 0 .. invoices[i].total + 1
    BY <2>0, <2>1
  <2>3. Begin(w, i)
    BY <1>3, <2>2 DEF HttpRequest, GrpcCall, PostToGL, Begin
  <2> QED
    BY <1>3, <2>0, <2>3 DEF Serve
<1>4. CASE Signal \/ HttpShutdown
  BY <1>4 DEF ServerInv, Signal, HttpShutdown
<1>5. CASE GracefulStop
  <2>1. /\ ServedInv /\ UNCHANGED <<tables, remotes>> /\ http = {}
        /\ req' = [w \in Worker |-> NoRequest]
        /\ \A w \in Worker : Busy(w) => w \in http
    BY <1>5 DEF GracefulStop, Enter, ServerInv
  <2>2. req \in [Worker -> Request] /\ \A w \in Worker : req[w] = NoRequest
    BY <2>1 DEF Busy, At, ServedInv, BooksInv, RequestBooks, TypeInv, TypeOK, RequestsOK
  <2>3. req' = req
    BY <2>1, <2>2
  <2> QED
    BY <2>1, <2>3 DEF vars, tables, remotes
<1>6. ASSUME ServerNext, ~GracefulStop PROVE cut' = cut
  BY <1>6 DEF ServerNext, Create, Handle, HttpRequest, GrpcCall, Signal, HttpShutdown
<1> QED
  BY <1>1, <1>2, <1>3, <1>4, <1>5, <1>6 DEF ServerNext

\* The server keeps what is known of its service, until the exit.
LEMMA ServerStep ==
    ServerInv /\ [ServerNext /\ OneRequestPerInvoice']_serverVars => ServerInv'
<1> SUFFICES ASSUME ServerInv, [ServerNext /\ OneRequestPerInvoice']_serverVars PROVE ServerInv'
  OBVIOUS
<1>1. CASE cut' = {}
  <2>1. ServedInv'
    BY <1>1, ServerServes, ServedStep
  <2> QED
    BY <1>1, <2>1 DEF ServerInv
<1>2. CASE cut' # {}
  <2>1. phase' = "exited"
    BY <1>2 DEF ServerInv, serverVars, ServerNext, Create, Handle, HttpRequest, GrpcCall,
       HttpAccepts, GrpcAccepts, Signal, HttpShutdown, GracefulStop, Enter
  <2> QED
    BY <1>2, <2>1 DEF ServerInv
<1> QED
  BY <1>1, <1>2

\* Between requests the books of the three services agree to the cent, for any
\* number of invoices, payments and requests: when requests for one invoice do
\* not overlap and nothing fails, also after a shutdown in the middle of the
\* work, unless it cut off an HTTP request.
THEOREM BooksAlwaysClose == ServerSpec => []BooksClosed
<1>1. ServerInit => ServerInv
  BY ServedInit DEF ServerInit, ServerInv
<1>2. ServerInv => BooksClosed
  BY BooksReconciled DEF ServerInv, BooksClosed
<1> QED
  BY <1>1, <1>2, ServerStep, PTL DEF ServerSpec
=============================================================================
