----------------------------- MODULE DataTheorems -----------------------------
(***************************************************************************)
(* Facts about finite sets, sums and sequences that the proofs about       *)
(* several components need.                                                *)
(*                                                                         *)
(* Induction over the finite subsets of a set is put as a fact about sets  *)
(* instead of predicates: a set of subsets that is not empty has a member  *)
(* none of whose proper subsets is in it.  The subsets of which a formula  *)
(* fails are such a set.                                                   *)
(*                                                                         *)
(* Sums over a finite set are what FoldFunctionOnSet of the community      *)
(* modules computes: what is added first does not matter.                  *)
(***************************************************************************)
EXTENDS Integers, FiniteSets, Functions, FiniteSetsExt, Bags, FiniteSetTheorems,
        SequenceTheorems, TLAPS

\* A function on the first numbers is a sequence.
LEMMA FunctionIsSeq ==
    ASSUME NEW S, NEW n \in Nat, NEW f \in [1..n -> S]
    PROVE  f \in Seq(S) /\ Len(f) = n
<1>1. f \in Seq(S) BY SeqDef
<1>2. DOMAIN f = 1..n /\ Len(f) \in Nat /\ DOMAIN f = 1..Len(f) BY <1>1, LenProperties
<1> QED BY <1>1, <1>2

\* A set of finite sets has a smallest one.
LEMMA SmallestSubset ==
    ASSUME NEW S, IsFiniteSet(S), NEW C, C \subseteq SUBSET S, C # {}
    PROVE  \E T \in C : \A U \in C : U \subseteq T => U = T
<1>1. IsWellFoundedOn(StrictSubsetOrdering(S), SUBSET S)
  BY FS_StrictSubsetOrderingWellFounded, FS_FiniteSubsetsOfFinite, Zenon
<1>2. PICK T \in C : \A U \in C : <<U, T>> \notin StrictSubsetOrdering(S)
  BY <1>1, WFMin, Zenon
<1>3. ASSUME NEW U \in C, U \subseteq T PROVE U = T
  BY <1>2, <1>3 DEF StrictSubsetOrdering
<1> QED BY <1>3

\* A set of natural numbers has a smallest one.
LEMMA LeastNumber ==
    ASSUME NEW C, C \subseteq Nat, C # {}
    PROVE  \E n \in C : \A m \in C : n <= m
<1> DEFINE R == OpToRel(<, Nat)
<1>1. IsWellFoundedOn(R, Nat) BY NatLessThanWellFounded, Zenon
<1>2. PICK n \in C : \A m \in C : <<m, n>> \notin R
  <2> HIDE DEF R
  <2> QED BY <1>1, WFMin, Zenon
<1>3. ASSUME NEW m \in C PROVE n <= m
  <2>1. m \in Nat /\ n \in Nat OBVIOUS
  <2>2. ~(m < n) BY <1>2, <2>1, Zenon DEF OpToRel
  <2> QED BY <2>1, <2>2
<1> QED BY <1>3

-----------------------------------------------------------------------------
(* The table of sums that the fold builds. *)

SumStep(f, g, T) ==
    IF T = {} THEN 0 ELSE LET x == CHOOSE y \in T : TRUE IN f[x] + g[T \ {x}]

\* g holds the sums of f over the subsets of S.
SumTable(f, S, g) == g = [T \in SUBSET S |-> SumStep(f, g, T)]

\* Two tables agree on the subsets they both hold.
LEMMA SumTableUnique ==
    ASSUME NEW f, NEW S, IsFiniteSet(S), NEW R \in SUBSET S,
           NEW g, SumTable(f, S, g), NEW h, SumTable(f, R, h)
    PROVE  \A T \in SUBSET R : g[T] = h[T]
<1> DEFINE C == {T \in SUBSET R : g[T] # h[T]}
<1> SUFFICES ASSUME C # {} PROVE FALSE OBVIOUS
<1>1. IsFiniteSet(R) BY FS_Subset
<1>2. PICK T \in C : \A U \in C : U \subseteq T => U = T
  <2> HIDE DEF C
  <2>1. C \subseteq SUBSET R BY DEF C
  <2> QED BY <1>1, <2>1, SmallestSubset
<1>3. g[T] = SumStep(f, g, T) /\ h[T] = SumStep(f, h, T)
  BY Zenon DEF SumTable
<1>4. T # {} BY <1>3 DEF SumStep
<1> DEFINE x == CHOOSE y \in T : TRUE
<1>5. x \in T BY <1>4
<1>6. g[T \ {x}] = h[T \ {x}]
  <2> HIDE DEF x
  <2> QED BY <1>2, <1>5
<1>7. g[T] = f[x] + g[T \ {x}] /\ h[T] = f[x] + h[T \ {x}]
  BY <1>3, <1>4, Zenon DEF SumStep
<1> QED BY <1>6, <1>7

\* Every finite set has its table.
LEMMA SumTableExists ==
    ASSUME NEW f, NEW S, IsFiniteSet(S)
    PROVE  \E g : SumTable(f, S, g)
<1> DEFINE C == {T \in SUBSET S : ~\E g : SumTable(f, T, g)}
<1> SUFFICES ASSUME C # {} PROVE FALSE BY Zenon
<1>2. PICK T \in C : \A U \in C : U \subseteq T => U = T
  <2> HIDE DEF C
  <2>1. C \subseteq SUBSET S BY DEF C
  <2> QED BY <2>1, SmallestSubset
<1> DEFINE Table(U) == CHOOSE g : SumTable(f, U, g)
<1>3. \A U \in SUBSET T : U # T => SumTable(f, U, Table(U))
  <2> SUFFICES ASSUME NEW U \in SUBSET T, U # T PROVE \E g : SumTable(f, U, g)
    BY Zenon
  <2>1. U \notin C /\ U \in SUBSET S BY <1>2
  <2> QED BY <2>1, Zenon
<1> DEFINE Sum(U) == Table(U)[U]
           x == CHOOSE y \in T : TRUE
           g == [U \in SUBSET T |->
                    IF U # T THEN Sum(U)
                    ELSE IF T = {} THEN 0 ELSE f[x] + Sum(T \ {x})]
<1>4. ASSUME NEW U \in SUBSET T PROVE g[U] = SumStep(f, g, U)
  <2>1. CASE U = {}
    <3>1. CASE T = {} BY <2>1, <3>1 DEF SumStep
    <3>2. CASE T # {}
      <4>1. g[U] = Table(U)[U] BY <2>1, <3>2, Zenon
      <4>2. SumTable(f, U, Table(U)) BY <1>3, <2>1, <3>2
      <4> HIDE DEF Table
      <4> QED BY <2>1, <4>1, <4>2, Zenon DEF SumTable, SumStep
    <3> QED BY <3>1, <3>2
  <2>2. CASE U # {}
    <3> DEFINE y == CHOOSE z \in U : TRUE
               V == U \ {y}
    <3>1. y \in U BY <2>2
    <3>2. V \in SUBSET T /\ V # T /\ V \in SUBSET U
      <4> HIDE DEF y
      <4> QED BY <3>1
    <3>3. g[V] = Sum(V)
      <4> HIDE DEF V, Table
      <4> QED BY <3>2
    <3>4. SumStep(f, g, U) = f[y] + Sum(V)
      <4>1. SumStep(f, g, U) = f[y] + g[V] BY <2>2, Zenon DEF SumStep
      <4> HIDE DEF g, V
      <4> QED BY <3>3, <4>1, Zenon
    <3>5. CASE U = T BY <2>2, <3>4, <3>5, Zenon
    <3>6. CASE U # T
      <4>1. SumTable(f, U, Table(U)) /\ SumTable(f, V, Table(V)) BY <1>3, <3>2, <3>6
      <4>2. IsFiniteSet(U) BY FS_Subset
      <4>3. Table(U)[V] = Table(V)[V]
        <5>1. \A W \in SUBSET V : Table(U)[W] = Table(V)[W]
          <6> HIDE DEF V, Table
          <6> QED BY <4>1, <4>2, <3>2, SumTableUnique
        <5> HIDE DEF V, Table
        <5> QED BY <5>1, Zenon
      <4>4. Table(U)[U] = f[y] + Table(U)[V]
        <5> HIDE DEF Table
        <5>1. Table(U)[U] = SumStep(f, Table(U), U) BY <4>1, Zenon DEF SumTable
        <5> QED BY <2>2, <5>1, Zenon DEF SumStep
      <4>5. g[U] = Sum(U)
        <5> HIDE DEF Table
        <5> QED BY <3>6
      <4> HIDE DEF g, V, Table
      <4> QED BY <3>4, <4>3, <4>4, <4>5, Zenon
    <3> QED BY <3>5, <3>6
  <2> QED BY <2>1, <2>2
<1>5. SumTable(f, T, g)
  <2>1. g = [U \in SUBSET T |-> g[U]]
    <3> HIDE DEF Table
    <3> QED OBVIOUS
  <2> HIDE DEF g
  <2> QED BY <1>4, <2>1, Zenon DEF SumTable
<1> HIDE DEF g
<1> QED BY <1>5, <1>2, Zenon

\* SumFunctionOnSet finds its sum in such a table.
LEMMA SumInTable ==
    ASSUME NEW f, NEW S, IsFiniteSet(S)
    PROVE  \E g : SumTable(f, S, g) /\ SumFunctionOnSet(f, S) = g[S]
<1> DEFINE R(h) == h = [T \in SUBSET S |->
                IF T = {} THEN 0
                ELSE LET x == CHOOSE y \in T : TRUE IN f[x] + h[T \ {x}]]
<1>1. \A h : R(h) <=> SumTable(f, S, h) BY Zenon DEF SumTable, SumStep
<1>2. R(CHOOSE h : R(h))
  <2>1. PICK h : SumTable(f, S, h) BY SumTableExists
    <2>2. R(h) BY <1>1, <2>1, Zenon
    <2>3. \E k : R(k) BY <2>2, Zenon
  <2> QED BY <2>3, Zenon
<1>3. SumFunctionOnSet(f, S) = (CHOOSE h : R(h))[S]
  BY Zenon DEF SumFunctionOnSet, FoldFunctionOnSet, MapThenFoldSet
<1> HIDE DEF R
<1> QED BY <1>1, <1>2, <1>3, Zenon

-----------------------------------------------------------------------------
(* What the sums are. *)

LEMMA SumChosen ==
    ASSUME NEW f, NEW S, IsFiniteSet(S)
    PROVE  SumFunctionOnSet(f, S) =
               IF S = {} THEN 0
               ELSE LET x == CHOOSE y \in S : TRUE
                    IN  f[x] + SumFunctionOnSet(f, S \ {x})
<1>1. PICK g : SumTable(f, S, g) /\ SumFunctionOnSet(f, S) = g[S] BY SumInTable
<1>2. g[S] = SumStep(f, g, S) BY <1>1, Zenon DEF SumTable
<1>3. CASE S = {} BY <1>1, <1>2, <1>3 DEF SumStep
<1>4. CASE S # {}
  <2> DEFINE x == CHOOSE y \in S : TRUE
             R == S \ {x}
  <2>1. R \in SUBSET S /\ IsFiniteSet(R) BY FS_Subset
  <2>2. PICK h : SumTable(f, R, h) /\ SumFunctionOnSet(f, R) = h[R]
    <3> HIDE DEF R
    <3> QED BY <2>1, SumInTable
  <2>3. g[R] = h[R]
    <3> HIDE DEF R
    <3>1. \A T \in SUBSET R : g[T] = h[T] BY <1>1, <2>1, <2>2, SumTableUnique
    <3> QED BY <3>1
  <2>4. g[S] = f[x] + g[R] BY <1>2, <1>4, Zenon DEF SumStep
  <2> HIDE DEF R
  <2>5. SumFunctionOnSet(f, S) = f[x] + SumFunctionOnSet(f, R)
    BY <1>1, <2>2, <2>3, <2>4, Zenon
  <2> USE DEF R
  <2> QED BY <1>4, <2>5, Zenon
<1> QED BY <1>3, <1>4

LEMMA SumEmpty == \A f : SumFunctionOnSet(f, {}) = 0
BY SumChosen, FS_EmptySet

\* Any element may be taken out first.
LEMMA SumRemove ==
    ASSUME NEW f, NEW S, IsFiniteSet(S), \A s \in S : f[s] \in Int
    PROVE  /\ SumFunctionOnSet(f, S) \in Int
           /\ \A s \in S : SumFunctionOnSet(f, S) = f[s] + SumFunctionOnSet(f, S \ {s})
<1> DEFINE Good(T) == /\ SumFunctionOnSet(f, T) \in Int
                      /\ \A s \in T : SumFunctionOnSet(f, T)
                                        = f[s] + SumFunctionOnSet(f, T \ {s})
           C == {T \in SUBSET S : ~Good(T)}
<1> SUFFICES ASSUME C # {} PROVE FALSE
  <2> HIDE DEF Good
  <2>1. Good(S) OBVIOUS
  <2> QED BY <2>1 DEF Good
<1>1. PICK T \in C : \A U \in C : U \subseteq T => U = T
  <2> HIDE DEF C
  <2>1. C \subseteq SUBSET S BY DEF C
  <2> QED BY <2>1, SmallestSubset
<1>2. \A U \in SUBSET T : U # T => Good(U)
  <2> HIDE DEF Good
  <2> QED BY <1>1
<1>3. \A U \in SUBSET T : IsFiniteSet(U) BY FS_Subset
<1>4. T # {} BY SumEmpty
<1> DEFINE x == CHOOSE y \in T : TRUE
           R == T \ {x}
<1>5. x \in T BY <1>4
<1>6. SumFunctionOnSet(f, T) = f[x] + SumFunctionOnSet(f, R)
  <2>1. IsFiniteSet(T) BY <1>3
  <2> QED BY <1>4, <2>1, SumChosen, Zenon
<1> HIDE DEF x
<1>7. Good(R) BY <1>2, <1>5
<1>8. f[x] \in Int /\ SumFunctionOnSet(f, R) \in Int BY <1>5, <1>7
<1>9. SumFunctionOnSet(f, T) \in Int BY <1>6, <1>8
<1>10. ASSUME NEW s \in T
       PROVE  SumFunctionOnSet(f, T) = f[s] + SumFunctionOnSet(f, T \ {s})
  <2>1. CASE s = x BY <1>6, <2>1
  <2>2. CASE s # x
    <3> DEFINE Q == T \ {s}
    <3>1. Good(Q) BY <1>2
    <3>2. s \in R /\ x \in Q BY <1>5, <2>2
    <3>3. R \ {s} = Q \ {x} OBVIOUS
    <3>4. SumFunctionOnSet(f, R) = f[s] + SumFunctionOnSet(f, R \ {s})
      <4> HIDE DEF R
      <4> QED BY <1>7, <3>2
    <3>5. SumFunctionOnSet(f, Q) = f[x] + SumFunctionOnSet(f, Q \ {x})
      <4> HIDE DEF Q
      <4> QED BY <3>1, <3>2
    <3>6. SumFunctionOnSet(f, Q \ {x}) \in Int
      <4>1. Q \ {x} \in SUBSET T /\ Q \ {x} # T BY <1>5
      <4> HIDE DEF Q, R
      <4> QED BY <1>2, <4>1
    <3>7. f[s] \in Int OBVIOUS
    <3>8. SumFunctionOnSet(f, R \ {s}) = SumFunctionOnSet(f, Q \ {x})
      <4> HIDE DEF Q, R
      <4> QED BY <3>3
    <3> DEFINE a == SumFunctionOnSet(f, Q \ {x})
    <3>9. SumFunctionOnSet(f, T) = f[x] + (f[s] + a)
      <4> HIDE DEF Q, R
      <4> QED BY <1>6, <3>4, <3>8
    <3>10. f[s] + SumFunctionOnSet(f, Q) = f[s] + (f[x] + a)
      <4> HIDE DEF Q
      <4> QED BY <3>5
    <3>11. a \in Int BY <3>6
    <3> HIDE DEF a
    <3>12. f[x] + (f[s] + a) = f[s] + (f[x] + a) BY <1>8, <3>7, <3>11
    <3> QED BY <3>9, <3>10, <3>12
  <2> QED BY <2>1, <2>2
<1> HIDE DEF R
<1> QED BY <1>9, <1>10

\* A new element is added to the sum.
LEMMA SumAdd ==
    ASSUME NEW f, NEW S, IsFiniteSet(S), NEW x, x \notin S,
           f[x] \in Int, \A s \in S : f[s] \in Int
    PROVE  SumFunctionOnSet(f, S \union {x}) = SumFunctionOnSet(f, S) + f[x]
<1> DEFINE T == S \union {x}
<1>1. IsFiniteSet(T) BY FS_AddElement
<1>2. x \in T /\ T \ {x} = S /\ \A s \in T : f[s] \in Int OBVIOUS
<1> HIDE DEF T
<1>3. SumFunctionOnSet(f, T) = f[x] + SumFunctionOnSet(f, S) BY <1>1, <1>2, SumRemove
<1>4. SumFunctionOnSet(f, S) \in Int BY SumRemove
<1> QED BY <1>3, <1>4 DEF T

\* Natural numbers add up to one.
LEMMA SumNat ==
    ASSUME NEW f, NEW S, IsFiniteSet(S), \A s \in S : f[s] \in Nat
    PROVE  SumFunctionOnSet(f, S) \in Nat
<1> DEFINE C == {T \in SUBSET S : SumFunctionOnSet(f, T) \notin Nat}
<1> SUFFICES ASSUME C # {} PROVE FALSE OBVIOUS
<1>1. PICK T \in C : \A U \in C : U \subseteq T => U = T
  <2> HIDE DEF C
  <2>1. C \subseteq SUBSET S BY DEF C
  <2> QED BY <2>1, SmallestSubset
<1>2. PICK x \in T : TRUE
  <2>1. SumFunctionOnSet(f, {}) = 0 BY SumEmpty
  <2>2. T # {} BY <2>1
  <2> QED BY <2>2
<1>3. SumFunctionOnSet(f, T \ {x}) \in Nat BY <1>1, <1>2
<1>4. IsFiniteSet(T) BY FS_Subset
<1>5. SumFunctionOnSet(f, T) = f[x] + SumFunctionOnSet(f, T \ {x})
  <2>1. T \subseteq S OBVIOUS
  <2>2. \A s \in T : f[s] \in Int BY <2>1
  <2> HIDE DEF C
  <2> QED BY <1>2, <1>4, <2>2, SumRemove
<1>6. f[x] \in Nat BY <1>2
<1> QED BY <1>3, <1>5, <1>6

\* What is added up is what the functions agree on.
LEMMA SumSame ==
    ASSUME NEW f, NEW g, NEW S, IsFiniteSet(S), \A s \in S : f[s] \in Int /\ f[s] = g[s]
    PROVE  SumFunctionOnSet(f, S) = SumFunctionOnSet(g, S)
<1> DEFINE C == {T \in SUBSET S : SumFunctionOnSet(f, T) # SumFunctionOnSet(g, T)}
<1> SUFFICES ASSUME C # {} PROVE FALSE OBVIOUS
<1>1. PICK T \in C : \A U \in C : U \subseteq T => U = T
  <2> HIDE DEF C
  <2>1. C \subseteq SUBSET S BY DEF C
  <2> QED BY <2>1, SmallestSubset
<1>2. PICK x \in T : TRUE
  <2>1. SumFunctionOnSet(f, {}) = SumFunctionOnSet(g, {}) BY SumEmpty
  <2>2. T # {} BY <2>1
  <2> QED BY <2>2
<1>3. T \subseteq S OBVIOUS
<1>4. SumFunctionOnSet(f, T \ {x}) = SumFunctionOnSet(g, T \ {x})
  <2>1. T \ {x} \in SUBSET S /\ T \ {x} \subseteq T /\ T \ {x} # T BY <1>2, <1>3
  <2> QED BY <1>1, <2>1, Zenon
<1>5. IsFiniteSet(T) BY <1>3, FS_Subset
<1>6. \A s \in T : f[s] \in Int /\ g[s] \in Int /\ f[s] = g[s] BY <1>3
<1>7. SumFunctionOnSet(f, T) # SumFunctionOnSet(g, T) OBVIOUS
<1> HIDE DEF C
<1>8. SumFunctionOnSet(f, T) = f[x] + SumFunctionOnSet(f, T \ {x})
  BY <1>2, <1>5, <1>6, SumRemove
<1>9. SumFunctionOnSet(g, T) = g[x] + SumFunctionOnSet(g, T \ {x})
  BY <1>2, <1>5, <1>6, SumRemove
<1> QED BY <1>2, <1>4, <1>6, <1>7, <1>8, <1>9

\* Two sums are added element by element.
LEMMA SumPlus ==
    ASSUME NEW f, NEW g, NEW h, NEW S, IsFiniteSet(S),
           \A s \in S : f[s] \in Int /\ g[s] \in Int /\ h[s] = f[s] + g[s]
    PROVE  SumFunctionOnSet(h, S) = SumFunctionOnSet(f, S) + SumFunctionOnSet(g, S)
<1> DEFINE C == {T \in SUBSET S : SumFunctionOnSet(h, T)
                                    # SumFunctionOnSet(f, T) + SumFunctionOnSet(g, T)}
<1> SUFFICES ASSUME C # {} PROVE FALSE OBVIOUS
<1>1. PICK T \in C : \A U \in C : U \subseteq T => U = T
  <2> HIDE DEF C
  <2>1. C \subseteq SUBSET S BY DEF C
  <2> QED BY <2>1, SmallestSubset
<1>2. PICK x \in T : TRUE
  <2>1. /\ SumFunctionOnSet(f, {}) = 0 /\ SumFunctionOnSet(g, {}) = 0
        /\ SumFunctionOnSet(h, {}) = 0
    BY SumEmpty
  <2>2. SumFunctionOnSet(h, {}) = SumFunctionOnSet(f, {}) + SumFunctionOnSet(g, {})
    BY <2>1
  <2>3. T # {} BY <2>2, Zenon
  <2> QED BY <2>3
<1>3. T \subseteq S OBVIOUS
<1>4. SumFunctionOnSet(h, T \ {x})
        = SumFunctionOnSet(f, T \ {x}) + SumFunctionOnSet(g, T \ {x})
  <2>1. T \ {x} \in SUBSET S /\ T \ {x} \subseteq T /\ T \ {x} # T BY <1>2, <1>3
  <2> QED BY <1>1, <2>1, Zenon
<1>5. IsFiniteSet(T) BY <1>3, FS_Subset
<1>6. \A s \in T : f[s] \in Int /\ g[s] \in Int /\ h[s] \in Int /\ h[s] = f[s] + g[s] BY <1>3
<1>7. SumFunctionOnSet(h, T) # SumFunctionOnSet(f, T) + SumFunctionOnSet(g, T) OBVIOUS
<1> HIDE DEF C
<1>8. /\ SumFunctionOnSet(f, T) = f[x] + SumFunctionOnSet(f, T \ {x})
      /\ SumFunctionOnSet(g, T) = g[x] + SumFunctionOnSet(g, T \ {x})
      /\ SumFunctionOnSet(h, T) = h[x] + SumFunctionOnSet(h, T \ {x})
  BY <1>2, <1>5, <1>6, SumRemove
<1>9. SumFunctionOnSet(f, T \ {x}) \in Int /\ SumFunctionOnSet(g, T \ {x}) \in Int
  <2>1. IsFiniteSet(T \ {x}) BY <1>5, FS_Subset
  <2>2. \A s \in T \ {x} : f[s] \in Int /\ g[s] \in Int BY <1>6
  <2> QED BY <2>1, <2>2, SumRemove
<1> QED BY <1>2, <1>4, <1>6, <1>7, <1>8, <1>9

\* A part does not add up to more than the whole.
LEMMA SumOfPart ==
    ASSUME NEW f, NEW S, IsFiniteSet(S), NEW R \in SUBSET S, \A s \in S : f[s] \in Nat
    PROVE  SumFunctionOnSet(f, R) <= SumFunctionOnSet(f, S)
<1> DEFINE C == {T \in SUBSET S :
                   R \subseteq T /\ ~(SumFunctionOnSet(f, R) <= SumFunctionOnSet(f, T))}
<1> SUFFICES ASSUME C # {} PROVE FALSE OBVIOUS
<1>1. PICK T \in C : \A U \in C : U \subseteq T => U = T
  <2> HIDE DEF C
  <2>1. C \subseteq SUBSET S BY DEF C
  <2> QED BY <2>1, SmallestSubset
<1>2. T \subseteq S /\ R \subseteq T /\ ~(SumFunctionOnSet(f, R) <= SumFunctionOnSet(f, T))
  OBVIOUS
<1>3. IsFiniteSet(T) /\ IsFiniteSet(R) BY <1>2, FS_Subset
<1>4. /\ \A s \in T : f[s] \in Nat /\ f[s] \in Int
      /\ \A s \in R : f[s] \in Nat
  BY <1>2
<1>5. SumFunctionOnSet(f, R) \in Nat
  <2> HIDE DEF C
  <2> QED BY <1>3, <1>4, SumNat
<1>6. PICK x \in T : x \notin R BY <1>2, <1>5
<1>7. SumFunctionOnSet(f, R) <= SumFunctionOnSet(f, T \ {x})
  <2>1. T \ {x} \in SUBSET S /\ T \ {x} \subseteq T /\ T \ {x} # T /\ R \subseteq T \ {x}
    BY <1>2, <1>6
  <2> QED BY <1>1, <2>1, Zenon
<1> HIDE DEF C
<1>8. SumFunctionOnSet(f, T) = f[x] + SumFunctionOnSet(f, T \ {x})
  BY <1>3, <1>4, <1>6, SumRemove
<1>9. SumFunctionOnSet(f, T \ {x}) \in Nat
  <2>1. IsFiniteSet(T \ {x}) BY <1>3, FS_RemoveElement
  <2>2. \A s \in T \ {x} : f[s] \in Nat BY <1>4
  <2> DEFINE U == T \ {x}
  <2> HIDE DEF U
  <2>3. SumFunctionOnSet(f, U) \in Nat BY <2>1, <2>2, SumNat DEF U
  <2> QED BY <2>3 DEF U
<1> QED BY <1>2, <1>4, <1>5, <1>6, <1>7, <1>8, <1>9

\* What one element has more, the sum has.
LEMMA SumChanged ==
    ASSUME NEW f, NEW g, NEW S, IsFiniteSet(S), NEW x \in S,
           \A s \in S : f[s] \in Int /\ g[s] \in Int /\ (s # x => f[s] = g[s])
    PROVE  SumFunctionOnSet(g, S) = SumFunctionOnSet(f, S) - f[x] + g[x]
<1> DEFINE T == S \ {x}
<1>1. IsFiniteSet(T) BY FS_RemoveElement
<1>2. \A s \in T : f[s] \in Int /\ g[s] \in Int /\ f[s] = g[s] OBVIOUS
<1>3. SumFunctionOnSet(f, S) = f[x] + SumFunctionOnSet(f, T) BY SumRemove
<1>4. SumFunctionOnSet(g, S) = g[x] + SumFunctionOnSet(g, T) BY SumRemove
<1> HIDE DEF T
<1>5. SumFunctionOnSet(f, T) = SumFunctionOnSet(g, T) BY <1>1, <1>2, SumSame
<1>6. SumFunctionOnSet(f, T) \in Int BY <1>1, <1>2, SumRemove
<1> QED BY <1>3, <1>4, <1>5, <1>6

\* Two sums over sets with nothing in common make the sum over both.
LEMMA SumOfBoth ==
    ASSUME NEW f, NEW S, NEW T, IsFiniteSet(S), IsFiniteSet(T), S \intersect T = {},
           \A s \in S \union T : f[s] \in Int
    PROVE  SumFunctionOnSet(f, S \union T) = SumFunctionOnSet(f, S) + SumFunctionOnSet(f, T)
<1> DEFINE C == {U \in SUBSET T : SumFunctionOnSet(f, S \union U)
                                    # SumFunctionOnSet(f, S) + SumFunctionOnSet(f, U)}
<1> SUFFICES ASSUME C # {} PROVE FALSE BY Zenon
<1>1. PICK U \in C : \A V \in C : V \subseteq U => V = U
  <2> HIDE DEF C
  <2>1. C \subseteq SUBSET T BY DEF C
  <2> QED BY <2>1, SmallestSubset
<1>2. /\ U \subseteq T
      /\ SumFunctionOnSet(f, S \union U) # SumFunctionOnSet(f, S) + SumFunctionOnSet(f, U)
  OBVIOUS
<1>3. SumFunctionOnSet(f, S) \in Int
  <2>1. \A s \in S : f[s] \in Int OBVIOUS
  <2> HIDE DEF C
  <2> QED BY <2>1, SumRemove
<1>4. PICK x \in U : TRUE
  <2>1. ASSUME U = {} PROVE FALSE
    <3>1. S \union U = S BY <2>1
    <3>2. SumFunctionOnSet(f, U) = 0 BY <2>1, SumEmpty
    <3> HIDE DEF C
    <3>3. SumFunctionOnSet(f, S) # SumFunctionOnSet(f, S) + 0 BY <1>2, <3>1, <3>2, Zenon
    <3> QED BY <1>3, <3>3
  <2> QED BY <2>1
<1> DEFINE V == U \ {x}
           W == S \union V
<1>5. SumFunctionOnSet(f, W) = SumFunctionOnSet(f, S) + SumFunctionOnSet(f, V)
  <2>1. V \in SUBSET T /\ V \subseteq U /\ V # U BY <1>2, <1>4
  <2> HIDE DEF V
  <2> QED BY <1>1, <2>1, Zenon
<1>6. IsFiniteSet(U) /\ IsFiniteSet(V) /\ IsFiniteSet(W)
  BY <1>2, FS_Subset, FS_Union
<1>7. x \notin W /\ W \union {x} = S \union U /\ x \notin V /\ V \union {x} = U
  BY <1>2, <1>4
<1>8. f[x] \in Int /\ (\A s \in W : f[s] \in Int) /\ \A s \in V : f[s] \in Int BY <1>2, <1>4
<1> HIDE DEF C, V, W
<1>9. SumFunctionOnSet(f, S \union U) = SumFunctionOnSet(f, W) + f[x]
  <2>1. SumFunctionOnSet(f, W \union {x}) = SumFunctionOnSet(f, W) + f[x]
    BY <1>6, <1>7, <1>8, SumAdd
  <2> QED BY <1>7, <2>1, Zenon
<1>10. SumFunctionOnSet(f, U) = SumFunctionOnSet(f, V) + f[x]
  <2>1. SumFunctionOnSet(f, V \union {x}) = SumFunctionOnSet(f, V) + f[x]
    BY <1>6, <1>7, <1>8, SumAdd
  <2> QED BY <1>7, <2>1, Zenon
<1>11. SumFunctionOnSet(f, V) \in Int BY <1>6, <1>8, SumRemove
<1> QED BY <1>2, <1>3, <1>5, <1>8, <1>9, <1>10, <1>11

\* The image of a finite set is finite.
LEMMA FiniteImage ==
    ASSUME NEW S, IsFiniteSet(S), NEW f
    PROVE  IsFiniteSet({f[x] : x \in S})
<1> DEFINE T == {f[x] : x \in S}
           g == [x \in S |-> f[x]]
<1>1. g \in Surjection(S, T) BY DEF Surjection, Range
<1> HIDE DEF T, g
<1> QED BY <1>1, FS_Surjection DEF T

\* One number more is one term more.
LEMMA SumOfFirst ==
    ASSUME NEW n \in Nat, NEW f, \A i \in 1..(n + 1) : f[i] \in Int
    PROVE  /\ SumFunction([i \in 1..n |-> f[i]]) \in Int
           /\ SumFunction([i \in 1..(n + 1) |-> f[i]])
                = SumFunction([i \in 1..n |-> f[i]]) + f[n + 1]
<1> DEFINE S == 1..n
           T == 1..(n + 1)
           g == [i \in S |-> f[i]]
           h == [i \in T |-> f[i]]
           x == n + 1
<1>1. IsFiniteSet(S) BY FS_Interval
<1>2. T = S \union {x} /\ x \notin S OBVIOUS
<1>3. /\ \A s \in S : g[s] \in Int /\ h[s] \in Int /\ g[s] = h[s]
      /\ h[x] = f[x] /\ h[x] \in Int
  OBVIOUS
<1>4. SumFunction(g) = SumFunctionOnSet(g, S) /\ SumFunction(h) = SumFunctionOnSet(h, T)
  <2>1. DOMAIN g = S /\ DOMAIN h = T OBVIOUS
  <2> HIDE DEF g, h, S, T
  <2> QED BY <2>1, Zenon DEF SumFunction
<1> HIDE DEF S, T, g, h, x
<1>5. SumFunctionOnSet(h, S \union {x}) = SumFunctionOnSet(h, S) + h[x]
  BY <1>1, <1>2, <1>3, SumAdd
<1>6. SumFunctionOnSet(g, S) = SumFunctionOnSet(h, S) BY <1>1, <1>3, SumSame
<1>7. SumFunctionOnSet(g, S) \in Int BY <1>1, <1>3, SumRemove
<1>8. SumFunction(g) \in Int /\ SumFunction(h) = SumFunction(g) + f[x]
  BY <1>2, <1>3, <1>4, <1>5, <1>6, <1>7
<1> QED BY <1>8 DEF g, h, S, T, x

LEMMA SumOfNone ==
    ASSUME NEW f
    PROVE  SumFunction([i \in 1..0 |-> f[i]]) = 0
<1> DEFINE g == [i \in 1..0 |-> f[i]]
<1>1. DOMAIN g = {} OBVIOUS
<1> HIDE DEF g
<1>2. SumFunction(g) = SumFunctionOnSet(g, {}) BY <1>1, Zenon DEF SumFunction
<1> QED BY <1>2, SumEmpty DEF g

\* The sum of the first numbers and of those that follow them.
LEMMA SumOfNext ==
    ASSUME NEW f, NEW m \in Nat, \A i \in Nat \ {0} : f[i] \in Nat
    PROVE  \A n \in Nat :
             /\ SumFunction([i \in 1..m |-> f[i]]) \in Int
             /\ SumFunction([i \in 1..n |-> f[m + i]]) \in Nat
             /\ SumFunction([i \in 1..(m + n) |-> f[i]])
                  = SumFunction([i \in 1..m |-> f[i]]) + SumFunction([i \in 1..n |-> f[m + i]])
<1> DEFINE F(n) == SumFunction([i \in 1..n |-> f[i]])
           G(n) == SumFunction([i \in 1..n |-> f[m + i]])
           Adds(n) == F(m) \in Int /\ G(n) \in Nat /\ F(m + n) = F(m) + G(n)
           C == {n \in Nat : ~Adds(n)}
<1>1. ASSUME NEW n \in Nat PROVE F(n) \in Int /\ F(n + 1) = F(n) + f[n + 1]
  <2>1. \A i \in 1..(n + 1) : f[i] \in Int OBVIOUS
  <2> QED BY <2>1, SumOfFirst
<1>2. ASSUME NEW n \in Nat PROVE G(n) \in Int /\ G(n + 1) = G(n) + f[m + (n + 1)]
  <2> DEFINE h == [i \in 1..(n + 1) |-> f[m + i]]
  <2>1. \A i \in 1..(n + 1) : h[i] \in Int
    <3>1. \A i \in 1..(n + 1) : m + i \in Nat \ {0} OBVIOUS
    <3> QED BY <3>1
  <2>2. /\ [i \in 1..n |-> h[i]] = [i \in 1..n |-> f[m + i]]
        /\ [i \in 1..(n + 1) |-> h[i]] = [i \in 1..(n + 1) |-> f[m + i]]
        /\ h[n + 1] = f[m + (n + 1)]
    <3>1. \A i \in 1..n : i \in 1..(n + 1) OBVIOUS
    <3>2. n + 1 \in 1..(n + 1) OBVIOUS
    <3> QED BY <3>1, <3>2, Zenon
  <2> HIDE DEF h
  <2>3. /\ SumFunction([i \in 1..n |-> h[i]]) \in Int
        /\ SumFunction([i \in 1..(n + 1) |-> h[i]])
             = SumFunction([i \in 1..n |-> h[i]]) + h[n + 1]
    BY <2>1, SumOfFirst
  <2> QED BY <2>2, <2>3
<1>3. G(0) = 0
  <2> DEFINE h == [i \in 1..0 |-> f[m + i]]
  <2>1. h = [i \in 1..0 |-> h[i]] BY Zenon
  <2> HIDE DEF h
  <2>2. SumFunction(h) = 0 BY <2>1, SumOfNone
  <2> QED BY <2>2 DEF h
<1> HIDE DEF F, G
<1>4. ASSUME C # {} PROVE FALSE
  <2>1. PICK n \in C : \A k \in C : n <= k
    <3>1. C \subseteq Nat OBVIOUS
    <3> HIDE DEF C
    <3> QED BY <1>4, <3>1, LeastNumber
  <2>2. CASE n = 0
    <3>1. m + 0 = m OBVIOUS
    <3> QED BY <1>1, <1>3, <2>2, <3>1
  <2>3. CASE n # 0
    <3> DEFINE k == n - 1
    <3>1. k \in Nat /\ n = k + 1 /\ k < n /\ m + n = (m + k) + 1 /\ m + k \in Nat
          /\ m + (k + 1) = (m + k) + 1
      BY <2>3
    <3> HIDE DEF k
    <3>2. Adds(k)
      <4> HIDE DEF Adds
      <4> QED BY <2>1, <3>1
    <3>3. F((m + k) + 1) = F(m + k) + f[(m + k) + 1] BY <1>1, <3>1
    <3>4. G(k + 1) = G(k) + f[(m + k) + 1] BY <1>2, <3>1
    <3>5. f[(m + k) + 1] \in Nat
      <4>1. (m + k) + 1 \in Nat \ {0} BY <3>1
      <4> QED BY <4>1
    <3>6. Adds(n) BY <3>1, <3>2, <3>3, <3>4, <3>5
    <3> QED BY <3>6
  <2> QED BY <2>2, <2>3
<1>5. \A n \in Nat : Adds(n)
  <2> HIDE DEF Adds
  <2> QED BY <1>4
<1> QED BY <1>5, Zenon DEF F, G

\* The values of a step that is taken n times, beginning with s.
IsStepOn(step, S) == step \in [S \X Nat -> S]
IsIteration(u, step, s, n, S) ==
    /\ u \in [0..n -> S]
    /\ u[0] = s
    /\ \A i \in 1..n : u[i] = step[<<u[i - 1], i>>]

\* A step can be taken any number of times.
LEMMA IterationExists ==
    ASSUME NEW S, NEW s \in S, NEW step, IsStepOn(step, S)
    PROVE  \A n \in Nat : \E u : IsIteration(u, step, s, n, S)
<1>0. step \in [S \X Nat -> S] BY DEF IsStepOn
<1> DEFINE Has(n) == \E u \in [0..n -> S] :
                        u[0] = s /\ \A i \in 1..n : u[i] = step[<<u[i - 1], i>>]
           C == {n \in Nat : ~Has(n)}
<1> SUFFICES ASSUME C # {} PROVE FALSE
  <2>1. \A n \in Nat : Has(n) => \E u : IsIteration(u, step, s, n, S)
    BY Zenon DEF IsIteration
  <2> QED BY <2>1, Zenon
<1>1. PICK n \in C : \A m \in C : n <= m
  <2>1. C \subseteq Nat OBVIOUS
  <2> HIDE DEF C
  <2> QED BY <2>1, LeastNumber
<1>2. CASE n = 0
  <2> DEFINE u == [i \in 0..0 |-> s]
  <2>1. u \in [0..n -> S] /\ u[0] = s /\ \A i \in 1..n : u[i] = step[<<u[i - 1], i>>]
    BY <1>2
  <2> QED BY <2>1
<1>3. CASE n # 0
  <2>1. n - 1 \in Nat /\ n \in Nat BY <1>3
  <2>2. n - 1 \notin C
    <3> HIDE DEF C
    <3> QED BY <1>1, <2>1
  <2>3. Has(n - 1) BY <2>1, <2>2
  <2>4. PICK u \in [0..(n - 1) -> S] :
            u[0] = s /\ \A i \in 1..(n - 1) : u[i] = step[<<u[i - 1], i>>]
    BY <2>3
  <2> DEFINE next == step[<<u[n - 1], n>>]
             v == [i \in 0..n |-> IF i = n THEN next ELSE u[i]]
  <2>5. u[n - 1] \in S BY <2>1
  <2>6. next \in S BY <1>0, <2>1, <2>5
  <2>7. v \in [0..n -> S] BY <2>1, <2>6
  <2>8. v[0] = s BY <1>3, <2>1, <2>4
  <2>9. ASSUME NEW i \in 1..n PROVE v[i] = step[<<v[i - 1], i>>]
    <3>1. CASE i = n
      <4>1. n \in 0..n /\ n - 1 \in 0..n /\ n - 1 # n BY <2>1
      <4>2. v[n] = next /\ v[n - 1] = u[n - 1] BY <4>1, Zenon
      <4> QED BY <3>1, <4>2, Zenon
    <3>2. CASE i # n
      <4>1. i \in 1..(n - 1) /\ i \in 0..n /\ i - 1 \in 0..n /\ i - 1 # n BY <2>1, <3>2
      <4> QED BY <2>4, <3>2, <4>1
    <3> QED BY <3>1, <3>2
  <2>10. Has(n)
    <3> HIDE DEF v
    <3> QED BY <2>7, <2>8, <2>9
  <2> QED BY <2>10
<1> QED BY <1>2, <1>3

\* The natural numbers of a finite set have a bound.
LEMMA FiniteBound ==
    ASSUME NEW S, IsFiniteSet(S)
    PROVE  \E n \in Nat : \A s \in S : s \in Nat => s < n
<1> DEFINE C == {T \in SUBSET S : ~\E n \in Nat : \A s \in T : s \in Nat => s < n}
<1> SUFFICES ASSUME C # {} PROVE FALSE OBVIOUS
<1>1. PICK T \in C : \A U \in C : U \subseteq T => U = T
  <2> HIDE DEF C
  <2>1. C \subseteq SUBSET S BY DEF C
  <2> QED BY <2>1, SmallestSubset
<1>2. PICK x \in T : TRUE BY <1>1
<1>3. PICK n \in Nat : \A s \in T \ {x} : s \in Nat => s < n
  <2>1. T \ {x} \in SUBSET S /\ T \ {x} \subseteq T /\ T \ {x} # T BY <1>2
  <2> QED BY <1>1, <2>1, Zenon
<1>4. PICK m \in Nat : n <= m /\ (x \in Nat => x < m)
  <2>1. CASE x \in Nat
    <3>1. n + x + 1 \in Nat /\ n <= n + x + 1 /\ x < n + x + 1 BY <2>1
    <3> QED BY <3>1
  <2>2. CASE x \notin Nat BY <2>2
  <2> QED BY <2>1, <2>2
<1>5. ASSUME NEW s \in T, s \in Nat PROVE s < m BY <1>3, <1>4, <1>5
<1> QED BY <1>5

\* A finite set of numbers has a greatest one.
LEMMA GreatestNumber ==
    ASSUME NEW S, IsFiniteSet(S), S \subseteq Nat, S # {}
    PROVE  \E n \in S : \A m \in S : m <= n
<1> DEFINE C == {n \in Nat : \A s \in S : s <= n}
<1>1. C \subseteq Nat /\ C # {}
  <2>1. PICK n \in Nat : \A s \in S : s \in Nat => s < n BY FiniteBound
  <2>2. n \in C BY <2>1
  <2> QED BY <2>2
<1>2. PICK n \in C : \A m \in C : n <= m
  <2> HIDE DEF C
  <2> QED BY <1>1, LeastNumber
<1>3. ASSUME n \notin S PROVE FALSE
  <2>1. \A s \in S : s < n BY <1>3
  <2>2. n # 0
    <3>1. PICK s \in S : TRUE OBVIOUS
    <3> QED BY <2>1, <3>1
  <2>3. n - 1 \in C BY <2>1, <2>2
  <2> QED BY <1>2, <2>3
<1> QED BY <1>3
-----------------------------------------------------------------------------
(* Arithmetic *)

LEMMA NatClosed == \A a, b \in Nat : a * b \in Nat /\ a + b \in Nat
OBVIOUS

LEMMA ProductOrder ==
    ASSUME NEW a \in Int, NEW b \in Int, NEW n \in Nat, a <= b
    PROVE  a * n <= b * n
<1>1. (b - a) * n >= 0
  <2>1. b - a >= 0 OBVIOUS
  <2>2. \A x, y \in Nat : x * y >= 0 OBVIOUS
  <2> QED BY <2>1, <2>2
<1>2. (b - a) * n = b * n - a * n OBVIOUS
<1> QED BY <1>1, <1>2

\* A quotient and its rest, the only ones there are, and their order.
LEMMA Division ==
    ASSUME NEW a \in Int, NEW n \in Nat \ {0}
    PROVE  /\ a \div n \in Int
           /\ a % n \in 0..(n - 1)
           /\ a = (a \div n) * n + (a % n)
           /\ a >= 0 => a \div n >= 0
<1>1. a = n * (a \div n) + (a % n) OBVIOUS
<1> QED BY <1>1

LEMMA DivisionUnique ==
    ASSUME NEW a \in Int, NEW n \in Nat \ {0}, NEW q \in Int, NEW r \in 0..(n - 1),
           a = q * n + r
    PROVE  a \div n = q /\ a % n = r
<1> DEFINE d == a \div n
           m == a % n
<1>1. d \in Int /\ m \in 0..(n - 1) /\ a = d * n + m BY Division
<1> HIDE DEF d, m
<1>2. ~(d < q)
  <2>1. d < q => (d + 1) * n <= q * n BY <1>1, ProductOrder
  <2>2. (d + 1) * n = d * n + n BY <1>1
  <2>3. d * n \in Int /\ q * n \in Int BY <1>1
  <2> QED BY <1>1, <2>1, <2>2, <2>3
<1>3. ~(q < d)
  <2>1. q < d => (q + 1) * n <= d * n BY <1>1, ProductOrder
  <2>2. (q + 1) * n = q * n + n OBVIOUS
  <2>3. d * n \in Int /\ q * n \in Int BY <1>1
  <2> QED BY <1>1, <2>1, <2>2, <2>3
<1>4. d = q BY <1>1, <1>2, <1>3
<1>5. m = r
  <2>1. q * n \in Int OBVIOUS
  <2> QED BY <1>1, <1>4, <2>1
<1> QED BY <1>4, <1>5 DEF d, m

LEMMA DivisionOrder ==
    ASSUME NEW a \in Int, NEW b \in Int, NEW n \in Nat \ {0}, a <= b
    PROVE  a \div n <= b \div n
<1> DEFINE d == a \div n
           e == b \div n
           k == a % n
           m == b % n
<1>1. /\ d \in Int /\ k \in 0..(n - 1) /\ a = d * n + k
      /\ e \in Int /\ m \in 0..(n - 1) /\ b = e * n + m
  BY Division
<1> HIDE DEF d, e, k, m
<1>2. e < d => (e + 1) * n <= d * n BY <1>1, ProductOrder
<1>3. (e + 1) * n = e * n + n BY <1>1
<1>4. d * n \in Int /\ e * n \in Int BY <1>1
<1>5. ~(e < d) BY <1>1, <1>2, <1>3, <1>4
<1> QED BY <1>1, <1>5 DEF d, e

-----------------------------------------------------------------------------
(* Folds over a finite set. *)

\* What the empty set has, and every other set that gets it from one of its members,
\* all subsets have.
LEMMA SubsetInduction ==
    ASSUME NEW S, IsFiniteSet(S), NEW Good, {} \in Good,
           \A T \in SUBSET S : T # {} => \E x \in T : T \ {x} \in Good => T \in Good
    PROVE  \A T \in SUBSET S : T \in Good
<1> DEFINE C == (SUBSET S) \ Good
<1> SUFFICES ASSUME C # {} PROVE FALSE OBVIOUS
<1>1. PICK T \in C : \A U \in C : U \subseteq T => U = T
  <2>1. C \subseteq SUBSET S OBVIOUS
  <2> HIDE DEF C
  <2> QED BY <2>1, SmallestSubset
<1>2. PICK x \in T : T \ {x} \in Good => T \in Good OBVIOUS
<1>3. T \ {x} \in SUBSET S /\ T \ {x} # T OBVIOUS
<1> QED BY <1>1, <1>2, <1>3

FoldStep(base, step, pick, c, T) ==
    IF T = {} THEN base ELSE step[<<c[T \ {pick[T]}], pick[T]>>]

IsFoldStep(step, A, S) == step \in [A \X S -> A]

IsFold(base, step, pick, A, S, c) ==
    c \in [SUBSET S -> A] /\ \A T \in SUBSET S : c[T] = FoldStep(base, step, pick, c, T)

\* A step that is taken for the members of a set, in the order of pick, has a value
\* for every subset.
LEMMA SetFoldExists ==
    ASSUME NEW S, IsFiniteSet(S), NEW A, NEW base \in A, NEW step, IsFoldStep(step, A, S),
           NEW pick, \A T \in SUBSET S : T # {} => pick[T] \in T
    PROVE  \E c : IsFold(base, step, pick, A, S, c)
<1>0. step \in [A \X S -> A] BY DEF IsFoldStep
<1> SUFFICES \E c \in [SUBSET S -> A] :
                \A T \in SUBSET S : c[T] = FoldStep(base, step, pick, c, T)
  BY Zenon DEF IsFold
<1> DEFINE Sub(n) == {T \in SUBSET S : Cardinality(T) <= n}
           Has(n) == \E c \in [Sub(n) -> A] :
                        \A T \in Sub(n) : c[T] = FoldStep(base, step, pick, c, T)
           C == {n \in Nat : ~Has(n)}
<1>1. \A T \in SUBSET S : IsFiniteSet(T) /\ Cardinality(T) \in Nat /\ (Cardinality(T) = 0 <=> T = {})
  BY FS_Subset, FS_CardinalityType, FS_EmptySet
<1>2. ASSUME NEW T \in SUBSET S, T # {}
      PROVE  /\ T \ {pick[T]} \in SUBSET S
             /\ Cardinality(T \ {pick[T]}) = Cardinality(T) - 1
  BY <1>1, <1>2, FS_RemoveElement
<1>3. ASSUME C # {} PROVE FALSE
  <2>1. PICK n \in C : \A m \in C : n <= m
    <3>1. C \subseteq Nat OBVIOUS
    <3> HIDE DEF C
    <3> QED BY <1>3, <3>1, LeastNumber
  <2>2. CASE n = 0
    <3> DEFINE c == [T \in Sub(n) |-> base]
    <3>1. \A T \in Sub(n) : T = {} BY <1>1, <2>2
    <3>2. c \in [Sub(n) -> A] OBVIOUS
    <3>3. ASSUME NEW T \in Sub(n) PROVE c[T] = FoldStep(base, step, pick, c, T)
      BY <3>1 DEF FoldStep
    <3> HIDE DEF c
    <3>4. Has(n) BY <3>2, <3>3
    <3> QED BY <3>4
  <2>3. CASE n # 0
    <3> DEFINE k == n - 1
    <3>1. k \in Nat /\ n = k + 1 BY <2>3
    <3>2. k \notin C
      <4> HIDE DEF C
      <4> QED BY <2>1, <3>1
    <3> HIDE DEF k
    <3>3. Has(k) BY <3>1, <3>2
    <3>4. PICK d \in [Sub(k) -> A] :
              \A T \in Sub(k) : d[T] = FoldStep(base, step, pick, d, T)
      BY <3>3
    <3> DEFINE rest(T) == T \ {pick[T]}
               c == [T \in Sub(n) |->
                       IF T \in Sub(k) THEN d[T] ELSE step[<<d[rest(T)], pick[T]>>]]
    <3>5. ASSUME NEW T \in Sub(n), T # {} PROVE rest(T) \in Sub(k) /\ pick[T] \in S
      <4>1. Cardinality(T) <= n /\ Cardinality(T) \in Nat BY <1>1
      <4>2. Cardinality(rest(T)) <= k BY <1>2, <3>1, <3>5, <4>1
      <4> QED BY <1>2, <3>5, <4>2
    <3>6. Sub(k) \subseteq Sub(n) BY <1>1, <3>1
    <3>7. {} \in Sub(k) BY <1>1, <3>1
    <3>8. c \in [Sub(n) -> A]
      <4>1. ASSUME NEW T \in Sub(n) PROVE c[T] \in A
        <5>1. CASE T \in Sub(k) BY <5>1
        <5>2. CASE T \notin Sub(k)
          <6>1. T # {} BY <3>7, <5>2
          <6>2. rest(T) \in Sub(k) /\ pick[T] \in S BY <3>5, <6>1
          <6>3. <<d[rest(T)], pick[T]>> \in A \X S BY <6>2
          <6>4. c[T] = step[<<d[rest(T)], pick[T]>>] BY <5>2, Zenon
          <6> QED BY <1>0, <6>3, <6>4
        <5> QED BY <5>1, <5>2
      <4> QED BY <4>1
    <3>9. ASSUME NEW T \in Sub(n) PROVE c[T] = FoldStep(base, step, pick, c, T)
      <4>1. CASE T = {}
        <5>1. c[T] = d[T] BY <3>7, <4>1, Zenon
        <5>2. d[T] = FoldStep(base, step, pick, d, T) BY <3>4, <3>7, <4>1, Zenon
        <5> QED BY <4>1, <5>1, <5>2, Zenon DEF FoldStep
      <4>2. CASE T # {}
        <5>1. rest(T) \in Sub(k) /\ rest(T) \in Sub(n) BY <3>5, <3>6, <4>2
        <5>2. c[rest(T)] = d[rest(T)] BY <5>1, Zenon
        <5>3. FoldStep(base, step, pick, c, T) = step[<<d[rest(T)], pick[T]>>]
          BY <4>2, <5>2, Zenon DEF FoldStep
        <5>4. CASE T \in Sub(k)
          <6>1. c[T] = d[T] BY <5>4, Zenon
          <6>2. d[T] = FoldStep(base, step, pick, d, T) BY <3>4, <5>4, Zenon
          <6>3. d[T] = step[<<d[rest(T)], pick[T]>>] BY <4>2, <6>2, Zenon DEF FoldStep
          <6> QED BY <5>3, <6>1, <6>3, Zenon
        <5>5. CASE T \notin Sub(k)
          <6>1. c[T] = step[<<d[rest(T)], pick[T]>>] BY <5>5, Zenon
          <6> QED BY <5>3, <6>1, Zenon
        <5> QED BY <5>4, <5>5
      <4> QED BY <4>1, <4>2
    <3> HIDE DEF c
    <3>10. Has(n) BY <3>8, <3>9
    <3> QED BY <3>10
  <2> QED BY <2>2, <2>3
<1>4. Cardinality(S) \in Nat /\ Sub(Cardinality(S)) = SUBSET S
  <2>1. Cardinality(S) \in Nat BY <1>1
  <2>2. \A T \in SUBSET S : Cardinality(T) <= Cardinality(S) BY FS_Subset
  <2> QED BY <2>1, <2>2
<1>5. Has(Cardinality(S))
  <2>1. \A n \in Nat : Has(n)
    <3> HIDE DEF Has
    <3> QED BY <1>3
  <2> HIDE DEF Has
  <2> QED BY <1>4, <2>1
<1> HIDE DEF Sub
<1> QED BY <1>4, <1>5, Zenon

-----------------------------------------------------------------------------
(* Greatest and smallest, sums over pairs, bags. *)

LEMMA MaxOf ==
    ASSUME NEW S, IsFiniteSet(S), S \subseteq Nat, S # {}
    PROVE  Max(S) \in S /\ Max(S) \in Nat /\ \A x \in S : x <= Max(S)
<1>1. \E n \in S : \A m \in S : m <= n BY GreatestNumber
<1>2. \E n \in S : \A m \in S : n >= m BY <1>1
<1> QED BY <1>2 DEF Max

LEMMA MaxOfTwo ==
    ASSUME NEW a \in Int, NEW b \in Int
    PROVE  Max({a, b}) = IF a >= b THEN a ELSE b
<1>1. CASE a >= b
  <2>1. a \in {a, b} /\ \A y \in {a, b} : a >= y BY <1>1
  <2>2. \A x \in {a, b} : (\A y \in {a, b} : x >= y) => x = a BY <1>1
  <2> QED BY <1>1, <2>1, <2>2 DEF Max
<1>2. CASE ~(a >= b)
  <2>1. b \in {a, b} /\ \A y \in {a, b} : b >= y BY <1>2
  <2>2. \A x \in {a, b} : (\A y \in {a, b} : x >= y) => x = b BY <1>2
  <2> QED BY <1>2, <2>1, <2>2 DEF Max
<1> QED BY <1>1, <1>2

LEMMA MinOfTwo ==
    ASSUME NEW a \in Nat, NEW b \in Nat
    PROVE  /\ Min({a, b}) \in Nat /\ Min({a, b}) <= a /\ Min({a, b}) <= b
           /\ Min({a, b}) = IF a <= b THEN a ELSE b
<1>1. Min({a, b}) = IF a <= b THEN a ELSE b BY DEF Min
<1> QED BY <1>1

\* A sum does not shrink with what is added up.
LEMMA SumOrder ==
    ASSUME NEW f, NEW g, NEW S, IsFiniteSet(S),
           \A s \in S : f[s] \in Nat /\ g[s] \in Nat /\ f[s] <= g[s]
    PROVE  SumFunctionOnSet(f, S) <= SumFunctionOnSet(g, S)
<1> DEFINE h == [s \in S |-> g[s] - f[s]]
<1>1. \A s \in S : h[s] \in Nat /\ f[s] \in Int /\ h[s] \in Int /\ g[s] = f[s] + h[s] OBVIOUS
<1> HIDE DEF h
<1>2. SumFunctionOnSet(g, S) = SumFunctionOnSet(f, S) + SumFunctionOnSet(h, S) BY <1>1, SumPlus
<1>3. SumFunctionOnSet(h, S) \in Nat BY <1>1, SumNat
<1>4. SumFunctionOnSet(f, S) \in Nat BY SumNat
<1> QED BY <1>2, <1>3, <1>4

IsRow(f, c, D, g) == \A d \in D : g[d] \in Int /\ g[d] = f[<<c, d>>]

\* A sum over pairs is a sum of sums.
LEMMA SumOfRow ==
    ASSUME NEW f, NEW c, NEW D, IsFiniteSet(D), NEW g, NEW row, row = {c} \X D,
           IsRow(f, c, D, g)
    PROVE  SumFunctionOnSet(f, row) = SumFunctionOnSet(g, D)
<1>0. \A d \in D : g[d] \in Int /\ g[d] = f[<<c, d>>] BY DEF IsRow
<1> DEFINE Good == {T \in SUBSET D : SumFunctionOnSet(f, {c} \X T) = SumFunctionOnSet(g, T)}
<1>1. {} \in Good
  <2>1. {c} \X {} = {} OBVIOUS
  <2>2. SumFunctionOnSet(f, {}) = 0 /\ SumFunctionOnSet(g, {}) = 0 BY SumEmpty, Zenon
  <2>3. SumFunctionOnSet(f, {c} \X {}) = SumFunctionOnSet(g, {}) BY <2>1, <2>2
  <2> QED BY <2>3
<1>2. ASSUME NEW T \in SUBSET D, T # {}
      PROVE  \E x \in T : T \ {x} \in Good => T \in Good
  <2>1. PICK x \in T : TRUE BY <1>2
  <2>2. SUFFICES ASSUME T \ {x} \in Good PROVE T \in Good BY <2>1
  <2> DEFINE R == T \ {x}
             P == {c} \X R
             y == <<c, x>>
  <2>3. IsFiniteSet(T) /\ IsFiniteSet(R) BY FS_Subset
  <2>4. IsFiniteSet(P)
    <3>1. IsFiniteSet({c}) BY FS_Singleton
    <3> HIDE DEF R
    <3> QED BY <2>3, <3>1, FS_Product
  <2>5. P \union {y} = {c} \X T /\ y \notin P /\ R \union {x} = T /\ x \notin R OBVIOUS
  <2>6. f[y] \in Int /\ g[x] = f[y] /\ (\A p \in P : f[p] \in Int) /\ \A r \in R : g[r] \in Int
    <3>1. \A p \in P : \E d \in D : p = <<c, d>> OBVIOUS
    <3>2. \A p \in P : f[p] \in Int BY <1>0, <3>1
    <3>3. f[y] \in Int /\ g[x] = f[y] BY <1>0
    <3>4. \A r \in R : g[r] \in Int BY <1>0
    <3> QED BY <3>2, <3>3, <3>4
  <2>7. SumFunctionOnSet(f, P) = SumFunctionOnSet(g, R) BY <2>2
  <2> HIDE DEF P, R, y
  <2>8. SumFunctionOnSet(f, P \union {y}) = SumFunctionOnSet(f, P) + f[y] BY <2>4, <2>5, <2>6, SumAdd
  <2>9. SumFunctionOnSet(g, R \union {x}) = SumFunctionOnSet(g, R) + g[x] BY <2>3, <2>5, <2>6, SumAdd
  <2> QED BY <2>5, <2>6, <2>7, <2>8, <2>9
<1>3. \A T \in SUBSET D : T \in Good
  <2> HIDE DEF Good
  <2> QED BY <1>1, <1>2, SubsetInduction
<1> QED BY <1>3

AreRows(f, row, C, D) == \A c \in C : \A d \in D : row[c][d] \in Int /\ row[c][d] = f[<<c, d>>]
AreSums(g, row, C, D) == \A c \in C : g[c] = SumFunctionOnSet(row[c], D)

LEMMA SumOfPairs ==
    ASSUME NEW f, NEW C, IsFiniteSet(C), NEW D, IsFiniteSet(D), NEW row,
           AreRows(f, row, C, D), NEW g, AreSums(g, row, C, D), NEW S, S = C \X D
    PROVE  SumFunctionOnSet(f, S) = SumFunctionOnSet(g, C)
<1>0. /\ \A c \in C : \A d \in D : row[c][d] \in Int /\ row[c][d] = f[<<c, d>>]
      /\ \A c \in C : g[c] = SumFunctionOnSet(row[c], D)
  BY DEF AreRows, AreSums
<1> DEFINE Good == {T \in SUBSET C : SumFunctionOnSet(f, T \X D) = SumFunctionOnSet(g, T)}
<1>1. {} \in Good
  <2>1. {} \X D = {} OBVIOUS
  <2>2. SumFunctionOnSet(f, {}) = 0 /\ SumFunctionOnSet(g, {}) = 0 BY SumEmpty, Zenon
  <2> QED BY <2>1, <2>2
<1>2. \A c \in C : g[c] \in Int /\ g[c] = SumFunctionOnSet(f, {c} \X D)
  <2>1. ASSUME NEW c \in C, NEW h, h = row[c], NEW pairs, pairs = {c} \X D
        PROVE  g[c] \in Int /\ g[c] = SumFunctionOnSet(f, pairs)
    <3>1. \A d \in D : h[d] \in Int /\ h[d] = f[<<c, d>>] BY <1>0, <2>1
    <3>2. SumFunctionOnSet(f, pairs) = SumFunctionOnSet(h, D)
      <4>1. IsRow(f, c, D, h) BY <3>1 DEF IsRow
      <4> QED BY ONLY pairs = {c} \X D, <4>1, IsFiniteSet(D), SumOfRow
    <3>3. SumFunctionOnSet(h, D) \in Int BY <3>1, SumRemove
    <3>4. g[c] = SumFunctionOnSet(h, D) BY <1>0, <2>1
    <3> QED BY <3>2, <3>3, <3>4
  <2> QED BY <2>1
<1>3. ASSUME NEW T \in SUBSET C, T # {}
      PROVE  \E x \in T : T \ {x} \in Good => T \in Good
  <2>1. PICK x \in T : TRUE BY <1>3
  <2>2. SUFFICES ASSUME T \ {x} \in Good PROVE T \in Good BY <2>1
  <2> DEFINE R == T \ {x}
             P == R \X D
             Q == {x} \X D
  <2>3. IsFiniteSet(T) /\ IsFiniteSet(R) BY FS_Subset
  <2>4. IsFiniteSet(P) /\ IsFiniteSet(Q)
    <3>1. IsFiniteSet({x}) BY FS_Singleton
    <3> HIDE DEF R
    <3> QED BY <2>3, <3>1, FS_Product
  <2>5. P \union Q = T \X D /\ P \intersect Q = {} /\ R \union {x} = T /\ x \notin R OBVIOUS
  <2>6. (\A p \in P \union Q : f[p] \in Int) /\ \A r \in R : g[r] \in Int
    <3>1. \A p \in P \union Q : \E c \in C, d \in D : p = <<c, d>> OBVIOUS
    <3>2. \A p \in P \union Q : f[p] \in Int BY <1>0, <3>1
    <3> QED BY <1>2, <3>2
  <2>7. SumFunctionOnSet(f, P) = SumFunctionOnSet(g, R) BY <2>2
  <2>8. g[x] = SumFunctionOnSet(f, Q) /\ g[x] \in Int BY <1>2
  <2> HIDE DEF P, Q, R
  <2>9. SumFunctionOnSet(f, P \union Q) = SumFunctionOnSet(f, P) + SumFunctionOnSet(f, Q)
    BY <2>4, <2>5, <2>6, SumOfBoth
  <2>10. SumFunctionOnSet(g, R \union {x}) = SumFunctionOnSet(g, R) + g[x]
    BY <2>3, <2>5, <2>6, <2>8, SumAdd
  <2> QED BY <2>5, <2>7, <2>8, <2>9, <2>10
<1>4. \A T \in SUBSET C : T \in Good
  <2> HIDE DEF Good
  <2> QED BY <1>1, <1>3, SubsetInduction
<1> QED BY <1>4

\* New members of a bag in which everything is once are in it once.
LEMMA BagOnce ==
    ASSUME NEW bag, NEW S, S \intersect DOMAIN bag = {}, \A x \in DOMAIN bag : bag[x] = 1
    PROVE  /\ DOMAIN (bag (+) SetToBag(S)) = DOMAIN bag \union S
           /\ \A x \in DOMAIN bag \union S : (bag (+) SetToBag(S))[x] = 1
BY DEF (+), SetToBag

-----------------------------------------------------------------------------
(* Sums of few numbers, sums over images. *)

\* A sum of what is one number for some of the members and another one for the rest.
LEMMA SumOfEqual ==
    ASSUME NEW f, NEW S, IsFiniteSet(S), NEW q \in Nat, \A s \in S : f[s] = q
    PROVE  SumFunctionOnSet(f, S) = Cardinality(S) * q
<1> DEFINE Good == {T \in SUBSET S : SumFunctionOnSet(f, T) = Cardinality(T) * q}
<1>1. {} \in Good BY SumEmpty, FS_EmptySet
<1>2. ASSUME NEW T \in SUBSET S, T # {}
      PROVE  \E x \in T : T \ {x} \in Good => T \in Good
  <2>1. PICK x \in T : TRUE BY <1>2
  <2> DEFINE R == T \ {x}
             n == Cardinality(R)
  <2>2. SUFFICES ASSUME R \in Good PROVE T \in Good BY <2>1
  <2>3. IsFiniteSet(T) /\ IsFiniteSet(R) BY FS_Subset
  <2>4. n \in Nat /\ Cardinality(T) = n + 1
    <3>1. n = Cardinality(T) - 1 BY <2>1, <2>3, FS_RemoveElement
    <3>2. n \in Nat /\ Cardinality(T) \in Nat BY <2>3, FS_CardinalityType
    <3> QED BY <3>1, <3>2
  <2>5. SumFunctionOnSet(f, R) = n * q BY <2>2
  <2>6. R \union {x} = T /\ x \notin R /\ f[x] = q /\ f[x] \in Int /\ \A r \in R : f[r] \in Int
    BY <2>1
  <2> HIDE DEF R, n
  <2>7. SumFunctionOnSet(f, R \union {x}) = SumFunctionOnSet(f, R) + f[x]
    BY <2>3, <2>6, SumAdd
  <2>8. SumFunctionOnSet(f, T) = n * q + q BY <2>5, <2>6, <2>7
  <2>9. (n + 1) * q = n * q + q BY <2>4
  <2> QED BY <2>4, <2>8, <2>9
<1>3. \A T \in SUBSET S : T \in Good
  <2> HIDE DEF Good
  <2> QED BY <1>1, <1>2, SubsetInduction
<1> QED BY <1>3

LEMMA SumOfTwo ==
    ASSUME NEW f, NEW S, IsFiniteSet(S), NEW A \in SUBSET S, NEW p \in Nat, NEW q \in Nat,
           \A s \in S : f[s] = IF s \in A THEN p ELSE q
    PROVE  SumFunctionOnSet(f, S) = Cardinality(A) * p + Cardinality(S \ A) * q
<1> DEFINE B == S \ A
<1>1. IsFiniteSet(A) /\ IsFiniteSet(B) BY FS_Subset
<1>2. A \union B = S /\ A \intersect B = {} OBVIOUS
<1>3. (\A s \in A : f[s] = p) /\ (\A s \in B : f[s] = q) OBVIOUS
<1>4. \A s \in A \union B : f[s] \in Int BY <1>2
<1> HIDE DEF B
<1>5. SumFunctionOnSet(f, A \union B) = SumFunctionOnSet(f, A) + SumFunctionOnSet(f, B)
  BY <1>1, <1>2, <1>4, SumOfBoth
<1>6. SumFunctionOnSet(f, A) = Cardinality(A) * p BY <1>1, <1>3, SumOfEqual
<1>7. SumFunctionOnSet(f, B) = Cardinality(B) * q BY <1>1, <1>3, SumOfEqual
<1> QED BY <1>2, <1>5, <1>6, <1>7 DEF B

\* A sum over what the members of a set are sent to, each to one of its own.
LEMMA SumOfImage ==
    ASSUME NEW S, IsFiniteSet(S), NEW h, \A x, y \in S : h[x] = h[y] => x = y,
           NEW f, NEW g, \A x \in S : g[x] \in Int /\ f[h[x]] = g[x],
           NEW T, T = {h[x] : x \in S}
    PROVE  SumFunctionOnSet(f, T) = SumFunctionOnSet(g, S)
<1> DEFINE Image(R) == {h[x] : x \in R}
           Good == {R \in SUBSET S : SumFunctionOnSet(f, Image(R)) = SumFunctionOnSet(g, R)}
<1>1. {} \in Good
  <2>1. Image({}) = {} OBVIOUS
  <2>2. SumFunctionOnSet(f, {}) = 0 /\ SumFunctionOnSet(g, {}) = 0 BY SumEmpty, Zenon
  <2>3. SumFunctionOnSet(f, Image({})) = SumFunctionOnSet(g, {}) BY <2>1, <2>2
  <2> QED BY <2>3
<1>2. ASSUME NEW U \in SUBSET S, U # {}
      PROVE  \E x \in U : U \ {x} \in Good => U \in Good
  <2>1. PICK x \in U : TRUE BY <1>2
  <2> DEFINE R == U \ {x}
             P == Image(R)
             y == h[x]
  <2>2. SUFFICES ASSUME R \in Good PROVE U \in Good BY <2>1
  <2>3. IsFiniteSet(U) /\ IsFiniteSet(R) BY FS_Subset
  <2>4. IsFiniteSet(P) BY <2>3, FiniteImage
  <2>5. P \union {y} = Image(U) /\ R \union {x} = U /\ x \notin R BY <2>1
  <2>6. y \notin P BY <2>1
  <2>7. (\A p \in P : f[p] \in Int) /\ f[y] = g[x] /\ f[y] \in Int /\ \A r \in R : g[r] \in Int
    <3>1. \A r \in R : g[r] \in Int /\ f[h[r]] \in Int OBVIOUS
    <3>2. \A p \in P : f[p] \in Int BY <3>1
    <3>3. f[y] = g[x] /\ f[y] \in Int BY <2>1
    <3> QED BY <3>1, <3>2, <3>3
  <2>8. SumFunctionOnSet(f, P) = SumFunctionOnSet(g, R) BY <2>2
  <2> HIDE DEF R, P, y, Image
  <2>9. SumFunctionOnSet(f, P \union {y}) = SumFunctionOnSet(f, P) + f[y]
    BY <2>4, <2>6, <2>7, SumAdd
  <2>10. SumFunctionOnSet(g, R \union {x}) = SumFunctionOnSet(g, R) + g[x]
    BY <2>3, <2>5, <2>7, SumAdd
  <2>11. SumFunctionOnSet(f, Image(U)) = SumFunctionOnSet(g, U) BY <2>5, <2>7, <2>8, <2>9, <2>10
  <2> QED BY <2>11
<1>3. \A U \in SUBSET S : U \in Good
  <2> HIDE DEF Good
  <2> QED BY <1>1, <1>2, SubsetInduction
<1>4. S \in Good BY <1>3
<1> QED BY <1>4

-----------------------------------------------------------------------------
(* Ranks: how many members of a set of numbers are less than one of them. *)

RankIn(S, i) == Cardinality({j \in S : j < i})

LEMMA RankIs ==
    ASSUME NEW S, IsFiniteSet(S), S \subseteq Nat
    PROVE  /\ \A i \in S : RankIn(S, i) \in 0..(Cardinality(S) - 1)
           /\ \A i, k \in S : i < k => RankIn(S, i) < RankIn(S, k)
<1> DEFINE Below(i) == {j \in S : j < i}
<1>1. \A i : IsFiniteSet(Below(i)) /\ Cardinality(Below(i)) \in Nat
  <2> TAKE i
  <2>1. Below(i) \in SUBSET S OBVIOUS
  <2> HIDE DEF Below
  <2>2. IsFiniteSet(Below(i)) BY <2>1, FS_Subset
  <2> QED BY <2>2, FS_CardinalityType
<1>2. Cardinality(S) \in Nat BY FS_CardinalityType
<1>3. ASSUME NEW i \in S PROVE Cardinality(Below(i)) < Cardinality(S)
  <2>1. Below(i) \in SUBSET S /\ i \notin Below(i) OBVIOUS
  <2>2. Below(i) # S BY <2>1
  <2> HIDE DEF Below
  <2>3. Cardinality(Below(i)) <= Cardinality(S) /\ Cardinality(Below(i)) # Cardinality(S)
    BY <2>1, <2>2, FS_Subset
  <2> QED BY <1>1, <1>2, <2>3
<1>4. ASSUME NEW i \in S, NEW k \in S, i < k
      PROVE  Cardinality(Below(i)) < Cardinality(Below(k))
  <2>1. Below(i) \in SUBSET Below(k)
    <3>1. \A j \in S : j < i => j < k BY <1>4
    <3> QED BY <3>1
  <2>2. i \in Below(k) /\ i \notin Below(i) BY <1>4
  <2> HIDE DEF Below
  <2>3. Below(i) # Below(k) BY <2>2
  <2>4. /\ Cardinality(Below(i)) <= Cardinality(Below(k))
        /\ Cardinality(Below(i)) # Cardinality(Below(k))
    BY <1>1, <2>1, <2>3, FS_Subset
  <2> QED BY <1>1, <2>4
<1>5. \A i : RankIn(S, i) = Cardinality(Below(i)) BY DEF RankIn
<1> HIDE DEF Below
<1> QED BY <1>1, <1>2, <1>3, <1>4, <1>5

\* As many members have a lower rank as there are lower ranks.
LEMMA RanksBelow ==
    ASSUME NEW S, IsFiniteSet(S), S \subseteq Nat, NEW r \in Nat, r <= Cardinality(S)
    PROVE  Cardinality({i \in S : RankIn(S, i) < r}) = r
<1> DEFINE n == Cardinality(S)
           F == {i \in S : RankIn(S, i) < r}
           G == S \ F
           low == [i \in F |-> RankIn(S, i)]
           high == [i \in G |-> RankIn(S, i)]
<1>1. n \in Nat BY FS_CardinalityType
<1>2. \A i \in S : RankIn(S, i) \in 0..(n - 1) BY RankIs
<1>3. \A i, k \in S : RankIn(S, i) = RankIn(S, k) => i = k
  <2> TAKE i, k \in S
  <2> HAVE RankIn(S, i) = RankIn(S, k)
  <2>1. i < k => RankIn(S, i) < RankIn(S, k) BY RankIs
  <2>2. k < i => RankIn(S, k) < RankIn(S, i) BY RankIs
  <2>3. RankIn(S, i) \in Nat /\ RankIn(S, k) \in Nat BY <1>1, <1>2
  <2>4. i \in Nat /\ k \in Nat OBVIOUS
  <2> QED BY <2>1, <2>2, <2>3, <2>4
<1>4. low \in Injection(F, 0..(r - 1))
  <2>1. \A i \in F : RankIn(S, i) \in 0..(r - 1) BY <1>1, <1>2
  <2>2. low \in [F -> 0..(r - 1)] BY <2>1
  <2>3. \A a, b \in F : low[a] = low[b] => a = b BY <1>3
  <2> HIDE DEF low, F
  <2> QED BY <2>2, <2>3 DEF Injection, IsInjective
<1>5. high \in Injection(G, r..(n - 1))
  <2>1. \A i \in G : RankIn(S, i) \in r..(n - 1) BY <1>1, <1>2
  <2>2. high \in [G -> r..(n - 1)] BY <2>1
  <2>3. \A a, b \in G : high[a] = high[b] => a = b BY <1>3
  <2> HIDE DEF high, G
  <2> QED BY <2>2, <2>3 DEF Injection, IsInjective
<1>6. F \in SUBSET S /\ G = S \ F OBVIOUS
<1> HIDE DEF F, G, low, high
<1>7. /\ IsFiniteSet(0..(r - 1)) /\ Cardinality(0..(r - 1)) = r
      /\ IsFiniteSet(r..(n - 1)) /\ Cardinality(r..(n - 1)) = n - r
  <2>1. r <= n OBVIOUS
  <2> HIDE DEF n
  <2>2. IsFiniteSet(0..(r - 1)) /\ IsFiniteSet(r..(n - 1)) BY <1>1, FS_Interval
  <2>3. Cardinality(0..(r - 1)) = r
    <3>1. Cardinality(0..(r - 1)) = IF 0 > r - 1 THEN 0 ELSE (r - 1) - 0 + 1 BY FS_Interval
    <3> QED BY <3>1
  <2>4. Cardinality(r..(n - 1)) = n - r
    <3>1. Cardinality(r..(n - 1)) = IF r > n - 1 THEN 0 ELSE (n - 1) - r + 1
      BY <1>1, FS_Interval
    <3> QED BY <1>1, <2>1, <3>1
  <2> QED BY <2>2, <2>3, <2>4
<1>8. Cardinality(F) <= r BY <1>4, <1>7, FS_Injection
<1>9. Cardinality(G) <= n - r BY <1>5, <1>7, FS_Injection
<1>10. /\ Cardinality(F) \in Nat /\ Cardinality(G) \in Nat
       /\ Cardinality(F) + Cardinality(G) = n
  <2>1. IsFiniteSet(F) /\ IsFiniteSet(G) BY <1>6, FS_Subset
  <2>2. F \union G = S /\ F \intersect G = {} BY <1>6
  <2>3. Cardinality(F) \in Nat /\ Cardinality(G) \in Nat BY <2>1, FS_CardinalityType
  <2>4. Cardinality(F \union G) = Cardinality(F) + Cardinality(G) - Cardinality(F \intersect G)
    BY <2>1, FS_Union
  <2>5. Cardinality(F \intersect G) = 0 BY <2>2, FS_EmptySet
  <2>6. Cardinality(F \union G) = n BY <2>2
  <2> HIDE DEF n
  <2> QED BY <2>3, <2>4, <2>5, <2>6
<1>11. Cardinality(F) = r
  <2> HIDE DEF n
  <2> QED BY <1>1, <1>8, <1>9, <1>10
<1> QED BY <1>11 DEF F

\* A sequence has no more members than it is long.
LEMMA RangeIsFinite ==
    ASSUME NEW S, NEW s \in Seq(S)
    PROVE  /\ IsFiniteSet(Range(s)) /\ Range(s) \subseteq S
           /\ Cardinality(Range(s)) <= Len(s)
<1>1. Len(s) \in Nat /\ DOMAIN s = 1..Len(s) /\ s \in [1..Len(s) -> S]
  BY LenProperties
<1>2. IsFiniteSet(1..Len(s)) /\ Cardinality(1..Len(s)) = Len(s) BY <1>1, FS_Interval
<1>3. Range(s) \subseteq S BY <1>1 DEF Range
<1>4. s \in Surjection(1..Len(s), Range(s)) BY <1>1 DEF Surjection, Range
<1> QED BY <1>2, <1>3, <1>4, FS_Surjection
=============================================================================
