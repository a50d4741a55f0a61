---------------------------- MODULE GachaProofs -----------------------------
(***************************************************************************)
(* A gacha counts what it gives, for any gachas, buttons, rates, wish      *)
(* lists and cards: its steps are played in order, every card drawn is a   *)
(* copy the account has, and what a list adds to one card of a rate the    *)
(* others of that rate give.                                               *)
(*                                                                         *)
(* What may be executed next is read from a count that other executions,   *)
(* of buttons and of steps, leave behind; the invariant is that the count  *)
(* kept for the steps of a gacha is the number of steps played.  What an   *)
(* account has is compared with the cards drawn card by card, also within  *)
(* an execution.                                                           *)
(***************************************************************************)
EXTENDS Gacha, DataTheorems

-----------------------------------------------------------------------------
(* The steps and the list. *)

StepsCounted ==
    /\ talkClears \in Nat
    /\ tutorial \in {MemoriaEquipped, GachaComplete}
    /\ DOMAIN wishes = GachaIds
    /\ counts \in [GachaIds \X (ButtonIds \union {StepUp}) -> Nat]
    /\ played \in [GachaIds -> Seq(ButtonIds)]
    /\ \A g \in GachaIds :
         /\ counts[<<g, StepUp>>] = Len(played[g])
         /\ Len(played[g]) <= Len(GachaOf[g].steps) * GachaOf[g].loops
         /\ \A i \in DOMAIN played[g] :
              played[g][i] = GachaOf[g].steps[((i - 1) % Len(GachaOf[g].steps)) + 1]

LEMMA GachaTables ==
    /\ ButtonIds \subseteq Nat \ {0} /\ StepUp \notin ButtonIds
    /\ \A g \in GachaIds : GachaOf[g].steps \in Seq(ButtonIds) /\ GachaOf[g].loops \in Nat
<1>1. /\ ButtonIds \subseteq Nat \ {0}
      /\ \A g \in GachaIds : GachaOf[g].steps \in Seq(ButtonIds) /\ GachaOf[g].loops \in Nat
  BY GachaAssumption, GachaTableAssumption, Zenon
<1>2. StepUp \notin Nat BY DEF StepUp
<1> QED BY <1>1, <1>2

LEMMA StepsBegin == GachaInit => StepsCounted
<1> SUFFICES ASSUME GachaInit PROVE StepsCounted OBVIOUS
<1>1. /\ talkClears = 0 /\ tutorial = MemoriaEquipped
      /\ wishes = [g \in GachaIds |-> NoWishList]
      /\ counts = [k \in GachaIds \X (ButtonIds \union {StepUp}) |-> 0]
      /\ played = [g \in GachaIds |-> <<>>]
  BY Zenon DEF GachaInit
<1>2. played \in [GachaIds -> Seq(ButtonIds)] /\ \A g \in GachaIds : played[g] = <<>>
  BY ONLY <1>1
<1>3. \A g \in GachaIds : counts[<<g, StepUp>>] = 0 BY ONLY <1>1
<1>4. \A g \in GachaIds : 0 <= Len(GachaOf[g].steps) * GachaOf[g].loops
  <2> TAKE g \in GachaIds
  <2>1. Len(GachaOf[g].steps) \in Nat /\ GachaOf[g].loops \in Nat BY GachaTables, LenProperties
  <2> QED BY ONLY <2>1, NatClosed
<1>5. counts \in [GachaIds \X (ButtonIds \union {StepUp}) -> Nat] BY ONLY <1>1
<1>6. /\ DOMAIN wishes = GachaIds /\ talkClears \in Nat
      /\ tutorial \in {MemoriaEquipped, GachaComplete}
  BY ONLY <1>1
<1>7. Len(<<>>) = 0 /\ DOMAIN <<>> = {} OBVIOUS
<1> QED BY <1>2, <1>3, <1>4, <1>5, <1>6, <1>7, Zenon DEF StepsCounted

\* What an execution does to the counts and the steps, whatever it draws.
LEMMA ExecutionCounts ==
    ASSUME NEW g, NEW b, NEW step_up, NEW cards, reduce_gacha_execute(g, b, step_up, cards)
    PROVE  /\ counts' = [counts EXCEPT ![<<g, IF step_up THEN StepUp ELSE b>>] = @ + 1]
           /\ played' = IF step_up THEN [played EXCEPT ![g] = Append(@, b)] ELSE played
           /\ tutorial' = IF g = TutorialGacha THEN GachaComplete ELSE tutorial
           /\ talkClears' = talkClears /\ wishes' = wishes
BY Zenon DEF reduce_gacha_execute

LEMMA ButtonKeepsSteps ==
    ASSUME StepsCounted, NEW g \in GachaIds, NEW b \in ButtonIds, gacha_execute(g, b)
    PROVE  StepsCounted'
<1>1. PICK cards : reduce_gacha_execute(g, b, FALSE, cards) BY Zenon DEF gacha_execute
<1>2. /\ counts' = [counts EXCEPT ![<<g, b>>] = @ + 1]
      /\ played' = played /\ talkClears' = talkClears /\ wishes' = wishes
      /\ tutorial' = IF g = TutorialGacha THEN GachaComplete ELSE tutorial
  BY <1>1, ExecutionCounts
<1>3. counts \in [GachaIds \X (ButtonIds \union {StepUp}) -> Nat] BY DEF StepsCounted
<1>4. b # StepUp BY GachaTables
<1>5. /\ counts' \in [GachaIds \X (ButtonIds \union {StepUp}) -> Nat]
      /\ \A h \in GachaIds : counts'[<<h, StepUp>>] = counts[<<h, StepUp>>]
  BY ONLY <1>2, <1>3, <1>4, g \in GachaIds, b \in ButtonIds
<1>6. tutorial' \in {MemoriaEquipped, GachaComplete} BY <1>2, Zenon DEF StepsCounted
<1>7. played' = played /\ talkClears' = talkClears /\ wishes' = wishes BY <1>2
<1>8. \A h \in GachaIds :
        /\ counts'[<<h, StepUp>>] = Len(played[h])
        /\ Len(played[h]) <= Len(GachaOf[h].steps) * GachaOf[h].loops
        /\ \A i \in DOMAIN played[h] :
             played[h][i] = GachaOf[h].steps[((i - 1) % Len(GachaOf[h].steps)) + 1]
  BY <1>5, Zenon DEF StepsCounted
<1>9. /\ talkClears \in Nat /\ DOMAIN wishes = GachaIds
      /\ played \in [GachaIds -> Seq(ButtonIds)]
  BY Zenon DEF StepsCounted
<1> QED BY ONLY <1>5, <1>6, <1>7, <1>8, <1>9, Zenon DEF StepsCounted

LEMMA StepKeepsOrder ==
    ASSUME StepsCounted, NEW g \in GachaIds, NEW b \in ButtonIds, gacha_step_up_execute(g, b)
    PROVE  StepsCounted'
<1> DEFINE steps == GachaOf[g].steps
           loops == GachaOf[g].loops
           was == played[g]
           now == Append(was, b)
           n == Len(was)
           m == Len(steps)
<1>1. Executable(g, b, TRUE)
      /\ \E cards : reduce_gacha_execute(g, b, TRUE, cards)
  BY Zenon DEF gacha_step_up_execute
<1>2. PICK cards : reduce_gacha_execute(g, b, TRUE, cards) BY <1>1, Zenon
<1>3. /\ counts' = [counts EXCEPT ![<<g, StepUp>>] = @ + 1]
      /\ played' = [played EXCEPT ![g] = now]
      /\ talkClears' = talkClears /\ wishes' = wishes
      /\ tutorial' = IF g = TutorialGacha THEN GachaComplete ELSE tutorial
  BY <1>2, ExecutionCounts
<1>4. counts \in [GachaIds \X (ButtonIds \union {StepUp}) -> Nat]
      /\ played \in [GachaIds -> Seq(ButtonIds)]
  BY DEF StepsCounted
<1>5. StepAllowed(g, b) BY <1>1, Zenon DEF Executable
<1>6. /\ steps # <<>> /\ loops > 0 /\ n < m * loops /\ steps[(n % m) + 1] = b
  <2>1. counts[<<g, StepUp>>] = n BY Zenon DEF StepsCounted
  <2> QED BY <1>5, <2>1, Zenon DEF StepAllowed
<1>7. steps \in Seq(ButtonIds) /\ loops \in Nat /\ m \in Nat BY GachaTables, LenProperties
<1>8. was \in Seq(ButtonIds) /\ n \in Nat /\ DOMAIN was = 1..n BY <1>4, LenProperties
<1>9. /\ now \in Seq(ButtonIds) /\ Len(now) = n + 1 /\ DOMAIN now = 1..(n + 1)
      /\ now[n + 1] = b /\ \A i \in 1..n : now[i] = was[i]
  BY ONLY <1>8, b \in ButtonIds, AppendProperties
<1>10. \A i \in 1..n : was[i] = steps[((i - 1) % m) + 1]
  BY <1>8, Zenon DEF StepsCounted
<1>11. \A i \in DOMAIN now : now[i] = steps[((i - 1) % m) + 1]
  <2> SUFFICES ASSUME NEW i \in 1..(n + 1) PROVE now[i] = steps[((i - 1) % m) + 1]
    BY <1>9, Zenon
  <2> HIDE DEF steps, was, now, n, m
  <2>1. i \in 1..n \/ i = n + 1 BY <1>8
  <2>2. CASE i \in 1..n BY <1>9, <1>10, <2>2, Zenon
  <2>3. CASE i = n + 1
    <3>1. i - 1 = n BY ONLY <1>8, <2>3
    <3> QED BY <1>6, <1>9, <2>3, <3>1, Zenon
  <2> QED BY <2>1, <2>2, <2>3
<1>12. Len(now) <= m * loops
  <2> DEFINE p == m * loops
  <2>1. p \in Nat BY <1>7, NatClosed
  <2>2. n < p BY <1>6
  <2> HIDE DEF p, n
  <2>3. n + 1 <= p BY ONLY <1>8, <2>1, <2>2
  <2> QED BY <1>9, <2>3, Zenon DEF p
<1> HIDE DEF now
<1>13. /\ counts' \in [GachaIds \X (ButtonIds \union {StepUp}) -> Nat]
       /\ counts'[<<g, StepUp>>] = counts[<<g, StepUp>>] + 1
       /\ \A h \in GachaIds : h # g => counts'[<<h, StepUp>>] = counts[<<h, StepUp>>]
  BY ONLY <1>3, <1>4, g \in GachaIds
<1>14. /\ played' \in [GachaIds -> Seq(ButtonIds)] /\ played'[g] = now
       /\ \A h \in GachaIds : h # g => played'[h] = played[h]
  BY ONLY <1>3, <1>4, <1>9, g \in GachaIds
<1>15. counts'[<<g, StepUp>>] = Len(now) BY <1>9, <1>13, Zenon DEF StepsCounted
<1>16. tutorial' \in {MemoriaEquipped, GachaComplete} BY <1>3, Zenon DEF StepsCounted
<1>17. \A h \in GachaIds :
         /\ counts'[<<h, StepUp>>] = Len(played'[h])
         /\ Len(played'[h]) <= Len(GachaOf[h].steps) * GachaOf[h].loops
         /\ \A i \in DOMAIN played'[h] :
              played'[h][i] = GachaOf[h].steps[((i - 1) % Len(GachaOf[h].steps)) + 1]
  <2> TAKE h \in GachaIds
  <2>1. CASE h = g BY <1>11, <1>12, <1>14, <1>15, <2>1, Zenon
  <2>2. CASE h # g BY <1>13, <1>14, <2>2, Zenon DEF StepsCounted
  <2> QED BY <2>1, <2>2
<1> QED BY <1>3, <1>13, <1>14, <1>16, <1>17, Zenon DEF StepsCounted

LEMMA StepsStep == StepsCounted /\ [GachaNext]_gachaVars => StepsCounted'
<1> SUFFICES ASSUME StepsCounted, [GachaNext]_gachaVars PROVE StepsCounted' OBVIOUS
<1>1. ASSUME NEW g \in GachaIds, NEW b \in ButtonIds, gacha_execute(g, b) PROVE StepsCounted'
  BY <1>1, ButtonKeepsSteps
<1>2. ASSUME NEW g \in GachaIds, NEW b \in ButtonIds, gacha_step_up_execute(g, b)
      PROVE  StepsCounted'
  BY <1>2, StepKeepsOrder
<1>3. ASSUME NEW g \in GachaIds, NEW w \in WishLists, gacha_wish_list_set(g, w)
      PROVE  StepsCounted'
  <2>1. /\ wishes' = [wishes EXCEPT ![g] = w]
        /\ UNCHANGED <<talkClears, tutorial, counts, played>>
    BY <1>3, Zenon DEF gacha_wish_list_set
  <2>2. DOMAIN wishes' = DOMAIN wishes BY ONLY <2>1
  <2> QED BY <2>1, <2>2, Zenon DEF StepsCounted
<1>4. CASE talk_event_finish
  <2>1. talkClears' = talkClears + 1 /\ UNCHANGED <<tutorial, counts, wishes, played>>
    BY <1>4, Zenon DEF talk_event_finish
  <2>2. talkClears \in Nat BY DEF StepsCounted
  <2>3. talkClears' \in Nat BY ONLY <2>1, <2>2
  <2> QED BY <2>1, <2>3, Zenon DEF StepsCounted
<1>5. CASE GachaTick
  <2>1. UNCHANGED <<talkClears, tutorial, counts, wishes, played>> BY <1>5, Zenon DEF GachaTick
  <2> QED BY <2>1, Zenon DEF StepsCounted
<1>6. CASE UNCHANGED gachaVars
  <2>1. UNCHANGED <<talkClears, tutorial, counts, wishes, played>> BY <1>6, Zenon DEF gachaVars
  <2> QED BY <2>1, Zenon DEF StepsCounted
<1> QED BY <1>1, <1>2, <1>3, <1>4, <1>5, <1>6, Zenon DEF GachaNext

\* The price of a later step is only ever paid after the earlier ones, round
\* after round and no more rounds than the gacha has.
THEOREM StepsKeepTheirOrder == GachaSpec => []StepsInOrder
<1>1. StepsCounted => StepsInOrder BY Zenon DEF StepsCounted, StepsInOrder
<1> QED BY <1>1, StepsBegin, StepsStep, PTL DEF GachaSpec

\* A step leaves the list as it can be read: the clears only grow, the tutorial
\* only goes on, and a list that is stored was validated.
LEMMA ListStep ==
    StepsCounted /\ [GachaNext]_gachaVars
        => (reduce_gacha_list(GachaIds) => reduce_gacha_list(GachaIds)')
<1> SUFFICES ASSUME StepsCounted, [GachaNext]_gachaVars, reduce_gacha_list(GachaIds)
             PROVE  reduce_gacha_list(GachaIds)'
  OBVIOUS
<1> DEFINE Valid(list) == \A g \in GachaIds :
               /\ GachaOf[g].steps # <<>> \/ GachaOf[g].select # 0
               /\ list[g] # NoWishList
               => validate_wish_list(g, list[g])
<1>1. talkClears # 0 /\ tutorial >= MemoriaEquipped /\ Valid(wishes)
  BY Zenon DEF reduce_gacha_list
<1>2. SUFFICES talkClears' # 0 /\ tutorial' >= MemoriaEquipped /\ Valid(wishes')
  BY <1>2, Zenon DEF reduce_gacha_list, validate_wish_list
<1>3. ASSUME UNCHANGED <<talkClears, wishes>>,
             tutorial' = tutorial \/ tutorial' = GachaComplete
      PROVE  talkClears' # 0 /\ tutorial' >= MemoriaEquipped /\ Valid(wishes')
  <2>1. GachaComplete >= MemoriaEquipped BY DEF GachaComplete, MemoriaEquipped
  <2> HIDE DEF Valid
  <2> QED BY <1>1, <1>3, <2>1, Zenon
<1>4. ASSUME NEW g \in GachaIds, NEW b \in ButtonIds, NEW step_up, NEW cards,
             reduce_gacha_execute(g, b, step_up, cards)
      PROVE  /\ UNCHANGED <<talkClears, wishes>>
             /\ tutorial' = tutorial \/ tutorial' = GachaComplete
  BY <1>4, ExecutionCounts, Zenon
<1>5. ASSUME NEW g \in GachaIds, NEW b \in ButtonIds,
             gacha_execute(g, b) \/ gacha_step_up_execute(g, b)
      PROVE  /\ UNCHANGED <<talkClears, wishes>>
             /\ tutorial' = tutorial \/ tutorial' = GachaComplete
  BY <1>4, <1>5, Zenon DEF gacha_execute, gacha_step_up_execute
<1>6. ASSUME NEW g \in GachaIds, NEW w \in WishLists, gacha_wish_list_set(g, w)
      PROVE  talkClears' # 0 /\ tutorial' >= MemoriaEquipped /\ Valid(wishes')
  <2>1. /\ validate_wish_list(g, w) /\ wishes' = [wishes EXCEPT ![g] = w]
        /\ talkClears' = talkClears /\ tutorial' = tutorial
    BY <1>6, Zenon DEF gacha_wish_list_set
  <2>2. DOMAIN wishes = GachaIds BY DEF StepsCounted
  <2>3. wishes'[g] = w /\ \A h \in GachaIds : h # g => wishes'[h] = wishes[h]
    BY ONLY <2>1, <2>2, g \in GachaIds
  <2>4. Valid(wishes')
    <3> SUFFICES ASSUME NEW h \in GachaIds,
                        GachaOf[h].steps # <<>> \/ GachaOf[h].select # 0,
                        wishes'[h] # NoWishList
                 PROVE  validate_wish_list(h, wishes'[h])
      OBVIOUS
    <3>1. CASE h = g BY <2>1, <2>3, <3>1, Zenon
    <3>2. CASE h # g BY <1>1, <2>3, <3>2, Zenon
    <3> QED BY <3>1, <3>2
  <2> QED BY <1>1, <2>1, <2>4, Zenon
<1>7. CASE talk_event_finish
  <2>1. talkClears' = talkClears + 1 /\ UNCHANGED <<tutorial, wishes>>
    BY <1>7, Zenon DEF talk_event_finish
  <2>2. talkClears \in Nat BY DEF StepsCounted
  <2>3. talkClears' # 0 BY ONLY <2>1, <2>2
  <2> HIDE DEF Valid
  <2> QED BY <1>1, <2>1, <2>3, Zenon
<1>8. CASE GachaTick
  <2>1. UNCHANGED <<talkClears, wishes, tutorial>> BY <1>8, Zenon DEF GachaTick
  <2> QED BY <1>3, <2>1, Zenon
<1>9. CASE UNCHANGED gachaVars
  <2>1. UNCHANGED <<talkClears, wishes, tutorial>> BY <1>9, Zenon DEF gachaVars
  <2> QED BY <1>3, <2>1, Zenon
<1>10. ASSUME NEW g \in GachaIds, NEW b \in ButtonIds,
              gacha_execute(g, b) \/ gacha_step_up_execute(g, b)
       PROVE  talkClears' # 0 /\ tutorial' >= MemoriaEquipped /\ Valid(wishes')
  BY ONLY <1>3, <1>5, <1>10
<1> HIDE DEF Valid
<1> QED BY <1>6, <1>7, <1>8, <1>9, <1>10, Zenon DEF GachaNext

\* Once the gachas can be listed no request takes that away.
THEOREM ListCanAlwaysBeRead == GachaSpec => ListStaysAvailable
<1>1. StepsCounted /\ [GachaNext]_gachaVars
        => [reduce_gacha_list(GachaIds) => reduce_gacha_list(GachaIds)']_gachaVars
  BY ListStep
<1> QED BY <1>1, StepsBegin, StepsStep, PTL DEF GachaSpec, ListStaysAvailable

-----------------------------------------------------------------------------
(* Sets as sequences. *)

\* A set as a sequence has every member once.
LEMMA SetAsSeq ==
    ASSUME NEW S, IsFiniteSet(S)
    PROVE  /\ SetToSeq(S) \in Seq(S) /\ Len(SetToSeq(S)) = Cardinality(S)
           /\ IsInjective(SetToSeq(S)) /\ Range(SetToSeq(S)) = S
<1> DEFINE n == Cardinality(S)
           s == SetToSeq(S)
<1>1. n \in Nat /\ ExistsBijection(1..n, S) BY FS_CardinalityType
<1>2. PICK f \in Bijection(1..n, S) : TRUE BY <1>1 DEF ExistsBijection
<1>3. f \in [1..n -> S] /\ IsInjective(f) BY <1>2 DEF Bijection, Injection
<1>4. s \in [1..n -> S] /\ IsInjective(s) BY <1>3, Zenon DEF SetToSeq
<1> HIDE DEF s
<1>5. s \in Seq(S) /\ Len(s) = n BY <1>1, <1>4, FunctionIsSeq
<1>6. s \in Injection(1..n, S) BY <1>4 DEF Injection
<1>7. Cardinality(1..n) = n
  <2> HIDE DEF n
  <2>1. Cardinality(1..n) = IF 1 > n THEN 0 ELSE n - 1 + 1 BY <1>1, FS_Interval
  <2> QED BY <1>1, <2>1
<1>8. s \in Surjection(1..n, S) BY <1>6, <1>7, FS_Injection
<1>9. Range(s) = S BY <1>4, <1>8 DEF Surjection, Range
<1> QED BY <1>4, <1>5, <1>9 DEF s

-----------------------------------------------------------------------------
(* Weights. *)

Share(S, units, i) ==
    units \div Cardinality(S)
        + (IF RankIn(S, i) < units % Cardinality(S) THEN 1 ELSE 0)

Distributed(cards, at, units) ==
    {[card |-> cards[i], place |-> i, weight |-> Share(at, units, i)] : i \in at}

LEMMA DistributedIs ==
    ASSUME NEW cards, NEW at, NEW units
    PROVE  distribute_cards(cards, at, units)
             = IF at = {} \/ units < Cardinality(at) THEN {} ELSE Distributed(cards, at, units)
BY DEF distribute_cards, Share, RankIn, Distributed

LEMMA DistributedCards ==
    ASSUME NEW cards, NEW at, NEW units, NEW e \in distribute_cards(cards, at, units)
    PROVE  \E i \in at : e.card = cards[i]
<1>1. e \in Distributed(cards, at, units) BY DistributedIs
<1>2. PICK i \in at : e = [card |-> cards[i], place |-> i, weight |-> Share(at, units, i)]
  BY <1>1 DEF Distributed
<1> QED BY <1>2

\* The shares add up to what is shared out.
LEMMA SharesAddUp ==
    ASSUME NEW at, IsFiniteSet(at), at \subseteq Nat, at # {},
           NEW units \in Nat, Cardinality(at) <= units
    PROVE  /\ \A i \in at : Share(at, units, i) \in Nat
           /\ SumFunctionOnSet([i \in at |-> Share(at, units, i)], at) = units
<1> DEFINE n == Cardinality(at)
           q == units \div n
           r == units % n
           F == {i \in at : RankIn(at, i) < r}
           share == [i \in at |-> Share(at, units, i)]
<1>1. n \in Nat /\ n # 0 BY FS_CardinalityType, FS_EmptySet
<1>2. q \in Nat /\ r \in 0..(n - 1) /\ units = q * n + r
  <2> HIDE DEF n
  <2>1. n \in Nat \ {0} /\ units \in Int /\ units >= 0 BY <1>1
  <2>2. /\ units \div n \in Int /\ units % n \in 0..(n - 1)
        /\ units = (units \div n) * n + (units % n)
        /\ units >= 0 => units \div n >= 0
    BY <2>1, Division
  <2> QED BY <2>1, <2>2
<1>3. Cardinality(F) = r
  <2>1. r \in Nat /\ r <= n BY <1>1, <1>2
  <2> HIDE DEF r
  <2> QED BY <2>1, RanksBelow
<1>4. F \in SUBSET at OBVIOUS
<1>5. \A i \in at : share[i] = IF i \in F THEN q + 1 ELSE q
  <2> TAKE i \in at
  <2>1. share[i] = q + (IF RankIn(at, i) < r THEN 1 ELSE 0) BY Zenon DEF Share
  <2>2. i \in F <=> RankIn(at, i) < r OBVIOUS
  <2> HIDE DEF F, share, q, r
  <2> QED BY <1>2, <2>1, <2>2
<1>6. Cardinality(at \ F) = n - r
  <2>1. IsFiniteSet(F) /\ IsFiniteSet(at \ F) BY <1>4, FS_Subset
  <2>2. F \union (at \ F) = at /\ F \intersect (at \ F) = {} BY <1>4
  <2> HIDE DEF F
  <2>3. Cardinality(F \union (at \ F))
          = Cardinality(F) + Cardinality(at \ F) - Cardinality(F \intersect (at \ F))
    BY <2>1, FS_Union
  <2>4. Cardinality(F \intersect (at \ F)) = 0 BY <2>2, FS_EmptySet
  <2>5. Cardinality(at \ F) \in Nat BY <2>1, FS_CardinalityType
  <2>6. Cardinality(F \union (at \ F)) = n BY <2>2
  <2> DEFINE x == Cardinality(at \ F)
  <2> HIDE DEF n, r, x
  <2> QED BY <1>1, <1>2, <1>3, <2>3, <2>4, <2>5, <2>6 DEF x
<1>7. SumFunctionOnSet(share, at) = Cardinality(F) * (q + 1) + Cardinality(at \ F) * q
  <2> DEFINE p == q + 1
  <2>1. p \in Nat /\ q \in Nat BY <1>2
  <2>2. \A i \in at : share[i] = IF i \in F THEN p ELSE q BY <1>5
  <2> HIDE DEF F, share, q, p
  <2>3. SumFunctionOnSet(share, at) = Cardinality(F) * p + Cardinality(at \ F) * q
    BY ONLY IsFiniteSet(at), <1>4, <2>1, <2>2, SumOfTwo
  <2> QED BY <2>3 DEF p
<1>8. r * (q + 1) + (n - r) * q = q * n + r
  <2> HIDE DEF n, r, q
  <2> QED BY <1>1, <1>2
<1>9. \A i \in at : Share(at, units, i) = share[i] OBVIOUS
<1> HIDE DEF n, q, r, F, share
<1>10. \A i \in at : share[i] \in Nat BY <1>2, <1>5
<1>11. SumFunctionOnSet(share, at) = units BY <1>2, <1>3, <1>6, <1>7, <1>8
<1> QED BY <1>9, <1>10, <1>11 DEF share

LEMMA WeightIs ==
    ASSUME NEW S, IsFiniteSet(S), NEW h, \A x, y \in S : h[x] = h[y] => x = y,
           NEW g, \A x \in S : h[x].weight = g[x] /\ g[x] \in Int,
           NEW W, W = {h[x] : x \in S}
    PROVE  Weight(W) = SumFunctionOnSet(g, S)
<1> DEFINE f == [e \in W |-> e.weight]
<1>1. \A x \in S : g[x] \in Int /\ f[h[x]] = g[x] OBVIOUS
<1>2. DOMAIN f = W OBVIOUS
<1> HIDE DEF f
<1>3. SumFunctionOnSet(f, W) = SumFunctionOnSet(g, S)
  <2> DEFINE T == {h[x] : x \in S}
  <2>1. T = {h[x] : x \in S} OBVIOUS
  <2> HIDE DEF T
  <2>2. \A x, y \in S : h[x] = h[y] => x = y OBVIOUS
  <2>3. SumFunctionOnSet(f, T) = SumFunctionOnSet(g, S)
    BY ONLY IsFiniteSet(S), <1>1, <2>1, <2>2, SumOfImage
  <2> QED BY <2>1, <2>3
<1>4. Weight(W) = SumFunctionOnSet(f, DOMAIN f) BY DEF Weight, f, SumFunction
<1> QED BY <1>2, <1>3, <1>4

IsDistributed(W, cards, at, units) ==
    /\ Weight(W) = units /\ W # {} /\ IsFiniteSet(W)
    /\ \A e \in W : e.place \in at /\ e.card = cards[e.place] /\ e.weight \in Nat
    /\ \A e, f \in W : e.place = f.place => e = f

\* distribute_cards shares out all the units, over every place once.
LEMMA DistributedWeight ==
    ASSUME NEW cards, NEW at, IsFiniteSet(at), at \subseteq Nat, at # {},
           NEW units \in Nat, Cardinality(at) <= units,
           NEW W, W = distribute_cards(cards, at, units)
    PROVE  IsDistributed(W, cards, at, units)
<1> DEFINE h == [i \in at |-> [card |-> cards[i], place |-> i, weight |-> Share(at, units, i)]]
           g == [i \in at |-> Share(at, units, i)]
<1>1. \A i \in at : g[i] \in Nat /\ h[i].weight = g[i] BY SharesAddUp
<1>2. Cardinality(at) \in Nat /\ ~(units < Cardinality(at)) BY FS_CardinalityType
<1>3. W = {h[i] : i \in at}
  <2>1. W = {[card |-> cards[i], place |-> i, weight |-> Share(at, units, i)] : i \in at}
    BY <1>2, DistributedIs DEF Distributed
  <2> QED BY ONLY <2>1
<1>4. \A i \in at : h[i].place = i /\ h[i].card = cards[i] OBVIOUS
<1>5. \A i, j \in at : h[i] = h[j] => i = j BY <1>4
<1>6. SumFunctionOnSet(g, at) = units BY SharesAddUp
<1> HIDE DEF h, g
<1>7. Weight(W) = SumFunctionOnSet(g, at)
  <2>1. \A x, y \in at : h[x] = h[y] => x = y BY ONLY <1>5
  <2>2. \A x \in at : h[x].weight = g[x] /\ g[x] \in Int BY ONLY <1>1
  <2> QED BY ONLY IsFiniteSet(at), <1>3, <2>1, <2>2, WeightIs
<1>8. IsFiniteSet(W)
  <2>1. IsFiniteSet({h[i] : i \in at}) BY FiniteImage
  <2> QED BY <1>3, <2>1
<1>9. \A e \in W : \E i \in at : e = h[i] BY <1>3
<1>10. \A e \in W : e.place \in at /\ e.card = cards[e.place] /\ e.weight \in Nat
  BY <1>1, <1>4, <1>9
<1>11. \A e, f \in W : e.place = f.place => e = f BY <1>4, <1>9
<1>12. W # {} BY <1>3
<1> QED BY <1>6, <1>7, <1>8, <1>10, <1>11, <1>12 DEF IsDistributed

-----------------------------------------------------------------------------
(* The master data of a rate. *)

LEMMA RatesAre ==
    ASSUME NEW s \in DOMAIN RatesOf
    PROVE  /\ RatesOf[s] \in Seq(Rate)
           /\ \A i \in DOMAIN RatesOf[s] :
                /\ RatesOf[s][i] \in Rate /\ RateFits(RatesOf[s][i])
                /\ RatesOf[s][i] \in Range(RatesOf[s])
                /\ Range(RatesOf[s][i].cards) \subseteq Cards
<1>1. RatesOf[s] \in Seq(Rate) /\ \A i \in DOMAIN RatesOf[s] : RateFits(RatesOf[s][i])
  BY GachaTableAssumption, Zenon
<1>2. ASSUME NEW i \in DOMAIN RatesOf[s]
      PROVE  RatesOf[s][i] \in Rate /\ RatesOf[s][i] \in Range(RatesOf[s])
  BY <1>1, <1>2, ElementOfSeq, LenProperties DEF Range
<1>3. ASSUME NEW i \in DOMAIN RatesOf[s]
      PROVE  Range(RatesOf[s][i].cards) \subseteq Cards
  <2> DEFINE r == RatesOf[s][i]
             all == UNION {Range(x.cards) : x \in Range(RatesOf[s])}
  <2>1. r \in Range(RatesOf[s]) BY <1>2, <1>3
  <2> HIDE DEF r
  <2>2. Range(r.cards) \subseteq all BY <2>1
  <2>3. all \subseteq Cards BY Zenon DEF Cards
  <2> QED BY <2>2, <2>3 DEF r
<1> QED BY <1>1, <1>2, <1>3

LEMMA CardsAre == Cards \subseteq Card /\ IsFiniteSet(Cards)
<1>1. ASSUME NEW c \in Cards PROVE c \in Card
  <2>1. PICK s \in DOMAIN RatesOf : c \in UNION {Range(r.cards) : r \in Range(RatesOf[s])}
    BY <1>1, Zenon DEF Cards
  <2>2. PICK r \in Range(RatesOf[s]) : c \in Range(r.cards) BY <2>1, Zenon
  <2>3. RatesOf[s] \in Seq(Rate) BY RatesAre
  <2>4. r \in Rate
    <3>1. Range(RatesOf[s]) \subseteq Rate BY <2>3, RangeIsFinite
    <3> QED BY <2>2, <3>1
  <2>5. r.cards \in Seq(Card) BY <2>4 DEF Rate
  <2>6. Range(r.cards) \subseteq Card BY <2>5, RangeIsFinite
  <2> QED BY <2>2, <2>6
<1> QED BY <1>1, GachaAssumption, Zenon

\* The cards of a rate, all of them once.
LEMMA RateIs ==
    ASSUME NEW rate \in Rate, RateFits(rate)
    PROVE  /\ rate.units \in Nat /\ rate.cards \in Seq(Card)
           /\ DOMAIN rate.cards = 1..Len(rate.cards) /\ IsFiniteSet(DOMAIN rate.cards)
           /\ Cardinality(DOMAIN rate.cards) = Len(rate.cards) /\ DOMAIN rate.cards # {}
           /\ DOMAIN rate.cards \subseteq Nat \ {0}
           /\ Len(rate.cards) \in Nat /\ Len(rate.cards) <= rate.units
           /\ \A i, j \in DOMAIN rate.cards : rate.cards[i] = rate.cards[j] => i = j
           /\ \A i \in DOMAIN rate.cards : rate.cards[i] \in Card
<1> DEFINE s == rate.cards
           n == Len(s)
<1>1. rate.units \in Nat /\ s \in Seq(Card) BY DEF Rate
<1>2. s # <<>> /\ IsInjective(s) /\ n <= rate.units BY Zenon DEF RateFits
<1> HIDE DEF s
<1>3. n \in Nat /\ DOMAIN s = 1..n /\ \A i \in DOMAIN s : s[i] \in Card
  BY <1>1, LenProperties, ElementOfSeq
<1>4. n # 0 BY <1>1, <1>2, EmptySeq
<1>5. IsFiniteSet(1..n) /\ Cardinality(1..n) = n
  <2> HIDE DEF n
  <2>1. Cardinality(1..n) = IF 1 > n THEN 0 ELSE n - 1 + 1 BY <1>3, FS_Interval
  <2>2. IsFiniteSet(1..n) BY <1>3, FS_Interval
  <2> QED BY <1>3, <2>1, <2>2
<1>6. 1..n # {} /\ 1..n \subseteq Nat \ {0} BY <1>3, <1>4
<1>7. \A i, j \in DOMAIN s : s[i] = s[j] => i = j BY <1>2 DEF IsInjective
<1> QED BY <1>1, <1>2, <1>3, <1>5, <1>6, <1>7 DEF s

-----------------------------------------------------------------------------
(* The weights of a rate. *)

\* Entries that add up to the units, no card of which is there twice.
Shared(W, units) ==
    /\ Weight(W) = units
    /\ \A e, f \in W : e.card = f.card => e = f

From(W, cards, at) == \A e \in W : \E i \in at : e.card = cards[i]
AllDiffer(cards, at) == \A i, j \in at : cards[i] = cards[j] => i = j

LEMMA SharedOver ==
    ASSUME NEW cards, NEW at, IsFiniteSet(at), at \subseteq Nat, at # {},
           NEW units \in Nat, Cardinality(at) <= units,
           AllDiffer(cards, at), NEW W, W = distribute_cards(cards, at, units)
    PROVE  Shared(W, units) /\ From(W, cards, at)
<1>1. /\ Weight(W) = units
      /\ \A e \in W : e.place \in at /\ e.card = cards[e.place]
      /\ \A e, f \in W : e.place = f.place => e = f
  <2>1. IsDistributed(W, cards, at, units) BY DistributedWeight
  <2> QED BY <2>1 DEF IsDistributed
<1>2. \A e, f \in W : e.card = f.card => e = f
  <2> TAKE e, f \in W
  <2> HAVE e.card = f.card
  <2>1. e.place \in at /\ f.place \in at /\ cards[e.place] = cards[f.place] BY <1>1
  <2>2. e.place = f.place BY <2>1 DEF AllDiffer
  <2> QED BY <1>1, <2>2
<1> QED BY <1>1, <1>2 DEF Shared, From

LEMMA EvenlyShared ==
    ASSUME NEW rate \in Rate, RateFits(rate),
           NEW W, W = distribute_cards(rate.cards, DOMAIN rate.cards, rate.units)
    PROVE  Shared(W, rate.units) /\ \A e \in W : e.card \in Range(rate.cards)
<1>1. ASSUME NEW s, s = rate.cards, NEW at, at = DOMAIN s, NEW units, units = rate.units
      PROVE  Shared(W, units) /\ \A e \in W : e.card \in Range(s)
  <2>1. /\ units \in Nat /\ IsFiniteSet(at) /\ Cardinality(at) <= units /\ at # {}
        /\ at \subseteq Nat /\ AllDiffer(s, at)
    BY <1>1, RateIs DEF AllDiffer
  <2>2. W = distribute_cards(s, at, units) BY <1>1
  <2>3. Shared(W, units) /\ From(W, s, at)
    BY ONLY <2>1, <2>2, SharedOver
  <2>4. \A i \in at : s[i] \in Range(s) BY <1>1 DEF Range
  <2> QED BY <2>3, <2>4 DEF From
<1> QED BY <1>1

CardOf(type, id) == CHOOSE c \in Cards : c.type = type /\ c.id = id
FixedWeight(chosen, id) == IF id \in chosen THEN Selected ELSE Unselected
FixedCards(type, pickups, chosen) ==
    {[card |-> CardOf(type, id), place |-> 0, weight |-> FixedWeight(chosen, id)] : id \in pickups}

LEMMA WithPickupsIs ==
    ASSUME NEW rate, NEW pickups, NEW chosen,
           NEW fixed, fixed = FixedCards(rate.cards[1].type, pickups, chosen),
           NEW rest, rest = distribute_cards(rate.cards, OtherPlaces(rate, pickups),
                                             rate.units - Weight(fixed)),
           rest # {}
    PROVE  WithPickups(rate, pickups, chosen) = fixed \union rest
BY Zenon DEF WithPickups, FixedCards, CardOf, FixedWeight

\* The pickups have the weights the list gives them.
LEMMA FixedIs ==
    ASSUME NEW type, NEW pickups, IsFiniteSet(pickups), NEW chosen \in SUBSET pickups,
           \A id \in pickups : \E c \in Cards : c.type = type /\ c.id = id,
           NEW F, F = FixedCards(type, pickups, chosen)
    PROVE  /\ Weight(F) = Cardinality(chosen) * Selected + Cardinality(pickups \ chosen) * Unselected
           /\ IsFiniteSet(F)
           /\ \A e \in F : e.place = 0 /\ e.weight \in Nat /\ e.card \in Cards
                           /\ e.card.id \in pickups
           /\ \A e, f \in F : e.card = f.card => e = f
<1> DEFINE h == [id \in pickups |-> [card |-> CardOf(type, id), place |-> 0,
                                     weight |-> FixedWeight(chosen, id)]]
           g == [id \in pickups |-> FixedWeight(chosen, id)]
<1>1. Selected \in Nat /\ Unselected \in Nat BY GachaAssumption, Zenon
<1>2. \A id \in pickups : CardOf(type, id) \in Cards /\ CardOf(type, id).id = id
  BY Zenon DEF CardOf
<1>3. \A id \in pickups : g[id] = IF id \in chosen THEN Selected ELSE Unselected
  BY DEF FixedWeight
<1>4. \A id \in pickups : g[id] \in Nat BY <1>1, <1>3
<1>5. \A id \in pickups : /\ h[id].card = CardOf(type, id) /\ h[id].place = 0
                          /\ h[id].weight = g[id]
  OBVIOUS
<1>6. F = {h[id] : id \in pickups}
  <2>1. F = {[card |-> CardOf(type, id), place |-> 0, weight |-> FixedWeight(chosen, id)] : id \in pickups}
    BY Zenon DEF FixedCards
  <2> QED BY ONLY <2>1
<1> HIDE DEF h, g
<1>7. \A x, y \in pickups : h[x] = h[y] => x = y BY <1>2, <1>5
<1>8. SumFunctionOnSet(g, pickups)
        = Cardinality(chosen) * Selected + Cardinality(pickups \ chosen) * Unselected
  BY ONLY IsFiniteSet(pickups), chosen \in SUBSET pickups, <1>1, <1>3, SumOfTwo
<1>9. Weight(F) = SumFunctionOnSet(g, pickups)
  <2>1. \A x \in pickups : h[x].weight = g[x] /\ g[x] \in Int BY <1>4, <1>5
  <2> QED BY ONLY IsFiniteSet(pickups), <1>6, <1>7, <2>1, WeightIs
<1>10. IsFiniteSet(F)
  <2>1. IsFiniteSet({h[id] : id \in pickups}) BY FiniteImage
  <2> QED BY <1>6, <2>1
<1>11. \A e \in F : \E id \in pickups : e = h[id] BY <1>6
<1>12. \A e \in F : /\ e.place = 0 /\ e.weight \in Nat /\ e.card \in Cards
                    /\ e.card.id \in pickups
  BY <1>2, <1>4, <1>5, <1>11
<1>13. \A e, f \in F : e.card = f.card => e = f
  <2> TAKE e, f \in F
  <2> HAVE e.card = f.card
  <2>1. PICK x \in pickups : e = h[x] BY <1>11
  <2>2. PICK y \in pickups : f = h[y] BY <1>11
  <2>3. e.card = CardOf(type, x) /\ f.card = CardOf(type, y) BY <1>5, <2>1, <2>2
  <2>4. CardOf(type, x).id = x /\ CardOf(type, y).id = y BY <1>2
  <2>5. x = y BY <2>3, <2>4
  <2> QED BY <2>1, <2>2, <2>5
<1> QED BY <1>8, <1>9, <1>10, <1>12, <1>13

LEMMA WeightOfBoth ==
    ASSUME NEW F, NEW R, IsFiniteSet(F), IsFiniteSet(R), F \intersect R = {},
           \A e \in F \union R : e.weight \in Nat
    PROVE  Weight(F \union R) = Weight(F) + Weight(R)
<1> DEFINE W == F \union R
           w == [e \in W |-> e.weight]
           f == [e \in F |-> e.weight]
           r == [e \in R |-> e.weight]
<1>1. (\A e \in W : w[e] \in Int) /\ (\A e \in F : f[e] \in Int /\ f[e] = w[e])
      /\ (\A e \in R : r[e] \in Int /\ r[e] = w[e])
  OBVIOUS
<1>2. DOMAIN w = W /\ DOMAIN f = F /\ DOMAIN r = R OBVIOUS
<1>3. W = F \union R OBVIOUS
<1>4. /\ Weight(W) = SumFunctionOnSet(w, DOMAIN w) /\ Weight(F) = SumFunctionOnSet(f, DOMAIN f)
      /\ Weight(R) = SumFunctionOnSet(r, DOMAIN r)
  BY DEF Weight, SumFunction
<1> HIDE DEF w, f, r, W
<1>5. SumFunctionOnSet(w, F \union R) = SumFunctionOnSet(w, F) + SumFunctionOnSet(w, R)
  <2>1. \A e \in F \union R : w[e] \in Int BY <1>1, <1>3
  <2> QED BY <2>1, SumOfBoth
<1>6. SumFunctionOnSet(f, F) = SumFunctionOnSet(w, F) BY <1>1, SumSame
<1>7. SumFunctionOnSet(r, R) = SumFunctionOnSet(w, R) BY <1>1, SumSame
<1> QED BY <1>2, <1>3, <1>4, <1>5, <1>6, <1>7

\* What PickupsFit says of a rate with pickups.
PickedFit(rate, pickups, most) ==
    /\ \A id \in pickups : \E c \in Cards : c.type = rate.cards[1].type /\ c.id = id
    /\ OtherPlaces(rate, pickups) # {}
    /\ \A chosen \in SUBSET pickups :
         Cardinality(chosen) <= most =>
           Cardinality(chosen) * Selected + Cardinality(pickups \ chosen) * Unselected
             + Cardinality(OtherPlaces(rate, pickups)) <= rate.units

LEMMA PickupsShared ==
    ASSUME NEW rate \in Rate, RateFits(rate), NEW pickups, IsFiniteSet(pickups), NEW most,
           PickedFit(rate, pickups, most), NEW chosen \in SUBSET pickups,
           Cardinality(chosen) <= most, NEW W, W = WithPickups(rate, pickups, chosen)
    PROVE  Shared(W, rate.units)
<1> DEFINE type == rate.cards[1].type
           cards == rate.cards
           at == OtherPlaces(rate, pickups)
           units == rate.units
           fixed == FixedCards(type, pickups, chosen)
           left == units - Weight(fixed)
           rest == distribute_cards(cards, at, left)
           a == Cardinality(chosen)
           b == Cardinality(pickups \ chosen)
           x == a * Selected
           y == b * Unselected
           n == Cardinality(at)
<1>1. /\ units \in Nat /\ IsFiniteSet(DOMAIN cards) /\ DOMAIN cards \subseteq Nat \ {0}
      /\ \A i, j \in DOMAIN cards : cards[i] = cards[j] => i = j
  BY RateIs
<1>2. /\ at \in SUBSET DOMAIN cards /\ \A i \in at : cards[i].id \notin pickups
  BY DEF OtherPlaces
<1>3. /\ \A id \in pickups : \E c \in Cards : c.type = type /\ c.id = id
      /\ at # {} /\ x + y + n <= units
  BY DEF PickedFit
<1>4. a \in Nat /\ b \in Nat /\ n \in Nat
  <2>1. IsFiniteSet(chosen) /\ IsFiniteSet(pickups \ chosen) BY FS_Subset
  <2>2. IsFiniteSet(at) BY <1>1, <1>2, FS_Subset
  <2> HIDE DEF at
  <2> QED BY <2>1, <2>2, FS_CardinalityType
<1>5. x \in Nat /\ y \in Nat
  <2>1. Selected \in Nat /\ Unselected \in Nat BY GachaAssumption, Zenon
  <2>2. \A k, l \in Nat : k * l \in Nat OBVIOUS
  <2> HIDE DEF a, b
  <2> QED BY <1>4, <2>1, <2>2
<1>6. rest = distribute_cards(rate.cards, OtherPlaces(rate, pickups), rate.units - Weight(fixed))
  OBVIOUS
<1>7. fixed = FixedCards(rate.cards[1].type, pickups, chosen) OBVIOUS
<1>8. /\ Weight(fixed) = x + y /\ IsFiniteSet(fixed)
      /\ \A e \in fixed : e.place = 0 /\ e.weight \in Nat /\ e.card.id \in pickups
      /\ \A e, f \in fixed : e.card = f.card => e = f
  <2> HIDE DEF type
  <2> DEFINE F == fixed
  <2>1. F = FixedCards(type, pickups, chosen) OBVIOUS
  <2> HIDE DEF F
  <2>2. /\ Weight(F) = Cardinality(chosen) * Selected + Cardinality(pickups \ chosen) * Unselected
        /\ IsFiniteSet(F)
        /\ \A e \in F : e.place = 0 /\ e.weight \in Nat /\ e.card \in Cards
                        /\ e.card.id \in pickups
        /\ \A e, f \in F : e.card = f.card => e = f
    BY <1>3, <2>1, FixedIs
  <2> QED BY <2>2 DEF F
<1> HIDE DEF fixed, rest, left, x, y, n, at
<1>9. left \in Nat /\ n <= left
  <2>1. left = units - (x + y) BY <1>8 DEF left
  <2> HIDE DEF units
  <2> QED BY <1>1, <1>3, <1>4, <1>5, <2>1
<1>10. IsDistributed(rest, cards, at, left)
  <2>1. IsFiniteSet(at) /\ at \subseteq Nat /\ at # {} BY <1>1, <1>2, <1>3, FS_Subset
  <2>2. Cardinality(at) <= left BY <1>9 DEF n
  <2>3. rest = distribute_cards(cards, at, left) BY DEF rest
  <2> QED BY <1>9, <2>1, <2>2, <2>3, DistributedWeight
<1>11. /\ Weight(rest) = left /\ rest # {} /\ IsFiniteSet(rest)
       /\ \A e \in rest : e.place \in at /\ e.card = cards[e.place] /\ e.weight \in Nat
       /\ \A e, f \in rest : e.place = f.place => e = f
  BY <1>10 DEF IsDistributed
<1>12. W = fixed \union rest BY <1>6, <1>7, <1>11, WithPickupsIs
<1>13. \A e \in rest : e.place # 0 /\ e.card.id \notin pickups
  <2> TAKE e \in rest
  <2>1. e.place \in at /\ e.card = cards[e.place] BY <1>11
  <2>2. e.place \in Nat \ {0} BY <1>1, <1>2, <2>1
  <2> QED BY <1>2, <2>1, <2>2
<1>14. fixed \intersect rest = {} BY <1>8, <1>13
<1>15. Weight(W) = Weight(fixed) + Weight(rest) BY <1>8, <1>11, <1>12, <1>14, WeightOfBoth
<1>16. Weight(W) = units
  <2>1. left = units - (x + y) BY <1>8 DEF left
  <2> HIDE DEF units
  <2> QED BY <1>1, <1>5, <1>8, <1>11, <1>15, <2>1
<1>17. ASSUME NEW e \in W, NEW f \in W, e.card = f.card PROVE e = f
  <2>1. CASE e \in fixed /\ f \in fixed BY <1>8, <1>17, <2>1
  <2>2. CASE e \in rest /\ f \in rest
    <3>1. e.place \in DOMAIN cards /\ f.place \in DOMAIN cards /\ cards[e.place] = cards[f.place]
      BY <1>2, <1>11, <1>17, <2>2
    <3>2. e.place = f.place BY <1>1, <3>1
    <3> QED BY <1>11, <2>2, <3>2
  <2>3. CASE (e \in fixed /\ f \in rest) \/ (f \in fixed /\ e \in rest)
    BY <1>8, <1>13, <1>17, <2>3
  <2> QED BY <1>12, <2>1, <2>2, <2>3
<1> QED BY <1>16, <1>17 DEF Shared

LEMMA GachaIs ==
    ASSUME NEW g \in GachaIds
    PROVE  /\ GachaOf[g].select \in Nat /\ GachaOf[g].wish_counts \in [1..3 -> Nat]
           /\ IsFiniteSet(GachaOf[g].pickup_characters)
           /\ IsFiniteSet(GachaOf[g].pickup_memorias)
           /\ GachaOf[g].rates \in DOMAIN RatesOf
           /\ \A i \in DOMAIN RatesOf[GachaOf[g].rates] :
                PickupsFit(GachaOf[g], RatesOf[GachaOf[g].rates][i])
BY GachaTableAssumption, Zenon

Chosen(w, type) == IF type = Character THEN Range(w.characters) ELSE Range(w.memorias)

\* A list that was validated chooses among the pickups and no more than it may.
LEMMA ListFits ==
    ASSUME NEW g \in GachaIds, NEW w \in WishList, validate_wish_list(g, w), NEW type
    PROVE  /\ Chosen(w, type) \in SUBSET Pickups(GachaOf[g], type)
           /\ Cardinality(Chosen(w, type)) <= MaxWished(GachaOf[g], type)
           /\ IsFiniteSet(Pickups(GachaOf[g], type))
<1> DEFINE row == GachaOf[g]
           a == Len(w.characters)
           b == Len(w.memorias)
           c == Len(w.skins)
<1>1. w.characters \in Seq(Nat) /\ w.memorias \in Seq(Nat) /\ w.skins \in Seq(Nat)
  BY DEF WishList
<1>2. a \in Nat /\ b \in Nat /\ c \in Nat BY <1>1, LenProperties
<1>3. /\ Cardinality(Range(w.characters)) <= a /\ Cardinality(Range(w.memorias)) <= b
      /\ Cardinality(Range(w.characters)) \in Nat /\ Cardinality(Range(w.memorias)) \in Nat
  BY <1>1, RangeIsFinite, FS_CardinalityType
<1>4. /\ Range(w.characters) \subseteq row.pickup_characters
      /\ Range(w.memorias) \subseteq row.pickup_memorias
      /\ row.steps = <<>> => a + b + c = row.select
      /\ row.steps # <<>> => <<a, b, c>> = row.wish_counts
  BY DEF validate_wish_list
<1>5. row.steps # <<>> => a = row.wish_counts[1] /\ b = row.wish_counts[2]
  <2> HAVE row.steps # <<>>
  <2>1. <<a, b, c>> = row.wish_counts BY <1>4
  <2>2. <<a, b, c>>[1] = a /\ <<a, b, c>>[2] = b OBVIOUS
  <2> HIDE DEF a, b, c
  <2> QED BY <2>1, <2>2
<1>6. row.select \in Nat /\ IsFiniteSet(row.pickup_characters) /\ IsFiniteSet(row.pickup_memorias)
  BY GachaIs
<1>7. MaxWished(row, type) = IF row.steps = <<>> THEN row.select
                               ELSE IF type = Character THEN row.wish_counts[1]
                               ELSE row.wish_counts[2]
  BY DEF MaxWished
<1>8. /\ Chosen(w, type) = IF type = Character THEN Range(w.characters) ELSE Range(w.memorias)
      /\ Pickups(row, type) = IF type = Character THEN row.pickup_characters
                                ELSE row.pickup_memorias
  BY DEF Chosen, Pickups
<1> DEFINE n == Cardinality(Range(w.characters))
           m == Cardinality(Range(w.memorias))
           select == row.select
<1>9. row.steps = <<>> => n <= select /\ m <= select
  <2> HAVE row.steps = <<>>
  <2>1. a + b + c = select BY <1>4
  <2> HIDE DEF a, b, c, n, m, select
  <2>2. select \in Nat BY <1>6 DEF select
  <2>3. n <= a /\ m <= b /\ n \in Nat /\ m \in Nat BY <1>3 DEF n, m
  <2> QED BY <1>2, <2>1, <2>2, <2>3
<1>10. Cardinality(Chosen(w, type)) = IF type = Character THEN n ELSE m BY <1>8
<1>11. n <= a /\ m <= b BY <1>3
<1>12. Cardinality(Chosen(w, type)) <= MaxWished(row, type)
  <2> HIDE DEF a, b, c, n, m, select
  <2>1. CASE row.steps = <<>> BY <1>7, <1>9, <1>10, <2>1 DEF select
  <2>2. CASE row.steps # <<>> BY <1>5, <1>7, <1>10, <1>11, <2>2
  <2> QED BY <2>1, <2>2
<1> HIDE DEF row
<1>13. Chosen(w, type) \in SUBSET Pickups(row, type) BY <1>4, <1>8
<1>14. IsFiniteSet(Pickups(row, type)) BY <1>6, <1>8
<1> QED BY <1>12, <1>13, <1>14 DEF row

\* Every rate of a gacha shares out its units, whichever list it has.
LEMMA RateShared ==
    ASSUME NEW g \in GachaIds, NEW rate \in Rate, RateFits(rate), PickupsFit(GachaOf[g], rate),
           NEW w, GachaOf[g].select = 0 \/ (w \in WishList /\ validate_wish_list(g, w)),
           NEW W, W = RateCards(g, rate, w)
    PROVE  Shared(W, rate.units)
<1> DEFINE row == GachaOf[g]
           type == rate.cards[1].type
           pickups == Pickups(row, type)
<1>1. CASE row.select = 0 \/ rate.cards[1].rarity # 3
  <2>1. W = distribute_cards(rate.cards, DOMAIN rate.cards, rate.units)
    BY <1>1, Zenon DEF RateCards
  <2> QED BY <2>1, EvenlyShared
<1>2. CASE ~(row.select = 0 \/ rate.cards[1].rarity # 3)
  <2>1. w \in WishList /\ validate_wish_list(g, w) BY <1>2
  <2>2. W = WithPickups(rate, pickups, Chosen(w, type))
    BY <1>2, <2>1, Zenon DEF RateCards, Chosen
  <2>3. PickedFit(rate, pickups, MaxWished(row, type))
    BY <1>2, Zenon DEF PickupsFit, PickedFit
  <2>4. /\ Chosen(w, type) \in SUBSET pickups /\ IsFiniteSet(pickups)
        /\ Cardinality(Chosen(w, type)) <= MaxWished(row, type)
    BY <2>1, ListFits
  <2> HIDE DEF pickups, type, row
  <2> QED BY <2>2, <2>3, <2>4, PickupsShared
<1> QED BY <1>1, <1>2

WishesValid ==
    \A g \in GachaIds : wishes[g] # NoWishList =>
        wishes[g] \in WishList /\ validate_wish_list(g, wishes[g])

LEMMA SharesAreKept == WishesValid => SharesKept
<1> SUFFICES ASSUME WishesValid PROVE SharesKept OBVIOUS
<1>1. ASSUME NEW g \in GachaIds, NEW i \in DOMAIN RatesOf[GachaOf[g].rates],
             NEW rate, rate = RatesOf[GachaOf[g].rates][i],
             GachaOf[g].select = 0 \/ wishes[g] # NoWishList
      PROVE  Shared(RateCards(g, rate, wishes[g]), rate.units)
  <2>1. GachaOf[g].rates \in DOMAIN RatesOf /\ PickupsFit(GachaOf[g], rate) BY <1>1, GachaIs
  <2>2. rate \in Rate /\ RateFits(rate) BY <1>1, <2>1, RatesAre
  <2>3. GachaOf[g].select = 0 \/ (wishes[g] \in WishList /\ validate_wish_list(g, wishes[g]))
    BY <1>1, Zenon DEF WishesValid
  <2> QED BY <2>1, <2>2, <2>3, RateShared
<1>2. ASSUME NEW g \in GachaIds, NEW i \in DOMAIN RatesOf[GachaOf[g].rates],
             GachaOf[g].select = 0 \/ wishes[g] # NoWishList
      PROVE  Shared(RateCards(g, RatesOf[GachaOf[g].rates][i], wishes[g]),
                    RatesOf[GachaOf[g].rates][i].units)
  BY <1>1, <1>2, Zenon
<1> QED BY <1>2, Zenon DEF SharesKept, Shared

-----------------------------------------------------------------------------
(* What is drawn. *)

LEMMA WishedAre ==
    ASSUME NEW b, NEW w, ButtonOf[b].rates \in DOMAIN RatesOf, NEW e \in WishedCards(b, w)
    PROVE  e.card \in Cards
<1> DEFINE chosen(c) == CASE c.type = Character -> c.id \in Range(w.characters)
                          [] c.type = Memoria -> c.id \in Range(w.memorias)
                          [] c.type = Skin -> c.id \in Range(w.skins)
                          [] OTHER -> FALSE
           all == UNION {Range(rate.cards) : rate \in Range(RatesOf[ButtonOf[b].rates])}
           wished == {c \in all : chosen(c)}
           n == Cardinality(wished)
           s == SetToSeq(wished)
<1>1. all \subseteq Cards BY Zenon DEF Cards
<1>2. e \in distribute_cards(s, 1..n, Units) BY Zenon DEF WishedCards
<1>3. wished \in SUBSET Cards BY <1>1
<1> HIDE DEF wished
<1>4. IsFiniteSet(wished) BY <1>3, CardsAre, FS_Subset
<1>5. n \in Nat /\ s \in Seq(wished) /\ Len(s) = n BY <1>4, SetAsSeq, FS_CardinalityType
<1>6. PICK i \in 1..n : e.card = s[i] BY <1>2, DistributedCards
<1>7. s[i] \in wished BY <1>5, <1>6, ElementOfSeq
<1> QED BY <1>3, <1>6, <1>7

LEMMA RateCardsAre ==
    ASSUME NEW g, NEW rate, Range(rate.cards) \subseteq Cards, NEW w,
           PickupsFit(GachaOf[g], rate) \/ ~validate_wish_list(g, w),
           NEW e \in RateCards(g, rate, w)
    PROVE  e.card \in Cards
<1> DEFINE type == rate.cards[1].type
           pickups == Pickups(GachaOf[g], type)
           chosen == Chosen(w, type)
           F == FixedCards(type, pickups, chosen)
           R == distribute_cards(rate.cards, OtherPlaces(rate, pickups), rate.units - Weight(F))
<1>1. \A i \in DOMAIN rate.cards : rate.cards[i] \in Cards BY DEF Range
<1>2. CASE e \in distribute_cards(rate.cards, DOMAIN rate.cards, rate.units)
  BY <1>1, <1>2, DistributedCards
<1>3. CASE /\ GachaOf[g].select # 0 /\ rate.cards[1].rarity = 3 /\ validate_wish_list(g, w)
           /\ e \in WithPickups(rate, pickups, chosen)
  <2>1. PickupsFit(GachaOf[g], rate) BY <1>3
  <2>2. \A id \in pickups : \E c \in Cards : c.type = type /\ c.id = id
    BY <1>3, <2>1, Zenon DEF PickupsFit
  <2>3. e \in F \/ e \in R
    <3>1. R # {}
      <4> SUFFICES ASSUME R = {} PROVE FALSE OBVIOUS
      <4>1. WithPickups(rate, pickups, chosen) = {}
        BY Zenon DEF WithPickups, FixedCards, CardOf, FixedWeight
      <4> QED BY <1>3, <4>1
    <3>2. WithPickups(rate, pickups, chosen) = F \union R BY <3>1, WithPickupsIs
    <3> QED BY <1>3, <3>2
  <2>4. CASE e \in F
    <3> HIDE DEF pickups, chosen, type
    <3>1. PICK id \in pickups : e = [card |-> CardOf(type, id), place |-> 0,
                                     weight |-> FixedWeight(chosen, id)]
      BY <2>4 DEF FixedCards
    <3>2. CardOf(type, id) \in Cards BY <2>2, Zenon DEF CardOf
    <3> QED BY <3>1, <3>2
  <2>5. CASE e \in R
    <3>1. PICK i \in OtherPlaces(rate, pickups) : e.card = rate.cards[i]
      BY <2>5, DistributedCards
    <3>2. i \in DOMAIN rate.cards BY DEF OtherPlaces
    <3> QED BY <1>1, <3>1, <3>2
  <2> QED BY <2>3, <2>4, <2>5
<1> QED BY <1>2, <1>3, Zenon DEF RateCards, Chosen

LEMMA WeightedCardsAre ==
    ASSUME NEW g, NEW s \in DOMAIN RatesOf, NEW w,
           \/ \A i \in DOMAIN RatesOf[s] : PickupsFit(GachaOf[g], RatesOf[s][i])
           \/ ~validate_wish_list(g, w),
           NEW e \in weighted_gacha_cards(g, s, w)
    PROVE  e.card \in Cards
<1>1. PICK i \in DOMAIN RatesOf[s] : e \in RateCards(g, RatesOf[s][i], w)
  BY DEF weighted_gacha_cards
<1>2. Range(RatesOf[s][i].cards) \subseteq Cards BY RatesAre
<1>3. PickupsFit(GachaOf[g], RatesOf[s][i]) \/ ~validate_wish_list(g, w) OBVIOUS
<1> QED BY <1>1, <1>2, <1>3, RateCardsAre

\* The button of a step has rates.
LEMMA StepRates ==
    ASSUME NEW g \in GachaIds, NEW b, StepAllowed(g, b), counts[<<g, StepUp>>] \in Nat
    PROVE  ButtonOf[b].rates \in DOMAIN RatesOf
<1> DEFINE steps == GachaOf[g].steps
           n == Len(steps)
           k == (counts[<<g, StepUp>>] % n) + 1
<1>1. steps # <<>> /\ steps[k] = b BY DEF StepAllowed
<1>2. steps \in Seq(ButtonIds) /\ \A i \in DOMAIN steps : ButtonOf[steps[i]].rates \in DOMAIN RatesOf
  BY GachaTableAssumption, Zenon
<1> HIDE DEF steps
<1>3. n \in Nat \ {0} /\ DOMAIN steps = 1..n BY <1>1, <1>2, LenProperties, EmptySeq
<1>4. k \in 1..n
  <2> DEFINE c == counts[<<g, StepUp>>]
  <2>1. c \in Nat OBVIOUS
  <2> HIDE DEF c, n
  <2>2. c % n \in 0..(n - 1) BY <1>3, <2>1
  <2> QED BY <1>3, <2>2 DEF c
<1> HIDE DEF k
<1> QED BY <1>1, <1>2, <1>3, <1>4

LEMMA DrawnCardsAre ==
    ASSUME NEW g \in GachaIds, NEW b, NEW step_up \in BOOLEAN, Executable(g, b, step_up),
           counts[<<g, StepUp>>] \in Nat,
           NEW c \in select_weighted_card(DrawnFrom(g, b, step_up))
    PROVE  c \in Cards
<1>1. PICK e \in DrawnFrom(g, b, step_up) : c = e.card BY DEF select_weighted_card
<1>2. CASE ~step_up
  <2>1. e \in weighted_gacha_cards(g, GachaOf[g].rates, wishes[g]) BY <1>1, <1>2 DEF DrawnFrom
  <2> QED BY <1>1, <2>1, GachaIs, WeightedCardsAre
<1>3. CASE step_up
  <2>1. StepAllowed(g, b) BY <1>3, Zenon DEF Executable
  <2>2. ButtonOf[b].rates \in DOMAIN RatesOf BY <2>1, StepRates
  <2>3. ~validate_wish_list(g, NoWishList) BY Zenon DEF validate_wish_list
  <2>4. e \in weighted_gacha_cards(g, ButtonOf[b].rates, NoWishList) \/ e \in WishedCards(b, wishes[g])
    BY <1>1, <1>3 DEF DrawnFrom
  <2> QED BY <1>1, <2>2, <2>3, <2>4, WeightedCardsAre, WishedAre
<1> QED BY <1>2, <1>3

-----------------------------------------------------------------------------
(* Copies: what an account has against how often a card was drawn. *)

Entry == [entity: Nat \ {0}, id: MemoriaKinds]
HaveRec ==
    [characters: Seq(CharacterIds), pieces: [CharacterIds -> Nat], memorias: Seq(Entry),
     items: [ItemIds -> Nat], skins: SUBSET Nat, new: SUBSET CharacterIds]

CopiesFrom(tally, type, id) == SumFunctionOnSet(tally, CardsOf[<<type, id>>])
AgainIn(tally, c) == CopiesFrom(tally, Character, c) - (IF c \in OwnedAtStart THEN 0 ELSE 1)

CharactersTallied(known, gained, tally) ==
    /\ IsInjective(known)
    /\ \A c \in CharacterIds :
         /\ c \in Range(known) <=> c \in OwnedAtStart \/ CopiesFrom(tally, Character, c) > 0
         /\ AgainIn(tally, c) > 0 => gained[c] >= AgainIn(tally, c)
         /\ AgainIn(tally, c) <= 0 => gained[c] = 0

MemoriasTallied(ms, tally) ==
    /\ IsInjective([i \in DOMAIN ms |-> ms[i].entity])
    /\ \A m \in MemoriaKinds :
         Cardinality({i \in DOMAIN ms : ms[i].id = m}) = CopiesFrom(tally, Memoria, m)

\* What an account has during an execution, when tally counts the cards drawn so far.
HaveOK(have, tally) ==
    /\ have \in HaveRec
    /\ Range(have.characters) = index \union have.new
    /\ CharactersTallied(have.characters, have.pieces, tally)
    /\ MemoriasTallied(have.memorias, tally)

Tallied(tally, c) == [tally EXCEPT ![c] = @ + 1]

LEMMA CopiesAre ==
    ASSUME NEW type \in {Character, Memoria}, NEW id \in CharacterIds \union MemoriaKinds
    PROVE  /\ CardsOf[<<type, id>>] = {c \in Cards : c.type = type /\ c.id = id}
           /\ IsFiniteSet(CardsOf[<<type, id>>])
<1> DEFINE D == {Character, Memoria} \X (CharacterIds \union MemoriaKinds)
           S == {c \in Cards : <<c.type, c.id>> = <<type, id>>}
<1>1. <<type, id>> \in D OBVIOUS
<1>2. CardsOf[<<type, id>>] = S BY <1>1, Zenon DEF CardsOf
<1>3. S = {c \in Cards : c.type = type /\ c.id = id} OBVIOUS
<1>4. S \in SUBSET Cards OBVIOUS
<1> HIDE DEF S
<1>5. IsFiniteSet(S) BY <1>4, CardsAre, FS_Subset
<1> QED BY <1>2, <1>3, <1>5

LEMMA CopiesCount ==
    ASSUME NEW type \in {Character, Memoria}, NEW id \in CharacterIds \union MemoriaKinds,
           NEW tally \in [Cards -> Nat], NEW c \in Cards
    PROVE  /\ CopiesFrom(tally, type, id) \in Nat
           /\ CopiesFrom(Tallied(tally, c), type, id)
                = CopiesFrom(tally, type, id) + (IF c.type = type /\ c.id = id THEN 1 ELSE 0)
<1> DEFINE S == CardsOf[<<type, id>>]
           more == Tallied(tally, c)
<1>1. IsFiniteSet(S) /\ \A d : d \in S <=> d \in Cards /\ d.type = type /\ d.id = id
  BY CopiesAre
<1>2. \A d \in S : tally[d] \in Nat /\ tally[d] \in Int BY <1>1
<1>3. more[c] = tally[c] + 1 /\ \A d \in Cards : more[d] \in Int /\ (d # c => tally[d] = more[d])
  BY DEF Tallied
<1>4. \A d \in S : more[d] \in Int /\ (d # c => tally[d] = more[d]) BY <1>1, <1>3
<1>5. tally[c] \in Nat OBVIOUS
<1>6. CopiesFrom(tally, type, id) = SumFunctionOnSet(tally, S)
      /\ CopiesFrom(more, type, id) = SumFunctionOnSet(more, S)
  BY DEF CopiesFrom
<1> HIDE DEF S, more
<1>7. SumFunctionOnSet(tally, S) \in Nat BY <1>1, <1>2, SumNat
<1>8. CASE c.type = type /\ c.id = id
  <2>1. c \in S BY <1>1, <1>8
  <2>2. SumFunctionOnSet(more, S) = SumFunctionOnSet(tally, S) - tally[c] + more[c]
    BY <1>1, <1>2, <1>4, <2>1, SumChanged
  <2>3. SumFunctionOnSet(more, S) = SumFunctionOnSet(tally, S) + 1
    BY <1>3, <1>5, <1>7, <2>2
  <2> QED BY <1>6, <1>7, <1>8, <2>3 DEF more
<1>9. CASE ~(c.type = type /\ c.id = id)
  <2>1. c \notin S BY <1>1, <1>9
  <2>2. \A d \in S : tally[d] \in Int /\ tally[d] = more[d] BY <1>2, <1>4, <2>1
  <2>3. SumFunctionOnSet(tally, S) = SumFunctionOnSet(more, S) BY <1>1, <2>2, SumSame
  <2>4. SumFunctionOnSet(more, S) = SumFunctionOnSet(tally, S) + 0 BY <1>7, <2>3
  <2> QED BY <1>6, <1>7, <1>9, <2>4 DEF more
<1> QED BY <1>8, <1>9

LEMMA LeastOf ==
    ASSUME NEW S, S \subseteq Nat, S # {}
    PROVE  Min(S) \in S
<1>1. \E n \in S : \A m \in S : n <= m BY LeastNumber
<1> QED BY <1>1, Zenon DEF Min

LEMMA BonusIs ==
    ASSUME NEW bonuses \in Seq(Bonus), NEW fitting \in SUBSET DOMAIN bonuses, fitting # {}
    PROVE  bonuses[Min(fitting)] \in Bonus
<1>1. DOMAIN bonuses \subseteq Nat BY LenProperties
<1>2. fitting \subseteq Nat BY <1>1
<1>3. Min(fitting) \in fitting BY <1>2, LeastOf
<1> DEFINE i == Min(fitting)
<1>4. i \in DOMAIN bonuses BY <1>3
<1> HIDE DEF i
<1>5. bonuses[i] \in Bonus BY <1>4, ElementOfSeq, LenProperties
<1> QED BY <1>5 DEF i

\* Every further copy of a character pays at least a piece.
LEMMA DuplicatePays ==
    ASSUME NEW g \in GachaIds, NEW b \in ButtonIds, NEW c
    PROVE  /\ DuplicateCounts(g, b, c).pieces \in Nat \ {0}
           /\ DuplicateCounts(g, b, c).stones \in Nat
<1>1. GachaOf[g].duplicates \in Seq(Bonus) /\ ButtonOf[b].duplicates \in Seq(Bonus)
  BY GachaTableAssumption, Zenon
<1>2. /\ gacha_duplicate_counts(g, c).pieces \in Nat \ {0}
      /\ gacha_duplicate_counts(g, c).stones \in Nat
  <2> DEFINE bonuses == GachaOf[g].duplicates
             fitting == {i \in DOMAIN bonuses : c.id \in bonuses[i].characters}
             n == IF c.rarity = 1 THEN 1 ELSE IF c.rarity = 2 THEN 10 ELSE 50
             d == IF fitting # {} THEN bonuses[Min(fitting)]
                  ELSE [characters |-> {}, pieces |-> n, stones |-> n]
  <2>1. gacha_duplicate_counts(g, c) = d BY Zenon DEF gacha_duplicate_counts
  <2>2. fitting # {} => bonuses[Min(fitting)] \in Bonus
    <3>1. fitting \in SUBSET DOMAIN bonuses OBVIOUS
    <3> HIDE DEF fitting, bonuses
    <3> QED BY <1>1, <3>1, BonusIs DEF bonuses
  <2>3. n \in Nat \ {0} OBVIOUS
  <2> HIDE DEF fitting, n
  <2>4. d \in Bonus BY <2>2, <2>3 DEF Bonus
  <2> QED BY <2>1, <2>4 DEF Bonus
<1>3. CASE {i \in DOMAIN ButtonOf[b].duplicates :
               ButtonOf[b].duplicates[i].characters = {}
               \/ c.id \in ButtonOf[b].duplicates[i].characters} = {}
  BY <1>2, <1>3 DEF DuplicateCounts
<1>4. CASE {i \in DOMAIN ButtonOf[b].duplicates :
               ButtonOf[b].duplicates[i].characters = {}
               \/ c.id \in ButtonOf[b].duplicates[i].characters} # {}
  <2> DEFINE bonuses == ButtonOf[b].duplicates
             fitting == {i \in DOMAIN bonuses :
                           bonuses[i].characters = {} \/ c.id \in bonuses[i].characters}
  <2>1. DuplicateCounts(g, b, c) = bonuses[Min(fitting)] BY <1>4, Zenon DEF DuplicateCounts
  <2>2. fitting \in SUBSET DOMAIN bonuses /\ fitting # {} BY <1>4
  <2> HIDE DEF fitting
  <2>3. bonuses[Min(fitting)] \in Bonus BY <1>1, <2>2, BonusIs
  <2> QED BY <2>1, <2>3 DEF Bonus
<1> QED BY <1>3, <1>4

LEMMA CardKinds ==
    /\ Character # Memoria /\ Stone \in ItemIds
    /\ \A c \in Cards :
         /\ c \in Card
         /\ c.type = Character => c.id \in CharacterIds
         /\ c.type = Memoria => c.id \in MemoriaKinds
         /\ c.type = Item => c.id \in ItemIds
<1>1. Character # Memoria /\ Stone \in ItemIds BY DEF Character, Memoria, ItemIds
<1>2. ASSUME NEW c \in Cards
      PROVE  /\ c \in Card
             /\ c.type = Character => c.id \in CharacterIds
             /\ c.type = Memoria => c.id \in MemoriaKinds
             /\ c.type = Item => c.id \in ItemIds
  <2>1. c \in Card BY CardsAre
  <2>2. \A type : c.type = type => c.id \in Ids(type) BY DEF Ids
  <2> QED BY <2>1, <2>2 DEF CharacterIds, MemoriaKinds, ItemIds
<1> QED BY <1>1, <1>2

\* What a card does to the copies of its kind and of others.
LEMMA CharacterTally ==
    ASSUME NEW tally \in [Cards -> Nat], NEW c \in Cards, NEW id \in CharacterIds
    PROVE  /\ CopiesFrom(tally, Character, id) \in Nat
           /\ CopiesFrom(Tallied(tally, c), Character, id)
                = CopiesFrom(tally, Character, id)
                    + (IF c.type = Character /\ c.id = id THEN 1 ELSE 0)
           /\ AgainIn(tally, id) \in Int
           /\ AgainIn(Tallied(tally, c), id)
                = AgainIn(tally, id) + (IF c.type = Character /\ c.id = id THEN 1 ELSE 0)
<1> DEFINE before == CopiesFrom(tally, Character, id)
           after == CopiesFrom(Tallied(tally, c), Character, id)
           one == IF c.type = Character /\ c.id = id THEN 1 ELSE 0
           own == IF id \in OwnedAtStart THEN 0 ELSE 1
<1>1. before \in Nat /\ after = before + one BY CopiesCount
<1>2. AgainIn(tally, id) = before - own /\ AgainIn(Tallied(tally, c), id) = after - own
  BY DEF AgainIn
<1>3. one \in Nat /\ own \in Nat OBVIOUS
<1> HIDE DEF before, after, one, own
<1>4. AgainIn(tally, id) \in Int /\ AgainIn(Tallied(tally, c), id) = AgainIn(tally, id) + one
  BY <1>1, <1>2, <1>3
<1> QED BY <1>1, <1>4 DEF before, after, one

LEMMA CopyCounted ==
    ASSUME NEW known, NEW gained \in [CharacterIds -> Nat], NEW tally \in [Cards -> Nat],
           CharactersTallied(known, gained, tally),
           NEW c \in Cards, c.type = Character, c.id \in Range(known),
           NEW d \in Nat \ {0}, NEW more, more = [gained EXCEPT ![c.id] = @ + d]
    PROVE  CharactersTallied(known, more, Tallied(tally, c))
<1> DEFINE now == Tallied(tally, c)
<1>1. c.id \in CharacterIds BY CardKinds
<1>2. more[c.id] = gained[c.id] + d /\ \A id \in CharacterIds : id # c.id => more[id] = gained[id]
  BY <1>1
<1>3. IsInjective(known) BY DEF CharactersTallied
<1>4. ASSUME NEW id \in CharacterIds
      PROVE  /\ id \in Range(known) <=> id \in OwnedAtStart \/ CopiesFrom(now, Character, id) > 0
             /\ AgainIn(now, id) > 0 => more[id] >= AgainIn(now, id)
             /\ AgainIn(now, id) <= 0 => more[id] = 0
  <2> DEFINE x == CopiesFrom(tally, Character, id)
             y == CopiesFrom(now, Character, id)
             a == AgainIn(tally, id)
             b == AgainIn(now, id)
             p == gained[id]
             own == IF id \in OwnedAtStart THEN 0 ELSE 1
  <2>1. /\ x \in Nat /\ y = x + (IF c.type = Character /\ c.id = id THEN 1 ELSE 0)
        /\ a \in Int /\ b = a + (IF c.type = Character /\ c.id = id THEN 1 ELSE 0)
    BY CharacterTally
  <2>2. /\ id \in Range(known) <=> id \in OwnedAtStart \/ x > 0
        /\ a > 0 => p >= a
        /\ a <= 0 => p = 0
    BY DEF CharactersTallied
  <2>3. a = x - own /\ p \in Nat BY DEF AgainIn
  <2>4. own \in 0..1 /\ (id \in OwnedAtStart <=> own = 0) OBVIOUS
  <2> HIDE DEF x, y, a, b, p, own, now
  <2>5. CASE id = c.id
    <3>1. y = x + 1 /\ b = a + 1 /\ more[id] = p + d BY <1>2, <2>1, <2>5 DEF p
    <3>2. x >= own BY <2>1, <2>2, <2>4, <2>5
    <3>3. a >= 0 BY <2>1, <2>3, <2>4, <3>2
    <3>4. p >= a /\ b > 0 BY <2>1, <2>2, <2>3, <3>1, <3>3
    <3>5. p + d >= a + 1 BY <2>1, <2>3, <3>4
    <3>6. y > 0 BY <2>1, <3>1
    <3>7. id \in Range(known) <=> id \in OwnedAtStart \/ y > 0 BY <2>5, <3>6
    <3>8. b > 0 => more[id] >= b BY <3>1, <3>5
    <3>9. ~(b <= 0) BY <2>1, <3>1, <3>4
    <3> QED BY <3>7, <3>8, <3>9 DEF y, b
  <2>6. CASE id # c.id
    <3>1. y = x /\ b = a /\ more[id] = p BY <1>2, <2>1, <2>6 DEF p
    <3> QED BY <2>2, <3>1 DEF y, b
  <2> QED BY <2>5, <2>6
<1> QED BY <1>3, <1>4 DEF CharactersTallied

LEMMA RangeOfAppend ==
    ASSUME NEW S, NEW s \in Seq(S), NEW x
    PROVE  Range(Append(s, x)) = Range(s) \union {x}
<1> DEFINE n == Len(s)
           T == S \union {x}
           t == Append(s, x)
<1>1. n \in Nat /\ DOMAIN s = 1..n BY LenProperties
<1>2. s \in Seq(T) BY SeqMonotonic
<1>3. /\ Len(t) = n + 1 /\ t[n + 1] = x /\ (\A i \in 1..n : t[i] = s[i])
      /\ DOMAIN t = 1..(n + 1)
  BY <1>2, AppendProperties, LenProperties
<1> HIDE DEF t, n
<1>4. \A i \in DOMAIN t : i \in DOMAIN s \/ i = n + 1 BY <1>1, <1>3
<1>5. \A i \in DOMAIN s : i \in DOMAIN t /\ t[i] = s[i] BY <1>1, <1>3
<1>6. n + 1 \in DOMAIN t BY <1>1, <1>3
<1>7. Range(t) = Range(s) \union {x}
  <2>1. \A y \in Range(t) : y \in Range(s) \union {x} BY <1>3, <1>4, <1>5 DEF Range
  <2>2. \A y \in Range(s) \union {x} : y \in Range(t) BY <1>3, <1>5, <1>6 DEF Range
  <2> QED BY <2>1, <2>2
<1> QED BY <1>7 DEF t

LEMMA InjectiveAppend ==
    ASSUME NEW S, NEW s \in Seq(S), IsInjective(s), NEW x, x \notin Range(s)
    PROVE  IsInjective(Append(s, x))
<1> DEFINE n == Len(s)
           T == S \union {x}
           t == Append(s, x)
<1>1. n \in Nat /\ DOMAIN s = 1..n BY LenProperties
<1>2. s \in Seq(T) BY SeqMonotonic
<1>3. /\ Len(t) = n + 1 /\ t[n + 1] = x /\ (\A i \in 1..n : t[i] = s[i])
      /\ DOMAIN t = 1..(n + 1)
  BY <1>2, AppendProperties, LenProperties
<1>4. \A i \in 1..n : s[i] # x BY <1>1 DEF Range
<1>5. \A i, j \in 1..n : s[i] = s[j] => i = j BY <1>1 DEF IsInjective
<1> HIDE DEF t, n
<1>6. \A i \in DOMAIN t : i \in 1..n \/ i = n + 1 BY <1>1, <1>3
<1>7. IsInjective(t)
  <2>1. ASSUME NEW i \in DOMAIN t, NEW j \in DOMAIN t, t[i] = t[j] PROVE i = j
    <3>1. CASE i \in 1..n /\ j \in 1..n BY <1>3, <1>5, <2>1, <3>1
    <3>2. CASE i = n + 1 /\ j = n + 1 BY <3>2
    <3>3. CASE i \in 1..n /\ j = n + 1 BY <1>3, <1>4, <2>1, <3>3
    <3>4. CASE j \in 1..n /\ i = n + 1 BY <1>3, <1>4, <2>1, <3>4
    <3> QED BY <1>6, <3>1, <3>2, <3>3, <3>4
  <2> QED BY <2>1 DEF IsInjective
<1> QED BY <1>7 DEF t

LEMMA NewCounted ==
    ASSUME NEW known \in Seq(CharacterIds), NEW gained \in [CharacterIds -> Nat],
           NEW tally \in [Cards -> Nat], CharactersTallied(known, gained, tally),
           NEW c \in Cards, c.type = Character, c.id \notin Range(known)
    PROVE  CharactersTallied(Append(known, c.id), gained, Tallied(tally, c))
<1> DEFINE now == Tallied(tally, c)
           more == Append(known, c.id)
<1>1. c.id \in CharacterIds BY CardKinds
<1>2. Range(more) = Range(known) \union {c.id} BY RangeOfAppend
<1>3. IsInjective(more) BY InjectiveAppend DEF CharactersTallied
<1> HIDE DEF more
<1>4. ASSUME NEW id \in CharacterIds
      PROVE  /\ id \in Range(more) <=> id \in OwnedAtStart \/ CopiesFrom(now, Character, id) > 0
             /\ AgainIn(now, id) > 0 => gained[id] >= AgainIn(now, id)
             /\ AgainIn(now, id) <= 0 => gained[id] = 0
  <2> DEFINE x == CopiesFrom(tally, Character, id)
             y == CopiesFrom(now, Character, id)
             a == AgainIn(tally, id)
             b == AgainIn(now, id)
             p == gained[id]
  <2>1. /\ x \in Nat /\ y = x + (IF c.type = Character /\ c.id = id THEN 1 ELSE 0)
        /\ a \in Int /\ b = a + (IF c.type = Character /\ c.id = id THEN 1 ELSE 0)
    BY CharacterTally
  <2>2. /\ id \in Range(known) <=> id \in OwnedAtStart \/ x > 0
        /\ a > 0 => p >= a
        /\ a <= 0 => p = 0
    BY DEF CharactersTallied
  <2>3. a = x - (IF id \in OwnedAtStart THEN 0 ELSE 1) /\ p \in Nat BY DEF AgainIn
  <2> HIDE DEF x, y, a, b, p, now
  <2>4. CASE id = c.id
    <3>1. y = x + 1 /\ b = a + 1 BY <2>1, <2>4
    <3>2. id \notin OwnedAtStart /\ x = 0 BY <2>1, <2>2, <2>4
    <3>3. a = -1 BY <2>3, <3>2
    <3>4. b = 0 /\ p = 0 /\ y > 0 BY <2>2, <3>1, <3>2, <3>3
    <3> QED BY <1>2, <2>4, <3>4 DEF y, b, p
  <2>5. CASE id # c.id
    <3>1. y = x /\ b = a BY <2>1, <2>5
    <3>2. id \in Range(more) <=> id \in Range(known) BY <1>2, <2>5
    <3> QED BY <2>2, <3>1, <3>2 DEF y, b, p
  <2> QED BY <2>4, <2>5
<1> QED BY <1>3, <1>4 DEF CharactersTallied, more

LEMMA OtherCounted ==
    ASSUME NEW known, NEW gained, NEW tally \in [Cards -> Nat],
           CharactersTallied(known, gained, tally), NEW c \in Cards, c.type # Character
    PROVE  CharactersTallied(known, gained, Tallied(tally, c))
<1> DEFINE now == Tallied(tally, c)
<1>1. \A id \in CharacterIds :
        /\ CopiesFrom(now, Character, id) = CopiesFrom(tally, Character, id)
        /\ AgainIn(now, id) = AgainIn(tally, id)
  <2> TAKE id \in CharacterIds
  <2>1. /\ CopiesFrom(tally, Character, id) \in Nat /\ AgainIn(tally, id) \in Int
        /\ CopiesFrom(now, Character, id) = CopiesFrom(tally, Character, id) + 0
        /\ AgainIn(now, id) = AgainIn(tally, id) + 0
    BY CharacterTally
  <2> QED BY <2>1
<1> QED BY <1>1 DEF CharactersTallied

\* The next entity id is above all that are there.
LEMMA NextMemoria ==
    ASSUME NEW ms \in Seq(Entry)
    PROVE  /\ next_memoria_id(ms) \in Nat \ {0}
           /\ \A i \in DOMAIN ms : ms[i].entity \in Nat \ {0} /\ ms[i].entity < next_memoria_id(ms)
<1> DEFINE R == Range(ms)
           f == [m \in R |-> m.entity]
           E == {m.entity : m \in R}
           S == {0} \union E
<1>1. IsFiniteSet(R) /\ R \subseteq Entry BY RangeIsFinite
<1>2. E = {f[m] : m \in R} OBVIOUS
<1>3. \A m \in R : m.entity \in Nat \ {0} BY <1>1 DEF Entry
<1>4. E \subseteq Nat BY <1>3
<1>5. next_memoria_id(ms) = Max(S) + 1 BY Zenon DEF next_memoria_id
<1>6. \A i \in DOMAIN ms : ms[i] \in R BY DEF Range
<1>7. \A m \in R : m.entity \in E OBVIOUS
<1> HIDE DEF R, f, E
<1>8. IsFiniteSet(E)
  <2>1. IsFiniteSet({f[m] : m \in R}) BY <1>1, FiniteImage
  <2> QED BY <1>2, <2>1
<1>9. IsFiniteSet(S) /\ S \subseteq Nat /\ S # {}
  <2>1. IsFiniteSet({0}) BY FS_Singleton
  <2>2. IsFiniteSet(S) BY <1>8, <2>1, FS_Union
  <2>3. S \subseteq Nat BY <1>4
  <2>4. S # {} OBVIOUS
  <2> QED BY <2>2, <2>3, <2>4
<1>10. E \subseteq S OBVIOUS
<1> HIDE DEF S
<1>11. Max(S) \in Nat /\ \A x \in S : x <= Max(S) BY <1>9, MaxOf
<1>12. next_memoria_id(ms) \in Nat \ {0} BY <1>5, <1>11
<1>13. ASSUME NEW i \in DOMAIN ms
       PROVE  ms[i].entity \in Nat \ {0} /\ ms[i].entity < next_memoria_id(ms)
  <2>1. ms[i].entity \in Nat \ {0} /\ ms[i].entity \in S BY <1>3, <1>6, <1>7, <1>10
  <2>2. ms[i].entity <= Max(S) BY <1>11, <2>1
  <2> QED BY <1>5, <1>11, <2>1, <2>2
<1> QED BY <1>12, <1>13

LEMMA MemoriaTally ==
    ASSUME NEW tally \in [Cards -> Nat], NEW c \in Cards, NEW id \in MemoriaKinds
    PROVE  /\ CopiesFrom(tally, Memoria, id) \in Nat
           /\ CopiesFrom(Tallied(tally, c), Memoria, id)
                = CopiesFrom(tally, Memoria, id) + (IF c.type = Memoria /\ c.id = id THEN 1 ELSE 0)
BY CopiesCount

LEMMA MemoriaCounted ==
    ASSUME NEW ms \in Seq(Entry), NEW tally \in [Cards -> Nat], MemoriasTallied(ms, tally),
           NEW c \in Cards, c.type = Memoria,
           NEW m, m = [entity |-> next_memoria_id(ms), id |-> c.id],
           NEW more, more = Append(ms, m)
    PROVE  more \in Seq(Entry) /\ MemoriasTallied(more, Tallied(tally, c))
<1> DEFINE now == Tallied(tally, c)
           n == Len(ms)
           x == next_memoria_id(ms)
<1>1. c.id \in MemoriaKinds BY CardKinds
<1>2. x \in Nat \ {0} /\ \A i \in DOMAIN ms : ms[i].entity < x /\ ms[i].entity \in Nat
  BY NextMemoria
<1>3. m \in Entry /\ m.entity = x /\ m.id = c.id BY <1>1, <1>2 DEF Entry
<1>4. n \in Nat /\ DOMAIN ms = 1..n BY LenProperties
<1>5. /\ more \in Seq(Entry) /\ Len(more) = n + 1 /\ more[n + 1] = m
      /\ (\A i \in 1..n : more[i] = ms[i]) /\ DOMAIN more = 1..(n + 1)
  BY <1>3, AppendProperties, LenProperties
<1>6. \A i, j \in 1..n : ms[i].entity = ms[j].entity => i = j
  BY <1>4 DEF MemoriasTallied, IsInjective
<1> HIDE DEF n, x
<1>7. \A i \in DOMAIN more : i \in 1..n \/ i = n + 1 BY <1>4, <1>5
<1>8. ASSUME NEW i \in DOMAIN more, NEW j \in DOMAIN more, more[i].entity = more[j].entity
      PROVE  i = j
  <2>1. \A k \in 1..n : more[k].entity # x
    <3> TAKE k \in 1..n
    <3>1. ms[k].entity < x /\ ms[k].entity \in Nat BY <1>2, <1>4
    <3>2. more[k].entity = ms[k].entity BY <1>5
    <3> DEFINE e == ms[k].entity
    <3> HIDE DEF e
    <3>3. e < x /\ e \in Nat /\ x \in Nat BY <1>2, <3>1 DEF e
    <3>4. e # x BY <3>3
    <3> QED BY <3>2, <3>4 DEF e
  <2>2. more[n + 1].entity = x BY <1>3, <1>5
  <2>3. CASE i \in 1..n /\ j \in 1..n BY <1>5, <1>6, <1>8, <2>3
  <2>4. CASE i = n + 1 /\ j = n + 1 BY <2>4
  <2>5. CASE i \in 1..n /\ j = n + 1 BY <1>8, <2>1, <2>2, <2>5
  <2>6. CASE j \in 1..n /\ i = n + 1 BY <1>8, <2>1, <2>2, <2>6
  <2> QED BY <1>7, <2>3, <2>4, <2>5, <2>6
<1>9. IsInjective([i \in DOMAIN more |-> more[i].entity]) BY <1>8 DEF IsInjective
<1>10. ASSUME NEW id \in MemoriaKinds
       PROVE  Cardinality({i \in DOMAIN more : more[i].id = id}) = CopiesFrom(now, Memoria, id)
  <2> DEFINE was == {i \in DOMAIN ms : ms[i].id = id}
             is == {i \in DOMAIN more : more[i].id = id}
             k == CopiesFrom(tally, Memoria, id)
  <2>1. Cardinality(was) = k BY DEF MemoriasTallied
  <2>2. /\ k \in Nat
        /\ CopiesFrom(now, Memoria, id) = k + (IF c.id = id THEN 1 ELSE 0)
    BY MemoriaTally
  <2>3. IsFiniteSet(was)
    <3>1. was \in SUBSET (1..n) BY <1>4
    <3> HIDE DEF was
    <3>2. IsFiniteSet(1..n)
      <4>1. 1 \in Int /\ n \in Int BY <1>4
      <4> QED BY <4>1, FS_Interval
    <3> QED BY <3>1, <3>2, FS_Subset
  <2>4. \A i \in 1..n : i \in DOMAIN more /\ i \in DOMAIN ms /\ more[i].id = ms[i].id
    BY <1>4, <1>5
  <2>5. n + 1 \in DOMAIN more /\ n + 1 \notin DOMAIN ms /\ more[n + 1].id = c.id
    BY <1>3, <1>4, <1>5
  <2>6. n + 1 \notin was BY <2>5
  <2>7. CASE c.id = id
    <3>1. is = was \union {n + 1}
      <4>1. \A i \in is : i \in was \union {n + 1} BY <1>4, <1>7, <2>4
      <4>2. \A i \in was \union {n + 1} : i \in is BY <1>4, <2>4, <2>5, <2>7
      <4> QED BY <4>1, <4>2
    <3> HIDE DEF is, was, k, now
    <3>2. Cardinality(is) = Cardinality(was) + 1 BY <2>3, <2>6, <3>1, FS_AddElement
    <3>3. Cardinality(is) = CopiesFrom(now, Memoria, id) BY <2>1, <2>2, <2>7, <3>2
    <3> QED BY <3>3 DEF is
  <2>8. CASE c.id # id
    <3>1. is = was
      <4>1. \A i \in is : i \in was BY <1>4, <1>7, <2>4, <2>5, <2>8
      <4>2. \A i \in was : i \in is BY <1>4, <2>4
      <4> QED BY <4>1, <4>2
    <3> HIDE DEF is, was, k, now
    <3>2. Cardinality(is) = CopiesFrom(now, Memoria, id) BY <2>1, <2>2, <2>8, <3>1
    <3> QED BY <3>2 DEF is
  <2> QED BY <2>7, <2>8
<1> QED BY <1>5, <1>9, <1>10 DEF MemoriasTallied

LEMMA OtherMemorias ==
    ASSUME NEW ms, NEW tally \in [Cards -> Nat], MemoriasTallied(ms, tally),
           NEW c \in Cards, c.type # Memoria
    PROVE  MemoriasTallied(ms, Tallied(tally, c))
<1> DEFINE now == Tallied(tally, c)
<1>1. \A id \in MemoriaKinds : CopiesFrom(now, Memoria, id) = CopiesFrom(tally, Memoria, id)
  <2> TAKE id \in MemoriaKinds
  <2>1. /\ CopiesFrom(tally, Memoria, id) \in Nat
        /\ CopiesFrom(now, Memoria, id) = CopiesFrom(tally, Memoria, id) + 0
    BY MemoriaTally
  <2> QED BY <2>1
<1> QED BY <1>1 DEF MemoriasTallied

\* One more card keeps the counts, whatever it is and whatever was drawn before it.
LEMMA DrawnKeeps ==
    ASSUME NEW tally \in [Cards -> Nat], NEW have, HaveOK(have, tally),
           NEW g \in GachaIds, NEW b \in ButtonIds, NEW c \in Cards,
           NEW got, got = Drawn(g, b, have, c)
    PROVE  HaveOK(got, Tallied(tally, c))
<1> DEFINE d == DuplicateCounts(g, b, c)
           now == Tallied(tally, c)
           known == have.characters
           gained == have.pieces
           ms == have.memorias
<1>1. /\ have \in HaveRec /\ Range(known) = index \union have.new
      /\ CharactersTallied(known, gained, tally) /\ MemoriasTallied(ms, tally)
  BY DEF HaveOK
<1>2. /\ known \in Seq(CharacterIds) /\ gained \in [CharacterIds -> Nat] /\ ms \in Seq(Entry)
      /\ have.items \in [ItemIds -> Nat] /\ have.skins \in SUBSET Nat
      /\ have.new \in SUBSET CharacterIds
  BY <1>1 DEF HaveRec
<1>3. c \in Card /\ Stone \in ItemIds BY CardKinds
<1>4. c.type \in {Character, Item, Memoria, Skin} /\ c.id \in Nat /\ c.skin \in Nat
      /\ c.duplicate \in Nat
  BY <1>3 DEF Card
<1>5. d.pieces \in Nat \ {0} /\ d.stones \in Nat BY DuplicatePays
<1>6. Character # Item /\ Character # Memoria /\ Character # Skin /\ Item # Memoria
             /\ Item # Skin /\ Memoria # Skin
  BY DEF Character, Item, Memoria, Skin
<1> HIDE DEF d, now
<1>7. CASE c.type = Character /\ c.id \in Range(known)
  <2> DEFINE more == [gained EXCEPT ![c.id] = @ + d.pieces]
             stock == [have.items EXCEPT ![Stone] = @ + d.stones]
  <2>1. got = [have EXCEPT !.pieces = more, !.items = stock]
    BY <1>6, <1>7, Zenon DEF Drawn, d
  <2>2. c.id \in CharacterIds BY <1>7, CardKinds
  <2>3. more \in [CharacterIds -> Nat] /\ stock \in [ItemIds -> Nat]
    <3> DEFINE u == d.pieces
               v == d.stones
    <3>1. u \in Nat /\ v \in Nat BY <1>5
    <3> HIDE DEF u, v
    <3>2. [gained EXCEPT ![c.id] = @ + u] \in [CharacterIds -> Nat] BY <1>2, <2>2, <3>1
    <3>3. [have.items EXCEPT ![Stone] = @ + v] \in [ItemIds -> Nat] BY <1>2, <1>3, <3>1
    <3> QED BY <3>2, <3>3 DEF u, v
  <2>4. CharactersTallied(known, more, now)
    BY <1>1, <1>2, <1>5, <1>7, CopyCounted DEF now
  <2>5. MemoriasTallied(ms, now) BY <1>1, <1>6, <1>7, OtherMemorias DEF now
  <2> HIDE DEF more, stock
  <2>6. got \in HaveRec BY <1>1, <2>1, <2>3 DEF HaveRec
  <2>7. /\ got.characters = known /\ got.pieces = more /\ got.memorias = ms
        /\ got.new = have.new
    BY <1>1, <2>1 DEF HaveRec
  <2> QED BY <1>1, <2>4, <2>5, <2>6, <2>7 DEF HaveOK, now
<1>8. CASE c.type = Character /\ c.id \notin Range(known)
  <2> DEFINE more == Append(known, c.id)
             worn == have.skins \union ({c.skin} \ {0})
             new == have.new \union {c.id}
  <2>1. got = [have EXCEPT !.characters = more, !.new = new, !.skins = worn]
    BY <1>6, <1>8, Zenon DEF Drawn
  <2>2. c.id \in CharacterIds BY <1>8, CardKinds
  <2>3. more \in Seq(CharacterIds) BY <1>2, <2>2, AppendProperties
  <2>4. worn \in SUBSET Nat /\ new \in SUBSET CharacterIds BY <1>2, <1>4, <2>2
  <2>5. CharactersTallied(more, gained, now)
    BY <1>1, <1>2, <1>8, NewCounted DEF now
  <2>6. MemoriasTallied(ms, now) BY <1>1, <1>6, <1>8, OtherMemorias DEF now
  <2>7. Range(more) = Range(known) \union {c.id} BY <1>2, RangeOfAppend
  <2>8. Range(more) = index \union new BY <1>1, <2>7
  <2> HIDE DEF more, worn, new
  <2>9. got \in HaveRec BY <1>1, <2>1, <2>3, <2>4 DEF HaveRec
  <2>10. /\ got.characters = more /\ got.pieces = gained /\ got.memorias = ms /\ got.new = new
    BY <1>1, <2>1 DEF HaveRec
  <2> QED BY <2>5, <2>6, <2>8, <2>9, <2>10 DEF HaveOK, now
<1>9. CASE c.type = Memoria
  <2> DEFINE m == [entity |-> next_memoria_id(ms), id |-> c.id]
             more == Append(ms, m)
  <2>1. got = [have EXCEPT !.memorias = more] BY <1>6, <1>9, Zenon DEF Drawn
  <2>2. m = [entity |-> next_memoria_id(ms), id |-> c.id] /\ more = Append(ms, m) OBVIOUS
  <2> HIDE DEF m, more
  <2>3. more \in Seq(Entry) /\ MemoriasTallied(more, now)
    BY <1>1, <1>2, <1>9, <2>2, MemoriaCounted DEF now
  <2>4. CharactersTallied(known, gained, now) BY <1>1, <1>6, <1>9, OtherCounted DEF now
  <2>5. got \in HaveRec BY <1>1, <2>1, <2>3 DEF HaveRec
  <2>6. /\ got.characters = known /\ got.pieces = gained /\ got.memorias = more
        /\ got.new = have.new
    BY <1>1, <2>1 DEF HaveRec
  <2> QED BY <1>1, <2>3, <2>4, <2>5, <2>6 DEF HaveOK, now
<1>10. CASE c.type = Item \/ c.type = Skin
  <2>1. CharactersTallied(known, gained, now) /\ MemoriasTallied(ms, now)
    BY <1>1, <1>6, <1>10, OtherCounted, OtherMemorias DEF now
  <2>2. PICK stock \in [ItemIds -> Nat], worn \in SUBSET Nat :
          got = [have EXCEPT !.items = stock, !.skins = worn]
    <3>1. CASE c.type = Item
      <4> DEFINE stock == [have.items EXCEPT ![c.id] = @ + 1]
      <4>1. c.id \in ItemIds BY <3>1, CardKinds
      <4>2. stock \in [ItemIds -> Nat] BY <1>2, <4>1
      <4>3. got = [have EXCEPT !.items = stock] BY <1>6, <3>1, Zenon DEF Drawn
      <4> HIDE DEF stock
      <4>4. got = [have EXCEPT !.items = stock, !.skins = have.skins]
        BY <1>1, <4>3 DEF HaveRec
      <4> QED BY <1>2, <4>2, <4>4
    <3>2. CASE c.type = Skin /\ c.id \notin have.skins
      <4> DEFINE worn == have.skins \union {c.id}
      <4>1. got = [have EXCEPT !.skins = worn] BY <1>6, <3>2, Zenon DEF Drawn
      <4>2. worn \in SUBSET Nat BY <1>2, <1>4
      <4> HIDE DEF worn
      <4>3. got = [have EXCEPT !.items = have.items, !.skins = worn]
        BY <1>1, <4>1 DEF HaveRec
      <4> QED BY <1>2, <4>2, <4>3
    <3>3. CASE c.type = Skin /\ c.id \in have.skins
      <4> DEFINE stock == [have.items EXCEPT ![Stone] = @ + c.duplicate]
      <4>1. stock \in [ItemIds -> Nat] BY <1>2, <1>3, <1>4
      <4>2. got = [have EXCEPT !.items = stock] BY <1>6, <3>3, Zenon DEF Drawn
      <4> HIDE DEF stock
      <4>3. got = [have EXCEPT !.items = stock, !.skins = have.skins]
        BY <1>1, <4>2 DEF HaveRec
      <4> QED BY <1>2, <4>1, <4>3
    <3> QED BY <1>10, <3>1, <3>2, <3>3
  <2>3. got \in HaveRec BY <1>1, <2>2 DEF HaveRec
  <2>4. /\ got.characters = known /\ got.pieces = gained /\ got.memorias = ms
        /\ got.new = have.new
    BY <1>1, <2>2 DEF HaveRec
  <2> QED BY <1>1, <2>1, <2>3, <2>4 DEF HaveOK, now
<1> QED BY <1>4, <1>7, <1>8, <1>9, <1>10

-----------------------------------------------------------------------------
(* An execution: the cards one after the other. *)

\* What an account may have during an execution.
Haves == {x \in HaveRec : \E tally \in [Cards -> Nat] : HaveOK(x, tally)}

\* What it has after the first cards of an execution.
DrawnTable(g, b, have, cards, h) ==
    /\ h[{}] = have
    /\ \A T \in SUBSET DOMAIN cards :
          T # {} => h[T] = Drawn(g, b, h[T \ {Max(T)}], cards[Max(T)])

LEMMA DrawnFold ==
    ASSUME NEW g \in GachaIds, NEW b \in ButtonIds, NEW have \in Haves,
           NEW n \in Nat, NEW cards \in [1..n -> Cards]
    PROVE  \E h : DrawnTable(g, b, have, cards, h) /\ DrawnAll(g, b, have, cards) = h[DOMAIN cards]
<1> DEFINE D == DOMAIN cards
           step == [p \in Haves \X D |-> Drawn(g, b, p[1], cards[p[2]])]
           pick == [T \in SUBSET D |-> Max(T)]
           R(h) == h = [T \in SUBSET D |->
                IF T = {} THEN have
                ELSE LET x == Max(T) IN Drawn(g, b, h[T \ {x}], cards[x])]
<1>0. D = 1..n /\ IsFiniteSet(D) /\ D \subseteq Nat
  <2>1. 1 \in Int /\ n \in Int OBVIOUS
  <2>2. IsFiniteSet(1..n) BY <2>1, FS_Interval
  <2> QED BY <2>2
<1>1. \A T \in SUBSET D : T # {} => Max(T) \in T
  <2> TAKE T \in SUBSET D
  <2>1. IsFiniteSet(T) /\ T \subseteq Nat BY <1>0, FS_Subset
  <2> QED BY <2>1, MaxOf
<1>2. IsFoldStep(step, Haves, D)
  <2>1. ASSUME NEW a \in Haves, NEW i \in D PROVE Drawn(g, b, a, cards[i]) \in Haves
    <3>1. PICK tally \in [Cards -> Nat] : HaveOK(a, tally) BY DEF Haves
    <3>2. cards[i] \in Cards OBVIOUS
    <3>3. HaveOK(Drawn(g, b, a, cards[i]), Tallied(tally, cards[i]))
      BY <3>1, <3>2, DrawnKeeps
    <3>4. Tallied(tally, cards[i]) \in [Cards -> Nat] BY <3>2 DEF Tallied
    <3>5. Drawn(g, b, a, cards[i]) \in HaveRec BY <3>3 DEF HaveOK
    <3> QED BY <3>3, <3>4, <3>5, Zenon DEF Haves
  <2> QED BY <2>1 DEF IsFoldStep
<1>4. PICK c : IsFold(have, step, pick, Haves, D, c)
  <2>1. \A T \in SUBSET D : T # {} => pick[T] \in T BY <1>1
  <2>2. have \in Haves OBVIOUS
  <2> HIDE DEF step, pick, D
  <2> QED BY ONLY <1>0, <1>2, <2>1, <2>2, SetFoldExists
<1>14. c \in [SUBSET D -> Haves] /\ \A T \in SUBSET D : c[T] = FoldStep(have, step, pick, c, T)
  BY <1>4, Zenon DEF IsFold
<1>5. ASSUME NEW T \in SUBSET D, T # {}
      PROVE  c[T] = Drawn(g, b, c[T \ {Max(T)}], cards[Max(T)])
  <2> DEFINE U == T \ {Max(T)}
             x == Max(T)
  <2>1. c[T] = step[<<c[U], x>>] BY <1>14, <1>5, Zenon DEF FoldStep
  <2>2. x \in D /\ U \in SUBSET D BY <1>1, <1>5
  <2>3. c[U] \in Haves BY <1>14, <2>2
  <2> HIDE DEF U, x
  <2>4. step[<<c[U], x>>] = Drawn(g, b, c[U], cards[x]) BY <2>2, <2>3
  <2>5. c[T] = Drawn(g, b, c[U], cards[x]) BY <2>1, <2>4
  <2> QED BY <2>5, Zenon DEF U, x
<1>6. c[{}] = have BY <1>14, Zenon DEF FoldStep
<1>7. R(c)
  <2>1. c = [T \in SUBSET D |-> c[T]] BY <1>14
  <2>2. \A T \in SUBSET D : c[T] = IF T = {} THEN have
                ELSE LET x == Max(T) IN Drawn(g, b, c[T \ {x}], cards[x])
    BY <1>5, <1>6, Zenon
  <2> HIDE DEF D
  <2> QED BY <2>1, <2>2, Zenon
<1>8. R(CHOOSE h : R(h))
  <2>1. \E h : R(h) BY <1>7, Zenon
  <2> QED BY <2>1, Zenon
<1> DEFINE h == CHOOSE f : R(f)
<1>9. DrawnAll(g, b, have, cards) = h[D]
  BY Zenon DEF DrawnAll, FoldLeft, MapThenFoldSet
<1>10. R(h) BY <1>8, Zenon
<1> HIDE DEF h
<1>11. h = [T \in SUBSET D |-> IF T = {} THEN have
                ELSE LET x == Max(T) IN Drawn(g, b, h[T \ {x}], cards[x])]
  BY <1>10, Zenon
<1>12. \A T \in SUBSET D : h[T] = IF T = {} THEN have
                ELSE LET x == Max(T) IN Drawn(g, b, h[T \ {x}], cards[x])
  BY <1>11, Zenon
<1>13. DrawnTable(g, b, have, cards, h)
  <2>1. h[{}] = have BY <1>12, Zenon
  <2>2. \A T \in SUBSET D : T # {} => h[T] = Drawn(g, b, h[T \ {Max(T)}], cards[Max(T)])
    BY <1>12, Zenon
  <2> QED BY <2>1, <2>2, Zenon DEF DrawnTable
<1> QED BY <1>9, <1>13, Zenon

\* How often each card was drawn, with those of an execution at some places.
TallyOf(tally, cards, T) ==
    [c \in Cards |-> tally[c] + Cardinality({i \in T : cards[i] = c})]

LEMMA TallyIs ==
    ASSUME NEW tally \in [Cards -> Nat], NEW n \in Nat, NEW cards \in [1..n -> Cards]
    PROVE  /\ TallyOf(tally, cards, {}) = tally
           /\ \A T \in SUBSET (1..n) :
                /\ TallyOf(tally, cards, T) \in [Cards -> Nat]
                /\ \A x \in T : TallyOf(tally, cards, T)
                                  = Tallied(TallyOf(tally, cards, T \ {x}), cards[x])
<1>1. TallyOf(tally, cards, {}) = tally
  <2>1. \A c \in Cards : {i \in {} : cards[i] = c} = {} OBVIOUS
  <2>2. \A c \in Cards : tally[c] + Cardinality({i \in {} : cards[i] = c}) = tally[c]
    BY <2>1, FS_EmptySet
  <2> QED BY <2>2 DEF TallyOf
<1>2. IsFiniteSet(1..n)
  <2>1. 1 \in Int /\ n \in Int OBVIOUS
  <2> QED BY <2>1, FS_Interval
<1>3. ASSUME NEW T \in SUBSET (1..n) PROVE TallyOf(tally, cards, T) \in [Cards -> Nat]
  <2>1. ASSUME NEW c \in Cards PROVE tally[c] + Cardinality({i \in T : cards[i] = c}) \in Nat
    <3> DEFINE S == {i \in T : cards[i] = c}
    <3>1. S \in SUBSET (1..n) OBVIOUS
    <3> HIDE DEF S
    <3>2. Cardinality(S) \in Nat BY <1>2, <3>1, FS_Subset, FS_CardinalityType
    <3>3. tally[c] \in Nat OBVIOUS
    <3>4. tally[c] + Cardinality(S) \in Nat BY <3>2, <3>3
    <3> QED BY <3>4 DEF S
  <2> QED BY <2>1 DEF TallyOf
<1>4. ASSUME NEW T \in SUBSET (1..n), NEW x \in T
      PROVE  TallyOf(tally, cards, T) = Tallied(TallyOf(tally, cards, T \ {x}), cards[x])
  <2> DEFINE U == T \ {x}
             S(c) == {i \in T : cards[i] = c}
             R(c) == {i \in U : cards[i] = c}
             few == TallyOf(tally, cards, U)
             more == Tallied(few, cards[x])
  <2>1. U \in SUBSET (1..n) /\ cards[x] \in Cards OBVIOUS
  <2>2. few \in [Cards -> Nat] BY <1>3, <2>1
  <2>3. few = [c \in Cards |-> tally[c] + Cardinality(R(c))] BY Zenon DEF TallyOf
  <2>4. ASSUME NEW c \in Cards PROVE tally[c] + Cardinality(S(c)) = more[c]
    <3>1. R(c) \in SUBSET (1..n) OBVIOUS
    <3>2. few[c] = tally[c] + Cardinality(R(c)) BY <2>3
    <3>3. x \notin R(c) OBVIOUS
    <3>4. CASE cards[x] = c
      <4>1. S(c) = R(c) \union {x} BY <3>4
      <4>2. more[c] = few[c] + 1 BY <2>1, <2>2, <3>4 DEF Tallied
      <4> DEFINE Q == R(c)
                 P == S(c)
      <4>3. Q \in SUBSET (1..n) /\ x \notin Q /\ P = Q \union {x} BY <3>1, <3>3, <4>1
      <4> HIDE DEF Q, P
      <4>4. IsFiniteSet(Q) BY <1>2, <4>3, FS_Subset
      <4>5. Cardinality(P) = Cardinality(Q) + 1 /\ Cardinality(Q) \in Nat
        BY <4>3, <4>4, FS_AddElement, FS_CardinalityType
      <4>6. few[c] = tally[c] + Cardinality(Q) BY <3>2 DEF Q
      <4>7. tally[c] \in Nat OBVIOUS
      <4> HIDE DEF more, few
      <4>8. tally[c] + Cardinality(P) = more[c] BY ONLY <4>2, <4>5, <4>6, <4>7
      <4> QED BY <4>8 DEF P
    <3>5. CASE cards[x] # c
      <4>1. S(c) = R(c) BY <3>5
      <4>2. more[c] = few[c] BY <2>1, <2>2, <3>5 DEF Tallied
      <4> QED BY <3>2, <4>1, <4>2, Zenon
    <3> QED BY <3>4, <3>5
  <2>5. more \in [Cards -> Nat]
    <3> DEFINE y == cards[x]
    <3>1. y \in Cards /\ few \in [Cards -> Nat] BY <2>1, <2>2
    <3> HIDE DEF few, y
    <3>2. [few EXCEPT ![y] = few[y] + 1] \in [Cards -> Nat] BY <3>1
    <3> QED BY <3>2, Zenon DEF Tallied, y
  <2>6. TallyOf(tally, cards, T) = [c \in Cards |-> tally[c] + Cardinality(S(c))]
    BY Zenon DEF TallyOf
  <2> HIDE DEF more, S
  <2>7. more = [c \in Cards |-> more[c]] BY <2>5
  <2>8. TallyOf(tally, cards, T) = more BY <2>4, <2>6, <2>7, Zenon
  <2> QED BY <2>8 DEF more
<1> QED BY <1>1, <1>3, <1>4

LEMMA TallyAddsUp ==
    ASSUME NEW tally \in [Cards -> Nat], NEW n \in Nat, NEW cards \in [1..n -> Cards]
    PROVE  SumFunction(TallyOf(tally, cards, 1..n)) = SumFunction(tally) + n
<1> DEFINE W(T) == TallyOf(tally, cards, T)
           sum(T) == SumFunctionOnSet(W(T), Cards)
           Good == {T \in SUBSET (1..n) : sum(T) = sum({}) + Cardinality(T)}
<1>1. IsFiniteSet(1..n) /\ Cardinality(1..n) = n
  <2>1. 1 \in Int /\ n \in Int OBVIOUS
  <2>2. IsFiniteSet(1..n) /\ Cardinality(1..n) = IF 1 > n THEN 0 ELSE n - 1 + 1
    BY <2>1, FS_Interval
  <2> QED BY <2>2
<1>2. \A T \in SUBSET (1..n) : W(T) \in [Cards -> Nat]
  BY TallyIs
<1>3. \A T \in SUBSET (1..n) : sum(T) \in Nat
  <2> TAKE T \in SUBSET (1..n)
  <2>1. \A c \in Cards : W(T)[c] \in Nat BY <1>2
  <2> HIDE DEF W
  <2> QED BY <2>1, CardsAre, SumNat
<1>4. {} \in Good
  <2>1. sum({}) \in Nat BY <1>3
  <2>2. sum({}) = sum({}) + Cardinality({}) BY <2>1, FS_EmptySet
  <2> QED BY <2>2
<1>5. \A T \in SUBSET (1..n) : T # {} => \E x \in T : T \ {x} \in Good => T \in Good
  <2> SUFFICES ASSUME NEW T \in SUBSET (1..n), NEW x \in T, T \ {x} \in Good PROVE T \in Good
    OBVIOUS
  <2> DEFINE U == T \ {x}
             y == cards[x]
             f == W(U)
             g == W(T)
  <2>1. U \in SUBSET (1..n) /\ y \in Cards OBVIOUS
  <2>2. f \in [Cards -> Nat] /\ g \in [Cards -> Nat] BY <1>2, <2>1
  <2>3. g = Tallied(f, y)
    <3>1. \A A \in SUBSET (1..n) :
            /\ TallyOf(tally, cards, A) \in [Cards -> Nat]
            /\ \A z \in A :
                 TallyOf(tally, cards, A) = Tallied(TallyOf(tally, cards, A \ {z}), cards[z])
      BY TallyIs, Zenon
    <3> QED BY <3>1, Zenon
  <2>4. sum(U) = sum({}) + Cardinality(U) OBVIOUS
  <2>5. sum(U) = SumFunctionOnSet(f, Cards) /\ sum(T) = SumFunctionOnSet(g, Cards) OBVIOUS
  <2>6. IsFiniteSet(T) BY <1>1, FS_Subset
  <2>7. Cardinality(U) = Cardinality(T) - 1 /\ Cardinality(T) \in Nat
    BY <2>6, FS_RemoveElement, FS_CardinalityType
  <2>8. sum({}) \in Nat /\ sum(U) \in Nat BY <1>3, <2>1
  <2> HIDE DEF f, g, y
  <2>9. f[y] \in Nat /\ g[y] = f[y] + 1 BY <2>1, <2>2, <2>3 DEF Tallied
  <2>10. \A c \in Cards : f[c] \in Int /\ g[c] \in Int /\ (c # y => f[c] = g[c])
    BY <2>1, <2>2, <2>3 DEF Tallied
  <2>11. SumFunctionOnSet(g, Cards) = SumFunctionOnSet(f, Cards) - f[y] + g[y]
    BY <2>1, <2>10, CardsAre, SumChanged
  <2> HIDE DEF sum, U
  <2>12. sum(T) = sum(U) + 1 BY ONLY <2>5, <2>8, <2>9, <2>11
  <2>13. sum(T) = sum({}) + Cardinality(T) BY ONLY <2>4, <2>7, <2>8, <2>12
  <2> QED BY <2>13
<1>6. 1..n \in Good
  <2>1. 1..n \in SUBSET (1..n) OBVIOUS
  <2> HIDE DEF Good
  <2> DEFINE D == 1..n
  <2>2. /\ IsFiniteSet(D) /\ {} \in Good
        /\ \A T \in SUBSET D : T # {} => \E x \in T : T \ {x} \in Good => T \in Good
    BY ONLY <1>1, <1>4, <1>5
  <2> HIDE DEF D
  <2>3. \A T \in SUBSET D : T \in Good BY ONLY <2>2, SubsetInduction, Zenon
  <2>4. \A T \in SUBSET (1..n) : T \in Good BY ONLY <2>3, Zenon DEF D
  <2> QED BY <2>1, <2>4
<1>7. sum(1..n) = sum({}) + n BY <1>1, <1>6
<1>8. W({}) = tally BY TallyIs
<1>9. SumFunction(W(1..n)) = sum(1..n) /\ SumFunction(tally) = sum({})
  <2>1. DOMAIN W(1..n) = Cards BY DEF TallyOf
  <2>2. DOMAIN tally = Cards OBVIOUS
  <2>3. sum({}) = SumFunctionOnSet(tally, Cards) BY <1>8
  <2> QED BY <2>1, <2>2, <2>3, Zenon DEF SumFunction
<1> QED BY <1>7, <1>9

\* The cards of an execution keep the counts.
LEMMA AllDrawnKeep ==
    ASSUME NEW tally \in [Cards -> Nat], NEW have, HaveOK(have, tally),
           NEW g \in GachaIds, NEW b \in ButtonIds, NEW n \in Nat, NEW cards \in [1..n -> Cards]
    PROVE  HaveOK(DrawnAll(g, b, have, cards), TallyOf(tally, cards, 1..n))
<1>1. have \in Haves
  <2>1. have \in HaveRec BY DEF HaveOK
  <2> QED BY <2>1, Zenon DEF Haves
<1>2. PICK h : DrawnTable(g, b, have, cards, h) /\ DrawnAll(g, b, have, cards) = h[DOMAIN cards]
  BY <1>1, DrawnFold
<1> DEFINE Good == {T \in SUBSET (1..n) : HaveOK(h[T], TallyOf(tally, cards, T))}
<1>3. DOMAIN cards = 1..n OBVIOUS
<1>4. IsFiniteSet(1..n)
  <2>1. 1 \in Int /\ n \in Int OBVIOUS
  <2> QED BY <2>1, FS_Interval
<1>5. {} \in Good
  <2>1. h[{}] = have /\ TallyOf(tally, cards, {}) = tally BY <1>2, TallyIs DEF DrawnTable
  <2>2. HaveOK(h[{}], TallyOf(tally, cards, {})) BY <2>1
  <2> QED BY <2>2
<1>6. \A T \in SUBSET (1..n) : T # {} => \E x \in T : T \ {x} \in Good => T \in Good
  <2> SUFFICES ASSUME NEW T \in SUBSET (1..n), T # {}
               PROVE  \E x \in T : T \ {x} \in Good => T \in Good
    OBVIOUS
  <2> DEFINE x == Max(T)
             U == T \ {x}
  <2>1. x \in T
    <3>1. T \subseteq 1..n /\ T \subseteq Nat OBVIOUS
    <3>2. IsFiniteSet(T) BY <1>4, <3>1, FS_Subset
    <3> QED BY <3>1, <3>2, MaxOf
  <2>2. h[T] = Drawn(g, b, h[U], cards[x]) BY <1>2, <1>3, Zenon DEF DrawnTable
  <2> HIDE DEF x
  <2>3. U \in SUBSET (1..n) /\ cards[x] \in Cards BY <2>1
  <2>4. /\ TallyOf(tally, cards, U) \in [Cards -> Nat]
        /\ TallyOf(tally, cards, T) = Tallied(TallyOf(tally, cards, U), cards[x])
    <3>1. \A A \in SUBSET (1..n) :
            /\ TallyOf(tally, cards, A) \in [Cards -> Nat]
            /\ \A z \in A :
                 TallyOf(tally, cards, A) = Tallied(TallyOf(tally, cards, A \ {z}), cards[z])
      BY TallyIs, Zenon
    <3>2. T \in SUBSET (1..n) OBVIOUS
    <3>3. TallyOf(tally, cards, U) \in [Cards -> Nat] BY <2>3, <3>1, Zenon
    <3>4. TallyOf(tally, cards, T) = Tallied(TallyOf(tally, cards, T \ {x}), cards[x])
      BY <2>1, <3>1, <3>2, Zenon
    <3> QED BY <3>3, <3>4, Zenon
  <2>5. ASSUME U \in Good PROVE T \in Good
    <3>1. HaveOK(h[U], TallyOf(tally, cards, U)) BY <2>5
    <3> DEFINE few == TallyOf(tally, cards, U)
    <3>2. few \in [Cards -> Nat] /\ HaveOK(h[U], few) BY <2>4, <3>1
    <3> HIDE DEF few, U
    <3>3. HaveOK(h[T], Tallied(few, cards[x])) BY <2>2, <2>3, <3>2, DrawnKeeps
    <3>4. HaveOK(h[T], TallyOf(tally, cards, T)) BY <2>4, <3>3 DEF few
    <3> QED BY <3>4
  <2> QED BY <2>1, <2>5
<1>7. 1..n \in Good
  <2> DEFINE D == 1..n
  <2>1. /\ IsFiniteSet(D) /\ {} \in Good
        /\ \A T \in SUBSET D : T # {} => \E x \in T : T \ {x} \in Good => T \in Good
    BY <1>4, <1>5, <1>6, Zenon
  <2> HIDE DEF Good, D
  <2>2. \A T \in SUBSET D : T \in Good BY ONLY <2>1, SubsetInduction
  <2> QED BY <2>2 DEF D
<1> QED BY <1>2, <1>3, <1>7

-----------------------------------------------------------------------------
(* The invariant of the gachas. *)

Copied ==
    /\ CharactersTallied(characters, pieces, drawn)
    /\ index = Range(characters)
    /\ MemoriasTallied(memorias, drawn)
    /\ tasks.draws = SumFunction(drawn)

GachaInv ==
    /\ GachaTypeOK
    /\ StepsCounted
    /\ drawn \in [Cards -> Nat]
    /\ EveryCopyCounts
    /\ WishesValid

LEMMA CopiedIs == (EveryCopyCounts <=> Copied) /\ (EveryCopyCounts' <=> Copied')
<1>1. EveryCopyCounts <=> Copied
  BY Zenon DEF EveryCopyCounts, Copied, CharactersTallied, MemoriasTallied, AgainIn, CopiesFrom,
               Copies
<1>2. EveryCopyCounts' <=> Copied'
  BY Zenon DEF EveryCopyCounts, Copied, CharactersTallied, MemoriasTallied, AgainIn, CopiesFrom,
               Copies
<1> QED BY <1>1, <1>2

\* Before anything is drawn nothing is counted.
LEMMA NothingDrawn ==
    ASSUME NEW tally, tally = [c \in Cards |-> 0]
    PROVE  /\ tally \in [Cards -> Nat] /\ SumFunction(tally) = 0
           /\ \A id \in CharacterIds : CopiesFrom(tally, Character, id) = 0
           /\ \A id \in MemoriaKinds : CopiesFrom(tally, Memoria, id) = 0
<1>1. tally \in [Cards -> Nat] /\ DOMAIN tally = Cards OBVIOUS
<1>2. \A c \in Cards : tally[c] = 0 OBVIOUS
<1>3. \A S \in SUBSET Cards : SumFunctionOnSet(tally, S) = 0
  <2> TAKE S \in SUBSET Cards
  <2>1. IsFiniteSet(S) BY CardsAre, FS_Subset
  <2>2. \A s \in S : tally[s] = 0 BY <1>2
  <2>3. SumFunctionOnSet(tally, S) = Cardinality(S) * 0 BY <2>1, <2>2, SumOfEqual
  <2>4. Cardinality(S) \in Nat BY <2>1, FS_CardinalityType
  <2> QED BY <2>3, <2>4
<1>4. SumFunction(tally) = 0 BY <1>1, <1>3, Zenon DEF SumFunction
<1>5. ASSUME NEW type \in {Character, Memoria}, NEW id \in CharacterIds \union MemoriaKinds
      PROVE  CopiesFrom(tally, type, id) = 0
  <2>1. CardsOf[<<type, id>>] \in SUBSET Cards BY CopiesAre
  <2> QED BY <1>3, <2>1, Zenon DEF CopiesFrom
<1> QED BY <1>1, <1>4, <1>5

LEMMA GachaBegins == GachaInit => GachaInv
<1> SUFFICES ASSUME GachaInit PROVE GachaInv OBVIOUS
<1>1. /\ talkClears = 0 /\ tutorial = MemoriaEquipped /\ wallet = InitialWallet
      /\ items = [i \in ItemIds |-> 0] /\ pieces = [c \in CharacterIds |-> 0]
      /\ characters = SetToSeq(OwnedAtStart) /\ memorias = <<>> /\ skins = {}
      /\ index = OwnedAtStart
      /\ counts = [k \in GachaIds \X (ButtonIds \union {StepUp}) |-> 0]
      /\ wishes = [g \in GachaIds |-> NoWishList]
      /\ gachaTime = 0
      /\ tasks = [characters |-> 0, draws |-> 0, memorias |-> 0, stones |-> 0]
      /\ drawn = [c \in Cards |-> 0]
  BY Zenon DEF GachaInit
<1>2. /\ OwnedAtStart \subseteq CharacterIds /\ IsFiniteSet(OwnedAtStart)
      /\ InitialWallet \in [free: Nat, paid: Nat]
      /\ MaxTalkClears \in Nat /\ MaxGachaTime \in Nat
  BY GachaAssumption DEF CharacterIds
<1>3. /\ characters \in Seq(OwnedAtStart) /\ IsInjective(characters)
      /\ Range(characters) = OwnedAtStart
  BY <1>1, <1>2, SetAsSeq
<1>4. characters \in Seq(CharacterIds) BY ONLY <1>2, <1>3, SeqMonotonic
<1>5. /\ drawn \in [Cards -> Nat] /\ SumFunction(drawn) = 0
      /\ \A id \in CharacterIds : CopiesFrom(drawn, Character, id) = 0
      /\ \A id \in MemoriaKinds : CopiesFrom(drawn, Memoria, id) = 0
  BY ONLY <1>1, NothingDrawn
<1>6. GachaTypeOK
  <2>1. talkClears \in 0..MaxTalkClears /\ gachaTime \in 0..MaxGachaTime BY ONLY <1>1, <1>2
  <2>2. /\ items \in [ItemIds -> Nat] /\ pieces \in [CharacterIds -> Nat]
        /\ counts \in [GachaIds \X (ButtonIds \union {StepUp}) -> Nat]
    BY ONLY <1>1
  <2>3. memorias \in Seq([entity: Nat \ {0}, id: MemoriaKinds]) /\ skins \subseteq Nat
    BY ONLY <1>1
  <2>4. \A g \in GachaIds : wishes[g] = NoWishList BY ONLY <1>1
  <2>5. tasks \in [characters: Nat, draws: Nat, memorias: 0..1, stones: Nat] BY ONLY <1>1
  <2>6. tutorial \in {MemoriaEquipped, GachaComplete} /\ wallet \in [free: Nat, paid: Nat]
        /\ index \subseteq CharacterIds
    BY ONLY <1>1, <1>2
  <2> QED BY <1>4, <2>1, <2>2, <2>3, <2>4, <2>5, <2>6, Zenon DEF GachaTypeOK
<1>7. Copied
  <2>1. CharactersTallied(characters, pieces, drawn)
    <3>1. \A id \in CharacterIds :
            /\ CopiesFrom(drawn, Character, id) = 0 /\ pieces[id] = 0
            /\ AgainIn(drawn, id) <= 0
      <4> TAKE id \in CharacterIds
      <4>1. CopiesFrom(drawn, Character, id) = 0 /\ pieces[id] = 0 BY ONLY <1>1, <1>5, id \in CharacterIds
      <4>2. AgainIn(drawn, id) = 0 - (IF id \in OwnedAtStart THEN 0 ELSE 1)
        BY <4>1, Zenon DEF AgainIn
      <4>3. AgainIn(drawn, id) <= 0 BY ONLY <4>2
      <4> QED BY <4>1, <4>3
    <3>2. \A id \in CharacterIds : AgainIn(drawn, id) \in Int /\ ~(AgainIn(drawn, id) > 0)
      <4> TAKE id \in CharacterIds
      <4>1. AgainIn(drawn, id) = 0 - (IF id \in OwnedAtStart THEN 0 ELSE 1)
        BY <3>1, Zenon DEF AgainIn
      <4> QED BY ONLY <4>1
    <3>3. ~(0 > 0) OBVIOUS
    <3> QED BY <1>3, <3>1, <3>2, <3>3, Zenon DEF CharactersTallied
  <2>2. MemoriasTallied(memorias, drawn)
    <3>1. DOMAIN memorias = {} BY ONLY <1>1
    <3>2. IsInjective([i \in DOMAIN memorias |-> memorias[i].entity])
      BY ONLY <3>1 DEF IsInjective
    <3>3. \A id : {i \in DOMAIN memorias : memorias[i].id = id} = {} BY ONLY <3>1
    <3>4. \A id \in MemoriaKinds : Cardinality({i \in DOMAIN memorias : memorias[i].id = id}) = 0
      BY <3>3, FS_EmptySet, Zenon
    <3> QED BY <1>5, <3>2, <3>4, Zenon DEF MemoriasTallied
  <2>3. tasks.draws = 0 BY ONLY <1>1
  <2> QED BY <1>1, <1>3, <1>5, <2>1, <2>2, <2>3, Zenon DEF Copied
<1>8. WishesValid
  <2>1. \A g \in GachaIds : wishes[g] = NoWishList BY ONLY <1>1
  <2> QED BY <2>1, Zenon DEF WishesValid
<1> QED BY <1>5, <1>6, <1>7, <1>8, CopiedIs, StepsBegin, Zenon DEF GachaInv

-----------------------------------------------------------------------------
(* Executions *)

\* What is paid leaves natural numbers.
LEMMA PaidIs ==
    ASSUME NEW b \in ButtonIds, GachaTypeOK, CanPay(ButtonOf[b].cost)
    PROVE  /\ PaidWallet(ButtonOf[b].cost) \in [free: Nat, paid: Nat]
           /\ PaidItems(ButtonOf[b].cost) \in [ItemIds -> Nat]
<1> DEFINE price == ButtonOf[b].cost
           q == price.quantity
           f == wallet.free
           p == wallet.paid
<1>1. /\ wallet \in [free: Nat, paid: Nat] /\ items \in [ItemIds -> Nat]
  BY Zenon DEF GachaTypeOK
<1>2. price \in GachaCost BY GachaTableAssumption, Zenon
<1>3. /\ price.type \in {FreeGems, PaidGems, Item} /\ q \in Nat
      /\ f \in Nat /\ p \in Nat
  BY ONLY <1>1, <1>2 DEF GachaCost
<1>4. price.id \in ItemIds BY DEF ItemIds
<1>5. FreeGems # PaidGems /\ FreeGems # Item /\ PaidGems # Item BY DEF FreeGems, PaidGems, Item
<1>6. /\ price.type = FreeGems => f + p >= q
      /\ price.type = PaidGems => p >= q
      /\ price.type = Item => items[price.id] >= q
  <2>1. \/ q = 0
        \/ price.type = FreeGems /\ f + p >= q
        \/ price.type = PaidGems /\ p >= q
        \/ price.type = Item /\ items[price.id] >= q
    BY Zenon DEF CanPay
  <2>2. items[price.id] \in Nat BY ONLY <1>1, <1>4
  <2> DEFINE k == items[price.id]
             t == price.type
  <2>3. k \in Nat BY <2>2
  <2> HIDE DEF q, f, p, k, t
  <2>4. (t = FreeGems => f + p >= q) /\ (t = PaidGems => p >= q) /\ (t = Item => k >= q)
    BY ONLY <1>3, <1>5, <2>1, <2>3 DEF k, t
  <2> QED BY <2>4 DEF k, t
<1>7. PaidWallet(price) \in [free: Nat, paid: Nat]
  <2> DEFINE m == Min({f, q})
  <2>1. m \in Nat /\ m <= f /\ m <= q /\ m = IF f <= q THEN f ELSE q
    BY <1>3, MinOfTwo
  <2>2. CASE price.type = FreeGems
    <3>1. PaidWallet(price) = [free |-> f - m, paid |-> p - (q - m)]
      BY <1>5, <2>2, Zenon DEF PaidWallet
    <3>2. f + p >= q BY <1>6, <2>2
    <3> HIDE DEF f, p, q, m
    <3>3. f - m \in Nat /\ p - (q - m) \in Nat BY ONLY <1>3, <2>1, <3>2
    <3> QED BY <3>1, <3>3
  <2>3. CASE price.type = PaidGems
    <3>1. PaidWallet(price) = [wallet EXCEPT !.paid = @ - q]
      BY <1>5, <2>3, Zenon DEF PaidWallet
    <3>2. p >= q BY <1>6, <2>3
    <3>3. p - q \in Nat
      <4> HIDE DEF p, q
      <4> QED BY ONLY <1>3, <3>2
    <3> DEFINE r == p - q
    <3>4. PaidWallet(price) = [wallet EXCEPT !.paid = r] BY <3>1
    <3>5. r \in Nat BY <3>3
    <3> HIDE DEF r
    <3> QED BY ONLY <1>1, <3>4, <3>5
  <2>4. CASE price.type = Item
    <3>1. PaidWallet(price) = wallet BY <1>5, <2>4, Zenon DEF PaidWallet
    <3> QED BY <1>1, <3>1
  <2> QED BY <1>3, <2>2, <2>3, <2>4
<1>8. PaidItems(price) \in [ItemIds -> Nat]
  <2>1. CASE price.type = Item /\ q > 0
    <3> DEFINE k == items[price.id]
               r == k - q
    <3>1. PaidItems(price) = [items EXCEPT ![price.id] = r] BY <2>1, Zenon DEF PaidItems
    <3>2. k \in Nat /\ k >= q BY <1>1, <1>4, <1>6, <2>1
    <3>3. r \in Nat
      <4> HIDE DEF k, q
      <4> QED BY <1>3, <3>2
    <3> HIDE DEF r, price
    <3> QED BY ONLY <1>1, <1>4, <3>1, <3>3
  <2>2. CASE ~(price.type = Item /\ q > 0)
    <3>1. PaidItems(price) = items BY <2>2, Zenon DEF PaidItems
    <3> QED BY <1>1, <3>1
  <2> QED BY <2>1, <2>2
<1> QED BY <1>7, <1>8
\* Before the first card of an execution only the price is gone.
HaveBefore(b) ==
    [characters |-> characters, pieces |-> pieces, memorias |-> memorias,
     items |-> PaidItems(ButtonOf[b].cost), skins |-> skins, new |-> {}]

LEMMA BeforeDrawing ==
    ASSUME GachaInv, NEW b \in ButtonIds, CanPay(ButtonOf[b].cost)
    PROVE  HaveOK(HaveBefore(b), drawn)
<1> DEFINE have == HaveBefore(b)
           left == PaidItems(ButtonOf[b].cost)
<1>1. Copied /\ GachaTypeOK BY CopiedIs, Zenon DEF GachaInv
<1>2. left \in [ItemIds -> Nat] BY <1>1, PaidIs
<1>3. /\ pieces \in [CharacterIds -> Nat] /\ characters \in Seq(CharacterIds)
      /\ memorias \in Seq(Entry) /\ skins \in SUBSET Nat
  BY <1>1 DEF GachaTypeOK, Entry
<1>4. /\ have = [characters |-> characters, pieces |-> pieces, memorias |-> memorias,
                 items |-> left, skins |-> skins, new |-> {}]
  BY DEF HaveBefore
<1> HIDE DEF have, left
<1>5. have \in HaveRec BY ONLY <1>2, <1>3, <1>4 DEF HaveRec
<1>6. /\ have.characters = characters /\ have.pieces = pieces /\ have.memorias = memorias
      /\ have.new = {}
  BY ONLY <1>4
<1>7. Range(have.characters) = index \union have.new BY <1>1, <1>6 DEF Copied
<1> QED BY <1>1, <1>5, <1>6, <1>7, Zenon DEF HaveOK, Copied, have

\* What an execution leaves behind, whatever it drew.
LEMMA ExecutionLeaves ==
    ASSUME NEW g, NEW b, NEW step_up, NEW cards, reduce_gacha_execute(g, b, step_up, cards),
           NEW got, got = DrawnAll(g, b, HaveBefore(b), cards)
    PROVE  /\ wallet' = PaidWallet(ButtonOf[b].cost)
           /\ characters' = got.characters /\ pieces' = got.pieces
           /\ memorias' = got.memorias /\ skins' = got.skins
           /\ items' = IF ButtonOf[b].medals > 0
                       THEN [got.items EXCEPT ![GachaOf[g].medal] = @ + ButtonOf[b].medals]
                       ELSE got.items
           /\ index' = index \union got.new
           /\ \E members \in {Len(got.characters), tasks.characters},
                 ms \in {Max({tasks.memorias, 1}), tasks.memorias},
                 stones \in {items'[Stone], tasks.stones} :
                tasks' = [characters |-> members, draws |-> tasks.draws + ButtonOf[b].draws,
                          memorias |-> ms, stones |-> stones]
           /\ drawn' = [c \in Cards |-> drawn[c]
                                         + Cardinality({i \in DOMAIN cards : cards[i] = c})]
           /\ UNCHANGED <<talkClears, wishes, gachaTime>>
<1> DEFINE G == DrawnAll(g, b, [characters |-> characters, pieces |-> pieces,
                               memorias |-> memorias, items |-> PaidItems(ButtonOf[b].cost),
                               skins |-> skins, new |-> {}], cards)
<1>1. got = G BY Zenon DEF HaveBefore
<1>2. /\ wallet' = PaidWallet(ButtonOf[b].cost)
      /\ characters' = got.characters /\ pieces' = got.pieces
      /\ memorias' = got.memorias /\ skins' = got.skins
      /\ items' = IF ButtonOf[b].medals > 0
                  THEN [got.items EXCEPT ![GachaOf[g].medal] = @ + ButtonOf[b].medals]
                  ELSE got.items
      /\ index' = index \union got.new
      /\ drawn' = [c \in Cards |-> drawn[c]
                                    + Cardinality({i \in DOMAIN cards : cards[i] = c})]
      /\ UNCHANGED <<talkClears, wishes, gachaTime>>
  <2>1. /\ wallet' = PaidWallet(ButtonOf[b].cost)
        /\ characters' = G.characters /\ pieces' = G.pieces
        /\ memorias' = G.memorias /\ skins' = G.skins
        /\ items' = IF ButtonOf[b].medals > 0
                    THEN [G.items EXCEPT ![GachaOf[g].medal] = @ + ButtonOf[b].medals]
                    ELSE G.items
        /\ index' = index \union G.new
        /\ drawn' = [c \in Cards |-> drawn[c]
                                      + Cardinality({i \in DOMAIN cards : cards[i] = c})]
        /\ UNCHANGED <<talkClears, wishes, gachaTime>>
    BY Zenon DEF reduce_gacha_execute
  <2> HIDE DEF G
  <2> QED BY ONLY <1>1, <2>1
<1>3. tasks' = [characters |-> IF \E c \in Range(cards) : c.type = Character
                              THEN Len(got.characters) ELSE tasks.characters,
                draws |-> tasks.draws + ButtonOf[b].draws,
                memorias |-> IF \E c \in Range(cards) : c.type = Memoria
                             THEN Max({tasks.memorias, 1}) ELSE tasks.memorias,
                stones |-> IF got.pieces # pieces THEN items'[Stone] ELSE tasks.stones]
  <2>1. tasks' = [characters |-> IF \E c \in Range(cards) : c.type = Character
                                THEN Len(G.characters) ELSE tasks.characters,
                  draws |-> tasks.draws + ButtonOf[b].draws,
                  memorias |-> IF \E c \in Range(cards) : c.type = Memoria
                               THEN Max({tasks.memorias, 1}) ELSE tasks.memorias,
                  stones |-> IF G.pieces # pieces THEN items'[Stone] ELSE tasks.stones]
    BY Zenon DEF reduce_gacha_execute
  <2> HIDE DEF G
  <2> QED BY ONLY <1>1, <2>1
<1>4. \E members \in {Len(got.characters), tasks.characters},
         ms \in {Max({tasks.memorias, 1}), tasks.memorias},
         stones \in {items'[Stone], tasks.stones} :
        tasks' = [characters |-> members, draws |-> tasks.draws + ButtonOf[b].draws,
                  memorias |-> ms, stones |-> stones]
  <2> DEFINE members == IF \E c \in Range(cards) : c.type = Character
                     THEN Len(got.characters) ELSE tasks.characters
             ms == IF \E c \in Range(cards) : c.type = Memoria
                   THEN Max({tasks.memorias, 1}) ELSE tasks.memorias
             stones == IF got.pieces # pieces THEN items'[Stone] ELSE tasks.stones
  <2>1. /\ members \in {Len(got.characters), tasks.characters}
        /\ ms \in {Max({tasks.memorias, 1}), tasks.memorias}
        /\ stones \in {items'[Stone], tasks.stones}
    OBVIOUS
  <2>2. tasks' = [characters |-> members, draws |-> tasks.draws + ButtonOf[b].draws,
                  memorias |-> ms, stones |-> stones]
    BY <1>3, Zenon
  <2> HIDE DEF members, ms, stones
  <2> QED BY <2>1, <2>2, Zenon
<1> QED BY <1>2, <1>4, Zenon

LEMMA ExecutionKeeps ==
    ASSUME GachaInv, NEW g \in GachaIds, NEW b \in ButtonIds, NEW step_up \in BOOLEAN,
           Executable(g, b, step_up),
           NEW cards \in [1..ButtonOf[b].draws
                            -> select_weighted_card(DrawnFrom(g, b, step_up))],
           reduce_gacha_execute(g, b, step_up, cards), StepsCounted'
    PROVE  GachaInv'
<1> DEFINE have == HaveBefore(b)
           got == DrawnAll(g, b, have, cards)
           n == ButtonOf[b].draws
           m == ButtonOf[b].medals
           medal == GachaOf[g].medal
<1>1. /\ GachaTypeOK /\ StepsCounted /\ drawn \in [Cards -> Nat] /\ Copied /\ WishesValid
  BY CopiedIs, Zenon DEF GachaInv
<1>2. n \in Nat /\ m \in Nat BY GachaTableAssumption, Zenon
<1>3. CanPay(ButtonOf[b].cost) BY Zenon DEF Executable
<1>4. HaveOK(have, drawn) BY <1>3, BeforeDrawing
<1>5. cards \in [1..n -> Cards] /\ DOMAIN cards = 1..n
  <2>1. counts[<<g, StepUp>>] \in Nat
    <3>1. counts \in [GachaIds \X (ButtonIds \union {StepUp}) -> Nat]
      BY <1>1, Zenon DEF StepsCounted
    <3> QED BY ONLY <3>1, g \in GachaIds
  <2>2. \A c \in select_weighted_card(DrawnFrom(g, b, step_up)) : c \in Cards
    BY <2>1, DrawnCardsAre
  <2> QED BY <2>2
<1>6. HaveOK(got, TallyOf(drawn, cards, 1..n)) BY <1>1, <1>2, <1>4, <1>5, AllDrawnKeep
<1>7. /\ wallet' = PaidWallet(ButtonOf[b].cost)
      /\ characters' = got.characters /\ pieces' = got.pieces
      /\ memorias' = got.memorias /\ skins' = got.skins
      /\ items' = IF m > 0 THEN [got.items EXCEPT ![medal] = @ + m] ELSE got.items
      /\ index' = index \union got.new
      /\ \E members \in {Len(got.characters), tasks.characters},
            ms \in {Max({tasks.memorias, 1}), tasks.memorias},
            stones \in {items'[Stone], tasks.stones} :
           tasks' = [characters |-> members, draws |-> tasks.draws + n,
                     memorias |-> ms, stones |-> stones]
      /\ drawn' = [c \in Cards |-> drawn[c]
                                    + Cardinality({i \in DOMAIN cards : cards[i] = c})]
      /\ UNCHANGED <<talkClears, wishes, gachaTime>>
  BY ExecutionLeaves
<1>8. medal \in ItemIds /\ Stone \in ItemIds BY DEF ItemIds
<1> HIDE DEF have, got, n, m, medal
<1>9. drawn' = TallyOf(drawn, cards, 1..n) BY <1>5, <1>7, Zenon DEF TallyOf
<1>10. drawn' \in [Cards -> Nat]
  <2>1. 1..n \in SUBSET (1..n) OBVIOUS
  <2>2. \A T \in SUBSET (1..n) : TallyOf(drawn, cards, T) \in [Cards -> Nat]
    BY ONLY <1>1, <1>2, <1>5, TallyIs
  <2> QED BY <1>9, <2>1, <2>2, Zenon
<1>11. HaveOK(got, drawn') BY <1>6, <1>9, Zenon
<1>12. /\ got \in HaveRec /\ Range(got.characters) = index \union got.new
       /\ CharactersTallied(got.characters, got.pieces, drawn')
       /\ MemoriasTallied(got.memorias, drawn')
  BY <1>11, Zenon DEF HaveOK
<1>13. /\ got.characters \in Seq(CharacterIds) /\ got.pieces \in [CharacterIds -> Nat]
       /\ got.memorias \in Seq(Entry) /\ got.items \in [ItemIds -> Nat]
       /\ got.skins \in SUBSET Nat /\ got.new \in SUBSET CharacterIds
  BY ONLY <1>12 DEF HaveRec
<1>14. items' \in [ItemIds -> Nat]
  <2> DEFINE i == got.items
  <2>1. i \in [ItemIds -> Nat] BY <1>13
  <2> HIDE DEF i
  <2>2. [i EXCEPT ![medal] = @ + m] \in [ItemIds -> Nat] BY ONLY <1>2, <1>8, <2>1
  <2> QED BY <1>7, <1>13, <2>2, Zenon DEF i
<1>15. /\ tasks' \in [characters: Nat, draws: Nat, memorias: 0..1, stones: Nat]
       /\ tasks'.draws = tasks.draws + n
  <2>1. tasks \in [characters: Nat, draws: Nat, memorias: 0..1, stones: Nat]
    BY <1>1, Zenon DEF GachaTypeOK
  <2>2. Len(got.characters) \in Nat BY <1>13, LenProperties
  <2>3. items'[Stone] \in Nat BY ONLY <1>8, <1>14
  <2>4. Max({tasks.memorias, 1}) = 1
    <3>1. tasks.memorias \in Int /\ (tasks.memorias = 0 \/ tasks.memorias = 1) BY ONLY <2>1
    <3> DEFINE x == tasks.memorias
    <3> HIDE DEF x
    <3>2. x \in Int /\ 1 \in Int /\ (x = 0 \/ x = 1) BY <3>1 DEF x
    <3>3. Max({x, 1}) = 1 BY ONLY <3>2, MaxOfTwo
    <3> QED BY <3>3 DEF x
  <2>5. PICK members \in {Len(got.characters), tasks.characters},
             ms \in {Max({tasks.memorias, 1}), tasks.memorias},
             stones \in {items'[Stone], tasks.stones} :
          tasks' = [characters |-> members, draws |-> tasks.draws + n,
                    memorias |-> ms, stones |-> stones]
    BY <1>7, Zenon
  <2>6. /\ tasks.characters \in Nat /\ tasks.draws \in Nat /\ tasks.memorias \in 0..1
        /\ tasks.stones \in Nat
    BY ONLY <2>1
  <2>7. members \in Nat BY <2>2, <2>5, <2>6, Zenon
  <2>8. stones \in Nat BY <2>3, <2>5, <2>6, Zenon
  <2>9. 1 \in 0..1 OBVIOUS
  <2>10. ms \in 0..1 BY <2>4, <2>5, <2>6, <2>9, Zenon
  <2>11. tasks.draws + n \in Nat BY ONLY <1>2, <2>6
  <2> DEFINE d == tasks.draws + n
  <2>12. tasks' = [characters |-> members, draws |-> d, memorias |-> ms, stones |-> stones]
         /\ d \in Nat
    BY <2>5, <2>11, Zenon
  <2> HIDE DEF d
  <2>13. tasks' \in [characters: Nat, draws: Nat, memorias: 0..1, stones: Nat]
         /\ tasks'.draws = d
    BY ONLY <2>7, <2>8, <2>10, <2>12
  <2> QED BY <2>13 DEF d
<1>16. Copied'
  <2>1. SumFunction(drawn') = SumFunction(drawn) + n
    BY <1>1, <1>2, <1>5, <1>9, TallyAddsUp
  <2>2. tasks.draws = SumFunction(drawn) BY <1>1, Zenon DEF Copied
  <2>3. tasks'.draws = SumFunction(drawn') BY <1>15, <2>1, <2>2, Zenon
  <2>4. index' = Range(characters') BY <1>7, <1>12, Zenon
  <2>5. /\ CharactersTallied(characters', pieces', drawn')
        /\ MemoriasTallied(memorias', drawn')
    BY <1>7, <1>12, Zenon
  <2> QED BY <2>3, <2>4, <2>5, Zenon DEF Copied, CharactersTallied, MemoriasTallied, AgainIn, CopiesFrom
<1>17. GachaTypeOK'
  <2>1. /\ talkClears \in 0..MaxTalkClears /\ gachaTime \in 0..MaxGachaTime
        /\ index \subseteq CharacterIds
        /\ \A h \in GachaIds : wishes[h] = NoWishList \/ wishes[h] \in WishList
    BY <1>1, Zenon DEF GachaTypeOK
  <2>2. wallet' \in [free: Nat, paid: Nat] BY <1>1, <1>3, <1>7, PaidIs, Zenon
  <2>3. index' \subseteq CharacterIds BY ONLY <1>7, <1>13, <2>1
  <2>4. /\ characters' \in Seq(CharacterIds) /\ pieces' \in [CharacterIds -> Nat]
        /\ memorias' \in Seq([entity: Nat \ {0}, id: MemoriaKinds]) /\ skins' \subseteq Nat
    BY ONLY <1>7, <1>13 DEF Entry
  <2>5. /\ counts' \in [GachaIds \X (ButtonIds \union {StepUp}) -> Nat]
        /\ tutorial' \in {MemoriaEquipped, GachaComplete}
    BY Zenon DEF StepsCounted
  <2>6. /\ talkClears' \in 0..MaxTalkClears /\ gachaTime' \in 0..MaxGachaTime
        /\ \A h \in GachaIds : wishes'[h] = NoWishList \/ wishes'[h] \in WishList
    BY <1>7, <2>1, Zenon
  <2> QED BY <1>14, <1>15, <2>2, <2>3, <2>4, <2>5, <2>6, Zenon DEF GachaTypeOK
<1>18. WishesValid'
  <2>1. wishes' = wishes BY <1>7
  <2> QED BY <1>1, <2>1, Zenon DEF WishesValid, validate_wish_list
<1> QED BY <1>10, <1>16, <1>17, <1>18, CopiedIs, Zenon DEF GachaInv
-----------------------------------------------------------------------------
(* The other steps, and the theorem *)

\* What is stored is a list that was valid for its gacha.
LEMMA ListSetKeeps ==
    ASSUME GachaInv, NEW g \in GachaIds, NEW w \in WishLists, gacha_wish_list_set(g, w),
           StepsCounted'
    PROVE  GachaInv'
<1>1. /\ GachaTypeOK /\ drawn \in [Cards -> Nat] /\ EveryCopyCounts /\ WishesValid
      /\ DOMAIN wishes = GachaIds
  BY Zenon DEF GachaInv, StepsCounted
<1>2. /\ validate_wish_list(g, w) /\ wishes' = [wishes EXCEPT ![g] = w]
      /\ UNCHANGED <<talkClears, tutorial, wallet, items, pieces, characters, memorias, skins,
                     index, counts, gachaTime, tasks, drawn, played>>
  BY Zenon DEF gacha_wish_list_set
<1>3. w \in WishList
  <2>1. w.gacha = g BY <1>2, Zenon DEF validate_wish_list
  <2>2. w \in [gacha: Nat, characters: Seq(Nat), memorias: Seq(Nat), skins: Seq(Nat)]
    BY GachaAssumption
  <2> QED BY ONLY <2>1, <2>2, g \in GachaIds DEF WishList
<1>4. wishes'[g] = w /\ \A h \in GachaIds : h # g => wishes'[h] = wishes[h]
  BY ONLY <1>1, <1>2, g \in GachaIds
<1>5. GachaTypeOK'
  <2>1. \A h \in GachaIds : wishes'[h] = NoWishList \/ wishes'[h] \in WishList
    <3> TAKE h \in GachaIds
    <3>1. CASE h = g BY <1>3, <1>4, <3>1, Zenon
    <3>2. CASE h # g BY <1>1, <1>4, <3>2, Zenon DEF GachaTypeOK
    <3> QED BY <3>1, <3>2
  <2> QED BY <1>1, <1>2, <2>1, Zenon DEF GachaTypeOK
<1>6. WishesValid'
  <2>1. ASSUME NEW h \in GachaIds, wishes'[h] # NoWishList
        PROVE  wishes'[h] \in WishList /\ validate_wish_list(h, wishes'[h])
    <3>1. CASE h = g BY <1>2, <1>3, <1>4, <3>1, Zenon
    <3>2. CASE h # g BY <1>1, <1>4, <2>1, <3>2, Zenon DEF WishesValid
    <3> QED BY <3>1, <3>2
  <2> QED BY <2>1, Zenon DEF WishesValid, validate_wish_list
<1>7. Copied' /\ drawn' \in [Cards -> Nat]
  <2>1. Copied BY <1>1, CopiedIs
  <2> QED BY <1>1, <1>2, <2>1, Zenon
          DEF Copied, CharactersTallied, MemoriasTallied, AgainIn, CopiesFrom
<1> QED BY <1>5, <1>6, <1>7, CopiedIs, Zenon DEF GachaInv

\* Steps that only move the clock or the clears of the talk.
LEMMA QuietKeeps ==
    ASSUME GachaInv, StepsCounted', talkClears' \in 0..MaxTalkClears,
           gachaTime' \in 0..MaxGachaTime,
           UNCHANGED <<tutorial, wallet, items, pieces, characters, memorias, skins,
                       index, counts, wishes, tasks, drawn>>
    PROVE  GachaInv'
<1>1. /\ GachaTypeOK /\ drawn \in [Cards -> Nat] /\ EveryCopyCounts /\ WishesValid
  BY Zenon DEF GachaInv
<1>2. GachaTypeOK' BY <1>1, Zenon DEF GachaTypeOK
<1>3. WishesValid' BY <1>1, Zenon DEF WishesValid, validate_wish_list
<1>4. Copied' /\ drawn' \in [Cards -> Nat]
  <2>1. Copied BY <1>1, CopiedIs
  <2> QED BY <1>1, <2>1, Zenon
          DEF Copied, CharactersTallied, MemoriasTallied, AgainIn, CopiesFrom
<1> QED BY <1>2, <1>3, <1>4, CopiedIs, Zenon DEF GachaInv

LEMMA GachaStep == GachaInv /\ [GachaNext]_gachaVars => GachaInv'
<1> SUFFICES ASSUME GachaInv, [GachaNext]_gachaVars PROVE GachaInv' OBVIOUS
<1>1. StepsCounted /\ GachaTypeOK BY Zenon DEF GachaInv
<1>2. StepsCounted' BY <1>1, StepsStep
<1>3. /\ talkClears \in 0..MaxTalkClears /\ gachaTime \in 0..MaxGachaTime
      /\ MaxTalkClears \in Nat /\ MaxGachaTime \in Nat
  BY <1>1, GachaAssumption, Zenon DEF GachaTypeOK
<1>4. ASSUME NEW g \in GachaIds, NEW b \in ButtonIds, gacha_execute(g, b) PROVE GachaInv'
  <2>1. Executable(g, b, FALSE) BY <1>4, Zenon DEF gacha_execute
  <2>2. PICK cards \in [1..ButtonOf[b].draws -> select_weighted_card(DrawnFrom(g, b, FALSE))] :
          reduce_gacha_execute(g, b, FALSE, cards)
    BY <1>4, Zenon DEF gacha_execute
  <2>3. FALSE \in BOOLEAN OBVIOUS
  <2> QED BY <1>2, <2>1, <2>2, <2>3, ExecutionKeeps
<1>5. ASSUME NEW g \in GachaIds, NEW b \in ButtonIds, gacha_step_up_execute(g, b)
      PROVE  GachaInv'
  <2>1. Executable(g, b, TRUE) BY <1>5, Zenon DEF gacha_step_up_execute
  <2>2. PICK cards \in [1..ButtonOf[b].draws -> select_weighted_card(DrawnFrom(g, b, TRUE))] :
          reduce_gacha_execute(g, b, TRUE, cards)
    BY <1>5, Zenon DEF gacha_step_up_execute
  <2>3. TRUE \in BOOLEAN OBVIOUS
  <2> QED BY <1>2, <2>1, <2>2, <2>3, ExecutionKeeps
<1>6. ASSUME NEW g \in GachaIds, NEW w \in WishLists, gacha_wish_list_set(g, w)
      PROVE  GachaInv'
  BY <1>2, <1>6, ListSetKeeps
<1>7. CASE talk_event_finish
  <2>1. /\ talkClears < MaxTalkClears /\ talkClears' = talkClears + 1
        /\ UNCHANGED <<tutorial, wallet, items, pieces, characters, memorias, skins,
                       index, counts, wishes, gachaTime, tasks, drawn>>
    BY <1>7, Zenon DEF talk_event_finish
  <2>2. talkClears' \in 0..MaxTalkClears BY ONLY <1>3, <2>1
  <2> QED BY <1>2, <1>3, <2>1, <2>2, QuietKeeps, Zenon
<1>8. CASE GachaTick
  <2>1. /\ gachaTime < MaxGachaTime /\ gachaTime' = gachaTime + 1
        /\ UNCHANGED <<talkClears, tutorial, wallet, items, pieces, characters, memorias, skins,
                       index, counts, wishes, tasks, drawn>>
    BY <1>8, Zenon DEF GachaTick
  <2>2. gachaTime' \in 0..MaxGachaTime BY ONLY <1>3, <2>1
  <2> QED BY <1>2, <1>3, <2>1, <2>2, QuietKeeps, Zenon
<1>9. CASE UNCHANGED gachaVars
  <2>1. UNCHANGED <<talkClears, gachaTime, tutorial, wallet, items, pieces, characters, memorias,
                    skins, index, counts, wishes, tasks, drawn>>
    BY <1>9, Zenon DEF gachaVars
  <2> QED BY <1>2, <1>3, <2>1, QuietKeeps, Zenon
<1> QED BY <1>4, <1>5, <1>6, <1>7, <1>8, <1>9, Zenon DEF GachaNext

\* A draw keeps every count: of copies, of steps and of chances.
THEOREM DrawsAlwaysCount == GachaSpec => [](GachaTypeOK /\ DrawsKeepCount)
<1>1. GachaInv => GachaTypeOK /\ DrawsKeepCount
  <2>1. StepsCounted => StepsInOrder BY Zenon DEF StepsCounted, StepsInOrder
  <2> QED BY <2>1, SharesAreKept, Zenon DEF GachaInv, DrawsKeepCount
<1> QED BY <1>1, GachaBegins, GachaStep, PTL DEF GachaSpec
=============================================================================
