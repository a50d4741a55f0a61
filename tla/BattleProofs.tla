---------------------------- MODULE BattleProofs ----------------------------
(***************************************************************************)
(* A battle: the energy it costs (Energy), for any intervals, limits,      *)
(* prices and passes, and the engine that plays it (Combat), for any       *)
(* members, waves, speeds and skills.                                      *)
(*                                                                         *)
(* EnergyInv adds to the types and to the seconds handed out what the      *)
(* histories of a day say about the counters that are reset by comparing   *)
(* days.  That a refresh composes is a fact about every status, proved     *)
(* from the arithmetic of intervals.                                       *)
(*                                                                         *)
(* The timeline of a battle holds the turns of the living and of nobody    *)
(* else, whatever attacks, tools, delays, waves and errors do to it; and   *)
(* with effects that leave speed alone at the start of a turn, a saved     *)
(* battle waits for an ally.                                               *)
(***************************************************************************)
EXTENDS Energy, Combat, DataTheorems

-----------------------------------------------------------------------------
(* Arithmetic of intervals *)

\* The whole intervals of the time between two moments, and the rest.
LEMMA Elapsed ==
    ASSUME NEW at \in Int, NEW t \in Int, at <= t, NEW n \in Nat \ {0}
    PROVE  /\ (t - at) \div n \in Nat
           /\ (t - at) % n \in 0..(n - 1)
           /\ t - at = ((t - at) \div n) * n + ((t - at) % n)
<1> DEFINE e == t - at
<1>1. e \in Int /\ e >= 0 OBVIOUS
<1> HIDE DEF e
<1>2. /\ e \div n \in Int /\ e % n \in 0..(n - 1) /\ e = (e \div n) * n + (e % n)
      /\ e >= 0 => e \div n >= 0
  BY <1>1, Division
<1>3. e \div n \in Nat BY <1>1, <1>2
<1> QED BY <1>2, <1>3 DEF e

-----------------------------------------------------------------------------
(* Recovery: of a count that was old at the time at, with a limit and an   *)
(* interval of n seconds                                                   *)

\* The seconds that are left when the resource is full.
Surplus(old, at, limit, n, t) == AtLeastZero((t - at) - AtLeastZero(limit - old) * n)

\* The three ways a recovery ends: nothing to recover, full, or not yet full.
RecoveryEnds(old, at, limit, n, t, c, r) ==
    \/ old >= limit /\ c = old /\ r = t /\ Surplus(old, at, limit, n, t) = t - at
    \/ /\ old < limit /\ c = limit /\ r = t
       /\ old + ((t - at) \div n) >= limit
       /\ (limit - old) * n <= t - at
       /\ Surplus(old, at, limit, n, t) = (t - at) - (limit - old) * n
    \/ /\ old + ((t - at) \div n) < limit
       /\ c = old + ((t - at) \div n)
       /\ r = at + ((t - at) \div n) * n
       /\ Surplus(old, at, limit, n, t) = 0
       /\ (t - at) < (limit - old) * n

\* A recovery ends in one of these ways.
LEMMA Recovery ==
    ASSUME NEW old \in Nat, NEW at \in Int, NEW limit \in Nat, NEW n \in Nat \ {0},
           NEW t \in Int, at <= t, NEW c, NEW r,
           c = recovered_count(old, at, limit, n, t),
           r = recovered_at(c, at, limit, n, t)
    PROVE  RecoveryEnds(old, at, limit, n, t, c, r)
<1> DEFINE q == (t - at) \div n
           k == (t - at) % n
           D == (limit - old) * n
<1>1. q \in Nat /\ k \in 0..(n - 1) /\ t - at = q * n + k BY Elapsed
<1>2. D \in Int /\ q * n \in Int BY <1>1
<1>3. limit - old <= q => D <= q * n BY <1>1, ProductOrder
<1>4. q + 1 <= limit - old => q * n + n <= D
  <2>1. q + 1 <= limit - old => (q + 1) * n <= D BY <1>1, ProductOrder
  <2>2. (q + 1) * n = q * n + n BY <1>1
  <2> QED BY <2>1, <2>2
<1>5. CASE old >= limit
  <2>1. c = old /\ r = t BY <1>5 DEF recovered_count, recovered_at
  <2>2. AtLeastZero(limit - old) = 0 BY <1>5 DEF AtLeastZero
  <2>3. Surplus(old, at, limit, n, t) = t - at BY <2>2 DEF Surplus, AtLeastZero
  <2> QED BY <1>5, <2>1, <2>3 DEF RecoveryEnds
<1>6. CASE old < limit
  <2>1. AtLeastZero(limit - old) * n = D BY <1>6 DEF AtLeastZero
  <2>2. c = Least(old + q, limit) BY <1>6 DEF recovered_count
  <2>3. Surplus(old, at, limit, n, t) = AtLeastZero((t - at) - D)
    BY <2>1, Zenon DEF Surplus
  <2>4. r = IF c >= limit THEN t ELSE t - k BY Zenon DEF recovered_at
  <2> HIDE DEF q, k, D
  <2>5. CASE old + q >= limit
    <3>1. c = limit BY <2>2, <2>5, <1>1 DEF Least
    <3>2. D <= t - at BY <1>1, <1>2, <1>3, <2>5
    <3>3. Surplus(old, at, limit, n, t) = (t - at) - D
      BY <1>2, <2>3, <3>2 DEF AtLeastZero
    <3> QED BY <1>6, <2>4, <2>5, <3>1, <3>2, <3>3 DEF q, D, RecoveryEnds
  <2>6. CASE old + q < limit
    <3>1. c = old + q BY <2>2, <2>6, <1>1 DEF Least
    <3>2. t - at < D BY <1>1, <1>2, <1>4, <2>6
    <3>3. Surplus(old, at, limit, n, t) = 0 BY <1>2, <2>3, <3>2 DEF AtLeastZero
    <3>4. r = at + q * n BY <1>1, <1>2, <2>4, <2>6, <3>1
    <3> QED BY <2>6, <3>1, <3>2, <3>3, <3>4 DEF q, D, RecoveryEnds
  <2> QED BY <1>1, <2>5, <2>6 DEF RecoveryEnds
<1> QED BY <1>5, <1>6

\* A recovery hands out no more time than it moves its mark.
LEMMA RecoveryPays ==
    ASSUME NEW old \in Nat, NEW at \in Int, NEW limit \in Nat, NEW n \in Nat \ {0},
           NEW t \in Int, at <= t, NEW c, NEW r,
           c = recovered_count(old, at, limit, n, t),
           r = recovered_at(c, at, limit, n, t)
    PROVE  /\ c \in Nat /\ old <= c
           /\ r \in Int /\ at <= r /\ r <= t
           /\ Surplus(old, at, limit, n, t) \in Nat
           /\ (c - old) * n \in Nat
           /\ (c - old) * n + Surplus(old, at, limit, n, t) <= r - at
<1> DEFINE q == (t - at) \div n
           k == (t - at) % n
           D == (limit - old) * n
<1>1. q \in Nat /\ k \in 0..(n - 1) /\ t - at = q * n + k BY Elapsed
<1>2. D \in Int /\ q * n \in Nat
  <2>1. \A x, y \in Nat : x * y \in Nat OBVIOUS
  <2> QED BY <1>1, <2>1
<1>3. limit > old => D >= 0
  <2>1. limit > old => 0 * n <= D BY ProductOrder
  <2> QED BY <2>1
<1>4. (old - old) * n = 0 OBVIOUS
<1>5. CASE /\ c = old /\ r = t /\ Surplus(old, at, limit, n, t) = t - at
  BY <1>4, <1>5
<1>6. CASE /\ old < limit /\ c = limit /\ r = t /\ D <= t - at
           /\ Surplus(old, at, limit, n, t) = (t - at) - D
  <2>1. (c - old) * n = D BY <1>6
  <2> HIDE DEF q, k, D
  <2> QED BY <1>2, <1>3, <1>6, <2>1
<1>7. CASE /\ c = old + q /\ r = at + q * n
           /\ Surplus(old, at, limit, n, t) = 0
  <2>1. (c - old) * n = q * n BY <1>1, <1>7
  <2> HIDE DEF q, k, D
  <2> QED BY <1>1, <1>2, <1>7, <2>1
<1> HIDE DEF D, k
<1>8. \/ /\ c = old /\ r = t /\ Surplus(old, at, limit, n, t) = t - at
      \/ /\ old < limit /\ c = limit /\ r = t /\ D <= t - at
         /\ Surplus(old, at, limit, n, t) = (t - at) - D
      \/ /\ c = old + q /\ r = at + q * n
         /\ Surplus(old, at, limit, n, t) = 0
  <2>1. RecoveryEnds(old, at, limit, n, t, c, r) BY Recovery
  <2> QED BY ONLY <2>1, Zenon DEF RecoveryEnds, D, q
<1> QED BY ONLY <1>5, <1>6, <1>7, <1>8

\* Two recoveries in turn are one.
LEMMA RecoveryComposes ==
    ASSUME NEW old \in Nat, NEW at \in Int, NEW limit \in Nat, NEW n \in Nat \ {0},
           NEW t \in Int, at <= t, NEW u \in Int, t <= u, NEW c, NEW r,
           c = recovered_count(old, at, limit, n, t),
           r = recovered_at(c, at, limit, n, t),
           NEW d, d = recovered_count(old, at, limit, n, u)
    PROVE  /\ recovered_count(c, r, limit, n, u) = d
           /\ recovered_at(d, r, limit, n, u) = recovered_at(d, at, limit, n, u)
           /\ Surplus(old, at, limit, n, t) + Surplus(c, r, limit, n, u)
                = Surplus(old, at, limit, n, u)
<1> DEFINE q == (t - at) \div n
           w == (u - at) \div n
           m == (u - at) % n
           D == (limit - old) * n
<1>0. t - at \in Int /\ u - at \in Int /\ t - at <= u - at /\ t - at >= 0 /\ at <= u
  OBVIOUS
<1>1. q \in Nat /\ w \in Nat /\ q <= w /\ m \in 0..(n - 1) /\ u - at = w * n + m
  <2>1. q \in Nat /\ w \in Nat /\ m \in 0..(n - 1) /\ u - at = w * n + m
    BY <1>0, Elapsed
  <2>2. q <= w BY <1>0, DivisionOrder
  <2> QED BY <2>1, <2>2
<1>2. D \in Int /\ q * n \in Int /\ w * n \in Int BY <1>1
<1>3. CASE old >= limit
  <2>1. c = old /\ r = t /\ d = old BY <1>3 DEF recovered_count, recovered_at
  <2>2. AtLeastZero(limit - old) * n = 0
    BY <1>3 DEF AtLeastZero
  <2>3. \A x, y \in Int : x <= y => Surplus(old, x, limit, n, y) = y - x
    BY <2>2 DEF Surplus, AtLeastZero
  <2>4. recovered_count(c, r, limit, n, u) = d BY <1>3, <2>1 DEF recovered_count
  <2>5. recovered_at(d, r, limit, n, u) = u /\ recovered_at(d, at, limit, n, u) = u
    BY <1>3, <2>1 DEF recovered_at
  <2>6. /\ Surplus(old, at, limit, n, t) = t - at
        /\ Surplus(c, r, limit, n, u) = u - t
        /\ Surplus(old, at, limit, n, u) = u - at
    BY <1>0, <2>1, <2>3
  <2> QED BY <2>4, <2>5, <2>6
<1>4. CASE old < limit /\ old + q >= limit
  <2>1. c = limit /\ r = t /\ D <= t - at /\ Surplus(old, at, limit, n, t) = (t - at) - D
    <3>1. ~(old >= limit) /\ ~(old + q < limit) BY <1>1, <1>4
    <3> HIDE DEF D
    <3> QED BY <1>0, <3>1, Recovery DEF D, RecoveryEnds
  <2>2. d = limit /\ Surplus(old, at, limit, n, u) = (u - at) - D
    <3>1. ~(old >= limit) /\ ~(old + w < limit) BY <1>1, <1>4
    <3> HIDE DEF D
    <3> QED BY <1>0, <3>1, Recovery DEF D, RecoveryEnds
  <2>3. recovered_count(c, r, limit, n, u) = limit BY <2>1 DEF recovered_count
  <2>4. recovered_at(d, r, limit, n, u) = u /\ recovered_at(d, at, limit, n, u) = u
    BY <2>2 DEF recovered_at
  <2>5. Surplus(c, r, limit, n, u) = u - t
    <3>1. AtLeastZero(limit - limit) * n = 0 BY DEF AtLeastZero
    <3> QED BY <2>1, <3>1 DEF Surplus, AtLeastZero
  <2> HIDE DEF D
  <2> QED BY <1>2, <2>1, <2>2, <2>3, <2>4, <2>5
<1>5. CASE old + q < limit
  <2>1. c = old + q /\ r = at + q * n /\ Surplus(old, at, limit, n, t) = 0
    <3>1. ~(old >= limit) BY <1>1, <1>5
    <3> HIDE DEF D
    <3> QED BY <1>0, <1>5, <3>1, Recovery DEF RecoveryEnds
  <2>2. u - r \in Int /\ u - r = (w - q) * n + m
    <3>1. (w - q) * n = w * n - q * n BY <1>1
    <3> HIDE DEF q, w, m
    <3> QED BY <1>1, <1>2, <2>1, <3>1
  <2>3. (u - r) \div n = w - q /\ (u - r) % n = m
    <3>1. w - q \in Int BY <1>1
    <3> HIDE DEF q, w, m
    <3> QED BY <1>1, <2>2, <3>1, DivisionUnique
  <2>4. d = Least(old + w, limit)
    <3>1. ~(old >= limit) BY <1>1, <1>5
    <3> QED BY <3>1, Zenon DEF recovered_count
  <2>5. recovered_count(c, r, limit, n, u) = Least(old + w, limit)
    <3>1. ~(c >= limit) BY <1>1, <1>5, <2>1
    <3>2. recovered_count(c, r, limit, n, u) = Least(c + (w - q), limit)
      BY <2>3, <3>1, Zenon DEF recovered_count
    <3> HIDE DEF q, w
    <3>3. c + (w - q) = old + w BY <1>1, <2>1
    <3> QED BY <3>2, <3>3
  <2>6. recovered_at(d, r, limit, n, u) = recovered_at(d, at, limit, n, u)
    BY <2>3, Zenon DEF recovered_at
  <2>7. Surplus(c, r, limit, n, u) = Surplus(old, at, limit, n, u)
    <3>1. AtLeastZero(limit - c) = (limit - old) - q /\ AtLeastZero(limit - old) = limit - old
      <4> HIDE DEF q
      <4> QED BY <1>1, <1>5, <2>1 DEF AtLeastZero
    <3>2. ((limit - old) - q) * n = D - q * n
      <4> HIDE DEF q
      <4> QED BY <1>1
    <3>3. Surplus(c, r, limit, n, u) = AtLeastZero((u - r) - (D - q * n))
      BY <3>1, <3>2, Zenon DEF Surplus
    <3>4. Surplus(old, at, limit, n, u) = AtLeastZero((u - at) - D)
      BY <3>1, Zenon DEF Surplus
    <3>5. (u - r) - (D - q * n) = (u - at) - D
      <4> HIDE DEF q, D
      <4> QED BY <1>2, <2>1
    <3> QED BY <3>3, <3>4, <3>5
  <2>8. Surplus(old, at, limit, n, u) \in Int BY <1>2 DEF Surplus, AtLeastZero
  <2> HIDE DEF q, w
  <2> QED BY <2>1, <2>4, <2>5, <2>6, <2>7, <2>8
<1> HIDE DEF q
<1> QED BY <1>1, <1>3, <1>4, <1>5

-----------------------------------------------------------------------------
(* Days *)

LEMMA DayOrder ==
    ASSUME NEW a \in Int, NEW z \in Int, a <= z
    PROVE  day_of(a) \in Int /\ day_of(z) \in Int /\ day_of(a) <= day_of(z)
<1> DEFINE x == a - DayStart
           y == z - DayStart
<1>1. x \in Int /\ y \in Int /\ x <= y BY EnergyAssumption
<1>2. DaySeconds \in Nat \ {0} BY EnergyAssumption
<1> HIDE DEF x, y
<1>3. /\ x \div DaySeconds \in Int /\ y \div DaySeconds \in Int
      /\ x \div DaySeconds <= y \div DaySeconds
  BY <1>1, <1>2, Division, DivisionOrder
<1> QED BY <1>3 DEF day_of, x, y

-----------------------------------------------------------------------------
(* A refresh of a status *)

\* The purchases a refresh at t leaves recorded.
Recorded(st, t) == IF day_of(st.staminaAt) < day_of(t) THEN 0 ELSE st.purchased

LEMMA RefreshFields ==
    ASSUME NEW st \in Status, NEW t \in Int
    PROVE  LET new == refresh(st, t)
               limit == StaminaLimit[st.rank]
           IN  /\ new.rank = st.rank
               /\ new.stamina = recovered_count(st.stamina, st.staminaAt, limit,
                                                StaminaInterval, t)
               /\ new.staminaAt = recovered_at(new.stamina, st.staminaAt, limit,
                                               StaminaInterval, t)
               /\ new.spare = Least(st.spare + Surplus(st.stamina, st.staminaAt, limit,
                                                       StaminaInterval, t),
                                    MaxSpare * SpareInterval)
               /\ new.purchased = Recorded(st, t)
               /\ new.mana = recovered_count(st.mana, st.manaAt, ManaLimit,
                                             ManaInterval, t)
               /\ new.manaAt = recovered_at(new.mana, st.manaAt, ManaLimit,
                                            ManaInterval, t)
BY DEF refresh, spare_seconds, Surplus, Recorded

LEMMA EnergyConstants ==
    /\ StaminaInterval \in Nat \ {0} /\ ManaInterval \in Nat \ {0}
    /\ ManaLimit \in Nat /\ \A r \in Ranks : StaminaLimit[r] \in Nat
    /\ MaxSpare * SpareInterval \in Nat
    /\ DayStart \in Nat
<1>1. \A x, y \in Nat : x * y \in Nat OBVIOUS
<1>2. MaxSpare \in Nat /\ SpareInterval \in Nat BY EnergyAssumption
<1>3. MaxSpare * SpareInterval \in Nat BY <1>1, <1>2
<1>4. \A r \in Ranks : StaminaLimit[r] \in Nat BY EnergyAssumption
<1> QED BY <1>3, <1>4, EnergyAssumption

\* Marks move towards the present, and what is added is paid for in time.
LEMMA RefreshPays ==
    ASSUME NEW st \in Status, st.spare <= MaxSpare * SpareInterval,
           NEW t \in Nat, st.staminaAt <= t, st.manaAt <= t,
           NEW new, new = refresh(st, t)
    PROVE  /\ new \in Status
           /\ new.spare <= MaxSpare * SpareInterval
           /\ st.staminaAt <= new.staminaAt /\ new.staminaAt <= t
           /\ st.manaAt <= new.manaAt /\ new.manaAt <= t
           /\ new.purchased = Recorded(st, t)
           /\ new.purchased <= st.purchased
           /\ (new.stamina - st.stamina) * StaminaInterval \in Nat
           /\ new.spare - st.spare \in Nat
           /\ (new.stamina - st.stamina) * StaminaInterval + (new.spare - st.spare)
                <= new.staminaAt - st.staminaAt
           /\ (new.mana - st.mana) * ManaInterval \in Nat
           /\ (new.mana - st.mana) * ManaInterval <= new.manaAt - st.manaAt
<1> DEFINE limit == StaminaLimit[st.rank]
           extra == Surplus(st.stamina, st.staminaAt, limit, StaminaInterval, t)
<1>1. /\ st.rank \in Ranks /\ st.stamina \in Nat /\ st.staminaAt \in Nat
      /\ st.spare \in Nat /\ st.purchased \in Nat
      /\ st.mana \in Nat /\ st.manaAt \in Nat
  BY DEF Status
<1>2. limit \in Nat BY <1>1, EnergyConstants
<1>3. /\ new.rank = st.rank
      /\ new.stamina = recovered_count(st.stamina, st.staminaAt, limit, StaminaInterval, t)
      /\ new.staminaAt = recovered_at(new.stamina, st.staminaAt, limit, StaminaInterval, t)
      /\ new.spare = Least(st.spare + extra, MaxSpare * SpareInterval)
      /\ new.purchased = Recorded(st, t)
      /\ new.mana = recovered_count(st.mana, st.manaAt, ManaLimit, ManaInterval, t)
      /\ new.manaAt = recovered_at(new.mana, st.manaAt, ManaLimit, ManaInterval, t)
  BY RefreshFields
<1> HIDE DEF limit
<1>4. /\ new.stamina \in Nat
      /\ new.staminaAt \in Int /\ st.staminaAt <= new.staminaAt /\ new.staminaAt <= t
      /\ extra \in Nat
      /\ (new.stamina - st.stamina) * StaminaInterval \in Nat
      /\ (new.stamina - st.stamina) * StaminaInterval + extra
            <= new.staminaAt - st.staminaAt
  <2> DEFINE old == st.stamina
             at == st.staminaAt
             c == new.stamina
             r == new.staminaAt
  <2>1. /\ old \in Nat /\ at \in Int /\ t \in Int /\ at <= t /\ limit \in Nat
        /\ StaminaInterval \in Nat \ {0}
        /\ c = recovered_count(old, at, limit, StaminaInterval, t)
        /\ r = recovered_at(c, at, limit, StaminaInterval, t)
    BY <1>1, <1>2, <1>3, EnergyConstants
  <2> HIDE DEF old, at, c, r
  <2>2. /\ c \in Nat /\ r \in Int /\ at <= r /\ r <= t
        /\ Surplus(old, at, limit, StaminaInterval, t) \in Nat
        /\ (c - old) * StaminaInterval \in Nat
        /\ (c - old) * StaminaInterval + Surplus(old, at, limit, StaminaInterval, t)
              <= r - at
    BY <2>1, RecoveryPays
  <2> QED BY <2>2, Zenon DEF old, at, c, r
<1>5. /\ new.mana \in Nat
      /\ new.manaAt \in Int /\ st.manaAt <= new.manaAt /\ new.manaAt <= t
      /\ (new.mana - st.mana) * ManaInterval \in Nat
      /\ (new.mana - st.mana) * ManaInterval <= new.manaAt - st.manaAt
  <2> DEFINE rest == Surplus(st.mana, st.manaAt, ManaLimit, ManaInterval, t)
  <2>1. /\ new.mana \in Nat
        /\ new.manaAt \in Int /\ st.manaAt <= new.manaAt /\ new.manaAt <= t
        /\ rest \in Nat
        /\ (new.mana - st.mana) * ManaInterval \in Nat
        /\ (new.mana - st.mana) * ManaInterval + rest <= new.manaAt - st.manaAt
    <3> DEFINE old == st.mana
               at == st.manaAt
               c == new.mana
               r == new.manaAt
    <3>1. /\ old \in Nat /\ at \in Int /\ t \in Int /\ at <= t /\ ManaLimit \in Nat
          /\ ManaInterval \in Nat \ {0}
          /\ c = recovered_count(old, at, ManaLimit, ManaInterval, t)
          /\ r = recovered_at(c, at, ManaLimit, ManaInterval, t)
      BY <1>1, <1>3, EnergyConstants
    <3> HIDE DEF old, at, c, r
    <3>2. /\ c \in Nat /\ r \in Int /\ at <= r /\ r <= t
          /\ Surplus(old, at, ManaLimit, ManaInterval, t) \in Nat
          /\ (c - old) * ManaInterval \in Nat
          /\ (c - old) * ManaInterval + Surplus(old, at, ManaLimit, ManaInterval, t)
                <= r - at
      BY <3>1, RecoveryPays
    <3> QED BY <3>2, Zenon DEF old, at, c, r
  <2> HIDE DEF rest
  <2> QED BY <1>1, <2>1
<1> HIDE DEF extra
<1>6. /\ new.spare \in Nat /\ new.spare <= MaxSpare * SpareInterval
      /\ new.spare - st.spare \in Nat /\ new.spare - st.spare <= extra
  BY <1>1, <1>3, <1>4, EnergyConstants DEF Least
<1>7. new.purchased \in Nat /\ new.purchased <= st.purchased
  BY <1>1, <1>3 DEF Recorded
<1>8. new.staminaAt \in Nat /\ new.manaAt \in Nat BY <1>1, <1>4, <1>5
<1>9. new \in Status BY <1>1, <1>3, <1>4, <1>5, <1>6, <1>7, <1>8 DEF refresh, Status
<1>10. (new.stamina - st.stamina) * StaminaInterval + (new.spare - st.spare)
          <= new.staminaAt - st.staminaAt
  <2> DEFINE gain == (new.stamina - st.stamina) * StaminaInterval
  <2>1. gain \in Nat /\ gain + extra <= new.staminaAt - st.staminaAt BY <1>4
  <2> HIDE DEF gain
  <2>2. gain + (new.spare - st.spare) <= new.staminaAt - st.staminaAt
    BY <1>1, <1>4, <1>6, <2>1
  <2> QED BY <2>2 DEF gain
<1> QED BY <1>3, <1>4, <1>5, <1>6, <1>7, <1>9, <1>10

\* A refresh keeps the purchases that a refresh at the same time would keep.
LEMMA RefreshRecords ==
    ASSUME NEW st \in Status, NEW t \in Nat, NEW new \in Status,
           st.staminaAt <= new.staminaAt, new.staminaAt <= t,
           new.purchased = Recorded(st, t)
    PROVE  Recorded(new, t) = Recorded(st, t)
<1>1. st.staminaAt \in Int /\ new.staminaAt \in Int BY DEF Status
<1>2. /\ day_of(st.staminaAt) \in Int /\ day_of(new.staminaAt) \in Int /\ day_of(t) \in Int
      /\ day_of(st.staminaAt) <= day_of(new.staminaAt)
      /\ day_of(new.staminaAt) <= day_of(t)
  BY <1>1, DayOrder
<1> QED BY <1>2 DEF Recorded

\* Two refreshes in turn are one.
LEMMA RefreshTwice ==
    ASSUME NEW st \in Status, NEW t \in Nat, NEW u \in Nat, t <= u,
           st.spare <= MaxSpare * SpareInterval, st.staminaAt <= t, st.manaAt <= t
    PROVE  refresh(refresh(st, t), u) = refresh(st, u)
<1> DEFINE new == refresh(st, t)
           once == refresh(st, u)
           twice == refresh(new, u)
           limit == StaminaLimit[st.rank]
           first == Surplus(st.stamina, st.staminaAt, limit, StaminaInterval, t)
           second == Surplus(new.stamina, new.staminaAt, limit, StaminaInterval, u)
           both == Surplus(st.stamina, st.staminaAt, limit, StaminaInterval, u)
<1>1. /\ st.rank \in Ranks /\ st.stamina \in Nat /\ st.staminaAt \in Nat
      /\ st.spare \in Nat /\ st.purchased \in Nat
      /\ st.mana \in Nat /\ st.manaAt \in Nat
  BY DEF Status
<1>2. /\ new \in Status
      /\ st.staminaAt <= new.staminaAt /\ new.staminaAt <= t
      /\ st.manaAt <= new.manaAt /\ new.manaAt <= t
  <2> HIDE DEF new
  <2> QED BY RefreshPays DEF new
<1>3. /\ new.stamina \in Nat /\ new.staminaAt \in Nat /\ new.spare \in Nat
      /\ new.mana \in Nat /\ new.manaAt \in Nat /\ new.purchased \in Nat
  <2> HIDE DEF new
  <2> QED BY <1>2 DEF Status
<1>4. /\ new.rank = st.rank
      /\ new.stamina = recovered_count(st.stamina, st.staminaAt, limit, StaminaInterval, t)
      /\ new.staminaAt = recovered_at(new.stamina, st.staminaAt, limit, StaminaInterval, t)
      /\ new.spare = Least(st.spare + first, MaxSpare * SpareInterval)
      /\ new.purchased = Recorded(st, t)
      /\ new.mana = recovered_count(st.mana, st.manaAt, ManaLimit, ManaInterval, t)
      /\ new.manaAt = recovered_at(new.mana, st.manaAt, ManaLimit, ManaInterval, t)
  BY RefreshFields
<1>5. /\ once.rank = st.rank
      /\ once.stamina = recovered_count(st.stamina, st.staminaAt, limit, StaminaInterval, u)
      /\ once.staminaAt = recovered_at(once.stamina, st.staminaAt, limit, StaminaInterval, u)
      /\ once.spare = Least(st.spare + both, MaxSpare * SpareInterval)
      /\ once.purchased = Recorded(st, u)
      /\ once.mana = recovered_count(st.mana, st.manaAt, ManaLimit, ManaInterval, u)
      /\ once.manaAt = recovered_at(once.mana, st.manaAt, ManaLimit, ManaInterval, u)
  BY RefreshFields
<1> HIDE DEF new
<1>6. /\ twice.rank = st.rank
      /\ twice.stamina = recovered_count(new.stamina, new.staminaAt, limit, StaminaInterval, u)
      /\ twice.staminaAt = recovered_at(twice.stamina, new.staminaAt, limit, StaminaInterval, u)
      /\ twice.spare = Least(new.spare + second, MaxSpare * SpareInterval)
      /\ twice.purchased = Recorded(new, u)
      /\ twice.mana = recovered_count(new.mana, new.manaAt, ManaLimit, ManaInterval, u)
      /\ twice.manaAt = recovered_at(twice.mana, new.manaAt, ManaLimit, ManaInterval, u)
  BY <1>2, <1>4, RefreshFields
<1>7. limit \in Nat BY <1>1, EnergyConstants
<1> HIDE DEF once, twice, limit
<1>8. /\ twice.stamina = once.stamina /\ twice.staminaAt = once.staminaAt
      /\ first + second = both /\ first \in Nat /\ second \in Nat
  <2> DEFINE old == st.stamina
             at == st.staminaAt
             c == new.stamina
             r == new.staminaAt
             d == once.stamina
  <2>1. /\ old \in Nat /\ at \in Int /\ t \in Int /\ u \in Int /\ at <= t /\ limit \in Nat
        /\ StaminaInterval \in Nat \ {0} /\ c \in Nat /\ r \in Int /\ r <= u
        /\ c = recovered_count(old, at, limit, StaminaInterval, t)
        /\ r = recovered_at(c, at, limit, StaminaInterval, t)
        /\ d = recovered_count(old, at, limit, StaminaInterval, u)
    BY <1>1, <1>2, <1>3, <1>4, <1>5, <1>7, EnergyConstants
  <2> HIDE DEF old, at, c, r, d
  <2>2. /\ recovered_count(c, r, limit, StaminaInterval, u) = d
        /\ recovered_at(d, r, limit, StaminaInterval, u)
             = recovered_at(d, at, limit, StaminaInterval, u)
        /\ Surplus(old, at, limit, StaminaInterval, t)
             + Surplus(c, r, limit, StaminaInterval, u)
             = Surplus(old, at, limit, StaminaInterval, u)
    BY <2>1, RecoveryComposes
  <2>3. Surplus(old, at, limit, StaminaInterval, t) \in Nat BY <2>1, RecoveryPays
  <2>4. Surplus(c, r, limit, StaminaInterval, u) \in Nat BY <2>1, RecoveryPays
  <2>5. first + second = both /\ first \in Nat /\ second \in Nat
    BY <2>2, <2>3, <2>4, Zenon DEF old, at, c, r
  <2>6. twice.stamina = once.stamina BY <1>6, <2>2, Zenon DEF c, r, d
  <2>7. twice.staminaAt = once.staminaAt
    BY <1>5, <1>6, <2>2, <2>6, Zenon DEF r, d, at
  <2> QED BY <2>5, <2>6, <2>7
<1>9. twice.mana = once.mana /\ twice.manaAt = once.manaAt
  <2> DEFINE old == st.mana
             at == st.manaAt
             c == new.mana
             r == new.manaAt
             d == once.mana
  <2>1. /\ old \in Nat /\ at \in Int /\ t \in Int /\ u \in Int /\ at <= t /\ ManaLimit \in Nat
        /\ ManaInterval \in Nat \ {0}
        /\ c = recovered_count(old, at, ManaLimit, ManaInterval, t)
        /\ r = recovered_at(c, at, ManaLimit, ManaInterval, t)
        /\ d = recovered_count(old, at, ManaLimit, ManaInterval, u)
    BY <1>1, <1>3, <1>4, <1>5, EnergyConstants
  <2> HIDE DEF old, at, c, r, d
  <2>2. /\ recovered_count(c, r, ManaLimit, ManaInterval, u) = d
        /\ recovered_at(d, r, ManaLimit, ManaInterval, u)
             = recovered_at(d, at, ManaLimit, ManaInterval, u)
    BY <2>1, RecoveryComposes
  <2>3. twice.mana = once.mana BY <1>6, <2>2, Zenon DEF c, r, d
  <2>4. twice.manaAt = once.manaAt BY <1>5, <1>6, <2>2, <2>3, Zenon DEF r, d, at
  <2> QED BY <2>3, <2>4
<1>10. twice.spare = once.spare
  <2> HIDE DEF first, second, both
  <2> QED BY <1>1, <1>4, <1>5, <1>6, <1>8, EnergyConstants DEF Least
<1>11. twice.purchased = once.purchased
  <2>1. st.staminaAt \in Int /\ new.staminaAt \in Int /\ t \in Int /\ u \in Int
    BY <1>1, <1>3
  <2>2. /\ day_of(st.staminaAt) \in Int /\ day_of(new.staminaAt) \in Int
        /\ day_of(t) \in Int /\ day_of(u) \in Int
        /\ day_of(st.staminaAt) <= day_of(new.staminaAt)
        /\ day_of(new.staminaAt) <= day_of(t) /\ day_of(t) <= day_of(u)
    BY <1>2, <2>1, DayOrder
  <2> QED BY <1>4, <1>5, <1>6, <2>2 DEF Recorded
<1>12. \A s, v : LET a == refresh(s, v) IN
          a = [rank |-> a.rank, stamina |-> a.stamina, staminaAt |-> a.staminaAt,
               spare |-> a.spare, purchased |-> a.purchased, mana |-> a.mana,
               manaAt |-> a.manaAt]
  BY DEF refresh
<1>13. twice = once
  <2>1. once = [rank |-> once.rank, stamina |-> once.stamina,
                staminaAt |-> once.staminaAt, spare |-> once.spare,
                purchased |-> once.purchased, mana |-> once.mana,
                manaAt |-> once.manaAt]
    BY <1>12 DEF once
  <2>2. twice = [rank |-> twice.rank, stamina |-> twice.stamina,
                 staminaAt |-> twice.staminaAt, spare |-> twice.spare,
                 purchased |-> twice.purchased, mana |-> twice.mana,
                 manaAt |-> twice.manaAt]
    BY <1>12 DEF twice
  <2> QED BY <1>5, <1>6, <1>8, <1>9, <1>10, <1>11, <2>1, <2>2
<1> QED BY <1>13 DEF once, twice, new

-----------------------------------------------------------------------------
(* Passes *)

\* The passes give no more than they have left, and together no more than
\* was asked for.
LEMMA PassesGive ==
    ASSUME \A p \in Passes : PassUsedToday(p) \in Nat, NEW count \in Nat,
           NEW take, take = [p \in Passes |-> PassTake(p, count)]
    PROVE  /\ \A p \in Passes : take[p] \in Nat /\ take[p] <= PassLeft(p)
           /\ SumFunction(take) \in Nat /\ SumFunction(take) <= count
<1> DEFINE left == [q \in Passes |-> PassLeft(q)]
           Below(n) == {q \in Passes : q < n}
           L(n) == SumFunctionOnSet(left, Below(n))
           T(n) == SumFunctionOnSet(take, Below(n))
<1>1. /\ IsFiniteSet(Passes) /\ Passes \subseteq Nat
      /\ \A p \in Passes : DailyFree[p] \in Nat
  BY EnergyAssumption
<1>2. \A p \in Passes : PassLeft(p) \in Nat
  BY <1>1 DEF PassLeft, AtLeastZero
<1>3. \A n : /\ IsFiniteSet(Below(n)) /\ Below(n) \subseteq Passes
  BY <1>1, FS_Subset
<1>4. \A p \in Passes : left[p] = PassLeft(p) /\ left[p] \in Int /\ left[p] \in Nat
  BY <1>2
<1>5. ASSUME NEW n PROVE L(n) \in Nat
  <2> DEFINE S == Below(n)
  <2>1. IsFiniteSet(S) /\ \A p \in S : left[p] \in Nat BY <1>3, <1>4
  <2> HIDE DEF left, S
  <2>2. SumFunctionOnSet(left, S) \in Nat BY <2>1, SumNat
  <2> QED BY <2>2 DEF S
<1>6. \A p \in Passes : take[p] = Least(left[p], AtLeastZero(count - L(p)))
  BY DEF PassTake
<1> HIDE DEF left, L
<1>7. \A p \in Passes : take[p] \in Nat /\ take[p] <= PassLeft(p)
  BY <1>1, <1>4, <1>5, <1>6 DEF Least, AtLeastZero
<1>8. \A n \in Nat : T(n) = Least(count, L(n))
  <2> DEFINE C == {n \in Nat : T(n) # Least(count, L(n))}
  <2> SUFFICES ASSUME C # {} PROVE FALSE OBVIOUS
  <2>1. PICK n \in C : \A m \in C : n <= m
    <3> HIDE DEF C
    <3>1. C \subseteq Nat BY DEF C
    <3> QED BY <3>1, LeastNumber
  <2>2. n # 0
    <3>1. \A p \in Passes : ~(p < 0) BY <1>1
    <3>2. Below(0) = {} BY <3>1
    <3>3. L(0) = 0 /\ T(0) = 0 BY <3>2, SumEmpty DEF L
    <3> QED BY <3>3 DEF Least
  <2> DEFINE m == n - 1
  <2>3. m \in Nat /\ ~(n <= m) BY <2>2
  <2>4. T(m) = Least(count, L(m)) BY <2>1, <2>3
  <2> HIDE DEF m
  <2>0. \A p \in Passes : p < n <=> p < m \/ p = m BY <1>1, <2>3 DEF m
  <2>5. CASE m \notin Passes
    <3>1. Below(n) = Below(m) BY <2>0, <2>5
    <3>2. T(n) = Least(count, L(n)) BY <2>4, <3>1 DEF L
    <3> QED BY <3>2
  <2>6. CASE m \in Passes
    <3> DEFINE S == Below(m)
    <3>1. Below(n) = S \union {m} BY <2>0, <2>6
    <3>2. m \notin S BY <2>3 DEF m
    <3>3. IsFiniteSet(S) /\ S \subseteq Passes BY <1>3
    <3>4. left[m] \in Int /\ take[m] \in Int BY <1>4, <1>7, <2>6
    <3>5. \A p \in S : left[p] \in Int /\ take[p] \in Int BY <1>4, <1>7
    <3> HIDE DEF S
    <3>6. L(n) = SumFunctionOnSet(left, S) + left[m]
      BY <3>1, <3>2, <3>3, <3>4, <3>5, SumAdd DEF L
    <3>7. T(n) = SumFunctionOnSet(take, S) + take[m]
      BY <3>1, <3>2, <3>3, <3>4, <3>5, SumAdd
    <3>8. L(m) = SumFunctionOnSet(left, S) /\ T(m) = SumFunctionOnSet(take, S)
      BY DEF L, S
    <3>9. take[m] = Least(left[m], AtLeastZero(count - L(m))) /\ left[m] \in Nat
      BY <1>4, <1>6, <2>6
    <3>10. L(m) \in Nat BY <1>5
    <3>11. L(n) = L(m) + left[m] /\ T(n) = Least(count, L(m)) + take[m]
      <4> HIDE DEF T
      <4> QED BY <2>4, <3>6, <3>7, <3>8
    <3>12. T(n) = Least(count, L(n))
      <4> HIDE DEF T
      <4> QED BY <3>9, <3>10, <3>11 DEF Least, AtLeastZero
    <3> QED BY <3>12
  <2> QED BY <2>5, <2>6
<1>9. PICK n \in Nat : \A p \in Passes : p \in Nat => p < n BY <1>1, FiniteBound
<1>10. Below(n) = Passes BY <1>1, <1>9
<1>11. SumFunction(take) = T(n) BY <1>10, Zenon DEF SumFunction
<1>12. T(n) = Least(count, L(n)) BY <1>8
<1>13. L(n) \in Nat BY <1>5
<1> HIDE DEF T
<1>14. SumFunction(take) \in Nat /\ SumFunction(take) <= count
  BY <1>11, <1>12, <1>13 DEF Least
<1> QED BY <1>7, <1>14

-----------------------------------------------------------------------------
(* The invariant *)

\* The purchases of the day are among those a refreshed status and the passes
\* count, and a pass never counts more than it allows a day.
DayCounted ==
    /\ bought <= Recorded(status, now)
    /\ \A p \in Passes : free[p] <= PassUsedToday(p) /\ pass[p].used <= DailyFree[p]

EnergyInv == EnergyTypeOK /\ TimeCreditedOnce /\ DayCounted

\* A status that a request may start from: no more was handed out than the
\* time its marks have moved by, and the day's purchases are recorded in it.
SoundStatus(st) ==
    /\ st \in Status
    /\ st.spare <= MaxSpare * SpareInterval
    /\ st.purchased <= Cardinality(DOMAIN Prices)
    /\ Credit(st) \in [stamina: Nat, mana: Nat]
    /\ Credit(st).stamina <= st.staminaAt - DayStart
    /\ Credit(st).mana <= st.manaAt - DayStart
    /\ status.staminaAt <= st.staminaAt /\ st.staminaAt <= now
    /\ st.manaAt <= now
    /\ bought <= Recorded(st, now)

LEMMA PriceCount ==
    Cardinality(DOMAIN Prices) \in Nat /\ DOMAIN Prices = 1..Cardinality(DOMAIN Prices)
BY EnergyAssumption, FS_CardinalityType

LEMMA StoredIsSound ==
    ASSUME EnergyInv PROVE SoundStatus(status)
<1>1. /\ status \in Status /\ credited \in [stamina: Nat, mana: Nat]
      /\ status.stamina \in Nat /\ status.spare \in Nat /\ status.mana \in Nat
      /\ status.staminaAt \in Nat
  BY DEF EnergyInv, EnergyTypeOK, Status
<1>2. /\ (status.stamina - status.stamina) * StaminaInterval = 0
      /\ (status.mana - status.mana) * ManaInterval = 0
      /\ status.spare - status.spare = 0
  BY <1>1, EnergyConstants
<1>3. Credit(status) = credited BY <1>1, <1>2 DEF Credit
<1> QED BY <1>1, <1>3 DEF SoundStatus, EnergyInv, EnergyTypeOK, TimeCreditedOnce, DayCounted

LEMMA RefreshedIsSound ==
    ASSUME EnergyInv PROVE SoundStatus(refresh(status, now))
<1> DEFINE new == refresh(status, now)
           gain == (new.stamina - status.stamina) * StaminaInterval
           more == new.spare - status.spare
           made == (new.mana - status.mana) * ManaInterval
<1>1. /\ status \in Status /\ status.spare <= MaxSpare * SpareInterval
      /\ status.purchased <= Cardinality(DOMAIN Prices) /\ now \in Nat
      /\ status.staminaAt <= now /\ status.manaAt <= now
      /\ credited \in [stamina: Nat, mana: Nat]
      /\ credited.stamina <= status.staminaAt - DayStart
      /\ credited.mana <= status.manaAt - DayStart
      /\ bought <= Recorded(status, now)
  BY DEF EnergyInv, EnergyTypeOK, TimeCreditedOnce, DayCounted
<1>2. status.staminaAt \in Nat /\ status.manaAt \in Nat /\ status.purchased \in Nat
  BY <1>1 DEF Status
<1>3. /\ new \in Status /\ new.spare <= MaxSpare * SpareInterval
      /\ status.staminaAt <= new.staminaAt /\ new.staminaAt <= now
      /\ status.manaAt <= new.manaAt /\ new.manaAt <= now
      /\ new.purchased = Recorded(status, now) /\ new.purchased <= status.purchased
      /\ gain \in Nat /\ more \in Nat
      /\ gain + more <= new.staminaAt - status.staminaAt
      /\ made \in Nat /\ made <= new.manaAt - status.manaAt
  <2> HIDE DEF new
  <2> QED BY <1>1, RefreshPays DEF new
<1>4. Recorded(new, now) = Recorded(status, now)
  <2> HIDE DEF new
  <2> QED BY <1>1, <1>3, RefreshRecords
<1>5. new.staminaAt \in Nat /\ new.manaAt \in Nat /\ new.purchased \in Nat
  <2> HIDE DEF new
  <2> QED BY <1>3 DEF Status
<1>6. Credit(new) = [stamina |-> credited.stamina + gain + more,
                     mana |-> credited.mana + made]
  BY DEF Credit
<1>7. credited.stamina \in Nat /\ credited.mana \in Nat BY <1>1
<1> HIDE DEF new, gain, more, made
<1>8. /\ Credit(new) \in [stamina: Nat, mana: Nat]
      /\ Credit(new).stamina <= new.staminaAt - DayStart
      /\ Credit(new).mana <= new.manaAt - DayStart
  <2>1. /\ credited.stamina + gain + more \in Nat /\ credited.mana + made \in Nat
        /\ credited.stamina + gain + more <= new.staminaAt - DayStart
        /\ credited.mana + made <= new.manaAt - DayStart
    BY <1>1, <1>2, <1>3, <1>5, <1>7, EnergyConstants
  <2> QED BY <1>6, <2>1
<1>9. new.purchased <= Cardinality(DOMAIN Prices) BY <1>1, <1>2, <1>3, <1>5, PriceCount
<1>10. SoundStatus(new) BY <1>1, <1>3, <1>4, <1>8, <1>9 DEF SoundStatus
<1> QED BY <1>10 DEF new

\* The seconds handed out stay within the time after a request that leaves the
\* marks where it found them or moves them on.
LEMMA StoredInTime ==
    ASSUME EnergyInv, NEW st, SoundStatus(st), NEW new \in Status,
           new.spare <= MaxSpare * SpareInterval,
           new.purchased <= Cardinality(DOMAIN Prices),
           st.staminaAt <= new.staminaAt, new.staminaAt <= now,
           st.manaAt <= new.manaAt, new.manaAt <= now,
           EnergyRequest(st, new)
    PROVE  /\ status' = new /\ now' = now /\ now' \in Nat
           /\ status' \in Status
           /\ status'.spare <= MaxSpare * SpareInterval
           /\ status'.purchased <= Cardinality(DOMAIN Prices)
           /\ credited' \in [stamina: Nat, mana: Nat]
           /\ TimeCreditedOnce'
<1>1. status' = new /\ credited' = Credit(st) /\ now' = now BY DEF EnergyRequest
<1>2. now \in Nat BY DEF EnergyInv, EnergyTypeOK
<1>3. /\ st.staminaAt \in Int /\ st.manaAt \in Int
      /\ new.staminaAt \in Int /\ new.manaAt \in Int
  BY DEF SoundStatus, Status
<1>4. /\ Credit(st) \in [stamina: Nat, mana: Nat]
      /\ Credit(st).stamina <= st.staminaAt - DayStart
      /\ Credit(st).mana <= st.manaAt - DayStart
  BY DEF SoundStatus
<1>5. Credit(st).stamina \in Nat /\ Credit(st).mana \in Nat BY <1>4
<1>6. /\ Credit(st).stamina <= new.staminaAt - DayStart
      /\ Credit(st).mana <= new.manaAt - DayStart
  BY <1>3, <1>4, <1>5, EnergyConstants
<1> QED BY <1>1, <1>2, <1>4, <1>6 DEF TimeCreditedOnce

\* A status whose mark is set to the present is not reset.
LEMMA RestartedRecords ==
    ASSUME now \in Nat, NEW new, new.staminaAt = now
    PROVE  Recorded(new, now) = new.purchased
<1>1. day_of(now) \in Int BY DayOrder
<1> QED BY <1>1 DEF Recorded

\* A request that leaves the histories of the day alone.
LEMMA StoredKeeps ==
    ASSUME EnergyInv, NEW st, SoundStatus(st), NEW new \in Status,
           new.spare <= MaxSpare * SpareInterval,
           new.purchased <= Cardinality(DOMAIN Prices),
           st.staminaAt <= new.staminaAt, new.staminaAt <= now,
           st.manaAt <= new.manaAt, new.manaAt <= now,
           EnergyRequest(st, new),
           bought <= Recorded(new, now), gems' \in Nat, UNCHANGED <<pass, bought, free>>
    PROVE  EnergyInv'
<1>1. /\ status' = new /\ now' = now /\ now' \in Nat
      /\ status' \in Status
      /\ status'.spare <= MaxSpare * SpareInterval
      /\ status'.purchased <= Cardinality(DOMAIN Prices)
      /\ credited' \in [stamina: Nat, mana: Nat]
      /\ TimeCreditedOnce'
  BY StoredInTime
<1>2. EnergyTypeOK' BY <1>1 DEF EnergyInv, EnergyTypeOK
<1>3. DayCounted'
  <2>1. bought' <= Recorded(status', now') BY <1>1
  <2>2. \A p \in Passes : free'[p] <= PassUsedToday(p)' /\ pass'[p].used <= DailyFree[p]
    BY <1>1 DEF EnergyInv, DayCounted, PassUsedToday
  <2> QED BY <2>1, <2>2 DEF DayCounted, Recorded
<1> QED BY <1>1, <1>2, <1>3 DEF EnergyInv

\* The same of a request that sets the mark of stamina to the present and
\* leaves the purchases it found.
LEMMA RestartedKeeps ==
    ASSUME EnergyInv, NEW st, SoundStatus(st), NEW new \in Status,
           new.spare <= MaxSpare * SpareInterval,
           new.purchased = st.purchased,
           new.staminaAt = now,
           st.manaAt <= new.manaAt, new.manaAt <= now,
           EnergyRequest(st, new), gems' \in Nat, UNCHANGED <<pass, bought, free>>
    PROVE  EnergyInv'
<1>1. now \in Nat /\ bought \in Nat BY DEF EnergyInv, EnergyTypeOK
<1>2. /\ st.staminaAt <= now /\ st.purchased <= Cardinality(DOMAIN Prices)
      /\ bought <= Recorded(st, now) /\ st.purchased \in Nat
  BY DEF SoundStatus, Status
<1>3. bought <= st.purchased BY <1>1, <1>2 DEF Recorded
<1>4. Recorded(new, now) = new.purchased BY <1>1, RestartedRecords
<1> QED BY <1>1, <1>2, <1>3, <1>4, StoredKeeps

-----------------------------------------------------------------------------
(* The actions *)

LEMMA SoundTypes ==
    ASSUME EnergyInv, NEW st, SoundStatus(st)
    PROVE  /\ st.rank \in Ranks /\ st.stamina \in Nat /\ st.staminaAt \in Nat
           /\ st.spare \in Nat /\ st.purchased \in Nat
           /\ st.mana \in Nat /\ st.manaAt \in Nat
           /\ st.spare <= MaxSpare * SpareInterval
           /\ st.staminaAt <= now /\ st.manaAt <= now
           /\ st.purchased <= Cardinality(DOMAIN Prices)
           /\ now \in Nat /\ gems \in Nat
BY DEF SoundStatus, Status, EnergyInv, EnergyTypeOK

LEMMA FoundIsSound ==
    ASSUME EnergyInv, NEW st \in Found PROVE SoundStatus(st)
BY StoredIsSound, RefreshedIsSound DEF Found

\* More stamina, more mana, or less of them, or less that is spare.
LEMMA ChangedStatus ==
    ASSUME EnergyInv, NEW st, SoundStatus(st), NEW n \in Nat
    PROVE  /\ AddStamina(st, n) \in Status /\ AddMana(st, n) \in Status
           /\ st.stamina >= n => Charged(st, n) \in Status
<1>1. st \in Status BY DEF SoundStatus
<1>2. /\ st.stamina \in Nat /\ st.mana \in Nat /\ now \in Nat BY SoundTypes
<1>3. st.stamina + n \in Nat /\ st.mana + n \in Nat BY <1>2
<1>4. st.stamina >= n => st.stamina - n \in Nat BY <1>2
<1>5. AddStamina(st, n) \in Status BY <1>1, <1>2, <1>3 DEF AddStamina, Status
<1>6. AddMana(st, n) \in Status BY <1>1, <1>2, <1>3 DEF AddMana, Status
<1>7. st.stamina >= n => Charged(st, n) \in Status
  BY <1>1, <1>2, <1>4 DEF Charged, Status
<1> QED BY <1>5, <1>6, <1>7

LEMMA HomeRefreshKeeps == ASSUME EnergyInv, HomeRefresh PROVE EnergyInv'
<1> DEFINE new == refresh(status, now)
<1>1. SoundStatus(new) BY RefreshedIsSound
<1>2. EnergyRequest(new, new) /\ UNCHANGED <<pass, gems, bought, free>>
  BY DEF HomeRefresh, EnergyRequest
<1> HIDE DEF new
<1>3. new \in Status /\ bought <= Recorded(new, now) BY <1>1 DEF SoundStatus
<1>4. gems' \in Nat BY <1>1, <1>2, SoundTypes
<1> QED BY <1>1, <1>2, <1>3, <1>4, SoundTypes, StoredKeeps

LEMMA ManaPurchaseKeeps ==
    ASSUME EnergyInv, NEW count \in Counts, mana_purchase(count) PROVE EnergyInv'
<1> DEFINE st == refresh(status, now)
           n == count * ManaPerPurchase
           cost == count * ManaPrice
           new == AddMana(st, n)
<1>1. SoundStatus(st) BY RefreshedIsSound
<1>2. n \in Nat /\ cost \in Nat
  <2>1. count \in Nat /\ ManaPerPurchase \in Nat /\ ManaPrice \in Nat BY EnergyAssumption
  <2>2. \A x, y \in Nat : x * y \in Nat OBVIOUS
  <2> QED BY <2>1, <2>2
<1>3. /\ EnergyRequest(st, new) /\ cost <= gems /\ gems' = gems - cost
      /\ UNCHANGED <<pass, bought, free>>
  BY DEF mana_purchase
<1> HIDE DEF st, n, cost
<1>4. new \in Status BY <1>1, <1>2, ChangedStatus
<1>5. gems' \in Nat BY <1>1, <1>2, <1>3, SoundTypes
<1>6. /\ new.spare = st.spare /\ new.purchased = st.purchased
      /\ new.staminaAt = st.staminaAt /\ new.manaAt = now
  <2>1. st \in Status BY <1>1 DEF SoundStatus
  <2> QED BY <2>1 DEF AddMana, Status
<1>7. bought <= Recorded(new, now) BY <1>1, <1>6 DEF SoundStatus, Recorded
<1> HIDE DEF new
<1> QED BY <1>1, <1>3, <1>4, <1>5, <1>6, <1>7, SoundTypes, StoredKeeps

LEMMA UseSpareKeeps ==
    ASSUME EnergyInv, NEW count \in Counts, use_spare_stamina(count) PROVE EnergyInv'
<1> DEFINE st == refresh(status, now)
           n == count * SpareInterval
           new == [AddStamina(st, count) EXCEPT !.spare = @ - n]
<1>1. SoundStatus(st) BY RefreshedIsSound
<1>2. n \in Nat /\ count \in Nat
  <2>1. count \in Nat /\ SpareInterval \in Nat BY EnergyAssumption
  <2>2. \A x, y \in Nat : x * y \in Nat OBVIOUS
  <2> QED BY <2>1, <2>2
<1>3. /\ EnergyRequest(st, new) /\ st.spare >= n
      /\ UNCHANGED <<pass, gems, bought, free>>
  BY DEF use_spare_stamina
<1> HIDE DEF st, n
<1>4. st \in Status BY <1>1 DEF SoundStatus
<1>5. new \in Status
  <2>1. AddStamina(st, count) \in Status BY <1>1, <1>2, ChangedStatus
  <2>2. AddStamina(st, count).spare = st.spare BY <1>4 DEF AddStamina, Status
  <2>3. st.spare - n \in Nat BY <1>1, <1>2, <1>3, SoundTypes
  <2> QED BY <2>1, <2>2, <2>3 DEF Status
<1>6. /\ new.spare = st.spare - n /\ new.purchased = st.purchased
      /\ new.staminaAt = now /\ new.manaAt = st.manaAt
  BY <1>4 DEF AddStamina, Status
<1>7. new.spare <= MaxSpare * SpareInterval
  BY <1>1, <1>2, <1>6, SoundTypes, EnergyConstants
<1>8. gems' \in Nat BY <1>1, <1>3, SoundTypes
<1> HIDE DEF new
<1> QED BY <1>1, <1>3, <1>5, <1>6, <1>7, <1>8, SoundTypes, RestartedKeeps

LEMMA ChargeKeeps ==
    ASSUME EnergyInv, NEW st \in Found, NEW n \in Counts, charge_quest(st, n)
    PROVE  EnergyInv'
<1> DEFINE new == Charged(st, n)
<1>1. SoundStatus(st) BY FoundIsSound
<1>2. n \in Nat BY EnergyAssumption
<1>3. EnergyRequest(st, new) /\ st.stamina >= n /\ UNCHANGED <<pass, gems, bought, free>>
  BY DEF charge_quest
<1>4. new \in Status BY <1>1, <1>2, <1>3, ChangedStatus
<1>5. /\ new.spare = st.spare /\ new.purchased = st.purchased
      /\ new.staminaAt = now /\ new.manaAt = st.manaAt
  <2>1. st \in Status BY <1>1 DEF SoundStatus
  <2> QED BY <2>1 DEF Charged, Status
<1>6. gems' \in Nat BY <1>1, <1>3, SoundTypes
<1> HIDE DEF new
<1> QED BY <1>1, <1>3, <1>4, <1>5, <1>6, SoundTypes, RestartedKeeps

LEMMA StaminaKeeps ==
    ASSUME EnergyInv, NEW st \in Found, NEW n \in Counts, stamina_received(st, n)
    PROVE  EnergyInv'
<1> DEFINE new == AddStamina(st, n)
<1>1. SoundStatus(st) BY FoundIsSound
<1>2. n \in Nat BY EnergyAssumption
<1>3. EnergyRequest(st, new) /\ UNCHANGED <<pass, gems, bought, free>>
  BY DEF stamina_received
<1>4. new \in Status BY <1>1, <1>2, ChangedStatus
<1>5. /\ new.spare = st.spare /\ new.purchased = st.purchased
      /\ new.staminaAt = now /\ new.manaAt = st.manaAt
  <2>1. st \in Status BY <1>1 DEF SoundStatus
  <2> QED BY <2>1 DEF AddStamina, Status
<1>6. gems' \in Nat BY <1>1, <1>3, SoundTypes
<1> HIDE DEF new
<1> QED BY <1>1, <1>3, <1>4, <1>5, <1>6, SoundTypes, RestartedKeeps

LEMMA ManaKeeps ==
    ASSUME EnergyInv, NEW st \in Found, NEW n \in Counts, mana_received(st, n)
    PROVE  EnergyInv'
<1> DEFINE new == AddMana(st, n)
<1>1. SoundStatus(st) BY FoundIsSound
<1>2. n \in Nat BY EnergyAssumption
<1>3. EnergyRequest(st, new) /\ UNCHANGED <<pass, gems, bought, free>>
  BY DEF mana_received
<1>4. new \in Status BY <1>1, <1>2, ChangedStatus
<1>5. /\ new.spare = st.spare /\ new.purchased = st.purchased
      /\ new.staminaAt = st.staminaAt /\ new.manaAt = now
  <2>1. st \in Status BY <1>1 DEF SoundStatus
  <2> QED BY <2>1 DEF AddMana, Status
<1>6. gems' \in Nat BY <1>1, <1>3, SoundTypes
<1>7. bought <= Recorded(new, now) BY <1>1, <1>5 DEF SoundStatus, Recorded
<1> HIDE DEF new
<1> QED BY <1>1, <1>3, <1>4, <1>5, <1>6, <1>7, SoundTypes, StoredKeeps

LEMMA RankUpKeeps ==
    ASSUME EnergyInv, NEW st \in Found, rank_up(st) PROVE EnergyInv'
<1> DEFINE new == [AddStamina(st, RankBonus) EXCEPT !.rank = @ + 1]
<1>1. SoundStatus(st) BY FoundIsSound
<1>2. RankBonus \in Nat BY EnergyAssumption
<1>3. /\ EnergyRequest(st, new) /\ st.rank + 1 \in Ranks
      /\ UNCHANGED <<pass, gems, bought, free>>
  BY DEF rank_up
<1>4. st \in Status BY <1>1 DEF SoundStatus
<1>5. new \in Status
  <2>1. AddStamina(st, RankBonus) \in Status BY <1>1, <1>2, ChangedStatus
  <2>2. AddStamina(st, RankBonus).rank = st.rank BY <1>4 DEF AddStamina, Status
  <2> QED BY <1>3, <2>1, <2>2 DEF Status
<1>6. /\ new.spare = st.spare /\ new.purchased = st.purchased
      /\ new.staminaAt = now /\ new.manaAt = st.manaAt
  BY <1>4 DEF AddStamina, Status
<1>7. gems' \in Nat BY <1>1, <1>3, SoundTypes
<1> HIDE DEF new
<1> QED BY <1>1, <1>3, <1>5, <1>6, <1>7, SoundTypes, RestartedKeeps

LEMMA ChangeManaKeeps ==
    ASSUME EnergyInv, NEW cost \in Counts, change_mana(cost) PROVE EnergyInv'
<1> DEFINE fresh == refresh(status, now)
           mana == recovered_count(status.mana, status.manaAt, ManaLimit,
                                   ManaInterval, now)
           manaAt == recovered_at(mana, status.manaAt, ManaLimit, ManaInterval, now)
           st == [status EXCEPT !.mana = mana, !.manaAt = manaAt]
           new == [st EXCEPT !.mana = @ - cost]
<1>1. SoundStatus(status) /\ SoundStatus(fresh) BY StoredIsSound, RefreshedIsSound
<1>2. status \in Status /\ fresh \in Status BY <1>1 DEF SoundStatus
<1>3. fresh.mana = mana /\ fresh.manaAt = manaAt BY DEF refresh
<1>4. /\ EnergyRequest(st, new) /\ mana >= cost /\ cost \in Nat
      /\ UNCHANGED <<pass, gems, bought, free>>
  BY EnergyAssumption DEF change_mana
<1>5. credited \in [stamina: Nat, mana: Nat] /\ now \in Nat
  BY DEF EnergyInv, EnergyTypeOK
<1> HIDE DEF fresh, mana, manaAt
<1>6. /\ mana \in Nat /\ manaAt \in Nat /\ manaAt <= now
  BY <1>1, <1>3, SoundTypes
<1>7. st \in Status /\ new \in Status
  <2>1. st \in Status /\ st.mana = mana BY <1>2, <1>6 DEF Status
  <2>2. mana - cost \in Nat BY <1>4, <1>6
  <2> HIDE DEF st
  <2> QED BY <2>1, <2>2 DEF Status
<1>8. /\ st.stamina = status.stamina /\ st.spare = status.spare
      /\ st.staminaAt = status.staminaAt /\ st.purchased = status.purchased
      /\ st.mana = mana /\ st.manaAt = manaAt
      /\ new.spare = status.spare /\ new.staminaAt = status.staminaAt
      /\ new.purchased = status.purchased /\ new.manaAt = manaAt
  BY <1>2 DEF Status
<1>9. Credit(st).stamina = credited.stamina
  <2>1. (st.stamina - status.stamina) * StaminaInterval = 0 /\ st.spare - status.spare = 0
    BY <1>1, <1>8, SoundTypes, EnergyConstants
  <2>2. Credit(st).stamina
          = credited.stamina + (st.stamina - status.stamina) * StaminaInterval
              + (st.spare - status.spare)
    BY DEF Credit
  <2> HIDE DEF st
  <2> QED BY <1>5, <2>1, <2>2
<1>10. Credit(st).mana = Credit(fresh).mana BY <1>3, <1>8 DEF Credit
<1>11. Credit(st) \in [stamina: Nat, mana: Nat]
  <2>1. Credit(st).stamina \in Nat BY <1>5, <1>9
  <2>2. Credit(st).mana \in Nat BY <1>1, <1>10 DEF SoundStatus
  <2>3. Credit(st) = [stamina |-> Credit(st).stamina, mana |-> Credit(st).mana]
    BY DEF Credit
  <2> HIDE DEF st
  <2> QED BY <2>1, <2>2, <2>3
<1>12. /\ Credit(st).stamina <= st.staminaAt - DayStart
       /\ Credit(st).mana <= st.manaAt - DayStart
  <2>1. credited.stamina <= status.staminaAt - DayStart
    BY DEF EnergyInv, TimeCreditedOnce
  <2>2. Credit(fresh).mana <= manaAt - DayStart BY <1>1, <1>3 DEF SoundStatus
  <2> HIDE DEF st
  <2> QED BY <1>8, <1>9, <1>10, <2>1, <2>2
<1>13. bought <= Recorded(st, now) /\ bought <= Recorded(new, now)
  BY <1>1, <1>8 DEF SoundStatus, Recorded
<1>14. /\ status.spare <= MaxSpare * SpareInterval
       /\ status.purchased <= Cardinality(DOMAIN Prices)
       /\ status.staminaAt <= now /\ status.staminaAt \in Nat /\ gems \in Nat
  BY <1>1, SoundTypes
<1> HIDE DEF st, new
<1>15. SoundStatus(st) BY <1>6, <1>7, <1>8, <1>11, <1>12, <1>13, <1>14 DEF SoundStatus
<1>16. gems' \in Nat BY <1>4, <1>14
<1>17. st.manaAt <= new.manaAt /\ st.staminaAt <= new.staminaAt BY <1>6, <1>8, <1>14
<1> QED BY <1>4, <1>6, <1>7, <1>8, <1>13, <1>14, <1>15, <1>16, <1>17, StoredKeeps

LEMMA StaminaPurchaseKeeps ==
    ASSUME EnergyInv, NEW count \in Counts, stamina_purchase(count) PROVE EnergyInv'
<1> DEFINE st == refresh(status, now)
           take == [p \in Passes |-> PassTake(p, count)]
           base == count - SumFunction(take)
           next == st.purchased + base
           cost == SumFunctionOnSet(Prices, (st.purchased + 1)..next)
           n == count * StaminaPerPurchase
           new == Purchased(st, n, next)
<1>1. SoundStatus(st) BY RefreshedIsSound
<1>2. /\ next <= Cardinality(DOMAIN Prices) /\ cost <= gems
      /\ EnergyRequest(st, new)
      /\ pass' = [p \in Passes |->
                    IF take[p] > 0 THEN PassUsed(p, take[p]) ELSE pass[p]]
      /\ gems' = gems - cost
      /\ bought' = bought + base
      /\ free' = [p \in Passes |-> free[p] + take[p]]
  BY DEF stamina_purchase
<1>3. count \in Nat /\ StaminaPerPurchase \in Nat /\ \A p \in Passes : DailyFree[p] \in Nat
  BY EnergyAssumption
<1>4. n \in Nat
  <2>1. \A x, y \in Nat : x * y \in Nat OBVIOUS
  <2> QED BY <1>3, <2>1
<1>5. /\ \A p \in Passes : pass[p] \in [used: Nat, last: Nat \union {-1}]
      /\ pass \in [Passes -> [used: Nat, last: Nat \union {-1}]]
      /\ \A p \in Passes : free[p] \in Nat
      /\ bought \in Nat /\ now \in Nat
  BY DEF EnergyInv, EnergyTypeOK
<1>6. \A p \in Passes : PassUsedToday(p) \in Nat BY <1>5 DEF PassUsedToday
<1>7. /\ \A p \in Passes : take[p] \in Nat /\ take[p] <= PassLeft(p)
      /\ SumFunction(take) \in Nat /\ SumFunction(take) <= count
  <2> HIDE DEF take
  <2> QED BY <1>3, <1>6, PassesGive DEF take
<1> HIDE DEF take, st, n
<1>8. base \in Nat BY <1>3, <1>7
<1> HIDE DEF base
<1>9. st.purchased \in Nat /\ next \in Nat BY <1>1, <1>8, SoundTypes
<1>10. cost \in Nat
  <2> DEFINE bill == (st.purchased + 1)..next
  <2>1. IsFiniteSet(bill) BY <1>9, FS_Interval
  <2>2. \A i \in bill : i \in 1..Cardinality(DOMAIN Prices)
    <3> HIDE DEF next
    <3> QED BY <1>2, <1>9, PriceCount
  <2>3. \A i \in bill : Prices[i] \in Nat BY <2>2, EnergyAssumption
  <2> HIDE DEF bill
  <2>4. SumFunctionOnSet(Prices, bill) \in Nat BY <2>1, <2>3, SumNat
  <2> QED BY <2>4 DEF bill
<1> HIDE DEF next, cost
<1>11. gems' \in Nat
  <2>1. gems \in Nat BY <1>1, SoundTypes
  <2> QED BY <1>2, <1>10, <2>1
<1>12. /\ new \in Status /\ new.spare = st.spare /\ new.purchased = next
       /\ new.staminaAt = now /\ new.manaAt = st.manaAt
  <2>1. st \in Status BY <1>1 DEF SoundStatus
  <2>2. AddStamina(st, n) \in Status BY <1>1, <1>4, ChangedStatus
  <2>3. /\ AddStamina(st, n).spare = st.spare /\ AddStamina(st, n).staminaAt = now
        /\ AddStamina(st, n).manaAt = st.manaAt
    BY <2>1 DEF AddStamina, Status
  <2> QED BY <1>9, <2>2, <2>3 DEF Purchased, Status
<1> HIDE DEF new
<1>13. /\ status' = new /\ now' = now /\ now' \in Nat
       /\ status' \in Status
       /\ status'.spare <= MaxSpare * SpareInterval
       /\ status'.purchased <= Cardinality(DOMAIN Prices)
       /\ credited' \in [stamina: Nat, mana: Nat]
       /\ TimeCreditedOnce'
  BY <1>1, <1>2, <1>12, SoundTypes, StoredInTime
<1>14. bought' \in Nat /\ bought' <= Recorded(new, now)
  <2>1. bought <= st.purchased
    <3>1. bought <= Recorded(st, now) BY <1>1 DEF SoundStatus
    <3> QED BY <1>5, <1>9, <3>1 DEF Recorded
  <2>2. Recorded(new, now) = next BY <1>5, <1>12, RestartedRecords
  <2> QED BY <1>2, <1>5, <1>8, <1>9, <2>1, <2>2 DEF next
<1>15. ASSUME NEW p \in Passes
       PROVE  /\ pass'[p] \in [used: Nat, last: Nat \union {-1}]
              /\ free'[p] \in Nat
              /\ free'[p] <= PassUsedToday(p)' /\ pass'[p].used <= DailyFree[p]
  <2>1. /\ free[p] \in Nat /\ PassUsedToday(p) \in Nat /\ DailyFree[p] \in Nat
        /\ take[p] \in Nat /\ take[p] <= PassLeft(p)
        /\ free[p] <= PassUsedToday(p) /\ pass[p].used <= DailyFree[p]
    BY <1>3, <1>5, <1>6, <1>7 DEF EnergyInv, DayCounted
  <2>2. free'[p] = free[p] + take[p] BY <1>2
  <2>3. day_of(now) \in Int BY <1>5, DayOrder
  <2>4. CASE take[p] > 0
    <3>1. pass'[p] = [used |-> PassUsedToday(p) + take[p], last |-> now]
      BY <1>2, <2>4 DEF PassUsed
    <3>2. PassUsedToday(p)' = PassUsedToday(p) + take[p]
      BY <1>13, <2>3, <3>1 DEF PassUsedToday
    <3>3. PassUsedToday(p) + take[p] <= DailyFree[p]
      BY <2>1, <2>4 DEF PassLeft, AtLeastZero
    <3> QED BY <1>5, <2>1, <2>2, <3>1, <3>2, <3>3
  <2>5. CASE ~(take[p] > 0)
    <3>1. pass'[p] = pass[p] BY <1>2, <2>5
    <3>2. take[p] = 0 BY <2>1, <2>5
    <3>3. PassUsedToday(p)' = PassUsedToday(p) BY <1>13, <3>1 DEF PassUsedToday
    <3> QED BY <1>5, <2>1, <2>2, <3>1, <3>2, <3>3
  <2> QED BY <2>4, <2>5
<1>16. /\ pass' \in [Passes -> [used: Nat, last: Nat \union {-1}]]
       /\ free' \in [Passes -> Nat]
  <2>1. /\ pass' = [p \in Passes |-> pass'[p]] /\ free' = [p \in Passes |-> free'[p]]
    BY <1>2
  <2> QED BY <1>15, <2>1
<1>17. EnergyTypeOK' BY <1>11, <1>13, <1>14, <1>16 DEF EnergyTypeOK
<1>18. DayCounted'
  <2>1. bought' <= Recorded(status', now') BY <1>13, <1>14
  <2> QED BY <1>15, <2>1 DEF DayCounted, Recorded
<1> QED BY <1>13, <1>17, <1>18 DEF EnergyInv

LEMMA TickKeeps == ASSUME EnergyInv, Tick PROVE EnergyInv'
<1>1. now' = now + 1 /\ UNCHANGED <<status, pass, gems, credited>> BY DEF Tick
<1>2. /\ now \in Nat /\ bought \in Nat /\ free \in [Passes -> Nat]
      /\ status.purchased \in Nat
      /\ pass \in [Passes -> [used: Nat, last: Nat \union {-1}]]
  BY DEF EnergyInv, EnergyTypeOK, Status
<1>3. EnergyTypeOK'
  <2>1. /\ bought' \in Nat /\ free' \in [Passes -> Nat] /\ now' \in Nat
    BY <1>1, <1>2 DEF Tick
  <2> QED BY <1>1, <2>1 DEF EnergyInv, EnergyTypeOK
<1>4. TimeCreditedOnce'
  <2>1. status.staminaAt \in Nat /\ status.manaAt \in Nat
    BY DEF EnergyInv, EnergyTypeOK, Status
  <2> QED BY <1>1, <1>2, <2>1 DEF EnergyInv, TimeCreditedOnce
<1>5. CASE day_of(now + 1) = day_of(now)
  <2>1. bought' = bought /\ \A p \in Passes : free'[p] = free[p]
    BY <1>2, <1>5 DEF Tick
  <2>2. day_of(now') = day_of(now) BY <1>1, <1>5
  <2>3. Recorded(status', now') = Recorded(status, now) BY <1>1, <2>2 DEF Recorded
  <2>4. \A p \in Passes : PassUsedToday(p)' = PassUsedToday(p)
    BY <1>1, <2>2 DEF PassUsedToday
  <2>5. DayCounted'
    <3>1. bought' <= Recorded(status', now') BY <2>1, <2>3 DEF EnergyInv, DayCounted
    <3>2. \A p \in Passes : free'[p] <= PassUsedToday(p)' /\ pass'[p].used <= DailyFree[p]
      BY <1>1, <2>1, <2>4 DEF EnergyInv, DayCounted
    <3> QED BY <3>1, <3>2 DEF DayCounted, Recorded
  <2> QED BY <1>3, <1>4, <2>5 DEF EnergyInv
<1>6. CASE day_of(now + 1) # day_of(now)
  <2>1. bought' = 0 /\ \A p \in Passes : free'[p] = 0 BY <1>6 DEF Tick
  <2>2. Recorded(status', now') \in Nat BY <1>1, <1>2 DEF Recorded
  <2>3. \A p \in Passes : PassUsedToday(p)' \in Nat BY <1>1, <1>2 DEF PassUsedToday
  <2>4. DayCounted'
    <3>1. bought' <= Recorded(status', now') BY <2>1, <2>2
    <3>2. \A p \in Passes : free'[p] <= PassUsedToday(p)' /\ pass'[p].used <= DailyFree[p]
      BY <1>1, <2>1, <2>3 DEF EnergyInv, DayCounted
    <3> QED BY <3>1, <3>2 DEF DayCounted, Recorded
  <2> QED BY <1>3, <1>4, <2>4 DEF EnergyInv
<1> QED BY <1>5, <1>6

LEMMA EnergyInitInv == ASSUME EnergyInit PROVE EnergyInv
<1>1. /\ 1 \in Ranks /\ StaminaLimit[1] \in Nat /\ ManaLimit \in Nat /\ DayStart \in Nat
      /\ EnergyGems \in Nat /\ \A p \in Passes : DailyFree[p] \in Nat
  BY EnergyAssumption
<1>2. 0 <= MaxSpare * SpareInterval /\ 0 <= Cardinality(DOMAIN Prices)
  BY EnergyConstants, PriceCount
<1>3. EnergyTypeOK BY <1>1, <1>2 DEF EnergyInit, EnergyTypeOK, Status
<1>4. TimeCreditedOnce BY <1>1 DEF EnergyInit, TimeCreditedOnce
<1>5. DayCounted BY <1>1 DEF EnergyInit, DayCounted, Recorded, PassUsedToday
<1> QED BY <1>3, <1>4, <1>5 DEF EnergyInv

LEMMA EnergyInvKept == EnergyInv /\ [EnergyNext]_energyVars => EnergyInv'
<1> SUFFICES ASSUME EnergyInv, [EnergyNext]_energyVars PROVE EnergyInv' OBVIOUS
<1>1. CASE HomeRefresh BY <1>1, HomeRefreshKeeps
<1>2. ASSUME NEW n \in Counts, stamina_purchase(n) PROVE EnergyInv'
  BY <1>2, StaminaPurchaseKeeps
<1>3. ASSUME NEW n \in Counts, mana_purchase(n) PROVE EnergyInv'
  BY <1>3, ManaPurchaseKeeps
<1>4. ASSUME NEW n \in Counts, use_spare_stamina(n) PROVE EnergyInv'
  BY <1>4, UseSpareKeeps
<1>5. ASSUME NEW n \in Counts, change_mana(n) PROVE EnergyInv' BY <1>5, ChangeManaKeeps
<1>6. ASSUME NEW n \in Counts, NEW st \in Found, charge_quest(st, n) PROVE EnergyInv'
  BY <1>6, ChargeKeeps
<1>7. ASSUME NEW n \in Counts, NEW st \in Found, stamina_received(st, n) PROVE EnergyInv'
  BY <1>7, StaminaKeeps
<1>8. ASSUME NEW n \in Counts, NEW st \in Found, mana_received(st, n) PROVE EnergyInv'
  BY <1>8, ManaKeeps
<1>9. ASSUME NEW st \in Found, rank_up(st) PROVE EnergyInv' BY <1>9, RankUpKeeps
<1>10. CASE Tick BY <1>10, TickKeeps
<1>11. CASE UNCHANGED energyVars
  BY <1>11 DEF energyVars, EnergyInv, EnergyTypeOK, TimeCreditedOnce, DayCounted,
               Recorded, PassUsedToday
<1> QED
  BY <1>1, <1>2, <1>3, <1>4, <1>5, <1>6, <1>7, <1>8, <1>9, <1>10, <1>11 DEF EnergyNext

LEMMA EnergyInvHolds == EnergySpec => []EnergyInv
BY EnergyInitInv, EnergyInvKept, PTL DEF EnergySpec

-----------------------------------------------------------------------------
(* Theorems *)

\* Stamina, mana and spare stamina are never negative, whatever is charged,
\* and neither the store of spare stamina nor the day's price list overflows.
THEOREM EnergyTypeCorrectness == EnergySpec => []EnergyTypeOK
BY EnergyInvHolds, PTL DEF EnergyInv

\* Two refreshes are one from every status the program can have stored, and
\* no second that passes is handed out twice.
THEOREM TimeBecomesEnergyOnce == EnergySpec => []EnergyFromTime
<1>1. EnergyInv => EnergyFromTime
  <2> SUFFICES ASSUME EnergyInv PROVE EnergyFromTime OBVIOUS
  <2>1. TimeCreditedOnce BY DEF EnergyInv
  <2>2. ASSUME NEW t \in now..MaxTime
        PROVE  refresh(refresh(status, now), t) = refresh(status, t)
    <3>1. /\ status \in Status /\ status.spare <= MaxSpare * SpareInterval
          /\ status.staminaAt <= now /\ status.manaAt <= now /\ now \in Nat
      BY DEF EnergyInv, EnergyTypeOK, TimeCreditedOnce
    <3>2. t \in Nat /\ now <= t BY <3>1, EnergyAssumption
    <3> QED BY <3>1, <3>2, RefreshTwice
  <2> QED BY <2>1, <2>2 DEF EnergyFromTime, RefreshComposes
<1> QED BY <1>1, EnergyInvHolds, PTL

\* No day sells more than its price list or gives more than a pass allows,
\* whatever moves the time by which the counters of the day are reset.
THEOREM DaysAreLimited == EnergySpec => []DailyLimits
<1>1. EnergyInv => DailyLimits
  <2> SUFFICES ASSUME EnergyInv PROVE DailyLimits OBVIOUS
  <2>1. /\ bought \in Nat /\ status.purchased \in Nat
        /\ status.purchased <= Cardinality(DOMAIN Prices)
        /\ bought <= Recorded(status, now)
    BY DEF EnergyInv, EnergyTypeOK, DayCounted, Status
  <2>2. bought <= Cardinality(DOMAIN Prices) BY <2>1, PriceCount DEF Recorded
  <2>3. ASSUME NEW p \in Passes PROVE free[p] <= DailyFree[p]
    <3>1. /\ free[p] \in Nat /\ pass[p].used \in Nat /\ DailyFree[p] \in Nat
          /\ free[p] <= PassUsedToday(p) /\ pass[p].used <= DailyFree[p]
      BY EnergyAssumption DEF EnergyInv, EnergyTypeOK, DayCounted
    <3> QED BY <3>1 DEF PassUsedToday
  <2> QED BY <2>2, <2>3 DEF DailyLimits
<1> QED BY <1>1, EnergyInvHolds, PTL

-----------------------------------------------------------------------------
(* Finite sets that are ordered. *)

\* R puts the elements of A in an order.
Orders(R, A) ==
    /\ \A u \in A : <<u, u>> \notin R
    /\ \A u, v, w \in A : <<u, v>> \in R /\ <<v, w>> \in R => <<u, w>> \in R
    /\ \A u, v \in A : u # v => <<u, v>> \in R \/ <<v, u>> \in R

LEMMA OrderHasFirst ==
    ASSUME NEW A, IsFiniteSet(A), A # {}, NEW R, Orders(R, A)
    PROVE  \E u \in A : \A v \in A \ {u} : <<u, v>> \in R
<1> DEFINE First(T, u) == \A v \in T \ {u} : <<u, v>> \in R
           C == {T \in SUBSET A : T # {} /\ ~\E u \in T : First(T, u)}
<1> SUFFICES ASSUME C # {} PROVE FALSE OBVIOUS
<1>1. PICK T \in C : \A U \in C : U \subseteq T => U = T
  <2> HIDE DEF C
  <2>1. C \subseteq SUBSET A BY DEF C
  <2> QED BY <2>1, SmallestSubset
<1>2. PICK x \in T : TRUE OBVIOUS
<1> DEFINE Q == T \ {x}
<1>3. Q # {} BY <1>2
<1>4. Q \notin C
  <2>1. Q \subseteq T /\ Q # T BY <1>2
  <2> HIDE DEF Q, C
  <2> QED BY <1>1, <2>1
<1>5. PICK y \in Q : First(Q, y) BY <1>3, <1>4
<1>6. x \in A /\ y \in A /\ x # y /\ T \subseteq A BY <1>2
<1>7. CASE <<y, x>> \in R
  <2>1. First(T, y) BY <1>5, <1>7
  <2> QED BY <2>1
<1>8. CASE <<x, y>> \in R
  <2>1. ASSUME NEW v \in T \ {x} PROVE <<x, v>> \in R
    <3>1. CASE v = y BY <1>8, <3>1
    <3>2. CASE v # y
      <4>1. <<y, v>> \in R BY <1>5, <3>2
      <4> HIDE DEF C
      <4> QED BY <1>6, <1>8, <4>1, Zenon DEF Orders
    <3> QED BY <3>1, <3>2
  <2>2. First(T, x) BY <2>1
  <2> QED BY <1>2, <2>2
<1> QED BY <1>6, <1>7, <1>8, Zenon DEF Orders

\* In an order of n elements there is one behind i others, for every i < n.
LEMMA OrderHasEveryPlace ==
    ASSUME NEW A, IsFiniteSet(A), NEW R, Orders(R, A), NEW i \in 0..(Cardinality(A) - 1)
    PROVE  \E u \in A : Cardinality({v \in A : <<v, u>> \in R}) = i
<1> DEFINE Before(T, u) == {v \in T : <<v, u>> \in R}
           C == {T \in SUBSET A : \E j \in 0..(Cardinality(T) - 1) :
                    \A u \in T : Cardinality(Before(T, u)) # j}
<1> SUFFICES ASSUME \A u \in A : Cardinality(Before(A, u)) # i PROVE FALSE
  BY Zenon
<1>0. C # {}
  <2>1. A \in C
    <3> HIDE DEF Before
    <3> QED OBVIOUS
  <2> QED BY <2>1
<1>1. PICK T \in C : \A U \in C : U \subseteq T => U = T
  <2> HIDE DEF C
  <2>1. C \subseteq SUBSET A BY DEF C
  <2> QED BY <1>0, <2>1, SmallestSubset
<1>2. PICK j \in 0..(Cardinality(T) - 1) : \A u \in T : Cardinality(Before(T, u)) # j
  OBVIOUS
<1>3. T \subseteq A /\ IsFiniteSet(T) /\ Cardinality(T) \in Nat
  BY FS_Subset, FS_CardinalityType
<1>4. T # {} BY <1>2, <1>3, FS_EmptySet
<1> DEFINE S == {p \in A \X A : <<p[2], p[1]>> \in R}
<1>5. Orders(S, T)
  <2>1. \A u, v \in T : <<u, v>> \in S <=> <<v, u>> \in R BY <1>3
  <2> HIDE DEF S, C
  <2> QED BY <1>3, <2>1 DEF Orders
<1>6. PICK x \in T : \A v \in T \ {x} : <<v, x>> \in R
  <2>1. PICK x \in T : \A v \in T \ {x} : <<x, v>> \in S
    <3> HIDE DEF S, C
    <3> QED BY <1>3, <1>4, <1>5, OrderHasFirst
  <2> QED BY <2>1
<1> DEFINE Q == T \ {x}
<1> HIDE DEF C, S
<1>7. IsFiniteSet(Q) /\ Cardinality(Q) = Cardinality(T) - 1 BY <1>3, <1>6, FS_RemoveElement
<1>8. <<x, x>> \notin R /\ \A v \in Q : <<x, v>> \notin R
  <2>1. \A v \in A : <<v, v>> \notin R BY Zenon DEF Orders
  <2>2. \A v \in Q : <<v, x>> \in R BY <1>6
  <2>3. \A v, w \in A : <<v, w>> \in R /\ <<w, v>> \in R => <<v, v>> \in R
    BY Zenon DEF Orders
  <2> QED BY <1>3, <1>6, <2>1, <2>2, <2>3
<1>9. Before(T, x) = Q BY <1>6, <1>8
<1>10. \A u \in Q : Before(T, u) = Before(Q, u) BY <1>8
<1>11. j # Cardinality(T) - 1
  <2>1. Cardinality(Before(T, x)) # j BY <1>2, <1>6
  <2> HIDE DEF Before, Q
  <2> QED BY <1>7, <1>9, <2>1
<1>12. j \in 0..(Cardinality(Q) - 1)
  <2> HIDE DEF Q
  <2> QED BY <1>2, <1>3, <1>7, <1>11
<1>13. \A u \in Q : Cardinality(Before(Q, u)) # j
  <2>1. Q \subseteq T OBVIOUS
  <2> HIDE DEF Before, Q
  <2> QED BY <1>2, <1>10, <2>1, Zenon
<1>14. Q \in C
  <2>1. Q \in SUBSET A BY <1>3
  <2> HIDE DEF Before, Q
  <2> QED BY <1>12, <1>13, <2>1, Zenon DEF C
<1> QED BY <1>1, <1>6, <1>14

\* The greatest and the least of some numbers.
LEMMA NumbersHaveMin ==
    ASSUME NEW S, S \subseteq Nat, S # {}
    PROVE  Min(S) \in S /\ \A x \in S : Min(S) <= x
<1>1. \E n \in S : \A m \in S : n <= m BY LeastNumber
<1> QED BY <1>1 DEF Min

LEMMA NumbersHaveMax ==
    ASSUME NEW S, IsFiniteSet(S), S \subseteq Nat, S # {}
    PROVE  Max(S) \in S /\ \A x \in S : x <= Max(S)
<1> DEFINE R == {p \in S \X S : p[1] > p[2]}
<1>1. \A u, v \in S : <<u, v>> \in R <=> u > v OBVIOUS
<1>2. Orders(R, S)
  <2> HIDE DEF R
  <2>1. \A u \in S : u \in Nat OBVIOUS
  <2> QED BY <1>1, <2>1 DEF Orders
<1>3. PICK n \in S : \A v \in S \ {n} : <<n, v>> \in R
  <2> HIDE DEF R
  <2> QED BY <1>2, OrderHasFirst
<1>4. \A v \in S : n >= v
  <2> HIDE DEF R
  <2> SUFFICES ASSUME NEW v \in S PROVE n >= v OBVIOUS
  <2>1. n \in Nat /\ v \in Nat OBVIOUS
  <2>2. v # n => n > v BY <1>1, <1>3
  <2> QED BY <2>1, <2>2
<1>5. \E x \in S : \A y \in S : x >= y BY <1>4
<1>6. Max(S) \in S /\ \A y \in S : Max(S) >= y BY <1>5, Zenon DEF Max
<1> QED BY <1>6

-----------------------------------------------------------------------------
(* Battles as records. *)

Timelines == UNION {[U -> Nat] : U \in SUBSET Units}

Battle == [wave: Nat, alive: SUBSET Members, speed: [Members -> Nat], wait: Timelines,
           broken: SUBSET Members, pending: Nat, forced: Nat, gauge: Nat,
           uses: [Tools -> Nat]]

\* t is s with other waits for the same units.
SameBut(s, t) ==
    /\ t \in Battle
    /\ DOMAIN t.wait = DOMAIN s.wait
    /\ t.wave = s.wave /\ t.alive = s.alive /\ t.speed = s.speed /\ t.broken = s.broken
    /\ t.pending = s.pending /\ t.forced = s.forced /\ t.gauge = s.gauge
    /\ t.uses = s.uses

LEMMA MembersAreNumbers ==
    /\ Members \subseteq Nat \ {0} /\ IsFiniteSet(Members)
    /\ Allies \subseteq Members /\ Enemies \subseteq Members
    /\ Allies \intersect Enemies = {}
    /\ Members = Allies \union Enemies
<1>1. /\ Members \subseteq Nat \ {0} /\ IsFiniteSet(Members)
      /\ Allies \intersect Enemies = {}
  BY CombatAssumption, Zenon
<1>2. Members = Allies \union Enemies BY DEF Members
<1>3. Allies \subseteq Members /\ Enemies \subseteq Members BY <1>2
<1> QED BY <1>1, <1>2, <1>3

LEMMA UnitsAreFinite == IsFiniteSet(Units)
<1>1. IsFiniteSet(1..3)
  <2>1. 1 \in Int /\ 3 \in Int OBVIOUS
  <2> QED BY <2>1, FS_Interval
<1>2. IsFiniteSet(Members) BY MembersAreNumbers
<1>3. IsFiniteSet(Members \X (1..3)) BY <1>1, <1>2, FS_Product, Zenon
<1> QED BY <1>3 DEF Units

LEMMA UnitIsAPair ==
    ASSUME NEW u \in Units
    PROVE  /\ u = <<u[1], u[2]>> /\ u[1] \in Members /\ u[1] \in Nat
           /\ u[2] \in 1..3 /\ u[2] \in Nat
<1>1. PICK m \in Members, n \in 1..3 : u = <<m, n>> BY DEF Units
<1>2. u[1] = m /\ u[2] = n BY <1>1
<1>3. Members \subseteq Nat BY MembersAreNumbers, Zenon
<1>4. m \in Nat /\ n \in Nat BY <1>3
<1> QED BY <1>1, <1>2, <1>4

LEMMA TimelineIsATable ==
    ASSUME NEW w \in Timelines
    PROVE  /\ w \in [DOMAIN w -> Nat] /\ DOMAIN w \subseteq Units
           /\ IsFiniteSet(DOMAIN w)
<1>1. PICK U \in SUBSET Units : w \in [U -> Nat] BY DEF Timelines
<1>2. DOMAIN w = U BY <1>1
<1>3. IsFiniteSet(U) BY UnitsAreFinite, FS_Subset
<1> QED BY <1>1, <1>2, <1>3

LEMMA TableIsATimeline ==
    ASSUME NEW U \in SUBSET Units, NEW w \in [U -> Nat]
    PROVE  w \in Timelines
BY DEF Timelines

LEMMA PlacedUnits ==
    ASSUME NEW s \in Battle
    PROVE  /\ s.wait \in [Placed(s) -> Nat] /\ Placed(s) \subseteq Units
           /\ IsFiniteSet(Placed(s))
           /\ \A u \in Placed(s) : s.wait[u] \in Nat /\ s.speed[u[1]] \in Nat
<1>1. s.wait \in Timelines /\ s.speed \in [Members -> Nat] BY DEF Battle
<1>2. /\ s.wait \in [Placed(s) -> Nat] /\ Placed(s) \subseteq Units
      /\ IsFiniteSet(Placed(s))
  <2> DEFINE w == s.wait
  <2>1. w \in Timelines BY <1>1
  <2> HIDE DEF w
  <2>2. w \in [DOMAIN w -> Nat] /\ DOMAIN w \subseteq Units /\ IsFiniteSet(DOMAIN w)
    BY <2>1, TimelineIsATable
  <2> QED BY <2>2 DEF Placed, w
<1>3. \A u \in Placed(s) : s.speed[u[1]] \in Nat
  BY <1>1, <1>2, UnitIsAPair
<1> QED BY <1>2, <1>3

-----------------------------------------------------------------------------
(* The order of the units. *)

Order(s) == {p \in Units \X Units : Earlier(s, p[1], p[2])}

LEMMA UnitsAreOrdered ==
    ASSUME NEW s \in Battle, NEW A \in SUBSET Placed(s)
    PROVE  /\ \A u, v \in A : <<u, v>> \in Order(s) <=> Earlier(s, u, v)
           /\ Orders(Order(s), A)
           /\ IsFiniteSet(A)
<1>1. /\ Placed(s) \subseteq Units /\ IsFiniteSet(Placed(s))
      /\ \A u \in Placed(s) : s.wait[u] \in Nat /\ s.speed[u[1]] \in Nat
  BY PlacedUnits
<1>2. A \subseteq Units BY <1>1
<1>3. \A u, v \in A : <<u, v>> \in Order(s) <=> Earlier(s, u, v) BY <1>2 DEF Order
<1>4. \A u \in A : /\ u = <<u[1], u[2]>> /\ u[1] \in Nat /\ u[2] \in Nat
                   /\ s.wait[u] \in Nat /\ s.speed[u[1]] \in Nat
  BY <1>1, <1>2, UnitIsAPair
<1>5. \A u \in A : ~Earlier(s, u, u) BY <1>4 DEF Earlier
<1>6. ASSUME NEW u \in A, NEW v \in A, NEW w \in A, Earlier(s, u, v), Earlier(s, v, w)
      PROVE  Earlier(s, u, w)
  BY <1>4, <1>6 DEF Earlier
<1>7. ASSUME NEW u \in A, NEW v \in A, u # v
      PROVE  Earlier(s, u, v) \/ Earlier(s, v, u)
  <2>1. u[1] # v[1] \/ u[2] # v[2] BY <1>4, <1>7
  <2> QED BY <1>4, <2>1 DEF Earlier
<1>8. Orders(Order(s), A)
  <2>1. \A u \in A : <<u, u>> \notin Order(s) BY <1>3, <1>5
  <2>2. \A u, v, w \in A : <<u, v>> \in Order(s) /\ <<v, w>> \in Order(s)
                                => <<u, w>> \in Order(s)
    BY <1>3, <1>6
  <2>3. \A u, v \in A : u # v => <<u, v>> \in Order(s) \/ <<v, u>> \in Order(s)
    BY <1>3, <1>7
  <2> QED BY <2>1, <2>2, <2>3 DEF Orders
<1> QED BY <1>1, <1>3, <1>8, FS_Subset

LEMMA FirstUnitIsFirst ==
    ASSUME NEW s \in Battle, NEW A \in SUBSET Placed(s), A # {}
    PROVE  /\ FirstUnit(s, A) \in A
           /\ \A v \in A \ {FirstUnit(s, A)} : Earlier(s, FirstUnit(s, A), v)
           /\ \A v \in A : s.wait[FirstUnit(s, A)] <= s.wait[v]
<1>1. /\ \A u, v \in A : <<u, v>> \in Order(s) <=> Earlier(s, u, v)
      /\ Orders(Order(s), A) /\ IsFiniteSet(A)
  BY UnitsAreOrdered
<1>2. PICK u \in A : \A v \in A \ {u} : <<u, v>> \in Order(s) BY <1>1, OrderHasFirst
<1>3. \A v \in A \ {u} : Earlier(s, u, v) BY <1>1, <1>2
<1> DEFINE f == FirstUnit(s, A)
<1>4. f \in A /\ \A v \in A \ {f} : Earlier(s, f, v) BY <1>3, Zenon DEF FirstUnit
<1> HIDE DEF f
<1>5. ASSUME NEW v \in A PROVE s.wait[f] <= s.wait[v]
  <2>1. s.wait[f] \in Nat /\ s.wait[v] \in Nat BY <1>4, PlacedUnits
  <2>2. CASE v = f BY <2>1, <2>2
  <2>3. CASE v # f
    <3>1. Earlier(s, f, v) BY <1>4, <2>3
    <3> QED BY <2>1, <3>1 DEF Earlier
  <2> QED BY <2>2, <2>3
<1> QED BY <1>4, <1>5 DEF f

LEMMA LastUnitIsOne ==
    ASSUME NEW s \in Battle, NEW A \in SUBSET Placed(s), A # {}
    PROVE  LastUnit(s, A) \in A
<1> DEFINE R == {p \in A \X A : <<p[2], p[1]>> \in Order(s)}
<1>1. /\ \A u, v \in A : <<u, v>> \in Order(s) <=> Earlier(s, u, v)
      /\ Orders(Order(s), A) /\ IsFiniteSet(A)
  BY UnitsAreOrdered
<1>2. \A u, v \in A : <<u, v>> \in R <=> <<v, u>> \in Order(s) OBVIOUS
<1> HIDE DEF R
<1>3. Orders(R, A) BY <1>1, <1>2 DEF Orders
<1>4. PICK u \in A : \A v \in A \ {u} : <<u, v>> \in R BY <1>1, <1>3, OrderHasFirst
<1>5. \A v \in A \ {u} : Earlier(s, v, u) BY <1>1, <1>2, <1>4
<1> QED BY <1>5, Zenon DEF LastUnit

\* Every place among some units is taken.
LEMMA PlaceIsTaken ==
    ASSUME NEW s \in Battle, NEW A \in SUBSET Placed(s), NEW i \in 0..(Cardinality(A) - 1)
    PROVE  (CHOOSE u \in A : Index(s, u, A) = i) \in A
<1>1. /\ \A u, v \in A : <<u, v>> \in Order(s) <=> Earlier(s, u, v)
      /\ Orders(Order(s), A) /\ IsFiniteSet(A)
  BY UnitsAreOrdered
<1>2. PICK u \in A : Cardinality({v \in A : <<v, u>> \in Order(s)}) = i
  BY <1>1, OrderHasEveryPlace
<1>3. {v \in A : <<v, u>> \in Order(s)} = {v \in A : Earlier(s, v, u)} BY <1>1
<1>4. Index(s, u, A) = i BY <1>2, <1>3, Zenon DEF Index
<1> QED BY <1>4, Zenon

-----------------------------------------------------------------------------
(* Moves that keep the units. *)

LEMMA WaitsAreReplaced ==
    ASSUME NEW s \in Battle, NEW w \in [Placed(s) -> Nat],
           NEW t, t = [s EXCEPT !.wait = w]
    PROVE  SameBut(s, t) /\ t.wait = w
<1>1. Placed(s) \in SUBSET Units BY PlacedUnits
<1>2. w \in Timelines BY <1>1, TableIsATimeline
<1>3. t \in Battle BY <1>2 DEF Battle
<1>4. /\ t.wave = s.wave /\ t.alive = s.alive /\ t.speed = s.speed /\ t.broken = s.broken
      /\ t.pending = s.pending /\ t.forced = s.forced /\ t.gauge = s.gauge
      /\ t.uses = s.uses /\ t.wait = w
  BY DEF Battle
<1>5. DOMAIN t.wait = DOMAIN s.wait BY <1>4 DEF Placed
<1> QED BY <1>3, <1>4, <1>5 DEF SameBut

LEMMA SameButTwice ==
    ASSUME NEW s, NEW t, NEW r, SameBut(s, t), SameBut(t, r)
    PROVE  SameBut(s, r)
BY DEF SameBut

LEMMA DelayMoves ==
    ASSUME NEW s \in Battle, NEW ids, NEW ticks \in Nat
    PROVE  SameBut(s, delay_timeline_members(s, ids, ticks))
<1> DEFINE w == [u \in Placed(s) |-> s.wait[u] + (IF u[1] \in ids THEN ticks ELSE 0)]
           t == delay_timeline_members(s, ids, ticks)
<1>1. w \in [Placed(s) -> Nat]
  <2>1. \A u \in Placed(s) : s.wait[u] \in Nat BY PlacedUnits
  <2>2. \A u \in Placed(s) : s.wait[u] + (IF u[1] \in ids THEN ticks ELSE 0) \in Nat
    BY <2>1
  <2> QED BY <2>2
<1>2. t = [s EXCEPT !.wait = w] BY DEF delay_timeline_members
<1> HIDE DEF w, t
<1>3. SameBut(s, t) BY <1>1, <1>2, WaitsAreReplaced
<1> QED BY <1>3 DEF t

\* A delay by slots moves a member by a number when somebody else is placed.
LEMMA SlotDelayIsANumber ==
    ASSUME NEW s \in Battle, NEW m, Of(s, m) # {}, Placed(s) \ Of(s, m) # {},
           NEW slots \in Nat \ {0}
    PROVE  SlotDelay(s, m, slots) \in Int
<1> DEFINE others == Placed(s) \ Of(s, m)
           first == FirstUnit(s, Of(s, m))
           from == Index(s, first, Placed(s)) + slots
           n == Cardinality(others)
           at == IF from <= n THEN from ELSE n
           other(i) == s.wait[CHOOSE u \in others : Index(s, u, others) = i]
           lower == other(at - 1)
<1>1. /\ Placed(s) \subseteq Units /\ IsFiniteSet(Placed(s))
      /\ \A u \in Placed(s) : s.wait[u] \in Nat
  BY PlacedUnits
<1>2. Of(s, m) \in SUBSET Placed(s) /\ others \in SUBSET Placed(s) BY DEF Of
<1>3. first \in Placed(s)
  <2>1. first \in Of(s, m) BY <1>2, FirstUnitIsFirst
  <2> QED BY <1>2, <2>1
<1>4. Index(s, first, Placed(s)) \in Nat
  <2> DEFINE before == {v \in Placed(s) : Earlier(s, v, first)}
  <2>1. IsFiniteSet(before)
    <3>1. before \in SUBSET Placed(s) OBVIOUS
    <3> HIDE DEF before
    <3> QED BY <1>1, <3>1, FS_Subset
  <2>2. Cardinality(before) \in Nat BY <2>1, FS_CardinalityType
  <2> QED BY <2>2 DEF Index
<1>5. n \in Nat /\ n # 0
  <2>1. IsFiniteSet(others)
    <3> HIDE DEF others
    <3> QED BY <1>1, <1>2, FS_Subset
  <2> HIDE DEF others
  <2>2. others # {} BY DEF others
  <2> QED BY <2>1, <2>2, FS_CardinalityType, FS_EmptySet
<1> HIDE DEF n, first
<1>6. from \in Nat /\ from >= 1 BY <1>4
<1> HIDE DEF from
<1>7. at \in Nat /\ at >= 1 /\ at <= n BY <1>5, <1>6
<1> HIDE DEF at
<1>8. ASSUME NEW i \in 0..(n - 1) PROVE other(i) \in Nat
  <2>1. (CHOOSE u \in others : Index(s, u, others) = i) \in others
    <3> HIDE DEF others
    <3> QED BY <1>2, PlaceIsTaken DEF n
  <2> DEFINE v == CHOOSE u \in others : Index(s, u, others) = i
  <2>2. v \in Placed(s) BY <2>1
  <2> HIDE DEF v
  <2>3. s.wait[v] \in Nat BY <1>1, <2>2
  <2> QED BY <2>3 DEF v
<1>9. at - 1 \in 0..(n - 1) BY <1>5, <1>7
<1>10. lower \in Nat
  <2> HIDE DEF other
  <2> QED BY <1>8, <1>9
<1>11. at # n => other(at) \in Nat
  <2>1. at # n => at \in 0..(n - 1) BY <1>5, <1>7
  <2> HIDE DEF other
  <2> QED BY <1>8, <2>1
<1>12. s.wait[first] \in Nat BY <1>1, <1>3
<1>13. SlotDelay(s, m, slots) =
           (IF at = n THEN lower + 1 ELSE lower + (other(at) - lower) \div 2)
               - s.wait[first]
  BY Zenon DEF SlotDelay, at, from, n, first
<1> DEFINE x == other(at)
           y == s.wait[first]
           d == SlotDelay(s, m, slots)
<1>14. d = (IF at = n THEN lower + 1 ELSE lower + (x - lower) \div 2) - y
  BY <1>13
<1>15. (at # n => x \in Nat) /\ y \in Nat BY <1>11, <1>12
<1> HIDE DEF lower, x, y, d, other
<1>16. CASE at = n BY <1>10, <1>14, <1>15, <1>16 DEF d
<1>17. CASE at # n
  <2>1. x - lower \in Int BY <1>10, <1>15, <1>17
  <2>2. (x - lower) \div 2 \in Int BY <2>1
  <2>3. d \in Int BY <1>10, <1>14, <1>15, <1>17, <2>2
  <2> QED BY <2>3 DEF d
<1> QED BY <1>16, <1>17

LEMMA RefusedFails ==
    ASSUME NEW s \in Battle
    PROVE  Refused(s) \in Battle /\ Fails(Refused(s))
BY DEF Battle, Refused, Fails

LEMMA SlotsMove ==
    ASSUME NEW s \in Battle, NEW m, NEW slots \in Nat \ {0},
           Of(s, m) # {}, Placed(s) \ Of(s, m) # {},
           NEW t, t = delay_timeline_member_by_slots(s, m, slots)
    PROVE  t \in Battle /\ (Fails(t) \/ (~Fails(s) /\ SameBut(s, t)))
<1> DEFINE d == SlotDelay(s, m, slots)
<1>1. d \in Int BY SlotDelayIsANumber
<1>2. CASE Fails(s) \/ d <= 0
  <2>1. t = Refused(s) BY <1>2 DEF delay_timeline_member_by_slots
  <2> QED BY <2>1, RefusedFails
<1>3. CASE ~(Fails(s) \/ d <= 0)
  <2>1. t = delay_timeline_members(s, {m}, d)
    BY <1>3 DEF delay_timeline_member_by_slots
  <2> HIDE DEF d
  <2>2. d \in Nat BY <1>1, <1>3
  <2>3. SameBut(s, t) BY <2>1, <2>2, DelayMoves
  <2> QED BY <1>3, <2>3 DEF SameBut
<1> QED BY <1>2, <1>3

\* The table of apply_timeline_effects up to k.
MovedTo(s, targets, slots, k, f) ==
    f = [n \in 0..k |->
            IF n = 0 THEN s
            ELSE IF n \in targets THEN delay_timeline_member_by_slots(f[n - 1], n, slots)
                 ELSE f[n - 1]]

LEMMA MovedToExists ==
    ASSUME NEW s, NEW targets, NEW slots, NEW k \in Nat
    PROVE  \E f : MovedTo(s, targets, slots, k, f)
<1> DEFINE C == {j \in Nat : ~\E f : MovedTo(s, targets, slots, j, f)}
<1> SUFFICES ASSUME C # {} PROVE FALSE BY Zenon
<1>1. PICK j \in C : \A i \in C : j <= i
  <2>1. C \subseteq Nat OBVIOUS
  <2> HIDE DEF C
  <2> QED BY <2>1, LeastNumber
<1>2. j # 0
  <2> SUFFICES ASSUME j = 0 PROVE FALSE OBVIOUS
  <2> DEFINE g == [n \in 0..0 |-> s]
  <2>1. MovedTo(s, targets, slots, 0, g) BY DEF MovedTo
  <2> HIDE DEF g
  <2> QED BY <2>1
<1>3. j \in Nat /\ j - 1 \in Nat /\ j - 1 < j BY <1>2
<1>4. j - 1 \notin C
  <2>1. C \subseteq Nat OBVIOUS
  <2> HIDE DEF C
  <2> QED BY <1>1, <1>3, <2>1
<1>5. PICK g : MovedTo(s, targets, slots, j - 1, g) BY <1>3, <1>4, Zenon
<1> DEFINE D(x, n) == delay_timeline_member_by_slots(x, n, slots)
           last == IF j \in targets THEN D(g[j - 1], j) ELSE g[j - 1]
           f == [n \in 0..j |-> IF n = j THEN last ELSE g[n]]
<1>6. \A n \in 0..(j - 1) :
          g[n] = IF n = 0 THEN s ELSE IF n \in targets THEN D(g[n - 1], n) ELSE g[n - 1]
  <2> HIDE DEF C
  <2> QED BY <1>5, Zenon DEF MovedTo
<1>7. ASSUME NEW n \in 0..j
      PROVE  f[n] = IF n = 0 THEN s ELSE IF n \in targets THEN D(f[n - 1], n) ELSE f[n - 1]
  <2> HIDE DEF D, C
  <2>1. n # 0 => f[n - 1] = g[n - 1]
    <3>1. n # 0 => n - 1 \in 0..j /\ n - 1 # j BY <1>3
    <3> QED BY <3>1
  <2>2. CASE n = j BY <1>2, <2>1, <2>2
  <2>3. CASE n # j
    <3>1. n \in 0..(j - 1) /\ f[n] = g[n] BY <1>3, <2>3
    <3> QED BY <1>6, <2>1, <3>1
  <2> QED BY <2>2, <2>3
<1>8. f = [n \in 0..j |-> f[n]] OBVIOUS
<1> HIDE DEF f, C
<1>9. MovedTo(s, targets, slots, j, f) BY <1>7, <1>8, Zenon DEF MovedTo
<1> QED BY <1>1, <1>9, Zenon DEF C

\* A loop of delays ends in an error or moves waits alone.
LEMMA EffectsMove ==
    ASSUME NEW s \in Battle, ~Fails(s), NEW slots \in Nat, NEW targets,
           \A m \in targets : Of(s, m) # {} /\ Placed(s) \ Of(s, m) # {},
           NEW t, t = apply_timeline_effects(s, targets, slots)
    PROVE  t \in Battle /\ (Fails(t) \/ SameBut(s, t))
<1> DEFINE N == Max(Members)
           R(f) == f = [n \in 0..N |->
                      IF n = 0 THEN s
                      ELSE IF n \in targets
                           THEN delay_timeline_member_by_slots(f[n - 1], n, slots)
                           ELSE f[n - 1]]
           g == CHOOSE f : R(f)
<1>1. CASE slots = 0
  <2>1. t = s BY <1>1, Zenon DEF apply_timeline_effects
  <2> QED BY <2>1 DEF SameBut
<1>2. CASE slots # 0
  <2>1. t = g[N] BY <1>2, Zenon DEF apply_timeline_effects
  <2>2. N \in Nat
    <3>1. Members # {} BY CombatAssumption, MembersAreNumbers
    <3>2. Members \subseteq Nat BY MembersAreNumbers, Zenon
    <3>3. N \in Members BY <3>1, <3>2, MembersAreNumbers, NumbersHaveMax
    <3> QED BY <3>2, <3>3
  <2>3. \A f : R(f) <=> MovedTo(s, targets, slots, N, f) BY Zenon DEF MovedTo
  <2>4. \E f : R(f)
    <3>1. PICK f : MovedTo(s, targets, slots, N, f) BY <2>2, MovedToExists
    <3> HIDE DEF R
    <3> QED BY <2>3, <3>1, Zenon
  <2>5. R(g)
    <3> HIDE DEF R
    <3> QED BY <2>4, Zenon
  <2>6. \A n \in 0..N : g[n] = IF n = 0 THEN s
                               ELSE IF n \in targets
                                    THEN delay_timeline_member_by_slots(g[n - 1], n, slots)
                                    ELSE g[n - 1]
    <3> HIDE DEF g, N
    <3> QED BY <2>5, Zenon
  <2> HIDE DEF g, R, N
  <2> DEFINE Good(x) == x \in Battle /\ (Fails(x) \/ SameBut(s, x))
             C == {n \in 0..N : ~Good(g[n])}
  <2>7. C = {}
    <3> SUFFICES ASSUME C # {} PROVE FALSE OBVIOUS
    <3>1. PICK n \in C : \A i \in C : n <= i
      <4>1. C \subseteq Nat BY <2>2
      <4> HIDE DEF C
      <4> QED BY <4>1, LeastNumber
    <3>2. n \in 0..N /\ ~Good(g[n]) OBVIOUS
    <3>3. n # 0
      <4> SUFFICES ASSUME n = 0 PROVE FALSE OBVIOUS
      <4>1. g[0] = s BY <2>6, <3>2
      <4> QED BY <3>2, <4>1 DEF SameBut
    <3>4. n - 1 \in 0..N /\ n \in Nat /\ n - 1 < n BY <2>2, <3>2, <3>3
    <3>5. Good(g[n - 1])
      <4> SUFFICES ASSUME ~Good(g[n - 1]) PROVE FALSE OBVIOUS
      <4>1. n - 1 \in C
        <5> HIDE DEF Good
        <5> QED BY <3>4
      <4> HIDE DEF C, Good
      <4> QED BY <3>1, <3>4, <4>1
    <3> DEFINE x == g[n - 1]
               y == g[n]
    <3>6. CASE n \notin targets
      <4>1. y = x BY <2>6, <3>2, <3>3, <3>6
      <4> HIDE DEF Good
      <4> QED BY <3>2, <3>5, <4>1
    <3>7. CASE n \in targets
      <4>1. y = delay_timeline_member_by_slots(x, n, slots)
        BY <2>6, <3>2, <3>3, <3>7
      <4> HIDE DEF x, y, C
      <4>2. x \in Battle /\ (Fails(x) \/ SameBut(s, x)) BY <3>5 DEF x
      <4>3. CASE Fails(x)
        <5>1. y = Refused(x) BY <4>1, <4>3 DEF delay_timeline_member_by_slots
        <5>2. Good(y) BY <4>2, <5>1, RefusedFails
        <5> HIDE DEF Good
        <5> QED BY <3>2, <5>2 DEF y
      <4>4. CASE SameBut(s, x)
        <5>1. Placed(x) = Placed(s) /\ Of(x, n) = Of(s, n)
          BY <4>4 DEF SameBut, Placed, Of
        <5>2. Of(x, n) # {} /\ Placed(x) \ Of(x, n) # {} BY <3>7, <5>1
        <5>3. slots \in Nat \ {0} BY <1>2
        <5>4. y \in Battle /\ (Fails(y) \/ SameBut(x, y))
          BY <4>1, <4>2, <5>2, <5>3, SlotsMove
        <5>5. Good(y) BY <4>4, <5>4, SameButTwice
        <5> HIDE DEF Good
        <5> QED BY <3>2, <5>5 DEF y
      <4> QED BY <4>2, <4>3, <4>4
    <3> QED BY <3>6, <3>7
  <2>8. Good(g[N])
    <3>1. N \in 0..N BY <2>2
    <3> HIDE DEF Good
    <3> QED BY <2>7, <3>1
  <2> QED BY <2>1, <2>8
<1> QED BY <1>1, <1>2

-----------------------------------------------------------------------------
(* A battle that is in order. *)

\* The timeline holds two or three turns of each living member, and no others.
Matches(s) ==
    /\ \A u \in Placed(s) : u[1] \in s.alive
    /\ \A m \in s.alive : Cardinality(Of(s, m)) \in 2..3

Sound(s) == s \in Battle /\ BattleTypeOK(s) /\ Matches(s)

\* Some member other than m lives.
Accompanied(s, m) == \E x \in s.alive : x # m

LEMMA ConstantsAreNumbers ==
    /\ WaitScale \in Nat \ {0} /\ BreakDelay \in Nat \ {0} /\ MaxActions \in Nat \ {0}
    /\ ToolUses \in Nat /\ MaxGauge \in Nat /\ ToolsPerTurn \in Nat
    /\ SkillWaits \subseteq Int /\ Slots \subseteq Nat
    /\ Provokers \subseteq Members /\ Allies # {}
    /\ HpSpeedRules \in BOOLEAN
    /\ \A m \in Members : Speeds[m] # {} /\ Speeds[m] \subseteq Nat \ {0}
<1>1. /\ {WaitScale, BreakDelay, MaxActions} \subseteq Nat \ {0}
      /\ {ToolUses, MaxGauge, ToolsPerTurn, MaxWait} \subseteq Nat
      /\ SkillWaits \subseteq Int /\ Slots \subseteq Nat
      /\ Provokers \subseteq Members /\ Allies # {}
      /\ HpSpeedRules \in BOOLEAN
      /\ \A m \in Members : Speeds[m] # {} /\ Speeds[m] \subseteq Nat \ {0}
  BY CombatAssumption, Zenon
<1>2. /\ WaitScale \in Nat \ {0} /\ BreakDelay \in Nat \ {0} /\ MaxActions \in Nat \ {0}
      /\ ToolUses \in Nat /\ MaxGauge \in Nat /\ ToolsPerTurn \in Nat
  BY <1>1
<1> QED BY <1>1, <1>2

LEMMA WavesAreSets ==
    /\ Len(Waves) \in Nat /\ Len(Waves) >= 1 /\ DOMAIN Waves = 1..Len(Waves)
    /\ 1 \in DOMAIN Waves
    /\ \A i \in DOMAIN Waves :
          Waves[i] # {} /\ Waves[i] \subseteq Enemies /\ i \in Nat /\ i # 0
<1>1. Waves \in Seq(SUBSET Members) /\ Waves # <<>> BY CombatAssumption, Zenon
<1>2. Len(Waves) \in Nat /\ DOMAIN Waves = 1..Len(Waves) /\ Len(Waves) # 0
  BY <1>1, LenProperties, EmptySeq
<1>3. \A i \in DOMAIN Waves : Waves[i] # {} BY CombatAssumption, Zenon
<1>4. \A i \in DOMAIN Waves : Waves[i] \subseteq Enemies BY DEF Enemies
<1>5. Len(Waves) >= 1 /\ 1 \in DOMAIN Waves BY <1>2
<1> QED BY <1>2, <1>3, <1>4, <1>5

LEMMA SoundBasics ==
    ASSUME NEW s, Sound(s)
    PROVE  /\ s.wave \in DOMAIN Waves /\ ~Fails(s)
           /\ s.alive \subseteq Members /\ s.broken \subseteq s.alive \intersect Enemies
           /\ \A m \in Members : s.speed[m] \in Nat \ {0}
           /\ \A m \in s.alive : Of(s, m) # {}
           /\ Placed(s) \subseteq Units /\ IsFiniteSet(Placed(s))
<1>1. s.wave \in DOMAIN Waves /\ s.broken \subseteq s.alive \intersect Enemies
  BY DEF Sound, BattleTypeOK
<1>2. ~Fails(s) BY <1>1, WavesAreSets DEF Fails
<1>3. s.alive \subseteq Members BY DEF Sound, Battle
<1>4. \A m \in Members : s.speed[m] \in Nat \ {0}
  BY ConstantsAreNumbers DEF Sound, BattleTypeOK
<1>5. \A m \in s.alive : Of(s, m) # {}
  <2> SUFFICES ASSUME NEW m \in s.alive, Of(s, m) = {} PROVE FALSE OBVIOUS
  <2>1. Cardinality(Of(s, m)) = 0 BY FS_EmptySet
  <2>2. Cardinality(Of(s, m)) \in 2..3 BY DEF Sound, Matches
  <2> QED BY <2>1, <2>2
<1>6. Placed(s) \subseteq Units /\ IsFiniteSet(Placed(s)) BY PlacedUnits DEF Sound
<1> QED BY <1>1, <1>2, <1>3, <1>4, <1>5, <1>6

\* A move of waits keeps the order.
LEMMA MovesKeepSound ==
    ASSUME NEW s, Sound(s), NEW t, SameBut(s, t)
    PROVE  Sound(t)
<1>1. Placed(t) = Placed(s) /\ \A m : Of(t, m) = Of(s, m)
  BY DEF SameBut, Placed, Of
<1>2. Matches(t) BY <1>1 DEF Matches, SameBut, Sound
<1>3. t \in Battle BY DEF SameBut
<1>4. BattleTypeOK(t)
  <2>1. \A u \in DOMAIN t.wait : u \in Units /\ t.wait[u] \in Nat
    BY <1>3, PlacedUnits DEF Placed
  <2> QED BY <2>1 DEF BattleTypeOK, SameBut, Sound
<1> QED BY <1>2, <1>3, <1>4 DEF Sound

\* Everything but waits and units may change between s and t.
LEMMA SameTimeline ==
    ASSUME NEW s, Sound(s), NEW t \in Battle, t.wait = s.wait, t.alive = s.alive
    PROVE  Matches(t) /\ \A u \in DOMAIN t.wait : u \in Units /\ t.wait[u] \in Nat
<1>1. Placed(t) = Placed(s) /\ \A m : Of(t, m) = Of(s, m) BY DEF Placed, Of
<1>2. Matches(t) BY <1>1 DEF Matches, Sound
<1>3. \A u \in DOMAIN t.wait : u \in Units /\ t.wait[u] \in Nat
  BY PlacedUnits DEF Placed
<1> QED BY <1>2, <1>3

\* A refresh changes a speed.
LEMMA RefreshKeepsSound ==
    ASSUME NEW s, Sound(s), NEW t \in Refreshed(s)
    PROVE  /\ Sound(t) /\ t.alive = s.alive /\ t.uses = s.uses /\ t.wave = s.wave
           /\ t.pending = s.pending /\ t.forced = s.forced
<1>1. CASE t = s BY <1>1
<1>2. ASSUME NEW m \in s.alive, NEW v \in Speeds[m], t = [s EXCEPT !.speed[m] = v]
      PROVE  /\ Sound(t) /\ t.alive = s.alive /\ t.uses = s.uses /\ t.wave = s.wave
             /\ t.pending = s.pending /\ t.forced = s.forced
  <2>1. s \in Battle /\ m \in Members BY SoundBasics DEF Sound
  <2>2. v \in Nat BY <2>1, ConstantsAreNumbers
  <2>3. s.speed \in [Members -> Nat] BY <2>1 DEF Battle
  <2>4. t = [s EXCEPT !.speed = [s.speed EXCEPT ![m] = v]] BY <1>2
  <2> DEFINE sp == [s.speed EXCEPT ![m] = v]
  <2>5. sp \in [Members -> Nat] BY <2>2, <2>3
  <2>6. \A n \in Members : sp[n] \in Speeds[n]
    <3>1. \A n \in Members : s.speed[n] \in Speeds[n] BY DEF Sound, BattleTypeOK
    <3> QED BY <2>3, <3>1
  <2> HIDE DEF sp
  <2>7. /\ t \in Battle /\ t.speed = sp /\ t.wait = s.wait /\ t.alive = s.alive
        /\ t.wave = s.wave /\ t.broken = s.broken /\ t.pending = s.pending
        /\ t.forced = s.forced /\ t.gauge = s.gauge /\ t.uses = s.uses
    BY <2>1, <2>4, <2>5 DEF Battle, sp
  <2>8. Matches(t) /\ \A u \in DOMAIN t.wait : u \in Units /\ t.wait[u] \in Nat
    BY <2>7, SameTimeline
  <2>9. BattleTypeOK(t) BY <2>6, <2>7, <2>8 DEF BattleTypeOK, Sound
  <2> QED BY <2>7, <2>8, <2>9 DEF Sound
<1> QED BY <1>1, <1>2 DEF Refreshed

\* With the turns of some members taken away, the rest is in order again.
LEMMA RemovalKeepsSound ==
    ASSUME NEW s, s \in Battle, NEW ids, NEW t, t = remove_timeline_members(s, ids),
           \A u \in Placed(s) : u[1] \in s.alive \union ids,
           s.alive \intersect ids = {},
           \A m \in s.alive : Cardinality(Of(s, m)) \in 2..3
    PROVE  /\ t \in Battle /\ Matches(t)
           /\ t.alive = s.alive /\ t.wave = s.wave /\ t.speed = s.speed
           /\ t.broken = s.broken /\ t.pending = s.pending /\ t.forced = s.forced
           /\ t.gauge = s.gauge /\ t.uses = s.uses
           /\ \A u \in DOMAIN t.wait : u \in Units /\ t.wait[u] \in Nat
<1> DEFINE U == {v \in Placed(s) : v[1] \notin ids}
           w == [u \in U |-> s.wait[u]]
<1>1. Placed(s) \subseteq Units /\ \A u \in Placed(s) : s.wait[u] \in Nat
  BY PlacedUnits
<1>2. U \in SUBSET Units /\ w \in [U -> Nat] /\ DOMAIN w = U BY <1>1
<1>3. w \in Timelines
  <2> HIDE DEF U, w
  <2> QED BY <1>2, TableIsATimeline
<1>4. t = [s EXCEPT !.wait = w] BY DEF remove_timeline_members
<1> HIDE DEF w
<1>5. /\ t \in Battle /\ t.wait = w
      /\ t.alive = s.alive /\ t.wave = s.wave /\ t.speed = s.speed
      /\ t.broken = s.broken /\ t.pending = s.pending /\ t.forced = s.forced
      /\ t.gauge = s.gauge /\ t.uses = s.uses
  BY <1>3, <1>4 DEF Battle
<1>6. Placed(t) = U BY <1>2, <1>5 DEF Placed
<1>7. \A m \in s.alive : Of(t, m) = Of(s, m) BY <1>6 DEF Of
<1>8. Matches(t) BY <1>5, <1>6, <1>7 DEF Matches
<1>9. \A u \in DOMAIN t.wait : u \in Units /\ t.wait[u] \in Nat
  BY <1>5, PlacedUnits DEF Placed
<1> QED BY <1>5, <1>8, <1>9

\* t is s without the members that o kills.
Survived(s, targets, o, t) ==
    /\ Sound(t) /\ t.alive = s.alive \ o.killed
    /\ t.uses = s.uses /\ t.wave = s.wave /\ o.killed \subseteq targets

\* An attack that does not fail takes away the turns of those it kills and
\* leaves the battle in order.
LEMMA StruckKeepsSound ==
    ASSUME NEW s, Sound(s), NEW targets, targets \subseteq s.alive,
           \A m \in targets : Accompanied(s, m),
           NEW tool, NEW o \in Outcomes(s, targets, tool), NEW t, t = Struck(s, o)
    PROVE  Fails(t) \/ Survived(s, targets, o, t)
<1> DEFINE hurt == [s EXCEPT !.alive = @ \ o.killed,
                             !.broken = (@ \union o.broken) \ o.killed]
           late == delay_timeline_members(hurt, o.broken, BreakDelay)
           mid == apply_timeline_effects(late, o.hit \ o.killed, o.slots)
<1>1. /\ o.hit \subseteq targets /\ o.killed \subseteq o.hit
      /\ o.broken \subseteq o.hit \ o.killed /\ o.broken \subseteq Enemies
      /\ o.slots \in Slots
  BY DEF Outcomes
<1>2. /\ s \in Battle /\ s.alive \subseteq Members
      /\ s.broken \subseteq s.alive \intersect Enemies
  BY SoundBasics DEF Sound
<1>3. /\ hurt \in Battle /\ hurt.alive = s.alive \ o.killed
      /\ hurt.broken = (s.broken \union o.broken) \ o.killed
      /\ hurt.wait = s.wait /\ hurt.wave = s.wave /\ hurt.speed = s.speed
      /\ hurt.pending = s.pending /\ hurt.forced = s.forced /\ hurt.gauge = s.gauge
      /\ hurt.uses = s.uses
  <2>1. s.alive \ o.killed \in SUBSET Members BY <1>2
  <2>2. (s.broken \union o.broken) \ o.killed \in SUBSET Members
    BY <1>1, <1>2, MembersAreNumbers
  <2> QED BY <1>2, <2>1, <2>2 DEF Battle
<1> HIDE DEF hurt
<1>4. SameBut(hurt, late) BY <1>3, ConstantsAreNumbers, DelayMoves
<1> HIDE DEF late
<1>5. late \in Battle /\ Placed(late) = Placed(s) /\ \A m : Of(late, m) = Of(s, m)
  BY <1>3, <1>4 DEF SameBut, Placed, Of
<1>6. ASSUME NEW m \in o.hit \ o.killed
      PROVE  Of(late, m) # {} /\ Placed(late) \ Of(late, m) # {}
  <2>1. m \in s.alive BY <1>1
  <2>2. PICK x \in s.alive : x # m BY <1>1 DEF Accompanied
  <2>3. Of(s, m) # {} /\ Of(s, x) # {} BY <2>1, SoundBasics
  <2>4. PICK u : u \in Of(s, x) BY <2>3
  <2>5. u \in Placed(s) /\ u \notin Of(s, m) BY <2>2, <2>4 DEF Of
  <2> QED BY <1>5, <2>3, <2>5
<1>7. ~Fails(late) BY <1>3, <1>4, SoundBasics DEF Fails, SameBut
<1>8. o.slots \in Nat BY <1>1, ConstantsAreNumbers
<1>9. mid \in Battle /\ (Fails(mid) \/ SameBut(late, mid))
  BY <1>5, <1>6, <1>7, <1>8, EffectsMove
<1>10. t = remove_timeline_members(mid, o.killed) BY DEF Struck, mid, late, hurt
<1> HIDE DEF mid
<1>11. CASE Fails(mid)
  <2>1. t.wave = mid.wave BY <1>9, <1>10 DEF remove_timeline_members, Battle
  <2> QED BY <1>11, <2>1 DEF Fails
<1>12. CASE SameBut(late, mid)
  <2>1. SameBut(hurt, mid) BY <1>4, <1>12, SameButTwice
  <2>2. Placed(mid) = Placed(s) /\ \A m : Of(mid, m) = Of(s, m)
    BY <1>3, <2>1 DEF SameBut, Placed, Of
  <2>3. mid.alive = s.alive \ o.killed BY <1>3, <2>1 DEF SameBut
  <2>4. \A u \in Placed(mid) : u[1] \in mid.alive \union o.killed
    BY <2>2, <2>3 DEF Sound, Matches
  <2>5. mid.alive \intersect o.killed = {} BY <2>3
  <2>6. \A m \in mid.alive : Cardinality(Of(mid, m)) \in 2..3
    BY <2>2, <2>3 DEF Sound, Matches
  <2>7. /\ t \in Battle /\ Matches(t)
        /\ t.alive = mid.alive /\ t.wave = mid.wave /\ t.speed = mid.speed
        /\ t.broken = mid.broken /\ t.pending = mid.pending /\ t.forced = mid.forced
        /\ t.gauge = mid.gauge /\ t.uses = mid.uses
        /\ \A u \in DOMAIN t.wait : u \in Units /\ t.wait[u] \in Nat
    BY <1>9, <1>10, <2>4, <2>5, <2>6, RemovalKeepsSound
  <2>8. /\ t.alive = s.alive \ o.killed /\ t.wave = s.wave /\ t.speed = s.speed
        /\ t.broken = (s.broken \union o.broken) \ o.killed
        /\ t.pending = s.pending /\ t.forced = s.forced
        /\ t.gauge = s.gauge /\ t.uses = s.uses
    BY <1>3, <2>1, <2>7 DEF SameBut
  <2>9. t.broken \subseteq t.alive \intersect Enemies BY <1>1, <1>2, <2>8
  <2>10. t.alive \subseteq Allies \union Waves[t.wave]
    BY <2>8 DEF Sound, BattleTypeOK
  <2>11. BattleTypeOK(t)
    BY <2>7, <2>8, <2>9, <2>10 DEF BattleTypeOK, Sound
  <2>12. o.killed \subseteq targets BY <1>1
  <2> QED BY <2>7, <2>8, <2>11, <2>12 DEF Sound, Survived
<1> QED BY <1>9, <1>11, <1>12

-----------------------------------------------------------------------------
(* A turn is used up. *)

LEMMA TableIsFinite ==
    ASSUME NEW A, IsFiniteSet(A), NEW f, \A u \in A : f[u] \in Nat
    PROVE  LET V == {f[u] : u \in A}
           IN  IsFiniteSet(V) /\ V \subseteq Nat /\ (A # {} => V # {})
<1> DEFINE V == {f[u] : u \in A}
           g == [u \in A |-> f[u]]
<1>1. g \in Surjection(A, V) BY DEF Surjection
<1>2. IsFiniteSet(V)
  <2> HIDE DEF g, V
  <2> QED BY <1>1, FS_Surjection
<1> QED BY <1>2

LEMMA WaitsAreNumbers ==
    ASSUME NEW x \in Int, NEW speed \in Nat \ {0}
    PROVE  base_wait(speed) \in Nat /\ action_wait(speed, x) \in Nat
<1>1. WaitScale \in Nat BY ConstantsAreNumbers
<1>2. WaitScale \div speed \in Nat BY <1>1
<1> QED BY <1>2 DEF base_wait, action_wait, AtLeast

LEMMA TurnIsConsumed ==
    ASSUME NEW s, Sound(s), NEW m, TurnIs(s, m), NEW selected \in Nat, NEW default \in Nat,
           NEW t, t = consume_timeline_turn(s, m, selected, default)
    PROVE  SameBut(s, t)
<1> DEFINE P == Placed(s)
           O == Of(s, m)
           head == FirstUnit(s, O)
           last == LastUnit(s, O)
           current == s.wait[head]
           mine == O \ {head}
           shifted == [u \in P |-> s.wait[u] - current]
           chosen == IF m \in Enemies THEN shifted
                     ELSE [shifted EXCEPT ![last] = PlacedWait(selected)]
           next == IF m \in Enemies
                   THEN Max({chosen[u] : u \in mine}) + PlacedWait(selected)
                   ELSE Min({chosen[u] : u \in mine}) + PlacedWait(default)
           moved == [chosen EXCEPT ![head] = next]
           zero == Min({moved[u] : u \in P})
           w == [u \in P |-> moved[u] - zero]
<1>1. s \in Battle /\ IsFiniteSet(P) /\ \A u \in P : s.wait[u] \in Nat
  BY PlacedUnits DEF Sound
<1>2. O \in SUBSET P BY DEF Of
<1>3. O # {} /\ Cardinality(O) \in 2..3
  <2>1. Cardinality(O) \in 2..3 BY DEF TurnIs
  <2> QED BY <2>1, FS_EmptySet
<1>4. head \in O /\ last \in O /\ \A v \in O : s.wait[head] <= s.wait[v]
  <2> HIDE DEF O
  <2> QED BY <1>1, <1>2, <1>3, FirstUnitIsFirst, LastUnitIsOne
<1>5. \A v \in P : current <= s.wait[v]
  <2> DEFINE f == FirstUnit(s, P)
  <2>1. P # {} BY <1>2, <1>3
  <2>2. f \in P /\ \A v \in P : s.wait[f] <= s.wait[v]
    <3> HIDE DEF P
    <3> QED BY <1>1, <2>1, FirstUnitIsFirst DEF P
  <2>3. f \in O BY <2>2 DEF TurnIs, Of
  <2>4. s.wait[head] \in Nat /\ s.wait[f] \in Nat BY <1>1, <1>2, <1>4, <2>2
  <2> HIDE DEF f
  <2> QED BY <1>1, <1>4, <2>2, <2>3, <2>4
<1>6. mine # {} /\ mine \subseteq P /\ IsFiniteSet(mine)
  <2>1. IsFiniteSet(O) BY <1>1, <1>2, FS_Subset
  <2>2. Cardinality(mine) = Cardinality(O) - 1
    <3> HIDE DEF O, head
    <3> QED BY <1>4, <2>1, FS_RemoveElement
  <2>3. IsFiniteSet(mine) BY <1>1, <1>2, FS_Subset
  <2>4. mine # {}
    <3> SUFFICES ASSUME mine = {} PROVE FALSE OBVIOUS
    <3>1. Cardinality(mine) = 0 BY FS_EmptySet
    <3> HIDE DEF mine, O
    <3> QED BY <1>3, <2>2, <3>1
  <2> QED BY <1>2, <2>3, <2>4
<1>7. t = [s EXCEPT !.wait = w] BY Zenon DEF consume_timeline_turn
<1>8. PlacedWait(selected) \in Nat /\ PlacedWait(default) \in Nat
  BY DEF PlacedWait, AtLeast
<1> HIDE DEF O, head, last
<1>9. shifted \in [P -> Nat]
  <2>1. head \in P BY <1>2, <1>4
  <2>2. current \in Nat BY <1>1, <2>1
  <2> HIDE DEF current, P
  <2>3. \A u \in P : s.wait[u] - current \in Nat BY <1>1, <1>5, <2>2
  <2> QED BY <2>3
<1> HIDE DEF shifted, current, P, mine
<1>10. chosen \in [P -> Nat] BY <1>8, <1>9
<1> HIDE DEF chosen
<1>11. next \in Nat
  <2> DEFINE V == {chosen[u] : u \in mine}
  <2>1. \A u \in mine : chosen[u] \in Nat BY <1>6, <1>10
  <2>2. IsFiniteSet(V) /\ V \subseteq Nat /\ V # {} BY <1>6, <2>1, TableIsFinite
  <2> HIDE DEF V
  <2>3. Min(V) \in Nat /\ Max(V) \in Nat BY <2>2, NumbersHaveMin, NumbersHaveMax
  <2>4. Min(V) + PlacedWait(default) \in Nat /\ Max(V) + PlacedWait(selected) \in Nat
    BY <1>8, <2>3
  <2> QED BY <2>4 DEF V
<1> HIDE DEF next
<1>12. moved \in [P -> Nat] BY <1>10, <1>11
<1> HIDE DEF moved
<1>13. w \in [P -> Nat]
  <2> DEFINE V == {moved[u] : u \in P}
  <2>1. \A u \in P : moved[u] \in V /\ moved[u] \in Nat BY <1>12
  <2>2. V \subseteq Nat /\ V # {} BY <1>6, <2>1
  <2> HIDE DEF V
  <2>3. Min(V) \in Nat /\ \A x \in V : Min(V) <= x BY <2>2, NumbersHaveMin
  <2>4. \A u \in P : moved[u] - Min(V) \in Nat BY <2>1, <2>3
  <2> QED BY <2>4 DEF V
<1> HIDE DEF w
<1> QED BY <1>1, <1>7, <1>13, WaitsAreReplaced DEF P

LEMMA UsedUpKeepsSound ==
    ASSUME NEW s, Sound(s), NEW m \in Members, TurnIs(s, m), NEW x \in Int,
           NEW t, t = UsedUp(s, m, x)
    PROVE  Sound(t) /\ t.alive = s.alive /\ t.uses = s.uses /\ t.wave = s.wave
<1> DEFINE r == consume_timeline_turn(s, m, action_wait(s.speed[m], x), base_wait(s.speed[m]))
<1>1. s.speed[m] \in Nat \ {0} BY SoundBasics
<1>2. action_wait(s.speed[m], x) \in Nat /\ base_wait(s.speed[m]) \in Nat
  BY <1>1, WaitsAreNumbers
<1>3. SameBut(s, r) BY <1>2, TurnIsConsumed
<1>4. t = expire(r, m) BY DEF UsedUp
<1> HIDE DEF r
<1>5. Sound(r) /\ r.alive = s.alive /\ r.uses = s.uses /\ r.wave = s.wave
  BY <1>3, MovesKeepSound DEF SameBut
<1>6. CASE r.pending # m BY <1>4, <1>5, <1>6 DEF expire
<1>7. CASE r.pending = m
  <2>1. t = [r EXCEPT !.pending = 0, !.forced = 0] BY <1>4, <1>7 DEF expire
  <2>2. /\ t \in Battle /\ t.wave = r.wave /\ t.alive = r.alive /\ t.speed = r.speed
        /\ t.wait = r.wait /\ t.broken = r.broken /\ t.pending = 0 /\ t.forced = 0
        /\ t.gauge = r.gauge /\ t.uses = r.uses
    <3>1. r \in Battle BY <1>5 DEF Sound
    <3>2. 0 \in Nat OBVIOUS
    <3> QED BY <2>1, <3>1, <3>2 DEF Battle
  <2>3. Matches(t) /\ \A u \in DOMAIN t.wait : u \in Units /\ t.wait[u] \in Nat
    BY <1>5, <2>2, SameTimeline
  <2>4. BattleTypeOK(t) BY <1>5, <2>2, <2>3 DEF BattleTypeOK, Sound
  <2> QED BY <1>5, <2>2, <2>3, <2>4 DEF Sound
<1> QED BY <1>6, <1>7

-----------------------------------------------------------------------------
(* Whose turn it is, and the turns a wave opens with. *)

LEMMA EarliestLives ==
    ASSUME NEW s, Sound(s), NEW side, s.alive \intersect side # {}
    PROVE  earliest_living_member(s, side) \in s.alive \intersect side
<1> DEFINE A == {u \in Placed(s) : u[1] \in s.alive \intersect side}
<1>1. PICK m : m \in s.alive \intersect side OBVIOUS
<1>2. PICK u : u \in Of(s, m) BY <1>1, SoundBasics
<1>3. u \in A BY <1>1, <1>2 DEF Of
<1>4. A \in SUBSET Placed(s) /\ A # {} BY <1>3
<1>5. FirstUnit(s, A) \in A
  <2> HIDE DEF A
  <2> QED BY <1>4, FirstUnitIsFirst DEF Sound
<1>6. FirstUnit(s, A)[1] \in s.alive \intersect side BY <1>5
<1> QED BY <1>6 DEF earliest_living_member

LEMMA SomebodyActs ==
    ASSUME NEW s, Sound(s), InBattle(s)
    PROVE  /\ current_actor(s) \in s.alive /\ current_actor(s) \in Members
           /\ s.alive \intersect Allies # {} /\ s.alive \intersect Enemies # {}
           /\ earliest_living_member(s, Allies) \in s.alive \intersect Allies
           /\ earliest_living_member(s, Enemies) \in s.alive \intersect Enemies
           /\ \A m \in s.alive : Accompanied(s, m)
<1>1. s.alive \intersect Allies # {} /\ s.alive \intersect Enemies # {}
  BY DEF InBattle, Won, Lost
<1>2. s.alive \subseteq Members BY SoundBasics
<1>3. s.alive \intersect Members # {} BY <1>1, <1>2
<1>4. current_actor(s) \in s.alive \intersect Members
  BY <1>3, EarliestLives DEF current_actor
<1>5. \A m \in s.alive : Accompanied(s, m)
  BY <1>1, MembersAreNumbers DEF Accompanied
<1> QED BY <1>1, <1>4, <1>5, EarliestLives

\* The turns of a wave: two or three of each member, and an ally that could act
\* at once when its speed gives it a wait at all.
LEMMA WaveOpens ==
    ASSUME NEW alive \in SUBSET Members, alive \intersect Allies # {},
           NEW speed \in [Members -> Nat \ {0}], NEW wave,
           NEW w, w = initial_timeline(alive, speed, wave)
    PROVE  /\ w \in Timelines
           /\ \A u \in DOMAIN w : u[1] \in alive
           /\ \A m \in alive : Cardinality({u \in DOMAIN w : u[1] = m}) \in 2..3
           /\ \A u \in DOMAIN w : u[1] \in Enemies => w[u] >= 1
           /\ (\A m \in Members : speed[m] <= WaitScale)
                 => \E u \in DOMAIN w : u[1] \in alive \intersect Allies /\ w[u] = 0
<1> DEFINE V == {base_wait(speed[m]) : m \in alive \intersect Allies}
           first == Min(V)
           slots(m) == IF m \in Bosses[wave] THEN 3 ELSE 2
           wait(m) == AtLeast(1, base_wait(speed[m]))
           U == {v \in alive \X (1..3) : v[2] <= slots(v[1])}
           place(u) == initial_wait(u[1], wait(u[1]), first) + wait(u[1]) * (u[2] - 1)
<1>1. \A m \in alive : base_wait(speed[m]) \in Nat
  <2>1. 0 \in Int OBVIOUS
  <2>2. \A m \in alive : speed[m] \in Nat \ {0} OBVIOUS
  <2> QED BY <2>1, <2>2, WaitsAreNumbers
<1>2. first \in V /\ first \in Nat
  <2>1. V \subseteq Nat /\ V # {} BY <1>1
  <2> HIDE DEF V
  <2> QED BY <2>1, NumbersHaveMin
<1>3. \A m \in alive : wait(m) \in Nat /\ wait(m) >= 1
  BY <1>1 DEF AtLeast
<1>4. w = [u \in U |-> place(u)] BY Zenon DEF initial_timeline
<1> HIDE DEF first, V, wait
<1>5. ASSUME NEW u \in U
      PROVE  /\ u \in Units /\ u[1] \in alive /\ u[2] \in 1..3
             /\ place(u) \in Nat
             /\ u[1] \in Enemies => place(u) >= 1
  <2>1. /\ u[1] \in alive /\ u[2] \in 1..3 /\ u = <<u[1], u[2]>> OBVIOUS
  <2>2. u \in Units BY <2>1 DEF Units
  <2>3. wait(u[1]) \in Nat BY <1>3, <2>1
  <2> DEFINE x == initial_wait(u[1], wait(u[1]), first)
             y == wait(u[1])
             n == u[2] - 1
  <2>4. x \in Nat /\ (u[1] \in Enemies => x >= 1)
    BY <1>2, <2>3 DEF initial_wait, AtLeast
  <2>5. n \in Nat BY <2>1
  <2>6. y * n \in Nat
    <3>1. y \in Nat BY <2>3
    <3> HIDE DEF y, n
    <3> QED BY <2>5, <3>1
  <2>7. place(u) = x + y * n OBVIOUS
  <2>8. place(u) \in Nat /\ (u[1] \in Enemies => place(u) >= 1)
    <3> DEFINE z == y * n
    <3>1. z \in Nat BY <2>6
    <3> HIDE DEF x, z
    <3>2. x + z \in Nat /\ (u[1] \in Enemies => x + z >= 1) BY <2>4, <3>1
    <3> HIDE DEF y, n, place
    <3> QED BY <2>7, <3>2 DEF z
  <2> QED BY <2>1, <2>2, <2>8
<1>6. w \in Timelines /\ DOMAIN w = U /\ \A u \in U : w[u] = place(u)
  <2>1. U \in SUBSET Units BY <1>5
  <2> HIDE DEF U, place
  <2>2. w \in [U -> Nat] BY <1>4, <1>5
  <2>3. w \in Timelines BY <2>1, <2>2, TableIsATimeline
  <2> QED BY <1>4, <2>2, <2>3
<1>7. ASSUME NEW m \in alive
      PROVE  Cardinality({u \in U : u[1] = m}) \in 2..3
  <2> DEFINE T == {u \in U : u[1] = m}
             T2 == {<<m, 1>>} \union {<<m, 2>>}
             T3 == T2 \union {<<m, 3>>}
  <2>1. slots(m) \in {2, 3} OBVIOUS
  <2>2. T = T2 \/ T = T3
    <3>1. \A k \in 1..3 : <<m, k>> \in U <=> k <= slots(m) OBVIOUS
    <3>2. \A u \in T : u = <<m, u[2]>> /\ u[2] \in 1..3 OBVIOUS
    <3>3. T \subseteq T3 BY <3>2
    <3>4. \A k \in 1..3 : <<m, k>> \in T <=> k <= slots(m) BY <3>1
    <3> HIDE DEF T, U
    <3>5. CASE slots(m) = 2
      <4>1. <<m, 1>> \in T /\ <<m, 2>> \in T /\ <<m, 3>> \notin T BY <3>4, <3>5
      <4>2. T = T2 BY <3>3, <4>1
      <4> QED BY <4>2
    <3>6. CASE slots(m) = 3
      <4>1. <<m, 1>> \in T /\ <<m, 2>> \in T /\ <<m, 3>> \in T BY <3>4, <3>6
      <4>2. T = T3 BY <3>3, <4>1
      <4> QED BY <4>2
    <3> QED BY <2>1, <3>5, <3>6
  <2>3. IsFiniteSet({<<m, 1>>}) /\ Cardinality({<<m, 1>>}) = 1 BY FS_Singleton
  <2>4. <<m, 2>> \notin {<<m, 1>>} OBVIOUS
  <2>5. IsFiniteSet(T2) /\ Cardinality(T2) = 2
    <3>1. 1 + 1 = 2 OBVIOUS
    <3> QED BY <2>3, <2>4, <3>1, FS_AddElement
  <2>6. <<m, 3>> \notin T2 OBVIOUS
  <2>7. Cardinality(T3) = 3
    <3>1. 2 + 1 = 3 OBVIOUS
    <3> HIDE DEF T2
    <3> QED BY <2>5, <2>6, <3>1, FS_AddElement
  <2> HIDE DEF T2, T3, T
  <2>8. Cardinality(T) \in 2..3 BY <2>2, <2>5, <2>7
  <2> QED BY <2>8 DEF T
<1>8. ASSUME \A m \in Members : speed[m] <= WaitScale
      PROVE  \E u \in U : u[1] \in alive \intersect Allies /\ place(u) = 0
  <2>1. PICK m \in alive \intersect Allies : first = base_wait(speed[m])
    BY <1>2 DEF V
  <2>2. WaitScale \in Nat /\ speed[m] \in Nat \ {0} /\ speed[m] <= WaitScale
    BY <1>8, ConstantsAreNumbers
  <2>3. base_wait(speed[m]) >= 1
    <3> DEFINE x == speed[m]
    <3>1. x \in Nat \ {0} /\ x <= WaitScale BY <2>2
    <3> HIDE DEF x
    <3>2. WaitScale \div x >= 1 BY <2>2, <3>1
    <3> QED BY <3>2 DEF base_wait, x
  <2>4. wait(m) = first BY <1>2, <2>1, <2>3 DEF wait, AtLeast
  <2>5. m \notin Enemies BY MembersAreNumbers
  <2> DEFINE u == <<m, 1>>
  <2>6. u \in U OBVIOUS
  <2>7. initial_wait(m, wait(m), first) = 0
    BY <1>2, <2>4, <2>5 DEF initial_wait, AtLeast
  <2>8. wait(m) * (1 - 1) = 0
    <3>1. wait(m) \in Nat BY <1>3
    <3> QED BY <3>1
  <2>9. place(u) = 0 BY <2>7, <2>8
  <2> QED BY <2>6, <2>9
<1> HIDE DEF U, place
<1>9. \A u \in DOMAIN w : u[1] \in alive /\ (u[1] \in Enemies => w[u] >= 1)
  BY <1>5, <1>6
<1>10. \A m \in alive : Cardinality({u \in DOMAIN w : u[1] = m}) \in 2..3
  BY <1>6, <1>7
<1> QED BY <1>6, <1>8, <1>9, <1>10

-----------------------------------------------------------------------------
(* The invariant. *)

BattlesAreSound == Sound(b) /\ Sound(saved)

RequestOK ==
    /\ phase \in {"command", "tools", "schedule", "refused"}
    /\ queue \in Seq(Tools \X Members)
    /\ actions \in 0..(MaxActions + ToolsPerTurn)
    /\ refused \in Reasons
    /\ (phase = "refused") <=> (refused # "no")

\* Between requests nothing has happened since the last one.
CommandIsSaved == phase = "command" => actions = 0 /\ b = saved

\* The tools still to be used are different ones, and none is used up; an ally
\* lives to use them.
ToolsAreReady ==
    phase = "tools" =>
        /\ queue # <<>> /\ actions + Len(queue) <= ToolsPerTurn
        /\ b.alive \intersect Allies # {}
        /\ \A i \in DOMAIN queue : b.uses[queue[i][1]] > 0
        /\ \A i, j \in DOMAIN queue : queue[i][1] = queue[j][1] => i = j

CombatInv == BattlesAreSound /\ RequestOK /\ CommandIsSaved /\ ToolsAreReady

LEMMA FieldsKeepSound ==
    ASSUME NEW s, Sound(s), NEW t \in Battle,
           t.wait = s.wait, t.alive = s.alive, t.wave = s.wave, t.speed = s.speed,
           t.broken \subseteq s.broken, t.pending \in Members \union {0},
           t.forced \in Provokers \union {0}, t.gauge \in 0..MaxGauge,
           t.uses \in [Tools -> 0..ToolUses]
    PROVE  Sound(t)
<1>1. Matches(t) /\ \A u \in DOMAIN t.wait : u \in Units /\ t.wait[u] \in Nat
  BY SameTimeline
<1>2. t.broken \subseteq t.alive \intersect Enemies BY DEF Sound, BattleTypeOK
<1>3. BattleTypeOK(t) BY <1>1, <1>2 DEF Sound, BattleTypeOK
<1> QED BY <1>1, <1>3 DEF Sound

LEMMA SoundFields ==
    ASSUME NEW s, Sound(s)
    PROVE  /\ s \in Battle
           /\ s.pending \in Members \union {0} /\ s.forced \in Provokers \union {0}
           /\ s.pending \in Nat /\ s.forced \in Nat
           /\ s.gauge \in 0..MaxGauge /\ s.uses \in [Tools -> 0..ToolUses]
<1>1. s \in Battle BY DEF Sound
<1> QED BY <1>1 DEF Sound, BattleTypeOK, Battle

\* The party gauge is filled or emptied.
LEMMA GaugeKeepsSound ==
    ASSUME NEW s, Sound(s), NEW g \in 0..MaxGauge, NEW t, t = [s EXCEPT !.gauge = g]
    PROVE  /\ Sound(t) /\ t.alive = s.alive /\ t.uses = s.uses
           /\ t.wait = s.wait /\ t.speed = s.speed
<1>1. g \in Nat BY ConstantsAreNumbers
<1>2. s \in Battle BY SoundFields
<1>3. /\ t \in Battle /\ t.wave = s.wave /\ t.alive = s.alive /\ t.speed = s.speed
      /\ t.wait = s.wait /\ t.broken = s.broken /\ t.pending = s.pending
      /\ t.forced = s.forced /\ t.gauge = g /\ t.uses = s.uses
  BY <1>1, <1>2 DEF Battle
<1>4. Sound(t) BY <1>3, SoundFields, FieldsKeepSound
<1> QED BY <1>3, <1>4

\* A turn is prepared.
LEMMA PreparedKeepsSound ==
    ASSUME NEW s, Sound(s), NEW broken \in SUBSET s.broken,
           NEW m \in Members \union {0}, NEW f \in Provokers \union {0},
           NEW t, t = [s EXCEPT !.broken = broken, !.pending = m, !.forced = f]
    PROVE  /\ Sound(t) /\ t.alive = s.alive /\ t.uses = s.uses
           /\ t.wait = s.wait /\ t.speed = s.speed
<1>1. m \in Nat /\ f \in Nat BY MembersAreNumbers, ConstantsAreNumbers
<1>2. s \in Battle BY SoundFields
<1>3. broken \in SUBSET Members BY <1>2 DEF Battle
<1>4. /\ t \in Battle /\ t.wave = s.wave /\ t.alive = s.alive /\ t.speed = s.speed
      /\ t.wait = s.wait /\ t.broken = broken /\ t.pending = m
      /\ t.forced = f /\ t.gauge = s.gauge /\ t.uses = s.uses
  BY <1>1, <1>2, <1>3 DEF Battle
<1>5. Sound(t) BY <1>4, SoundFields, FieldsKeepSound
<1> QED BY <1>4, <1>5

LEMMA GaugeIsCapped ==
    ASSUME NEW gauge \in 0..MaxGauge, NEW gain \in Nat
    PROVE  party_gauge(gauge, gain) \in 0..MaxGauge
<1> DEFINE V == {MaxGauge, gauge + gain}
<1>1. MaxGauge \in Nat BY ConstantsAreNumbers
<1>2. V \subseteq Nat /\ V # {} /\ MaxGauge \in V BY <1>1
<1> HIDE DEF V
<1>3. Min(V) \in V /\ \A x \in V : Min(V) <= x BY <1>2, NumbersHaveMin
<1> DEFINE least == Min(V)
<1>4. least \in Nat /\ least <= MaxGauge BY <1>2, <1>3
<1> HIDE DEF least
<1>5. least \in 0..MaxGauge BY <1>1, <1>4
<1> QED BY <1>5 DEF party_gauge, V, least

LEMMA RefuseKeeps ==
    ASSUME CombatInv, NEW reason \in Reasons \ {"no"}, Refuse(reason)
    PROVE  CombatInv'
<1>1. /\ phase' = "refused" /\ refused' = reason
      /\ b' = b /\ saved' = saved /\ queue' = queue /\ actions' = actions
  BY DEF Refuse
<1>2. BattlesAreSound' BY <1>1 DEF CombatInv, BattlesAreSound
<1>3. RequestOK' BY <1>1 DEF CombatInv, RequestOK
<1>4. CommandIsSaved' /\ ToolsAreReady' BY <1>1 DEF CommandIsSaved, ToolsAreReady
<1> QED BY <1>2, <1>3, <1>4 DEF CombatInv

LEMMA CommitKeeps ==
    ASSUME CombatInv, phase # "refused", NEW s, Sound(s), Commit(s)
    PROVE  CombatInv'
<1>1. /\ b' = s /\ saved' = s /\ phase' = "command" /\ actions' = 0
      /\ queue' = queue /\ refused' = refused
  BY DEF Commit
<1>2. BattlesAreSound' BY <1>1 DEF BattlesAreSound
<1>3. 0 \in 0..(MaxActions + ToolsPerTurn) BY ConstantsAreNumbers
<1>4. RequestOK' BY <1>1, <1>3 DEF CombatInv, RequestOK
<1>5. CommandIsSaved' /\ ToolsAreReady' BY <1>1 DEF CommandIsSaved, ToolsAreReady
<1> QED BY <1>2, <1>4, <1>5 DEF CombatInv

LEMMA OneMoreAction ==
    ASSUME CombatInv, actions < MaxActions
    PROVE  actions + 1 \in 0..(MaxActions + ToolsPerTurn)
BY ConstantsAreNumbers DEF CombatInv, RequestOK

LEMMA PassKeeps ==
    ASSUME CombatInv, phase = "schedule", actions < MaxActions,
           NEW s, Sound(s), TurnPasses(s)
    PROVE  CombatInv'
<1>1. /\ b' = s /\ actions' = actions + 1
      /\ saved' = saved /\ phase' = phase /\ queue' = queue /\ refused' = refused
  BY DEF TurnPasses
<1>2. BattlesAreSound' BY <1>1 DEF CombatInv, BattlesAreSound
<1>3. RequestOK' BY <1>1, OneMoreAction DEF CombatInv, RequestOK
<1>4. CommandIsSaved' /\ ToolsAreReady' BY <1>1 DEF CommandIsSaved, ToolsAreReady
<1> QED BY <1>2, <1>3, <1>4 DEF CombatInv

LEMMA SkillKeeps ==
    ASSUME CombatInv, phase \in {"command", "schedule"}, actions < MaxActions,
           NEW s, Sound(s), NEW m \in Members, NEW targets, targets \subseteq s.alive,
           \A x \in targets : Accompanied(s, x), NEW gain \in Nat,
           use_skill(s, m, targets, gain)
    PROVE  CombatInv'
<1>1. PICK before \in Refreshed(s), adjustment \in SkillWaits :
          \E o \in Outcomes(before, targets, FALSE) :
            LET t == Struck(before, o)
                full == party_gauge(t.gauge, gain)
            IN  \/ Fails(t) /\ Refuse("delay")
                \/ ~Fails(t) /\ ~TurnIs(t, m) /\ Refuse("turn")
                \/ /\ ~Fails(t) /\ TurnIs(t, m)
                   /\ \E after \in Refreshed(UsedUp(t, m, adjustment)) :
                         b' = [after EXCEPT !.gauge = full]
                   /\ phase' = "schedule" /\ actions' = actions + 1
                   /\ UNCHANGED <<saved, queue, refused>>
  BY Zenon DEF use_skill
<1>2. PICK o \in Outcomes(before, targets, FALSE) :
            LET t == Struck(before, o)
                full == party_gauge(t.gauge, gain)
            IN  \/ Fails(t) /\ Refuse("delay")
                \/ ~Fails(t) /\ ~TurnIs(t, m) /\ Refuse("turn")
                \/ /\ ~Fails(t) /\ TurnIs(t, m)
                   /\ \E after \in Refreshed(UsedUp(t, m, adjustment)) :
                         b' = [after EXCEPT !.gauge = full]
                   /\ phase' = "schedule" /\ actions' = actions + 1
                   /\ UNCHANGED <<saved, queue, refused>>
  BY <1>1, Zenon
<1> DEFINE t == Struck(before, o)
           full == party_gauge(t.gauge, gain)
           used == UsedUp(t, m, adjustment)
<1>3. Sound(before) /\ before.alive = s.alive BY RefreshKeepsSound
<1>4. Fails(t) \/ Sound(t)
  <2>1. \A x \in targets : Accompanied(before, x) BY <1>3 DEF Accompanied
  <2> QED BY <1>3, <2>1, StruckKeepsSound DEF Survived
<1> HIDE DEF t
<1>5. CASE Refuse("delay") \/ Refuse("turn")
  <2>1. "delay" \in Reasons \ {"no"} /\ "turn" \in Reasons \ {"no"} BY DEF Reasons
  <2> QED BY <1>5, <2>1, RefuseKeeps
<1>6. CASE /\ ~Fails(t) /\ TurnIs(t, m)
           /\ \E after \in Refreshed(used) : b' = [after EXCEPT !.gauge = full]
           /\ phase' = "schedule" /\ actions' = actions + 1
           /\ UNCHANGED <<saved, queue, refused>>
  <2>1. Sound(t) BY <1>4, <1>6
  <2>2. adjustment \in Int BY ConstantsAreNumbers
  <2>3. Sound(used) BY <1>6, <2>1, <2>2, UsedUpKeepsSound
  <2> HIDE DEF used
  <2>4. full \in 0..MaxGauge
    <3>1. t.gauge \in 0..MaxGauge BY <2>1, SoundFields
    <3> QED BY <3>1, GaugeIsCapped
  <2> HIDE DEF full
  <2>5. PICK after \in Refreshed(used) : b' = [after EXCEPT !.gauge = full] BY <1>6
  <2>6. Sound(after) BY <2>3, <2>5, RefreshKeepsSound
  <2>7. Sound(b') BY <2>4, <2>5, <2>6, GaugeKeepsSound
  <2>8. BattlesAreSound' BY <1>6, <2>7 DEF CombatInv, BattlesAreSound
  <2>9. RequestOK' BY <1>6, OneMoreAction DEF CombatInv, RequestOK
  <2>10. CommandIsSaved' /\ ToolsAreReady' BY <1>6 DEF CommandIsSaved, ToolsAreReady
  <2> QED BY <2>8, <2>9, <2>10 DEF CombatInv
<1> QED BY <1>2, <1>5, <1>6 DEF t

-----------------------------------------------------------------------------
(* The invariant holds at first and every step keeps it. *)

LEMMA AllSpeedsAreNumbers ==
    ASSUME NEW speed, NEW A \in SUBSET Members, NEW S, speed \in [A -> S],
           \A m \in A : speed[m] \in Speeds[m]
    PROVE  speed \in [A -> Nat \ {0}]
<1>1. \A m \in A : speed[m] \in Nat \ {0} BY ConstantsAreNumbers
<1> QED BY <1>1

\* A battle with the timeline its wave opens with is in order.
LEMMA OpenedIsSound ==
    ASSUME NEW s \in Battle, s.wave \in DOMAIN Waves,
           s.alive \subseteq Allies \union Waves[s.wave], s.alive \intersect Allies # {},
           \A m \in Members : s.speed[m] \in Speeds[m],
           s.wait = initial_timeline(s.alive, s.speed, s.wave),
           s.broken = {}, s.pending = 0, s.forced = 0, s.gauge \in 0..MaxGauge,
           s.uses \in [Tools -> 0..ToolUses]
    PROVE  Sound(s)
<1>1. s.alive \in SUBSET Members /\ s.speed \in [Members -> Nat] BY DEF Battle
<1>2. s.speed \in [Members -> Nat \ {0}]
  <2> DEFINE sp == s.speed
  <2>1. sp \in [Members -> Nat] /\ \A m \in Members : sp[m] \in Speeds[m] BY <1>1
  <2> HIDE DEF sp
  <2>2. sp \in [Members -> Nat \ {0}] BY <2>1, AllSpeedsAreNumbers
  <2> QED BY <2>2 DEF sp
<1> DEFINE w == s.wait
<1>3. /\ \A u \in DOMAIN w : u[1] \in s.alive
      /\ \A m \in s.alive : Cardinality({u \in DOMAIN w : u[1] = m}) \in 2..3
  <2> DEFINE al == s.alive
             sp == s.speed
             wv == s.wave
  <2>1. /\ al \in SUBSET Members /\ al \intersect Allies # {}
        /\ sp \in [Members -> Nat \ {0}] /\ w = initial_timeline(al, sp, wv)
    BY <1>1, <1>2
  <2> HIDE DEF al, sp, wv, w
  <2>2. /\ \A u \in DOMAIN w : u[1] \in al
        /\ \A m \in al : Cardinality({u \in DOMAIN w : u[1] = m}) \in 2..3
    BY <2>1, WaveOpens
  <2> QED BY <2>2 DEF al
<1>4. Matches(s) BY <1>3 DEF Matches, Placed, Of
<1>5. \A u \in DOMAIN s.wait : u \in Units /\ s.wait[u] \in Nat
  BY PlacedUnits DEF Placed
<1>6. BattleTypeOK(s) BY <1>5 DEF BattleTypeOK
<1> QED BY <1>4, <1>6 DEF Sound

LEMMA InitSound == Init => CombatInv
<1> SUFFICES ASSUME Init PROVE CombatInv OBVIOUS
<1>1. PICK speed \in [Members -> UNION {Speeds[m] : m \in Members}],
           living \in (SUBSET Allies) \ {{}}, gauge \in 0..MaxGauge :
        LET alive == living \union Waves[1]
        IN  /\ \A m \in Members : speed[m] \in Speeds[m]
            /\ b = [wave |-> 1, alive |-> alive, speed |-> speed,
                    wait |-> initial_timeline(alive, speed, 1), broken |-> {},
                    pending |-> 0, forced |-> 0, gauge |-> gauge,
                    uses |-> [t \in Tools |-> ToolUses]]
  BY Zenon DEF Init
<1> DEFINE alive == living \union Waves[1]
           w == initial_timeline(alive, speed, 1)
<1>2. /\ \A m \in Members : speed[m] \in Speeds[m]
      /\ b = [wave |-> 1, alive |-> alive, speed |-> speed, wait |-> w, broken |-> {},
              pending |-> 0, forced |-> 0, gauge |-> gauge,
              uses |-> [t \in Tools |-> ToolUses]]
  BY <1>1, Zenon
<1>3. speed \in [Members -> Nat \ {0}] BY <1>2, AllSpeedsAreNumbers
<1>4. alive \in SUBSET Members /\ alive \intersect Allies # {}
  BY WavesAreSets, MembersAreNumbers
<1>5. w \in Timelines
  <2> HIDE DEF alive, w
  <2> QED BY <1>3, <1>4, WaveOpens DEF w
<1>6. gauge \in Nat /\ ToolUses \in 0..ToolUses /\ ToolUses \in Nat
  BY ConstantsAreNumbers
<1>7. speed \in [Members -> Nat] BY <1>3
<1>8. 1 \in DOMAIN Waves BY WavesAreSets
<1>9. alive \subseteq Allies \union Waves[1] OBVIOUS
<1> DEFINE full == [t \in Tools |-> ToolUses]
<1>10. full \in [Tools -> 0..ToolUses] /\ full \in [Tools -> Nat] BY <1>6
<1> HIDE DEF alive, w, full
<1>11. /\ b \in Battle /\ b.wave = 1 /\ b.alive = alive /\ b.speed = speed /\ b.wait = w
       /\ b.broken = {} /\ b.pending = 0 /\ b.forced = 0 /\ b.gauge = gauge
       /\ b.uses = full
  BY <1>2, <1>4, <1>5, <1>6, <1>7, <1>10 DEF Battle, full
<1>12. Sound(b)
  <2>1. b.wait = initial_timeline(b.alive, b.speed, b.wave) BY <1>11 DEF w
  <2> QED BY <1>2, <1>4, <1>8, <1>9, <1>10, <1>11, <2>1, OpenedIsSound
<1>13. /\ saved = b /\ phase = "command" /\ queue = <<>> /\ actions = 0 /\ refused = "no"
  BY DEF Init
<1>14. BattlesAreSound BY <1>12, <1>13 DEF BattlesAreSound
<1>15. RequestOK
  <2>1. queue \in Seq(Tools \X Members) BY <1>13, EmptySeq
  <2> QED BY <1>13, <2>1, ConstantsAreNumbers DEF RequestOK, Reasons
<1>16. CommandIsSaved /\ ToolsAreReady BY <1>13 DEF CommandIsSaved, ToolsAreReady
<1> QED BY <1>14, <1>15, <1>16 DEF CombatInv

LEMMA SkillCommandKeeps == CombatInv /\ skill_command => CombatInv'
<1> SUFFICES ASSUME CombatInv, skill_command PROVE CombatInv' OBVIOUS
<1> DEFINE m == current_actor(b)
           forced == IF b.pending = m THEN b.forced ELSE 0
           single == {T \in Singles(b, Enemies) : forced = 0 \/ T = {forced}}
<1>1. /\ phase = "command" /\ InBattle(b)
      /\ \E targets \in single \union {{}, b.alive \intersect Enemies} :
            use_skill(b, m, targets, 1)
  BY Zenon DEF skill_command, AtRest
<1>2. Sound(b) BY DEF CombatInv, BattlesAreSound
<1>3. m \in Members /\ \A x \in b.alive : Accompanied(b, x) BY <1>1, <1>2, SomebodyActs
<1>4. actions < MaxActions
  BY <1>1, ConstantsAreNumbers DEF CombatInv, CommandIsSaved
<1> HIDE DEF m
<1>5. PICK targets \in single \union {{}, b.alive \intersect Enemies} :
          use_skill(b, m, targets, 1)
  BY <1>1
<1>6. targets \subseteq b.alive BY DEF Singles
<1> QED BY <1>1, <1>2, <1>3, <1>4, <1>5, <1>6, SkillKeeps

LEMMA ToolCommandKeeps == CombatInv /\ battle_tool_command => CombatInv'
<1> SUFFICES ASSUME CombatInv, battle_tool_command PROVE CombatInv' OBVIOUS
<1>1. /\ phase = "command" /\ InBattle(b)
      /\ b' = [b EXCEPT !.gauge = 0] /\ phase' = "tools"
      /\ saved' = saved /\ actions' = actions /\ refused' = refused
  BY DEF battle_tool_command, AtRest
<1>2. PICK numbers \in {n \in SeqOf(Tools, ToolsPerTurn) : n # <<>> /\ IsInjective(n)},
           injured \in b.alive \intersect Allies :
        /\ \A i \in DOMAIN numbers : b.uses[numbers[i]] > 0
        /\ queue' = [i \in DOMAIN numbers |->
              <<numbers[i], IF ToolTarget[numbers[i]] = "heal" THEN injured
                            ELSE earliest_living_member(b, Enemies)>>]
  BY Zenon DEF battle_tool_command
<1> DEFINE first == earliest_living_member(b, Enemies)
           Entry(i) == <<numbers[i], IF ToolTarget[numbers[i]] = "heal" THEN injured
                                     ELSE first>>
<1>3. PICK k \in 0..ToolsPerTurn : numbers \in [1..k -> Tools] BY DEF SeqOf
<1>4. Sound(b) BY DEF CombatInv, BattlesAreSound
<1>5. first \in Members /\ injured \in Members /\ b.alive \intersect Allies # {}
  BY <1>1, <1>4, SomebodyActs, SoundBasics
<1> HIDE DEF first
<1>6. queue' = [i \in 1..k |-> Entry(i)] BY <1>2, <1>3 DEF first
<1>7. k \in Nat /\ k <= ToolsPerTurn /\ ToolsPerTurn \in Nat BY ConstantsAreNumbers
<1>8. \A i \in 1..k : Entry(i) \in Tools \X Members /\ Entry(i)[1] = numbers[i]
  BY <1>3, <1>5
<1> HIDE DEF Entry
<1>9. queue' \in [1..k -> Tools \X Members] BY <1>6, <1>8
<1>10. /\ queue' \in Seq(Tools \X Members) /\ Len(queue') = k
       /\ DOMAIN queue' = 1..k /\ \A i \in 1..k : queue'[i][1] = numbers[i]
  BY <1>6, <1>7, <1>8, <1>9, FunctionIsSeq
<1>11. queue' # <<>>
  <2>1. numbers \in Seq(Tools) /\ Len(numbers) = k BY <1>3, <1>7, FunctionIsSeq
  <2>2. numbers # <<>> BY <1>2
  <2>3. k \in Nat \ {0} BY <2>1, <2>2, EmptySeq
  <2>4. Len(<<>>) = 0 BY EmptySeq
  <2> QED BY <1>10, <2>3, <2>4
<1>12. 0 \in 0..MaxGauge BY ConstantsAreNumbers
<1>13. Sound(b') /\ b'.alive = b.alive /\ b'.uses = b.uses
  BY <1>1, <1>4, <1>12, GaugeKeepsSound
<1>14. BattlesAreSound' BY <1>1, <1>13 DEF CombatInv, BattlesAreSound
<1>15. RequestOK' BY <1>1, <1>10 DEF CombatInv, RequestOK
<1>16. CommandIsSaved' BY <1>1 DEF CommandIsSaved
<1>17. ToolsAreReady'
  <2>1. actions' = 0 BY <1>1 DEF CombatInv, CommandIsSaved
  <2>2. actions' + Len(queue') <= ToolsPerTurn BY <1>7, <1>10, <2>1
  <2>3. \A i \in DOMAIN queue' : b'.uses[queue'[i][1]] > 0
    BY <1>2, <1>3, <1>10, <1>13
  <2>4. \A i, j \in DOMAIN queue' : queue'[i][1] = queue'[j][1] => i = j
    <3>1. \A i, j \in 1..k : numbers[i] = numbers[j] => i = j
      BY <1>2, <1>3 DEF IsInjective
    <3> QED BY <1>10, <3>1
  <2> QED BY <1>5, <1>11, <1>13, <2>2, <2>3, <2>4 DEF ToolsAreReady
<1> QED BY <1>14, <1>15, <1>16, <1>17 DEF CombatInv

LEMMA UseToolKeeps == CombatInv /\ use_tool => CombatInv'
<1> SUFFICES ASSUME CombatInv, use_tool PROVE CombatInv' OBVIOUS
<1> DEFINE tool == Head(queue)[1]
           targets == ToolTargets(b, tool, Head(queue)[2])
           paid == [b EXCEPT !.uses[tool] = @ - 1]
<1>1. phase = "tools" BY DEF use_tool
<1>2. /\ queue \in Seq(Tools \X Members) /\ queue # <<>>
      /\ actions \in Nat /\ actions + Len(queue) <= ToolsPerTurn
      /\ b.alive \intersect Allies # {}
      /\ \A i \in DOMAIN queue : b.uses[queue[i][1]] > 0
      /\ \A i, j \in DOMAIN queue : queue[i][1] = queue[j][1] => i = j
  <2>1. actions \in 0..(MaxActions + ToolsPerTurn) BY DEF CombatInv, RequestOK
  <2>2. actions \in Nat BY <2>1, ConstantsAreNumbers
  <2> QED BY <1>1, <2>2 DEF CombatInv, RequestOK, ToolsAreReady
<1>3. /\ Sound(b) /\ Sound(saved) BY DEF CombatInv, BattlesAreSound
<1>4. /\ tool \in Tools /\ Len(queue) \in Nat \ {0} /\ DOMAIN queue = 1..Len(queue)
      /\ Head(queue) = queue[1] /\ Tail(queue) \in Seq(Tools \X Members)
      /\ Len(Tail(queue)) = Len(queue) - 1
      /\ DOMAIN Tail(queue) = 1..(Len(queue) - 1)
      /\ \A i \in 1..(Len(queue) - 1) : Tail(queue)[i] = queue[i + 1]
  <2>1. Head(queue) \in Tools \X Members BY <1>2, HeadTailProperties
  <2>2. Tail(queue) \in Seq(Tools \X Members) /\ Len(Tail(queue)) = Len(queue) - 1
    BY <1>2, HeadTailProperties
  <2>3. DOMAIN Tail(queue) = 1..Len(Tail(queue)) /\ DOMAIN queue = 1..Len(queue)
    BY <1>2, <2>2, LenProperties
  <2>4. Len(queue) \in Nat \ {0} BY <1>2, EmptySeq
  <2>5. \A i \in 1..Len(Tail(queue)) : Tail(queue)[i] = queue[i + 1]
    BY <1>2, HeadTailProperties
  <2>6. Head(queue) = queue[1] BY <1>2
  <2> QED BY <2>1, <2>2, <2>3, <2>4, <2>5, <2>6
<1>5. 1 \in DOMAIN queue /\ b.uses[tool] > 0 BY <1>2, <1>4
<1>6. /\ Sound(paid) /\ paid.alive = b.alive
      /\ \A n \in Tools \ {tool} : paid.uses[n] = b.uses[n]
  <2> DEFINE left == [b.uses EXCEPT ![tool] = @ - 1]
  <2> HIDE DEF tool
  <2>1. b \in Battle /\ b.uses \in [Tools -> 0..ToolUses] BY <1>3, SoundFields
  <2>2. left \in [Tools -> 0..ToolUses] /\ left \in [Tools -> Nat]
    <3>1. b.uses[tool] - 1 \in 0..ToolUses BY <1>4, <1>5, <2>1, ConstantsAreNumbers
    <3>2. left \in [Tools -> 0..ToolUses] BY <2>1, <3>1
    <3> QED BY <3>2, ConstantsAreNumbers
  <2>3. \A n \in Tools \ {tool} : left[n] = b.uses[n] BY <2>1
  <2>4. paid = [b EXCEPT !.uses = left] OBVIOUS
  <2> HIDE DEF left, paid
  <2>5. /\ paid \in Battle /\ paid.wave = b.wave /\ paid.alive = b.alive
        /\ paid.speed = b.speed /\ paid.wait = b.wait /\ paid.broken = b.broken
        /\ paid.pending = b.pending /\ paid.forced = b.forced
        /\ paid.gauge = b.gauge /\ paid.uses = left
    BY <2>1, <2>2, <2>4 DEF Battle
  <2>6. Sound(paid) BY <1>3, <2>2, <2>5, SoundFields, FieldsKeepSound
  <2> QED BY <2>3, <2>5, <2>6
<1>7. targets \subseteq b.alive BY DEF ToolTargets
<1> HIDE DEF tool, targets, paid
<1>8. \/ Refuse("target")
      \/ \E before \in Refreshed(paid) :
            \E o \in Outcomes(before, targets \intersect Enemies, TRUE) :
                LET t == Struck(before, o)
                IN  \/ Fails(t) /\ Refuse("delay")
                    \/ /\ ~Fails(t)
                       /\ b' \in Refreshed(t)
                       /\ queue' = Tail(queue)
                       /\ phase' = IF queue' = <<>> THEN "schedule" ELSE "tools"
                       /\ actions' = actions + 1
                       /\ UNCHANGED <<saved, refused>>
  BY Zenon DEF use_tool, tool, targets, paid
<1>9. CASE Refuse("target")
  <2>1. "target" \in Reasons \ {"no"} BY DEF Reasons
  <2> QED BY <1>9, <2>1, RefuseKeeps
<1>10. ASSUME NEW before \in Refreshed(paid),
              NEW o \in Outcomes(before, targets \intersect Enemies, TRUE),
              NEW t, t = Struck(before, o),
              \/ Fails(t) /\ Refuse("delay")
              \/ /\ ~Fails(t)
                 /\ b' \in Refreshed(t)
                 /\ queue' = Tail(queue)
                 /\ phase' = IF queue' = <<>> THEN "schedule" ELSE "tools"
                 /\ actions' = actions + 1
                 /\ UNCHANGED <<saved, refused>>
       PROVE  CombatInv'
  <2>1. /\ Sound(before) /\ before.alive = b.alive /\ before.uses = paid.uses
    BY <1>6, RefreshKeepsSound
  <2>2. targets \intersect Enemies \subseteq before.alive BY <1>7, <2>1
  <2>3. \A x \in targets \intersect Enemies : Accompanied(before, x)
    BY <1>2, <2>1, MembersAreNumbers DEF Accompanied
  <2>4. \/ Fails(t)
        \/ /\ Sound(t) /\ t.alive = before.alive \ o.killed
           /\ t.uses = before.uses /\ o.killed \subseteq targets \intersect Enemies
    <3> DEFINE A == targets \intersect Enemies
               yes == TRUE
    <3>1. /\ A \subseteq before.alive /\ \A x \in A : Accompanied(before, x)
          /\ o \in Outcomes(before, A, yes)
      BY <2>2, <2>3
    <3> HIDE DEF A, yes
    <3>2. t = Struck(before, o) BY <1>10
    <3>3. Fails(t) \/ Survived(before, A, o, t)
      BY <2>1, <3>1, <3>2, StruckKeepsSound
    <3> QED BY <3>3 DEF A, Survived
  <2>5. CASE Refuse("delay")
    <3>1. "delay" \in Reasons \ {"no"} BY DEF Reasons
    <3> QED BY <2>5, <3>1, RefuseKeeps
  <2>6. CASE /\ ~Fails(t) /\ b' \in Refreshed(t) /\ queue' = Tail(queue)
             /\ phase' = IF queue' = <<>> THEN "schedule" ELSE "tools"
             /\ actions' = actions + 1
             /\ UNCHANGED <<saved, refused>>
    <3>1. /\ Sound(t) /\ t.alive = b.alive \ o.killed /\ t.uses = paid.uses
          /\ o.killed \subseteq Enemies
      BY <2>1, <2>4, <2>6
    <3>2. Sound(b') /\ b'.alive = b.alive \ o.killed /\ b'.uses = paid.uses
      BY <2>6, <3>1, RefreshKeepsSound
    <3>3. BattlesAreSound' BY <1>3, <2>6, <3>2 DEF BattlesAreSound
    <3>4. actions + 1 <= ToolsPerTurn /\ actions' + Len(queue') <= ToolsPerTurn
      BY <1>2, <1>4, <2>6, ConstantsAreNumbers
    <3>5. RequestOK'
      <4>1. actions' \in 0..(MaxActions + ToolsPerTurn)
        BY <1>2, <2>6, <3>4, ConstantsAreNumbers
      <4> QED BY <1>1, <1>4, <2>6, <4>1 DEF CombatInv, RequestOK
    <3>6. CommandIsSaved' BY <2>6 DEF CommandIsSaved
    <3>7. b'.alive \intersect Allies # {} BY <1>2, <3>1, <3>2, MembersAreNumbers
    <3>8. \A i \in DOMAIN queue' : /\ i \in Nat /\ i + 1 \in DOMAIN queue
                                   /\ i + 1 # 1 /\ queue'[i] = queue[i + 1]
      BY <1>4, <2>6
    <3>9. \A i \in DOMAIN queue' : b'.uses[queue'[i][1]] > 0
      <4> SUFFICES ASSUME NEW i \in DOMAIN queue' PROVE b'.uses[queue'[i][1]] > 0
        OBVIOUS
      <4> DEFINE n == queue[i + 1][1]
      <4>1. i + 1 \in 1..Len(queue) /\ i + 1 # 1 BY <1>4, <3>8
      <4>2. n \in Tools
        <5>1. queue[i + 1] \in Tools \X Members BY <1>2, <4>1, ElementOfSeq
        <5> QED BY <5>1
      <4>3. n # tool BY <1>2, <1>4, <1>5, <4>1 DEF tool
      <4>4. b.uses[n] > 0 BY <1>2, <1>4, <4>1
      <4>5. queue'[i][1] = n BY <3>8
      <4> HIDE DEF n
      <4>6. b'.uses[n] = b.uses[n] BY <1>6, <3>2, <4>2, <4>3
      <4> QED BY <4>4, <4>5, <4>6
    <3>10. \A i, j \in DOMAIN queue' : queue'[i][1] = queue'[j][1] => i = j
      <4> SUFFICES ASSUME NEW i \in DOMAIN queue', NEW j \in DOMAIN queue',
                          queue'[i][1] = queue'[j][1]
                   PROVE  i = j
        OBVIOUS
      <4>1. i + 1 = j + 1 BY <1>2, <3>8
      <4> QED BY <3>8, <4>1
    <3>11. ToolsAreReady'
      BY <2>6, <3>4, <3>7, <3>9, <3>10 DEF ToolsAreReady
    <3> QED BY <3>3, <3>5, <3>6, <3>11 DEF CombatInv
  <2> QED BY <1>10, <2>5, <2>6
<1> QED BY <1>8, <1>9, <1>10

LEMMA MaxGaugeKeeps == CombatInv /\ max_party_gauge_command => CombatInv'
<1> SUFFICES ASSUME CombatInv, max_party_gauge_command PROVE CombatInv' OBVIOUS
<1>1. /\ phase = "command" /\ b' = [b EXCEPT !.gauge = MaxGauge] /\ saved' = b'
      /\ phase' = phase /\ queue' = queue /\ actions' = actions /\ refused' = refused
  BY DEF max_party_gauge_command, AtRest
<1>2. Sound(b) BY DEF CombatInv, BattlesAreSound
<1>3. MaxGauge \in 0..MaxGauge BY ConstantsAreNumbers
<1>4. Sound(b') BY <1>1, <1>2, <1>3, GaugeKeepsSound
<1>5. BattlesAreSound' BY <1>1, <1>4 DEF BattlesAreSound
<1>6. RequestOK' BY <1>1 DEF CombatInv, RequestOK
<1>7. CommandIsSaved' /\ ToolsAreReady'
  BY <1>1 DEF CombatInv, CommandIsSaved, ToolsAreReady
<1> QED BY <1>5, <1>6, <1>7 DEF CombatInv

LEMMA NextWaveKeeps == CombatInv /\ next_wave => CombatInv'
<1> SUFFICES ASSUME CombatInv, next_wave PROVE CombatInv' OBVIOUS
<1> DEFINE wave == b.wave + 1
           alive == (b.alive \intersect Allies) \union Waves[wave]
<1>1. PICK speed \in [Waves[b.wave + 1] -> UNION {Speeds[m] : m \in Enemies}] :
        LET wv == b.wave + 1
            al == (b.alive \intersect Allies) \union Waves[wv]
            speeds == [m \in Members |-> IF m \in Waves[wv] THEN speed[m] ELSE b.speed[m]]
        IN  /\ \A m \in Waves[wv] : speed[m] \in Speeds[m]
            /\ \E s \in Refreshed([b EXCEPT !.wave = wv, !.alive = al,
                                           !.speed = speeds, !.broken = {},
                                           !.pending = 0, !.forced = 0,
                                           !.wait = initial_timeline(al, speeds, wv)]) :
                  b' = s
  BY Zenon DEF next_wave
<1> DEFINE speeds == [m \in Members |-> IF m \in Waves[wave] THEN speed[m] ELSE b.speed[m]]
           opening == initial_timeline(alive, speeds, wave)
           s == [b EXCEPT !.wave = wave, !.alive = alive, !.speed = speeds,
                          !.broken = {}, !.pending = 0, !.forced = 0, !.wait = opening]
<1>2. (\A m \in Waves[wave] : speed[m] \in Speeds[m]) /\ b' \in Refreshed(s)
  BY <1>1, Zenon
<1>3. /\ phase = "schedule" /\ Won(b) /\ b.wave < Len(Waves)
      /\ saved' = saved /\ phase' = phase /\ queue' = queue /\ actions' = actions
      /\ refused' = refused
  BY DEF next_wave
<1>4. Sound(b) /\ Sound(saved) BY DEF CombatInv, BattlesAreSound
<1>5. wave \in DOMAIN Waves /\ wave \in Nat /\ Waves[wave] \subseteq Members
  <2>1. b.wave \in DOMAIN Waves BY <1>4, SoundBasics
  <2>2. wave \in DOMAIN Waves /\ wave \in Nat BY <1>3, <2>1, WavesAreSets
  <2> HIDE DEF wave
  <2> QED BY <2>2, WavesAreSets, MembersAreNumbers
<1> HIDE DEF wave
<1>6. /\ alive \in SUBSET Members /\ alive \subseteq Allies \union Waves[wave]
      /\ alive \intersect Allies # {}
  BY <1>3, <1>5, MembersAreNumbers DEF Won, Lost
<1>7. speeds \in [Members -> Nat \ {0}] /\ \A m \in Members : speeds[m] \in Speeds[m]
  <2>1. \A m \in Members : b.speed[m] \in Speeds[m]
    BY <1>4 DEF Sound, BattleTypeOK
  <2>2. \A m \in Members : speeds[m] \in Speeds[m] BY <1>2, <2>1
  <2>3. \A m \in Members : speeds[m] \in Nat \ {0} BY <2>2, ConstantsAreNumbers
  <2> QED BY <2>2, <2>3
<1> HIDE DEF alive, speeds
<1>8. opening \in Timelines BY <1>6, <1>7, WaveOpens
<1>9. speeds \in [Members -> Nat] BY <1>7
<1>10. /\ b \in Battle /\ b.gauge \in 0..MaxGauge /\ b.uses \in [Tools -> 0..ToolUses]
  BY <1>4, SoundFields
<1> HIDE DEF opening
<1>11. /\ s \in Battle /\ s.wave = wave /\ s.alive = alive /\ s.speed = speeds
       /\ s.broken = {} /\ s.pending = 0 /\ s.forced = 0 /\ s.wait = opening
       /\ s.gauge = b.gauge /\ s.uses = b.uses
  BY <1>5, <1>6, <1>8, <1>9, <1>10 DEF Battle
<1> HIDE DEF s
<1>12. Sound(s)
  <2>1. s.wait = initial_timeline(s.alive, s.speed, s.wave) BY <1>11 DEF opening
  <2> QED BY <1>5, <1>6, <1>7, <1>10, <1>11, <2>1, OpenedIsSound
<1>13. Sound(b') BY <1>2, <1>12, RefreshKeepsSound
<1>14. BattlesAreSound' BY <1>3, <1>4, <1>13 DEF BattlesAreSound
<1>15. RequestOK' BY <1>3 DEF CombatInv, RequestOK
<1>16. CommandIsSaved' /\ ToolsAreReady' BY <1>3 DEF CommandIsSaved, ToolsAreReady
<1> QED BY <1>14, <1>15, <1>16 DEF CombatInv

\* A turn that begins.
LEMMA BeginningTurn ==
    ASSUME CombatInv, TurnBegins
    PROVE  /\ phase = "schedule" /\ actions < MaxActions /\ Sound(b) /\ InBattle(b)
           /\ current_actor(b) \in Members /\ current_actor(b) \in b.alive
           /\ b.alive \intersect Allies # {} /\ b.alive \intersect Enemies # {}
           /\ \A m \in b.alive : Accompanied(b, m)
<1>1. phase = "schedule" /\ InBattle(b) /\ actions < MaxActions BY DEF TurnBegins
<1>2. Sound(b) BY DEF CombatInv, BattlesAreSound
<1> QED BY <1>1, <1>2, SomebodyActs

LEMMA TurnKillsKeeps == CombatInv /\ turn_kills => CombatInv'
<1> SUFFICES ASSUME CombatInv, turn_kills PROVE CombatInv' OBVIOUS
<1> DEFINE m == current_actor(b)
           broken == b.broken \ {m}
           alive == b.alive \ {m}
           s == [Recovered(b, m) EXCEPT !.alive = @ \ {m}, !.pending = 0, !.forced = 0]
           r == remove_timeline_members(s, {m})
<1>1. TurnBegins /\ \E t \in Refreshed(r) : TurnPasses(t) BY Zenon DEF turn_kills
<1>2. /\ phase = "schedule" /\ actions < MaxActions /\ Sound(b) /\ m \in Members
  BY <1>1, BeginningTurn
<1>3. b \in Battle /\ b.alive \subseteq Members /\ b.broken \subseteq b.alive \intersect Enemies
  BY <1>2, SoundBasics, SoundFields
<1> HIDE DEF m
<1>4. alive \in SUBSET Members /\ broken \in SUBSET Members BY <1>3
<1>5. /\ s \in Battle /\ s.wave = b.wave /\ s.alive = alive /\ s.speed = b.speed
      /\ s.wait = b.wait /\ s.broken = broken /\ s.pending = 0 /\ s.forced = 0
      /\ s.gauge = b.gauge /\ s.uses = b.uses
  <2> DEFINE rec == Recovered(b, m)
  <2>1. /\ rec \in Battle /\ rec.wave = b.wave /\ rec.alive = b.alive
        /\ rec.speed = b.speed /\ rec.wait = b.wait /\ rec.broken = broken
        /\ rec.gauge = b.gauge /\ rec.uses = b.uses
    BY <1>3, <1>4 DEF Recovered, Battle
  <2> HIDE DEF rec
  <2>2. s = [rec EXCEPT !.alive = alive, !.pending = 0, !.forced = 0]
    BY <2>1 DEF rec
  <2> HIDE DEF alive, broken, s
  <2> QED BY <1>4, <2>1, <2>2 DEF Battle
<1> HIDE DEF s
<1>6. Placed(s) = Placed(b) /\ \A x : Of(s, x) = Of(b, x) BY <1>5 DEF Placed, Of
<1>7. /\ \A u \in Placed(s) : u[1] \in s.alive \union {m}
      /\ s.alive \intersect {m} = {}
      /\ \A x \in s.alive : Cardinality(Of(s, x)) \in 2..3
  <2>1. /\ \A u \in Placed(b) : u[1] \in b.alive
        /\ \A x \in b.alive : Cardinality(Of(b, x)) \in 2..3
    BY <1>2 DEF Sound, Matches
  <2> QED BY <1>5, <1>6, <2>1
<1>8. /\ r \in Battle /\ Matches(r)
      /\ r.alive = s.alive /\ r.wave = s.wave /\ r.speed = s.speed
      /\ r.broken = s.broken /\ r.pending = s.pending /\ r.forced = s.forced
      /\ r.gauge = s.gauge /\ r.uses = s.uses
      /\ \A u \in DOMAIN r.wait : u \in Units /\ r.wait[u] \in Nat
  BY <1>5, <1>7, RemovalKeepsSound
<1> HIDE DEF r
<1>9. BattleTypeOK(r)
  <2>1. r.broken \subseteq r.alive \intersect Enemies BY <1>3, <1>5, <1>8
  <2>2. r.alive \subseteq Allies \union Waves[r.wave]
    BY <1>2, <1>5, <1>8 DEF Sound, BattleTypeOK
  <2> QED BY <1>2, <1>5, <1>8, <2>1, <2>2 DEF Sound, BattleTypeOK
<1>10. Sound(r) BY <1>8, <1>9 DEF Sound
<1>11. PICK t \in Refreshed(r) : TurnPasses(t) BY <1>1
<1>12. Sound(t) BY <1>10, RefreshKeepsSound
<1> QED BY <1>2, <1>11, <1>12, PassKeeps

\* The member whose turn begins recovers and its turn is prepared.
Preparing(s, m) == [Recovered(s, m) EXCEPT !.pending = m, !.forced = 0]

LEMMA RecoveredKeepsSound ==
    ASSUME NEW s, Sound(s), NEW m \in Members
    PROVE  Sound(Preparing(s, m)) /\ Preparing(s, m).alive = s.alive
<1> DEFINE broken == s.broken \ {m}
           nobody == 0
           r == Preparing(s, m)
<1>1. /\ broken \in SUBSET s.broken /\ nobody \in Provokers \union {0}
      /\ m \in Members \union {0}
  OBVIOUS
<1>2. r = [s EXCEPT !.broken = broken, !.pending = m, !.forced = nobody]
  BY SoundFields DEF Preparing, Recovered, Battle
<1> HIDE DEF broken, nobody, r
<1>3. Sound(r) BY <1>1, <1>2, PreparedKeepsSound
<1>4. r.alive = s.alive BY <1>2, SoundFields DEF Battle
<1> QED BY <1>3, <1>4 DEF r

LEMMA TurnDisabledKeeps == CombatInv /\ turn_disabled => CombatInv'
<1> SUFFICES ASSUME CombatInv, turn_disabled PROVE CombatInv' OBVIOUS
<1> DEFINE m == current_actor(b)
           s == Preparing(b, m)
<1>1. /\ TurnBegins /\ TurnIs(s, m)
      /\ \E t \in Refreshed(UsedUp(s, m, 0)) : TurnPasses(t)
  BY Zenon DEF turn_disabled, Preparing
<1>2. /\ phase = "schedule" /\ actions < MaxActions /\ Sound(b) /\ m \in Members
  BY <1>1, BeginningTurn
<1> HIDE DEF m
<1>3. Sound(s) BY <1>2, RecoveredKeepsSound
<1> HIDE DEF s
<1>4. 0 \in Int OBVIOUS
<1>5. Sound(UsedUp(s, m, 0)) BY <1>1, <1>2, <1>3, <1>4, UsedUpKeepsSound
<1>6. PICK t \in Refreshed(UsedUp(s, m, 0)) : TurnPasses(t) BY <1>1
<1>7. Sound(t) BY <1>5, RefreshKeepsSound
<1> QED BY <1>2, <1>6, <1>7, PassKeeps

LEMMA AllyReadyKeeps == CombatInv /\ ally_ready => CombatInv'
<1> SUFFICES ASSUME CombatInv, ally_ready PROVE CombatInv' OBVIOUS
<1> DEFINE m == current_actor(b)
<1>1. /\ TurnBegins /\ m \in Allies
      /\ \/ Commit(b)
         \/ \E t \in (Provokers \intersect b.alive \intersect Enemies) \union {0},
               s \in IF HpSpeedRules THEN Refreshed(b) ELSE {b} :
                Commit([s EXCEPT !.pending = m, !.forced = t])
  BY Zenon DEF ally_ready
<1>2. /\ phase # "refused" /\ Sound(b) /\ m \in Members
  BY <1>1, BeginningTurn
<1> HIDE DEF m
<1>3. CASE Commit(b) BY <1>2, <1>3, CommitKeeps
<1>4. ASSUME NEW t \in (Provokers \intersect b.alive \intersect Enemies) \union {0},
             NEW s \in IF HpSpeedRules THEN Refreshed(b) ELSE {b},
             Commit([s EXCEPT !.pending = m, !.forced = t])
      PROVE  CombatInv'
  <2> DEFINE r == [s EXCEPT !.pending = m, !.forced = t]
             broken == s.broken
  <2>1. s \in Refreshed(b) BY ConstantsAreNumbers DEF Refreshed
  <2>2. Sound(s) BY <1>2, <2>1, RefreshKeepsSound
  <2>3. r = [s EXCEPT !.broken = broken, !.pending = m, !.forced = t]
    BY <2>2, SoundFields DEF Battle
  <2>4. broken \in SUBSET s.broken /\ m \in Members \union {0} /\ t \in Provokers \union {0}
    BY <1>2
  <2>5. Commit(r) BY <1>4
  <2> HIDE DEF r, broken
  <2>6. Sound(r) BY <2>2, <2>3, <2>4, PreparedKeepsSound
  <2> QED BY <1>2, <2>5, <2>6, CommitKeeps
<1> QED BY <1>1, <1>3, <1>4

LEMMA EnemyActsKeeps == CombatInv /\ enemy_acts => CombatInv'
<1> SUFFICES ASSUME CombatInv, enemy_acts PROVE CombatInv' OBVIOUS
<1> DEFINE m == current_actor(b)
           s == Preparing(b, m)
           single == {earliest_living_member(s, Allies)}
                        \union (s.alive \intersect Allies \intersect Provokers)
<1>1. /\ TurnBegins
      /\ \E targets \in {{t} : t \in single} \union {{}, s.alive \intersect Allies} :
            use_skill(s, m, targets, 0)
  BY Zenon DEF enemy_acts, Preparing
<1>2. /\ phase = "schedule" /\ actions < MaxActions /\ Sound(b) /\ m \in Members
      /\ b.alive \intersect Allies # {} /\ \A x \in b.alive : Accompanied(b, x)
  BY <1>1, BeginningTurn
<1> HIDE DEF m
<1>3. Sound(s) /\ s.alive = b.alive BY <1>2, RecoveredKeepsSound
<1> HIDE DEF s
<1>4. earliest_living_member(s, Allies) \in s.alive BY <1>2, <1>3, EarliestLives
<1>5. \A x \in s.alive : Accompanied(s, x) BY <1>2, <1>3 DEF Accompanied
<1>6. PICK targets \in {{t} : t \in single} \union {{}, s.alive \intersect Allies} :
          use_skill(s, m, targets, 0)
  BY <1>1
<1>7. targets \subseteq s.alive BY <1>4
<1> QED BY <1>2, <1>3, <1>5, <1>6, <1>7, SkillKeeps

LEMMA RollbackKeeps == CombatInv /\ rollback => CombatInv'
<1> SUFFICES ASSUME CombatInv, rollback PROVE CombatInv' OBVIOUS
<1>1. /\ b' = saved /\ saved' = saved /\ queue' = <<>> /\ phase' = "command"
      /\ actions' = 0 /\ refused' = "no"
  BY DEF rollback
<1>2. BattlesAreSound' BY <1>1 DEF CombatInv, BattlesAreSound
<1>3. <<>> \in Seq(Tools \X Members) BY EmptySeq
<1>4. RequestOK' BY <1>1, <1>3, ConstantsAreNumbers DEF RequestOK, Reasons
<1>5. CommandIsSaved' /\ ToolsAreReady' BY <1>1 DEF CommandIsSaved, ToolsAreReady
<1> QED BY <1>2, <1>4, <1>5 DEF CombatInv

LEMMA NextKeepsSound == CombatInv /\ [Next]_combatVars => CombatInv'
<1> SUFFICES ASSUME CombatInv, [Next]_combatVars PROVE CombatInv' OBVIOUS
<1>1. CASE battle_over
  <2>1. phase = "schedule" /\ Commit(b) BY <1>1 DEF battle_over
  <2>2. Sound(b) BY DEF CombatInv, BattlesAreSound
  <2> QED BY <2>1, <2>2, CommitKeeps
<1>2. CASE scheduler_exceeded
  <2>1. Refuse("endless") /\ "endless" \in Reasons \ {"no"}
    BY <1>2 DEF scheduler_exceeded, Reasons
  <2> QED BY <2>1, RefuseKeeps
<1>3. CASE finished \/ UNCHANGED combatVars
  <2>1. UNCHANGED combatVars BY <1>3 DEF finished
  <2> QED BY <2>1 DEF combatVars, CombatInv, BattlesAreSound, RequestOK, CommandIsSaved,
                      ToolsAreReady
<1> QED BY <1>1, <1>2, <1>3, SkillCommandKeeps, ToolCommandKeeps, UseToolKeeps,
           MaxGaugeKeeps, NextWaveKeeps, TurnKillsKeeps, TurnDisabledKeeps,
           AllyReadyKeeps, EnemyActsKeeps, RollbackKeeps DEF Next

LEMMA CombatIsSound == Spec => []CombatInv
<1> QED BY InitSound, NextKeepsSound, PTL DEF Spec

\* The fields of a battle and of the request keep their types: the party gauge
\* never passes its limit, no tool is used more often than it may be, nobody
\* dead is broken and an attack is forced on members that provoke alone
\* (party_gauge, battle_tool_command, finalize_turn).
THEOREM CombatTypeCorrectness == Spec => []CombatTypeOK
<1>1. CombatInv => CombatTypeOK
  <2> SUFFICES ASSUME CombatInv PROVE CombatTypeOK OBVIOUS
  <2>1. BattleTypeOK(b) /\ BattleTypeOK(saved)
    BY DEF CombatInv, BattlesAreSound, Sound
  <2>2. \A i \in DOMAIN queue : queue[i] \in Tools \X Members
    <3>1. queue \in Seq(Tools \X Members) BY DEF CombatInv, RequestOK
    <3>2. DOMAIN queue = 1..Len(queue) BY <3>1, LenProperties
    <3> QED BY <3>1, <3>2, ElementOfSeq
  <2> QED BY <2>1, <2>2 DEF CombatTypeOK, CombatInv, RequestOK
<1> QED BY <1>1, CombatIsSound, PTL

\* Whatever skills, tools, delays, lost turns, waves and rolled back requests do
\* to a battle, the timeline holds two or three turns of every living member and
\* none of the dead, so the next request can go on (consume_timeline_turn,
\* delay_timeline_member_by_slots, remove_timeline_members, initial_timeline).
THEOREM TimelineIsOfTheLiving == Spec => []TimelineMatchesMembers
<1>1. CombatInv => TimelineMatchesMembers
  <2> SUFFICES ASSUME CombatInv PROVE TimelineMatchesMembers OBVIOUS
  <2>1. Sound(b) BY DEF CombatInv, BattlesAreSound
  <2>2. /\ \A u \in Placed(b) : u[1] \in b.alive
        /\ \A m \in b.alive : Cardinality(Of(b, m)) \in 2..3 /\ Of(b, m) # {}
    BY <2>1, SoundBasics DEF Sound, Matches
  <2>3. \A m \in b.alive : \E u \in Placed(b) : u[1] = m BY <2>2 DEF Of
  <2>4. {u[1] : u \in Placed(b)} = b.alive BY <2>2, <2>3
  <2> QED BY <2>2, <2>4 DEF TimelineMatchesMembers
<1> QED BY <1>1, CombatIsSound, PTL

-----------------------------------------------------------------------------
(* A saved battle waits for an ally. *)

SavedIsAnswerable == InBattle(saved) => current_actor(saved) \in Allies

\* The unit that is first, by its waits and speeds alone.
FirstOf(wait, speed, among) ==
    FirstUnit([wait |-> wait, speed |-> speed], among)

LEMMA FirstByTimes ==
    ASSUME NEW s, NEW A
    PROVE  FirstUnit(s, A) = FirstOf(s.wait, s.speed, A)
BY Zenon DEF FirstUnit, FirstOf, Earlier

\* Who acts depends on the timeline, the speeds and who lives.
LEMMA SameActor ==
    ASSUME NEW s, NEW t, t.wait = s.wait, t.speed = s.speed, t.alive = s.alive
    PROVE  current_actor(t) = current_actor(s) /\ (InBattle(t) <=> InBattle(s))
<1> DEFINE A(x) == {u \in Placed(x) : u[1] \in x.alive \intersect Members}
<1>1. A(t) = A(s) BY DEF Placed
<1>2. InBattle(t) <=> InBattle(s) BY DEF InBattle, Won, Lost
<1> HIDE DEF A
<1>3. FirstUnit(t, A(t)) = FirstUnit(s, A(s)) BY <1>1, FirstByTimes
<1>4. \A x : current_actor(x) = FirstUnit(x, A(x))[1]
  BY DEF current_actor, earliest_living_member, A
<1> QED BY <1>2, <1>3, <1>4

\* A battle starts with the turn of an ally.
LEMMA AllyOpens ==
    ASSUME \A m \in Members : \A v \in Speeds[m] : v <= WaitScale
    PROVE  Init => SavedIsAnswerable
<1> SUFFICES ASSUME Init PROVE current_actor(saved) \in Allies
  BY DEF SavedIsAnswerable
<1>1. saved = b /\ Sound(b)
  <2>1. CombatInv BY InitSound
  <2>2. saved = b BY DEF Init
  <2> QED BY <2>1, <2>2 DEF CombatInv, BattlesAreSound
<1>2. b.wait = initial_timeline(b.alive, b.speed, 1) /\ b.alive \intersect Allies # {}
  <2>1. PICK speed \in [Members -> UNION {Speeds[m] : m \in Members}],
             living \in (SUBSET Allies) \ {{}}, gauge \in 0..MaxGauge :
          LET alive == living \union Waves[1]
          IN  /\ \A m \in Members : speed[m] \in Speeds[m]
              /\ b = [wave |-> 1, alive |-> alive, speed |-> speed,
                      wait |-> initial_timeline(alive, speed, 1), broken |-> {},
                      pending |-> 0, forced |-> 0, gauge |-> gauge,
                      uses |-> [t \in Tools |-> ToolUses]]
    BY Zenon DEF Init
  <2> QED BY <2>1
<1> DEFINE A == {u \in Placed(b) : u[1] \in b.alive \intersect Members}
           f == FirstUnit(b, A)
           w == b.wait
           speed == b.speed
           alive == b.alive
<1>3. /\ alive \in SUBSET Members /\ alive \intersect Allies # {}
      /\ speed \in [Members -> Nat \ {0}] /\ w = initial_timeline(alive, speed, 1)
      /\ \A m \in Members : speed[m] <= WaitScale
  <2>1. speed \in [Members -> Nat] /\ alive \in SUBSET Members
    BY <1>1, SoundFields DEF Battle
  <2>2. \A m \in Members : speed[m] \in Speeds[m] BY <1>1 DEF Sound, BattleTypeOK
  <2>3. \A m \in Members : speed[m] \in Nat \ {0} BY <2>2, ConstantsAreNumbers
  <2> QED BY <1>2, <2>1, <2>2, <2>3
<1>4. /\ \A u \in DOMAIN w : u[1] \in alive /\ (u[1] \in Enemies => w[u] >= 1)
      /\ \E u \in DOMAIN w : u[1] \in alive \intersect Allies /\ w[u] = 0
  <2> HIDE DEF w, alive, speed
  <2> QED BY <1>3, WaveOpens
<1>5. A = DOMAIN w BY <1>3, <1>4 DEF Placed
<1>6. PICK u \in A : w[u] = 0 BY <1>4, <1>5
<1>7. f \in A /\ w[f] <= w[u]
  <2>1. A \in SUBSET Placed(b) /\ A # {} BY <1>6
  <2> HIDE DEF A
  <2> QED BY <1>1, <1>6, <2>1, FirstUnitIsFirst DEF Sound
<1>8. f[1] \in Members /\ f[1] \notin Enemies
  <2>1. f[1] \in alive /\ f[1] \in Members BY <1>7
  <2>2. w[f] \in Nat
    <3>1. f \in Placed(b) BY <1>7
    <3> HIDE DEF f
    <3> QED BY <1>1, <3>1, PlacedUnits DEF Sound
  <2> HIDE DEF A, f, w
  <2>3. f[1] \in Enemies => w[f] >= 1 BY <1>4, <1>5, <1>7
  <2> QED BY <1>6, <1>7, <2>1, <2>2, <2>3
<1>9. f[1] \in Allies
  <2> HIDE DEF f
  <2> QED BY <1>8, MembersAreNumbers
<1> QED BY <1>1, <1>9 DEF current_actor, earliest_living_member

LEMMA SavedStaysAnswerable ==
    ASSUME HpSpeedRules = FALSE
    PROVE  CombatInv /\ SavedIsAnswerable /\ [Next]_combatVars => SavedIsAnswerable'
<1> SUFFICES ASSUME CombatInv, SavedIsAnswerable, [Next]_combatVars
             PROVE  SavedIsAnswerable'
  OBVIOUS
<1>0. Sound(b) BY DEF CombatInv, BattlesAreSound
<1>1. CASE saved' = saved BY <1>1 DEF SavedIsAnswerable
<1>2. CASE max_party_gauge_command
  <2>1. /\ saved' = [b EXCEPT !.gauge = MaxGauge] /\ phase = "command"
    BY <1>2 DEF max_party_gauge_command, AtRest
  <2>2. saved = b BY <2>1 DEF CombatInv, CommandIsSaved
  <2>3. /\ saved'.wait = saved.wait /\ saved'.speed = saved.speed
        /\ saved'.alive = saved.alive
    BY <1>0, <2>1, <2>2, SoundFields DEF Battle
  <2>4. current_actor(saved') = current_actor(saved) /\ (InBattle(saved') <=> InBattle(saved))
    BY <2>3, SameActor
  <2> QED BY <2>4 DEF SavedIsAnswerable
<1>3. CASE battle_over
  <2>1. saved' = b /\ ~InBattle(b) BY <1>3 DEF battle_over, Commit, InBattle
  <2> QED BY <2>1 DEF SavedIsAnswerable
<1>4. CASE ally_ready
  <2> DEFINE m == current_actor(b)
  <2>1. /\ m \in Allies
        /\ \/ Commit(b)
           \/ \E t \in (Provokers \intersect b.alive \intersect Enemies) \union {0},
                 s \in IF HpSpeedRules THEN Refreshed(b) ELSE {b} :
                  Commit([s EXCEPT !.pending = m, !.forced = t])
    BY <1>4, Zenon DEF ally_ready
  <2> HIDE DEF m
  <2>2. /\ saved'.wait = b.wait /\ saved'.speed = b.speed /\ saved'.alive = b.alive
    <3>1. CASE Commit(b) BY <3>1 DEF Commit
    <3>2. ASSUME NEW t, Commit([b EXCEPT !.pending = m, !.forced = t])
          PROVE  saved'.wait = b.wait /\ saved'.speed = b.speed /\ saved'.alive = b.alive
      <4>1. saved' = [b EXCEPT !.pending = m, !.forced = t] BY <3>2 DEF Commit
      <4> QED BY <1>0, <4>1, SoundFields DEF Battle
    <3> QED BY <2>1, <3>1, <3>2
  <2>3. current_actor(saved') = m BY <2>2, SameActor DEF m
  <2> QED BY <2>1, <2>3 DEF SavedIsAnswerable
<1>5. \/ saved' = saved \/ max_party_gauge_command \/ battle_over \/ ally_ready
  <2>1. CASE skill_command
    <3>1. \E m, targets : use_skill(b, m, targets, 1) BY <2>1, Zenon DEF skill_command
    <3> QED BY <3>1 DEF use_skill, Refuse
  <2>2. CASE enemy_acts
    <3>1. \E s, m, targets : use_skill(s, m, targets, 0) BY <2>2, Zenon DEF enemy_acts
    <3> QED BY <3>1 DEF use_skill, Refuse
  <2>3. CASE use_tool
    <3> QED BY <2>3 DEF use_tool, Refuse
  <2>4. CASE battle_tool_command \/ next_wave \/ scheduler_exceeded \/ rollback
    BY <2>4 DEF battle_tool_command, next_wave, scheduler_exceeded, rollback, Refuse
  <2>5. CASE turn_kills \/ turn_disabled
    BY <2>5 DEF turn_kills, turn_disabled, TurnPasses
  <2>6. CASE finished \/ UNCHANGED combatVars BY <2>6 DEF finished, combatVars
  <2> QED BY <2>1, <2>2, <2>3, <2>4, <2>5, <2>6 DEF Next
<1> QED BY <1>1, <1>2, <1>3, <1>4, <1>5

\* Where no rule makes speed depend on health and every member's speed gives it
\* a wait of a tick or more, every request leaves the battle to an ally:
\* initial_timeline puts the fastest ally first, and the scheduler returns on an
\* ally's turn or at the end alone.
THEOREM AnAllyIsAsked ==
    ASSUME HpSpeedRules = FALSE,
           \A m \in Members : \A v \in Speeds[m] : v <= WaitScale
    PROVE  Spec => []CommandsAreAnswerable
<1>1. Init => SavedIsAnswerable BY AllyOpens
<1>2. CombatInv /\ SavedIsAnswerable /\ [Next]_combatVars => SavedIsAnswerable'
  BY SavedStaysAnswerable
<1>3. CombatInv /\ SavedIsAnswerable => CommandsAreAnswerable
  BY DEF CombatInv, CommandIsSaved, SavedIsAnswerable, CommandsAreAnswerable, AtRest
<1> QED BY <1>1, <1>2, <1>3, CombatIsSound, PTL DEF Spec
=============================================================================
