------------------------------- MODULE Energy -------------------------------
(***************************************************************************)
(* Stamina and mana: recovery by elapsed time, spare stamina, purchases    *)
(* with a daily price list and free passes, recovery items, rewards, quest *)
(* charges and synthesis costs.                                            *)
(*                                                                         *)
(* Home requests refresh the status before they do anything else.  Battle  *)
(* starts and battle rewards do not: they change stamina and restart its   *)
(* recovery from what was last stored.                                     *)
(***************************************************************************)
EXTENDS Integers, FiniteSets, Functions

CONSTANTS
    DaySeconds,       \* 86400
    DayStart,         \* the day changes at 3 o'clock: 3 * 3600
    StaminaInterval,  \* stamina_recovery_interval_seconds
    ManaInterval,     \* mana_recovery_interval_seconds
    StaminaLimit,     \* per user rank: recovery stops here
    ManaLimit,        \* mana_recovery_limit
    MaxStamina, MaxMana,
    SpareInterval,    \* spare_stamina_recovery_interval_seconds
    MaxSpare,         \* max_spare_stamina
    StaminaPerPurchase, ManaPerPurchase,
    Prices,           \* stamina_purchases: the gem cost of the n-th of a day
    ManaPrice,
    DailyFree,        \* per stamina pass: daily_free_count
    PassEnd,          \* per stamina pass: expires_at
    RankBonus,        \* the stamina a rank-up gives
    Counts,           \* the counts, costs and quantities requests carry
    EnergyGems,
    MaxTime           \* bound: clock

Passes == DOMAIN DailyFree
Ranks == DOMAIN StaminaLimit

ASSUME EnergyAssumption ==
    /\ DaySeconds \in Nat \ {0}
    /\ DayStart \in Nat
    /\ StaminaInterval \in Nat \ {0}
    /\ ManaInterval \in Nat \ {0}
    /\ Ranks = 1..Cardinality(Ranks) /\ 1 \in Ranks
    /\ StaminaLimit \in [Ranks -> Nat \ {0}]
    /\ ManaLimit \in Nat \ {0}
    /\ {MaxStamina, MaxMana, MaxSpare, RankBonus, EnergyGems, MaxTime} \subseteq Nat
    /\ {SpareInterval, StaminaPerPurchase, ManaPerPurchase} \subseteq Nat \ {0}
    /\ Prices \in [1..Cardinality(DOMAIN Prices) -> Nat]
    /\ ManaPrice \in Nat
    /\ DailyFree \in [Passes -> Nat]
    /\ PassEnd \in [Passes -> Nat]
    /\ Passes \subseteq Nat
    /\ Counts \subseteq Nat \ {0}
    /\ IsFiniteSet(Ranks) /\ IsFiniteSet(DOMAIN Prices) /\ IsFiniteSet(Passes)

VARIABLES
    status,    \* the energy fields of the stored status message
    pass,      \* per stamina pass: its special_offer_state
    gems,      \* the wallet
    now,       \* seconds since DayStart of day 0
    credited,  \* history: seconds of recovery handed out so far
    bought,    \* history: priced stamina purchases made today
    free       \* history: per pass, free purchases made today

energyVars == <<status, pass, gems, now, credited, bought, free>>

\* The day of a moment: it changes at DayStart.
day_of(t) == (t - DayStart) \div DaySeconds

Status == [rank: Ranks, stamina: Nat, staminaAt: Nat, spare: Nat,
           purchased: Nat, mana: Nat, manaAt: Nat]

EnergyTypeOK ==
    /\ status \in Status
    /\ status.spare <= MaxSpare * SpareInterval
    /\ status.purchased <= Cardinality(DOMAIN Prices)
    /\ pass \in [Passes -> [used: Nat, last: Nat \union {-1}]]
    /\ gems \in Nat
    /\ now \in Nat
    /\ credited \in [stamina: Nat, mana: Nat]
    /\ bought \in Nat
    /\ free \in [Passes -> Nat]

EnergyInit ==
    /\ status = [rank |-> 1, stamina |-> StaminaLimit[1], staminaAt |-> DayStart,
                 spare |-> 0, purchased |-> 0, mana |-> ManaLimit,
                 manaAt |-> DayStart]
    /\ pass = [p \in Passes |-> [used |-> 0, last |-> -1]]
    /\ gems = EnergyGems
    /\ now = DayStart
    /\ credited = [stamina |-> 0, mana |-> 0]
    /\ bought = 0
    /\ free = [p \in Passes |-> 0]

-----------------------------------------------------------------------------
(* Recovery *)

Least(a, b) == IF a <= b THEN a ELSE b
AtLeastZero(a) == IF a >= 0 THEN a ELSE 0

\* Mutant of recovered_at: the part of an interval that has passed is lost
\* at every refresh.
RemainderDropped(count, at, limit, interval, t) == t

\* The second recover_resource stores with the new count: a full resource
\* recovers from now, another keeps the part of an interval that has passed.
recovered_at(count, at, limit, interval, t) ==
    IF count >= limit THEN t ELSE t - ((t - at) % interval)

\* The count recover_resource stores; one above the limit stays as it is.
recovered_count(old, at, limit, interval, t) ==
    IF old >= limit THEN old
    ELSE Least(old + ((t - at) \div interval), limit)

\* Mutant of spare_seconds: all the time since the last update counts.
SpareCountsAllTime(st, t) == st.spare + (t - st.staminaAt)

\* Spare stamina collects the seconds after stamina was full.
spare_seconds(st, t) ==
    st.spare + AtLeastZero((t - st.staminaAt)
        - AtLeastZero(StaminaLimit[st.rank] - st.stamina) * StaminaInterval)

\* refresh, as the operator it is on a status.
refresh(st, t) ==
    LET stamina == recovered_count(st.stamina, st.staminaAt,
                                   StaminaLimit[st.rank], StaminaInterval, t)
        mana == recovered_count(st.mana, st.manaAt, ManaLimit, ManaInterval, t)
    IN  [rank |-> st.rank,
         stamina |-> stamina,
         staminaAt |-> recovered_at(stamina, st.staminaAt,
                                    StaminaLimit[st.rank], StaminaInterval, t),
         spare |-> Least(spare_seconds(st, t), MaxSpare * SpareInterval),
         purchased |-> IF day_of(st.staminaAt) < day_of(t) THEN 0 ELSE st.purchased,
         mana |-> mana,
         manaAt |-> recovered_at(mana, st.manaAt, ManaLimit, ManaInterval, t)]

\* History: the time a refresh hands out as stamina, spare seconds and mana.
Credit(st) ==
    [stamina |-> credited.stamina + (st.stamina - status.stamina) * StaminaInterval
                   + (st.spare - status.spare),
     mana |-> credited.mana + (st.mana - status.mana) * ManaInterval]

\* Every home request starts like this; home_refresh and user_login stop here.
HomeRefresh ==
    /\ status' = refresh(status, now)
    /\ credited' = Credit(refresh(status, now))
    /\ UNCHANGED <<pass, gems, now, bought, free>>

-----------------------------------------------------------------------------
(* Home requests that change energy *)

\* A request that found the status st, refreshed or not, and stores new.
EnergyRequest(st, new) ==
    /\ status' = new
    /\ credited' = Credit(st)
    /\ UNCHANGED now

AddStamina(st, n) == [st EXCEPT !.stamina = @ + n, !.staminaAt = now]
AddMana(st, n) == [st EXCEPT !.mana = @ + n, !.manaAt = now]

\* The free purchases a pass has given today, by its own record.
PassUsedToday(p) ==
    IF pass[p].last # -1 /\ day_of(pass[p].last) < day_of(now) THEN 0 ELSE pass[p].used

PassLeft(p) ==
    IF now >= PassEnd[p] THEN 0 ELSE AtLeastZero(DailyFree[p] - PassUsedToday(p))

\* The passes are used up in the order of their ids.
PassTake(p, count) ==
    Least(PassLeft(p),
          AtLeastZero(count - SumFunctionOnSet([q \in Passes |-> PassLeft(q)],
                                               {q \in Passes : q < p})))

PassUsed(p, take) == [used |-> PassUsedToday(p) + take, last |-> now]

\* Mutant of Purchased: the time of the update stays the old one.
PurchaseKeepsTime(st, n, next) ==
    [st EXCEPT !.stamina = @ + n, !.purchased = next]

Purchased(st, n, next) == [AddStamina(st, n) EXCEPT !.purchased = next]

\* /stamina/purchase: passes first, then the next prices of the day's list.
stamina_purchase(count) ==
    LET st == refresh(status, now)
        take == [p \in Passes |-> PassTake(p, count)]
        base == count - SumFunction(take)
        next == st.purchased + base
        cost == SumFunctionOnSet(Prices, (st.purchased + 1)..next)
    IN
    /\ next <= Cardinality(DOMAIN Prices)
    /\ st.stamina + count * StaminaPerPurchase <= MaxStamina
    /\ cost <= gems
    /\ EnergyRequest(st, Purchased(st, count * StaminaPerPurchase, next))
    /\ pass' = [p \in Passes |->
                    IF take[p] > 0 THEN PassUsed(p, take[p]) ELSE pass[p]]
    /\ gems' = gems - cost
    /\ bought' = bought + base
    /\ free' = [p \in Passes |-> free[p] + take[p]]

\* /mana/purchase
mana_purchase(count) ==
    LET st == refresh(status, now) IN
    /\ st.mana + count * ManaPerPurchase <= MaxMana
    /\ count * ManaPrice <= gems
    /\ EnergyRequest(st, AddMana(st, count * ManaPerPurchase))
    /\ gems' = gems - count * ManaPrice
    /\ UNCHANGED <<pass, bought, free>>

\* /stamina/use_spare_stamina
use_spare_stamina(count) ==
    LET st == refresh(status, now) IN
    /\ st.spare >= count * SpareInterval
    /\ st.stamina + count <= MaxStamina
    /\ EnergyRequest(st, [AddStamina(st, count) EXCEPT !.spare = @ - count * SpareInterval])
    /\ UNCHANGED <<pass, gems, bought, free>>

-----------------------------------------------------------------------------
(* Requests that may or may not refresh *)

\* Quest skips, explorations, stories and reward claims are home requests and
\* refresh; battle starts and battle finishes take the status as it is stored.
Found == {status, refresh(status, now)}

Charged(st, cost) == [st EXCEPT !.stamina = @ - cost, !.staminaAt = now]

\* Mutant of charge_quest: stamina is not checked.
ChargeUnchecked(st, cost) ==
    /\ EnergyRequest(st, Charged(st, cost))
    /\ UNCHANGED <<pass, gems, bought, free>>

charge_quest(st, cost) ==
    /\ st.stamina >= cost
    /\ EnergyRequest(st, Charged(st, cost))
    /\ UNCHANGED <<pass, gems, bought, free>>

\* Recovery items, and stamina or mana among the rewards.
stamina_received(st, n) ==
    /\ st.stamina + n <= MaxStamina
    /\ EnergyRequest(st, AddStamina(st, n))
    /\ UNCHANGED <<pass, gems, bought, free>>

mana_received(st, n) ==
    /\ st.mana + n <= MaxMana
    /\ EnergyRequest(st, AddMana(st, n))
    /\ UNCHANGED <<pass, gems, bought, free>>

\* Enough experience: a rank-up gives stamina beyond any maximum.
rank_up(st) ==
    /\ st.rank + 1 \in Ranks
    /\ EnergyRequest(st, [AddStamina(st, RankBonus) EXCEPT !.rank = @ + 1])
    /\ UNCHANGED <<pass, gems, bought, free>>

\* Synthesis recovers mana alone, and pays without restarting its recovery.
change_mana(cost) ==
    LET mana == recovered_count(status.mana, status.manaAt, ManaLimit,
                                ManaInterval, now)
        st == [status EXCEPT
                 !.mana = mana,
                 !.manaAt = recovered_at(mana, status.manaAt, ManaLimit,
                                         ManaInterval, now)]
    IN
    /\ mana >= cost
    /\ EnergyRequest(st, [st EXCEPT !.mana = @ - cost])
    /\ UNCHANGED <<pass, gems, bought, free>>

\* Histories of a day end with it.
Tick ==
    /\ now < MaxTime
    /\ now' = now + 1
    /\ bought' = IF day_of(now + 1) = day_of(now) THEN bought ELSE 0
    /\ free' = [p \in Passes |-> IF day_of(now + 1) = day_of(now) THEN free[p] ELSE 0]
    /\ UNCHANGED <<status, pass, gems, credited>>

-----------------------------------------------------------------------------
EnergyNext ==
    \/ HomeRefresh
    \/ \E n \in Counts :
        \/ stamina_purchase(n)
        \/ mana_purchase(n)
        \/ use_spare_stamina(n)
        \/ change_mana(n)
        \/ \E st \in Found :
            \/ charge_quest(st, n)
            \/ stamina_received(st, n)
            \/ mana_received(st, n)
    \/ \E st \in Found : rank_up(st)
    \/ Tick

EnergySpec == EnergyInit /\ [][EnergyNext]_energyVars

-----------------------------------------------------------------------------
(* Properties *)

\* No second is credited twice: the recovery handed out as stamina, spare
\* stamina and mana never exceeds the time that has passed, whatever mix of
\* refreshes, charges, purchases, rewards and rank-ups comes between.
TimeCreditedOnce ==
    /\ credited.stamina <= status.staminaAt - DayStart
    /\ credited.mana <= status.manaAt - DayStart
    /\ status.staminaAt <= now
    /\ status.manaAt <= now

\* Nothing is gained by refreshing often: two refreshes leave the status one
\* refresh at the second moment would have left.
RefreshComposes ==
    \A t \in now..MaxTime :
        refresh(refresh(status, now), t) = refresh(status, t)

\* A day sells no more than its price list and gives away no more than each
\* pass allows, although the counters are reset by comparing the day of an
\* update time that other requests move as well.
DailyLimits ==
    /\ bought <= Cardinality(DOMAIN Prices)
    /\ \A p \in Passes : free[p] <= DailyFree[p]

\* A refreshed status starts the day's price list from the beginning when
\* nothing has been bought that day.
PriceListRestarts ==
    [][(status' = refresh(status, now) /\ UNCHANGED now /\ bought = 0)
            => status'.purchased = 0]_energyVars

(* Time becomes energy exactly once, whenever it is looked at.             *)
EnergyFromTime == TimeCreditedOnce /\ RefreshComposes
=============================================================================
