------------------------------ MODULE Housing -------------------------------
(***************************************************************************)
(* A house of an event: it is built up level by level, and once finished   *)
(* is started again on the next lap; it produces rewards with time, pays   *)
(* for every so many levels built over all laps, records investigations of *)
(* what it was built with, and lends tools out for an hour.  The state of  *)
(* the house and of its count rewards are resources; the count of levels   *)
(* built is kept in the activity state.                                    *)
(***************************************************************************)
EXTENDS Integers, Sequences, FiniteSets, Functions

CONSTANTS
    LevelRule,          \* lap -> level -> [cost, rental, options], options by product
    FirstLap,           \* laps of the first level; levels of a lap begin at 1
    Investigations,     \* house_building_investigation, in the order of the table
    CountRewards,       \* count of every house_building_count_reward
    BuildingMaterial,   \* bound: material at the beginning
    ProductionInterval, \* reward_interval_seconds
    ProductionDay,      \* the longest time that is collected for
    LoanSeconds,        \* how long a loan takes
    OwnedTools,         \* how many tools there are to lend
    EventEnd,           \* end_at of the event
    RewardEnd,          \* reward_end_at of the event
    MaxHouseTime,       \* bound: the clock
    MaxEnhance          \* bound: count of one enhance request

ASSUME HousingAssumption ==
    /\ ProductionInterval \in Nat \ {0} /\ ProductionDay \in Nat
    /\ CountRewards \subseteq Nat \ {0} /\ EventEnd <= RewardEnd
    /\ FirstLap \in DOMAIN LevelRule /\ DOMAIN LevelRule \subseteq Nat
    /\ \A lap \in DOMAIN LevelRule :
         /\ Len(LevelRule[lap]) \in Nat \ {0} /\ DOMAIN LevelRule[lap] = 1..Len(LevelRule[lap])
         /\ \A lv \in DOMAIN LevelRule[lap] : LevelRule[lap][lv].cost \in Nat
    /\ Len(Investigations) \in Nat /\ DOMAIN Investigations = 1..Len(Investigations)
    /\ \A i \in DOMAIN Investigations : \A m \in Investigations[i].missions : m.count \in Nat
    /\ BuildingMaterial \in Nat /\ OwnedTools \in Nat

VARIABLES
    house,        \* house_building_states, NoHouse before the first start
    housingCount, \* housing_counts
    countReceived, \* house_building_count_reward_states
    material,     \* items levels are paid with
    houseTime,    \* the clock
    produced,     \* history: intervals of production paid
    countPaid,    \* history: how often each count reward was paid
    begun         \* history: when the house was started
housingVars == <<house, housingCount, countReceived, material, houseTime, produced,
                 countPaid, begun>>

NoHouse == [level |-> 0]
Built == house # NoHouse
NoLoan == [tools |-> 0, end |-> 0]

HousingInit ==
    /\ house = NoHouse
    /\ housingCount = 0 /\ countReceived = 0
    /\ material = BuildingMaterial
    /\ houseTime = 0
    /\ produced = 0
    /\ countPaid = [c \in CountRewards |-> 0]
    /\ begun = 0

----------------------------------------------------------------------------
(* event_open: rewards can be received for a while after the event.        *)
EventOpen == houseTime < EventEnd
RewardsOpen == houseTime < RewardEnd

HasLevel(lap, lv) == lap \in DOMAIN LevelRule /\ lv \in DOMAIN LevelRule[lap]

house_start ==
    /\ EventOpen /\ ~Built
    /\ house' = [lap |-> FirstLap, level |-> 1, since |-> houseTime, presets |-> << >>,
                 records |-> {}, loan |-> NoLoan]
    /\ begun' = houseTime
    /\ UNCHANGED <<housingCount, countReceived, material, houseTime, produced, countPaid>>

(* house_rewards: production since the last one, a day of it at most.      *)
Waited == houseTime - house.since
Production == (IF Waited > ProductionDay THEN ProductionDay ELSE Waited) \div ProductionInterval

\* Mutant: what is collected within a day is not taken off the time.
SinceKept(h) == IF Waited > ProductionDay THEN houseTime ELSE h.since

Since(h) ==
    IF Production = 0 THEN h.since
    ELSE IF Waited > ProductionDay THEN houseTime
    ELSE h.since + Production * ProductionInterval

reward_receive ==
    /\ RewardsOpen /\ Built
    /\ house' = [house EXCEPT !.since = Since(house)]
    /\ produced' = produced + Production
    /\ UNCHANGED <<housingCount, countReceived, material, houseTime, countPaid, begun>>

(* house_investigations: passes over the table until nothing is added.     *)
Shown(spec, presets, records) ==
    /\ spec.key_product = 0 \/ \E i \in DOMAIN presets : presets[i].product = spec.key_product
    /\ \A m \in spec.missions :
         Cardinality({i \in DOMAIN presets : presets[i].type = m.type}) >= m.count
    /\ spec.requires \subseteq records

Pass(presets, records) ==
    LET found[i \in 0..Len(Investigations)] ==
          IF i = 0 THEN records
          ELSE LET before == found[i - 1] IN
               IF Shown(Investigations[i], presets, before)
               THEN before \union {Investigations[i].id} ELSE before
    IN  found[Len(Investigations)]

\* Mutant: the table is gone through once.
OnePass(presets, records) == Pass(presets, records)

house_investigations(presets, records) ==
    LET after[n \in 0..Len(Investigations)] ==
          IF n = 0 THEN records ELSE Pass(presets, after[n - 1])
    IN  after[Len(Investigations)]

(* enhance: production of the old level is collected, then levels are      *)
(* built one by one with the product the request names, all or none.       *)
LevelRow(i) == LevelRule[house.lap][house.level + i]

Selectable(i, product) ==
    LET options == LevelRow(i).options IN
    \/ DOMAIN options = {}
    \/ product \in DOMAIN options
    \/ product = 0 /\ Cardinality(DOMAIN options) = 1

ChosenPreset(i, product) ==
    LET options == LevelRow(i).options
        p == IF product = 0 THEN CHOOSE q \in DOMAIN options : TRUE ELSE product
    IN  [product |-> p, type |-> options[p]]

NewPresets(count, product) ==
    LET built == {house.level + i : i \in {i \in 1..count : DOMAIN LevelRow(i).options # {}}} IN
    [lv \in built \union DOMAIN house.presets |->
        IF lv \in built THEN ChosenPreset(lv - house.level, product) ELSE house.presets[lv]]

Cost(count) == SumFunction([i \in 1..count |-> LevelRow(i).cost])

house_enhance(count, product) ==
    /\ EventOpen /\ Built
    /\ \A i \in 1..count : HasLevel(house.lap, house.level + i) /\ Selectable(i, product)
    /\ Cost(count) <= material
    /\ LET presets == NewPresets(count, product) IN
       house' = [house EXCEPT !.since = Since(house), !.level = @ + count,
                              !.presets = presets,
                              !.records = house_investigations(presets, @)]
    /\ produced' = produced + Production
    /\ material' = material - Cost(count)
    /\ housingCount' = housingCount + count
    /\ UNCHANGED <<countReceived, houseTime, countPaid, begun>>

(* reset: the next lap of a finished house.  Records stay, and so do a     *)
(* loan and the time since the last production.                            *)
house_reset ==
    /\ EventOpen /\ Built
    /\ \A lv \in DOMAIN LevelRule[house.lap] : lv <= house.level
    /\ HasLevel(house.lap + 1, 1)
    /\ house' = [house EXCEPT !.lap = @ + 1, !.level = 1, !.presets = << >>]
    /\ UNCHANGED <<housingCount, countReceived, material, houseTime, produced, countPaid, begun>>

\* Mutant: the levels of this lap are counted.
ClaimableThisLap == {c \in CountRewards : countReceived < c /\ c <= house.level}

Claimable == {c \in CountRewards : countReceived < c /\ c <= housingCount}

house_count_reward_receive ==
    /\ RewardsOpen /\ Built
    /\ Claimable # {}
    /\ countReceived' = CHOOSE c \in Claimable : \A d \in Claimable : d <= c
    /\ countPaid' = [c \in CountRewards |-> countPaid[c] + IF c \in Claimable THEN 1 ELSE 0]
    /\ UNCHANGED <<house, housingCount, material, houseTime, produced, begun>>

(* rent: copies of tools the account keeps.                                *)
rent(tools) ==
    /\ EventOpen /\ Built
    /\ tools \in 1..LevelRule[house.lap][house.level].rental
    /\ house.loan = NoLoan
    /\ house' = [house EXCEPT !.loan = [tools |-> tools, end |-> houseTime + LoanSeconds]]
    /\ UNCHANGED <<housingCount, countReceived, material, houseTime, produced, countPaid, begun>>

rental_reward_receive ==
    /\ RewardsOpen /\ Built
    /\ house.loan # NoLoan /\ houseTime >= house.loan.end
    /\ house' = [house EXCEPT !.loan = NoLoan]
    /\ UNCHANGED <<housingCount, countReceived, material, houseTime, produced, countPaid, begun>>

HouseTick ==
    /\ houseTime < MaxHouseTime
    /\ houseTime' = houseTime + 1
    /\ UNCHANGED <<house, housingCount, countReceived, material, produced, countPaid, begun>>

Products == {0} \union UNION {UNION {DOMAIN LevelRule[lap][lv].options :
                                        lv \in DOMAIN LevelRule[lap]} : lap \in DOMAIN LevelRule}

HousingNext ==
    \/ house_start \/ reward_receive \/ house_reset \/ house_count_reward_receive \/ rental_reward_receive
    \/ \E count \in 1..MaxEnhance, product \in Products : house_enhance(count, product)
    \/ \E tools \in 1..OwnedTools : rent(tools)
    \/ HouseTick

HousingSpec == HousingInit /\ [][HousingNext]_housingVars

----------------------------------------------------------------------------
HousingTypeOK ==
    /\ Built => /\ HasLevel(house.lap, house.level)
                /\ house.since \in begun..houseTime
                /\ house.records \subseteq {Investigations[i].id : i \in DOMAIN Investigations}
                /\ house.loan.tools \in 0..OwnedTools
    /\ {housingCount, countReceived, material, houseTime, produced} \subseteq Nat
    /\ countPaid \in [CountRewards -> Nat]

(* No second is paid for twice, whatever collects: a request of its own or *)
(* an enhancement, within a day of the last or after it (house_rewards).   *)
ProductionPaidOnce ==
    Built => produced * ProductionInterval <= house.since - begun

LevelsOfLaps(lap) ==
    SumFunction([i \in 1..(lap - FirstLap) |-> Len(LevelRule[FirstLap + i - 1]) - 1])

(* A reset takes nothing from the count that rewards are given for, and    *)
(* each of them is paid once, when that many levels were built over all    *)
(* laps (housing_counts beside the level of the house, and beside the      *)
(* count already received).                                                *)
CountsPaidOnce ==
    /\ Built => housingCount = LevelsOfLaps(house.lap) + house.level - 1
    /\ countReceived <= housingCount
    /\ \A c \in CountRewards : countPaid[c] = IF c <= countReceived THEN 1 ELSE 0

(* No investigation that the house shows is missing from its records, in   *)
(* whatever order the table lists those that need each other, and however  *)
(* many levels were built at once (house_investigations).                  *)
RecordsComplete ==
    housingCount > 0 =>
        \A i \in DOMAIN Investigations :
            Shown(Investigations[i], house.presets, house.records)
                => Investigations[i].id \in house.records

(* A house pays for time and for levels once, and records what it shows.   *)
HousePays == ProductionPaidOnce /\ CountsPaidOnce /\ RecordsComplete
=============================================================================
