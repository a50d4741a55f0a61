---------------------------- MODULE Expeditions -----------------------------
(***************************************************************************)
(* Expeditions: parties of characters sent away, one in each slot, that    *)
(* bring in cole for every interval, an item for every hour and a supply   *)
(* for every six hours they are out.  Nothing runs while they are: a claim *)
(* computes what has come in from started_at alone and moves started_at    *)
(* on.  Cole is counted in intervals since started_at, items and supplies  *)
(* by the hours and quarters of a day of the clock that lie between        *)
(* started_at and the claim.                                               *)
(***************************************************************************)
EXTENDS Integers, FiniteSets

CONSTANTS
    Travellers,         \* characters
    ExpeditionSlots,    \* 1..expedition_max_count
    Destinations,       \* expeditions of the catalog
    DestinationEnd,     \* end_at of each
    Interval,           \* expedition_interval_seconds
    Hour,               \* an hour of the clock
    SupplyHours,        \* hours between two supplies
    MaxHours,           \* expedition_max_hours
    MaxExpeditionTime   \* bound: seconds of the clock

ASSUME ExpeditionsAssumption ==
    /\ Interval \in Nat \ {0} /\ Hour \in Nat \ {0} /\ MaxHours \in Nat \ {0}
    /\ SupplyHours \in Nat \ {0} /\ DestinationEnd \in [Destinations -> Nat]
    /\ MaxExpeditionTime \in Nat

VARIABLES
    expeditions,      \* expedition_states: slot -> state, Idle for a slot never used
    expeditionTime,   \* the clock
    ticksPaid,        \* history: intervals paid in each slot
    hoursPaid,        \* history: items paid in each slot
    suppliesPaid,     \* history: supplies paid in each slot
    firstStart        \* history: when each slot was first used
expeditionsVars == <<expeditions, expeditionTime, ticksPaid, hoursPaid, suppliesPaid,
                     firstStart>>

Idle == [destination |-> 0, party |-> {}, started |-> 0]
Out(slot) == expeditions[slot] # Idle
cap == MaxHours * Hour

ExpeditionsInit ==
    /\ expeditions = [slot \in ExpeditionSlots |-> Idle]
    /\ expeditionTime = 0
    /\ ticksPaid = [slot \in ExpeditionSlots |-> 0]
    /\ hoursPaid = [slot \in ExpeditionSlots |-> 0]
    /\ suppliesPaid = [slot \in ExpeditionSlots |-> 0]
    /\ firstStart = [slot \in ExpeditionSlots |-> 0]

AtMost(a, b) == IF a <= b THEN a ELSE b

\* Mutant: a destination pays on when it has closed.
NeverCloses(state) == expeditionTime

(* The time up to which a state is paid.                                   *)
PaidUntil(state) == AtMost(DestinationEnd[state.destination], expeditionTime)

elapsed(state) ==
    IF PaidUntil(state) > state.started
    THEN AtMost(PaidUntil(state) - state.started, cap) ELSE 0
ticks(state) == elapsed(state) \div Interval

(* How often the clock passed a multiple of the period, at most as often   *)
(* as it does within the cap.                                              *)
Passed(state, period) ==
    AtMost(PaidUntil(state) \div period - state.started \div period, cap \div period)

(* What is beyond the cap is lost, the rest of an interval is kept.        *)
StartedAfter(state) ==
    IF PaidUntil(state) - state.started > cap
    THEN PaidUntil(state)
    ELSE state.started + ticks(state) * Interval

(* expedition_rewards: every slot with a complete interval is paid.        *)
Due(slot) == Out(slot) /\ ticks(expeditions[slot]) > 0
Rewarded ==
    [slot \in ExpeditionSlots |->
        [expeditions[slot] EXCEPT
            !.started = IF Due(slot) THEN StartedAfter(expeditions[slot]) ELSE @]]

Ticks == [slot \in ExpeditionSlots |-> IF Due(slot) THEN ticks(expeditions[slot]) ELSE 0]
PassedBySlot(period) ==
    [slot \in ExpeditionSlots |-> IF Due(slot) THEN Passed(expeditions[slot], period) ELSE 0]

expedition_rewards ==
    /\ ticksPaid' = [slot \in ExpeditionSlots |-> ticksPaid[slot] + Ticks[slot]]
    /\ hoursPaid' = [slot \in ExpeditionSlots |-> hoursPaid[slot] + PassedBySlot(Hour)[slot]]
    /\ suppliesPaid' = [slot \in ExpeditionSlots |->
                        suppliesPaid[slot] + PassedBySlot(SupplyHours * Hour)[slot]]

expedition_reward_receive ==
    /\ expedition_rewards
    /\ expeditions' = Rewarded
    /\ UNCHANGED <<expeditionTime, firstStart>>

\* Mutant: only the parties of the request are compared with each other.
ApartInRequest(entries) ==
    \A i, j \in DOMAIN entries : i # j => entries[i].party \intersect entries[j].party = {}

(* No character is in two entries, or in an entry and in a slot that the   *)
(* request leaves alone.                                                   *)
Apart(entries) ==
    /\ ApartInRequest(entries)
    /\ \A i \in DOMAIN entries : \A slot \in ExpeditionSlots \ DOMAIN entries :
         entries[i].party \intersect expeditions[slot].party = {}

(* /expedition/start: every slot is paid, then those of the request start  *)
(* anew, running or not.                                                   *)
expedition_start(entries) ==
    /\ DOMAIN entries # {}
    /\ \A i \in DOMAIN entries :
         entries[i].party # {} /\ expeditionTime < DestinationEnd[entries[i].destination]
    /\ Apart(entries)
    /\ expedition_rewards
    /\ expeditions' = [slot \in ExpeditionSlots |->
          IF slot \in DOMAIN entries
          THEN [destination |-> entries[slot].destination, party |-> entries[slot].party,
                started |-> expeditionTime]
          ELSE Rewarded[slot]]
    /\ firstStart' = [slot \in ExpeditionSlots |->
          IF slot \in DOMAIN entries /\ ~Out(slot) THEN expeditionTime ELSE firstStart[slot]]
    /\ UNCHANGED expeditionTime

ExpeditionTick ==
    /\ expeditionTime < MaxExpeditionTime
    /\ expeditionTime' = expeditionTime + 1
    /\ UNCHANGED <<expeditions, ticksPaid, hoursPaid, suppliesPaid, firstStart>>

Entries ==
    UNION {[slots -> [destination : Destinations, party : (SUBSET Travellers) \ {{}}]] :
             slots \in SUBSET ExpeditionSlots}

ExpeditionsNext ==
    \/ expedition_reward_receive
    \/ \E entries \in Entries : expedition_start(entries)
    \/ ExpeditionTick

ExpeditionsSpec == ExpeditionsInit /\ [][ExpeditionsNext]_expeditionsVars

----------------------------------------------------------------------------
ExpeditionsTypeOK ==
    /\ \A slot \in ExpeditionSlots : Out(slot) =>
         expeditions[slot] \in [destination : Destinations, party : (SUBSET Travellers) \ {{}},
                               started : 0..expeditionTime]
    /\ expeditionTime \in 0..MaxExpeditionTime
    /\ {ticksPaid, hoursPaid, suppliesPaid, firstStart} \subseteq [ExpeditionSlots -> Nat]

(* No second of an expedition is paid twice in cole, and none after its    *)
(* destination closed: the intervals paid fit between the first start of a *)
(* slot and the started_at of its state, over any sequence of claims and   *)
(* new starts (expedition_rewards).                                        *)
SecondsPaidOnce ==
    \A slot \in ExpeditionSlots : Out(slot) =>
        /\ ticksPaid[slot] * Interval <= expeditions[slot].started - firstStart[slot]
        /\ expeditions[slot].started <= DestinationEnd[expeditions[slot].destination]

(* An hour of the clock pays at most two items in a slot, and a supply     *)
(* comes at most twice as often as it should.  It is not once: a claim     *)
(* just after the hour moves started_at to a whole interval, which may be  *)
(* before the hour again, and the next claim counts the hour again.        *)
HoursPaidTwiceAtMost ==
    \A slot \in ExpeditionSlots : Out(slot) =>
        /\ hoursPaid[slot] <= 2 * (expeditionTime \div Hour - firstStart[slot] \div Hour)
        /\ suppliesPaid[slot] <=
             2 * (expeditionTime \div (SupplyHours * Hour)
                    - firstStart[slot] \div (SupplyHours * Hour))

(* What the comment in expedition_rewards promises: "one uniform           *)
(* destination item per complete hour", so no more items than the clock    *)
(* passed hours since the slot was first used.                             *)
HoursPaidOnce ==
    \A slot \in ExpeditionSlots : Out(slot) =>
        hoursPaid[slot] <= expeditionTime \div Hour - firstStart[slot] \div Hour

(* A character is out with one party at a time, whatever slots a request   *)
(* starts anew beside those it leaves alone (expedition).                  *)
TravellersApart ==
    \A i, j \in ExpeditionSlots :
        i # j => expeditions[i].party \intersect expeditions[j].party = {}

(* Slots pay for the time they are out, and each for its own party.        *)
ExpeditionsPay == SecondsPaidOnce /\ HoursPaidTwiceAtMost /\ TravellersApart
=============================================================================
