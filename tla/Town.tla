-------------------------------- MODULE Town --------------------------------
(***************************************************************************)
(* What an account does in town: the streets of a story, phase by phase;   *)
(* presents of tools to a character; dishes, of which more are ready at    *)
(* fixed times of the day; and stories of characters, that open each other *)
(* by how they were played.                                                *)
(***************************************************************************)
EXTENDS Integers, Sequences, SequencesExt, FiniteSets, FiniteSetsExt

CONSTANTS
    Phases,           \* street_phase of the quest: the triggers of each phase
    GiftPoints,       \* tools that can be given -> friendship points of each
    Closeness,        \* present_closeness: [closeness, cost] in order
    ServingTimes,     \* dish_charge_minutes, within the day
    TownDay,          \* length of a day
    FirstDishes,      \* dishes_when_updated at the beginning
    MaxIdleness,      \* dish_threshold_idleness
    StoryKeys,        \* character_story -> key_stories: story -> condition (0: none)
    Branching,        \* stories with a subsequent_branch
    MaxTownTime,      \* bound: the clock
    MaxPlays          \* bound: clears of one story

Triggers == UNION {Phases[i] : i \in DOMAIN Phases}
Tools == DOMAIN GiftPoints
Stories == DOMAIN StoryKeys

\* Rows are sorted by their closeness, one for each; what has no points is refused.
ASSUME TownAssumption ==
    /\ Phases \in Seq(SUBSET Triggers) /\ Len(Phases) > 0 /\ IsFiniteSet(Triggers)
    /\ IsFiniteSet(Tools) /\ \A g \in Tools : GiftPoints[g] \in Nat \ {0}
    /\ Closeness \in Seq([closeness : Nat \ {0}, cost : Nat])
    /\ Len(Closeness) > 0 /\ Last(Closeness).cost > 0
    /\ \A i, j \in DOMAIN Closeness : i < j => Closeness[i].closeness < Closeness[j].closeness
    /\ TownDay \in Nat \ {0} /\ IsFiniteSet(ServingTimes) /\ ServingTimes \subseteq 0..(TownDay - 1)
    /\ FirstDishes \in 0..Cardinality(ServingTimes) /\ MaxIdleness \in Nat

VARIABLES
    street,       \* street_states of the quest: phase and trigger_indices
    streetClears, \* clear count of the quest
    tools,        \* tools that are still there
    present,      \* present_states: total_friendship_point, closeness, rewards received
    dishes,       \* dishes_when_updated, dish_idleness, dishes_updated_at
    stories,      \* character_story_states: clear_count and condition_states
    townTime,     \* the clock
    fired,        \* history: the triggers of the street that were used
    rowsPaid,     \* history: how often each row of Closeness was paid
    servings,     \* history: dishes ordered, and dishes lost because none fitted
    storiesPaid   \* history: how often each story was paid
townVars == <<street, streetClears, tools, present, dishes, stories, townTime, fired,
              rowsPaid, servings, storiesPaid>>
streetState == <<street, streetClears, fired>>
presentState == <<tools, present, rowsPaid>>
dishState == <<dishes, servings>>
storyState == <<stories, storiesPaid>>

NotStarted == [phase |-> 0, triggered |-> {}]

TownInit ==
    /\ street = NotStarted /\ streetClears = 0 /\ fired = {}
    /\ tools = Tools
    /\ present = [total |-> 0, closeness |-> 0, received |-> 0]
    /\ rowsPaid = [i \in DOMAIN Closeness |-> 0]
    /\ dishes = [count |-> FirstDishes, idleness |-> 0, updated |-> 0]
    /\ servings = [ordered |-> 0, lost |-> 0]
    /\ stories = [s \in Stories |-> [clears |-> 0, conditions |-> {}]]
    /\ storiesPaid = [s \in Stories |-> 0]
    /\ townTime = 0

----------------------------------------------------------------------------
(* Every home request brings the dishes up to date first (refresh_dishes): *)
(* one for every serving time passed, up to one of each.                   *)

Served(from, to) ==
    SumFunction([t \in ServingTimes |-> (to - t) \div TownDay - (from - t) \div TownDay])
DishCap == Cardinality(ServingTimes)

\* Mutant: the time is set when a dish is ordered only.
RefreshedCount(d) == [d EXCEPT !.count = Min({@ + Served(d.updated, townTime), DishCap})]

refresh_dishes(d) ==
    LET total == d.count + Served(d.updated, townTime) IN
    [count |-> Min({total, DishCap}),
     idleness |-> Min({d.idleness + Max({total - DishCap, 0}), MaxIdleness}),
     updated |-> townTime]

Overflow(d) == Max({d.count + Served(d.updated, townTime) - DishCap, 0})

Refresh ==
    /\ dishes' = refresh_dishes(dishes)
    /\ servings' = [servings EXCEPT !.lost = @ + Overflow(dishes)]

dish_order ==
    LET d == refresh_dishes(dishes) IN
    /\ d.count > 0
    /\ dishes' = [d EXCEPT !.count = @ - 1, !.idleness = 0]
    /\ servings' = [ordered |-> servings.ordered + 1,
                    lost |-> servings.lost + Overflow(dishes)]
    /\ UNCHANGED <<streetState, presentState, storyState, townTime>>

(* The street.                                                             *)
street_start ==
    /\ streetClears = 0
    /\ street' = IF street = NotStarted THEN [phase |-> 1, triggered |-> {}] ELSE street
    /\ Refresh
    /\ UNCHANGED <<streetClears, fired, presentState, storyState, townTime>>

\* Mutant: triggers are counted as often as they are used.
DoneAtOnce(phase, triggered) == TRUE

PhaseDone(phase, triggered) == Cardinality(triggered) = Cardinality(Phases[phase])

street_trigger(t) ==
    /\ streetClears = 0 /\ street # NotStarted
    /\ t \in Phases[street.phase]
    /\ LET triggered == street.triggered \union {t}
           last == street.phase = Len(Phases)
       IN IF PhaseDone(street.phase, triggered)
          THEN /\ street' = IF last THEN [street EXCEPT !.triggered = triggered]
                            ELSE [phase |-> street.phase + 1, triggered |-> {}]
               /\ streetClears' = IF last THEN 1 ELSE 0
          ELSE /\ street' = [street EXCEPT !.triggered = triggered]
               /\ UNCHANGED streetClears
    /\ fired' = fired \union {<<street.phase, t>>}
    /\ Refresh
    /\ UNCHANGED <<presentState, storyState, townTime>>

(* Presents: closeness is computed from all points ever given; thresholds  *)
(* are used up one after the other, the last one over and over.            *)
Threshold(n) == SumFunction([i \in 1..n |-> Closeness[i].cost])
Climbed(total) == Max({n \in 0..Len(Closeness) : Threshold(n) <= total})

ClosenessOf(total) ==
    LET n == Climbed(total)
        closeness == IF n = 0 THEN 1 ELSE Closeness[n].closeness
    IN  IF closeness = Last(Closeness).closeness
        THEN closeness + (total - Threshold(n)) \div Last(Closeness).cost
        ELSE closeness

\* Mutant: the reward of the level that is reached, and not those on the way.
RowReached(i, received, closeness) == Closeness[i].closeness = closeness /\ received < closeness

RowDue(i, received, closeness) ==
    received < Closeness[i].closeness /\ Closeness[i].closeness <= closeness

present_execute(gifts) ==
    LET total == present.total + SumFunction([g \in gifts |-> GiftPoints[g]])
        closeness == ClosenessOf(total)
    IN
    /\ gifts # {} /\ gifts \subseteq tools
    /\ tools' = tools \ gifts
    /\ present' = [total |-> total, closeness |-> closeness,
                   received |-> Max({closeness, present.received})]
    /\ rowsPaid' = [i \in DOMAIN Closeness |->
          rowsPaid[i] + IF RowDue(i, present.received, closeness) THEN 1 ELSE 0]
    /\ Refresh
    /\ UNCHANGED <<streetState, storyState, townTime>>

(* Stories: a request may say how the story was played, if another story   *)
(* asks for it, and must where the story branches.                         *)
Asked(s) == {StoryKeys[o][s] : o \in {o \in Stories : s \in DOMAIN StoryKeys[o]}} \ {0}

Opened(s) ==
    \A k \in DOMAIN StoryKeys[s] :
        /\ stories[k].clears > 0
        /\ StoryKeys[s][k] # 0 => StoryKeys[s][k] \in stories[k].conditions

character_story_clear(s, condition) ==
    /\ Opened(s)
    /\ condition \in Asked(s) \union {0}
    /\ s \in Branching /\ Asked(s) # {} => condition # 0
    /\ stories[s].clears < MaxPlays
    /\ stories' = [stories EXCEPT ![s].clears = @ + 1,
                                  ![s].conditions = @ \union ({condition} \ {0})]
    /\ storiesPaid' = [storiesPaid EXCEPT ![s] = @ + IF stories[s].clears = 0 THEN 1 ELSE 0]
    /\ Refresh
    /\ UNCHANGED <<streetState, presentState, townTime>>

TownTick ==
    /\ townTime < MaxTownTime
    /\ townTime' = townTime + 1
    /\ UNCHANGED <<streetState, presentState, dishState, storyState>>

TownNext ==
    \/ dish_order \/ street_start \/ TownTick
    \/ \E t \in Triggers : street_trigger(t)
    \/ \E gifts \in SUBSET Tools : present_execute(gifts)
    \/ \E s \in Stories : \E condition \in Asked(s) \union {0} :
          character_story_clear(s, condition)

TownSpec == TownInit /\ [][TownNext]_townVars

----------------------------------------------------------------------------
TownTypeOK ==
    /\ street # NotStarted => /\ street.phase \in DOMAIN Phases
                              /\ street.triggered \subseteq Phases[street.phase]
    /\ streetClears \in 0..1
    /\ tools \subseteq Tools /\ present.total \in Nat
    /\ dishes.count \in 0..DishCap /\ dishes.idleness \in 0..MaxIdleness
    /\ dishes.updated \in 0..townTime

(* Every dish ordered, ready or lost was served once: requests between two *)
(* serving times, or across several, count none of them twice and forget   *)
(* none (refresh_dishes, which every home request calls).                  *)
DishesAddUp ==
    servings.ordered + servings.lost + dishes.count = FirstDishes + Served(0, dishes.updated)

(* Rewards for closeness depend on the points given alone: however gifts   *)
(* are put together, every row up to the closeness of their sum is paid    *)
(* once, those on the way included (present_execute).                      *)
ClosenessPaidOnce ==
    \A i \in DOMAIN Closeness :
        rowsPaid[i] = IF present.total > 0 /\ Closeness[i].closeness <= ClosenessOf(present.total)
                      THEN 1 ELSE 0

(* A street is finished when every trigger of every phase was used, with   *)
(* repetitions in between (street).                                        *)
StreetWalkedThrough ==
    streetClears = 1 => \A i \in DOMAIN Phases : \A t \in Phases[i] : <<i, t>> \in fired

(* Dishes, presents and streets give what was earned, once.                *)
TownPays == DishesAddUp /\ ClosenessPaidOnce /\ StreetWalkedThrough
=============================================================================
