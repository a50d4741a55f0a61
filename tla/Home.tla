-------------------------------- MODULE Home --------------------------------
(***************************************************************************)
(* The home transaction: missions and the counters behind them, rewards    *)
(* that are claimed step by step, login bonuses and their mails, recipes,  *)
(* skipped quests.                                                         *)
(*                                                                         *)
(* Progress is made by one request and paid by a later one, often on       *)
(* another day.  In between missions are reset, chained missions open,     *)
(* counters are read again from the resources, and the same progress may   *)
(* reach a mission by several ways.  The history says independently what   *)
(* happened on which day and what was paid.                                *)
(*                                                                         *)
(* Time is counted in server days.  Rewards are not looked into: what      *)
(* matters is which one was given, and when.                               *)
(***************************************************************************)
EXTENDS Integers, FiniteSets, Sequences, SequencesExt, Bags

CONSTANTS
    MissionOf,      \* missions by id, in the order of the rules
    TaskOf,         \* total_tasks by condition id: counters and maximum
    CountSteps,     \* mission_count_rewards: category -> [cycle, steps]
    TabSteps,       \* mission_event_tabs: tab -> [until, steps]
    Guides,         \* guide_steps
    BattleSteps,    \* mission_battle_rewards: quest -> [missions, steps]
    MultiItem,      \* the item a multi mission counts
    MultiSteps,     \* multi_mission_steps: counts, in order
    DropsOf,        \* quest -> [items -> quantity]
    MaxClears,      \* max_clear_count of a quest, 0: no limit
    BattleEvents,   \* what a won battle may report: breaks, bursts, ...
    Memorias,
    BonusOf,        \* login_bonuses: [days, cyclic, limit]
    MailDays,       \* days until a mail expires, 90
    RecipeOf,       \* recipes: the tasks and counts each one needs
    RecipeCounts,   \* recipe_count_rewards of the plan, in order
    RecipeTask,     \* the task that counts recipes, 134
    MaxDailyClear, AdditionCosts, InitialGems,
    SkipCounts,     \* how many clears a client skips at once
    InitialClears,  \* clears of the days before
    InitialTasks,   \* counters an account may have been stored with
    MaxIds,         \* bound: ids a client sends at once
    FirstDay, MaxDay,   \* bound: days
    MaxRequests         \* bound: requests

Missions == DOMAIN MissionOf
Tasks == DOMAIN TaskOf
Categories == DOMAIN CountSteps
Tabs == DOMAIN TabSteps
Quests == DOMAIN DropsOf
Items == UNION {DOMAIN DropsOf[q] : q \in Quests}
Bonuses == DOMAIN BonusOf
Recipes == DOMAIN RecipeOf
Days == (FirstDay - 1)..MaxDay
None == 0

\* Events are pairs of a kind and a number, "quest_clear:17".
Sources == ({"quest_clear"} \X Quests) \union ({"item_received"} \X Items)
Collection == <<"memoria_collection", 0>>
Events == Sources \union ({"quest_attempt"} \X Quests) \union ({"battle_win"} \X BattleEvents)
            \union {<<"login", 0>>, Collection}

\* The collection is a number that is reached; all other events come one by one.
ASSUME MissionsAssumption ==
    /\ IsFiniteSet(Missions) /\ Missions \subseteq Nat \ {0}
    /\ \A m \in Missions :
          /\ MissionOf[m].counters \subseteq Events
          /\ IF Collection \in MissionOf[m].counters
             THEN MissionOf[m].maximum /\ MissionOf[m].counters = {Collection}
             ELSE ~MissionOf[m].maximum
          /\ MissionOf[m].steps \in Seq(Nat \ {0}) /\ MissionOf[m].steps # <<>>
          /\ MissionOf[m].task \in Tasks \union {None}
          /\ MissionOf[m].tab \in Tabs \union {None}
          /\ MissionOf[m].until \in Nat /\ MissionOf[m].nav \in BOOLEAN

ASSUME CountersAssumption ==
    /\ IsFiniteSet(Tasks) /\ Tasks \subseteq Nat \ {0}
    /\ \A t \in Tasks : TaskOf[t].counters \subseteq Events
    /\ IsFiniteSet(Quests) /\ Quests \subseteq Nat \ {0}
    /\ \A q \in Quests : DropsOf[q] \in [DOMAIN DropsOf[q] -> Nat]
    /\ IsFiniteSet(Items) /\ Items \subseteq Nat
    /\ IsFiniteSet(BattleEvents) /\ BattleEvents \subseteq Nat
    /\ IsFiniteSet(Memorias)
    /\ IsFiniteSet(Recipes) /\ RecipeTask \in Tasks
    /\ InitialClears \in [Quests -> Nat] /\ InitialTasks \subseteq [Tasks -> Nat]

ASSUME RewardsAssumption ==
    /\ \A c \in Categories : CountSteps[c].steps \in Seq(Nat)
    /\ None \notin Tabs
    /\ \A t \in Tabs : TabSteps[t].steps \in Seq(Nat) /\ TabSteps[t].until \in Nat
    /\ \A q \in DOMAIN BattleSteps : BattleSteps[q].steps \in Seq(Nat)
    /\ MultiSteps \in Seq(Nat) /\ RecipeCounts \in Seq(Nat)
    /\ IsFiniteSet(Bonuses) /\ Bonuses \subseteq Nat

ASSUME HomeAssumption ==
    /\ FirstDay \in Nat \ {0} /\ MaxDay \in Nat /\ FirstDay <= MaxDay /\ MaxRequests \in Nat
    /\ SkipCounts \subseteq Nat /\ MailDays \in Nat /\ MaxDailyClear \in Nat
    /\ AdditionCosts \in Seq(Nat) /\ InitialGems \in Nat

VARIABLES
    acct,      \* resources and home state of the account
    day,
    requests,
    happened,  \* history: how often each event happened, day by day
    paid       \* history: the rewards given, each with its cycle

homeVars == <<acct, day, requests, happened, paid>>

NoProgress == [txid |-> None, events |-> {}]

DropsFor(clears, i) ==
    LET sources == {q \in Quests : i \in DOMAIN DropsOf[q]}
    IN  SumFunctionOnSet([q \in sources |-> clears[q] * DropsOf[q][i]], sources)

\* What happened before, on the day before the first one.
Before == [e \in Events |-> [d \in Days |->
            IF d >= FirstDay THEN 0
            ELSE CASE e[1] = "quest_clear" -> InitialClears[e[2]]
                   [] e[1] = "item_received" -> DropsFor(InitialClears, e[2])
                   [] OTHER -> 0]]

HomeInit ==
    /\ \E tasks \in InitialTasks :
       acct = [initialized |-> -1,
               missions |-> <<>>, tasks |-> tasks, touched |-> {},
               counts |-> <<>>, tabs |-> [t \in Tabs |-> 0], guides |-> {},
               battle_steps |-> [q \in DOMAIN BattleSteps |-> 0],
               multi |-> [count |-> 0, received |-> 0],
               clears |-> InitialClears, items |-> [i \in Items |-> DropsFor(InitialClears, i)],
               active |-> [quest |-> None, txid |-> None, events |-> {}],
               battle_progress |-> NoProgress,
               memorias |-> {}, memoria_history |-> {},
               login_day |-> -1, bonuses |-> [b \in Bonuses |-> [day |-> 0, last |-> -1]],
               mails |-> {}, next_mail_id |-> 0,
               recipes |-> {}, recipe_counts |-> {},
               episode |-> [day |-> -1, clears |-> 0, additions |-> 0],
               gems |-> InitialGems]
    /\ day = FirstDay
    /\ requests = 0
    /\ happened = [events |-> Before, memorias |-> {},
                   skips |-> [d \in Days |-> 0], additions |-> [d \in Days |-> 0]]
    /\ paid = EmptyBag

-----------------------------------------------------------------------------
(* Cycles and mission records *)

in_period(until) == until = None \/ day < until

\* Day 4 begins a week: (day + 3) rem 7 = 0.
reset_at(cycle, d) ==
    CASE cycle = 1 -> d + 1
      [] cycle = 2 -> d + 7 - ((d + 3) % 7)
      [] OTHER -> None

mission_active(m) ==
    /\ in_period(MissionOf[m].until)
    /\ MissionOf[m].tab # None => in_period(TabSteps[MissionOf[m].tab].until)

Fresh == [count |-> 0, received |-> 0, reset |-> None]

Existing(a, m) == IF m \in DOMAIN a.missions THEN a.missions[m] ELSE Fresh

\* The record of a mission, reset when its cycle is over.
mission_state(m, old) ==
    LET reset == reset_at(MissionOf[m].cycle, day) IN
    IF reset # None /\ old.reset # reset
    THEN [count |-> 0, received |-> 0, reset |-> reset] ELSE old

mission_count(a, m) ==
    IF MissionOf[m].task # None THEN a.tasks[MissionOf[m].task] ELSE Existing(a, m).count

received(a, m) == Existing(a, m).received

\* Steps received of the active ones of some missions.
ReceivedOf(a, ms) ==
    LET counted == {m \in ms : mission_active(m)}
    IN  SumFunctionOnSet([m \in counted |-> received(a, m)], counted)

completed_mission_count(a, ms) ==
    Cardinality({m \in ms : mission_count(a, m) >= Last(MissionOf[m].steps)})

-----------------------------------------------------------------------------
(* Counters *)

update_task(a, t, count) == [a EXCEPT !.tasks[t] = count, !.touched = @ \union {t}]

advance(rule, current, delta) ==
    IF rule.maximum THEN Max({current, delta}) ELSE current + delta

Total(a, source) ==
    IF source[1] = "quest_clear" THEN a.clears[source[2]] ELSE a.items[source[2]]

StateBacked(t) == TaskOf[t].counters # {} /\ TaskOf[t].counters \subseteq Sources

state_counter_total(a, t) ==
    SumFunctionOnSet([s \in TaskOf[t].counters |-> Total(a, s)], TaskOf[t].counters)

\* A counter of the resources is set to their total, once, instead of counting.
TaskTicked(a, t, delta) ==
    IF StateBacked(t) /\ (t \in a.touched \/ state_counter_total(a, t) > a.tasks[t])
    THEN Max({a.tasks[t], state_counter_total(a, t)})
    ELSE advance(TaskOf[t], a.tasks[t], delta)

MissionTicked(a, m, delta) ==
    LET state == mission_state(m, Existing(a, m))
        count == Min({advance(MissionOf[m], state.count, delta), Last(MissionOf[m].steps)})
    IN  IF MissionOf[m].task = None THEN [state EXCEPT !.count = count] ELSE state

\* The counters that listen to an event, and some missions that do.
Ticked(a, event, delta, ms) ==
    LET risen == {t \in Tasks : /\ event \in TaskOf[t].counters
                                /\ TaskTicked(a, t, delta) > a.tasks[t]}
    IN  [a EXCEPT
            !.tasks = [t \in Tasks |-> IF t \in risen THEN TaskTicked(a, t, delta) ELSE @[t]],
            !.touched = @ \union risen,
            !.missions = [m \in DOMAIN @ \union ms |->
                IF m \in ms THEN MissionTicked(a, m, delta) ELSE @[m]]]

Listening(event) == {m \in Missions : event \in MissionOf[m].counters /\ mission_active(m)}

\* Mutant of advance_mission_event: a mission that is out of its cycle waits for
\* the next refresh.
AdvanceOnlyCurrent(a, event, delta) ==
    Ticked(a, event, delta,
           {m \in Listening(event) : Existing(a, m) = mission_state(m, Existing(a, m))})

advance_mission_event(a, event, delta) == Ticked(a, event, delta, Listening(event))

\* Mutant of Reconciled: only upwards.
ReconciledUp(a) ==
    LET behind == {t \in Tasks : StateBacked(t) /\ a.tasks[t] < state_counter_total(a, t)} IN
    [a EXCEPT !.tasks = [t \in Tasks |-> IF t \in behind THEN state_counter_total(a, t) ELSE @[t]],
              !.touched = @ \union behind]

\* Counters of the resources follow them in both directions.
Reconciled(a) ==
    LET wrong == {t \in Tasks : StateBacked(t) /\ a.tasks[t] # state_counter_total(a, t)} IN
    [a EXCEPT !.tasks = [t \in Tasks |-> IF t \in wrong THEN state_counter_total(a, t) ELSE @[t]],
              !.touched = @ \union wrong]

FreshCount(c) == [received |-> 0, reset |-> reset_at(CountSteps[c].cycle, day)]

\* Every active mission has a record of this cycle, and so have the counts of
\* the categories that have a cycle.
advance_missions(a) ==
    LET b == Reconciled(a)
        active == {m \in Missions : mission_active(m)}
        outdated == {c \in Categories :
                        /\ reset_at(CountSteps[c].cycle, day) # None
                        /\ c \notin DOMAIN b.counts
                            \/ b.counts[c].reset # reset_at(CountSteps[c].cycle, day)}
    IN  [b EXCEPT
            !.missions = [m \in DOMAIN @ \union active |->
                IF m \in active THEN mission_state(m, Existing(b, m)) ELSE b.missions[m]],
            !.counts = [c \in DOMAIN @ \union outdated |->
                IF c \in outdated THEN FreshCount(c) ELSE b.counts[c]]]

advance_multi_mission_item(a, kind, n, delta) ==
    IF <<kind, n>> # <<"item_received", MultiItem>> THEN a
    ELSE advance_missions([a EXCEPT !.multi.count = @ + delta])

\* Events of one kind, in the order of their numbers.
Advanced(a, kind, n, delta) ==
    advance_multi_mission_item(advance_mission_event(a, <<kind, n>>, delta), kind, n, delta)

AdvanceEach(a, kind, deltas) ==
    MapThenFoldSet(LAMBDA n, b : Advanced(b, kind, n, deltas[n]), a,
                   LAMBDA n : n, LAMBDA ns : Max(ns), DOMAIN deltas)

\* What has become more.
Gained(before, after) ==
    [n \in {k \in DOMAIN after : after[k] > before[k]} |-> after[n] - before[n]]

\* What the request changed in the resources is counted at its end.
resource_progress(before, a) ==
    advance_missions(AdvanceEach(AdvanceEach(a, "item_received", Gained(before.items, a.items)),
                                 "quest_clear", Gained(before.clears, a.clears)))

-----------------------------------------------------------------------------
(* Requests *)

\* What an operation makes of an account: whether it is accepted, the account
\* and the rewards given.
Given(a, bag) == [ok |-> TRUE, acct |-> a, paid |-> bag]
Refused(r) == [r EXCEPT !.ok = FALSE]
Pay(r, rewards) == [r EXCEPT !.paid = @ (+) SetToBag(rewards)]

\* A reward that is given once in a cycle, and the steps from one to another.
Reward(kind, id, step, cycle) == <<kind, id, step, reset_at(cycle, day)>>
Steps(kind, id, from, to, cycle) == {Reward(kind, id, i, cycle) : i \in (from + 1)..to}

\* What the history says of events of one kind.
Happen(h, kind, amounts) ==
    LET more(e) == [h.events[e] EXCEPT ![day] = @ + amounts[e[2]]]
    IN  [h EXCEPT !.events = [e \in Events |->
            IF e[1] = kind /\ e[2] \in DOMAIN amounts THEN more(e) ELSE @[e]]]

Request(a, h, bag) ==
    /\ requests < MaxRequests
    /\ requests' = requests + 1
    /\ acct' = [a EXCEPT !.touched = {}]
    /\ happened' = h
    /\ paid' = bag
    /\ day' = day

\* Mutant of Collected: what is owned now, not what was ever owned.
CollectedNow(a) ==
    advance_mission_event([a EXCEPT !.memoria_history = a.memorias],
                          Collection, Cardinality(a.memorias))

Collected(a) ==
    LET history == a.memoria_history \union a.memorias IN
    advance_mission_event([a EXCEPT !.memoria_history = history],
                          Collection, Cardinality(history))

\* What every home request does before its own operation; claims also advance
\* the missions.
Started == [acct EXCEPT !.initialized = IF @ = -1 THEN day ELSE @]
Entering(claims) ==
    LET a == Collected(Started) IN Given(IF claims THEN advance_missions(a) ELSE a, paid)

\* What every home request does with the result r of its operation.
reduce_home_inner(r, h) ==
    /\ requests < MaxRequests
    /\ r.ok
    /\ Request(resource_progress(Started, Collected(r.acct)),
               [h EXCEPT !.events[Collection][day] =
                            Cardinality(happened.memorias)], r.paid)

ensure_noncombat_mutation_allowed == acct.active.quest = None

HomeRequest(r, h) ==
    /\ ensure_noncombat_mutation_allowed
    /\ reduce_home_inner(r, h)

refresh_home == reduce_home_inner(Entering(FALSE), happened)

-----------------------------------------------------------------------------
(* Claims *)

\* Mutant of Reachable: only the first of several steps is looked at.
ReachableFirst(steps, index, count) ==
    {i \in index..Len(steps) : i > index => steps[index + 1] <= count}

\* Steps from index on whose count is reached, one after the other.
Reachable(steps, index, count) ==
    {i \in index..Len(steps) : \A j \in (index + 1)..i : steps[j] <= count}

Depth(m) ==
    LET prevs[n \in 0..Cardinality(Missions)] ==
            IF n = 0 THEN m
            ELSE IF prevs[n - 1] = None THEN None ELSE MissionOf[prevs[n - 1]].prev
    IN  Cardinality({n \in 0..Cardinality(Missions) : prevs[n] # None})

ClaimMission(r, m, bulk) ==
    LET rule == MissionOf[m]
        a == r.acct
        index == received(a, m)
        reached == Reachable(rule.steps, index, mission_count(a, m))
        to == IF bulk THEN Max(reached) ELSE index + 1
        open == /\ mission_active(m) /\ m \in DOMAIN a.missions
                /\ rule.prev # None =>
                        received(a, rule.prev) >= Len(MissionOf[rule.prev].steps)
    IN  IF ~open THEN Refused(r)
        ELSE IF index >= Len(rule.steps) THEN r
        ELSE IF to \notin reached THEN Refused(r)
        ELSE Pay([r EXCEPT !.acct.missions[m].received = to],
                 Steps("mission", m, index, to, rule.cycle))

CountGiven(a, c) == IF c \in DOMAIN a.counts THEN a.counts[c].received ELSE 0

CountEarned(a, c) ==
    Max(Reachable(CountSteps[c].steps, CountGiven(a, c),
                  ReceivedOf(a, {m \in Missions : MissionOf[m].category = c})))

RewardsOfCounts(a, cs) ==
    UNION {Steps("count", c, CountGiven(a, c), CountEarned(a, c), CountSteps[c].cycle) : c \in cs}

\* Mutant of claim_counts: the steps given are not written down.
ClaimCountsAgain(r, cs) == Pay(r, RewardsOfCounts(r.acct, cs))

\* Received steps of the missions of a category earn steps of its own.
claim_counts(r, cs) ==
    Pay([r EXCEPT !.acct.counts = [c \in DOMAIN @ \union cs |->
            IF c \in cs THEN [received |-> CountEarned(r.acct, c), reset |-> FreshCount(c).reset]
            ELSE @[c]]],
        RewardsOfCounts(r.acct, cs))

GuideMembers(g) == {m \in Missions : MissionOf[m].guide = g /\ mission_active(m)}

claim_guides(r) ==
    LET done == {g \in Guides \ r.acct.guides :
                    /\ GuideMembers(g) # {}
                    /\ \A m \in GuideMembers(g) : received(r.acct, m) = Len(MissionOf[m].steps)}
    IN  Pay([r EXCEPT !.acct.guides = @ \union done], {Reward("guide", g, 0, None) : g \in done})

\* The mission of a set that comes after the ones it needs.
Deepest(ms) == CHOOSE m \in ms : \A n \in ms : Depth(n) < Depth(m) \/ (Depth(n) = Depth(m) /\ n <= m)

\* A chain may be claimed in one request: missions come after the ones they need.
\* One that cannot be claimed undoes the request.
claim_missions(r, ids, bulk) ==
    LET s == MapThenFoldSet(LAMBDA m, t : IF t.ok THEN ClaimMission(t, m, bulk) ELSE t, r,
                            LAMBDA m : m, LAMBDA ms : Deepest(ms), ids)
        claimed == {m \in ids : received(s.acct, m) # received(r.acct, m)}
        categories == {MissionOf[m].category : m \in claimed} \intersect Categories
    IN  IF s.ok THEN claim_guides(claim_counts(s, categories)) ELSE s

mission_receive(ids, bulk) ==
    LET Apply(r) == claim_missions(r, ids, bulk) IN HomeRequest(Apply(Entering(TRUE)), happened)

count_reward_receive(c) ==
    LET Apply(r) == claim_counts(r, {c}) IN HomeRequest(Apply(Entering(TRUE)), happened)

event_tab_reward_receive(tab) ==
    /\ in_period(TabSteps[tab].until)
    /\ LET Apply(r) ==
            LET count == ReceivedOf(r.acct, {m \in Missions : MissionOf[m].tab = tab})
                old == r.acct.tabs[tab]
                to == Max(Reachable(TabSteps[tab].steps, old, count))
            IN  Pay([r EXCEPT !.acct.tabs[tab] = to], Steps("tab", tab, old, to, None))
       IN  HomeRequest(Apply(Entering(TRUE)), happened)

\* A step of a mission that every player works on: in order, when its count is there.
receive_multi_mission(step) ==
    /\ step = acct.multi.received + 1
    /\ MultiSteps[step] <= acct.multi.count
    /\ LET Apply(r) == Pay([r EXCEPT !.acct.multi.received = step], {Reward("multi", 1, step, None)})
       IN  HomeRequest(Apply(Entering(FALSE)), happened)
-----------------------------------------------------------------------------
(* Battles, skipped quests, and what happens elsewhere *)

validate_quest(q) == MaxClears[q] = None \/ acct.clears[q] < MaxClears[q]

battle_start(q) ==
    /\ acct.active.quest = None
    /\ validate_quest(q)
    /\ Request([advance_mission_event(acct, <<"quest_attempt", q>>, 1) EXCEPT
                    !.active = [quest |-> q, txid |-> requests + 1, events |-> {}]],
               Happen(happened, "quest_attempt", [p \in {q} |-> 1]), paid)

\* Progress of another battle is thrown away.
record_battle_progress(a, event) ==
    LET progress == IF a.battle_progress.txid = a.active.txid THEN a.battle_progress
                    ELSE [NoProgress EXCEPT !.txid = a.active.txid]
    IN  [progress EXCEPT !.events = @ \union {event}]

battle_attack(event) ==
    /\ acct.active.quest # None
    /\ Request([acct EXCEPT !.active.events = @ \union {event},
                            !.battle_progress = record_battle_progress(acct, event)],
               happened, paid)

finish_battle_progress(a) ==
    IF a.battle_progress.txid # a.active.txid THEN a
    ELSE AdvanceEach([a EXCEPT !.battle_progress = NoProgress],
                     "battle_win", [e \in a.battle_progress.events |-> 1])

grant_mission_battle_rewards(r, q) ==
    IF q \notin DOMAIN BattleSteps THEN r
    ELSE LET old == r.acct.battle_steps[q]
             completed == completed_mission_count(r.acct, BattleSteps[q].missions)
             to == Max(Reachable(BattleSteps[q].steps, old, completed))
         IN  Pay([r EXCEPT !.acct.battle_steps[q] = to], Steps("battle", q, old, to, None))

\* n more clears of a quest, and what they drop.
Cleared(a, q, n) ==
    [a EXCEPT !.clears[q] = @ + n,
              !.items = [i \in Items |->
                  @[i] + IF i \in DOMAIN DropsOf[q] THEN n * DropsOf[q][i] ELSE 0]]

\* The history of n clears of a quest and of what they drop.
Clears(h, q, n) ==
    Happen(Happen(h, "quest_clear", [p \in {q} |-> n]),
           "item_received", [i \in DOMAIN DropsOf[q] |-> n * DropsOf[q][i]])

battle_finish ==
    LET q == acct.active.quest
        won == finish_battle_progress(Cleared(acct, q, 1))
        r == grant_mission_battle_rewards(Given(won, paid), q)
    IN  /\ q # None
        /\ acct.active.events # {}
        /\ Request([resource_progress(acct, r.acct) EXCEPT
                        !.active = [quest |-> None, txid |-> None, events |-> {}]],
                   Happen(Clears(happened, q, 1), "battle_win", [e \in acct.active.events |-> 1]),
                   r.paid)

battle_retire ==
    /\ acct.active.quest # None
    /\ Request([acct EXCEPT !.active = [quest |-> None, txid |-> None, events |-> {}],
                            !.battle_progress = NoProgress],
               happened, paid)

\* Mutant of Episode: yesterday's additions stay.
EpisodeKeepsAdditions(a) ==
    IF a.episode.day = day THEN a.episode
    ELSE [day |-> day, clears |-> 0, additions |-> a.episode.additions]

Episode(a) ==
    IF a.episode.day = day THEN a.episode ELSE [day |-> day, clears |-> 0, additions |-> 0]

Skipped(a, n) == [Episode(a) EXCEPT !.clears = @ + n]
Added(a, n) == [Episode(a) EXCEPT !.additions = @ + n]

quest_skip(q, n) ==
    /\ acct.clears[q] > 0
    /\ MaxClears[q] = None \/ acct.clears[q] + n <= MaxClears[q]
    /\ Episode(acct).clears + n <= MaxDailyClear + Episode(acct).additions
    /\ LET Attempted(a) == [advance_mission_event(a, <<"quest_attempt", q>>, n) EXCEPT
                                !.episode = Skipped(a, n)]
           Apply(r) == [r EXCEPT !.acct = Cleared(Attempted(@), q, n)]
       IN  HomeRequest(Apply(Entering(FALSE)),
                [Happen(Clears(happened, q, n), "quest_attempt", [p \in {q} |-> n]) EXCEPT
                    !.skips[day] = @ + n])

AdditionPrice(from, n) ==
    SumFunctionOnSet(AdditionCosts, (from + 1)..(from + n))

\* Mutant of CanAdd: the price is not compared with the gems.
CanAddOnCredit(additions, n) == additions + n <= Len(AdditionCosts)

CanAdd(additions, n) ==
    additions + n <= Len(AdditionCosts) /\ acct.gems >= AdditionPrice(additions, n)

daily_clear_add(n) ==
    LET additions == Episode(acct).additions IN
    /\ CanAdd(additions, n)
    /\ LET Apply(r) == [r EXCEPT !.acct.gems = @ - AdditionPrice(additions, n),
                                 !.acct.episode = Added(r.acct, n)]
       IN  HomeRequest(Apply(Entering(FALSE)), [happened EXCEPT !.additions[day] = @ + n])

\* A memoria is won in a gacha, which does not look at the home state ...
gacha_memoria(k) ==
    /\ ensure_noncombat_mutation_allowed
    /\ Request(resource_progress(acct, [acct EXCEPT !.memorias = @ \union {k}]),
               [happened EXCEPT !.memorias = @ \union {k}], paid)

\* ... and sold or consumed by a home request.
memoria_sell(k) ==
    /\ k \in acct.memorias
    /\ LET Apply(r) == [r EXCEPT !.acct.memorias = @ \ {k}]
       IN  HomeRequest(Apply(Entering(FALSE)), happened)

navigation_task_proceed ==
    LET ids == {m \in Missions : MissionOf[m].nav /\ mission_active(m)}
        Apply(r) == [r EXCEPT !.acct.missions =
                        [m \in DOMAIN @ |-> IF m \in ids THEN [@[m] EXCEPT !.count = 1] ELSE @[m]]]
    IN  /\ ids # {} /\ ids \subseteq DOMAIN acct.missions
        /\ HomeRequest(Apply(Entering(FALSE)), happened)

-----------------------------------------------------------------------------
(* Login bonuses and mails *)

Mail == [id: Nat \ {0}, bonus: Bonuses, step: Nat \ {0}, end: Nat, opened: BOOLEAN]

\* Mutant of NextMailId: counted from the mails there are.
NextMailIdByCount(a, n) == Cardinality(a.mails) + n

\* The id of the n-th mail that is sent now.
NextMailId(a, n) == a.next_mail_id + n

\* A bonus that does not begin again ends with its last day.
BonusDue(a, b) ==
    /\ BonusOf[b].limit # None => day - a.initialized < BonusOf[b].limit
    /\ a.bonuses[b].last # day
    /\ BonusOf[b].cyclic \/ a.bonuses[b].day < BonusOf[b].days

\* The next day of every bonus that is due, each as a mail.
SendBonuses(r) ==
    LET due == {b \in Bonuses : BonusDue(r.acct, b)}
        next(b) == r.acct.bonuses[b].day + 1
        mail(b) == [id |-> NextMailId(r.acct, Cardinality({c \in due : c <= b})),
                    bonus |-> b, step |-> next(b), end |-> day + MailDays, opened |-> FALSE]
    IN  Pay([r EXCEPT
                !.acct.bonuses = [b \in Bonuses |->
                    IF b \in due THEN [day |-> next(b), last |-> day] ELSE @[b]],
                !.acct.next_mail_id = NextMailId(r.acct, Cardinality(due)),
                !.acct.mails = @ \union {mail(b) : b \in due}],
            {Reward("bonus", b, 0, 1) : b \in due})

login_bonus ==
    LET Today(a) == IF a.login_day = day THEN a
                    ELSE advance_mission_event([a EXCEPT !.login_day = day], <<"login", 0>>, 1)
        Apply(r) == SendBonuses([r EXCEPT !.acct = Today(@)])
    IN  HomeRequest(Apply(Entering(FALSE)),
            IF acct.login_day = day THEN happened ELSE Happen(happened, "login", [n \in {0} |-> 1]))

\* The mails a request names; one that is not there refuses it.
Named(ids) == {m \in acct.mails : m.id \in ids}

\* A mail that is open already stays open, one that is over cannot be opened.
mail_open(ids) ==
    LET closed == {m \in Named(ids) : ~m.opened}
        Apply(r) == Pay([r EXCEPT !.acct.mails =
                            (@ \ closed) \union {[m EXCEPT !.opened = TRUE] : m \in closed}],
                        {Reward("mail", m.bonus, m.step, None) : m \in closed})
    IN  /\ ids \subseteq {m.id : m \in acct.mails}
        /\ \A m \in closed : day < m.end
        /\ HomeRequest(Apply(Entering(FALSE)), happened)

mail_delete(ids) ==
    LET Apply(r) == [r EXCEPT !.acct.mails = @ \ Named(ids)]
    IN  /\ ids \subseteq {m.id : m \in acct.mails}
        /\ \A m \in Named(ids) : m.opened
        /\ HomeRequest(Apply(Entering(FALSE)), happened)

-----------------------------------------------------------------------------
(* Recipes *)

Learnable(a, x) ==
    /\ x \notin a.recipes
    /\ \A t \in DOMAIN RecipeOf[x] : a.tasks[t] >= RecipeOf[x][t]

\* The counters are read again from the resources first.
recipe_learn ==
    LET Learn(r) ==
            LET learned == {x \in Recipes : Learnable(r.acct, x)}
            IN  Pay([r EXCEPT !.acct.recipes = @ \union learned],
                    {Reward("recipe", x, 0, None) : x \in learned})
        Counted(r) == [r EXCEPT !.acct = update_task(@, RecipeTask, Cardinality(@.recipes))]
        Apply(r) == Counted(Learn([r EXCEPT !.acct = advance_missions(@)]))
    IN  HomeRequest(Apply(Entering(FALSE)), happened)

claim_recipe_counts(indices) ==
    LET Apply(r) == Pay([r EXCEPT !.acct.recipe_counts = @ \union indices],
                        {Reward("plan", 1, i, None) : i \in indices \ r.acct.recipe_counts})
    IN  /\ \A i \in indices : RecipeCounts[i] <= Cardinality(acct.recipes)
        /\ HomeRequest(Apply(Entering(FALSE)), happened)

-----------------------------------------------------------------------------
NextDay ==
    /\ day < MaxDay
    /\ day' = day + 1
    /\ UNCHANGED <<acct, requests, happened, paid>>

Some(S) == {ids \in SUBSET S : Cardinality(ids) \in 1..MaxIds}

HomeNext ==
    \/ refresh_home
    \/ \E ids \in Some(Missions), bulk \in BOOLEAN : mission_receive(ids, bulk)
    \/ \E c \in Categories : count_reward_receive(c)
    \/ \E tab \in Tabs : event_tab_reward_receive(tab)
    \/ \E step \in DOMAIN MultiSteps : receive_multi_mission(step)
    \/ \E q \in Quests : battle_start(q)
    \/ \E e \in BattleEvents : battle_attack(e)
    \/ battle_finish
    \/ battle_retire
    \/ \E q \in Quests, n \in SkipCounts : quest_skip(q, n)
    \/ \E n \in SkipCounts : daily_clear_add(n)
    \/ \E k \in Memorias : gacha_memoria(k)
    \/ \E k \in Memorias : memoria_sell(k)
    \/ navigation_task_proceed
    \/ login_bonus
    \/ \E ids \in Some(1..acct.next_mail_id) : mail_open(ids)
    \/ \E ids \in Some(1..acct.next_mail_id) : mail_delete(ids)
    \/ recipe_learn
    \/ \E indices \in Some(DOMAIN RecipeCounts) : claim_recipe_counts(indices)
    \/ NextDay

HomeSpec == HomeInit /\ [][HomeNext]_homeVars

-----------------------------------------------------------------------------
(* Properties *)

\* Types: nothing is overdrawn, no mission counts past its last step or pays
\* more steps than it has.
HomeTypeOK ==
    /\ DOMAIN acct.missions \subseteq Missions
    /\ \A m \in DOMAIN acct.missions :
          /\ acct.missions[m].count \in 0..Last(MissionOf[m].steps)
          /\ acct.missions[m].received \in 0..Len(MissionOf[m].steps)
    /\ acct.tasks \in [Tasks -> Nat] /\ acct.touched = {}
    /\ DOMAIN acct.counts \subseteq Categories
    /\ acct.mails \subseteq Mail
    /\ acct.recipes \subseteq Recipes /\ acct.guides \subseteq Guides
    /\ acct.gems \in Nat
    /\ day \in Days /\ requests \in 0..MaxRequests

\* No reward is given twice: no step of a mission, a category, a tab or a multi
\* mission within its cycle, no guide, no recipe, no day of a login bonus, no mail.
PaidOnce == \A key \in DOMAIN paid : paid[key] = 1

\* How much of what a mission counts happened in the cycle that ends at reset;
\* missions begin with the first day.
DoneIn(events, rule, reset) ==
    LET days == {d \in FirstDay..MaxDay : reset_at(rule.cycle, d) = reset}
        amounts == rule.counters \X days
    IN  IF rule.maximum THEN Max({0} \union {events[x[1]][x[2]] : x \in amounts})
        ELSE SumFunctionOnSet([x \in amounts |-> events[x[1]][x[2]]], amounts)

\* What a counter of the resources counts, on any day.
TaskDone(events, t) ==
    LET amounts == TaskOf[t].counters \X Days
    IN  SumFunctionOnSet([x \in amounts |-> events[x[1]][x[2]]], amounts)

\* Every step of a mission that was paid was earned by what happened in the cycle
\* it was paid in: not by yesterday's progress, by a battle that was given up,
\* nor by a counter an account was stored with.  Missions of the navigation are
\* done by asking for them, and other counters than those of quests and items have
\* nothing to be compared with.
PaidWasEarned ==
    \A key \in DOMAIN paid :
        key[1] = "mission" =>
            LET rule == MissionOf[key[2]] IN
            /\ (rule.task = None /\ ~rule.nav) =>
                    DoneIn(happened.events, rule, key[4]) >= rule.steps[key[3]]
            /\ (rule.task # None /\ StateBacked(rule.task)) =>
                    TaskDone(happened.events, rule.task) >= rule.steps[key[3]]

\* Nothing is lost either: what happened in this cycle is counted, whether the
\* mission was touched, reset or refreshed first.
ProgressIsComplete ==
    \A m \in Missions :
        LET rule == MissionOf[m] IN
        (mission_active(m) /\ rule.task = None /\ ~rule.nav) =>
            mission_state(m, Existing(acct, m)).count =
                Min({DoneIn(happened.events, rule, reset_at(rule.cycle, day)), Last(rule.steps)})

\* A counter of quests and items equals what the account has, however the request
\* reached it, once the account was refreshed.
TaskIsProjection ==
    acct.initialized # -1 =>
        \A t \in Tasks : StateBacked(t) => acct.tasks[t] = TaskDone(happened.events, t)

\* A memoria that is gone was written down before it went.
GoneIsRemembered == happened.memorias \ acct.memorias \subseteq acct.memoria_history

\* Clears skipped on a day stay within the daily limit and that day's additions.
SkipsWithinDay == \A d \in Days : happened.skips[d] <= MaxDailyClear + happened.additions[d]

\* Every mail can be named: ids are never used again, also after a deletion.
MailsAddressable ==
    \A m, n \in acct.mails : m.id = n.id => m = n

\* What is paid was earned, and is paid once.
PaymentsEarned == PaidOnce /\ PaidWasEarned

\* Progress in missions and in counters of what the account has is neither lost nor
\* invented by the order in which requests reach them.
ProgressKept == ProgressIsComplete /\ TaskIsProjection

\* What leaves the account, memoria or mail, leaves its trace: the memoria in the
\* history that missions read, the mail in an id that is not used again.
RemovalsRemembered == GoneIsRemembered /\ MailsAddressable
=============================================================================
