----------------------------- MODULE Exploration -----------------------------
(***************************************************************************)
(* Explorations: quests made of steps (gathering, battle, talk) that an    *)
(* account walks through over many requests, with a battle of its own for  *)
(* every battle step.                                                      *)
(*                                                                         *)
(* A run lives in the home state, the battle in active_battles, the party  *)
(* and the progress shown to the client in the resources.  A transaction   *)
(* writes all three, but no transaction sees more than one step of a run:  *)
(* what is modelled here is how they stay together over the whole walk.    *)
(***************************************************************************)
EXTENDS Integers, FiniteSets, Sequences, SequencesExt

CONSTANTS
    Quests,         \* quests of quest_type 3, by id
    IsStory,        \* per quest: episode_type = 1
    Areas,          \* per quest: the options of each of its areas, in order
    Predecessor,    \* per quest: predecessor_id, 0 when it has none
    MaxClearCount,  \* per quest: max_clear_count, 0 when it has none
    EndAt,          \* per quest: end_at
    Stamina,        \* per quest: the stamina a clear costs
    Skippable,      \* quests of skippable_type 2 or 3
    OtherQuests,    \* ids of quests and trials that are not explorations
    PartyNumbers,
    Parties,        \* what a party can consist of
    MaxHp, ToolUses,
    MaxRepeat,      \* max_exploration_repeat_count
    InitialStamina, \* bound: stamina recovers in Energy, not here
    MaxTime         \* bound: clock

Gather == 0
Battle == 1
Talk == 2

Option == [kind: {Gather, Battle, Talk}, points: Nat, battle_id: Nat]
\* The gathering points of all areas.
Points == UNION {0..(o.points - 1) : o \in UNION UNION {Range(Areas[q]) : q \in Quests}}

Party == [members: Seq(Nat), tools: Nat]

ASSUME ExplorationAssumption ==
    /\ Quests \subseteq Nat \ {0} /\ IsFiniteSet(Quests)
    /\ OtherQuests \intersect Quests = {}
    /\ IsStory \in [Quests -> BOOLEAN]
    /\ \A q \in Quests : /\ Areas[q] \in Seq(SUBSET Option)
                         /\ Areas[q] # <<>>
                         /\ {} \notin Range(Areas[q])
    /\ Predecessor \in [Quests -> Nat]
    /\ MaxClearCount \in [Quests -> Nat]
    /\ EndAt \in [Quests -> Nat]
    /\ Stamina \in [Quests -> Nat]
    /\ Skippable \subseteq Quests
    /\ \A p \in Parties : p \in Party /\ p.members # <<>> /\ IsInjective(p.members)
    /\ {MaxHp, ToolUses, MaxRepeat} \subseteq Nat \ {0}
    /\ {InitialStamina, MaxTime} \subseteq Nat

VARIABLES
    runs,      \* home state: the exploration run of each quest that has one
    battle,    \* the active_battles row
    shown,     \* resources: exploration_progresses, by is_story
    clears,    \* resources: quest_states
    party,     \* resources: parties and party_members
    stamina,
    now,
    paid       \* history: per quest, attempts paid for

explorationVars == <<runs, battle, shown, clears, party, stamina, now, paid>>

NoRun == [quest |-> 0]
NoBattle == [quest |-> 0]
Running == {q \in Quests : runs[q] # NoRun}

Run == [quest: Quests, number: PartyNumbers, steps: Seq(Option), next: Nat,
        gathered: SUBSET Nat, exp: Nat, fought: BOOLEAN, hps: Seq(0..MaxHp),
        tools: Seq(0..ToolUses), members: Seq(Nat), pending: BOOLEAN]

BattleRow == [quest: Quests \union OtherQuests, battle_id: Nat,
              members: Seq(Nat), hps: Seq(0..MaxHp), tools: Seq(0..ToolUses),
              status: {"fighting", "won", "lost"}]

\* An exploration_progresses record.
Progress == [quest: Quests, number: PartyNumbers, steps: Seq(Option), next: Nat,
             gathered: SUBSET Nat, exp: Nat, fought: BOOLEAN,
             hps: Seq(0..MaxHp), tools: Seq(0..ToolUses)]

ExplorationTypeOK ==
    /\ runs \in [Quests -> {NoRun} \union Run]
    /\ \A q \in Running : runs[q].quest = q
    /\ battle \in {NoBattle} \union BattleRow
    /\ shown \in [BOOLEAN -> {NoRun} \union Progress]
    /\ clears \in [Quests -> Nat]
    /\ party \in [PartyNumbers -> Parties]
    /\ stamina \in 0..InitialStamina
    /\ now \in 0..MaxTime
    /\ paid \in [Quests -> Nat]

ExplorationInit ==
    /\ runs = [q \in Quests |-> NoRun]
    /\ battle = NoBattle
    /\ shown = [story \in BOOLEAN |-> NoRun]
    /\ clears = [q \in Quests |-> 0]
    /\ party \in [PartyNumbers -> Parties]
    /\ stamina = InitialStamina
    /\ now = 0
    /\ paid = [q \in Quests |-> 0]

-----------------------------------------------------------------------------
(* Quests *)

InPeriod(q) == now < EndAt[q]

validate_quest(q, cleared) ==
    /\ InPeriod(q)
    /\ Predecessor[q] \in Quests => cleared[Predecessor[q]] > 0
    /\ MaxClearCount[q] > 0 => cleared[q] < MaxClearCount[q]

\* n attempts at q.
Times(q, n) == [r \in Quests |-> IF r = q THEN n ELSE 0]

Cost(attempts) == SumFunction([q \in Quests |-> attempts[q] * Stamina[q]])

\* Mutant of Attempts: stamina is not checked.
AttemptsUnchecked(attempts) ==
    /\ stamina' = stamina - Cost(attempts)
    /\ paid' = [q \in Quests |-> paid[q] + attempts[q]]

\* Mutant of Attempts: what is attempted several times is paid for once.
PaidOnce(attempts) ==
    LET once == [q \in Quests |-> IF attempts[q] > 0 THEN 1 ELSE 0] IN
    /\ stamina >= Cost(once)
    /\ stamina' = stamina - Cost(once)
    /\ paid' = [q \in Quests |-> paid[q] + once[q]]

\* charge_quest, once for every attempt of a request.
Attempts(attempts) ==
    /\ stamina >= Cost(attempts)
    /\ stamina' = stamina - Cost(attempts)
    /\ paid' = [q \in Quests |-> paid[q] + attempts[q]]

-----------------------------------------------------------------------------
(* Runs *)

\* What exploration_progresses tells the client of a run: all but the pending
\* battle and who the members were.
Shown(r) == [quest |-> r.quest, number |-> r.number, steps |-> r.steps,
             next |-> r.next, gathered |-> r.gathered, exp |-> r.exp,
             fought |-> r.fought, hps |-> r.hps, tools |-> r.tools]

progress(r) == shown' = [shown EXCEPT ![IsStory[r.quest]] = Shown(r)]
remove_progress(q) == shown' = [shown EXCEPT ![IsStory[q]] = NoRun]

\* The step a run is at; steps before next are done.
AtEnd(r) == r.next = Len(r.steps)
Step(r) == r.steps[r.next + 1]

\* The number of steps done when the talks that come next are passed over.
skip_talks(steps, next) ==
    CHOOSE n \in next..Len(steps) :
        /\ \A i \in (next + 1)..n : steps[i].kind = Talk
        /\ n < Len(steps) => steps[n + 1].kind # Talk

Advance(r) == [r EXCEPT !.next = skip_talks(r.steps, r.next + 1), !.gathered = {}]

\* The steps of a run: one option of every area.
exploration_steps(q) ==
    {steps \in [1..Len(Areas[q]) -> UNION Range(Areas[q])] :
        \A i \in DOMAIN steps : steps[i] \in Areas[q][i]}

\* A party at its full health, as update_party and start take it over.
FullHealth(p) == [i \in 1..Len(p.members) |-> MaxHp]
FullTools(p) == [i \in 1..p.tools |-> ToolUses]

-----------------------------------------------------------------------------
(* Home requests: refused while a battle is active *)

Outside == battle = NoBattle

\* Mutant of StartAllowed: only a run of the same quest is in the way.
StartBesideAnother(q) == q \notin Running

StartAllowed(q) == \A other \in Running : IsStory[other] # IsStory[q]

\* /exploration/start
exploration_start(q, number) ==
    LET p == party[number] IN
    /\ Outside
    /\ validate_quest(q, clears)
    /\ StartAllowed(q)
    /\ Attempts(Times(q, 1))
    /\ \E steps \in exploration_steps(q) :
        LET r == [quest |-> q, number |-> number, steps |-> steps,
                  next |-> skip_talks(steps, 0), gathered |-> {}, exp |-> 0,
                  fought |-> FALSE, hps |-> FullHealth(p),
                  tools |-> FullTools(p), members |-> p.members,
                  pending |-> FALSE]
        IN  /\ runs' = [runs EXCEPT ![q] = r]
            /\ progress(r)
    /\ UNCHANGED <<battle, clears, party, now>>

\* /exploration/explore
exploration_explore(q, point) ==
    /\ Outside
    /\ validate_quest(q, clears)
    /\ q \in Running
    /\ LET r == runs[q]
           all == r.gathered \union {point}
           gathered == [r EXCEPT !.gathered = all]
           explored == IF Cardinality(all) = Step(r).points
                       THEN Advance(r) ELSE gathered
       IN  /\ ~r.pending
           /\ ~AtEnd(r)
           /\ Step(r).kind = Gather
           /\ point < Step(r).points
           /\ point \notin r.gathered
           /\ runs' = [runs EXCEPT ![q] = explored]
           /\ progress(explored)
    /\ UNCHANGED <<battle, clears, party, stamina, now, paid>>

\* /exploration/finish
exploration_finish(q) ==
    /\ Outside
    /\ validate_quest(q, clears)
    /\ q \in Running
    /\ ~runs[q].pending
    /\ AtEnd(runs[q])
    /\ clears' = [clears EXCEPT ![q] = @ + 1]
    /\ runs' = [runs EXCEPT ![q] = NoRun]
    /\ remove_progress(q)
    /\ UNCHANGED <<battle, party, stamina, now, paid>>

\* /exploration/retire names a class, not a quest, and asks for no validity.
exploration_retire(story) ==
    /\ Outside
    /\ \E q \in Running :
        /\ IsStory[q] = story
        /\ \A other \in Running : IsStory[other] = story => q <= other
        /\ ~runs[q].pending
        /\ runs' = [runs EXCEPT ![q] = NoRun]
        /\ remove_progress(q)
    /\ UNCHANGED <<battle, clears, party, stamina, now, paid>>

\* /exploration/update_party
exploration_update_party(q, number) ==
    LET p == party[number]
        r == [runs[q] EXCEPT !.number = number, !.members = p.members,
                             !.hps = FullHealth(p), !.tools = FullTools(p)]
    IN
    /\ Outside
    /\ validate_quest(q, clears)
    /\ q \in Running
    /\ ~runs[q].pending
    /\ ~runs[q].fought
    /\ runs' = [runs EXCEPT ![q] = r]
    /\ progress(r)
    /\ UNCHANGED <<battle, clears, party, stamina, now, paid>>

\* Mutant of SkipAllowed: a run of the same quest may be under way.
SkipDuringRun(q) == q \in Skippable /\ clears[q] > 0

SkipAllowed(q) == q \in Skippable /\ clears[q] > 0 /\ q \notin Running

\* /exploration/skip: every repetition is validated and paid for.
exploration_skip(q, n) ==
    /\ Outside
    /\ SkipAllowed(q)
    /\ \A i \in 0..(n - 1) : validate_quest(q, [clears EXCEPT ![q] = @ + i])
    /\ Attempts(Times(q, n))
    /\ clears' = [clears EXCEPT ![q] = @ + n]
    /\ UNCHANGED <<runs, battle, shown, party, now>>

StoryQuests == {q \in Quests : IsStory[q]}
last_main_story_quest_id == Max({0} \union {q \in StoryQuests : clears[q] > 0})

\* Mutant of StorySkipAllowed: explorations under way are no obstacle.
StorySkipDuringRun ==
    \A q \in StoryQuests : q <= last_main_story_quest_id => clears[q] > 0

\* No run is under way and the story has no gap behind its last cleared quest.
StorySkipAllowed ==
    /\ Running = {}
    /\ \A q \in StoryQuests : q <= last_main_story_quest_id => clears[q] > 0

\* The story skips clear the story from the first uncleared quest to end, the
\* last of a prologue, an episode or a season, each quest validated after the
\* ones before it were cleared.  The story is ordered by id here.
story_skip(end) ==
    LET skipped == {q \in StoryQuests : last_main_story_quest_id < q /\ q <= end}
        attempts == [q \in Quests |-> IF q \in skipped THEN 1 ELSE 0]
    IN
    /\ Outside
    /\ StorySkipAllowed
    /\ skipped # {}
    /\ \A q \in skipped :
        validate_quest(q, [r \in Quests |->
                              clears[r] + (IF r < q THEN attempts[r] ELSE 0)])
    /\ Attempts(attempts)
    /\ clears' = [q \in Quests |-> clears[q] + attempts[q]]
    /\ UNCHANGED <<runs, battle, shown, party, now>>

\* /party/bulk_update and /party/battle_tools_set look at no exploration.
reduce_party(number, p) ==
    /\ Outside
    /\ party' = [party EXCEPT ![number] = p]
    /\ UNCHANGED <<runs, battle, shown, clears, stamina, now, paid>>

-----------------------------------------------------------------------------
(* Battles *)

\* The battle a party starts with the health hps, position by position, and
\* the tool uses left.
build_battle_start(q, id, p, hps, tools) ==
    [quest |-> q, battle_id |-> id, members |-> p.members,
     hps |-> SubSeq(hps, 1, Len(p.members)), tools |-> tools,
     status |-> "fighting"]

\* A party fits the health and tool uses a run remembers, and one of its
\* members can act.
PartyFits(p, r) ==
    /\ p.tools = Len(r.tools)
    /\ Len(p.members) <= Len(r.hps)
    /\ \E i \in DOMAIN p.members : r.hps[i] > 0

\* The battle of the step a run is at, fought by the party its number names
\* at this moment.
battle_start(q) ==
    LET r == runs[q]
        p == party[r.number]
        started == [r EXCEPT !.pending = TRUE]
    IN
    /\ ~r.pending
    /\ ~AtEnd(r)
    /\ Step(r).kind = Battle
    /\ validate_quest(q, clears)
    /\ PartyFits(p, r)
    /\ battle' = build_battle_start(q, Step(r).battle_id, p, r.hps, r.tools)
    /\ runs' = [runs EXCEPT ![q] = started]
    /\ progress(started)

\* /exploration/battle_start
exploration_battle_start(q) ==
    /\ Outside
    /\ q \in Running
    /\ battle_start(q)
    /\ UNCHANGED <<clears, party, stamina, now, paid>>

\* Any other battle: ordinary, rental, raid, total or trial.
other_battle_start(q, number) ==
    LET p == party[number] IN
    /\ Outside
    /\ battle' = build_battle_start(q, 0, p, FullHealth(p), FullTools(p))
    /\ UNCHANGED <<runs, shown, clears, party, stamina, now, paid>>

\* What an attack may leave: a side that has nobody left has lost.
battle_attack(hps, tools, status) ==
    /\ battle # NoBattle
    /\ battle.status = "fighting"
    /\ status = "lost" <=> \A i \in DOMAIN hps : hps[i] = 0
    /\ \A i \in DOMAIN tools : tools[i] <= battle.tools[i]
    /\ battle' = [battle EXCEPT !.hps = hps, !.tools = tools, !.status = status]
    /\ UNCHANGED <<runs, shown, clears, party, stamina, now, paid>>

\* Mutant of Won: the run is not moved on.
WonInPlace(r) == [r EXCEPT !.hps = battle.hps, !.tools = battle.tools,
                           !.exp = @ + 1, !.fought = TRUE, !.pending = FALSE]

\* A run after its battle was won; total_turn starts at 1, so it has fought.
Won(r) == [Advance(r) EXCEPT !.hps = battle.hps, !.tools = battle.tools,
                             !.exp = @ + 1, !.fought = TRUE, !.pending = FALSE]

\* /battle/finish for a quest of quest_type 3.
exploration_battle_finish(q) ==
    /\ battle # NoBattle
    /\ battle.quest = q
    /\ q \in Running
    /\ runs[q].pending
    /\ Step(runs[q]).battle_id = battle.battle_id
    /\ battle.status = "won"
    /\ runs' = [runs EXCEPT ![q] = Won(runs[q])]
    /\ progress(Won(runs[q]))
    /\ battle' = NoBattle
    /\ UNCHANGED <<clears, party, stamina, now, paid>>

\* /battle/finish for any other battle.
other_battle_finish ==
    /\ battle # NoBattle
    /\ battle.quest \notin Quests
    /\ battle.status # "fighting"
    /\ battle' = NoBattle
    /\ UNCHANGED <<runs, shown, clears, party, stamina, now, paid>>

\* Mutant of retire_battle: the run of the battle stays pending.
RetireKeepsPending(q) == runs' = runs

retire_battle(q) ==
    runs' = [r \in Quests |-> IF r = q /\ r \in Running
                              THEN [runs[r] EXCEPT !.pending = FALSE]
                              ELSE runs[r]]

\* /battle/retire
battle_retire ==
    /\ battle # NoBattle
    /\ retire_battle(battle.quest)
    /\ battle' = NoBattle
    /\ UNCHANGED <<shown, clears, party, stamina, now, paid>>

Tick ==
    /\ now < MaxTime
    /\ now' = now + 1
    /\ UNCHANGED <<runs, battle, shown, clears, party, stamina, paid>>

-----------------------------------------------------------------------------
ExplorationNext ==
    \/ \E q \in Quests :
        \/ \E number \in PartyNumbers : exploration_start(q, number)
        \/ \E point \in Points : exploration_explore(q, point)
        \/ exploration_finish(q)
        \/ \E number \in PartyNumbers : exploration_update_party(q, number)
        \/ \E n \in 1..MaxRepeat : exploration_skip(q, n)
        \/ q \in StoryQuests /\ story_skip(q)
        \/ exploration_battle_start(q)
        \/ exploration_battle_finish(q)
    \/ \E story \in BOOLEAN : exploration_retire(story)
    \/ \E number \in PartyNumbers, p \in Parties : reduce_party(number, p)
    \/ \E q \in OtherQuests, number \in PartyNumbers : other_battle_start(q, number)
    \/ /\ battle # NoBattle
       /\ \E hps \in [1..Len(battle.hps) -> 0..MaxHp],
             tools \in [1..Len(battle.tools) -> 0..ToolUses],
             status \in {"fighting", "won", "lost"} :
            battle_attack(hps, tools, status)
    \/ other_battle_finish
    \/ battle_retire
    \/ Tick

ExplorationSpec == ExplorationInit /\ [][ExplorationNext]_explorationVars

-----------------------------------------------------------------------------
(* Properties *)

\* A run waits for a battle exactly when that battle is the account's active
\* one and the battle of the step the run is at, so a won battle can always be
\* finished and no run waits for a battle that is gone.
PendingIsTheBattle ==
    \A q \in Running :
        /\ runs[q].pending <=> battle # NoBattle /\ battle.quest = q
        /\ runs[q].pending =>
            /\ ~AtEnd(runs[q])
            /\ Step(runs[q]).kind = Battle
            /\ Step(runs[q]).battle_id = battle.battle_id
            /\ Len(battle.hps) = Len(battle.members)

\* There is one run at most of each class, and the progress stored in the
\* resources for that class is that run's, or empty.
ProgressShowsTheRun ==
    \A story \in BOOLEAN :
        LET class == {q \in Running : IsStory[q] = story} IN
        \/ class = {} /\ shown[story] = NoRun
        \/ \E q \in class : class = {q} /\ shown[story] = Shown(runs[q])

\* The experience and cole a run has collected are those of the battle steps
\* behind it, each once: not lost, not won twice, not passed over.
EveryFightPaysOnce ==
    \A q \in Running :
        runs[q].exp = Cardinality({i \in 1..runs[q].next :
                                      runs[q].steps[i].kind = Battle})

\* Every clear, and every run under way, was paid for by an attempt of its
\* own, whether it was walked, skipped or passed by a story skip.
ClearsArePaid ==
    \A q \in Quests :
        clears[q] + Cardinality({q} \intersect Running) <= paid[q]

\* Nothing the account does elsewhere uses up the clear a paid run is for:
\* within the quest's period a run can always be finished.
RunStaysFinishable ==
    \A q \in Running : InPeriod(q) => validate_quest(q, clears)

(* A run, the battle of its step and the progress the client sees are of   *)
(* the same walk.                                                          *)
RunIsShown == PendingIsTheBattle /\ ProgressShowsTheRun

(* A run that was paid for can be finished, and fights and clears are paid *)
(* exactly once.                                                           *)
RunIsPaid == EveryFightPaysOnce /\ ClearsArePaid /\ RunStaysFinishable
=============================================================================
