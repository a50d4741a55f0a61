------------------------------- MODULE Combat -------------------------------
(***************************************************************************)
(* A battle: members of two sides, waves of enemies and the timeline that  *)
(* orders their turns.                                                     *)
(*                                                                         *)
(* An attack request carries one command of the ally whose turn it is and  *)
(* then runs the scheduler: enemies act, waves change and turns are lost   *)
(* until an ally can act again or the battle is over.  The request is one  *)
(* transaction; its steps are actions of their own here, and an error in   *)
(* any of them takes the battle back to what was saved.                    *)
(*                                                                         *)
(* Damage, healing and effects are numeric code: what they do to the turn  *)
(* order (who dies, breaks, is delayed, changes speed, loses a turn) is    *)
(* chosen freely.  Panels, burst gauges and the action log are left out.   *)
(***************************************************************************)
EXTENDS Integers, FiniteSets, Sequences, FiniteSetsExt, SequencesExt

CONSTANTS
    Allies,         \* member ids of the party
    Waves,          \* per wave: the member ids of its enemies, reused by the next
    Bosses,         \* per wave: the enemies with a third turn on the timeline
    Speeds,         \* per member: the values effects give current_status.speed
    WaitScale,      \* 57600: a speed's wait is WaitScale \div speed
    SkillWaits,     \* skill.wait, the adjustment of a skill
    BreakDelay,     \* display_skill_wait_offset
    Slots,          \* timeline slots of delay effects, 0 for none
    Tools,          \* battle tool numbers
    ToolTarget,     \* per tool: "single", "all" or "heal"
    ToolUses,       \* usage_count
    MaxGauge,       \* max_party_gauge, in units of one skill
    Provokers,      \* members whose skills provoke
    ToolsPerTurn,   \* turn_max_battle_tool_count
    HpSpeedRules,   \* whether an effect rule on speed depends on health
    LostTurns,      \* what prepare_turn may find: disabled, killed or neither
    MaxActions,     \* the scheduler's limit of generated actions, 10 000
    MaxWait         \* bound: no delay effect beyond this wait

Enemies == UNION {Waves[i] : i \in DOMAIN Waves}
Members == Allies \union Enemies
Units == Members \X (1..3)

ASSUME CombatAssumption ==
    /\ Allies # {}
    /\ Members \subseteq Nat \ {0} /\ IsFiniteSet(Members)
    /\ Allies \intersect Enemies = {}
    /\ Waves \in Seq(SUBSET Members) /\ Waves # <<>>
    /\ \A i \in DOMAIN Waves : Waves[i] # {} /\ Bosses[i] \subseteq Waves[i]
    /\ \A m \in Members : Speeds[m] # {} /\ Speeds[m] \subseteq Nat \ {0}
    /\ {WaitScale, BreakDelay, MaxActions} \subseteq Nat \ {0}
    /\ {ToolUses, MaxGauge, ToolsPerTurn, MaxWait} \subseteq Nat
    /\ SkillWaits \subseteq Int
    /\ Provokers \subseteq Members
    /\ Slots \subseteq Nat
    /\ \A t \in Tools : ToolTarget[t] \in {"single", "all", "heal"}
    /\ HpSpeedRules \in BOOLEAN
    /\ "no" \in LostTurns /\ LostTurns \subseteq {"no", "disabled", "killed"}

VARIABLES
    b,        \* the battle: state blob and the effect runtime's pending actor
    saved,    \* what the row holds: b when the request started
    phase,    \* where the request is
    queue,    \* tools of the command still to be used, with their targets
    actions,  \* generated_actions of the request
    refused   \* why the request ended in an error

combatVars == <<b, saved, phase, queue, actions, refused>>

\* What ends a request in an error: a tool has no target left, an effect makes
\* the actor lose the first place, a delay effect moves its target nowhere, the
\* scheduler does not come to an end.
Reasons == {"no", "target", "turn", "delay", "endless"}

\* The timeline is a function on the units that are placed.
BattleTypeOK(s) ==
    /\ s.wave \in DOMAIN Waves
    /\ s.alive \subseteq Allies \union Waves[s.wave]
    /\ \A m \in Members : s.speed[m] \in Speeds[m]
    /\ s.broken \subseteq s.alive \intersect Enemies
    /\ s.pending \in Members \union {0}
    /\ s.forced \in Provokers \union {0}
    /\ s.gauge \in 0..MaxGauge
    /\ s.uses \in [Tools -> 0..ToolUses]
    /\ \A u \in DOMAIN s.wait : u \in Units /\ s.wait[u] \in Nat

\* Every field of the battle and of the request keeps its type.
CombatTypeOK ==
    /\ \A s \in {b, saved} : BattleTypeOK(s)
    /\ phase \in {"command", "tools", "schedule", "refused"}
    /\ \A i \in DOMAIN queue : queue[i] \in Tools \X Members
    /\ actions \in 0..(MaxActions + ToolsPerTurn)
    /\ refused \in Reasons
    /\ (phase = "refused") <=> (refused # "no")

-----------------------------------------------------------------------------
(* The order of turns *)

AtLeast(n, x) == IF x >= n THEN x ELSE n

base_wait(speed) == WaitScale \div speed
action_wait(speed, adjustment) == AtLeast(0, base_wait(speed) + adjustment)

\* sort_timeline_units: wait, then speed, then number, then id.
Earlier(s, u, v) ==
    \/ s.wait[u] < s.wait[v]
    \/ /\ s.wait[u] = s.wait[v]
       /\ \/ s.speed[u[1]] > s.speed[v[1]]
          \/ /\ s.speed[u[1]] = s.speed[v[1]]
             /\ u[2] < v[2] \/ (u[2] = v[2] /\ u[1] < v[1])

Placed(s) == DOMAIN s.wait
Of(s, m) == {u \in Placed(s) : u[1] = m}

\* The index of a unit among others, from 0.
Index(s, u, among) == Cardinality({v \in among : Earlier(s, v, u)})

FirstUnit(s, among) == CHOOSE u \in among : \A v \in among \ {u} : Earlier(s, u, v)
LastUnit(s, among) == CHOOSE u \in among : \A v \in among \ {u} : Earlier(s, v, u)

earliest_living_member(s, side) ==
    FirstUnit(s, {u \in Placed(s) : u[1] \in s.alive \intersect side})[1]

current_actor(s) == earliest_living_member(s, Members)

\* current_battle_status
Lost(s) == s.alive \intersect Allies = {}
Won(s) == ~Lost(s) /\ s.alive \intersect Enemies = {}
InBattle(s) == ~Lost(s) /\ ~Won(s)

\* Mutant of initial_wait: an enemy may come first.
EnemiesMayOpen(m, wait, first) == AtLeast(0, wait - first)

\* Speed orders the opening turns, with an ally acting first.
initial_wait(m, wait, first) ==
    AtLeast(IF m \in Enemies THEN 1 ELSE 0, wait - first)

\* The timeline of a wave: two turns of each member, three of a boss.
initial_timeline(alive, speed, wave) ==
    LET first == Min({base_wait(speed[m]) : m \in alive \intersect Allies})
        slots(m) == IF m \in Bosses[wave] THEN 3 ELSE 2
        wait(m) == AtLeast(1, base_wait(speed[m]))
    IN  [u \in {v \in alive \X (1..3) : v[2] <= slots(v[1])} |->
            initial_wait(u[1], wait(u[1]), first) + wait(u[1]) * (u[2] - 1)]

-----------------------------------------------------------------------------
(* Moves on the timeline *)

\* Mutant of PlacedWait: a skill may cost no time at all.
FreeTurns(wait) == wait

\* Every placement is at least one tick after what it follows.
PlacedWait(wait) == AtLeast(1, wait)

\* The turn is the actor's when its earliest unit is the first of all.
TurnIs(s, m) ==
    /\ FirstUnit(s, Placed(s))[1] = m
    /\ Cardinality(Of(s, m)) \in 2..3

\* The actor's first unit goes behind its others: an ally's last unit is set by
\* the skill and the first follows the nearest one, an enemy's later turns stay
\* and the first follows the furthest one.  Then the first wait is zero again.
consume_timeline_turn(s, m, selected, default) ==
    LET head == FirstUnit(s, Of(s, m))
        current == s.wait[head]
        mine == Of(s, m) \ {head}
        shifted == [u \in Placed(s) |-> s.wait[u] - current]
        chosen == IF m \in Enemies THEN shifted
                  ELSE [shifted EXCEPT ![LastUnit(s, Of(s, m))] = PlacedWait(selected)]
        next == IF m \in Enemies
                THEN Max({chosen[u] : u \in mine}) + PlacedWait(selected)
                ELSE Min({chosen[u] : u \in mine}) + PlacedWait(default)
        moved == [chosen EXCEPT ![head] = next]
        zero == Min({moved[u] : u \in Placed(s)})
    IN  [s EXCEPT !.wait = [u \in Placed(s) |-> moved[u] - zero]]

delay_timeline_members(s, ids, ticks) ==
    [s EXCEPT !.wait = [u \in Placed(s) |->
                            s.wait[u] + (IF u[1] \in ids THEN ticks ELSE 0)]]

\* How far delay_timeline_member_by_slots moves the units of m: its first unit
\* goes midway between the two units of others that will then surround it.
\* The attack fails when that is no later than where the unit is.
SlotDelay(s, m, slots) ==
    LET others == Placed(s) \ Of(s, m)
        first == FirstUnit(s, Of(s, m))
        from == Index(s, first, Placed(s)) + slots
        at == IF from <= Cardinality(others) THEN from ELSE Cardinality(others)
        other(i) == s.wait[CHOOSE u \in others : Index(s, u, others) = i]
        lower == other(at - 1)
    IN  (IF at = Cardinality(others) THEN lower + 1
         ELSE lower + (other(at) - lower) \div 2) - s.wait[first]

\* Mutant of remove_timeline_members: the turns of the dead stay.
TurnsStay(s, ids) == s

remove_timeline_members(s, ids) ==
    [s EXCEPT !.wait = [u \in {v \in Placed(s) : v[1] \notin ids} |-> s.wait[u]]]

-----------------------------------------------------------------------------
(* One action of a member *)

Refused(s) == [s EXCEPT !.wave = 0]
Fails(s) == s.wave = 0

delay_timeline_member_by_slots(s, m, slots) ==
    IF Fails(s) \/ SlotDelay(s, m, slots) <= 0 THEN Refused(s)
    ELSE delay_timeline_members(s, {m}, SlotDelay(s, m, slots))

\* Delay effects move the targets that were hit and live, one after another in
\* the order of their ids.
apply_timeline_effects(s, targets, slots) ==
    LET moved[n \in 0..Max(Members)] ==
            IF n = 0 THEN s
            ELSE IF n \in targets
                 THEN delay_timeline_member_by_slots(moved[n - 1], n, slots)
                 ELSE moved[n - 1]
    IN  IF slots = 0 THEN s ELSE moved[Max(Members)]

\* What an attack may do: the targets it does not miss, the ones of them that
\* die, and the enemies that live and break.  Tools do no break damage.
Outcomes(s, targets, tool) ==
    {o \in [hit: SUBSET targets, killed: SUBSET targets,
            broken: SUBSET (targets \intersect Enemies), slots: Slots] :
        /\ o.killed \subseteq o.hit
        /\ o.broken \subseteq o.hit \ (o.killed \union s.broken)
        /\ tool => o.broken = {} /\ o.hit = targets}

\* apply_attack_results, up to the actor's own turn.
Struck(s, o) ==
    LET hurt == [s EXCEPT !.alive = @ \ o.killed,
                          !.broken = (@ \union o.broken) \ o.killed]
        late == delay_timeline_members(hurt, o.broken, BreakDelay)
    IN  remove_timeline_members(
            apply_timeline_effects(late, o.hit \ o.killed, o.slots), o.killed)

\* A refresh of the effect runtime gives at most one member another speed.
Refreshed(s) ==
    {s} \union UNION {{[s EXCEPT !.speed[m] = v] : v \in Speeds[m]} : m \in s.alive}

\* A delay effect that leads beyond MaxWait is not explored.
WithinBound(s, slots) == slots = 0 \/ Max({s.wait[u] : u \in Placed(s)}) <= MaxWait

\* A turn that is used up is no longer prepared: expire, finish_turn.
expire(s, m) == IF s.pending = m THEN [s EXCEPT !.pending = 0, !.forced = 0] ELSE s

\* The turn of m, with the wait its skill or base_wait gives it.
UsedUp(s, m, adjustment) ==
    expire(consume_timeline_turn(s, m, action_wait(s.speed[m], adjustment),
                                 base_wait(s.speed[m])), m)

\* Mutant of party_gauge: it is not capped.
UncappedGauge(gauge, gain) == gauge + gain

party_gauge(gauge, gain) == Min({MaxGauge, gauge + gain})

Refuse(reason) ==
    /\ phase' = "refused"
    /\ refused' = reason
    /\ UNCHANGED <<b, saved, queue, actions>>

\* A skill of m on targets: effects before it, its results, effects after it.
\* gain is what it adds to the party gauge.
use_skill(s, m, targets, gain) ==
    \E before \in Refreshed(s), adjustment \in SkillWaits :
        \E o \in Outcomes(before, targets, FALSE) :
            LET t == Struck(before, o)
                full == party_gauge(t.gauge, gain)
            IN  /\ WithinBound(t, o.slots)
                /\ \/ Fails(t) /\ Refuse("delay")
                   \/ ~Fails(t) /\ ~TurnIs(t, m) /\ Refuse("turn")
                   \/ /\ ~Fails(t) /\ TurnIs(t, m)
                      /\ \E after \in Refreshed(UsedUp(t, m, adjustment)) :
                            b' = [after EXCEPT !.gauge = full]
                      /\ phase' = "schedule"
                      /\ actions' = actions + 1
                      /\ UNCHANGED <<saved, queue, refused>>

-----------------------------------------------------------------------------
(* Commands *)

AtRest == phase = "command" /\ InBattle(b)

Singles(s, side) == {{t} : t \in s.alive \intersect side}

\* mode 0: the ally whose turn it is supports its side, attacks one enemy (the
\* provoking one if it is provoked) or attacks them all.
skill_command ==
    /\ AtRest
    /\ LET m == current_actor(b)
           forced == IF b.pending = m THEN b.forced ELSE 0
           single == {T \in Singles(b, Enemies) : forced = 0 \/ T = {forced}}
       IN  /\ m \in Allies
           /\ \E targets \in single \union {{}, b.alive \intersect Enemies} :
                use_skill(b, m, targets, 1)

\* mode 1: tools are used for a full party gauge.  The target of every tool is
\* settled here, before the first is used: an injured ally or the first enemy.
battle_tool_command ==
    /\ AtRest
    /\ current_actor(b) \in Allies
    /\ b.gauge >= MaxGauge
    /\ \E numbers \in {n \in SeqOf(Tools, ToolsPerTurn) : n # <<>> /\ IsInjective(n)},
          injured \in b.alive \intersect Allies :
          /\ \A i \in DOMAIN numbers : b.uses[numbers[i]] > 0
          /\ queue' = [i \in DOMAIN numbers |->
                <<numbers[i], IF ToolTarget[numbers[i]] = "heal" THEN injured
                              ELSE earliest_living_member(b, Enemies)>>]
    /\ b' = [b EXCEPT !.gauge = 0]
    /\ phase' = "tools"
    /\ UNCHANGED <<saved, actions, refused>>

\* select_target_ids of a tool: nobody when its target is gone.
ToolTargets(s, tool, target) ==
    IF ToolTarget[tool] = "all" THEN s.alive \intersect Enemies
    ELSE s.alive \intersect {target}

\* The next tool of the command; a tool takes no turn on the timeline.
use_tool ==
    /\ phase = "tools"
    /\ LET tool == Head(queue)[1]
           targets == ToolTargets(b, tool, Head(queue)[2])
           paid == [b EXCEPT !.uses[tool] = @ - 1]
       IN  \/ targets = {} /\ Refuse("target")
           \/ /\ targets # {}
              /\ \E before \in Refreshed(paid) :
                 \E o \in Outcomes(before, targets \intersect Enemies, TRUE) :
                    LET t == Struck(before, o)
                    IN  /\ WithinBound(t, o.slots)
                        /\ \/ Fails(t) /\ Refuse("delay")
                           \/ /\ ~Fails(t)
                              /\ b' \in Refreshed(t)
                              /\ queue' = Tail(queue)
                              /\ phase' = IF queue' = <<>> THEN "schedule" ELSE "tools"
                              /\ actions' = actions + 1
                              /\ UNCHANGED <<saved, refused>>

\* mode 6: the tutorial fills the party gauge; nothing else happens.
max_party_gauge_command ==
    /\ AtRest
    /\ current_actor(b) \in Allies
    /\ b' = [b EXCEPT !.gauge = MaxGauge]
    /\ saved' = b'
    /\ UNCHANGED <<phase, queue, actions, refused>>

-----------------------------------------------------------------------------
(* The scheduler *)

\* The request ends and its battle is what the row holds.
Commit(s) ==
    /\ b' = s
    /\ saved' = s
    /\ phase' = "command"
    /\ actions' = 0
    /\ UNCHANGED <<queue, refused>>

\* A lost turn is a generated action too.
TurnPasses(s) ==
    /\ b' = s
    /\ actions' = actions + 1
    /\ UNCHANGED <<saved, phase, queue, refused>>

battle_over ==
    /\ phase = "schedule"
    /\ Lost(b) \/ (Won(b) /\ b.wave = Len(Waves))
    /\ Commit(b)

\* append_wave_members, and capture of the effect runtime: nothing that was
\* said of an enemy id holds for the enemy that has it now.
next_wave ==
    /\ phase = "schedule"
    /\ Won(b) /\ b.wave < Len(Waves)
    /\ \E speed \in [Waves[b.wave + 1] -> UNION {Speeds[m] : m \in Enemies}] :
          LET wave == b.wave + 1
              alive == (b.alive \intersect Allies) \union Waves[wave]
              speeds == [m \in Members |-> IF m \in Waves[wave] THEN speed[m]
                                                                ELSE b.speed[m]]
          IN  /\ \A m \in Waves[wave] : speed[m] \in Speeds[m]
              /\ \E s \in Refreshed([b EXCEPT !.wave = wave, !.alive = alive,
                                             !.speed = speeds, !.broken = {},
                                             !.pending = 0, !.forced = 0,
                                             !.wait = initial_timeline(alive, speeds, wave)]) :
                    b' = s
    /\ UNCHANGED <<saved, phase, queue, actions, refused>>

\* A turn begins, unless too many have.
TurnBegins == phase = "schedule" /\ InBattle(b) /\ actions < MaxActions

scheduler_exceeded ==
    /\ phase = "schedule" /\ InBattle(b) /\ actions >= MaxActions
    /\ Refuse("endless")

\* The turn is that of m, which recovers from a break.
Recovered(s, m) == [s EXCEPT !.broken = @ \ {m}]

\* prepare_turn may find the turn lost unless it was prepared before.
Unprepared(m) == b.pending # m

\* Poison or burn kills the member whose turn begins.
turn_kills ==
    /\ TurnBegins
    /\ LET m == current_actor(b)
           s == Recovered(b, m)
       IN  /\ Unprepared(m) /\ "killed" \in LostTurns
           /\ \E t \in Refreshed(remove_timeline_members(
                           [s EXCEPT !.alive = @ \ {m}, !.pending = 0, !.forced = 0], {m})) :
                TurnPasses(t)

\* Paralysis costs the member its turn.
turn_disabled ==
    /\ TurnBegins
    /\ LET m == current_actor(b)
           s == [Recovered(b, m) EXCEPT !.pending = m, !.forced = 0]
       IN  /\ Unprepared(m) /\ "disabled" \in LostTurns
           /\ TurnIs(s, m)
           /\ \E t \in Refreshed(UsedUp(s, m, 0)) : TurnPasses(t)

\* An ally can act: the request ends with what it may choose from.  If its turn
\* was prepared in an earlier request, so was whom it must attack.  The effects
\* are refreshed after health changed at the turn's start.
ally_ready ==
    /\ TurnBegins
    /\ LET m == current_actor(b)
       IN  /\ m \in Allies
           /\ \/ ~Unprepared(m) /\ Commit(b)
              \/ /\ Unprepared(m)
                 /\ \E t \in (Provokers \intersect b.alive \intersect Enemies) \union {0},
                       s \in IF HpSpeedRules THEN Refreshed(b) ELSE {b} :
                        Commit([s EXCEPT !.pending = m, !.forced = t])

\* An enemy acts: on nobody, the first ally or the one that provokes it, or all.
enemy_acts ==
    /\ TurnBegins
    /\ LET m == current_actor(b)
           s == [Recovered(b, m) EXCEPT !.pending = m, !.forced = 0]
           single == {earliest_living_member(s, Allies)}
                        \union (s.alive \intersect Allies \intersect Provokers)
       IN  /\ m \in Enemies
           /\ \E targets \in {{t} : t \in single} \union {{}, s.alive \intersect Allies} :
                use_skill(s, m, targets, 0)

\* An error rolls the transaction back.
rollback ==
    /\ phase = "refused"
    /\ b' = saved
    /\ queue' = <<>>
    /\ phase' = "command"
    /\ actions' = 0
    /\ refused' = "no"
    /\ UNCHANGED saved

\* A finished battle takes no command.
finished ==
    /\ phase = "command" /\ ~InBattle(b)
    /\ UNCHANGED combatVars

-----------------------------------------------------------------------------
\* build_battle_start: the members of a run may come in dead, but not all, and
\* the party gauge starts at 500 or at what the run has left.
Init ==
    /\ \E speed \in [Members -> UNION {Speeds[m] : m \in Members}],
          living \in (SUBSET Allies) \ {{}}, gauge \in 0..MaxGauge :
          LET alive == living \union Waves[1]
          IN  /\ \A m \in Members : speed[m] \in Speeds[m]
              /\ b = [wave |-> 1, alive |-> alive, speed |-> speed,
                      wait |-> initial_timeline(alive, speed, 1), broken |-> {},
                      pending |-> 0, forced |-> 0, gauge |-> gauge,
                      uses |-> [t \in Tools |-> ToolUses]]
    /\ saved = b
    /\ phase = "command"
    /\ queue = <<>>
    /\ actions = 0
    /\ refused = "no"

Next ==
    \/ skill_command \/ battle_tool_command \/ use_tool \/ max_party_gauge_command
    \/ battle_over \/ next_wave \/ scheduler_exceeded
    \/ turn_kills \/ turn_disabled \/ ally_ready \/ enemy_acts
    \/ rollback \/ finished

Spec == Init /\ [][Next]_combatVars

-----------------------------------------------------------------------------
(* Properties *)

\* The timeline holds the turns of the living members and of nobody else, two
\* or three of each: consume_timeline_turn, delay_timeline_member and the
\* removal of the dead all fail otherwise, and a battle that is saved with a
\* member missing can never be continued.
TimelineMatchesMembers ==
    phase # "refused" /\ b.alive # {} =>
        /\ {u[1] : u \in Placed(b)} = b.alive
        /\ \A m \in b.alive : Cardinality(Of(b, m)) \in 2..3

\* A request leaves the battle to an ally: every command is refused when the
\* current actor is an enemy, so a battle saved on an enemy's turn is stuck.
CommandsAreAnswerable == AtRest => current_actor(b) \in Allies

\* The scheduler returns to the player: every action moves its member behind a
\* later time, so enemies do not act forever and the limit of generated actions
\* is not what ends the loop.
SchedulerReturns == refused # "endless"
=============================================================================
