------------------------------- MODULE Modes -------------------------------
(***************************************************************************)
(* Special battles of one account: the panels of a total battle, a solo    *)
(* raid and a score battle.  A panel is won by a party whose characters    *)
(* are then reserved for it; full lines of panels pay rewards, and a panel *)
(* can be reset to be won again.  In a raid a character fights once until  *)
(* the raid is reset.  A score battle keeps the best rank, whose first     *)
(* rewards are claimed later.                                              *)
(*                                                                         *)
(* The fight itself is Combat's: here it is won, or the player retires.    *)
(* A request outside battle is refused while a battle is active (Dispatch).*)
(***************************************************************************)
EXTENDS Integers, FiniteSets, FiniteSetsExt

CONSTANTS
    Panels,         \* panel_index of every panel of the total battle
    Lines,          \* total_battle_line: the panels of each line
    Center,         \* the index of the panel in the middle
    LineRewards,    \* line_num of line_achieve_rewards
    Fighters,       \* the characters a party is made of
    RankScore,      \* score needed for each rank of a score battle
    Scores,         \* bound: scores a battle can end with
    RaidLimit,      \* max_daily_clear of the raid's episode
    MaxRaidDay,     \* bound: server days
    MaxWins         \* bound: battles finished

\* A total battle has lines and a score battle has ranks, from 1.
ASSUME ModesAssumption ==
    /\ Panels \subseteq Nat \ {0} /\ IsFiniteSet(Panels) /\ Center \in Panels
    /\ Lines \subseteq (SUBSET Panels) \ {{}} /\ Lines # {}
    /\ LineRewards \subseteq 1..Cardinality(Lines)
    /\ DOMAIN RankScore \subseteq Nat \ {0} /\ IsFiniteSet(DOMAIN RankScore)
    /\ DOMAIN RankScore # {} /\ \A r \in DOMAIN RankScore : RankScore[r] \in Int
    /\ Scores \subseteq Nat /\ RaidLimit \in Nat /\ MaxRaidDay \in Nat \ {0}

\* Quests: a panel's has the panel's number.
Score == -1
Raid == -2
Peace == [quest |-> 0, party |-> {}]
Fight == [quest: {Score, Raid} \union Panels, party: SUBSET Fighters]

VARIABLES
    specialBattle,      \* the active battle
    panelStates,     \* total_battle_panel_states: character_ids of each panel
    line,       \* total_battle_states: best_achieved_line_count and the count shown
    raid,       \* solo_raid_states: the day it was entered (0: not), used_character_ids
    daily,      \* episode_states of the raid: daily_clear_count and its day
    score,      \* quest_states of the score battle
    raidDay,    \* the current server day
    modesPaid,       \* history: what was paid, and how often
    events,     \* history: mission events for lines and the centre panel
    fought,     \* history: raid battles of each character since the entry
    wins        \* history: battles finished
modesVars == <<specialBattle, panelStates, line, raid, daily, score, raidDay,
               modesPaid, events, fought, wins>>

ModesInit ==
    /\ specialBattle = Peace
    /\ panelStates = [p \in Panels |-> {}]
    /\ line = [best |-> 0, shown |-> 0]
    /\ raid = [entered |-> 0, used |-> {}]
    /\ daily = [day |-> 0, count |-> 0]
    /\ score = [rank |-> 0, high |-> 0, received |-> 0]
    /\ raidDay = 1
    /\ modesPaid = [lines |-> [n \in LineRewards |-> 0], complete |-> 0,
               ranks |-> [r \in DOMAIN RankScore |-> 0]]
    /\ events = [lines |-> 0, center |-> 0]
    /\ fought = [c \in Fighters |-> 0]
    /\ wins = 0

-----------------------------------------------------------------------------
\* Starting a battle.

\* Mutant: characters are reserved when the raid battle is won.
UsedOnVictory(party) == raid.used

UsedBy(party) == raid.used \union party

\* /quest/battle/solo_raid_battle_start
solo_raid_battle_start(party) ==
    /\ specialBattle = Peace /\ party # {}
    /\ party \intersect raid.used = {}
    /\ raid' = [entered |-> IF raid.entered = 0 THEN raidDay ELSE raid.entered,
                used |-> UsedBy(party)]
    /\ specialBattle' = [quest |-> Raid, party |-> party]
    /\ fought' = [c \in Fighters |-> IF c \in party THEN fought[c] + 1 ELSE fought[c]]
    /\ UNCHANGED <<panelStates, line, daily, score, raidDay, modesPaid, events, wins>>

\* /quest/battle/total_battle_start: the panel is open and nobody of the party
\* holds another.  Its character_ids are written on victory.
total_battle_start(p, party) ==
    /\ specialBattle = Peace /\ party # {}
    /\ panelStates[p] = {}
    /\ \A q \in Panels : panelStates[q] \intersect party = {}
    /\ specialBattle' = [quest |-> p, party |-> party]
    /\ UNCHANGED <<panelStates, line, raid, daily, score, raidDay, modesPaid,
                   events, fought, wins>>

\* /quest/battle/start takes any quest with a battle_id: a score battle, and
\* the quest of a panel, whatever is reserved.  A raid has battle_ids only.
standard_battle_start(quest, party) ==
    /\ specialBattle = Peace /\ party # {}
    /\ specialBattle' = [quest |-> quest, party |-> party]
    /\ UNCHANGED <<panelStates, line, raid, daily, score, raidDay, modesPaid,
                   events, fought, wins>>

special_battle_retire ==
    /\ specialBattle # Peace
    /\ specialBattle' = Peace
    /\ UNCHANGED <<panelStates, line, raid, daily, score, raidDay, modesPaid,
                   events, fought, wins>>

-----------------------------------------------------------------------------
\* Finishing a battle that is won.

Cleared(ps) == {p \in Panels : ps[p] # {}}
LineCount(ps) == Cardinality({l \in Lines : l \subseteq Cleared(ps)})

\* Mutant: the best count is the count of this battle.
LatestLines(old, lines) == lines

BestLines(old, lines) == Max({old, lines})

finish_total(p, party) ==
    LET ps == [panelStates EXCEPT ![p] = party]
        lines == LineCount(ps)
        all == Cardinality(Lines)
    IN  /\ panelStates' = ps
        /\ line' = [line EXCEPT !.best = BestLines(line.best, lines)]
        /\ modesPaid' = [modesPaid EXCEPT
             !.lines = [n \in LineRewards |->
                          IF line.best < n /\ n <= lines THEN @[n] + 1 ELSE @[n]],
             !.complete = IF line.best < all /\ lines = all THEN @ + 1 ELSE @]
        /\ events' = [lines |-> events.lines + Max({lines - line.best, 0}),
                      center |-> IF Center \notin Cleared(panelStates) /\ Center \in Cleared(ps)
                                 THEN events.center + 1 ELSE events.center]
        /\ UNCHANGED score

\* The best rank whose score is reached, or the lowest there is.
RankOf(s) ==
    LET reached == {r \in DOMAIN RankScore : RankScore[r] <= s}
    IN  IF reached = {} THEN Min(DOMAIN RankScore) ELSE Max(reached)

\* Mutant: the rank of the last battle replaces the best.
ScoredLast(s) == [score EXCEPT !.rank = RankOf(s), !.high = Max({@, s})]

Scored(s) == [score EXCEPT !.rank = Max({@, RankOf(s)}), !.high = Max({@, s})]

apply_battle_score(s) ==
    /\ score' = Scored(s)
    /\ UNCHANGED <<panelStates, line, modesPaid, events>>

\* /battle/finish; s is what the battle scored.
special_battle_finish(s) ==
    /\ specialBattle # Peace /\ wins < MaxWins
    /\ specialBattle' = Peace /\ wins' = wins + 1
    /\ \/ specialBattle.quest = Score /\ apply_battle_score(s)
       \/ specialBattle.quest \in Panels /\ finish_total(specialBattle.quest, specialBattle.party)
       \/ specialBattle.quest = Raid /\ UNCHANGED <<panelStates, line, score, modesPaid, events>>
    /\ UNCHANGED <<raid, daily, raidDay, fought>>

-----------------------------------------------------------------------------
\* Requests outside battle.

\* /quest/score_rank_first_reward_receive: every rank up to the best one that
\* was not received yet.
score_rank_first_reward_receive ==
    /\ specialBattle = Peace
    /\ score.rank \in DOMAIN RankScore /\ score.rank > score.received
    /\ modesPaid' = [modesPaid EXCEPT !.ranks = [r \in DOMAIN RankScore |->
                  IF score.received < r /\ r <= score.rank THEN @[r] + 1 ELSE @[r]]]
    /\ score' = [score EXCEPT !.received = score.rank]
    /\ UNCHANGED <<specialBattle, panelStates, line, raid, daily, raidDay, events,
                   fought, wins>>

\* /total_battle/reset_panel: the best line count stays.
reset_panel(p) ==
    /\ specialBattle = Peace
    /\ panelStates[p] # {}
    /\ panelStates' = [panelStates EXCEPT ![p] = {}]
    /\ UNCHANGED <<specialBattle, line, raid, daily, score, raidDay, modesPaid,
                   events, fought, wins>>

\* /total_battle/achieve_line_drama
achieve_line_drama ==
    /\ specialBattle = Peace
    /\ line' = [line EXCEPT !.shown = line.best]
    /\ UNCHANGED <<specialBattle, panelStates, raid, daily, score, raidDay, modesPaid,
                   events, fought, wins>>

\* Mutant: the count of a day without clears is taken down as well.
GivenBackAlways(n) == n - 1

GivenBack(n) == Max({n - 1, 0})

\* /solo_raid/reset gives one clear of the day of the entry back, although only
\* skips are counted (the daily limit of the other clears is not enforced).
solo_raid_reset ==
    /\ specialBattle = Peace
    /\ raid.entered # 0
    /\ daily' = IF daily.day = raid.entered
                THEN [daily EXCEPT !.count = GivenBack(@)] ELSE daily
    /\ raid' = [entered |-> 0, used |-> {}]
    /\ fought' = [c \in Fighters |-> 0]
    /\ UNCHANGED <<specialBattle, panelStates, line, score, raidDay, modesPaid, events, wins>>

\* /quest/battle/skip of the raid's episode: its daily count alone (see Home).
quest_skip(n) ==
    LET count == n + IF daily.day = raidDay THEN daily.count ELSE 0
    IN  /\ specialBattle = Peace
        /\ count <= RaidLimit
        /\ daily' = [day |-> raidDay, count |-> count]
        /\ UNCHANGED <<specialBattle, panelStates, line, raid, score, raidDay, modesPaid,
                       events, fought, wins>>

RaidDayPasses ==
    /\ raidDay < MaxRaidDay
    /\ raidDay' = raidDay + 1
    /\ UNCHANGED <<specialBattle, panelStates, line, raid, daily, score, modesPaid, events,
                   fought, wins>>

ModesNext ==
    \/ \E party \in SUBSET Fighters : solo_raid_battle_start(party)
    \/ \E p \in Panels, party \in SUBSET Fighters : total_battle_start(p, party)
    \/ \E q \in {Score} \union Panels, party \in SUBSET Fighters : standard_battle_start(q, party)
    \/ special_battle_retire
    \/ \E s \in Scores : special_battle_finish(s)
    \/ score_rank_first_reward_receive
    \/ \E p \in Panels : reset_panel(p)
    \/ achieve_line_drama
    \/ solo_raid_reset
    \/ quest_skip(1)
    \/ RaidDayPasses

ModesSpec == ModesInit /\ [][ModesNext]_modesVars

-----------------------------------------------------------------------------

(* Every message holds what its fields may hold.                           *)
ModesTypeOK ==
    /\ specialBattle \in Fight \union {Peace}
    /\ panelStates \in [Panels -> SUBSET Fighters]
    /\ line \in [best: 0..Cardinality(Lines), shown: Nat] /\ line.shown <= line.best
    /\ raid \in [entered: 0..raidDay, used: SUBSET Fighters]
    /\ daily \in [day: 0..raidDay, count: 0..RaidLimit]
    /\ score \in [rank: DOMAIN RankScore \union {0}, high: Nat, received: Nat]
    /\ raidDay \in 1..MaxRaidDay
    /\ modesPaid \in [lines: [LineRewards -> Nat], complete: Nat,
                      ranks: [DOMAIN RankScore -> Nat]]
    /\ events \in [lines: Nat, center: Nat]
    /\ fought \in [Fighters -> Nat]

(* However panels are won, reset and won again, the reward of a number of  *)
(* lines is paid once, when that many lines were first held at the same    *)
(* time, the complete reward when all were, and the mission for lines has  *)
(* counted each of them once (finish_total, reset_panel).                  *)
LinesPaidOnce ==
    /\ LineCount(panelStates) <= line.best
    /\ \A n \in LineRewards : modesPaid.lines[n] = IF n <= line.best THEN 1 ELSE 0
    /\ modesPaid.complete = IF line.best = Cardinality(Lines) THEN 1 ELSE 0
    /\ events.lines = line.best

(* The first reward of a rank is paid once, and never for a rank that was  *)
(* not reached, though ranks are reached, lost in worse battles and        *)
(* claimed in any order (apply_battle_score, score_rank_first_reward_      *)
(* receive).                                                               *)
RanksPaidOnce ==
    /\ score.received <= score.rank
    /\ \A r \in DOMAIN RankScore : modesPaid.ranks[r] = IF r <= score.received THEN 1 ELSE 0
    /\ score.rank > 0 => score.rank = RankOf(score.high)

(* A character fights in a raid at most once between two resets, whether   *)
(* its battle was won or given up, and the raid knows who has              *)
(* (register_special_battle_state, /solo_raid/reset).                      *)
FightsRaidOnce ==
    /\ \A c \in Fighters : fought[c] <= 1
    /\ raid.used = {c \in Fighters : fought[c] > 0}
    /\ raid.entered = 0 => raid.used = {}

(* The three modes pay and admit once.                                     *)
ModesPayOnce == LinesPaidOnce /\ RanksPaidOnce /\ FightsRaidOnce
=============================================================================
