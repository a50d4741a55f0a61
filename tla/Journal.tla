------------------------------ MODULE Journal ------------------------------
(***************************************************************************)
(* The SQLite store as the gameplay transactions see it: one replay        *)
(* journal (gameplay_mutations), one active battle per account             *)
(* (active_battles), the part of the saved home state that is tied to a    *)
(* battle (home_state), account deletion and journal maintenance.          *)
(*                                                                         *)
(* Every action is one IMMEDIATE transaction, so it happens whole or not   *)
(* at all; a replay, a conflict, a rejected reducer and a rolled back      *)
(* transaction leave the tables as they are and are no step of this        *)
(* module.  Dispatch says who runs the transactions, and when.             *)
(***************************************************************************)
EXTENDS JournalTypes

CONSTANTS
    Quests,        \* quest ids; a gacha trial id may equal a quest id
    NoQuest,
    Requests,      \* the requests clients send
    PruneBatch,    \* the LIMIT of one maintenance statement
    MaxMutations,  \* bound: journalled executions in one behaviour
    MaxTime        \* bound: clock

ASSUME JournalAssumption ==
    /\ NoQuest \notin Quests
    /\ Requests \subseteq Request
    /\ PruneBatch \in Nat \ {0}
    /\ MaxMutations \in Nat
    /\ MaxTime \in Nat

VARIABLES
    account,       \* per account: unknown, live or deleted
    journal,       \* the rows of gameplay_mutations
    nextMutation,  \* the next AUTOINCREMENT mutation_id
    battle,        \* per account: its row of active_battles
    home,          \* per account: the battle part of home_state
    now,           \* unix seconds
    log            \* history: every row that was ever inserted

vars == <<account, journal, nextMutation, battle, home, now, log>>

-----------------------------------------------------------------------------
(* State *)

NoBattle == [quest |-> NoQuest, kind |-> "none", txid |-> 0, status |-> "none"]

\* A row of active_battles.  start_txid is a fresh Uuid: the mutation id of
\* the start stands for it.
ActiveBattle == [quest: Quests, kind: StartRoutes, txid: Nat \ {0},
                 status: {"fighting", "won", "lost"}]

\* gacha_battle_id, and the start_txid tags of combat_effects and
\* battle_progress (0: the default value).
HomeState == [trial: Quests \union {NoQuest}, effects: Nat, progress: Nat]

DefaultHome == [trial |-> NoQuest, effects |-> 0, progress |-> 0]

TypeOK ==
    /\ account \in [Accounts -> {"unknown", "live", "deleted"}]
    /\ journal \subseteq log
    /\ log \subseteq Row
    /\ nextMutation \in Nat \ {0}
    /\ battle \in [Accounts -> ActiveBattle \union {NoBattle}]
    /\ home \in [Accounts -> HomeState]
    /\ now \in Nat

Init ==
    /\ account = [a \in Accounts |-> "unknown"]
    /\ journal = {}
    /\ nextMutation = 1
    /\ battle = [a \in Accounts |-> NoBattle]
    /\ home = [a \in Accounts |-> DefaultHome]
    /\ now = 0
    /\ log = {}

-----------------------------------------------------------------------------
(* Reading the journal *)

\* The row a request finds under its account and request id.
Found(req) == {r \in journal : SameKey(r, req)}

\* Mutant of gameplay_replay: the journal is never consulted.
ForgetfulReplay(req) == "none"

\* Mutant of gameplay_replay: route and body are not compared.
ConflictsReplayed(req) == IF Found(req) = {} THEN "none" ELSE "replay"

SameRequest(r, req) == r.route = req.route /\ r.body = req.body

\* gameplay_replay: the stored response, a RequestConflict, or nothing.
gameplay_replay(req) ==
    IF Found(req) = {} THEN "none"
    ELSE IF \E r \in Found(req) : SameRequest(r, req) THEN "replay"
    ELSE "conflict"

\* The rows battle_resume and prune_expired take a battle's start from.
StartRows(a) == {r \in journal : r.acct = a /\ r.route \in StartRoutes}

latest_battle_start_response(a) ==
    {r \in StartRows(a) : \A s \in StartRows(a) : s.mid <= r.mid}

\* battle_resume: the client gets the running battle and the context of its
\* start.  Without a start row it gets no context; a row of another battle is
\* an error.
battle_resume(a) ==
    IF battle[a] = NoBattle THEN "inactive"
    ELSE IF latest_battle_start_response(a) = {} THEN "no context"
    ELSE IF \E r \in latest_battle_start_response(a) : r.mid = battle[a].txid
         THEN "context" ELSE "invalid"

-----------------------------------------------------------------------------
(* Transactions *)

Live(a) == account[a] = "live"

\* What the transactions have in common: replay check, then the journal row.
Journalled(req) ==
    LET row == [mid |-> nextMutation, acct |-> req.acct, id |-> req.id,
                route |-> req.route, body |-> req.body, at |-> now]
    IN  /\ Live(req.acct)
        /\ gameplay_replay(req) = "none"
        /\ nextMutation <= MaxMutations
        /\ nextMutation' = nextMutation + 1
        /\ journal' = journal \union {row}
        /\ log' = log \union {row}
        /\ UNCHANGED <<account, now>>

\* The first sign-in inserts player_state; a later one changes nothing here.
consume_grant_and_initialize(a) ==
    /\ account[a] = "unknown"
    /\ account' = [account EXCEPT ![a] = "live"]
    /\ UNCHANGED <<journal, nextMutation, battle, home, now, log>>

\* Talk events, synthesis and party updates write resources only.
apply_gameplay_reducer(req) ==
    /\ req.route = "gameplay"
    /\ Journalled(req)
    /\ UNCHANGED <<battle, home>>

apply_gacha(req) ==
    /\ req.route = "gacha"
    /\ Journalled(req)
    /\ UNCHANGED <<battle, home>>

\* Home reducers rewrite home_state but none of its battle fields.
apply_home_reducer(req) ==
    /\ req.route \in HomeRoutes
    /\ req.route = "home_guarded" => battle[req.acct] = NoBattle
    /\ Journalled(req)
    /\ UNCHANGED <<battle, home>>

\* The reducers of the battle starts: a trial sets gacha_battle_id, the other
\* specialized modes clear it, a standard or exploration start leaves it.
StartedHome(req, q) ==
    [home[req.acct] EXCEPT
        !.effects = nextMutation,
        !.trial = CASE req.route = "trial" -> q
                    [] req.route = "special" -> NoQuest
                    [] OTHER -> @]

apply_battle_start_reducer(req, q) ==
    /\ req.route \in StartRoutes
    /\ battle[req.acct] = NoBattle
    /\ Journalled(req)
    /\ battle' = [battle EXCEPT ![req.acct] =
                    [quest |-> q, kind |-> req.route,
                     txid |-> nextMutation, status |-> "fighting"]]
    /\ home' = [home EXCEPT ![req.acct] = StartedHome(req, q)]

\* One attack: the combat outcome is left open, the progress is recorded
\* under the start_txid of the running battle.
AttackedHome(a) ==
    [home[a] EXCEPT !.effects = battle[a].txid, !.progress = battle[a].txid]

apply_battle_attack(req, outcome) ==
    LET a == req.acct IN
    /\ req.route = "attack"
    /\ battle[a].status = "fighting"
    /\ Journalled(req)
    /\ battle' = [battle EXCEPT ![a] = [battle[a] EXCEPT !.status = outcome]]
    /\ home' = [home EXCEPT ![a] = AttackedHome(a)]

\* battle_finish takes the trial branch when gacha_battle_id is set.
TrialBranch(a) == home[a].trial # NoQuest

FinishAccepted(a) ==
    /\ battle[a].status = "won"
    /\ TrialBranch(a) => home[a].trial = battle[a].quest

\* finish_battle_progress takes the progress of this battle only.
FinishedHome(a) ==
    [trial |-> NoQuest, effects |-> 0,
     progress |-> IF home[a].progress = battle[a].txid
                  THEN 0 ELSE home[a].progress]

\* Mutant of apply_battle_finish: the row stays, marked as over.
FinishKeepsRow(req) ==
    /\ req.route = "finish"
    /\ FinishAccepted(req.acct)
    /\ Journalled(req)
    /\ home' = [home EXCEPT ![req.acct] = FinishedHome(req.acct)]
    /\ battle' = [battle EXCEPT ![req.acct] =
                    [battle[req.acct] EXCEPT !.status = "none"]]

apply_battle_finish(req) ==
    LET a == req.acct IN
    /\ req.route = "finish"
    /\ FinishAccepted(a)
    /\ Journalled(req)
    /\ home' = [home EXCEPT ![a] = FinishedHome(a)]
    /\ battle' = [battle EXCEPT ![a] = NoBattle]

\* Mutant of battle_retire: the home state keeps its battle fields.
RetireKeepsHome(req) ==
    /\ req.route = "retire"
    /\ battle[req.acct] # NoBattle
    /\ Journalled(req)
    /\ battle' = [battle EXCEPT ![req.acct] = NoBattle]
    /\ UNCHANGED home

battle_retire(req) ==
    LET a == req.acct IN
    /\ req.route = "retire"
    /\ battle[a] # NoBattle
    /\ Journalled(req)
    /\ home' = [home EXCEPT ![a] = DefaultHome]
    /\ battle' = [battle EXCEPT ![a] = NoBattle]

\* ON DELETE CASCADE empties every table of the account; AUTOINCREMENT never
\* gives its id to another account.
delete_account(a) ==
    /\ Live(a)
    /\ account' = [account EXCEPT ![a] = "deleted"]
    /\ journal' = {r \in journal : r.acct # a}
    /\ battle' = [battle EXCEPT ![a] = NoBattle]
    /\ home' = [home EXCEPT ![a] = DefaultHome]
    /\ UNCHANGED <<nextMutation, now, log>>

-----------------------------------------------------------------------------
(* Maintenance *)

NewerRows(r) == {n \in journal : n.acct = r.acct /\ n.mid > r.mid}

\* Mutant of Spared: no row is kept for battle recovery.
NothingSpared(r) == FALSE

\* The row battle_resume needs is spared while its account has a battle.
Spared(r) ==
    /\ battle[r.acct] # NoBattle
    /\ r \in latest_battle_start_response(r.acct)

\* Mutant of Stale: rows leave one second and one newer request too early.
StaleTooEarly(r) ==
    \/ r.at <= now - RetentionSeconds
    \/ Cardinality(NewerRows(r)) >= RetentionCount - 1

Stale(r) ==
    \/ r.at < now - RetentionSeconds
    \/ Cardinality(NewerRows(r)) >= RetentionCount

Prunable == {r \in journal : Stale(r) /\ ~Spared(r)}

\* The DELETE takes up to PruneBatch of the rows, in no particular order.
prune_expired ==
    \E D \in SUBSET Prunable :
        /\ \/ D = Prunable /\ Cardinality(D) <= PruneBatch
           \/ Cardinality(D) = PruneBatch
        /\ journal' = journal \ D
        /\ UNCHANGED <<account, nextMutation, battle, home, now, log>>

\* The wall clock, taken not to run backwards.
Tick ==
    /\ now < MaxTime
    /\ now' = now + 1
    /\ UNCHANGED <<account, journal, nextMutation, battle, home, log>>

-----------------------------------------------------------------------------
Transaction(req) ==
    \/ apply_gameplay_reducer(req)
    \/ apply_gacha(req)
    \/ apply_home_reducer(req)
    \/ \E q \in Quests : apply_battle_start_reducer(req, q)
    \/ \E outcome \in {"fighting", "won", "lost"} :
           apply_battle_attack(req, outcome)
    \/ apply_battle_finish(req)
    \/ battle_retire(req)

Next ==
    \/ \E a \in Accounts : consume_grant_and_initialize(a)
    \/ \E req \in Requests : Transaction(req)
    \/ \E a \in Accounts : delete_account(a)
    \/ prune_expired
    \/ Tick

Spec == Init /\ [][Next]_vars

-----------------------------------------------------------------------------
(* Properties *)

\* An interrupted battle can always be resumed with the context of its own
\* start (battle_resume), however many requests are journalled and pruned
\* while it runs, and whatever battles came before it.
RecoveryContext ==
    \A a \in Accounts : battle[a] # NoBattle => battle_resume(a) = "context"

\* The battle fields of the saved home state belong to the running battle:
\* gacha_battle_id is set exactly during a trial and names it, effects and
\* progress are the running battle's or the default.  So a won battle can be
\* finished, on the branch of its own kind and with its own progress, although
\* standard and exploration starts never reset these fields.
BattleTagsAgree ==
    \A a \in Accounts :
        /\ home[a].trial = IF battle[a].kind = "trial"
                            THEN battle[a].quest ELSE NoQuest
        /\ home[a].effects = battle[a].txid
        /\ home[a].progress \in {0, battle[a].txid}
        /\ battle[a].status = "won" =>
               /\ FinishAccepted(a)
               /\ home[a].progress = battle[a].txid

L == INSTANCE RetryLedger
        WITH executions <- log,
             remembered <- journal,
             deleted <- {a \in Accounts : account[a] = "deleted"}

\* The journal keeps the promise RetryLedger makes to a retrying client.
ImplementsLedger == L!LedgerSpec

\* A request id is executed twice only if the executions lie more than
\* RetentionSeconds apart or RetentionCount other requests of the account
\* were executed between them: prune_expired forgets nothing earlier.
RetryWindow == L!RetryWindow
=============================================================================
