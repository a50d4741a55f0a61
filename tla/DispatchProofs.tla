--------------------------- MODULE DispatchProofs ---------------------------
(***************************************************************************)
(* The server around the journal, for any number of handlers, accounts and *)
(* requests and any faults: the storage gate admits one handler at a time, *)
(* every step is a step of Journal or invisible to it, answers are true,   *)
(* and what a handler checked in one lock section still holds in its next. *)
(***************************************************************************)
EXTENDS Dispatch, FiniteSetTheorems, TLAPS

-----------------------------------------------------------------------------
(* The journal *)


\* The rows are finitely many, numbered below the next mutation id and dated
\* in the past.
RowsOrdered ==
    /\ IsFiniteSet(log)
    /\ \A r \in log : r.mid \in 1..(nextMutation - 1) /\ r.at <= now

\* The row of the running battle's start is the newest start row there is.
RecoveryRow ==
    \A a \in Accounts :
        battle[a] # NoBattle =>
            \E r \in latest_battle_start_response(a) : r.mid = battle[a].txid

JournalInv == TypeOK /\ RowsOrdered /\ RecoveryRow /\ BattleTagsAgree

\* The row a transaction inserts.
NewRow(req) == [mid |-> nextMutation, acct |-> req.acct, id |-> req.id,
                route |-> req.route, body |-> req.body, at |-> now]

-----------------------------------------------------------------------------
\* What all the transactions do to the tables they share.
LEMMA TransactionJournals ==
    ASSUME NEW req, Transaction(req)
    PROVE  Journalled(req)
BY DEF Transaction, apply_gameplay_reducer, apply_gacha, apply_home_reducer,
       apply_battle_start_reducer, apply_battle_attack, apply_battle_finish,
       battle_retire

\* The inserted row is a row, newer than all others.
LEMMA NewRowType ==
    ASSUME TypeOK, NEW req \in Requests, Journalled(req)
    PROVE  /\ NewRow(req) \in Row
           /\ journal' = journal \union {NewRow(req)}
           /\ log' = log \union {NewRow(req)}
           /\ req.acct \in Accounts
BY JournalAssumption DEF TypeOK, Journalled, NewRow, Row, Request

\* A battle that is not NoBattle is a row of active_battles.
LEMMA BattleRow ==
    ASSUME TypeOK, NEW a \in Accounts
    PROVE  battle[a] = NoBattle \/ battle[a] \in ActiveBattle
BY DEF TypeOK

LEMMA JournalInitial == Init => JournalInv
<1> SUFFICES ASSUME Init PROVE JournalInv
  OBVIOUS
<1>1. TypeOK
  BY DEF Init, TypeOK, HomeState, DefaultHome
<1>2. RowsOrdered
  BY FS_EmptySet DEF Init, RowsOrdered
<1>3. RecoveryRow
  BY DEF Init, RecoveryRow
<1>4. BattleTagsAgree
  BY DEF Init, BattleTagsAgree, NoBattle, DefaultHome
<1>5. QED
  BY <1>1, <1>2, <1>3, <1>4 DEF JournalInv

-----------------------------------------------------------------------------
(* What the battle reducers write *)

\* A start tags effects with its battle, names the trial of a trial, clears it
\* for another specialized battle and keeps it otherwise.
LEMMA StartedHomeFields ==
    ASSUME TypeOK, NEW req \in Requests, NEW q \in Quests
    PROVE  LET h == StartedHome(req, q)
               old == home[req.acct]
           IN  /\ h \in HomeState
               /\ h.effects = nextMutation
               /\ h.progress = old.progress
               /\ req.route = "trial" => h.trial = q
               /\ req.route # "trial" => h.trial \in {old.trial, NoQuest}
<1>1. home[req.acct] \in HomeState
  BY JournalAssumption DEF TypeOK, Request
<1>2. QED
  BY <1>1 DEF TypeOK, StartedHome, HomeState

\* An attack changes the status of the battle and tags the home state with it.
LEMMA AttackFields ==
    ASSUME TypeOK, NEW a \in Accounts, battle[a].status = "fighting",
           NEW outcome \in {"fighting", "won", "lost"}
    PROVE  LET b == [battle[a] EXCEPT !.status = outcome]
               h == AttackedHome(a)
           IN  /\ battle[a] \in ActiveBattle
               /\ b \in ActiveBattle
               /\ b.quest = battle[a].quest
               /\ b.kind = battle[a].kind
               /\ b.txid = battle[a].txid
               /\ b.status = outcome
               /\ h \in HomeState
               /\ h.trial = home[a].trial
               /\ h.effects = battle[a].txid
               /\ h.progress = battle[a].txid
<1>1. battle[a] \in ActiveBattle
  BY DEF TypeOK, NoBattle
<1>2. home[a] \in HomeState
  BY DEF TypeOK
<1>3. QED
  BY <1>1, <1>2 DEF ActiveBattle, AttackedHome, HomeState

\* A finish leaves no trial, no effects, and the progress of no battle but
\* possibly another one's.
LEMMA FinishFields ==
    ASSUME TypeOK, NEW a \in Accounts
    PROVE  LET h == FinishedHome(a)
           IN  /\ h \in HomeState
               /\ h.trial = NoQuest
               /\ h.effects = 0
               /\ h.progress = IF home[a].progress = battle[a].txid
                               THEN 0 ELSE home[a].progress
<1>1. home[a] \in HomeState
  BY DEF TypeOK
<1>2. QED
  BY <1>1 DEF FinishedHome, HomeState

-----------------------------------------------------------------------------
(* Types *)

\* Each transaction leaves a well-typed battle and home state.
LEMMA TransactionTypes ==
    ASSUME TypeOK, NEW req \in Requests, Transaction(req)
    PROVE  TypeOK'
<1>1. Journalled(req)
  BY TransactionJournals
<1>2. /\ req.acct \in Accounts
      /\ req.route \in Routes
  BY JournalAssumption DEF Request
<1>3. /\ account' \in [Accounts -> {"unknown", "live", "deleted"}]
      /\ journal' \subseteq log'
      /\ log' \subseteq Row
      /\ nextMutation' \in Nat \ {0}
      /\ now' \in Nat
  BY <1>1, NewRowType DEF Journalled, TypeOK
<1>4. /\ battle' \in [Accounts -> ActiveBattle \union {NoBattle}]
      /\ home' \in [Accounts -> HomeState]
  <2> DEFINE Typed == /\ battle' \in [Accounts -> ActiveBattle \union {NoBattle}]
                      /\ home' \in [Accounts -> HomeState]
  <2>1. CASE UNCHANGED <<battle, home>>
    BY <2>1 DEF TypeOK
  <2>2. ASSUME NEW q \in Quests, apply_battle_start_reducer(req, q)
        PROVE  Typed
    <3>1. [quest |-> q, kind |-> req.route, txid |-> nextMutation,
           status |-> "fighting"] \in ActiveBattle
      BY <2>2 DEF ActiveBattle, apply_battle_start_reducer, TypeOK
    <3>2. QED
      BY <1>2, <2>2, <3>1, StartedHomeFields DEF apply_battle_start_reducer, TypeOK
  <2>3. ASSUME NEW outcome \in {"fighting", "won", "lost"},
               apply_battle_attack(req, outcome)
        PROVE  Typed
    BY <1>2, <2>3, AttackFields DEF apply_battle_attack, TypeOK
  <2>4. CASE apply_battle_finish(req)
    BY <1>2, <2>4, FinishFields DEF apply_battle_finish, TypeOK
  <2>5. CASE battle_retire(req)
    BY <1>2, <2>5 DEF battle_retire, TypeOK, HomeState, DefaultHome
  <2>6. QED
    BY <2>1, <2>2, <2>3, <2>4, <2>5
       DEF Transaction, apply_gameplay_reducer, apply_gacha, apply_home_reducer
<1>5. QED
  BY <1>3, <1>4 DEF TypeOK

\* One step keeps the types.
LEMMA TypeStep ==
    ASSUME TypeOK, [Next]_vars
    PROVE  TypeOK'
<1>1. ASSUME NEW req \in Requests, Transaction(req)
      PROVE  TypeOK'
  BY <1>1, TransactionTypes
<1>2. ASSUME NEW a \in Accounts, consume_grant_and_initialize(a)
      PROVE  TypeOK'
  BY <1>2 DEF consume_grant_and_initialize, TypeOK
<1>3. ASSUME NEW a \in Accounts, delete_account(a)
      PROVE  TypeOK'
  BY <1>3 DEF delete_account, TypeOK, HomeState, DefaultHome
<1>4. CASE prune_expired
  BY <1>4 DEF prune_expired, TypeOK
<1>5. CASE Tick
  BY <1>5 DEF Tick, TypeOK
<1>6. CASE UNCHANGED vars
  BY <1>6 DEF vars, TypeOK
<1>7. QED
  BY <1>1, <1>2, <1>3, <1>4, <1>5, <1>6 DEF Next

\* Everything but a transaction leaves the history, and so its order, alone.
LEMMA OrderStep ==
    ASSUME TypeOK, RowsOrdered, [Next]_vars
    PROVE  RowsOrdered'
<1>1. ASSUME NEW req \in Requests, Transaction(req)
      PROVE  RowsOrdered'
  <2>1. Journalled(req)
    BY <1>1, TransactionJournals
  <2>2. log' = log \union {NewRow(req)}
    BY <2>1, NewRowType
  <2>3. IsFiniteSet(log')
    BY <2>2, FS_AddElement DEF RowsOrdered
  <2>4. /\ nextMutation' = nextMutation + 1
        /\ now' = now
    BY <2>1 DEF Journalled
  <2>5. NewRow(req).mid = nextMutation /\ NewRow(req).at = now
    BY DEF NewRow
  <2>6. ASSUME NEW r \in log'
        PROVE  r.mid \in 1..(nextMutation' - 1) /\ r.at <= now'
    <3>1. CASE r \in log
      BY <3>1, <2>4 DEF RowsOrdered, TypeOK, Row
    <3>2. CASE r = NewRow(req)
      BY <3>2, <2>4, <2>5 DEF TypeOK
    <3>3. QED
      BY <2>2, <3>1, <3>2
  <2>7. QED
    BY <2>3, <2>6 DEF RowsOrdered
<1>2. CASE Tick
  BY <1>2 DEF Tick, RowsOrdered, TypeOK, Row
<1>3. CASE UNCHANGED <<log, nextMutation, now>>
  BY <1>3 DEF RowsOrdered
<1>4. QED
  BY <1>1, <1>2, <1>3 DEF Next, vars, consume_grant_and_initialize,
                          delete_account, prune_expired

-----------------------------------------------------------------------------
(* Battle recovery *)

\* The start row of a running battle survives as the newest one when no start
\* row is added and it is not removed itself.
LEMMA RecoveryKept ==
    ASSUME NEW a \in Accounts, battle[a] # NoBattle, RecoveryRow,
           battle'[a].txid = battle[a].txid,
           StartRows(a)' \subseteq StartRows(a),
           latest_battle_start_response(a) \subseteq journal'
    PROVE  \E r \in latest_battle_start_response(a)' : r.mid = battle'[a].txid
<1>1. PICK r \in latest_battle_start_response(a) : r.mid = battle[a].txid
  BY DEF RecoveryRow
<1>2. r \in StartRows(a)'
  BY <1>1 DEF latest_battle_start_response, StartRows
<1>3. r \in latest_battle_start_response(a)'
  BY <1>1, <1>2 DEF latest_battle_start_response
<1>4. QED
  BY <1>1, <1>3

\* A transaction keeps the start row of every running battle: only a start
\* inserts a start row, only when the account has no battle, and that row is
\* then the newest one.
LEMMA RecoveryTransaction ==
    ASSUME TypeOK, RowsOrdered, RecoveryRow, TypeOK',
           NEW req \in Requests, Transaction(req)
    PROVE  RecoveryRow'
<1> SUFFICES ASSUME NEW a \in Accounts, battle'[a] # NoBattle
             PROVE  \E r \in latest_battle_start_response(a)' :
                        r.mid = battle'[a].txid
  BY DEF RecoveryRow
<1>1. /\ Journalled(req)
      /\ journal' = journal \union {NewRow(req)}
      /\ req.acct \in Accounts
      /\ NewRow(req) \in Row
  BY TransactionJournals, NewRowType
<1>2. /\ NewRow(req).mid = nextMutation
      /\ NewRow(req).acct = req.acct
      /\ NewRow(req).route = req.route
  BY DEF NewRow
<1>3. latest_battle_start_response(a) \subseteq journal'
  BY <1>1 DEF latest_battle_start_response, StartRows
<1>4. CASE req.acct = a /\ req.route \in StartRoutes
  <2>1. PICK q \in Quests : apply_battle_start_reducer(req, q)
    BY <1>4 DEF Transaction, StartRoutes, HomeRoutes,
                apply_gameplay_reducer, apply_gacha, apply_home_reducer,
                apply_battle_attack, apply_battle_finish, battle_retire
  <2>2. battle'[a].txid = nextMutation
    BY <1>4, <2>1 DEF apply_battle_start_reducer, TypeOK
  <2>3. NewRow(req) \in StartRows(a)'
    BY <1>1, <1>2, <1>4 DEF StartRows
  <2>4. \A s \in StartRows(a)' : s.mid <= NewRow(req).mid
    BY <1>1, <1>2 DEF StartRows, RowsOrdered, TypeOK, Row
  <2>5. QED
    BY <1>2, <2>2, <2>3, <2>4 DEF latest_battle_start_response
<1>5. CASE ~(req.acct = a /\ req.route \in StartRoutes)
  <2>1. StartRows(a)' = StartRows(a)
    BY <1>1, <1>2, <1>5 DEF StartRows
  <2>2. battle[a] # NoBattle /\ battle'[a].txid = battle[a].txid
    <3>1. CASE req.acct # a
      BY <3>1, <1>1 DEF Transaction, TypeOK, apply_gameplay_reducer, apply_gacha,
            apply_home_reducer, apply_battle_start_reducer,
            apply_battle_attack, apply_battle_finish, battle_retire
    <3>2. CASE UNCHANGED battle
      BY <3>2
    <3>3. CASE apply_battle_finish(req) \/ battle_retire(req)
      BY <3>3, <1>1 DEF apply_battle_finish, battle_retire, TypeOK
    <3>4. ASSUME NEW outcome \in {"fighting", "won", "lost"},
                 apply_battle_attack(req, outcome), req.acct = a
          PROVE  battle[a] # NoBattle /\ battle'[a].txid = battle[a].txid
      BY <3>4, AttackFields DEF apply_battle_attack, TypeOK, NoBattle
    <3>5. QED
      BY <1>5, <3>1, <3>2, <3>3, <3>4
         DEF Transaction, apply_gameplay_reducer, apply_gacha,
             apply_home_reducer, apply_battle_start_reducer
  <2>3. QED
    BY <1>3, <2>1, <2>2, RecoveryKept
<1>6. QED
  BY <1>4, <1>5

\* One step keeps the recovery rows; prune_expired because it spares them.
LEMMA RecoveryStep ==
    ASSUME TypeOK, RowsOrdered, RecoveryRow, [Next]_vars
    PROVE  RecoveryRow'
<1>1. ASSUME NEW req \in Requests, Transaction(req)
      PROVE  RecoveryRow'
  BY <1>1, TransactionTypes, RecoveryTransaction
<1>2. ASSUME NEW b \in Accounts, delete_account(b)
      PROVE  RecoveryRow'
  <2> SUFFICES ASSUME NEW a \in Accounts, battle'[a] # NoBattle
               PROVE  \E r \in latest_battle_start_response(a)' :
                          r.mid = battle'[a].txid
    BY DEF RecoveryRow
  <2>1. a # b /\ battle'[a] = battle[a]
    BY <1>2 DEF delete_account, TypeOK
  <2>2. StartRows(a)' = StartRows(a)
    BY <1>2, <2>1 DEF delete_account, StartRows
  <2>3. latest_battle_start_response(a) \subseteq journal'
    BY <2>2 DEF latest_battle_start_response, StartRows
  <2>4. QED
    BY <2>1, <2>2, <2>3, RecoveryKept
<1>3. CASE prune_expired
  <2> SUFFICES ASSUME NEW a \in Accounts, battle'[a] # NoBattle
               PROVE  \E r \in latest_battle_start_response(a)' :
                          r.mid = battle'[a].txid
    BY DEF RecoveryRow
  <2>1. PICK D \in SUBSET Prunable : journal' = journal \ D /\ UNCHANGED battle
    BY <1>3 DEF prune_expired
  <2>2. StartRows(a)' \subseteq StartRows(a)
    BY <2>1 DEF StartRows
  <2>3. ASSUME NEW r \in latest_battle_start_response(a)
        PROVE  r \in journal'
    <3>1. r \in journal /\ r.acct = a
      BY DEF latest_battle_start_response, StartRows
    <3>2. Spared(r)
      BY <2>1, <3>1 DEF Spared
    <3>3. QED
      BY <2>1, <3>1, <3>2 DEF Prunable
  <2>4. QED
    BY <2>1, <2>2, <2>3, RecoveryKept
<1>4. CASE UNCHANGED <<battle, journal>>
  BY <1>4 DEF RecoveryRow, latest_battle_start_response, StartRows
<1>5. QED
  BY <1>1, <1>2, <1>3, <1>4
     DEF Next, vars, consume_grant_and_initialize, Tick

\* The resumed battle gets its context from the recovery row.
LEMMA RecoveryRowGivesContext == RecoveryRow => RecoveryContext
BY DEF RecoveryRow, RecoveryContext, battle_resume

-----------------------------------------------------------------------------
(* The battle fields of the home state *)

\* BattleTagsAgree for one account.
TagsAgree(a) ==
    /\ home[a].trial = IF battle[a].kind = "trial"
                        THEN battle[a].quest ELSE NoQuest
    /\ home[a].effects = battle[a].txid
    /\ home[a].progress \in {0, battle[a].txid}
    /\ battle[a].status = "won" => /\ FinishAccepted(a)
                                   /\ home[a].progress = battle[a].txid

\* No battle and a default home state agree.
LEMMA DefaultsAgree ==
    ASSUME NEW a \in Accounts, battle[a] = NoBattle, home[a] = DefaultHome
    PROVE  TagsAgree(a)
BY DEF TagsAgree, NoBattle, DefaultHome

\* A transaction keeps the fields of its account in step with its battle.
LEMMA TagsTransaction ==
    ASSUME TypeOK, BattleTagsAgree, NEW req \in Requests, Transaction(req)
    PROVE  TagsAgree(req.acct)'
<1> DEFINE a == req.acct
<1>1. a \in Accounts /\ TagsAgree(a)
  BY JournalAssumption DEF Request, BattleTagsAgree, TagsAgree
<1>2. CASE UNCHANGED <<battle, home>>
  BY <1>1, <1>2 DEF TagsAgree, FinishAccepted, TrialBranch
<1>3. ASSUME NEW q \in Quests, apply_battle_start_reducer(req, q)
      PROVE  TagsAgree(a)'
  <2>1. /\ battle[a] = NoBattle
        /\ battle'[a] = [quest |-> q, kind |-> req.route,
                         txid |-> nextMutation, status |-> "fighting"]
        /\ home'[a] = StartedHome(req, q)
    BY <1>1, <1>3 DEF apply_battle_start_reducer, TypeOK
  <2>2. home[a].trial = NoQuest /\ home[a].progress = 0
    BY <1>1, <2>1 DEF TagsAgree, NoBattle
  <2>3. QED
    BY <2>1, <2>2, StartedHomeFields DEF TagsAgree
<1>4. ASSUME NEW outcome \in {"fighting", "won", "lost"},
             apply_battle_attack(req, outcome)
      PROVE  TagsAgree(a)'
  <2>1. /\ battle[a].status = "fighting"
        /\ battle'[a] = [battle[a] EXCEPT !.status = outcome]
        /\ home'[a] = AttackedHome(a)
    BY <1>1, <1>4 DEF apply_battle_attack, TypeOK
  <2>2. battle[a] \in ActiveBattle /\ home[a] \in HomeState
    BY <1>1, <2>1 DEF TypeOK, NoBattle
  <2>3. /\ battle'[a].quest = battle[a].quest
        /\ battle'[a].kind = battle[a].kind
        /\ battle'[a].txid = battle[a].txid
    BY <2>1, <2>2 DEF ActiveBattle
  <2>4. /\ home'[a].trial = home[a].trial
        /\ home'[a].effects = battle[a].txid
        /\ home'[a].progress = battle[a].txid
    BY <2>1, <2>2 DEF AttackedHome, HomeState
  <2>5. QED
    BY <1>1, <2>3, <2>4 DEF TagsAgree, FinishAccepted, TrialBranch
<1>5. CASE apply_battle_finish(req)
  <2>1. battle'[a] = NoBattle /\ home'[a] = FinishedHome(a)
    BY <1>1, <1>5 DEF apply_battle_finish, TypeOK
  <2>2. FinishedHome(a).progress = 0
    BY <1>1, FinishFields DEF TagsAgree
  <2>3. QED
    BY <1>1, <2>1, <2>2, FinishFields DEF TagsAgree, NoBattle
<1>6. CASE battle_retire(req)
  BY <1>1, <1>6 DEF battle_retire, TypeOK, TagsAgree, NoBattle, DefaultHome
<1>7. QED
  BY <1>2, <1>3, <1>4, <1>5, <1>6
     DEF Transaction, apply_gameplay_reducer, apply_gacha, apply_home_reducer

\* One step keeps every account's fields in step with its battle.
LEMMA TagsStep ==
    ASSUME TypeOK, BattleTagsAgree, [Next]_vars
    PROVE  BattleTagsAgree'
<1> SUFFICES ASSUME NEW a \in Accounts
             PROVE  TagsAgree(a)'
  BY DEF BattleTagsAgree, TagsAgree
<1>1. TagsAgree(a)
  BY DEF BattleTagsAgree, TagsAgree
<1>2. CASE battle'[a] = battle[a] /\ home'[a] = home[a]
  BY <1>1, <1>2 DEF TagsAgree, FinishAccepted, TrialBranch
<1>3. ASSUME NEW req \in Requests, Transaction(req)
      PROVE  TagsAgree(a)'
  <2>1. CASE req.acct = a
    BY <1>3, <2>1, TagsTransaction
  <2>2. CASE req.acct # a
    <3>1. battle'[a] = battle[a] /\ home'[a] = home[a]
      BY <1>3, <2>2 DEF Transaction, TypeOK, apply_gameplay_reducer, apply_gacha,
            apply_home_reducer, apply_battle_start_reducer,
            apply_battle_attack, apply_battle_finish, battle_retire
    <3>2. QED
      BY <1>2, <3>1
  <2>3. QED
    BY <2>1, <2>2
<1>4. ASSUME NEW b \in Accounts, delete_account(b)
      PROVE  TagsAgree(a)'
  <2>1. CASE b = a
    BY <1>4, <2>1 DEF delete_account, TypeOK, TagsAgree, NoBattle, DefaultHome
  <2>2. CASE b # a
    BY <1>2, <1>4, <2>2 DEF delete_account, TypeOK
  <2>3. QED
    BY <2>1, <2>2
<1>5. CASE UNCHANGED <<battle, home>>
  BY <1>2, <1>5
<1>6. QED
  BY <1>3, <1>4, <1>5
     DEF Next, vars, consume_grant_and_initialize, prune_expired, Tick

-----------------------------------------------------------------------------
(* The theorems about Spec *)

LEMMA JournalInvariance == Spec => []JournalInv
<1>1. JournalInv /\ [Next]_vars => JournalInv'
  BY TypeStep, OrderStep, RecoveryStep, TagsStep DEF JournalInv
<1>2. QED
  BY JournalInitial, <1>1, PTL DEF Spec

\* The tables keep their types: no transaction stores a malformed battle row
\* or home state, and every journal row was inserted by a transaction.
THEOREM TypeCorrectness == Spec => []TypeOK
BY JournalInvariance, PTL DEF JournalInv

\* A running battle can always be resumed with the context of its own start
\* (battle_resume), for any number of accounts and any retention settings.
THEOREM BattleRecovery == Spec => []RecoveryContext
<1>1. JournalInv => RecoveryContext
  BY RecoveryRowGivesContext DEF JournalInv
<1>2. QED
  BY JournalInvariance, <1>1, PTL

\* gacha_battle_id, combat_effects and battle_progress always belong to the
\* running battle (battle_finish, battle_retire, the three battle starts).
THEOREM BattleTags == Spec => []BattleTagsAgree
BY JournalInvariance, PTL DEF JournalInv

-----------------------------------------------------------------------------
(* Journal implements RetryLedger *)

\* The instance's copy of Cardinality is Cardinality.
LEMMA LedgerCardinality ==
    ASSUME NEW S
    PROVE  L!Cardinality(S) = Cardinality(S)
BY DEF L!Cardinality, Cardinality

\* What prune_expired finds stale among the rows that are left has expired by
\* the ledger, which counts every execution there ever was.
LEMMA StaleIsExpired ==
    ASSUME TypeOK, RowsOrdered, NEW r \in journal, Stale(r)
    PROVE  L!Expired(r)
<1>1. CASE r.at < now - RetentionSeconds
  BY <1>1, RetentionAssumption DEF L!Expired, TypeOK, Row
<1>2. CASE Cardinality(NewerRows(r)) >= RetentionCount
  <2>1. NewerRows(r) \subseteq L!Newer(r)
    BY DEF NewerRows, L!Newer, TypeOK
  <2>2. L!Newer(r) \subseteq log
    BY DEF L!Newer
  <2>3. IsFiniteSet(L!Newer(r))
    BY <2>2, FS_Subset DEF RowsOrdered
  <2>4. /\ Cardinality(NewerRows(r)) \in Nat
        /\ Cardinality(L!Newer(r)) \in Nat
        /\ Cardinality(NewerRows(r)) <= Cardinality(L!Newer(r))
    BY <2>1, <2>3, FS_Subset, FS_CardinalityType
  <2>5. Cardinality(L!Newer(r)) >= RetentionCount
    BY <1>2, <2>4, RetentionAssumption
  <2>6. QED
    BY <2>5, LedgerCardinality DEF L!Expired
<1>3. QED
  BY <1>1, <1>2 DEF Stale

\* A transaction executes a request the ledger does not remember.
LEMMA TransactionExecutes ==
    ASSUME TypeOK, RowsOrdered, NEW req \in Requests, Transaction(req)
    PROVE  L!LedgerNext
<1> DEFINE row == NewRow(req)
<1>1. /\ Journalled(req)
      /\ row \in Row
      /\ journal' = journal \union {row}
      /\ log' = log \union {row}
  BY TransactionJournals, NewRowType
<1>2. /\ row.mid = nextMutation /\ row.at = now
      /\ row.acct = req.acct /\ row.id = req.id
  BY DEF NewRow
<1>3. account' = account /\ now' = now /\ account[req.acct] = "live"
  BY <1>1 DEF Journalled, Live
<1>4. \A r \in journal : ~SameKey(r, row)
  <2>1. Found(req) = {}
    BY <1>1 DEF Journalled, gameplay_replay
  <2>2. QED
    BY <1>2, <2>1 DEF Found, SameKey
<1>5. \A x \in log : x.mid < row.mid
  BY <1>2 DEF RowsOrdered, TypeOK, Row
<1>6. L!Execute(row)
  BY <1>1, <1>2, <1>3, <1>4, <1>5
     DEF L!Execute, L!SameKey, SameKey, L!Row, Row, L!Routes, Routes,
         L!StartRoutes, StartRoutes, L!HomeRoutes, HomeRoutes
<1>7. row \in log'
  BY <1>1
<1>8. QED
  BY <1>6, <1>7 DEF L!LedgerNext

\* Every step of the journal is a step of the ledger or invisible to it.
LEMMA LedgerStep ==
    ASSUME TypeOK, RowsOrdered, [Next]_vars
    PROVE  [L!LedgerNext]_(L!ledgerVars)
<1>1. ASSUME NEW req \in Requests, Transaction(req)
      PROVE  L!LedgerNext
  BY <1>1, TransactionExecutes
<1>2. ASSUME NEW a \in Accounts, consume_grant_and_initialize(a)
      PROVE  UNCHANGED L!ledgerVars
  <2>1. {b \in Accounts : account'[b] = "deleted"}
          = {b \in Accounts : account[b] = "deleted"}
    BY <1>2 DEF consume_grant_and_initialize, TypeOK
  <2>2. QED
    BY <1>2, <2>1 DEF consume_grant_and_initialize, L!ledgerVars
<1>3. ASSUME NEW a \in Accounts, delete_account(a)
      PROVE  L!LedgerNext
  <2>1. {b \in Accounts : account'[b] = "deleted"}
          = {b \in Accounts : account[b] = "deleted"} \union {a}
    BY <1>3 DEF delete_account, TypeOK
  <2>2. L!Drop(a)
    BY <1>3, <2>1 DEF delete_account, L!Drop
  <2>3. QED
    BY <2>2 DEF L!LedgerNext
<1>4. CASE prune_expired
  <2>1. PICK D \in SUBSET Prunable :
            /\ journal' = journal \ D
            /\ UNCHANGED <<account, now, log>>
    BY <1>4 DEF prune_expired
  <2>2. \A r \in journal \ journal' : L!Expired(r)
    BY <2>1, StaleIsExpired DEF Prunable
  <2>3. L!Forget(journal \ journal')
    BY <2>1, <2>2 DEF L!Forget, Prunable
  <2>4. QED
    BY <2>3 DEF L!LedgerNext
<1>5. CASE Tick
  BY <1>5 DEF Tick, L!TimePasses, L!LedgerNext
<1>6. CASE UNCHANGED vars
  BY <1>6 DEF vars, L!ledgerVars
<1>7. QED
  BY <1>1, <1>2, <1>3, <1>4, <1>5, <1>6 DEF Next

\* The journal with its replay lookup, cascading deletion and maintenance
\* implements the ledger's promise to a retrying client.
THEOREM JournalImplementsLedger == Spec => ImplementsLedger
<1>1. Init => L!LedgerInit
  BY DEF Init, L!LedgerInit
<1>2. JournalInv /\ [Next]_vars => [L!LedgerNext]_(L!ledgerVars)
  BY LedgerStep DEF JournalInv
<1>3. QED
  BY JournalInvariance, <1>1, <1>2, PTL DEF Spec, ImplementsLedger, L!LedgerSpec

P == INSTANCE RetryLedgerProofs
        WITH executions <- log,
             remembered <- journal,
             deleted <- {a \in Accounts : account[a] = "deleted"}

\* A request id is executed a second time only when the first execution is
\* older than the retention period or RetentionCount newer ones came between.
THEOREM RequestsRunOnce == Spec => []RetryWindow
<1>1. L!LedgerInit => P!LedgerInit
  BY DEF L!LedgerInit, P!LedgerInit
<1>2. ASSUME NEW S
      PROVE  L!Cardinality(S) = P!Cardinality(S)
  BY DEF L!Cardinality, P!Cardinality
<1>3. ASSUME NEW e
      PROVE  L!Newer(e) = P!Newer(e) /\ (L!Expired(e) => P!Expired(e))
  BY <1>2 DEF L!Newer, P!Newer, L!Expired, P!Expired
<1>4. [L!LedgerNext]_(L!ledgerVars) => [P!LedgerNext]_(P!ledgerVars)
  <2>1. ASSUME NEW e, L!Execute(e)
        PROVE  P!Execute(e)
    BY <2>1 DEF L!Execute, P!Execute, L!SameKey, P!SameKey, L!Row, P!Row,
                L!Routes, P!Routes, L!StartRoutes, P!StartRoutes,
                L!HomeRoutes, P!HomeRoutes
  <2>2. L!Forget(journal \ journal') => P!Forget(journal \ journal')
    BY <1>3 DEF L!Forget, P!Forget
  <2>3. QED
    BY <2>1, <2>2 DEF L!LedgerNext, P!LedgerNext, L!ledgerVars, P!ledgerVars,
                      L!Drop, P!Drop, L!TimePasses, P!TimePasses
<1>5. P!RetryWindow => RetryWindow
  BY <1>2, <1>3 DEF RetryWindow, L!RetryWindow, P!RetryWindow,
                    L!SameKey, P!SameKey
<1>6. P!LedgerSpec => []P!RetryWindow
  BY P!LedgerSafety, RetentionAssumption, PTL
<1>7. QED
  BY JournalImplementsLedger, <1>1, <1>4, <1>5, <1>6, PTL
     DEF ImplementsLedger, L!LedgerSpec, P!LedgerSpec

-----------------------------------------------------------------------------
(* The server around it *)

\* The storage gate: its one permit is free, or one handler has it.
GateHeld ==
    /\ permits = 1 => \A w \in Workers : worker[w].pc \notin Admitted
    /\ permits = 0 => \E w \in Workers : worker[w].pc \in Admitted
    /\ \A v, w \in Workers :
           worker[v].pc \in Admitted /\ worker[w].pc \in Admitted => v = w

\* A journal row that is the execution of a request.
Executes(e, req) == e.acct = req.acct /\ e.id = req.id /\ SameRequest(e, req)

\* Rows are told apart by their mutation id, and what can be replayed also by
\* its request id.
RowsUnique ==
    /\ \A e, f \in log : e.mid = f.mid => e = f
    /\ \A r, s \in journal : SameKey(r, s) => r = s

\* What a handler has learned still holds: its request, ...
RequestRead(w) ==
    worker[w].pc # "idle" => worker[w].req \in ClientRequests

\* ... the session it resolved, ...
SessionHolds(w) ==
    /\ worker[w].pc \in {"guard", "transaction", "reread"}
    /\ worker[w].req.route # "sign_in"
    => Live(worker[w].req.acct)

\* ... the battle it did not find, ...
BattleAbsent(w) ==
    /\ worker[w].pc = "transaction"
    /\ worker[w].req.route \in NoncombatRoutes
    => battle[worker[w].req.acct] = NoBattle

\* ... the row it inserted or the battle it is going to resume, ...
SecondRead(w) ==
    worker[w].pc = "reread" =>
        \/ /\ worker[w].req.route \in Routes
           /\ \E r \in journal : r.mid = worker[w].seen /\ Executes(r, worker[w].req)
        \/ /\ worker[w].req.route = "battle_resume"
           /\ battle[worker[w].req.acct] # NoBattle
           /\ battle[worker[w].req.acct].txid = worker[w].seen

\* ... and the answer it is about to give.
AnswerTrue(w) ==
    worker[w].reply.mid # 0 =>
        /\ worker[w].pc \in {"maintain", "respond"}
        /\ worker[w].req.route \in Routes =>
               \E e \in log : e.mid = worker[w].reply.mid /\ Executes(e, worker[w].req)

AnswerFound(w) ==
    worker[w].reply.code \notin {"not_found", "no_context", "invalid_context"}

HandlerKnows(w) ==
    /\ RequestRead(w)
    /\ SessionHolds(w)
    /\ BattleAbsent(w)
    /\ SecondRead(w)
    /\ AnswerTrue(w)
    /\ AnswerFound(w)

Typed ==
    /\ worker \in [Workers -> Handler]
    /\ permits \in 0..StorageGatePermits
    /\ poisoned \in BOOLEAN
    /\ tick \in 0..(MaintenanceEvery - 1)
    /\ answered \subseteq [req: ClientRequests, mid: Nat]

DispatchInv ==
    /\ JournalInv
    /\ Typed
    /\ GateHeld
    /\ RowsUnique
    /\ \A w \in Workers : HandlerKnows(w)
    /\ AnswersAreExecutions

-----------------------------------------------------------------------------
(* Requests and handlers *)

\* A request names an account, and is journalled or direct by its route.
LEMMA RequestKinds ==
    ASSUME NEW req \in ClientRequests
    PROVE  /\ req.acct \in Accounts
           /\ req.route \in Routes \/ req.route \in DirectRoutes
           /\ req.route \in Routes => req \in Requests
           /\ ~(req.route \in Routes /\ req.route \in DirectRoutes)
<1>1. CASE req \in Requests
  BY <1>1, JournalAssumption
     DEF Request, Routes, StartRoutes, HomeRoutes, DirectRoutes
<1>2. CASE req \in DirectRequests
  BY <1>2 DEF DirectRequests, Routes, StartRoutes, HomeRoutes, DirectRoutes
<1>3. QED
  BY <1>1, <1>2 DEF ClientRequests

LEMMA ReplyTypes ==
    /\ NoReply \in Reply
    /\ \A m \in Nat : Ok(m) \in Reply
    /\ \A c \in {"storage_busy", "join_error", "unauthorized",
                 "battle_already_active", "battle_not_active", "conflict",
                 "rejected", "not_found", "no_context", "invalid_context"} :
           Error(c) \in Reply
BY DEF Reply, NoReply, Ok, Error

LEMMA IdleType == Idle \in Handler
BY ReplyTypes DEF Idle, Handler, PC

\* A handler's step moves no other handler.
LEMMA StepIsLocal ==
    ASSUME Typed, NEW w \in Workers, Step(w)
    PROVE  \A v \in Workers \ {w} : worker'[v] = worker[v]
BY DEF Typed, Step, Goto, Finish, Release, Unwind, run_bounded_storage, session,
       ensure_noncombat_mutation_allowed, JournalledTransaction,
       gameplay_response, sign_in, user_login, user_delete, ResumeReadsBattle,
       ResumeReadsContext, Maintain, Respond, LoseResponse, ReducerPanic,
       lock_connection

\* A step leaves its handler with a well-typed state.
LEMMA StepHandlerType ==
    ASSUME TypeOK, Typed, NEW w \in Workers, RequestRead(w), Step(w)
    PROVE  worker'[w] \in Handler
<1> DEFINE h == worker[w]
<1>1. h \in Handler /\ worker \in [Workers -> Handler]
  BY DEF Typed
<1>2. /\ \A r \in journal : r.mid \in Nat
      /\ nextMutation \in Nat
      /\ \A a \in Accounts : battle[a] # NoBattle => battle[a].txid \in Nat
  BY BattleRow DEF TypeOK, Row, ActiveBattle
<1>3. h.pc # "idle" => h.req.acct \in Accounts
  BY RequestKinds DEF RequestRead
<1>4. ASSUME NEW reply \in Reply, Finish(w, reply)
      PROVE  worker'[w] \in Handler
  BY <1>1, <1>4 DEF Finish, PC, Admitted, Handler
<1>5. ASSUME NEW pc \in PC, Goto(w, pc)
      PROVE  worker'[w] \in Handler
  BY <1>1, <1>5 DEF Goto, Handler
<1>6. ASSUME NEW n \in Nat,
             worker' = [worker EXCEPT ![w].pc = "reread", ![w].seen = n]
      PROVE  worker'[w] \in Handler
  BY <1>1, <1>6 DEF PC, Admitted, Handler
<1>7. CASE run_bounded_storage(w)
  <2> DEFINE next == IF h.req.route = "sign_in" THEN "transaction" ELSE "session"
  <2>1. next \in PC
    BY DEF PC, Admitted
  <2>2. CASE Goto(w, next)
    BY <1>5, <2>1, <2>2
  <2>3. CASE worker' = [worker EXCEPT ![w].pc = "respond",
                                      ![w].reply = Error("storage_busy")]
    BY <1>1, <2>3, ReplyTypes DEF PC, Handler
  <2>4. QED
    BY <1>7, <2>2, <2>3 DEF run_bounded_storage
<1>8. CASE session(w) \/ ensure_noncombat_mutation_allowed(w)
  BY <1>4, <1>5, <1>8, ReplyTypes
     DEF session, ensure_noncombat_mutation_allowed, PC, Admitted
<1>9. CASE JournalledTransaction(w)
  BY <1>2, <1>4, <1>6, <1>9, ReplyTypes DEF JournalledTransaction, Found
<1>10. CASE gameplay_response(w)
  BY <1>2, <1>4, <1>10, ReplyTypes DEF gameplay_response
<1>11. CASE sign_in(w) \/ user_login(w) \/ user_delete(w)
  BY <1>4, <1>11, ReplyTypes DEF sign_in, user_login, user_delete
<1>12. CASE ResumeReadsBattle(w)
  BY <1>2, <1>3, <1>4, <1>6, <1>12, ReplyTypes DEF ResumeReadsBattle, At
<1>13. CASE ResumeReadsContext(w)
  BY <1>2, <1>4, <1>13, ReplyTypes
     DEF ResumeReadsContext, latest_battle_start_response, StartRows
<1>14. CASE Maintain(w)
  BY <1>1, <1>14 DEF Maintain, Release, PC, Handler
<1>15. CASE Respond(w) \/ LoseResponse(w)
  BY <1>1, <1>15, IdleType DEF Respond, LoseResponse
<1>16. CASE ReducerPanic(w) \/ lock_connection(w)
  BY <1>1, <1>16, ReplyTypes
     DEF ReducerPanic, lock_connection, Unwind, PC, Handler
<1>17. QED
  BY <1>7, <1>8, <1>9, <1>10, <1>11, <1>12, <1>13, <1>14, <1>15, <1>16 DEF Step

\* A handler touches the tables only while it holds the permit, and then by a
\* step of Journal.
LEMMA StepJournal ==
    ASSUME NEW w \in Workers, RequestRead(w), Step(w)
    PROVE  UNCHANGED vars \/ (worker[w].pc \in Admitted /\ Next)
<1>1. worker[w].pc # "idle" => /\ worker[w].req.acct \in Accounts
                               /\ worker[w].req.route \in Routes =>
                                      worker[w].req \in Requests
  BY RequestKinds DEF RequestRead
<1>2. CASE JournalledTransaction(w)
  BY <1>1, <1>2 DEF JournalledTransaction, At, Admitted, Next
<1>3. CASE sign_in(w)
  BY <1>1, <1>3 DEF sign_in, At, Admitted, Next
<1>4. CASE user_delete(w)
  BY <1>1, <1>4 DEF user_delete, At, Admitted, Next
<1>5. CASE Maintain(w)
  BY <1>5 DEF Maintain, At, Admitted, Next
<1>6. CASE UNCHANGED vars
  BY <1>6
<1>7. QED
  BY <1>2, <1>3, <1>4, <1>5, <1>6
     DEF Step, run_bounded_storage, session, ensure_noncombat_mutation_allowed,
         gameplay_response, user_login, ResumeReadsBattle, ResumeReadsContext,
         Respond, LoseResponse, ReducerPanic, lock_connection, Unwind

\* The server runs nothing but the transactions of Journal.
LEMMA JournalStep ==
    ASSUME \A w \in Workers : RequestRead(w), [DispatchNext]_dispatchVars
    PROVE  [Next]_vars
<1>1. ASSUME NEW w \in Workers, Step(w)
      PROVE  [Next]_vars
  BY <1>1, StepJournal
<1>2. ASSUME NEW w \in Workers, NEW req \in ClientRequests, Receive(w, req)
      PROVE  [Next]_vars
  BY <1>2 DEF Receive
<1>3. CASE Restart
  BY <1>3 DEF Restart
<1>4. CASE Tick
  BY <1>4 DEF Next
<1>5. CASE UNCHANGED dispatchVars
  BY <1>5 DEF dispatchVars
<1>6. QED
  BY <1>1, <1>2, <1>3, <1>4, <1>5 DEF DispatchNext

-----------------------------------------------------------------------------
(* Types and the storage gate *)

\* The counter of requests turns over at MaintenanceEvery.
LEMMA TickTurnsOver ==
    ASSUME tick \in 0..(MaintenanceEvery - 1)
    PROVE  (tick + 1) % MaintenanceEvery \in 0..(MaintenanceEvery - 1)
BY DispatchAssumption

\* How a handler's step moves the permit: taken on admission, kept while
\* admitted, and given back at the end of maintenance and by a panic.
LEMMA StepPermit ==
    ASSUME Typed, NEW w \in Workers, Step(w)
    PROVE  LET before == worker[w].pc \in Admitted
               after == worker'[w].pc \in Admitted
           IN  \/ before = after /\ permits' = permits
               \/ ~before /\ after /\ permits = 1 /\ permits' = 0
               \/ before /\ ~after /\ permits' = permits + 1
<1> DEFINE Kept == /\ (worker[w].pc \in Admitted) = (worker'[w].pc \in Admitted)
                   /\ permits' = permits
           Taken == /\ worker[w].pc \notin Admitted
                    /\ worker'[w].pc \in Admitted
                    /\ permits = 1 /\ permits' = 0
           Given == /\ worker[w].pc \in Admitted
                    /\ worker'[w].pc \notin Admitted
                    /\ permits' = permits + 1
<1>1. /\ worker \in [Workers -> Handler]
      /\ permits \in {0, 1}
  BY DEF Typed, StorageGatePermits
<1>2. CASE run_bounded_storage(w)
  <2>1. CASE permits = 0
    BY <1>1, <1>2, <2>1
       DEF run_bounded_storage, At, Admitted, Handler
  <2>2. CASE permits = 1
    BY <1>1, <1>2, <2>2 DEF run_bounded_storage, At, Goto, Admitted, Handler
  <2>3. QED
    BY <1>1, <2>1, <2>2
<1>3. CASE Maintain(w)
  BY <1>1, <1>3 DEF Maintain, Release, At, Admitted, Handler
<1>4. CASE ReducerPanic(w) \/ lock_connection(w)
  BY <1>1, <1>4 DEF ReducerPanic, lock_connection, Unwind, At, Admitted, Handler
<1>5. CASE Respond(w) \/ LoseResponse(w)
  BY <1>1, <1>5 DEF Respond, LoseResponse, Idle, At, Admitted
<1>6. CASE session(w) \/ ensure_noncombat_mutation_allowed(w)
  BY <1>1, <1>6 DEF session, ensure_noncombat_mutation_allowed, At, Goto,
                    Finish, Admitted, Handler
<1>7. CASE JournalledTransaction(w) \/ gameplay_response(w)
  BY <1>1, <1>7 DEF JournalledTransaction, gameplay_response, At, Finish,
                    Admitted, Handler
<1>8. CASE sign_in(w) \/ user_login(w) \/ user_delete(w)
  BY <1>1, <1>8 DEF sign_in, user_login, user_delete, At, Finish, Admitted, Handler
<1>9. CASE ResumeReadsBattle(w) \/ ResumeReadsContext(w)
  BY <1>1, <1>9 DEF ResumeReadsBattle, ResumeReadsContext, At, Finish, Admitted,
                    Handler
<1>10. QED
  BY <1>2, <1>3, <1>4, <1>5, <1>6, <1>7, <1>8, <1>9 DEF Step

LEMMA TypedStep ==
    ASSUME TypeOK, Typed, GateHeld, \A w \in Workers : HandlerKnows(w),
           [DispatchNext]_dispatchVars
    PROVE  Typed'
<1>1. ASSUME NEW w \in Workers, Step(w)
      PROVE  Typed'
  <2>1. /\ worker' \in [Workers -> Handler]
        /\ worker[w] \in Handler
    <3>1. worker'[w] \in Handler
      BY <1>1, StepHandlerType DEF HandlerKnows
    <3>2. \A v \in Workers \ {w} : worker'[v] \in Handler
      BY <1>1, StepIsLocal DEF Typed
    <3>3. worker' = [v \in Workers |-> worker'[v]]
      BY <1>1 DEF Typed, Step, Goto, Finish, Release, Unwind, run_bounded_storage,
           session, ensure_noncombat_mutation_allowed, JournalledTransaction,
           gameplay_response, sign_in, user_login, user_delete,
           ResumeReadsBattle, ResumeReadsContext, Maintain, Respond,
           LoseResponse, ReducerPanic, lock_connection
    <3>4. QED
      BY <3>1, <3>2, <3>3 DEF Typed
  <2>2. permits' \in 0..StorageGatePermits
    <3>1. worker[w].pc \in Admitted => permits = 0
      BY DEF Typed, GateHeld, StorageGatePermits
    <3>2. QED
      BY <1>1, <3>1, StepPermit DEF Typed, StorageGatePermits
  <2>3. tick' \in 0..(MaintenanceEvery - 1)
    BY <1>1, TickTurnsOver
       DEF Typed, Step, run_bounded_storage, session, Maintain, Respond,
           ensure_noncombat_mutation_allowed, JournalledTransaction,
           gameplay_response, sign_in, user_login, user_delete, LoseResponse,
           ResumeReadsBattle, ResumeReadsContext, ReducerPanic, lock_connection
  <2>4. poisoned' \in BOOLEAN
    BY <1>1
       DEF Typed, Step, run_bounded_storage, session, Maintain, Respond,
           ensure_noncombat_mutation_allowed, JournalledTransaction,
           gameplay_response, sign_in, user_login, user_delete, LoseResponse,
           ResumeReadsBattle, ResumeReadsContext, ReducerPanic, lock_connection
  <2>5. answered' \subseteq [req: ClientRequests, mid: Nat]
    <3>1. CASE Respond(w)
      <4>1. worker[w].req \in ClientRequests
        BY <3>1 DEF Respond, At, HandlerKnows, RequestRead
      <4>2. worker[w].reply.mid \in Nat
        BY <2>1 DEF Handler, Reply
      <4>3. QED
        BY <3>1, <4>1, <4>2 DEF Respond, Typed
    <3>2. CASE answered' = answered
      BY <3>2 DEF Typed
    <3>3. QED
      BY <1>1, <3>1, <3>2
         DEF Step, run_bounded_storage, session, Maintain, Unwind,
           ensure_noncombat_mutation_allowed, JournalledTransaction,
           gameplay_response, sign_in, user_login, user_delete, LoseResponse,
           ResumeReadsBattle, ResumeReadsContext, ReducerPanic, lock_connection
  <2>6. QED
    BY <2>1, <2>2, <2>3, <2>4, <2>5 DEF Typed
<1>2. ASSUME NEW w \in Workers, NEW req \in ClientRequests, Receive(w, req)
      PROVE  Typed'
  BY <1>2 DEF Receive, Typed, Handler, PC
<1>3. CASE Restart
  <2>1. worker' \in [Workers -> Handler]
    BY <1>3, IdleType DEF Restart
  <2>2. tick' \in 0..(MaintenanceEvery - 1)
    BY <1>3, DispatchAssumption DEF Restart
  <2>3. permits' \in 0..StorageGatePermits
    BY <1>3 DEF Restart, StorageGatePermits
  <2>4. poisoned' \in BOOLEAN /\ answered' = answered
    BY <1>3 DEF Restart
  <2>5. QED
    BY <2>1, <2>2, <2>3, <2>4 DEF Typed
<1>4. CASE Tick /\ UNCHANGED serverVars
  BY <1>4 DEF serverVars, Typed
<1>5. CASE UNCHANGED dispatchVars
  BY <1>5 DEF dispatchVars, serverVars, Typed
<1>6. QED
  BY <1>1, <1>2, <1>3, <1>4, <1>5 DEF DispatchNext

\* One permit, one handler: no step admits a second one, a restart lets go of
\* all of them, and nobody else moves a handler across the gate.
LEMMA GateStep ==
    ASSUME Typed, GateHeld, [DispatchNext]_dispatchVars
    PROVE  GateHeld'
<1>1. permits \in {0, 1}
  BY DEF Typed, StorageGatePermits
<1>2. ASSUME NEW w \in Workers, Step(w)
      PROVE  GateHeld'
  <2>1. \A v \in Workers \ {w} : worker'[v] = worker[v]
    BY <1>2, StepIsLocal
  <2>2. CASE /\ (worker[w].pc \in Admitted) = (worker'[w].pc \in Admitted)
             /\ permits' = permits
    BY <2>1, <2>2 DEF GateHeld, Admitted
  <2>3. CASE /\ worker[w].pc \notin Admitted
             /\ worker'[w].pc \in Admitted
             /\ permits = 1 /\ permits' = 0
    BY <2>1, <2>3 DEF GateHeld, Admitted
  <2>4. CASE /\ worker[w].pc \in Admitted
             /\ worker'[w].pc \notin Admitted
             /\ permits' = permits + 1
    <3>1. \A v \in Workers : worker'[v].pc \notin Admitted
      BY <2>1, <2>4 DEF GateHeld
    <3>2. permits' = 1
      BY <1>1, <2>4 DEF GateHeld
    <3>3. QED
      BY <3>1, <3>2 DEF GateHeld, Admitted
  <2>5. QED
    BY <1>2, <2>2, <2>3, <2>4, StepPermit
<1>3. ASSUME NEW w \in Workers, NEW req \in ClientRequests, Receive(w, req)
      PROVE  GateHeld'
  <2>1. /\ worker'[w].pc = "admit" /\ worker[w].pc = "idle"
        /\ \A v \in Workers \ {w} : worker'[v] = worker[v]
        /\ permits' = permits
    BY <1>3 DEF Receive, At, Typed, Handler
  <2>2. \A v \in Workers : (worker'[v].pc \in Admitted) = (worker[v].pc \in Admitted)
    BY <2>1 DEF Admitted
  <2>3. QED
    BY <2>1, <2>2 DEF GateHeld, Admitted
<1>4. CASE Restart
  BY <1>4 DEF Restart, GateHeld, Idle, Admitted, StorageGatePermits
<1>5. CASE UNCHANGED serverVars
  BY <1>5 DEF serverVars, GateHeld, Admitted
<1>6. QED
  BY <1>2, <1>3, <1>4, <1>5 DEF DispatchNext, dispatchVars

\* The gate in the terms of DispatchTypeOK.
LEMMA GateCounts ==
    ASSUME Typed, GateHeld
    PROVE  DispatchTypeOK
<1> DEFINE A == {w \in Workers : worker[w].pc \in Admitted}
<1>1. CASE permits = 1
  <2>1. A = {}
    BY <1>1 DEF GateHeld
  <2>2. Cardinality(A) = 0
    BY <2>1, FS_EmptySet
  <2>3. QED
    BY <1>1, <2>2 DEF Typed, DispatchTypeOK, StorageGatePermits
<1>2. CASE permits = 0
  <2>1. PICK w \in Workers : A = {w}
    BY <1>2 DEF GateHeld
  <2>2. Cardinality(A) = 1
    BY <2>1, FS_Singleton
  <2>3. QED
    BY <1>2, <2>2 DEF Typed, DispatchTypeOK, StorageGatePermits
<1>3. QED
  BY <1>1, <1>2 DEF Typed, StorageGatePermits

-----------------------------------------------------------------------------
(* The journal as the handlers read it *)

\* No two rows share a mutation id, and no two replayable rows a request id.
LEMMA RowsUniqueStep ==
    ASSUME TypeOK, RowsOrdered, RowsUnique, [Next]_vars
    PROVE  RowsUnique'
<1>1. ASSUME NEW req \in Requests, Transaction(req)
      PROVE  RowsUnique'
  <2>1. /\ Journalled(req)
        /\ journal' = journal \union {NewRow(req)}
        /\ log' = log \union {NewRow(req)}
    BY <1>1, TransactionJournals, NewRowType
  <2>2. \A r \in log : r.mid # NewRow(req).mid
    BY DEF RowsOrdered, TypeOK, Row, NewRow
  <2>3. \A r \in journal : ~SameKey(r, NewRow(req)) /\ ~SameKey(NewRow(req), r)
    BY <2>1 DEF Journalled, gameplay_replay, Found, SameKey, NewRow
  <2>4. QED
    BY <2>1, <2>2, <2>3 DEF RowsUnique
<1>2. CASE log' = log /\ journal' \subseteq journal
  BY <1>2 DEF RowsUnique
<1>3. QED
  BY <1>1, <1>2 DEF Next, vars, consume_grant_and_initialize, delete_account,
                    prune_expired, Tick

\* A replayed row is the execution of exactly the request that found it.
LEMMA ReplayIsExact ==
    ASSUME TypeOK, RowsUnique, NEW req, gameplay_replay(req) = "replay",
           NEW r \in Found(req)
    PROVE  r \in log /\ Executes(r, req)
<1>1. PICK s \in Found(req) : SameRequest(s, req)
  BY DEF gameplay_replay
<1>2. r = s
  BY <1>1 DEF Found, SameKey, RowsUnique
<1>3. QED
  BY <1>1, <1>2 DEF Found, SameKey, Executes, TypeOK

-----------------------------------------------------------------------------
(* What a handler knows *)

\* A handler keeps its knowledge while it and the tables it read stand still.
LEMMA KnowledgeKept ==
    ASSUME NEW v \in Workers, HandlerKnows(v), worker'[v] = worker[v],
           log \subseteq log',
           worker[v].pc \notin Admitted \/ UNCHANGED <<account, journal, battle>>
    PROVE  HandlerKnows(v)'
<1>1. RequestRead(v)' /\ AnswerFound(v)' /\ AnswerTrue(v)'
  BY DEF HandlerKnows, RequestRead, AnswerFound, AnswerTrue
<1>2. SessionHolds(v)' /\ BattleAbsent(v)' /\ SecondRead(v)'
  BY DEF HandlerKnows, SessionHolds, BattleAbsent, SecondRead, Live, Admitted
<1>3. QED
  BY <1>1, <1>2 DEF HandlerKnows

\* The log only grows.
LEMMA LogGrows ==
    ASSUME TypeOK, [Next]_vars
    PROVE  log \subseteq log'
<1>1. ASSUME NEW req \in Requests, Transaction(req)
      PROVE  log \subseteq log'
  BY <1>1, TransactionJournals, NewRowType
<1>2. QED
  BY <1>1 DEF Next, vars, consume_grant_and_initialize, delete_account,
              prune_expired, Tick

\* A handler that has finished with a true answer waits for maintenance.
LEMMA FinishedKnows ==
    ASSUME Typed, NEW w \in Workers, HandlerKnows(w), worker[w].pc # "idle",
           NEW reply \in Reply, Finish(w, reply),
           reply.code \notin {"not_found", "no_context", "invalid_context"},
           reply.mid # 0 /\ worker[w].req.route \in Routes =>
               \E e \in log' : e.mid = reply.mid /\ Executes(e, worker[w].req)
    PROVE  HandlerKnows(w)'
<1>1. /\ worker'[w].pc = "maintain"
      /\ worker'[w].req = worker[w].req
      /\ worker'[w].reply = reply
  BY DEF Finish, Typed, Handler
<1>2. RequestRead(w)' /\ AnswerFound(w)' /\ AnswerTrue(w)'
  BY <1>1 DEF HandlerKnows, RequestRead, AnswerFound, AnswerTrue
<1>3. SessionHolds(w)' /\ BattleAbsent(w)' /\ SecondRead(w)'
  BY <1>1 DEF SessionHolds, BattleAbsent, SecondRead
<1>4. QED
  BY <1>2, <1>3 DEF HandlerKnows

\* An error is a true answer.
LEMMA ErrorKnows ==
    ASSUME Typed, NEW w \in Workers, HandlerKnows(w), worker[w].pc # "idle",
           NEW c \in {"storage_busy", "join_error", "unauthorized",
                      "battle_already_active", "battle_not_active", "conflict",
                      "rejected"},
           Finish(w, Error(c))
    PROVE  HandlerKnows(w)'
<1>1. Error(c) \in Reply /\ Error(c).code = c /\ Error(c).mid = 0
  BY ReplyTypes DEF Error
<1>2. QED
  BY <1>1, FinishedKnows

\* And so is the answer of a direct route.
LEMMA DirectAnswerKnows ==
    ASSUME Typed, NEW w \in Workers, HandlerKnows(w), worker[w].pc # "idle",
           worker[w].req.route \notin Routes,
           NEW m \in Nat, Finish(w, Ok(m))
    PROVE  HandlerKnows(w)'
<1>1. Ok(m) \in Reply /\ Ok(m).code = "ok"
  BY ReplyTypes DEF Ok
<1>2. QED
  BY <1>1, FinishedKnows

\* A handler that goes on carries no answer yet.
LEMMA MovedKnows ==
    ASSUME Typed, NEW w \in Workers, HandlerKnows(w),
           worker[w].pc \in {"admit", "session", "guard", "transaction"},
           NEW pc \in {"session", "guard", "transaction"}, Goto(w, pc)
    PROVE  /\ worker'[w] = [worker[w] EXCEPT !.pc = pc]
           /\ worker'[w].pc = pc
           /\ worker'[w].req = worker[w].req
           /\ worker'[w].seen = worker[w].seen
           /\ RequestRead(w)' /\ AnswerFound(w)' /\ AnswerTrue(w)'
<1>1. /\ worker'[w] = [worker[w] EXCEPT !.pc = pc]
      /\ worker'[w].pc = pc
      /\ worker'[w].req = worker[w].req
      /\ worker'[w].seen = worker[w].seen
      /\ worker'[w].reply = worker[w].reply
  BY DEF Goto, Typed, Handler
<1>2. worker[w].pc # "idle" /\ worker[w].reply.mid = 0
  BY DEF HandlerKnows, AnswerTrue, Admitted
<1>3. QED
  BY <1>1, <1>2 DEF HandlerKnows, RequestRead, AnswerFound, AnswerTrue

\* The second read of a mutation: what gameplay_response finds is the row this
\* handler inserted, and it does find it.
LEMMA OwnRowFound ==
    ASSUME TypeOK, RowsUnique, NEW w \in Workers, HandlerKnows(w),
           worker[w].pc = "reread", worker[w].req.route \in Routes
    PROVE  LET req == worker[w].req
               own == {r \in journal :
                          /\ r.acct = req.acct
                          /\ \/ SameKey(r, req) /\ SameRequest(r, req)
                             \/ req.id = NoId /\ r.mid = worker[w].seen}
           IN  /\ own # {}
               /\ \A r \in own : r \in log /\ Executes(r, req)
<1> DEFINE req == worker[w].req
           own == {r \in journal :
                      /\ r.acct = req.acct
                      /\ \/ SameKey(r, req) /\ SameRequest(r, req)
                         \/ req.id = NoId /\ r.mid = worker[w].seen}
<1>1. PICK s \in journal : s.mid = worker[w].seen /\ Executes(s, req)
  BY DEF HandlerKnows, SecondRead, Routes, StartRoutes, HomeRoutes
<1>2. s \in own
  BY <1>1 DEF Executes, SameKey
<1>3. ASSUME NEW r \in own
      PROVE  r \in log /\ Executes(r, req)
  <2>1. r \in log
    BY DEF TypeOK
  <2>2. CASE SameKey(r, req) /\ SameRequest(r, req)
    BY <2>1, <2>2 DEF SameKey, Executes
  <2>3. CASE r.mid = worker[w].seen
    <3>1. r = s
      BY <1>1, <2>1, <2>3 DEF RowsUnique, TypeOK
    <3>2. QED
      BY <1>1, <2>1, <3>1
  <2>4. QED
    BY <2>2, <2>3
<1>4. QED
  BY <1>2, <1>3

\* The second read of battle_resume: the newest start row is there, and it is
\* that of the battle the handler saw.
LEMMA ContextFound ==
    ASSUME TypeOK, RowsUnique, RecoveryRow, NEW a \in Accounts,
           battle[a] # NoBattle
    PROVE  /\ latest_battle_start_response(a) # {}
           /\ \A r \in latest_battle_start_response(a) :
                  r.mid = battle[a].txid /\ r.mid \in Nat
<1>1. PICK s \in latest_battle_start_response(a) : s.mid = battle[a].txid
  BY DEF RecoveryRow
<1>2. ASSUME NEW r \in latest_battle_start_response(a)
      PROVE  r.mid = battle[a].txid /\ r.mid \in Nat
  <2>1. /\ r \in StartRows(a) /\ s \in StartRows(a)
        /\ r.mid <= s.mid /\ s.mid <= r.mid
    BY DEF latest_battle_start_response
  <2>2. r.mid \in Nat /\ s.mid \in Nat
    BY <2>1 DEF StartRows, TypeOK, Row
  <2>3. QED
    BY <1>1, <2>1, <2>2
<1>3. QED
  BY <1>1, <1>2

\* Before the transaction: what the handler looks up becomes what it knows.
LEMMA LookupKnows ==
    ASSUME Typed, NEW w \in Workers, HandlerKnows(w),
           \/ run_bounded_storage(w)
           \/ session(w)
           \/ ensure_noncombat_mutation_allowed(w)
    PROVE  HandlerKnows(w)'
<1>1. UNCHANGED vars
  BY DEF run_bounded_storage, session, ensure_noncombat_mutation_allowed
<1>2. CASE run_bounded_storage(w)
  <2>1. CASE worker' = [worker EXCEPT ![w].pc = "respond",
                                      ![w].reply = Error("storage_busy")]
    <3>1. /\ worker'[w].pc = "respond"
          /\ worker'[w].req = worker[w].req
          /\ worker'[w].reply = Error("storage_busy")
      BY <2>1 DEF Typed, Handler
    <3>2. /\ worker'[w].reply.mid = 0
          /\ worker'[w].reply.code = "storage_busy"
      BY <3>1 DEF Error
    <3>3. worker[w].pc = "admit"
      BY <1>2 DEF run_bounded_storage, At
    <3>4. RequestRead(w)' /\ AnswerTrue(w)' /\ AnswerFound(w)'
      BY <3>1, <3>2, <3>3 DEF HandlerKnows, RequestRead, AnswerTrue, AnswerFound
    <3>5. SessionHolds(w)' /\ BattleAbsent(w)' /\ SecondRead(w)'
      BY <3>1 DEF SessionHolds, BattleAbsent, SecondRead
    <3>6. QED
      BY <3>4, <3>5 DEF HandlerKnows
  <2>2. ASSUME NEW pc \in {"transaction", "session"}, Goto(w, pc),
               pc = "transaction" => worker[w].req.route = "sign_in"
        PROVE  HandlerKnows(w)'
    <3>1. worker[w].pc = "admit"
      BY <1>2 DEF run_bounded_storage, At
    <3>2. /\ worker'[w].pc = pc
          /\ worker'[w].req = worker[w].req
          /\ RequestRead(w)' /\ AnswerFound(w)' /\ AnswerTrue(w)'
      BY <2>2, <3>1, MovedKnows
    <3>3. QED
      BY <2>2, <3>2 DEF HandlerKnows, SessionHolds, BattleAbsent, SecondRead,
                        NoncombatRoutes
  <2>3. QED
    BY <1>2, <2>1, <2>2 DEF run_bounded_storage
<1>3. CASE session(w)
  <2>1. worker[w].pc = "session"
    BY <1>3 DEF session, At
  <2>2. CASE Finish(w, Error("unauthorized"))
    BY <2>1, <2>2, ErrorKnows
  <2>3. ASSUME NEW pc \in {"guard", "transaction"}, Goto(w, pc),
               Live(worker[w].req.acct),
               pc = "transaction" => worker[w].req.route \notin NoncombatRoutes
        PROVE  HandlerKnows(w)'
    <3>1. /\ worker'[w].pc = pc
          /\ worker'[w].req = worker[w].req
          /\ RequestRead(w)' /\ AnswerFound(w)' /\ AnswerTrue(w)'
      BY <2>1, <2>3, MovedKnows
    <3>2. QED
      BY <1>1, <2>3, <3>1 DEF HandlerKnows, SessionHolds, BattleAbsent,
                              SecondRead, Live, vars
  <2>4. QED
    BY <1>3, <2>2, <2>3 DEF session
<1>4. CASE ensure_noncombat_mutation_allowed(w)
  <2>1. worker[w].pc = "guard"
    BY <1>4 DEF ensure_noncombat_mutation_allowed, At
  <2>2. CASE Finish(w, Error("battle_already_active"))
    BY <2>1, <2>2, ErrorKnows
  <2>3. CASE Goto(w, "transaction") /\ battle[worker[w].req.acct] = NoBattle
    <3>1. /\ worker'[w].pc = "transaction"
          /\ worker'[w].req = worker[w].req
          /\ RequestRead(w)' /\ AnswerFound(w)' /\ AnswerTrue(w)'
      BY <2>1, <2>3, MovedKnows
    <3>2. SessionHolds(w)'
      BY <1>1, <2>1, <3>1 DEF HandlerKnows, SessionHolds, Live, vars
    <3>3. QED
      BY <1>1, <2>3, <3>1, <3>2 DEF HandlerKnows, BattleAbsent, SecondRead, vars
  <2>4. QED
    BY <1>4, <2>2, <2>3 DEF ensure_noncombat_mutation_allowed
<1>5. QED
  BY <1>2, <1>3, <1>4

\* A mutation that commits leaves its handler with the row it inserted.
LEMMA CommitKnows ==
    ASSUME TypeOK, Typed, NEW w \in Workers, HandlerKnows(w),
           worker[w].pc = "transaction", worker[w].req.route \in Routes,
           Transaction(worker[w].req),
           worker' = [worker EXCEPT ![w].pc = "reread", ![w].seen = nextMutation]
    PROVE  HandlerKnows(w)'
<1> DEFINE req == worker[w].req
<1>1. /\ worker'[w].pc = "reread"
      /\ worker'[w].req = req
      /\ worker'[w].seen = nextMutation
      /\ worker'[w].reply = worker[w].reply
  BY DEF Typed, Handler
<1>2. /\ req \in Requests
      /\ worker[w].reply.mid = 0
  BY RequestKinds DEF HandlerKnows, RequestRead, AnswerTrue
<1>3. /\ Journalled(req)
      /\ journal' = journal \union {NewRow(req)}
      /\ account' = account
  BY <1>2, TransactionJournals, NewRowType DEF Journalled
<1>4. NewRow(req).mid = nextMutation /\ Executes(NewRow(req), req)
  BY DEF NewRow, Executes, SameRequest
<1>5. SecondRead(w)'
  BY <1>1, <1>3, <1>4 DEF SecondRead, Executes, SameRequest
<1>6. SessionHolds(w)' /\ BattleAbsent(w)'
  BY <1>1, <1>3 DEF SessionHolds, BattleAbsent, Journalled, Live
<1>7. RequestRead(w)' /\ AnswerTrue(w)' /\ AnswerFound(w)'
  BY <1>1, <1>2 DEF HandlerKnows, RequestRead, AnswerTrue, AnswerFound
<1>8. QED
  BY <1>5, <1>6, <1>7 DEF HandlerKnows

\* A journalled transaction: replayed, refused or committed.
LEMMA TransactionKnows ==
    ASSUME TypeOK, Typed, RowsUnique, NEW w \in Workers, HandlerKnows(w),
           JournalledTransaction(w)
    PROVE  HandlerKnows(w)'
<1> DEFINE req == worker[w].req
<1>1. worker[w].pc = "transaction" /\ req.route \in Routes
  BY DEF JournalledTransaction, At
<1>2. ASSUME gameplay_replay(req) = "replay", UNCHANGED vars,
             NEW r \in Found(req), Finish(w, Ok(r.mid))
      PROVE  HandlerKnows(w)'
  <2>1. r \in log' /\ Executes(r, req)
    BY <1>2, ReplayIsExact DEF vars
  <2>2. r.mid \in Nat
    BY DEF Found, TypeOK, Row
  <2>3. Ok(r.mid) \in Reply /\ Ok(r.mid).code = "ok" /\ Ok(r.mid).mid = r.mid
    BY <2>2, ReplyTypes DEF Ok
  <2>4. QED
    BY <1>1, <1>2, <2>1, <2>3, FinishedKnows
<1>3. CASE Finish(w, Error("conflict")) \/ Finish(w, Error("rejected"))
  BY <1>1, <1>3, ErrorKnows
<1>4. CASE /\ Transaction(req)
           /\ worker' = [worker EXCEPT ![w].pc = "reread",
                                       ![w].seen = nextMutation]
  BY <1>1, <1>4, CommitKnows
<1>5. QED
  BY <1>2, <1>3, <1>4 DEF JournalledTransaction

\* The routes without a journal row.
LEMMA DirectKnows ==
    ASSUME Typed, NEW w \in Workers, HandlerKnows(w),
           sign_in(w) \/ user_login(w) \/ user_delete(w)
    PROVE  HandlerKnows(w)'
<1>1. /\ worker[w].pc = "transaction"
      /\ worker[w].req.route \in {"sign_in", "user_login", "user_delete"}
      /\ worker[w].req.route \notin Routes
  BY DEF sign_in, user_login, user_delete, At, Routes, StartRoutes, HomeRoutes
<1>2. CASE Finish(w, Ok(0))
  BY <1>1, <1>2, DirectAnswerKnows
<1>3. CASE Finish(w, Error("unauthorized")) \/ Finish(w, Error("rejected"))
  BY <1>1, <1>3, ErrorKnows
<1>4. ~(user_delete(w) /\ ~Live(worker[w].req.acct))
  BY <1>1 DEF user_delete, HandlerKnows, SessionHolds
<1>5. QED
  BY <1>2, <1>3, <1>4 DEF sign_in, user_login, user_delete

\* The second reads find what the first ones promised.
LEMMA SecondReadKnows ==
    ASSUME TypeOK, Typed, RowsUnique, RecoveryRow, NEW w \in Workers,
           HandlerKnows(w),
           \/ gameplay_response(w)
           \/ ResumeReadsBattle(w)
           \/ ResumeReadsContext(w)
    PROVE  HandlerKnows(w)'
<1> DEFINE req == worker[w].req
           a == req.acct
<1>1. UNCHANGED vars /\ worker[w].pc \in {"transaction", "reread"}
  BY DEF gameplay_response, ResumeReadsBattle, ResumeReadsContext, At
<1>2. a \in Accounts
  BY <1>1, RequestKinds DEF HandlerKnows, RequestRead
<1>3. CASE gameplay_response(w)
  <2> DEFINE own == {r \in journal :
                        /\ r.acct = req.acct
                        /\ \/ SameKey(r, req) /\ SameRequest(r, req)
                           \/ req.id = NoId /\ r.mid = worker[w].seen}
  <2>1. worker[w].pc = "reread" /\ req.route \in Routes
    BY <1>3 DEF gameplay_response, At
  <2>2. own # {} /\ \A r \in own : r \in log /\ Executes(r, req)
    BY <2>1, OwnRowFound
  <2>3. PICK r \in own : Finish(w, Ok(r.mid))
    BY <1>3, <2>2 DEF gameplay_response
  <2>4. r \in log' /\ Executes(r, req) /\ r.mid \in Nat
    BY <1>1, <2>2 DEF vars, TypeOK, Row
  <2>5. Ok(r.mid) \in Reply /\ Ok(r.mid).code = "ok" /\ Ok(r.mid).mid = r.mid
    BY <2>4, ReplyTypes DEF Ok
  <2>6. QED
    BY <2>1, <2>3, <2>4, <2>5, FinishedKnows
<1>4. CASE ResumeReadsBattle(w)
  <2>1. worker[w].pc = "transaction" /\ req.route = "battle_resume"
    BY <1>4 DEF ResumeReadsBattle, At
  <2>2. CASE Finish(w, Error("battle_not_active"))
    BY <2>1, <2>2, ErrorKnows
  <2>3. CASE /\ battle[a] # NoBattle
             /\ worker' = [worker EXCEPT ![w].pc = "reread",
                                         ![w].seen = battle[a].txid]
    <3>1. /\ worker'[w].pc = "reread"
          /\ worker'[w].req = req
          /\ worker'[w].seen = battle[a].txid
          /\ worker'[w].reply = worker[w].reply
          /\ worker[w].reply.mid = 0
      BY <2>1, <2>3 DEF Typed, Handler, HandlerKnows, AnswerTrue
    <3>2. RequestRead(w)' /\ AnswerTrue(w)' /\ AnswerFound(w)'
      BY <2>1, <3>1 DEF HandlerKnows, RequestRead, AnswerTrue, AnswerFound
    <3>3. SessionHolds(w)' /\ BattleAbsent(w)'
      BY <1>1, <2>1, <3>1 DEF HandlerKnows, SessionHolds, BattleAbsent, Live, vars
    <3>4. SecondRead(w)'
      BY <1>1, <2>1, <2>3, <3>1 DEF SecondRead, vars
    <3>5. QED
      BY <3>2, <3>3, <3>4 DEF HandlerKnows
  <2>4. QED
    BY <1>4, <2>2, <2>3 DEF ResumeReadsBattle
<1>5. CASE ResumeReadsContext(w)
  <2>1. /\ worker[w].pc = "reread" /\ req.route = "battle_resume"
        /\ req.route \notin Routes
    BY <1>5 DEF ResumeReadsContext, At, Routes, StartRoutes, HomeRoutes
  <2>2. battle[a] # NoBattle /\ battle[a].txid = worker[w].seen
    BY <2>1 DEF HandlerKnows, SecondRead
  <2>3. PICK r \in latest_battle_start_response(a) :
            Finish(w, Ok(r.mid)) /\ r.mid \in Nat
    BY <1>2, <1>5, <2>2, ContextFound DEF ResumeReadsContext
  <2>4. QED
    BY <2>1, <2>3, DirectAnswerKnows
<1>6. QED
  BY <1>3, <1>4, <1>5

\* Maintenance, the answer and a panic need nothing but the log.
LEMMA EndKnows ==
    ASSUME TypeOK, Typed, NEW w \in Workers, HandlerKnows(w), log \subseteq log',
           \/ Maintain(w)
           \/ Respond(w)
           \/ LoseResponse(w)
           \/ ReducerPanic(w)
           \/ lock_connection(w)
    PROVE  HandlerKnows(w)'
<1>1. CASE Maintain(w)
  <2>1. /\ worker[w].pc = "maintain" /\ worker'[w].pc = "respond"
        /\ worker'[w].req = worker[w].req
        /\ worker'[w].reply = worker[w].reply
    BY <1>1 DEF Maintain, Release, At, Typed, Handler
  <2>2. RequestRead(w)' /\ AnswerTrue(w)' /\ AnswerFound(w)'
    BY <2>1 DEF HandlerKnows, RequestRead, AnswerTrue, AnswerFound
  <2>3. SessionHolds(w)' /\ BattleAbsent(w)' /\ SecondRead(w)'
    BY <2>1 DEF SessionHolds, BattleAbsent, SecondRead
  <2>4. QED
    BY <2>2, <2>3 DEF HandlerKnows
<1>2. CASE Respond(w) \/ LoseResponse(w)
  <2>1. worker'[w] = Idle
    BY <1>2 DEF Respond, LoseResponse, Typed
  <2>2. QED
    BY <2>1 DEF HandlerKnows, RequestRead, SessionHolds, BattleAbsent,
                SecondRead, AnswerTrue, AnswerFound, Idle, NoReply
<1>3. CASE ReducerPanic(w) \/ lock_connection(w)
  <2>1. /\ worker[w].pc # "idle" /\ worker'[w].pc = "respond"
        /\ worker'[w].req = worker[w].req
        /\ worker'[w].reply.mid = 0
        /\ worker'[w].reply.code = "join_error"
    BY <1>3 DEF ReducerPanic, lock_connection, Unwind, At, Admitted, Error,
                Typed, Handler
  <2>2. RequestRead(w)' /\ AnswerTrue(w)' /\ AnswerFound(w)'
    BY <2>1 DEF HandlerKnows, RequestRead, AnswerTrue, AnswerFound
  <2>3. SessionHolds(w)' /\ BattleAbsent(w)' /\ SecondRead(w)'
    BY <2>1 DEF SessionHolds, BattleAbsent, SecondRead
  <2>4. QED
    BY <2>2, <2>3 DEF HandlerKnows
<1>4. QED
  BY <1>1, <1>2, <1>3

\* The gate at work: while a handler changes the tables, no other one is
\* between its lookup and its transaction, or between its two reads.
LEMMA KnowledgeStep ==
    ASSUME DispatchInv, [DispatchNext]_dispatchVars
    PROVE  \A v \in Workers : HandlerKnows(v)'
<1> SUFFICES ASSUME NEW v \in Workers
             PROVE  HandlerKnows(v)'
  OBVIOUS
<1>1. /\ TypeOK /\ RowsOrdered /\ RecoveryRow
      /\ Typed /\ GateHeld /\ RowsUnique /\ HandlerKnows(v)
  BY DEF DispatchInv, JournalInv
<1>2. log \subseteq log'
  BY <1>1, JournalStep, LogGrows DEF DispatchInv, HandlerKnows
<1>3. ASSUME NEW w \in Workers, Step(w)
      PROVE  HandlerKnows(v)'
  <2>1. CASE v = w
    BY <1>1, <1>2, <1>3, <2>1, LookupKnows, TransactionKnows, DirectKnows,
       SecondReadKnows, EndKnows DEF Step
  <2>2. CASE v # w
    <3>1. worker'[v] = worker[v]
      BY <1>1, <1>3, <2>2, StepIsLocal
    <3>2. UNCHANGED vars \/ worker[v].pc \notin Admitted
      BY <1>1, <1>3, <2>2, StepJournal DEF DispatchInv, HandlerKnows, GateHeld
    <3>3. QED
      BY <1>1, <1>2, <3>1, <3>2, KnowledgeKept DEF vars
  <2>3. QED
    BY <2>1, <2>2
<1>4. ASSUME NEW w \in Workers, NEW req \in ClientRequests, Receive(w, req)
      PROVE  HandlerKnows(v)'
  <2>1. CASE v = w
    <3>1. /\ worker[v].pc = "idle" /\ worker'[v].pc = "admit"
          /\ worker'[v].req = req
          /\ worker'[v].reply = worker[v].reply
      BY <1>1, <1>4, <2>1 DEF Receive, At, Typed, Handler
    <3>2. RequestRead(v)' /\ AnswerTrue(v)' /\ AnswerFound(v)'
      BY <1>1, <3>1 DEF HandlerKnows, RequestRead, AnswerTrue, AnswerFound
    <3>3. SessionHolds(v)' /\ BattleAbsent(v)' /\ SecondRead(v)'
      BY <3>1 DEF SessionHolds, BattleAbsent, SecondRead
    <3>4. QED
      BY <3>2, <3>3 DEF HandlerKnows
  <2>2. CASE v # w
    <3>1. worker'[v] = worker[v]
      BY <1>1, <1>4, <2>2 DEF Receive, Typed
    <3>2. QED
      BY <1>1, <1>2, <1>4, <3>1, KnowledgeKept DEF Receive, vars
  <2>3. QED
    BY <2>1, <2>2
<1>5. CASE Restart
  <2>1. worker'[v] = Idle
    BY <1>5 DEF Restart
  <2>2. QED
    BY <2>1 DEF HandlerKnows, RequestRead, SessionHolds, BattleAbsent,
                SecondRead, AnswerTrue, AnswerFound, Idle, NoReply
<1>6. CASE Tick /\ UNCHANGED serverVars
  BY <1>1, <1>2, <1>6, KnowledgeKept DEF Tick, serverVars
<1>7. CASE UNCHANGED dispatchVars
  BY <1>1, <1>2, <1>7, KnowledgeKept DEF dispatchVars, serverVars, vars
<1>8. QED
  BY <1>3, <1>4, <1>5, <1>6, <1>7 DEF DispatchNext

-----------------------------------------------------------------------------
(* The theorems about DispatchSpec *)

\* An answer given was about to be given.
LEMMA AnswersStep ==
    ASSUME DispatchInv, [DispatchNext]_dispatchVars
    PROVE  AnswersAreExecutions'
<1>1. /\ TypeOK /\ \A w \in Workers : HandlerKnows(w)
      /\ AnswersAreExecutions
  BY DEF DispatchInv, JournalInv
<1>2. log \subseteq log'
  BY <1>1, JournalStep, LogGrows DEF HandlerKnows
<1>3. ASSUME NEW w \in Workers, Respond(w)
      PROVE  AnswersAreExecutions'
  <2>1. CASE worker[w].reply.mid = 0
    BY <1>1, <1>2, <1>3, <2>1 DEF Respond, AnswersAreExecutions, SameRequest
  <2>2. CASE worker[w].reply.mid # 0
    <3> DEFINE x == [req |-> worker[w].req, mid |-> worker[w].reply.mid]
    <3>1. answered' = answered \union {x}
      BY <1>3, <2>2 DEF Respond
    <3>2. x.req.route \in Routes =>
              \E e \in log : e.mid = x.mid /\ Executes(e, x.req)
      BY <1>1, <2>2 DEF HandlerKnows, AnswerTrue
    <3>3. QED
      BY <1>1, <1>2, <3>1, <3>2 DEF AnswersAreExecutions, Executes
  <2>3. QED
    BY <2>1, <2>2
<1>4. CASE answered' = answered
  BY <1>1, <1>2, <1>4 DEF AnswersAreExecutions
<1>5. QED
  BY <1>3, <1>4
     DEF DispatchNext, dispatchVars, serverVars, Receive, Restart, Step,
         run_bounded_storage, session, Maintain, Unwind,
         ensure_noncombat_mutation_allowed, JournalledTransaction,
         gameplay_response, sign_in, user_login, user_delete, LoseResponse,
         ResumeReadsBattle, ResumeReadsContext, ReducerPanic, lock_connection

LEMMA DispatchInitial == DispatchInit => DispatchInv
<1> SUFFICES ASSUME DispatchInit PROVE DispatchInv
  OBVIOUS
<1>1. JournalInv
  BY JournalInitial DEF DispatchInit
<1>2. Typed
  <2>1. worker \in [Workers -> Handler]
    BY IdleType DEF DispatchInit
  <2>2. tick \in 0..(MaintenanceEvery - 1)
    BY DispatchAssumption DEF DispatchInit
  <2>3. permits \in 0..StorageGatePermits
    BY DEF DispatchInit, StorageGatePermits
  <2>4. poisoned \in BOOLEAN /\ answered = {}
    BY DEF DispatchInit
  <2>5. QED
    BY <2>1, <2>2, <2>3, <2>4 DEF Typed
<1>3. GateHeld
  BY DEF DispatchInit, GateHeld, Idle, Admitted, StorageGatePermits
<1>4. RowsUnique
  BY DEF DispatchInit, Init, RowsUnique
<1>5. \A w \in Workers : HandlerKnows(w)
  BY DEF DispatchInit, HandlerKnows, RequestRead, SessionHolds, BattleAbsent,
         SecondRead, AnswerTrue, AnswerFound, Idle, NoReply
<1>6. AnswersAreExecutions
  BY DEF DispatchInit, AnswersAreExecutions
<1>7. QED
  BY <1>1, <1>2, <1>3, <1>4, <1>5, <1>6 DEF DispatchInv

LEMMA DispatchStep ==
    ASSUME DispatchInv, [DispatchNext]_dispatchVars
    PROVE  DispatchInv'
<1>1. /\ JournalInv /\ TypeOK /\ RowsOrdered
      /\ Typed /\ GateHeld /\ RowsUnique
      /\ \A w \in Workers : HandlerKnows(w)
  BY DEF DispatchInv, JournalInv
<1>2. [Next]_vars
  BY <1>1, JournalStep DEF HandlerKnows
<1>3. JournalInv'
  BY <1>1, <1>2, TypeStep, OrderStep, RecoveryStep, TagsStep DEF JournalInv
<1>4. Typed' /\ GateHeld' /\ RowsUnique'
  BY <1>1, <1>2, TypedStep, GateStep, RowsUniqueStep
<1>5. QED
  BY <1>3, <1>4, KnowledgeStep, AnswersStep DEF DispatchInv

LEMMA DispatchInvariance == DispatchSpec => []DispatchInv
<1>1. DispatchInv /\ [DispatchNext]_dispatchVars => DispatchInv'
  BY DispatchStep
<1>2. QED
  BY DispatchInitial, <1>1, PTL DEF DispatchSpec

\* The server with its gate, checks, second reads, maintenance, panics and
\* restarts does nothing to the tables but run the transactions of Journal.
THEOREM DispatchRunsJournal == DispatchSpec => Spec
<1>1. DispatchInit => Init
  BY DEF DispatchInit
<1>2. DispatchInv /\ [DispatchNext]_dispatchVars => [Next]_vars
  BY JournalStep DEF DispatchInv, HandlerKnows
<1>3. QED
  BY <1>1, <1>2, DispatchInvariance, PTL DEF DispatchSpec, Spec

\* The handlers keep their types, and the one permit of the storage gate is
\* free or held by one handler: panics and restarts neither leak nor double it.
THEOREM GateAdmitsOne == DispatchSpec => []DispatchTypeOK
<1>1. DispatchInv => DispatchTypeOK
  BY GateCounts DEF DispatchInv
<1>2. QED
  BY <1>1, DispatchInvariance, PTL

\* Whatever a client is told was computed by an execution of its own request.
THEOREM AnswersAreTrue == DispatchSpec => []AnswersAreExecutions
BY DispatchInvariance, PTL DEF DispatchInv

\* A handler that committed finds its row again, and one that saw a battle
\* finds the context of its start: gameplay_response and battle_resume never
\* answer with the errors they keep for a missing row.
THEOREM SecondReadsSucceed == DispatchSpec => []SecondReadSucceeds
<1>1. DispatchInv => SecondReadSucceeds
  BY DEF DispatchInv, HandlerKnows, AnswerFound, SecondReadSucceeds
<1>2. QED
  BY <1>1, DispatchInvariance, PTL

\* No request id is executed twice within the retention window, whatever the
\* clients repeat and the server loses.
THEOREM RetriesRunOnce == DispatchSpec => []RetryWindow
BY DispatchRunsJournal, RequestsRunOnce, PTL

\* A row is inserted by the handler in its transaction, after its lookup.
LEMMA InsertedOutsideBattle ==
    ASSUME DispatchInv, [DispatchNext]_dispatchVars, NEW r \in log' \ log,
           r.route \in NoncombatRoutes
    PROVE  battle[r.acct] = NoBattle
<1>1. \A w \in Workers : HandlerKnows(w)
  BY DEF DispatchInv
<1>2. ASSUME NEW w \in Workers, JournalledTransaction(w)
      PROVE  battle[r.acct] = NoBattle
  <2> DEFINE req == worker[w].req
  <2>1. worker[w].pc = "transaction" /\ req \in Requests
    BY <1>1, <1>2, RequestKinds
       DEF JournalledTransaction, At, HandlerKnows, RequestRead
  <2>2. Transaction(req)
    BY <1>2 DEF JournalledTransaction, vars
  <2>3. log' = log \union {NewRow(req)}
    BY <2>1, <2>2, TransactionJournals, NewRowType DEF DispatchInv, JournalInv
  <2>4. r.acct = req.acct /\ r.route = req.route
    BY <2>3 DEF NewRow
  <2>5. QED
    BY <1>1, <2>1, <2>4 DEF HandlerKnows, BattleAbsent
<1>3. CASE log' = log
  BY <1>3
<1>4. QED
  BY <1>2, <1>3
     DEF DispatchNext, dispatchVars, vars, Receive, Restart, Step, Tick,
         run_bounded_storage, session, Maintain, Unwind, Respond, prune_expired,
         ensure_noncombat_mutation_allowed, consume_grant_and_initialize,
         delete_account, gameplay_response, sign_in, user_login, user_delete,
         LoseResponse, ResumeReadsBattle, ResumeReadsContext, ReducerPanic,
         lock_connection

\* No noncombat mutation commits while its account has a battle, although the
\* check and the transaction lock the connection separately.
THEOREM NoncombatStaysOutside == DispatchSpec => NoncombatOutsideBattle
<1>1. DispatchInv /\ [DispatchNext]_dispatchVars =>
          [\A r \in log' \ log :
              r.route \in NoncombatRoutes => battle[r.acct] = NoBattle]_dispatchVars
  BY InsertedOutsideBattle
<1>2. QED
  BY <1>1, DispatchInvariance, PTL DEF DispatchSpec, NoncombatOutsideBattle
-----------------------------------------------------------------------------
(* The size of the journal *)

\* What keeps the journal small: the process is never killed between a commit
\* and its maintenance, no maintenance fails, and one maintenance may take away
\* as many rows as a round of requests adds.
MaintenanceKeepsUp ==
    /\ Faults \intersect {"crash", "prune_error"} = {}
    /\ IsFiniteSet(Accounts)
    /\ MaintenanceEvery <= PruneBatch

\* What a maintenance that finds all expired rows leaves at most.
Retained == Cardinality(Accounts) * (RetentionCount + 1)

\* The requests completed since the last maintenance, ...
SinceMaintenance == IF tick = 0 THEN MaintenanceEvery - 1 ELSE tick - 1

\* ... and the one that is through with its transaction.
Pending == IF \E w \in Workers : worker[w].pc \in {"reread", "maintain"}
           THEN 1 ELSE 0

\* Each of them added one row at most.  Under a poisoned mutex no row is added
\* until the restart, which begins with a maintenance.
WithinRound ==
    Cardinality(journal)
        <= Retained + IF poisoned THEN MaintenanceEvery - 1
                      ELSE SinceMaintenance + Pending

\* A row is found again from its account and its place among the rows that a
\* maintenance leaves there: the number of newer rows, or the last place for
\* the spared row.
LEMMA RetainedRows ==
    ASSUME JournalInv, RowsUnique, IsFiniteSet(Accounts)
    PROVE  /\ IsFiniteSet(journal \ Prunable)
           /\ Cardinality(journal \ Prunable) <= Retained
<1> DEFINE K == journal \ Prunable
           newer(r) == Cardinality(NewerRows(r))
           place(r) == IF Stale(r) THEN RetentionCount ELSE newer(r)
           f == [r \in K |-> <<r.acct, place(r)>>]
           Places == Accounts \X (0..RetentionCount)
<1>1. /\ IsFiniteSet(journal)
      /\ \A r \in journal : r.acct \in Accounts /\ r.mid \in Nat
      /\ \A r, s \in journal : r.mid = s.mid => r = s
      /\ RetentionCount \in Nat \ {0}
  <2>1. journal \subseteq log /\ log \subseteq Row /\ IsFiniteSet(log)
    BY DEF JournalInv, TypeOK, RowsOrdered
  <2>2. QED
    BY <2>1, FS_Subset, RetentionAssumption DEF RowsUnique, Row
<1>2. \A r \in journal : IsFiniteSet(NewerRows(r)) /\ newer(r) \in Nat
  BY <1>1, FS_Subset, FS_CardinalityType DEF NewerRows
<1>3. \A r, s \in journal :
          r.acct = s.acct /\ r.mid < s.mid => newer(s) < newer(r)
  <2> SUFFICES ASSUME NEW r \in journal, NEW s \in journal,
                      r.acct = s.acct, r.mid < s.mid
               PROVE  newer(s) < newer(r)
    OBVIOUS
  <2>1. NewerRows(s) \subseteq NewerRows(r)
    BY <1>1 DEF NewerRows
  <2>2. s \in NewerRows(r) /\ s \notin NewerRows(s)
    BY <1>1 DEF NewerRows
  <2>3. NewerRows(s) # NewerRows(r)
    BY <2>2
  <2>4. QED
    BY <1>2, <2>1, <2>3, FS_Subset
<1>4. \A r \in K : r \in journal /\ (Stale(r) => Spared(r))
  BY DEF Prunable
<1>5. \A r \in K : place(r) \in 0..RetentionCount
                   /\ (~Stale(r) => place(r) < RetentionCount)
  BY <1>1, <1>2, <1>4 DEF Stale
<1>6. \A r, s \in journal : Spared(r) /\ Spared(s) /\ r.acct = s.acct => r = s
  <2> SUFFICES ASSUME NEW r \in journal, NEW s \in journal,
                      Spared(r), Spared(s), r.acct = s.acct
               PROVE  r = s
    OBVIOUS
  <2>1. r.mid <= s.mid /\ s.mid <= r.mid
    BY DEF Spared, latest_battle_start_response
  <2>2. QED
    BY <1>1, <2>1
<1>7. \A r, s \in K : r.acct = s.acct /\ place(r) = place(s) => r = s
  <2> SUFFICES ASSUME NEW r \in K, NEW s \in K,
                      r.acct = s.acct, place(r) = place(s)
               PROVE  r = s
    OBVIOUS
  <2>1. Stale(r) = Stale(s)
    BY <1>1, <1>5 DEF Stale
  <2>2. CASE Stale(r)
    BY <1>4, <1>6, <2>1, <2>2
  <2>3. CASE ~Stale(r)
    <3>1. newer(r) = newer(s)
      BY <2>1, <2>3
    <3>2. ~(r.mid < s.mid) /\ ~(s.mid < r.mid)
      BY <1>2, <1>3, <1>4, <3>1
    <3>3. QED
      BY <1>1, <1>4, <3>2
  <2>4. QED
    BY <2>2, <2>3
<1>8. f \in Injection(K, Places)
  <2>1. f \in [K -> Places]
    BY <1>1, <1>4, <1>5
  <2>2. \A r, s \in K : f[r] = f[s] => r = s
    BY <1>7
  <2>3. QED
    BY <2>1, <2>2 DEF Injection, IsInjective
<1>9. /\ IsFiniteSet(Places)
      /\ Cardinality(Places) = Retained
  <2>1. IsFiniteSet(0..RetentionCount)
        /\ Cardinality(0..RetentionCount) = RetentionCount + 1
    BY <1>1, FS_Interval
  <2>2. QED
    BY <2>1, FS_Product DEF Retained
<1>10. QED
  BY <1>8, <1>9, FS_Injection

\* A maintenance takes away the expired rows, or a batch of them.
LEMMA PruneMakesRoom ==
    ASSUME JournalInv, RowsUnique, MaintenanceKeepsUp, prune_expired,
           Cardinality(journal) <= Retained + MaintenanceEvery
    PROVE  Cardinality(journal') <= Retained
<1>1. IsFiniteSet(journal) /\ Cardinality(journal) \in Nat
  BY FS_Subset, FS_CardinalityType DEF JournalInv, TypeOK, RowsOrdered
<1>2. PICK D \in SUBSET Prunable :
          /\ \/ D = Prunable /\ Cardinality(D) <= PruneBatch
             \/ Cardinality(D) = PruneBatch
          /\ journal' = journal \ D
  BY DEF prune_expired
<1>3. CASE D = Prunable
  BY <1>2, <1>3, RetainedRows DEF MaintenanceKeepsUp
<1>4. CASE Cardinality(D) = PruneBatch
  <2>1. D \subseteq journal
    BY <1>2 DEF Prunable
  <2>2. Cardinality(journal \ D) = Cardinality(journal) - Cardinality(D)
    <3>1. journal \intersect D = D
      BY <2>1
    <3>2. QED
      BY <1>1, <3>1, FS_Difference
  <2>3. Retained \in Nat
    BY FS_CardinalityType, RetentionAssumption DEF Retained, MaintenanceKeepsUp
  <2>4. QED
    BY <1>1, <1>2, <1>4, <2>2, <2>3, JournalAssumption, DispatchAssumption
       DEF MaintenanceKeepsUp
<1>5. QED
  BY <1>2, <1>3, <1>4

\* The round counter: a maintenance starts it again, a request without one
\* moves it on.
LEMMA RoundTurns ==
    ASSUME Typed, tick' = (tick + 1) % MaintenanceEvery
    PROVE  /\ tick = 0 => SinceMaintenance' = 0
           /\ tick # 0 => SinceMaintenance' = SinceMaintenance + 1
<1>1. MaintenanceEvery \in Nat \ {0} /\ tick \in 0..(MaintenanceEvery - 1)
  BY DispatchAssumption DEF Typed
<1>2. CASE tick + 1 = MaintenanceEvery
  <2>1. tick' = 0
    BY <1>1, <1>2
  <2>2. QED
    BY <1>1, <1>2, <2>1 DEF SinceMaintenance
<1>3. CASE tick + 1 < MaintenanceEvery
  <2>1. tick' = tick + 1
    BY <1>1, <1>3
  <2>2. QED
    BY <1>1, <2>1 DEF SinceMaintenance
<1>4. QED
  BY <1>1, <1>2, <1>3

\* The handler in its transaction is the only one inside the gate.
LEMMA NonePending ==
    ASSUME GateHeld, NEW w \in Workers, At(w, "transaction")
    PROVE  Pending = 0
BY DEF GateHeld, Admitted, At, Pending

\* The handler that ends its maintenance was the one pending.
LEMMA PendingEnds ==
    ASSUME Typed, GateHeld, NEW w \in Workers, At(w, "maintain"), Release(w)
    PROVE  Pending = 1 /\ Pending' = 0
<1>1. worker'[w].pc = "respond" /\ \A v \in Workers \ {w} : worker'[v] = worker[v]
  BY DEF Release, Typed, Handler
<1>2. \A v \in Workers \ {w} : worker[v].pc \notin Admitted
  BY DEF GateHeld, Admitted, At
<1>3. Pending = 1
  BY DEF Pending, At
<1>4. \A v \in Workers : worker'[v].pc \notin {"reread", "maintain"}
  BY <1>1, <1>2 DEF Admitted
<1>5. QED
  BY <1>3, <1>4 DEF Pending

\* A transaction adds a row, its handler becomes the one pending.
LEMMA CommitWithinRound ==
    ASSUME DispatchInv, MaintenanceKeepsUp, WithinRound,
           NEW w \in Workers, JournalledTransaction(w)
    PROVE  WithinRound'
<1> DEFINE req == worker[w].req
<1>1. /\ Typed /\ GateHeld /\ RequestRead(w) /\ TypeOK
      /\ IsFiniteSet(journal) /\ Cardinality(journal) \in Nat
  BY FS_Subset, FS_CardinalityType
     DEF DispatchInv, HandlerKnows, JournalInv, TypeOK, RowsOrdered
<1>2. ~poisoned /\ ~poisoned' /\ tick' = tick /\ At(w, "transaction")
  BY DEF JournalledTransaction
<1>3. Pending = 0
  BY <1>1, <1>2, NonePending
<1>4. Retained' = Retained /\ SinceMaintenance' = SinceMaintenance
  BY <1>2 DEF Retained, SinceMaintenance
<1>5. Retained \in Nat /\ SinceMaintenance \in Nat
  BY <1>1, FS_CardinalityType, RetentionAssumption, DispatchAssumption
     DEF Retained, MaintenanceKeepsUp, SinceMaintenance, Typed
<1>6. CASE UNCHANGED vars
  <2>1. Pending' \in {0, 1} /\ journal' = journal
    BY <1>6 DEF Pending, vars
  <2>2. QED
    BY <1>1, <1>2, <1>3, <1>4, <1>5, <2>1 DEF WithinRound
<1>7. CASE Transaction(req) /\ worker' = [worker EXCEPT ![w].pc = "reread",
                                                        ![w].seen = nextMutation]
  <2>1. worker'[w].pc = "reread"
    BY <1>1, <1>7 DEF Typed, Handler
  <2>2. Pending' = 1
    BY <2>1 DEF Pending
  <2>3. journal' = journal \union {NewRow(req)}
    BY <1>7, TransactionJournals DEF Journalled, NewRow
  <2>4. Cardinality(journal') <= Cardinality(journal) + 1
    <3>1. \/ Cardinality(journal \union {NewRow(req)}) = Cardinality(journal)
          \/ Cardinality(journal \union {NewRow(req)}) = Cardinality(journal) + 1
      BY <1>1, FS_AddElement, Zenon
    <3>2. \/ Cardinality(journal') = Cardinality(journal)
          \/ Cardinality(journal') = Cardinality(journal) + 1
      BY <2>3, <3>1
    <3>3. QED
      BY ONLY <1>1, <3>2
  <2>5. IsFiniteSet(journal') /\ Cardinality(journal') \in Nat
    BY <1>1, <2>3, FS_AddElement, FS_CardinalityType
  <2>6. QED
    BY <1>1, <1>2, <1>3, <1>4, <1>5, <2>2, <2>4, <2>5 DEF WithinRound
<1>8. QED
  BY <1>6, <1>7 DEF JournalledTransaction

\* Whoever adds no row and lets nobody out of maintenance keeps the bound.
LEMMA QuietWithinRound ==
    ASSUME DispatchInv, MaintenanceKeepsUp, WithinRound,
           journal' \subseteq journal, poisoned' = poisoned, tick' = tick,
           \A w \in Workers : worker[w].pc \in {"reread", "maintain"} =>
                              worker'[w].pc \in {"reread", "maintain"}
    PROVE  WithinRound'
<1>1. IsFiniteSet(journal) /\ Cardinality(journal) \in Nat
  BY FS_Subset, FS_CardinalityType
     DEF DispatchInv, JournalInv, TypeOK, RowsOrdered
<1>2. /\ Cardinality(journal') \in Nat
      /\ Cardinality(journal') <= Cardinality(journal)
  BY <1>1, FS_Subset, FS_CardinalityType
<1>3. Retained \in Nat /\ SinceMaintenance \in Nat /\ MaintenanceEvery \in Nat
  BY FS_CardinalityType, RetentionAssumption, DispatchAssumption
     DEF DispatchInv, Retained, MaintenanceKeepsUp, SinceMaintenance, Typed
<1>4. Pending \in {0, 1} /\ Pending' \in {0, 1} /\ (Pending = 1 => Pending' = 1)
  BY DEF Pending
<1>5. Retained' = Retained /\ SinceMaintenance' = SinceMaintenance
  BY DEF Retained, SinceMaintenance
<1>6. QED
  BY <1>1, <1>2, <1>3, <1>4, <1>5 DEF WithinRound

\* The end of a request: with a maintenance the count starts again, without
\* one the round is one request older.
LEMMA MaintainWithinRound ==
    ASSUME DispatchInv, MaintenanceKeepsUp, WithinRound,
           NEW w \in Workers, Maintain(w)
    PROVE  WithinRound'
<1>1. /\ JournalInv /\ RowsUnique /\ Typed /\ GateHeld
      /\ IsFiniteSet(journal) /\ Cardinality(journal) \in Nat
  BY FS_Subset, FS_CardinalityType
     DEF DispatchInv, JournalInv, TypeOK, RowsOrdered
<1>2. /\ poisoned' = poisoned /\ poisoned \in BOOLEAN
      /\ At(w, "maintain") /\ Release(w)
      /\ tick' = (tick + 1) % MaintenanceEvery
  BY <1>1 DEF Maintain, Typed
<1>3. Pending = 1 /\ Pending' = 0
  BY <1>1, <1>2, PendingEnds
<1>4. /\ Retained \in Nat /\ SinceMaintenance \in Nat
      /\ MaintenanceEvery \in Nat \ {0} /\ SinceMaintenance < MaintenanceEvery
  BY <1>1, FS_CardinalityType, RetentionAssumption, DispatchAssumption
     DEF Retained, MaintenanceKeepsUp, SinceMaintenance, Typed
<1>5. Retained' = Retained
  BY DEF Retained
<1>6. CASE maintenance_due /\ ~poisoned /\ prune_expired
  <2>1. Cardinality(journal) <= Retained + MaintenanceEvery
    BY <1>1, <1>3, <1>4, <1>6 DEF WithinRound
  <2>2. Cardinality(journal') <= Retained
    BY <1>1, <1>6, <2>1, PruneMakesRoom
  <2>3. SinceMaintenance' = 0
    BY <1>1, <1>2, <1>6, RoundTurns DEF maintenance_due
  <2>4. Retained' + (SinceMaintenance' + Pending') = Retained
    BY <1>3, <1>4, <1>5, <2>3
  <2>5. QED
    BY <1>2, <1>6, <2>2, <2>4 DEF WithinRound
<1>7. CASE ~maintenance_due /\ UNCHANGED vars
  <2>1. journal' = journal
    BY <1>7 DEF vars
  <2>2. SinceMaintenance' = SinceMaintenance + 1
    BY <1>1, <1>2, <1>7, RoundTurns DEF maintenance_due
  <2>3. QED
    BY <1>1, <1>2, <1>3, <1>4, <1>5, <2>1, <2>2 DEF WithinRound
<1>8. QED
  BY <1>6, <1>7 DEF Maintain, MaintenanceKeepsUp

\* A panic: the reducer's before its row, all later ones under the poisoned
\* mutex.
LEMMA PanicWithinRound ==
    ASSUME DispatchInv, MaintenanceKeepsUp, WithinRound,
           NEW w \in Workers, ReducerPanic(w) \/ lock_connection(w)
    PROVE  WithinRound'
<1>1. /\ Typed /\ GateHeld
      /\ Cardinality(journal) \in Nat
  BY FS_Subset, FS_CardinalityType
     DEF DispatchInv, JournalInv, TypeOK, RowsOrdered
<1>2. journal' = journal /\ poisoned' /\ Retained' = Retained
  BY DEF ReducerPanic, lock_connection, Unwind, vars, Retained
<1>3. /\ Retained \in Nat /\ SinceMaintenance \in Nat
      /\ MaintenanceEvery \in Nat \ {0} /\ SinceMaintenance < MaintenanceEvery
  BY <1>1, FS_CardinalityType, RetentionAssumption, DispatchAssumption
     DEF Retained, MaintenanceKeepsUp, SinceMaintenance, Typed
<1>4. CASE ReducerPanic(w)
  <2>1. Pending = 0 /\ ~poisoned
    BY <1>1, <1>4, NonePending DEF ReducerPanic
  <2>2. QED
    BY <1>1, <1>2, <1>3, <2>1 DEF WithinRound
<1>5. CASE lock_connection(w)
  BY <1>2, <1>5 DEF lock_connection, WithinRound
<1>6. QED
  BY <1>4, <1>5

\* A restart between requests finds nobody inside the gate, and its first
\* request ends with a maintenance.
LEMMA RestartWithinRound ==
    ASSUME DispatchInv, MaintenanceKeepsUp, WithinRound, Restart
    PROVE  WithinRound'
<1>1. Typed /\ Cardinality(journal) \in Nat
  BY FS_Subset, FS_CardinalityType
     DEF DispatchInv, JournalInv, TypeOK, RowsOrdered
<1>2. /\ journal' = journal /\ ~poisoned' /\ tick' = 0
      /\ worker' = [w \in Workers |-> Idle]
      /\ \A w \in Workers : worker[w].pc \notin Admitted
  BY DEF Restart, vars, MaintenanceKeepsUp
<1>3. Pending = 0 /\ Pending' = 0
  BY <1>2 DEF Pending, Admitted, Idle
<1>4. /\ Retained \in Nat /\ SinceMaintenance \in Nat
      /\ MaintenanceEvery \in Nat \ {0} /\ SinceMaintenance < MaintenanceEvery
      /\ Retained' = Retained /\ SinceMaintenance' = MaintenanceEvery - 1
  BY <1>1, <1>2, FS_CardinalityType, RetentionAssumption, DispatchAssumption
     DEF Retained, MaintenanceKeepsUp, SinceMaintenance, Typed
<1>5. QED
  BY <1>1, <1>2, <1>3, <1>4 DEF WithinRound

LEMMA WithinRoundStep ==
    ASSUME DispatchInv, MaintenanceKeepsUp, WithinRound,
           [DispatchNext]_dispatchVars
    PROVE  WithinRound'
<1> DEFINE Stays == \A v \in Workers :
                        worker[v].pc \in {"reread", "maintain"} =>
                        worker'[v].pc \in {"reread", "maintain"}
<1>1. Typed
  BY DEF DispatchInv
<1>2. ASSUME NEW w \in Workers, Step(w)
      PROVE  WithinRound'
  <2>1. \A v \in Workers \ {w} : worker'[v] = worker[v]
    BY <1>1, <1>2, StepIsLocal
  <2>2. CASE JournalledTransaction(w)
    BY <2>2, CommitWithinRound
  <2>3. CASE Maintain(w)
    BY <2>3, MaintainWithinRound
  <2>4. CASE ReducerPanic(w) \/ lock_connection(w)
    BY <2>4, PanicWithinRound
  <2>5. CASE \/ run_bounded_storage(w) \/ session(w)
             \/ ensure_noncombat_mutation_allowed(w) \/ Respond(w)
             \/ LoseResponse(w) \/ ResumeReadsBattle(w)
    <3>1. worker[w].pc \notin {"reread", "maintain"}
      BY <2>5 DEF run_bounded_storage, session, Respond, LoseResponse, At,
                  ensure_noncombat_mutation_allowed, ResumeReadsBattle
    <3>2. UNCHANGED <<vars, poisoned, tick>>
      BY <2>5 DEF run_bounded_storage, session, Respond, LoseResponse,
                  ensure_noncombat_mutation_allowed, ResumeReadsBattle
    <3>3. journal' = journal /\ poisoned' = poisoned /\ tick' = tick /\ Stays
      BY <2>1, <3>1, <3>2 DEF vars
    <3>4. QED
      BY <3>3, QuietWithinRound
  <2>6. CASE \/ gameplay_response(w) \/ user_login(w) \/ ResumeReadsContext(w)
             \/ sign_in(w) \/ user_delete(w)
    <3>1. worker'[w].pc = "maintain"
      BY <1>1, <2>6 DEF gameplay_response, user_login, ResumeReadsContext,
                        sign_in, user_delete, Finish, Typed, Handler
    <3>2. poisoned' = poisoned /\ tick' = tick /\ Stays
      BY <2>1, <2>6, <3>1 DEF gameplay_response, user_login,
                              ResumeReadsContext, sign_in, user_delete
    <3>3. journal' \subseteq journal
      BY <2>6 DEF gameplay_response, user_login, ResumeReadsContext, sign_in,
                  user_delete, consume_grant_and_initialize, delete_account,
                  vars
    <3>4. QED
      BY <3>2, <3>3, QuietWithinRound
  <2>7. QED
    BY <1>2, <2>2, <2>3, <2>4, <2>5, <2>6 DEF Step
<1>3. ASSUME NEW w \in Workers, NEW req \in ClientRequests, Receive(w, req)
      PROVE  WithinRound'
  <2>1. Stays
    BY <1>1, <1>3 DEF Receive, At, Typed, Handler
  <2>2. journal' = journal /\ poisoned' = poisoned /\ tick' = tick
    BY <1>3 DEF Receive, vars
  <2>3. QED
    BY <2>1, <2>2, QuietWithinRound
<1>4. CASE Restart
  BY <1>4, RestartWithinRound
<1>5. CASE \/ Tick /\ UNCHANGED serverVars
           \/ UNCHANGED dispatchVars
  <2>1. UNCHANGED <<journal, worker, poisoned, tick>>
    BY <1>5 DEF Tick, serverVars, dispatchVars, vars
  <2>2. QED
    BY <2>1, QuietWithinRound
<1>6. QED
  BY <1>2, <1>3, <1>4, <1>5 DEF DispatchNext

\* While no process is killed in the middle of a request and no maintenance
\* fails, the journal stays within the retention count and the spared row, per
\* account, and one round of requests, however many accounts, handlers, panics
\* and restarts there are.
THEOREM JournalStaysBounded ==
    ASSUME MaintenanceKeepsUp
    PROVE  DispatchSpec => []JournalBounded
<1>1. DispatchInit => WithinRound
  <2> SUFFICES ASSUME DispatchInit PROVE WithinRound
    OBVIOUS
  <2>1. Cardinality(journal) = 0 /\ tick = 0 /\ ~poisoned
    BY FS_EmptySet DEF DispatchInit, Init
  <2>2. Retained \in Nat /\ Pending \in {0, 1}
    BY FS_CardinalityType, RetentionAssumption
       DEF Retained, MaintenanceKeepsUp, Pending
  <2>3. QED
    BY <2>1, <2>2, DispatchAssumption DEF WithinRound, SinceMaintenance
<1>2. DispatchInv /\ WithinRound /\ [DispatchNext]_dispatchVars => WithinRound'
  BY WithinRoundStep
<1>3. DispatchInv /\ WithinRound => JournalBounded
  <2> SUFFICES ASSUME DispatchInv, WithinRound PROVE JournalBounded
    OBVIOUS
  <2>1. /\ Retained \in Nat /\ SinceMaintenance \in Nat /\ Pending \in {0, 1}
        /\ MaintenanceEvery \in Nat \ {0} /\ SinceMaintenance < MaintenanceEvery
        /\ Cardinality(journal) \in Nat
    BY FS_CardinalityType, FS_Subset, RetentionAssumption, DispatchAssumption
       DEF DispatchInv, JournalInv, TypeOK, RowsOrdered, Retained, Pending,
           MaintenanceKeepsUp, SinceMaintenance, Typed
  <2>2. Cardinality(journal) <= Retained + MaintenanceEvery
    BY <2>1 DEF WithinRound
  <2>3. QED
    BY <2>2 DEF JournalBounded, Retained
<1>4. QED
  BY <1>1, <1>2, <1>3, DispatchInvariance, PTL DEF DispatchSpec
=============================================================================
