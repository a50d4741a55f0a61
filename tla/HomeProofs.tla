------------------------------ MODULE HomeProofs ------------------------------
(***************************************************************************)
(* What is paid at home was earned and is paid once, what happened is      *)
(* counted, and what went away is remembered: proofs about module Home.    *)
(*                                                                         *)
(* The inductive invariant HomeIInv has a part for every ledger an account *)
(* keeps: the types, what was paid, what was counted, the resources that   *)
(* counters follow, the collection, the battle and the skips of a day.     *)
(* Every operation is shown once to do to an account what the parts need   *)
(* (Advances, Kept); the steps put these together.                         *)
(***************************************************************************)
EXTENDS Home, DataTheorems

-----------------------------------------------------------------------------
(* The types of an account. *)

Record == [count: Nat, received: Nat, reset: Nat]
CountRecord == [received: Nat, reset: Nat]

\* No mission counts past its last step or pays more steps than it has.
MissionRecords ==
    {f \in UNION {[ms -> Record] : ms \in SUBSET Missions} :
        \A m \in DOMAIN f : /\ f[m].count <= Last(MissionOf[m].steps)
                            /\ f[m].received <= Len(MissionOf[m].steps)}

CountRecords ==
    {f \in UNION {[cs -> CountRecord] : cs \in SUBSET Categories} :
        \A c \in DOMAIN f : f[c].received <= Len(CountSteps[c].steps)}

AcctType ==
    [initialized |-> Int,
     missions |-> MissionRecords, tasks |-> [Tasks -> Nat], touched |-> SUBSET Tasks,
     counts |-> CountRecords,
     tabs |-> {f \in [Tabs -> Nat] : \A t \in Tabs : f[t] <= Len(TabSteps[t].steps)},
     guides |-> SUBSET Guides,
     battle_steps |-> {f \in [DOMAIN BattleSteps -> Nat] :
                        \A q \in DOMAIN BattleSteps : f[q] <= Len(BattleSteps[q].steps)},
     multi |-> [count: Nat, received: Nat],
     clears |-> [Quests -> Nat], items |-> [Items -> Nat],
     active |-> [quest: Quests \union {None}, txid: Nat, events: SUBSET BattleEvents],
     battle_progress |-> [txid: Nat, events: SUBSET BattleEvents],
     memorias |-> SUBSET Memorias, memoria_history |-> SUBSET Memorias,
     login_day |-> Int, bonuses |-> [Bonuses -> [day: Nat, last: Int]],
     mails |-> SUBSET Mail, next_mail_id |-> Nat,
     recipes |-> SUBSET Recipes, recipe_counts |-> SUBSET DOMAIN RecipeCounts,
     episode |-> [day: Int, clears: Nat, additions: Nat],
     gems |-> Nat]

AcctFields ==
    {"initialized", "missions", "tasks", "touched", "counts", "tabs", "guides", "battle_steps",
     "multi", "clears", "items", "active", "battle_progress", "memorias", "memoria_history",
     "login_day", "bonuses", "mails", "next_mail_id", "recipes", "recipe_counts", "episode",
     "gems"}

HomeAccts ==
    {a \in [AcctFields -> UNION {AcctType[f] : f \in AcctFields}] :
        \A f \in AcctFields : a[f] \in AcctType[f]}

EventsOK(events) == events \in [Events -> [Days -> Nat]]

\* The history has nothing to say of the days to come.
HistoryOK(h) ==
    /\ h \in [events: [Events -> [Days -> Nat]], memorias: SUBSET Memorias,
              skips: [Days -> Nat], additions: [Days -> Nat]]
    /\ \A d \in Days : d > day => \A e \in Events : h.events[e][d] = 0

-----------------------------------------------------------------------------
(* What was paid is written down. *)

Timely(a) ==
    /\ \A m \in DOMAIN a.missions : a.missions[m].reset <= reset_at(MissionOf[m].cycle, day)
    /\ \A c \in DOMAIN a.counts : a.counts[c].reset <= reset_at(CountSteps[c].cycle, day)

AcctOK(a) == a \in HomeAccts /\ Timely(a)

\* A step is behind a record: of an earlier cycle, or received in this one.
Behind(step, reset, rec) == reset < rec.reset \/ (reset = rec.reset /\ step <= rec.received)

RecordsWritten(a, keys) ==
    \A key \in keys :
       /\ key[1] = "mission" => /\ key[2] \in DOMAIN a.missions
                                /\ Behind(key[3], key[4], a.missions[key[2]])
       /\ key[1] = "count" => /\ key[2] \in DOMAIN a.counts
                              /\ Behind(key[3], key[4], a.counts[key[2]])

StepsWritten(a, keys) ==
    \A key \in keys :
       /\ key[1] = "tab" => key[2] \in Tabs /\ key[3] <= a.tabs[key[2]]
       /\ key[1] = "battle" => key[2] \in DOMAIN BattleSteps /\ key[3] <= a.battle_steps[key[2]]
       /\ key[1] = "multi" => key[3] <= a.multi.received
       /\ key[1] = "guide" => key[2] \in a.guides
       /\ key[1] = "recipe" => key[2] \in a.recipes
       /\ key[1] = "plan" => key[3] \in a.recipe_counts

BonusesWritten(a, keys) ==
    \A key \in keys :
       /\ key[1] = "bonus" => key[2] \in Bonuses /\ key[4] <= a.bonuses[key[2]].last + 1
       /\ key[1] = "mail" =>
            /\ key[2] \in Bonuses /\ key[3] <= a.bonuses[key[2]].day
            /\ \A m \in a.mails : (m.bonus = key[2] /\ m.step = key[3]) => m.opened

\* Steps and cycles of rewards are numbers, and no reward was given twice.
Ledger(a, bag) ==
    /\ \A key \in DOMAIN bag : key[3] \in Nat /\ key[4] \in Nat /\ bag[key] = 1
    /\ RecordsWritten(a, DOMAIN bag) /\ StepsWritten(a, DOMAIN bag) /\ BonusesWritten(a, DOMAIN bag)

Earned(keys, events) ==
    \A key \in keys :
        key[1] = "mission" =>
            LET rule == MissionOf[key[2]] IN
            /\ key[2] \in Missions /\ key[3] \in 1..Len(rule.steps)
            /\ (rule.task = None /\ ~rule.nav) =>
                    DoneIn(events, rule, key[4]) >= rule.steps[key[3]]
            /\ (rule.task # None /\ StateBacked(rule.task)) =>
                    TaskDone(events, rule.task) >= rule.steps[key[3]]

\* Ids of mails are not given again, and neither are the days of a bonus.
MailsInOrder(a) ==
    /\ \A b \in Bonuses : a.bonuses[b].last <= day
    /\ \A m \in a.mails : m.id <= a.next_mail_id /\ m.step <= a.bonuses[m.bonus].day
    /\ \A m, n \in a.mails : (m.id = n.id \/ (m.bonus = n.bonus /\ m.step = n.step)) => m = n

-----------------------------------------------------------------------------
(* What happened is counted. *)

Counted(a, m) == mission_state(m, Existing(a, m)).count
ToCount == {m \in Missions : MissionOf[m].task = None /\ ~MissionOf[m].nav}

Kept(a, events) ==
    \A m \in ToCount :
        mission_active(m) =>
            Counted(a, m) = Min({DoneIn(events, MissionOf[m], reset_at(MissionOf[m].cycle, day)),
                                 Last(MissionOf[m].steps)})

ResourcesCounted(a, events) ==
    \A s \in Sources : Total(a, s) = SumFunctionOnSet(events[s], Days)

Projected(a) == \A t \in Tasks : StateBacked(t) => a.tasks[t] = state_counter_total(a, t)

CollectionSeen(a, h) ==
    /\ h.memorias = a.memoria_history \union a.memorias
    /\ \A d \in Days : h.events[Collection][d] <= Cardinality(h.memorias)

\* n requests were made.
BattleReported(a, n) ==
    /\ a.battle_progress.txid <= n /\ a.active.txid <= n
    /\ a.active.quest # None =>
          IF a.active.events = {} THEN a.battle_progress.txid # a.active.txid
          ELSE a.battle_progress = [txid |-> a.active.txid, events |-> a.active.events]

SkipsCounted(a, h) ==
    /\ a.episode.day <= day
    /\ \A d \in Days :
          /\ d > a.episode.day => h.skips[d] = 0 /\ h.additions[d] = 0
          /\ d = a.episode.day => /\ h.skips[d] = a.episode.clears
                                  /\ h.additions[d] = a.episode.additions
          /\ h.skips[d] <= MaxDailyClear + h.additions[d]

Sound(a, h, bag, n) ==
    /\ AcctOK(a) /\ a.touched = {} /\ HistoryOK(h)
    /\ Ledger(a, bag) /\ Earned(DOMAIN bag, h.events) /\ MailsInOrder(a)
    /\ Kept(a, h.events) /\ ResourcesCounted(a, h.events)
    /\ a.initialized # -1 => Projected(a)
    /\ CollectionSeen(a, h) /\ BattleReported(a, n) /\ SkipsCounted(a, h)

HomeIInv ==
    /\ day \in FirstDay..MaxDay /\ requests \in 0..MaxRequests
    /\ Sound(acct, happened, paid, requests)

-----------------------------------------------------------------------------
(* Accounts and their fields. *)

\* b is a but for some fields.
Same(a, b, F) ==
    /\ DOMAIN b = AcctFields /\ b = [f \in AcctFields |-> b[f]]
    /\ \A f \in AcctFields \ F : b[f] = a[f]

LEMMA AcctFunction ==
    ASSUME NEW a \in HomeAccts
    PROVE  /\ DOMAIN a = AcctFields /\ a = [f \in AcctFields |-> a[f]]
           /\ \A f \in AcctFields : a[f] \in AcctType[f]
<1> DEFINE R == UNION {AcctType[f] : f \in AcctFields}
<1>1. a \in [AcctFields -> R] /\ \A f \in AcctFields : a[f] \in AcctType[f]
  BY Zenon DEF HomeAccts
<1> HIDE DEF R
<1> QED BY <1>1

LEMMA AcctTypes ==
    ASSUME NEW a \in HomeAccts
    PROVE  /\ a.initialized \in Int /\ a.missions \in MissionRecords
           /\ a.tasks \in [Tasks -> Nat] /\ a.touched \subseteq Tasks
           /\ a.counts \in CountRecords
           /\ a.tabs \in [Tabs -> Nat] /\ (\A t \in Tabs : a.tabs[t] <= Len(TabSteps[t].steps))
           /\ a.guides \subseteq Guides
           /\ a.battle_steps \in [DOMAIN BattleSteps -> Nat]
           /\ (\A q \in DOMAIN BattleSteps : a.battle_steps[q] <= Len(BattleSteps[q].steps))
           /\ a.multi \in [count: Nat, received: Nat]
           /\ a.clears \in [Quests -> Nat] /\ a.items \in [Items -> Nat]
           /\ a.active \in [quest: Quests \union {None}, txid: Nat, events: SUBSET BattleEvents]
           /\ a.battle_progress \in [txid: Nat, events: SUBSET BattleEvents]
           /\ a.memorias \subseteq Memorias /\ a.memoria_history \subseteq Memorias
           /\ a.login_day \in Int /\ a.bonuses \in [Bonuses -> [day: Nat, last: Int]]
           /\ a.mails \subseteq Mail /\ a.next_mail_id \in Nat
           /\ a.recipes \subseteq Recipes /\ a.recipe_counts \subseteq DOMAIN RecipeCounts
           /\ a.episode \in [day: Int, clears: Nat, additions: Nat] /\ a.gems \in Nat
<1>1. \A f \in AcctFields : a[f] \in AcctType[f] BY AcctFunction
<1> QED BY <1>1 DEF AcctFields, AcctType

LEMMA AcctUpdate ==
    ASSUME NEW a \in HomeAccts, NEW b, NEW F, Same(a, b, F), \A f \in F : b[f] \in AcctType[f]
    PROVE  b \in HomeAccts
<1> DEFINE R == UNION {AcctType[f] : f \in AcctFields}
<1>1. \A f \in AcctFields : b[f] \in AcctType[f]
  <2>1. \A f \in AcctFields : a[f] \in AcctType[f] BY AcctFunction
  <2> QED BY <2>1, Zenon DEF Same
<1>2. \A f \in AcctFields : b[f] \in R BY <1>1, Zenon
<1> HIDE DEF R
<1>3. b \in [AcctFields -> R] BY <1>2 DEF Same
<1> QED BY <1>1, <1>3, Zenon DEF HomeAccts, R

LEMMA SameTwice ==
    ASSUME NEW a, NEW b, NEW c, NEW F, NEW G, Same(a, b, F), Same(b, c, G)
    PROVE  Same(a, c, F \union G)
BY Zenon DEF Same

LEMMA SameMore ==
    ASSUME NEW a, NEW b, NEW F, NEW G, Same(a, b, F), F \subseteq G
    PROVE  Same(a, b, G)
BY Zenon DEF Same

LEMMA SameSelf == ASSUME NEW a \in HomeAccts PROVE Same(a, a, {})
BY AcctFunction, Zenon DEF Same

LEMMA OneField ==
    ASSUME NEW a \in HomeAccts, NEW f \in AcctFields, NEW v
    PROVE  Same(a, [a EXCEPT ![f] = v], {f}) /\ [a EXCEPT ![f] = v][f] = v
<1>1. DOMAIN a = AcctFields BY AcctFunction
<1> QED BY <1>1 DEF Same

-----------------------------------------------------------------------------
(* Cycles and records. *)

LEMMA ResetAt ==
    /\ \A cycle : \A d \in Nat : reset_at(cycle, d) \in Nat
    /\ \A cycle : \A d, e \in Nat : d <= e => reset_at(cycle, d) <= reset_at(cycle, e)
    /\ \A d : reset_at(1, d) = d + 1 /\ reset_at(None, d) = None
<1>1. ASSUME NEW d \in Nat PROVE d + 7 - ((d + 3) % 7) = ((d + 3) \div 7) * 7 + 4
  <2>1. (d + 3) % 7 \in 0..6 /\ (d + 3) \div 7 \in Int /\ d + 3 = ((d + 3) \div 7) * 7 + ((d + 3) % 7)
    BY Division
  <2> QED BY <2>1
<1>2. ASSUME NEW d \in Nat, NEW e \in Nat, d <= e
      PROVE  d + 7 - ((d + 3) % 7) <= e + 7 - ((e + 3) % 7)
  <2>1. (d + 3) \div 7 <= (e + 3) \div 7 BY <1>2, DivisionOrder
  <2>2. (d + 3) \div 7 \in Int /\ (e + 3) \div 7 \in Int BY Division
  <2> QED BY <1>1, <2>1, <2>2
<1>3. ASSUME NEW d \in Nat PROVE d + 7 - ((d + 3) % 7) \in Nat
  <2>1. (d + 3) % 7 \in 0..6 BY Division
  <2> QED BY <2>1
<1>4. \A cycle : \A d \in Nat : reset_at(cycle, d) \in Nat
  BY <1>3 DEF reset_at, None
<1>5. \A cycle : \A d, e \in Nat : d <= e => reset_at(cycle, d) <= reset_at(cycle, e)
  BY <1>2 DEF reset_at, None
<1>6. \A d : reset_at(1, d) = d + 1 /\ reset_at(None, d) = None BY DEF reset_at, None
<1> QED BY <1>4, <1>5, <1>6

RecordOK(m, rec) ==
    rec \in Record /\ rec.count <= Last(MissionOf[m].steps) /\ rec.received <= Len(MissionOf[m].steps)

LEMMA MissionRecordsAre ==
    /\ \A f \in MissionRecords :
          /\ DOMAIN f \subseteq Missions /\ f = [m \in DOMAIN f |-> f[m]]
          /\ \A m \in DOMAIN f : RecordOK(m, f[m])
    /\ \A f : (/\ DOMAIN f \subseteq Missions /\ f = [m \in DOMAIN f |-> f[m]]
               /\ \A m \in DOMAIN f : RecordOK(m, f[m])) => f \in MissionRecords
<1>1. ASSUME NEW f \in MissionRecords
      PROVE  /\ DOMAIN f \subseteq Missions /\ f = [m \in DOMAIN f |-> f[m]]
             /\ \A m \in DOMAIN f : RecordOK(m, f[m])
  <2>1. PICK ms \in SUBSET Missions : f \in [ms -> Record] BY DEF MissionRecords
  <2>2. \A m \in DOMAIN f : /\ f[m].count <= Last(MissionOf[m].steps)
                            /\ f[m].received <= Len(MissionOf[m].steps)
    BY Zenon DEF MissionRecords
  <2> QED BY <2>1, <2>2 DEF RecordOK
<1>2. ASSUME NEW f, DOMAIN f \subseteq Missions, f = [m \in DOMAIN f |-> f[m]],
             \A m \in DOMAIN f : RecordOK(m, f[m])
      PROVE  f \in MissionRecords
  <2>1. f \in [DOMAIN f -> Record] BY <1>2 DEF RecordOK
  <2>2. f \in UNION {[ms -> Record] : ms \in SUBSET Missions} BY <1>2, <2>1
  <2> QED BY <1>2, <2>2, Zenon DEF MissionRecords, RecordOK
<1> QED BY <1>1, <1>2, Zenon

CountOK(c, rec) == rec \in CountRecord /\ rec.received <= Len(CountSteps[c].steps)

LEMMA CountRecordsAre ==
    /\ \A f \in CountRecords :
          /\ DOMAIN f \subseteq Categories /\ f = [c \in DOMAIN f |-> f[c]]
          /\ \A c \in DOMAIN f : CountOK(c, f[c])
    /\ \A f : (/\ DOMAIN f \subseteq Categories /\ f = [c \in DOMAIN f |-> f[c]]
               /\ \A c \in DOMAIN f : CountOK(c, f[c])) => f \in CountRecords
<1>1. ASSUME NEW f \in CountRecords
      PROVE  /\ DOMAIN f \subseteq Categories /\ f = [c \in DOMAIN f |-> f[c]]
             /\ \A c \in DOMAIN f : CountOK(c, f[c])
  <2>1. PICK cs \in SUBSET Categories : f \in [cs -> CountRecord] BY DEF CountRecords
  <2>2. \A c \in DOMAIN f : f[c].received <= Len(CountSteps[c].steps)
    BY Zenon DEF CountRecords
  <2> QED BY <2>1, <2>2 DEF CountOK
<1>2. ASSUME NEW f, DOMAIN f \subseteq Categories, f = [c \in DOMAIN f |-> f[c]],
             \A c \in DOMAIN f : CountOK(c, f[c])
      PROVE  f \in CountRecords
  <2>1. f \in [DOMAIN f -> CountRecord] BY <1>2 DEF CountOK
  <2>2. f \in UNION {[cs -> CountRecord] : cs \in SUBSET Categories} BY <1>2, <2>1
  <2> QED BY <1>2, <2>2, Zenon DEF CountRecords, CountOK
<1> QED BY <1>1, <1>2, Zenon

LEMMA LastStep ==
    ASSUME NEW m \in Missions
    PROVE  /\ Last(MissionOf[m].steps) \in Nat \ {0} /\ Len(MissionOf[m].steps) \in Nat
           /\ \A i \in 1..Len(MissionOf[m].steps) : MissionOf[m].steps[i] \in Nat \ {0}
<1> DEFINE steps == MissionOf[m].steps
<1>1. steps \in Seq(Nat \ {0}) /\ steps # <<>> BY MissionsAssumption
<1> HIDE DEF steps
<1>2. Len(steps) \in Nat \ {0} /\ \A i \in 1..Len(steps) : steps[i] \in Nat \ {0} BY <1>1
<1>3. Last(steps) \in Nat \ {0} BY <1>2 DEF Last
<1> QED BY <1>2, <1>3 DEF steps

Cycle(m) == reset_at(MissionOf[m].cycle, day)

\* A record moves on when its cycle does or when steps of it are received.
Ahead(old, new) == old.reset < new.reset \/ (old.reset = new.reset /\ old.received <= new.received)

LEMMA StateOf ==
    ASSUME NEW m \in Missions, day \in Nat, NEW old, RecordOK(m, old), old.reset <= Cycle(m),
           NEW new, new = mission_state(m, old)
    PROVE  /\ RecordOK(m, new) /\ new.reset = Cycle(m) /\ Ahead(old, new)
           /\ old.reset = Cycle(m) => new = old
           /\ old.reset # Cycle(m) => new.count = 0
<1>1. Cycle(m) \in Nat BY ResetAt DEF Cycle
<1>2. old \in Record /\ old.reset \in Nat /\ old.received \in Nat BY DEF RecordOK, Record
<1>3. CASE Cycle(m) # None /\ old.reset # Cycle(m)
  <2>1. new = [count |-> 0, received |-> 0, reset |-> Cycle(m)]
    BY <1>3, Zenon DEF mission_state, Cycle
  <2>2. RecordOK(m, new) BY <1>1, <2>1, LastStep DEF RecordOK, Record
  <2> QED BY <1>1, <1>2, <1>3, <2>1, <2>2 DEF Ahead
<1>4. CASE ~(Cycle(m) # None /\ old.reset # Cycle(m))
  <2>1. new = old BY <1>4, Zenon DEF mission_state, Cycle
  <2>2. old.reset = Cycle(m) BY <1>1, <1>2, <1>4 DEF None
  <2> QED BY <1>2, <2>1, <2>2 DEF Ahead
<1> QED BY <1>3, <1>4

LEMMA StateStays ==
    ASSUME NEW m \in Missions, NEW rec, rec.reset = Cycle(m)
    PROVE  mission_state(m, rec) = rec
BY Zenon DEF mission_state, Cycle

LEMMA ExistingOK ==
    ASSUME NEW a \in HomeAccts, NEW m \in Missions, day \in Nat, Timely(a)
    PROVE  RecordOK(m, Existing(a, m)) /\ Existing(a, m).reset <= Cycle(m)
<1>1. a.missions \in MissionRecords BY AcctTypes
<1>2. Cycle(m) \in Nat BY ResetAt DEF Cycle
<1>3. CASE m \in DOMAIN a.missions
  <2>1. Existing(a, m) = a.missions[m] BY <1>3 DEF Existing
  <2>2. RecordOK(m, a.missions[m]) BY <1>1, <1>3, MissionRecordsAre, Zenon
  <2>3. a.missions[m].reset <= Cycle(m) BY <1>3, Zenon DEF Timely, Cycle
  <2> QED BY <2>1, <2>2, <2>3
<1>4. CASE m \notin DOMAIN a.missions
  <2>1. Existing(a, m) = Fresh BY <1>4 DEF Existing
  <2>2. RecordOK(m, Fresh) BY LastStep DEF RecordOK, Record, Fresh, None
  <2> QED BY <1>2, <2>1, <2>2 DEF Fresh, None
<1> QED BY <1>3, <1>4

-----------------------------------------------------------------------------
(* Events and totals. *)

LEMMA EventsFinite ==
    /\ IsFiniteSet(Sources) /\ IsFiniteSet(Events) /\ IsFiniteSet(Days)
    /\ Sources \subseteq Events /\ Collection \in Events /\ Collection \notin Sources
    /\ \A S \in SUBSET Events : IsFiniteSet(S)
<1>1. IsFiniteSet({"quest_clear"}) /\ IsFiniteSet({"item_received"})
      /\ IsFiniteSet({"quest_attempt"}) /\ IsFiniteSet({"battle_win"})
      /\ IsFiniteSet({<<"login", 0>>, Collection})
  <2>1. \A x, y : IsFiniteSet({x}) /\ IsFiniteSet({x, y})
    <3>1. \A x : IsFiniteSet({x}) BY FS_Singleton
    <3>2. \A x, y : IsFiniteSet({x} \union {y}) BY <3>1, FS_Union
    <3>3. \A x, y : {x, y} = {x} \union {y} OBVIOUS
    <3> QED BY <3>1, <3>2, <3>3
  <2> QED BY <2>1
<1>2. /\ IsFiniteSet({"quest_clear"} \X Quests) /\ IsFiniteSet({"item_received"} \X Items)
      /\ IsFiniteSet({"quest_attempt"} \X Quests) /\ IsFiniteSet({"battle_win"} \X BattleEvents)
  BY <1>1, FS_Product, CountersAssumption
<1>3. IsFiniteSet(Sources) BY <1>2, FS_Union DEF Sources
<1>4. IsFiniteSet(Events)
  <2>1. IsFiniteSet(Sources \union ({"quest_attempt"} \X Quests)) BY <1>2, <1>3, FS_Union
  <2>2. IsFiniteSet(Sources \union ({"quest_attempt"} \X Quests) \union ({"battle_win"} \X BattleEvents))
    BY <1>2, <2>1, FS_Union
  <2> QED BY <1>1, <2>2, FS_Union DEF Events
<1>5. IsFiniteSet(Days) BY FS_Interval, HomeAssumption DEF Days
<1>6. Sources \subseteq Events /\ Collection \in Events /\ Collection \notin Sources
  BY DEF Events, Sources, Collection
<1> QED BY <1>3, <1>4, <1>5, <1>6, FS_Subset

LEMMA TotalNat ==
    ASSUME NEW a \in HomeAccts
    PROVE  /\ \A s \in Sources : Total(a, s) \in Nat
           /\ \A t \in Tasks : StateBacked(t) => state_counter_total(a, t) \in Nat
<1>1. a.clears \in [Quests -> Nat] /\ a.items \in [Items -> Nat] BY AcctTypes
<1>2. ASSUME NEW s \in Sources PROVE Total(a, s) \in Nat
  <2>1. \/ s[1] = "quest_clear" /\ s[2] \in Quests
        \/ s[1] = "item_received" /\ s[2] \in Items
    BY DEF Sources
  <2> QED BY <1>1, <2>1 DEF Total
<1>3. ASSUME NEW t \in Tasks, StateBacked(t) PROVE state_counter_total(a, t) \in Nat
  <2> DEFINE C == TaskOf[t].counters
             f == [s \in C |-> Total(a, s)]
  <2>1. C \subseteq Sources BY <1>3 DEF StateBacked
  <2>2. IsFiniteSet(C) BY <2>1, EventsFinite, FS_Subset
  <2>3. \A s \in C : f[s] \in Nat BY <1>2, <2>1
  <2> HIDE DEF f, C
  <2>4. SumFunctionOnSet(f, C) \in Nat BY <2>2, <2>3, SumNat
  <2> QED BY <2>4, Zenon DEF f, C, state_counter_total
<1> QED BY <1>2, <1>3

LEMMA AdvanceNat ==
    ASSUME NEW rule, NEW current \in Nat, NEW delta \in Nat
    PROVE  advance(rule, current, delta) \in Nat /\ current <= advance(rule, current, delta)
BY MaxOfTwo DEF advance

LEMMA TaskTickedNat ==
    ASSUME NEW a \in HomeAccts, NEW t \in Tasks, NEW delta \in Nat
    PROVE  TaskTicked(a, t, delta) \in Nat
<1>1. a.tasks[t] \in Nat BY AcctTypes
<1>2. StateBacked(t) => state_counter_total(a, t) \in Nat BY TotalNat
<1>3. advance(TaskOf[t], a.tasks[t], delta) \in Nat BY <1>1, AdvanceNat
<1>4. StateBacked(t) => Max({a.tasks[t], state_counter_total(a, t)}) \in Nat
  BY <1>1, <1>2, MaxOfTwo
<1> QED BY <1>3, <1>4, Zenon DEF TaskTicked

LEMMA MissionTickedIs ==
    ASSUME NEW a \in HomeAccts, NEW m \in Missions, NEW delta \in Nat, day \in Nat, Timely(a),
           NEW new, new = MissionTicked(a, m, delta)
    PROVE  /\ RecordOK(m, new) /\ new.reset = Cycle(m) /\ Ahead(Existing(a, m), new)
           /\ new.received = mission_state(m, Existing(a, m)).received
           /\ MissionOf[m].task = None =>
                new.count = Min({advance(MissionOf[m], Counted(a, m), delta), Last(MissionOf[m].steps)})
<1> DEFINE old == Existing(a, m)
           state == mission_state(m, Existing(a, m))
           count == Min({advance(MissionOf[m], state.count, delta), Last(MissionOf[m].steps)})
<1>1. RecordOK(m, old) /\ old.reset <= Cycle(m) BY ExistingOK
<1>2. RecordOK(m, state) /\ state.reset = Cycle(m) /\ Ahead(old, state)
  <2>1. state = mission_state(m, old) OBVIOUS
  <2> HIDE DEF old, state
  <2> QED BY <1>1, <2>1, StateOf
<1>3. new = IF MissionOf[m].task = None THEN [state EXCEPT !.count = count] ELSE state
  BY Zenon DEF MissionTicked
<1>4. count \in Nat /\ count <= Last(MissionOf[m].steps)
  <2> HIDE DEF state
  <2>1. state.count \in Nat BY <1>2 DEF RecordOK, Record
  <2>2. advance(MissionOf[m], state.count, delta) \in Nat BY <2>1, AdvanceNat
  <2> QED BY <2>2, LastStep, MinOfTwo
<1>7. state.count = Counted(a, m) BY Zenon DEF Counted
<1> HIDE DEF count, old, state
<1>5. CASE MissionOf[m].task = None
  <2>1. /\ new = [state EXCEPT !.count = count]
        /\ state \in Record
    BY <1>2, <1>3, <1>5 DEF RecordOK
  <2>2. new \in Record /\ new.count = count /\ new.received = state.received
        /\ new.reset = state.reset
    BY <1>4, <2>1 DEF Record
  <2> QED BY <1>2, <1>4, <1>7, <2>2 DEF RecordOK, Ahead, count, old, state
<1>6. CASE MissionOf[m].task # None
  BY <1>2, <1>3, <1>6 DEF old, state
<1> QED BY <1>5, <1>6

-----------------------------------------------------------------------------
(* Progress moves an account on: records do not fall back, nothing else changes. *)

Advances(a, b) ==
    /\ b \in HomeAccts /\ Timely(b)
    /\ Same(a, b, {"missions", "tasks", "touched", "counts", "multi"})
    /\ b.multi.received = a.multi.received
    /\ \A m \in DOMAIN a.missions : m \in DOMAIN b.missions /\ Ahead(a.missions[m], b.missions[m])
    /\ \A c \in DOMAIN a.counts : c \in DOMAIN b.counts /\ Ahead(a.counts[c], b.counts[c])

LEMMA RecordTypes ==
    ASSUME NEW a \in HomeAccts
    PROVE  /\ \A m \in DOMAIN a.missions : m \in Missions /\ RecordOK(m, a.missions[m])
                 /\ a.missions[m].reset \in Nat /\ a.missions[m].received \in Nat
           /\ \A c \in DOMAIN a.counts : c \in Categories /\ CountOK(c, a.counts[c])
                 /\ a.counts[c].reset \in Nat /\ a.counts[c].received \in Nat
<1>1. a.missions \in MissionRecords /\ a.counts \in CountRecords BY AcctTypes
<1>2. \A m \in DOMAIN a.missions : m \in Missions /\ RecordOK(m, a.missions[m])
  BY <1>1, MissionRecordsAre, Zenon
<1>3. \A c \in DOMAIN a.counts : c \in Categories /\ CountOK(c, a.counts[c])
  BY <1>1, CountRecordsAre, Zenon
<1> QED BY <1>2, <1>3 DEF RecordOK, CountOK, Record, CountRecord

LEMMA AheadSelf ==
    ASSUME NEW a \in HomeAccts
    PROVE  /\ \A m \in DOMAIN a.missions : Ahead(a.missions[m], a.missions[m])
           /\ \A c \in DOMAIN a.counts : Ahead(a.counts[c], a.counts[c])
BY RecordTypes DEF Ahead

LEMMA AdvancesSelf ==
    ASSUME NEW a, AcctOK(a)
    PROVE  Advances(a, a)
<1>1. a \in HomeAccts /\ Timely(a) BY DEF AcctOK
<1>2. Same(a, a, {"missions", "tasks", "touched", "counts", "multi"})
  BY <1>1, SameSelf DEF Same
<1> QED BY <1>1, <1>2, AheadSelf, Zenon DEF Advances

LEMMA AdvancesTwice ==
    ASSUME NEW a \in HomeAccts, NEW b, NEW c, Advances(a, b), Advances(b, c)
    PROVE  Advances(a, c)
<1> DEFINE F == {"missions", "tasks", "touched", "counts", "multi"}
<1>1. b \in HomeAccts /\ c \in HomeAccts /\ Timely(c) BY DEF Advances
<1>2. Same(a, c, F)
  <2>1. Same(a, b, F) /\ Same(b, c, F) BY DEF Advances
  <2> HIDE DEF F
  <2> QED BY <2>1, Zenon DEF Same
<1>3. c.multi.received = a.multi.received BY DEF Advances
<1>4. ASSUME NEW m \in DOMAIN a.missions
      PROVE  m \in DOMAIN c.missions /\ Ahead(a.missions[m], c.missions[m])
  <2>1. /\ m \in DOMAIN b.missions /\ Ahead(a.missions[m], b.missions[m])
        /\ m \in DOMAIN c.missions /\ Ahead(b.missions[m], c.missions[m])
    BY Zenon DEF Advances
  <2>2. /\ a.missions[m].reset \in Nat /\ a.missions[m].received \in Nat
        /\ b.missions[m].reset \in Nat /\ b.missions[m].received \in Nat
        /\ c.missions[m].reset \in Nat /\ c.missions[m].received \in Nat
    BY <1>1, <2>1, RecordTypes
  <2> QED BY <2>1, <2>2 DEF Ahead
<1>5. ASSUME NEW m \in DOMAIN a.counts
      PROVE  m \in DOMAIN c.counts /\ Ahead(a.counts[m], c.counts[m])
  <2>1. /\ m \in DOMAIN b.counts /\ Ahead(a.counts[m], b.counts[m])
        /\ m \in DOMAIN c.counts /\ Ahead(b.counts[m], c.counts[m])
    BY Zenon DEF Advances
  <2>2. /\ a.counts[m].reset \in Nat /\ a.counts[m].received \in Nat
        /\ b.counts[m].reset \in Nat /\ b.counts[m].received \in Nat
        /\ c.counts[m].reset \in Nat /\ c.counts[m].received \in Nat
    BY <1>1, <2>1, RecordTypes
  <2> QED BY <2>1, <2>2 DEF Ahead
<1> HIDE DEF F
<1> QED BY <1>1, <1>2, <1>3, <1>4, <1>5 DEF Advances, F

LEMMA AdvancesOK ==
    ASSUME NEW a, NEW b, Advances(a, b)
    PROVE  AcctOK(b)
BY DEF Advances, AcctOK

-----------------------------------------------------------------------------
(* One event. *)

LEMMA TickedFields ==
    ASSUME NEW a \in HomeAccts, NEW event, NEW delta, NEW ms, NEW b, b = Ticked(a, event, delta, ms)
    PROVE  /\ Same(a, b, {"tasks", "touched", "missions"})
           /\ b.tasks = [t \in Tasks |-> b.tasks[t]]
           /\ \A t \in Tasks :
                b.tasks[t] = IF event \in TaskOf[t].counters /\ TaskTicked(a, t, delta) > a.tasks[t]
                             THEN TaskTicked(a, t, delta) ELSE a.tasks[t]
           /\ b.touched \subseteq a.touched \union Tasks
           /\ DOMAIN b.missions = DOMAIN a.missions \union ms
           /\ b.missions = [m \in DOMAIN b.missions |-> b.missions[m]]
           /\ \A m \in ms : b.missions[m] = MissionTicked(a, m, delta)
           /\ \A m \in DOMAIN a.missions \ ms : b.missions[m] = a.missions[m]
<1> DEFINE risen == {t \in Tasks : event \in TaskOf[t].counters
                                    /\ TaskTicked(a, t, delta) > a.tasks[t]}
           tasks == [t \in Tasks |-> IF t \in risen THEN TaskTicked(a, t, delta) ELSE a.tasks[t]]
           missions == [m \in DOMAIN a.missions \union ms |->
                            IF m \in ms THEN MissionTicked(a, m, delta) ELSE a.missions[m]]
           touched == a.touched \union risen
<1>1. b = [a EXCEPT !.tasks = tasks, !.touched = touched, !.missions = missions]
  BY Zenon DEF Ticked
<1>2. DOMAIN a = AcctFields BY AcctFunction
<1>3. /\ tasks = [t \in Tasks |-> tasks[t]]
      /\ \A t \in Tasks :
            tasks[t] = IF event \in TaskOf[t].counters /\ TaskTicked(a, t, delta) > a.tasks[t]
                       THEN TaskTicked(a, t, delta) ELSE a.tasks[t]
  BY Zenon
<1>4. touched \subseteq a.touched \union Tasks OBVIOUS
<1>5. /\ DOMAIN missions = DOMAIN a.missions \union ms
      /\ missions = [m \in DOMAIN missions |-> missions[m]]
      /\ \A m \in ms : missions[m] = MissionTicked(a, m, delta)
      /\ \A m \in DOMAIN a.missions \ ms : missions[m] = a.missions[m]
  OBVIOUS
<1> HIDE DEF tasks, missions, touched, risen
<1>6. Same(a, b, {"tasks", "touched", "missions"}) /\ b.tasks = tasks /\ b.touched = touched
      /\ b.missions = missions
  BY <1>1, <1>2 DEF Same, AcctFields
<1> QED BY <1>3, <1>4, <1>5, <1>6, Zenon

LEMMA TickedAdvances ==
    ASSUME NEW a, AcctOK(a), NEW event, NEW delta \in Nat, day \in Nat,
           NEW b, b = advance_mission_event(a, event, delta)
    PROVE  Advances(a, b) /\ b.counts = a.counts /\ b.multi = a.multi
<1> DEFINE ms == Listening(event)
           F == {"tasks", "touched", "missions"}
<1>1. a \in HomeAccts /\ Timely(a) BY DEF AcctOK
<1>2. /\ Same(a, b, F)
      /\ b.tasks = [t \in Tasks |-> b.tasks[t]]
      /\ \A t \in Tasks :
            b.tasks[t] = IF event \in TaskOf[t].counters /\ TaskTicked(a, t, delta) > a.tasks[t]
                         THEN TaskTicked(a, t, delta) ELSE a.tasks[t]
      /\ b.touched \subseteq a.touched \union Tasks
      /\ DOMAIN b.missions = DOMAIN a.missions \union ms
      /\ b.missions = [m \in DOMAIN b.missions |-> b.missions[m]]
      /\ \A m \in ms : b.missions[m] = MissionTicked(a, m, delta)
      /\ \A m \in DOMAIN a.missions \ ms : b.missions[m] = a.missions[m]
  <2>1. b = Ticked(a, event, delta, Listening(event)) BY Zenon DEF advance_mission_event
  <2> QED BY <1>1, <2>1, TickedFields
<1>3. ms \subseteq Missions BY DEF Listening
<1>4. /\ DOMAIN a.missions \subseteq Missions
      /\ \A m \in DOMAIN a.missions : RecordOK(m, a.missions[m]) /\ a.missions[m].reset <= Cycle(m)
  BY <1>1, RecordTypes, Zenon DEF Timely, Cycle
<1>5. ASSUME NEW m \in ms
      PROVE  /\ RecordOK(m, b.missions[m]) /\ b.missions[m].reset = Cycle(m)
             /\ Ahead(Existing(a, m), b.missions[m])
  <2>1. b.missions[m] = MissionTicked(a, m, delta) BY <1>2, Zenon
  <2>2. m \in Missions BY <1>3
  <2> QED BY <1>1, <2>1, <2>2, MissionTickedIs
<1>6. \A m \in DOMAIN a.missions \ ms : b.missions[m] = a.missions[m] BY <1>2, Zenon
<1>7. DOMAIN b.missions = DOMAIN a.missions \union ms
      /\ b.missions = [m \in DOMAIN b.missions |-> b.missions[m]]
  BY <1>2, Zenon
<1> HIDE DEF ms
<1>8. b.missions \in MissionRecords
  <2>1. DOMAIN b.missions \subseteq Missions BY <1>3, <1>4, <1>7
  <2>2. \A m \in DOMAIN b.missions : RecordOK(m, b.missions[m]) BY <1>4, <1>5, <1>6, <1>7
  <2> QED BY <1>7, <2>1, <2>2, MissionRecordsAre, Zenon
<1>9. b.tasks \in [Tasks -> Nat]
  <2>1. \A t \in Tasks : a.tasks[t] \in Nat BY <1>1, AcctTypes
  <2>2. \A t \in Tasks : TaskTicked(a, t, delta) \in Nat BY <1>1, TaskTickedNat
  <2> QED BY <1>2, <2>1, <2>2
<1>10. b.touched \subseteq Tasks
  <2>1. a.touched \subseteq Tasks BY <1>1, AcctTypes
  <2> QED BY <1>2, <2>1
<1>11. b.counts = a.counts /\ b.multi = a.multi BY <1>2 DEF Same, AcctFields
<1>12. b \in HomeAccts
  <2>1. \A f \in F : b[f] \in AcctType[f] BY <1>8, <1>9, <1>10 DEF AcctType
  <2> HIDE DEF F
  <2> QED BY <1>1, <1>2, <2>1, AcctUpdate
<1>13. Timely(b)
  <2>1. \A m \in DOMAIN b.missions : b.missions[m].reset <= reset_at(MissionOf[m].cycle, day)
    <3>1. \A m \in Missions : Cycle(m) \in Nat BY ResetAt DEF Cycle
    <3>2. ASSUME NEW m \in ms PROVE b.missions[m].reset <= Cycle(m) BY <1>3, <1>5, <3>1
    <3> QED BY <1>4, <1>6, <1>7, <3>2 DEF Cycle
  <2> QED BY <1>1, <1>11, <2>1, Zenon DEF Timely
<1>14. \A m \in DOMAIN a.missions : m \in DOMAIN b.missions /\ Ahead(a.missions[m], b.missions[m])
  <2>1. \A m \in DOMAIN a.missions : Existing(a, m) = a.missions[m] BY Zenon DEF Existing
  <2>2. \A m \in DOMAIN a.missions : Ahead(a.missions[m], a.missions[m]) BY <1>1, AheadSelf
  <2> QED BY <1>5, <1>6, <1>7, <2>1, <2>2
<1>15. \A c \in DOMAIN a.counts : c \in DOMAIN b.counts /\ Ahead(a.counts[c], b.counts[c])
  BY <1>1, <1>11, AheadSelf
<1>16. Same(a, b, {"missions", "tasks", "touched", "counts", "multi"})
  BY <1>2, SameMore
<1> HIDE DEF F
<1> QED BY <1>11, <1>12, <1>13, <1>14, <1>15, <1>16 DEF Advances

-----------------------------------------------------------------------------
(* What the history says of a mission. *)

\* The events a mission counts with the days of a cycle, and how often each happened.
EventDays(m, reset) ==
    MissionOf[m].counters \X {d \in FirstDay..MaxDay : reset_at(MissionOf[m].cycle, d) = reset}

Often(ev, S) == [x \in S |-> ev[x[1]][x[2]]]

Greatest(f, S) == Max({0} \union {f[x] : x \in S})

DoneOf(f, S, maximum) == IF maximum THEN Greatest(f, S) ELSE SumFunctionOnSet(f, S)

LEMMA DoneIs ==
    ASSUME NEW m \in Missions, NEW ev, EventsOK(ev), NEW reset,
           NEW S, S = EventDays(m, reset), NEW f, f = Often(ev, S)
    PROVE  /\ IsFiniteSet(S)
           /\ \A x \in S : /\ f[x] = ev[x[1]][x[2]] /\ f[x] \in Nat
                           /\ x[1] \in MissionOf[m].counters /\ x[2] \in FirstDay..MaxDay
                           /\ x[1] \in Events /\ x[2] \in Days
           /\ DoneIn(ev, MissionOf[m], reset) = DoneOf(f, S, MissionOf[m].maximum)
<1> DEFINE C == MissionOf[m].counters
           D == {d \in FirstDay..MaxDay : reset_at(MissionOf[m].cycle, d) = reset}
<1>0. S = C \X D BY Zenon DEF EventDays
<1>1. C \in SUBSET Events BY MissionsAssumption
<1>2. IsFiniteSet(C) BY <1>1, EventsFinite
<1>3. D \subseteq Days /\ D \subseteq FirstDay..MaxDay BY HomeAssumption DEF Days
<1>4. IsFiniteSet(D) BY <1>3, EventsFinite, FS_Subset
<1>7. DoneIn(ev, MissionOf[m], reset) =
        IF MissionOf[m].maximum THEN Max({0} \union {ev[x[1]][x[2]] : x \in S})
        ELSE SumFunctionOnSet([x \in S |-> ev[x[1]][x[2]]], S)
  BY <1>0, Zenon DEF DoneIn
<1> HIDE DEF D
<1>5. IsFiniteSet(S)
  <2> HIDE DEF C
  <2> QED BY <1>0, <1>2, <1>4, FS_Product
<1>6. \A x \in S : f[x] = ev[x[1]][x[2]] BY DEF Often
<1>8. \A x \in S : x[1] \in C /\ x[2] \in D
  <2> HIDE DEF C
  <2> QED BY <1>0
<1>9. \A x \in S : ev[x[1]][x[2]] \in Nat
  <2>1. \A e \in Events, d \in Days : ev[e][d] \in Nat BY DEF EventsOK
  <2> HIDE DEF C
  <2> QED BY <1>1, <1>3, <1>8, <2>1
<1>10. {ev[x[1]][x[2]] : x \in S} = {f[x] : x \in S} BY <1>6
<1>11. DoneIn(ev, MissionOf[m], reset) = DoneOf(f, S, MissionOf[m].maximum)
  BY <1>7, <1>10, Zenon DEF Often, DoneOf, Greatest
<1> QED BY <1>1, <1>3, <1>5, <1>6, <1>8, <1>9, <1>11

LEMMA GreatestOf ==
    ASSUME NEW f, NEW S, IsFiniteSet(S), \A x \in S : f[x] \in Nat
    PROVE  /\ Greatest(f, S) \in Nat
           /\ \A x \in S : f[x] <= Greatest(f, S)
           /\ \/ Greatest(f, S) = 0
              \/ \E x \in S : Greatest(f, S) = f[x]
<1> DEFINE T == {f[x] : x \in S}
           U == {0} \union T
<1>1. IsFiniteSet(T) BY FiniteImage
<1>2. IsFiniteSet(U)
  <2>1. IsFiniteSet({0}) BY FS_Singleton
  <2> HIDE DEF T
  <2> QED BY <1>1, <2>1, FS_Union
<1>3. U \subseteq Nat /\ U # {} OBVIOUS
<1>4. \A x \in S : f[x] \in U OBVIOUS
<1>5. \A u \in U : u = 0 \/ \E x \in S : u = f[x] OBVIOUS
<1> HIDE DEF U
<1>6. Max(U) \in U /\ Max(U) \in Nat /\ \A x \in U : x <= Max(U) BY <1>2, <1>3, MaxOf
<1>7. Max(U) \in Nat /\ (\A x \in S : f[x] <= Max(U)) /\ (Max(U) = 0 \/ \E x \in S : Max(U) = f[x])
  BY <1>4, <1>5, <1>6
<1> QED BY <1>7, Zenon DEF U, T, Greatest

LEMMA DoneNat ==
    ASSUME NEW m \in Missions, NEW ev, EventsOK(ev), NEW reset
    PROVE  DoneIn(ev, MissionOf[m], reset) \in Nat
<1> DEFINE S == EventDays(m, reset)
           f == Often(ev, S)
<1>1. /\ IsFiniteSet(S) /\ \A x \in S : f[x] \in Nat
      /\ DoneIn(ev, MissionOf[m], reset) = DoneOf(f, S, MissionOf[m].maximum)
  BY DoneIs
<1> HIDE DEF S, f
<1>2. SumFunctionOnSet(f, S) \in Nat BY <1>1, SumNat
<1>3. Greatest(f, S) \in Nat BY <1>1, GreatestOf
<1> QED BY <1>1, <1>2, <1>3, Zenon DEF DoneOf

\* What happened more often was done more often.
LEMMA DoneOrder ==
    ASSUME NEW m \in Missions, NEW ev, EventsOK(ev), NEW more, EventsOK(more), NEW reset,
           \A e \in MissionOf[m].counters : \A d \in Days : ev[e][d] <= more[e][d]
    PROVE  DoneIn(ev, MissionOf[m], reset) <= DoneIn(more, MissionOf[m], reset)
<1> DEFINE S == EventDays(m, reset)
           f == Often(ev, S)
           g == Often(more, S)
<1>1. /\ IsFiniteSet(S)
      /\ \A x \in S : /\ f[x] = ev[x[1]][x[2]] /\ f[x] \in Nat
                      /\ x[1] \in MissionOf[m].counters /\ x[2] \in Days
      /\ DoneIn(ev, MissionOf[m], reset) = DoneOf(f, S, MissionOf[m].maximum)
  BY DoneIs
<1>2. /\ \A x \in S : g[x] = more[x[1]][x[2]] /\ g[x] \in Nat
      /\ DoneIn(more, MissionOf[m], reset) = DoneOf(g, S, MissionOf[m].maximum)
  BY DoneIs
<1> HIDE DEF S, f, g
<1>3. \A x \in S : f[x] <= g[x] BY <1>1, <1>2
<1>4. SumFunctionOnSet(f, S) <= SumFunctionOnSet(g, S) BY <1>1, <1>2, <1>3, SumOrder
<1>5. Greatest(f, S) <= Greatest(g, S)
  <2> DEFINE M == Greatest(f, S)
             N == Greatest(g, S)
  <2>1. M \in Nat /\ (M = 0 \/ \E x \in S : M = f[x]) BY <1>1, GreatestOf
  <2>2. N \in Nat /\ \A x \in S : g[x] <= N BY <1>1, <1>2, GreatestOf
  <2> HIDE DEF M, N
  <2>3. M <= N BY <1>1, <1>2, <1>3, <2>1, <2>2
  <2> QED BY <2>3 DEF M, N
<1> QED BY <1>1, <1>2, <1>4, <1>5, Zenon DEF DoneOf

\* An event of today counts in the cycle of today.
LEMMA DoneMore ==
    ASSUME NEW m \in Missions, ~MissionOf[m].maximum, day \in FirstDay..MaxDay,
           NEW ev, EventsOK(ev), NEW more, EventsOK(more),
           NEW e \in MissionOf[m].counters, NEW n \in Nat, more[e][day] = ev[e][day] + n,
           \A c \in MissionOf[m].counters : \A d \in Days :
                (c # e \/ d # day) => more[c][d] = ev[c][d]
    PROVE  DoneIn(more, MissionOf[m], Cycle(m)) = DoneIn(ev, MissionOf[m], Cycle(m)) + n
<1> DEFINE S == EventDays(m, Cycle(m))
           f == Often(ev, S)
           g == Often(more, S)
           today == <<e, day>>
<1>1. /\ IsFiniteSet(S)
      /\ \A x \in S : /\ f[x] = ev[x[1]][x[2]] /\ f[x] \in Nat
                      /\ x[1] \in MissionOf[m].counters /\ x[2] \in Days
      /\ DoneIn(ev, MissionOf[m], Cycle(m)) = DoneOf(f, S, MissionOf[m].maximum)
  BY DoneIs
<1>2. /\ \A x \in S : g[x] = more[x[1]][x[2]] /\ g[x] \in Nat
      /\ DoneIn(more, MissionOf[m], Cycle(m)) = DoneOf(g, S, MissionOf[m].maximum)
  BY DoneIs
<1>3. today \in S BY DEF EventDays, Cycle
<1>4. \A x \in S : x # today => x[1] # e \/ x[2] # day BY DEF EventDays
<1>5. today[1] = e /\ today[2] = day OBVIOUS
<1> HIDE DEF S, f, g, today
<1>6. \A x \in S : f[x] \in Int /\ g[x] \in Int /\ (x # today => f[x] = g[x])
  BY <1>1, <1>2, <1>4
<1>7. g[today] = f[today] + n BY <1>1, <1>2, <1>3, <1>5
<1>8. SumFunctionOnSet(g, S) = SumFunctionOnSet(f, S) - f[today] + g[today]
  BY <1>1, <1>3, <1>6, SumChanged
<1>9. SumFunctionOnSet(f, S) \in Nat BY <1>1, SumNat
<1> QED BY <1>1, <1>2, <1>3, <1>7, <1>8, <1>9 DEF DoneOf

\* A number reached today is the greatest of its cycle, or the greatest is still there.
LEMMA DoneReached ==
    ASSUME NEW m \in Missions, MissionOf[m].maximum, day \in FirstDay..MaxDay,
           NEW ev, EventsOK(ev), NEW more, EventsOK(more),
           NEW e, MissionOf[m].counters = {e}, NEW n \in Nat, more[e][day] = n, ev[e][day] <= n,
           \A d \in Days : d # day => more[e][d] = ev[e][d]
    PROVE  DoneIn(more, MissionOf[m], Cycle(m)) = Max({DoneIn(ev, MissionOf[m], Cycle(m)), n})
<1> DEFINE S == EventDays(m, Cycle(m))
           f == Often(ev, S)
           g == Often(more, S)
           today == <<e, day>>
           M == Greatest(f, S)
           N == Greatest(g, S)
<1>1. /\ IsFiniteSet(S)
      /\ \A x \in S : /\ f[x] = ev[x[1]][x[2]] /\ f[x] \in Nat
                      /\ x[1] \in MissionOf[m].counters /\ x[2] \in Days
      /\ DoneIn(ev, MissionOf[m], Cycle(m)) = DoneOf(f, S, MissionOf[m].maximum)
  BY ONLY m \in Missions, EventsOK(ev), DoneIs
<1>2. /\ \A x \in S : g[x] = more[x[1]][x[2]] /\ g[x] \in Nat
      /\ DoneIn(more, MissionOf[m], Cycle(m)) = DoneOf(g, S, MissionOf[m].maximum)
  BY ONLY m \in Missions, EventsOK(more), DoneIs
<1>3. today \in S BY DEF EventDays, Cycle
<1>4. \A x \in S : x # today => x[1] # e \/ x[2] # day BY DEF EventDays
<1>5. today[1] = e /\ today[2] = day OBVIOUS
<1> HIDE DEF S, f, g, today
<1>6. \A x \in S : x # today => f[x] = g[x]
  BY <1>1, <1>2, <1>4
<1>7. g[today] = n /\ f[today] <= n BY <1>1, <1>2, <1>3, <1>5
<1>8. M \in Nat /\ (M = 0 \/ \E x \in S : M = f[x]) /\ \A x \in S : f[x] <= M BY <1>1, GreatestOf
<1>9. N \in Nat /\ (N = 0 \/ \E x \in S : N = g[x]) /\ \A x \in S : g[x] <= N
  BY <1>1, <1>2, GreatestOf
<1> HIDE DEF M, N
<1>10. N = IF M >= n THEN M ELSE n
  <2>1. n <= N BY <1>3, <1>7, <1>9
  <2>2. M <= N
    <3>1. \A x \in S : f[x] <= g[x] BY <1>1, <1>2, <1>6, <1>7
    <3> QED BY <1>1, <1>2, <1>8, <1>9, <3>1
  <2>3. N <= M \/ N <= n
    <3>1. CASE N = 0 BY <1>8, <3>1
    <3>2. CASE \E x \in S : N = g[x] BY <1>1, <1>2, <1>6, <1>7, <1>8, <3>2
    <3> QED BY <1>9, <3>1, <3>2
  <2> QED BY <1>8, <1>9, <2>1, <2>2, <2>3
<1> QED BY <1>1, <1>2, <1>8, <1>10, MaxOfTwo DEF DoneOf, M, N

-----------------------------------------------------------------------------
(* An event is counted by the missions that listen to it. *)

LEMMA EventIs ==
    ASSUME NEW a \in HomeAccts, NEW e, NEW n, NEW b, b = advance_mission_event(a, e, n)
    PROVE  /\ Same(a, b, {"tasks", "touched", "missions"})
           /\ \A t \in Tasks :
                b.tasks[t] = IF e \in TaskOf[t].counters /\ TaskTicked(a, t, n) > a.tasks[t]
                             THEN TaskTicked(a, t, n) ELSE a.tasks[t]
           /\ DOMAIN b.missions = DOMAIN a.missions \union Listening(e)
           /\ \A m \in Listening(e) : b.missions[m] = MissionTicked(a, m, n)
           /\ \A m \in DOMAIN a.missions \ Listening(e) : b.missions[m] = a.missions[m]
<1> DEFINE ms == Listening(e)
<1>1. b = Ticked(a, e, n, ms) BY Zenon DEF advance_mission_event
<1> HIDE DEF ms
<1>2. /\ Same(a, b, {"tasks", "touched", "missions"})
      /\ b.tasks = [t \in Tasks |-> b.tasks[t]]
      /\ \A t \in Tasks :
            b.tasks[t] = IF e \in TaskOf[t].counters /\ TaskTicked(a, t, n) > a.tasks[t]
                         THEN TaskTicked(a, t, n) ELSE a.tasks[t]
      /\ b.touched \subseteq a.touched \union Tasks
      /\ DOMAIN b.missions = DOMAIN a.missions \union ms
      /\ b.missions = [m \in DOMAIN b.missions |-> b.missions[m]]
      /\ \A m \in ms : b.missions[m] = MissionTicked(a, m, n)
      /\ \A m \in DOMAIN a.missions \ ms : b.missions[m] = a.missions[m]
  BY <1>1, TickedFields
<1> QED BY <1>2, Zenon DEF ms

LEMMA TickedCounted ==
    ASSUME NEW a, AcctOK(a), NEW event, NEW n \in Nat, day \in Nat,
           NEW b, b = advance_mission_event(a, event, n),
           NEW m \in Missions, mission_active(m), MissionOf[m].task = None
    PROVE  Counted(b, m) =
            IF event \in MissionOf[m].counters
            THEN Min({advance(MissionOf[m], Counted(a, m), n), Last(MissionOf[m].steps)})
            ELSE Counted(a, m)
<1> DEFINE ms == Listening(event)
<1>1. a \in HomeAccts /\ Timely(a) BY DEF AcctOK
<1>2. /\ DOMAIN b.missions = DOMAIN a.missions \union ms
      /\ \A x \in ms : b.missions[x] = MissionTicked(a, x, n)
      /\ \A x \in DOMAIN a.missions \ ms : b.missions[x] = a.missions[x]
  BY <1>1, EventIs
<1>3. m \in ms <=> event \in MissionOf[m].counters BY DEF Listening
<1> HIDE DEF ms
<1>4. CASE m \in ms
  <2> DEFINE new == MissionTicked(a, m, n)
  <2>1. new = MissionTicked(a, m, n) OBVIOUS
  <2> HIDE DEF new
  <2>2. /\ new.reset = Cycle(m)
        /\ new.count = Min({advance(MissionOf[m], Counted(a, m), n), Last(MissionOf[m].steps)})
    BY <1>1, <2>1, MissionTickedIs
  <2>3. Existing(b, m) = new BY <1>2, <1>4, <2>1 DEF Existing
  <2>4. mission_state(m, new) = new BY <2>2, StateStays
  <2>5. Counted(b, m) = new.count BY <2>3, <2>4, Zenon DEF Counted
  <2> QED BY <1>3, <1>4, <2>2, <2>5
<1>5. CASE m \notin ms
  <2>1. Existing(b, m) = Existing(a, m) BY <1>2, <1>5 DEF Existing
  <2> QED BY <1>3, <1>5, <2>1, Zenon DEF Counted
<1> QED BY <1>4, <1>5

\* Of event e there are n more today.
MoreOf(ev, more, e, n) ==
    /\ EventsOK(more) /\ more[e][day] = ev[e][day] + n
    /\ \A c \in Events : \A d \in Days : (c # e \/ d # day) => more[c][d] = ev[c][d]

\* The number e was reached today.
ReachedOf(ev, more, e, n) ==
    /\ EventsOK(more) /\ more[e][day] = n
    /\ \A c \in Events : \A d \in Days : (c # e \/ d # day) => more[c][d] = ev[c][d]

LEMMA DoneSame ==
    ASSUME NEW m \in Missions, NEW ev, EventsOK(ev), NEW more, EventsOK(more), NEW reset,
           \A e \in MissionOf[m].counters : \A d \in Days : ev[e][d] = more[e][d]
    PROVE  DoneIn(ev, MissionOf[m], reset) = DoneIn(more, MissionOf[m], reset)
<1>1. MissionOf[m].counters \subseteq Events BY MissionsAssumption
<1>2. \A e \in MissionOf[m].counters : \A d \in Days : ev[e][d] \in Nat /\ more[e][d] \in Nat
  BY <1>1 DEF EventsOK
<1>3. \A e \in MissionOf[m].counters : \A d \in Days : ev[e][d] <= more[e][d] BY <1>2
<1>4. \A e \in MissionOf[m].counters : \A d \in Days : more[e][d] <= ev[e][d] BY <1>2
<1>5. DoneIn(ev, MissionOf[m], reset) <= DoneIn(more, MissionOf[m], reset) BY <1>3, DoneOrder
<1>6. DoneIn(more, MissionOf[m], reset) <= DoneIn(ev, MissionOf[m], reset) BY <1>4, DoneOrder
<1>7. DoneIn(ev, MissionOf[m], reset) \in Nat /\ DoneIn(more, MissionOf[m], reset) \in Nat
  BY DoneNat
<1> QED BY <1>5, <1>6, <1>7

LEMMA KeptEvent ==
    ASSUME NEW a, AcctOK(a), day \in FirstDay..MaxDay, NEW ev, EventsOK(ev), Kept(a, ev),
           NEW e \in Events, e # Collection, NEW n \in Nat,
           NEW b, b = advance_mission_event(a, e, n), NEW more, MoreOf(ev, more, e, n)
    PROVE  Kept(b, more)
<1> SUFFICES ASSUME NEW m \in ToCount, mission_active(m)
             PROVE  Counted(b, m) = Min({DoneIn(more, MissionOf[m], Cycle(m)), Last(MissionOf[m].steps)})
  BY Zenon DEF Kept, Cycle
<1> DEFINE old == DoneIn(ev, MissionOf[m], Cycle(m))
           new == DoneIn(more, MissionOf[m], Cycle(m))
           L == Last(MissionOf[m].steps)
<1>1. m \in Missions /\ MissionOf[m].task = None BY DEF ToCount
<1>2. day \in Nat BY HomeAssumption
<1>3. Counted(a, m) = Min({old, L}) BY Zenon DEF Kept, Cycle
<1>4. Counted(b, m) = IF e \in MissionOf[m].counters
                      THEN Min({advance(MissionOf[m], Counted(a, m), n), L}) ELSE Counted(a, m)
  BY <1>1, <1>2, TickedCounted
<1>5. EventsOK(more) BY DEF MoreOf
<1>6. old \in Nat /\ new \in Nat BY <1>1, <1>5, DoneNat
<1>7. L \in Nat BY <1>1, LastStep
<1>8. MissionOf[m].counters \subseteq Events BY <1>1, MissionsAssumption
<1>9. CASE e \in MissionOf[m].counters
  <2>1. ~MissionOf[m].maximum
    <3>1. Collection \notin MissionOf[m].counters BY <1>1, <1>9, MissionsAssumption
    <3> QED BY <1>1, <3>1, MissionsAssumption
  <2>2. /\ more[e][day] = ev[e][day] + n
        /\ \A c \in MissionOf[m].counters : \A d \in Days :
                (c # e \/ d # day) => more[c][d] = ev[c][d]
    BY <1>8 DEF MoreOf
  <2>3. new = old + n
    BY ONLY day \in FirstDay..MaxDay, EventsOK(ev),
            n \in Nat, <1>1, <1>5, <1>9, <2>1, <2>2,
            DoneMore
  <2>4. advance(MissionOf[m], Counted(a, m), n) = Counted(a, m) + n BY <2>1 DEF advance
  <2> HIDE DEF old, new, L
  <2>5. Min({old, L}) = (IF old <= L THEN old ELSE L)
        /\ Min({Counted(a, m) + n, L}) = (IF Counted(a, m) + n <= L THEN Counted(a, m) + n ELSE L)
        /\ Min({new, L}) = (IF new <= L THEN new ELSE L)
    <3>1. Counted(a, m) \in Nat BY <1>3, <1>6, <1>7, MinOfTwo
    <3>2. Counted(a, m) + n \in Nat BY <3>1
    <3> QED BY <1>6, <1>7, <3>2, MinOfTwo
  <2>6. Counted(b, m) = Min({Counted(a, m) + n, L}) BY <1>4, <1>9, <2>4
  <2>7. Min({Counted(a, m) + n, L}) = Min({new, L}) BY <1>3, <1>6, <1>7, <2>3, <2>5
  <2>8. Counted(b, m) = Min({new, L}) BY <2>6, <2>7
  <2> QED BY <2>8 DEF new, L
<1>10. CASE e \notin MissionOf[m].counters
  <2>1. \A c \in MissionOf[m].counters : \A d \in Days : ev[c][d] = more[c][d]
    BY <1>8, <1>10 DEF MoreOf
  <2>2. old = new BY <1>1, <1>5, <2>1, DoneSame
  <2> QED BY <1>3, <1>4, <1>10, <2>2, Zenon
<1> QED BY <1>9, <1>10

LEMMA KeptCollection ==
    ASSUME NEW a, AcctOK(a), day \in FirstDay..MaxDay, NEW ev, EventsOK(ev), Kept(a, ev),
           NEW n \in Nat, ev[Collection][day] <= n,
           NEW b, b = advance_mission_event(a, Collection, n),
           NEW more, ReachedOf(ev, more, Collection, n)
    PROVE  Kept(b, more)
<1> SUFFICES ASSUME NEW m \in ToCount, mission_active(m)
             PROVE  Counted(b, m) = Min({DoneIn(more, MissionOf[m], Cycle(m)), Last(MissionOf[m].steps)})
  BY Zenon DEF Kept, Cycle
<1> DEFINE old == DoneIn(ev, MissionOf[m], Cycle(m))
           new == DoneIn(more, MissionOf[m], Cycle(m))
           L == Last(MissionOf[m].steps)
<1>1. m \in Missions /\ MissionOf[m].task = None BY DEF ToCount
<1>2. day \in Nat BY HomeAssumption
<1>3. Counted(a, m) = Min({old, L}) BY Zenon DEF Kept, Cycle
<1>4. Counted(b, m) = IF Collection \in MissionOf[m].counters
                      THEN Min({advance(MissionOf[m], Counted(a, m), n), L}) ELSE Counted(a, m)
  BY <1>1, <1>2, TickedCounted
<1>5. EventsOK(more) BY DEF ReachedOf
<1>6. old \in Nat /\ new \in Nat BY <1>1, <1>5, DoneNat
<1>7. L \in Nat BY <1>1, LastStep
<1>8. MissionOf[m].counters \subseteq Events BY <1>1, MissionsAssumption
<1>9. CASE Collection \in MissionOf[m].counters
  <2>1. MissionOf[m].maximum /\ MissionOf[m].counters = {Collection}
    BY <1>1, <1>9, MissionsAssumption
  <2>2. more[Collection][day] = n /\ \A d \in Days : d # day => more[Collection][d] = ev[Collection][d]
    BY EventsFinite DEF ReachedOf
  <2>3. new = Max({old, n})
    BY ONLY day \in FirstDay..MaxDay, EventsOK(ev), ev[Collection][day] <= n,
            n \in Nat, <1>1, <1>5, <2>1, <2>2, DoneReached
  <2>4. advance(MissionOf[m], Counted(a, m), n) = Max({Counted(a, m), n}) BY <2>1 DEF advance
  <2> HIDE DEF old, new, L
  <2>5. /\ Min({old, L}) = (IF old <= L THEN old ELSE L)
        /\ Max({Counted(a, m), n}) = (IF Counted(a, m) >= n THEN Counted(a, m) ELSE n)
        /\ Max({old, n}) = (IF old >= n THEN old ELSE n)
        /\ Counted(a, m) \in Nat
    <3>1. Counted(a, m) \in Nat BY <1>3, <1>6, <1>7, MinOfTwo
    <3> QED BY <1>6, <1>7, <3>1, MinOfTwo, MaxOfTwo
  <2> DEFINE x == Max({Counted(a, m), n})
  <2>6. x \in Nat /\ x = (IF Counted(a, m) >= n THEN Counted(a, m) ELSE n) BY <2>5
  <2>7. Counted(b, m) = Min({x, L}) BY <1>4, <1>9, <2>4
  <2> HIDE DEF x
  <2>8. /\ Min({x, L}) = (IF x <= L THEN x ELSE L)
        /\ Min({new, L}) = (IF new <= L THEN new ELSE L)
    BY <1>6, <1>7, <2>6, MinOfTwo
  <2>9. Min({x, L}) = Min({new, L}) BY <1>3, <1>6, <1>7, <2>3, <2>5, <2>6, <2>8
  <2> QED BY <2>7, <2>9 DEF new, L
<1>10. CASE Collection \notin MissionOf[m].counters
  <2>1. \A c \in MissionOf[m].counters : \A d \in Days : ev[c][d] = more[c][d]
    BY <1>8, <1>10 DEF ReachedOf
  <2>2. old = new BY <1>1, <1>5, <2>1, DoneSame
  <2> QED BY <1>3, <1>4, <1>10, <2>2, Zenon
<1> QED BY <1>9, <1>10

\* Counters of the resources do not listen to other events.
LEMMA ProjectedEvent ==
    ASSUME NEW a, AcctOK(a), NEW e, e \notin Sources, NEW n \in Nat, day \in Nat, Projected(a),
           NEW b, b = advance_mission_event(a, e, n)
    PROVE  Projected(b)
<1> SUFFICES ASSUME NEW t \in Tasks, StateBacked(t)
             PROVE  b.tasks[t] = state_counter_total(b, t)
  BY DEF Projected
<1>1. a \in HomeAccts BY DEF AcctOK
<1>2. /\ Same(a, b, {"tasks", "touched", "missions"})
      /\ b.tasks[t] = IF e \in TaskOf[t].counters /\ TaskTicked(a, t, n) > a.tasks[t]
                      THEN TaskTicked(a, t, n) ELSE a.tasks[t]
  BY <1>1, EventIs
<1>3. e \notin TaskOf[t].counters BY DEF StateBacked
<1>4. b.clears = a.clears /\ b.items = a.items BY <1>2 DEF Same, AcctFields
<1>5. \A s : Total(b, s) = Total(a, s) BY <1>4, Zenon DEF Total
<1>6. state_counter_total(b, t) = state_counter_total(a, t) BY <1>5, Zenon DEF state_counter_total
<1>7. a.tasks[t] = state_counter_total(a, t) BY DEF Projected
<1> QED BY <1>2, <1>3, <1>6, <1>7

-----------------------------------------------------------------------------
(* Missions are advanced to today. *)

Current(a) ==
    /\ \A m \in Missions : mission_active(m) =>
          m \in DOMAIN a.missions /\ a.missions[m].reset = Cycle(m)
    /\ \A c \in DOMAIN a.counts : a.counts[c].reset = reset_at(CountSteps[c].cycle, day)

LEMMA ReconciledFields ==
    ASSUME NEW a \in HomeAccts, NEW b, b = Reconciled(a)
    PROVE  /\ Same(a, b, {"tasks", "touched"})
           /\ b.tasks = [t \in Tasks |-> b.tasks[t]]
           /\ \A t \in Tasks :
                b.tasks[t] = IF StateBacked(t) THEN state_counter_total(a, t) ELSE a.tasks[t]
           /\ b.touched \subseteq a.touched \union Tasks
<1> DEFINE wrong == {t \in Tasks : StateBacked(t) /\ a.tasks[t] # state_counter_total(a, t)}
           tasks == [t \in Tasks |-> IF t \in wrong THEN state_counter_total(a, t) ELSE a.tasks[t]]
           touched == a.touched \union wrong
<1>1. b = [a EXCEPT !.tasks = tasks, !.touched = touched] BY Zenon DEF Reconciled
<1>2. DOMAIN a = AcctFields BY AcctFunction
<1>3. /\ tasks = [t \in Tasks |-> tasks[t]]
      /\ \A t \in Tasks :
            tasks[t] = IF StateBacked(t) THEN state_counter_total(a, t) ELSE a.tasks[t]
  <2>1. tasks = [t \in Tasks |-> tasks[t]] BY Zenon
  <2>2. ASSUME NEW t \in Tasks
        PROVE  tasks[t] = IF StateBacked(t) THEN state_counter_total(a, t) ELSE a.tasks[t]
    <3>1. tasks[t] = IF t \in wrong THEN state_counter_total(a, t) ELSE a.tasks[t] BY Zenon
    <3>2. t \in wrong <=> StateBacked(t) /\ a.tasks[t] # state_counter_total(a, t) OBVIOUS
    <3> HIDE DEF tasks, wrong
    <3> QED BY <3>1, <3>2
  <2> QED BY <2>1, <2>2
<1>4. touched \subseteq a.touched \union Tasks OBVIOUS
<1> HIDE DEF tasks, touched, wrong
<1>5. Same(a, b, {"tasks", "touched"}) /\ b.tasks = tasks /\ b.touched = touched
  BY <1>1, <1>2 DEF Same, AcctFields
<1> QED BY <1>3, <1>4, <1>5, Zenon

AsTable(f) == f = [x \in DOMAIN f |-> f[x]]

Active == {m \in Missions : mission_active(m)}

Outdated(a) ==
    {c \in Categories : /\ reset_at(CountSteps[c].cycle, day) # None
                        /\ c \notin DOMAIN a.counts
                            \/ a.counts[c].reset # reset_at(CountSteps[c].cycle, day)}

LEMMA AdvancedFields ==
    ASSUME NEW a \in HomeAccts, NEW b, b = advance_missions(a)
    PROVE  /\ Same(a, b, {"tasks", "touched", "missions", "counts"})
           /\ AsTable(b.tasks) /\ DOMAIN b.tasks = Tasks
           /\ \A t \in Tasks :
                b.tasks[t] = IF StateBacked(t) THEN state_counter_total(a, t) ELSE a.tasks[t]
           /\ b.touched \subseteq a.touched \union Tasks
           /\ DOMAIN b.missions = DOMAIN a.missions \union Active
           /\ AsTable(b.missions)
           /\ \A m \in Active : b.missions[m] = mission_state(m, Existing(a, m))
           /\ \A m \in DOMAIN a.missions \ Active : b.missions[m] = a.missions[m]
           /\ DOMAIN b.counts = DOMAIN a.counts \union Outdated(a)
           /\ AsTable(b.counts)
           /\ \A c \in Outdated(a) : b.counts[c] = FreshCount(c)
           /\ \A c \in DOMAIN a.counts \ Outdated(a) : b.counts[c] = a.counts[c]
<1> DEFINE r == Reconciled(a)
<1>1. r = Reconciled(a) OBVIOUS
<1> HIDE DEF r
<1>2. /\ Same(a, r, {"tasks", "touched"})
      /\ r.tasks = [t \in Tasks |-> r.tasks[t]]
      /\ \A t \in Tasks :
            r.tasks[t] = IF StateBacked(t) THEN state_counter_total(a, t) ELSE a.tasks[t]
      /\ r.touched \subseteq a.touched \union Tasks
  BY <1>1, ReconciledFields
<1>3. r.missions = a.missions /\ r.counts = a.counts BY <1>2 DEF Same, AcctFields
<1>4. \A m : Existing(r, m) = Existing(a, m) BY <1>3, Zenon DEF Existing
<1> DEFINE outdated == Outdated(a)
           missions == [m \in DOMAIN a.missions \union Active |->
                            IF m \in Active THEN mission_state(m, Existing(a, m)) ELSE a.missions[m]]
           counts == [c \in DOMAIN a.counts \union outdated |->
                            IF c \in outdated THEN FreshCount(c) ELSE a.counts[c]]
<1>5. b = [r EXCEPT !.missions = missions, !.counts = counts]
  <2> DEFINE old == {c \in Categories : /\ reset_at(CountSteps[c].cycle, day) # None
                                        /\ c \notin DOMAIN r.counts
                                            \/ r.counts[c].reset # reset_at(CountSteps[c].cycle, day)}
             now == {m \in Missions : mission_active(m)}
  <2>1. b = [r EXCEPT
                !.missions = [m \in DOMAIN r.missions \union now |->
                    IF m \in now THEN mission_state(m, Existing(r, m)) ELSE r.missions[m]],
                !.counts = [c \in DOMAIN r.counts \union old |->
                    IF c \in old THEN FreshCount(c) ELSE r.counts[c]]]
    BY <1>1, Zenon DEF advance_missions
  <2>2. old = outdated BY <1>3, Zenon DEF Outdated
  <2>3. now = Active BY DEF Active
  <2>4. [m \in DOMAIN r.missions \union now |->
                    IF m \in now THEN mission_state(m, Existing(r, m)) ELSE r.missions[m]] = missions
    <3> HIDE DEF now
    <3> QED BY <1>3, <1>4, <2>3
  <2>5. [c \in DOMAIN r.counts \union old |->
                    IF c \in old THEN FreshCount(c) ELSE r.counts[c]] = counts
    <3> HIDE DEF old, outdated
    <3> QED BY <1>3, <2>2
  <2> HIDE DEF old, now, missions, counts
  <2> QED BY <2>1, <2>4, <2>5, Zenon
<1>6. /\ DOMAIN missions = DOMAIN a.missions \union Active
      /\ missions = [m \in DOMAIN missions |-> missions[m]]
      /\ \A m \in Active : missions[m] = mission_state(m, Existing(a, m))
      /\ \A m \in DOMAIN a.missions \ Active : missions[m] = a.missions[m]
  BY Zenon
<1>7. /\ DOMAIN counts = DOMAIN a.counts \union outdated
      /\ counts = [c \in DOMAIN counts |-> counts[c]]
      /\ \A c \in outdated : counts[c] = FreshCount(c)
      /\ \A c \in DOMAIN a.counts \ outdated : counts[c] = a.counts[c]
  BY Zenon
<1> HIDE DEF missions, counts
<1>8. Same(r, b, {"missions", "counts"}) /\ b.missions = missions /\ b.counts = counts
  BY <1>2, <1>5 DEF Same, AcctFields
<1>9. Same(a, b, {"tasks", "touched", "missions", "counts"})
  <2>1. Same(a, b, {"tasks", "touched"} \union {"missions", "counts"}) BY <1>2, <1>8, SameTwice
  <2>2. {"tasks", "touched"} \union {"missions", "counts"} = {"tasks", "touched", "missions", "counts"}
    OBVIOUS
  <2> QED BY <2>1, <2>2, Zenon
<1>10. b.tasks = r.tasks /\ b.touched = r.touched BY <1>8 DEF Same, AcctFields
<1>11. AsTable(b.tasks) /\ DOMAIN b.tasks = Tasks BY <1>2, <1>10 DEF AsTable
<1>12. /\ DOMAIN b.missions = DOMAIN a.missions \union Active /\ AsTable(b.missions)
       /\ \A m \in Active : b.missions[m] = mission_state(m, Existing(a, m))
       /\ \A m \in DOMAIN a.missions \ Active : b.missions[m] = a.missions[m]
  BY <1>6, <1>8, Zenon DEF AsTable
<1>13. /\ DOMAIN b.counts = DOMAIN a.counts \union outdated /\ AsTable(b.counts)
       /\ \A c \in outdated : b.counts[c] = FreshCount(c)
       /\ \A c \in DOMAIN a.counts \ outdated : b.counts[c] = a.counts[c]
  BY <1>7, <1>8, Zenon DEF AsTable
<1>14. /\ \A t \in Tasks : b.tasks[t] = IF StateBacked(t) THEN state_counter_total(a, t)
                                       ELSE a.tasks[t]
       /\ b.touched \subseteq a.touched \union Tasks
  BY <1>2, <1>10, Zenon
<1> QED BY <1>9, <1>11, <1>12, <1>13, <1>14, Zenon

LEMMA MissionsAdvanced ==
    ASSUME NEW a, AcctOK(a), day \in Nat, NEW b, b = advance_missions(a)
    PROVE  /\ Advances(a, b) /\ b.multi = a.multi /\ Current(b) /\ Projected(b)
           /\ \A m \in Missions : Counted(b, m) = Counted(a, m)
<1> DEFINE active == Active
           outdated == Outdated(a)
           F == {"tasks", "touched", "missions", "counts"}
<1>0. active \subseteq Missions /\ \A m \in Missions : mission_active(m) => m \in active BY DEF Active
<1>00. outdated \subseteq Categories /\ \A c \in Categories :
          (c \notin outdated /\ c \in DOMAIN a.counts) =>
               reset_at(CountSteps[c].cycle, day) = None
                  \/ a.counts[c].reset = reset_at(CountSteps[c].cycle, day)
  BY DEF Outdated
<1>1. a \in HomeAccts /\ Timely(a) BY DEF AcctOK
<1>2. /\ Same(a, b, F)
      /\ AsTable(b.tasks) /\ DOMAIN b.tasks = Tasks
      /\ \A t \in Tasks :
            b.tasks[t] = IF StateBacked(t) THEN state_counter_total(a, t) ELSE a.tasks[t]
      /\ b.touched \subseteq a.touched \union Tasks
      /\ DOMAIN b.missions = DOMAIN a.missions \union active
      /\ AsTable(b.missions)
      /\ \A m \in active : b.missions[m] = mission_state(m, Existing(a, m))
      /\ \A m \in DOMAIN a.missions \ active : b.missions[m] = a.missions[m]
      /\ DOMAIN b.counts = DOMAIN a.counts \union outdated
      /\ AsTable(b.counts)
      /\ \A c \in outdated : b.counts[c] = FreshCount(c)
      /\ \A c \in DOMAIN a.counts \ outdated : b.counts[c] = a.counts[c]
  <2> HIDE DEF active, outdated, F
  <2>1. /\ Same(a, b, {"tasks", "touched", "missions", "counts"})
        /\ AsTable(b.tasks) /\ DOMAIN b.tasks = Tasks
        /\ \A t \in Tasks :
              b.tasks[t] = IF StateBacked(t) THEN state_counter_total(a, t) ELSE a.tasks[t]
        /\ b.touched \subseteq a.touched \union Tasks
        /\ DOMAIN b.missions = DOMAIN a.missions \union Active
        /\ AsTable(b.missions)
        /\ \A m \in Active : b.missions[m] = mission_state(m, Existing(a, m))
        /\ \A m \in DOMAIN a.missions \ Active : b.missions[m] = a.missions[m]
        /\ DOMAIN b.counts = DOMAIN a.counts \union Outdated(a)
        /\ AsTable(b.counts)
        /\ \A c \in Outdated(a) : b.counts[c] = FreshCount(c)
        /\ \A c \in DOMAIN a.counts \ Outdated(a) : b.counts[c] = a.counts[c]
    BY <1>1, AdvancedFields
  <2> QED BY <2>1, Zenon DEF F, active, outdated
<1> HIDE DEF active, outdated
<1>3. ASSUME NEW m \in active
      PROVE  /\ RecordOK(m, b.missions[m]) /\ b.missions[m].reset = Cycle(m)
             /\ Ahead(Existing(a, m), b.missions[m])
  <2>1. m \in Missions /\ b.missions[m] = mission_state(m, Existing(a, m)) BY <1>0, <1>2, Zenon
  <2>2. RecordOK(m, Existing(a, m)) /\ Existing(a, m).reset <= Cycle(m) BY <1>1, <2>1, ExistingOK
  <2> QED BY <2>1, <2>2, StateOf
<1>4. \A m \in DOMAIN a.missions : /\ m \in Missions /\ RecordOK(m, a.missions[m])
                                   /\ a.missions[m].reset <= Cycle(m)
  BY <1>1, RecordTypes, Zenon DEF Timely, Cycle
<1>5. b.missions \in MissionRecords
  <2>1. DOMAIN b.missions \subseteq Missions BY <1>0, <1>2, <1>4
  <2>2. \A m \in DOMAIN b.missions : RecordOK(m, b.missions[m])
    <3>1. DOMAIN b.missions = DOMAIN a.missions \union active
          /\ \A m \in DOMAIN a.missions \ active : b.missions[m] = a.missions[m]
      BY <1>2, Zenon
    <3> QED BY <1>3, <1>4, <3>1
  <2>3. b.missions = [m \in DOMAIN b.missions |-> b.missions[m]] BY <1>2, Zenon DEF AsTable
  <2> QED BY <2>1, <2>2, <2>3, MissionRecordsAre, Zenon
<1>6. \A c \in DOMAIN a.counts : /\ c \in Categories /\ CountOK(c, a.counts[c])
                                 /\ a.counts[c].reset <= reset_at(CountSteps[c].cycle, day)
  BY <1>1, RecordTypes, Zenon DEF Timely
<1>7. \A c \in Categories : reset_at(CountSteps[c].cycle, day) \in Nat BY ResetAt
<1>8. ASSUME NEW c \in outdated
      PROVE  CountOK(c, b.counts[c]) /\ b.counts[c].reset = reset_at(CountSteps[c].cycle, day)
  <2>1. b.counts[c] = [received |-> 0, reset |-> reset_at(CountSteps[c].cycle, day)]
    BY <1>2, Zenon DEF FreshCount
  <2>2. c \in Categories BY <1>00
  <2>3. Len(CountSteps[c].steps) \in Nat BY <2>2, RewardsAssumption
  <2> QED BY <1>7, <2>1, <2>2, <2>3 DEF CountOK, CountRecord
<1>9. ASSUME NEW c \in DOMAIN a.counts, c \notin outdated
      PROVE  b.counts[c] = a.counts[c] /\ b.counts[c].reset = reset_at(CountSteps[c].cycle, day)
  <2>1. b.counts[c] = a.counts[c] BY <1>2, <1>9, Zenon
  <2>2. reset_at(CountSteps[c].cycle, day) = None
                  \/ a.counts[c].reset = reset_at(CountSteps[c].cycle, day)
    BY <1>00, <1>6, <1>9
  <2>3. a.counts[c].reset \in Nat BY <1>1, RecordTypes
  <2> QED BY <1>6, <1>7, <2>1, <2>2, <2>3 DEF None
<1>10. DOMAIN b.counts = DOMAIN a.counts \union outdated
       /\ b.counts = [c \in DOMAIN b.counts |-> b.counts[c]]
  BY <1>2, Zenon DEF AsTable
<1>11. b.counts \in CountRecords
  <2>1. DOMAIN b.counts \subseteq Categories BY <1>00, <1>6, <1>10
  <2>2. \A c \in DOMAIN b.counts : CountOK(c, b.counts[c]) BY <1>6, <1>8, <1>9, <1>10
  <2> QED BY <1>10, <2>1, <2>2, CountRecordsAre, Zenon
<1>12. \A c \in DOMAIN b.counts : b.counts[c].reset = reset_at(CountSteps[c].cycle, day)
  BY <1>8, <1>9, <1>10
<1>13. b.tasks \in [Tasks -> Nat]
  <2>1. \A t \in Tasks : a.tasks[t] \in Nat BY <1>1, AcctTypes
  <2>2. \A t \in Tasks : StateBacked(t) => state_counter_total(a, t) \in Nat BY <1>1, TotalNat
  <2>3. \A t \in Tasks : b.tasks[t] \in Nat BY <1>2, <2>1, <2>2
  <2>4. AsTable(b.tasks) /\ DOMAIN b.tasks = Tasks BY <1>2, Zenon
  <2> QED BY <2>3, <2>4 DEF AsTable
<1>14. b.touched \subseteq Tasks
  <2>1. a.touched \subseteq Tasks BY <1>1, AcctTypes
  <2>2. b.touched \subseteq a.touched \union Tasks BY <1>2, Zenon
  <2> QED BY <2>1, <2>2
<1>15. Same(a, b, F) BY <1>2, Zenon
<1>16. b \in HomeAccts
  <2>1. \A f \in F : b[f] \in AcctType[f] BY <1>5, <1>11, <1>13, <1>14 DEF AcctType
  <2> HIDE DEF F
  <2> QED BY <1>1, <1>15, <2>1, AcctUpdate
<1>17. b.multi = a.multi /\ b.clears = a.clears /\ b.items = a.items BY <1>15 DEF Same, AcctFields
<1>18. DOMAIN b.missions = DOMAIN a.missions \union active
       /\ \A m \in DOMAIN a.missions \ active : b.missions[m] = a.missions[m]
  BY <1>2, Zenon
<1>19. Timely(b)
  <2>1. \A m \in Missions : Cycle(m) \in Nat BY ResetAt DEF Cycle
  <2>2. \A m \in DOMAIN b.missions : b.missions[m].reset <= Cycle(m)
    BY <1>0, <1>3, <1>4, <1>18, <2>1
  <2>3. \A c \in DOMAIN b.counts : b.counts[c].reset <= reset_at(CountSteps[c].cycle, day)
    <3>1. DOMAIN b.counts \subseteq Categories BY <1>00, <1>6, <1>10
    <3> QED BY <1>7, <1>12, <3>1
  <2> QED BY <2>2, <2>3, Zenon DEF Timely, Cycle
<1>20. \A m \in DOMAIN a.missions : m \in DOMAIN b.missions /\ Ahead(a.missions[m], b.missions[m])
  <2>1. \A m \in DOMAIN a.missions : Existing(a, m) = a.missions[m] BY Zenon DEF Existing
  <2>2. \A m \in DOMAIN a.missions : Ahead(a.missions[m], a.missions[m]) BY <1>1, AheadSelf
  <2> QED BY <1>3, <1>18, <2>1, <2>2
<1>21. \A c \in DOMAIN a.counts : c \in DOMAIN b.counts /\ Ahead(a.counts[c], b.counts[c])
  <2>1. \A c \in DOMAIN a.counts : c \notin outdated => Ahead(a.counts[c], b.counts[c])
    BY <1>1, <1>9, AheadSelf
  <2>2. ASSUME NEW c \in DOMAIN a.counts, c \in outdated PROVE Ahead(a.counts[c], b.counts[c])
    <3>1. a.counts[c].reset # reset_at(CountSteps[c].cycle, day) BY <2>2 DEF outdated, Outdated
    <3>2. a.counts[c].reset \in Nat /\ reset_at(CountSteps[c].cycle, day) \in Nat
      BY <1>1, <1>6, <1>7, RecordTypes
    <3> QED BY <1>6, <1>8, <2>2, <3>1, <3>2 DEF Ahead
  <2> QED BY <1>10, <2>1, <2>2
<1>22. Advances(a, b)
  <2>1. Same(a, b, {"missions", "tasks", "touched", "counts", "multi"}) BY <1>15, SameMore
  <2> HIDE DEF F
  <2> QED BY <1>16, <1>17, <1>19, <1>20, <1>21, <2>1 DEF Advances
<1>23. Current(b) BY <1>0, <1>3, <1>12, <1>18 DEF Current
<1>24. Projected(b)
  <2>1. \A s : Total(b, s) = Total(a, s) BY <1>17, Zenon DEF Total
  <2>2. \A t : state_counter_total(b, t) = state_counter_total(a, t)
    BY <2>1, Zenon DEF state_counter_total
  <2> QED BY <1>2, <2>2, Zenon DEF Projected
<1>25. ASSUME NEW m \in Missions PROVE Counted(b, m) = Counted(a, m)
  <2>1. CASE m \in active
    <3>1. Existing(b, m) = b.missions[m] BY <1>18, <2>1 DEF Existing
    <3>2. b.missions[m] = mission_state(m, Existing(a, m)) BY <1>2, <2>1, Zenon
    <3>3. mission_state(m, b.missions[m]) = b.missions[m] BY <1>3, <2>1, StateStays
    <3> QED BY <3>1, <3>2, <3>3, Zenon DEF Counted
  <2>2. CASE m \notin active
    <3>1. Existing(b, m) = Existing(a, m) BY <1>18, <2>2 DEF Existing
    <3> QED BY <3>1, Zenon DEF Counted
  <2> QED BY <2>1, <2>2
<1> QED BY <1>17, <1>22, <1>23, <1>24, <1>25

-----------------------------------------------------------------------------
(* Several events of one kind. *)

LEMMA KeptSame ==
    ASSUME NEW a, NEW b, NEW ev, Kept(a, ev), \A m \in Missions : Counted(b, m) = Counted(a, m)
    PROVE  Kept(b, ev)
<1>1. ToCount \subseteq Missions BY DEF ToCount
<1> QED BY <1>1, Zenon DEF Kept

LEMMA SameMissionsCount ==
    ASSUME NEW a, NEW b, b.missions = a.missions
    PROVE  \A m \in Missions : Counted(b, m) = Counted(a, m)
<1>1. \A m : Existing(b, m) = Existing(a, m) BY Zenon DEF Existing
<1> QED BY <1>1, Zenon DEF Counted

\* The first is one for the second history, too, when they say the same of its missions.
LEMMA MultiCounted ==
    ASSUME NEW a, AcctOK(a), NEW n \in Nat, NEW b, b = [a EXCEPT !.multi.count = @ + n]
    PROVE  Advances(a, b) /\ b.missions = a.missions
<1>1. a \in HomeAccts /\ Timely(a) BY DEF AcctOK
<1>2. DOMAIN a = AcctFields BY <1>1, AcctFunction
<1>3. a.multi \in [count: Nat, received: Nat] BY <1>1, AcctTypes
<1> DEFINE multi == [a.multi EXCEPT !.count = @ + n]
<1>4. multi \in [count: Nat, received: Nat] /\ multi.received = a.multi.received BY <1>3
<1>5. b = [a EXCEPT !.multi = multi] BY Zenon
<1> HIDE DEF multi
<1>6. Same(a, b, {"multi"}) /\ b.multi = multi BY <1>2, <1>5 DEF Same, AcctFields
<1>7. b \in HomeAccts
  <2>1. AcctType["multi"] = [count: Nat, received: Nat] BY DEF AcctType
  <2>2. \A f \in {"multi"} : b[f] \in AcctType[f] BY ONLY <1>4, <1>6, <2>1
  <2> QED BY <1>1, <1>6, <2>2, AcctUpdate
<1>8. b.missions = a.missions /\ b.counts = a.counts BY <1>6 DEF Same, AcctFields
<1>9. Timely(b) BY <1>1, <1>8, Zenon DEF Timely
<1>10. Same(a, b, {"missions", "tasks", "touched", "counts", "multi"}) BY <1>6, SameMore
<1>11. /\ \A m \in DOMAIN a.missions : m \in DOMAIN b.missions /\ Ahead(a.missions[m], b.missions[m])
       /\ \A c \in DOMAIN a.counts : c \in DOMAIN b.counts /\ Ahead(a.counts[c], b.counts[c])
  BY <1>1, <1>8, AheadSelf
<1> QED BY <1>4, <1>6, <1>7, <1>8, <1>9, <1>10, <1>11 DEF Advances

LEMMA AdvancedIs ==
    ASSUME NEW a, AcctOK(a), day \in FirstDay..MaxDay, NEW kind, NEW n, NEW delta \in Nat,
           NEW b, b = Advanced(a, kind, n, delta)
    PROVE  /\ Advances(a, b)
           /\ \A ev, more : (/\ EventsOK(ev) /\ Kept(a, ev)
                             /\ <<kind, n>> \in Events /\ <<kind, n>> # Collection
                             /\ MoreOf(ev, more, <<kind, n>>, delta)) => Kept(b, more)
<1> DEFINE e == <<kind, n>>
           c == advance_mission_event(a, e, delta)
           d == [c EXCEPT !.multi.count = @ + delta]
<1>1. day \in Nat BY HomeAssumption
<1>2. c = advance_mission_event(a, e, delta) OBVIOUS
<1>3. d = [c EXCEPT !.multi.count = @ + delta] OBVIOUS
<1>4. b = c \/ b = advance_missions(d) BY Zenon DEF Advanced, advance_multi_mission_item
<1> HIDE DEF c, d, e
<1>5. Advances(a, c) BY <1>1, <1>2, TickedAdvances
<1>6. AcctOK(c) /\ a \in HomeAccts BY <1>5, AdvancesOK DEF AcctOK
<1>7. ASSUME NEW ev, NEW more, EventsOK(ev), Kept(a, ev), e \in Events, e # Collection,
             MoreOf(ev, more, e, delta)
      PROVE  Kept(c, more)
  BY <1>2, <1>7, KeptEvent
<1>8. Advances(c, d) /\ d.missions = c.missions BY <1>3, <1>6, MultiCounted
<1>9. AcctOK(d) BY <1>8, AdvancesOK
<1>10. CASE b = c BY <1>5, <1>7, <1>10 DEF e
<1>11. CASE b = advance_missions(d)
  <2>1. Advances(d, b) /\ \A m \in Missions : Counted(b, m) = Counted(d, m)
    BY <1>1, <1>9, <1>11, MissionsAdvanced
  <2>2. \A m \in Missions : Counted(d, m) = Counted(c, m) BY <1>8, SameMissionsCount
  <2>3. Advances(a, b) BY <1>5, <1>6, <1>8, <2>1, AdvancesTwice DEF AcctOK
  <2>4. \A m \in Missions : Counted(b, m) = Counted(c, m) BY <2>1, <2>2
  <2>5. ASSUME NEW ev, NEW more, EventsOK(ev), Kept(a, ev), e \in Events, e # Collection,
               MoreOf(ev, more, e, delta)
        PROVE  Kept(b, more)
    <3>1. Kept(c, more) BY <1>7, <2>5
    <3> QED BY <2>4, <3>1, KeptSame
  <2> QED BY <2>3, <2>5 DEF e
<1> QED BY <1>4, <1>10, <1>11

EachTable(a, kind, deltas, h) ==
    /\ h[{}] = a
    /\ \A T \in SUBSET DOMAIN deltas :
          T # {} => h[T] = Advanced(h[T \ {Max(T)}], kind, Max(T), deltas[Max(T)])

Accts == {a \in HomeAccts : Timely(a)}

LEMMA EachFold ==
    ASSUME NEW a, AcctOK(a), day \in FirstDay..MaxDay, NEW kind, NEW deltas,
           IsFiniteSet(DOMAIN deltas), DOMAIN deltas \subseteq Nat,
           \A n \in DOMAIN deltas : deltas[n] \in Nat
    PROVE  \E h : EachTable(a, kind, deltas, h) /\ AdvanceEach(a, kind, deltas) = h[DOMAIN deltas]
<1> DEFINE D == DOMAIN deltas
           step == [p \in Accts \X D |-> Advanced(p[1], kind, p[2], deltas[p[2]])]
           pick == [T \in SUBSET D |-> Max(T)]
           R(h) == h = [T \in SUBSET D |->
                IF T = {} THEN a
                ELSE LET x == Max(T) IN Advanced(h[T \ {x}], kind, x, deltas[x])]
<1>1. \A T \in SUBSET D : T # {} => Max(T) \in T
  <2>1. \A T \in SUBSET D : IsFiniteSet(T) BY FS_Subset
  <2> QED BY <2>1, MaxOf
<1>2. IsFoldStep(step, Accts, D)
  <2>1. ASSUME NEW b \in Accts, NEW n \in D PROVE Advanced(b, kind, n, deltas[n]) \in Accts
    <3>1. AcctOK(b) BY DEF Accts, AcctOK
    <3>2. deltas[n] \in Nat OBVIOUS
    <3>3. Advances(b, Advanced(b, kind, n, deltas[n])) BY <3>1, <3>2, AdvancedIs
    <3> QED BY <3>3 DEF Advances, Accts
  <2> QED BY <2>1 DEF IsFoldStep
<1>3. a \in Accts BY DEF Accts, AcctOK
<1>4. PICK c : IsFold(a, step, pick, Accts, D, c)
  <2>1. \A T \in SUBSET D : T # {} => pick[T] \in T BY <1>1
  <2>2. IsFiniteSet(D) OBVIOUS
  <2> HIDE DEF step, pick, D
  <2> QED BY ONLY <1>2, <1>3, <2>1, <2>2, SetFoldExists
<1>14. c \in [SUBSET D -> Accts] /\ \A T \in SUBSET D : c[T] = FoldStep(a, step, pick, c, T)
  BY <1>4, Zenon DEF IsFold
<1>5. ASSUME NEW T \in SUBSET D, T # {}
      PROVE  c[T] = Advanced(c[T \ {Max(T)}], kind, Max(T), deltas[Max(T)])
  <2> DEFINE U == T \ {Max(T)}
             x == Max(T)
  <2>1. c[T] = step[<<c[U], x>>] BY <1>14, <1>5, Zenon DEF FoldStep
  <2>2. x \in D /\ U \in SUBSET D BY <1>1, <1>5
  <2>3. c[U] \in Accts BY <1>14, <2>2
  <2> HIDE DEF U, x
  <2>4. step[<<c[U], x>>] = Advanced(c[U], kind, x, deltas[x]) BY <2>2, <2>3
  <2>5. c[T] = Advanced(c[U], kind, x, deltas[x]) BY <2>1, <2>4
  <2> QED BY <2>5, Zenon DEF U, x
<1>6. c[{}] = a BY <1>14, Zenon DEF FoldStep
<1>7. R(c)
  <2>1. c = [T \in SUBSET D |-> c[T]] BY <1>14
  <2>2. \A T \in SUBSET D : c[T] = IF T = {} THEN a
                ELSE LET x == Max(T) IN Advanced(c[T \ {x}], kind, x, deltas[x])
    BY <1>5, <1>6, Zenon
  <2> HIDE DEF D
  <2> QED BY <2>1, <2>2, Zenon
<1>8. R(CHOOSE h : R(h))
  <2>1. \E h : R(h) BY <1>7, Zenon
  <2> QED BY <2>1, Zenon
<1> DEFINE h == CHOOSE g : R(g)
<1>9. AdvanceEach(a, kind, deltas) = h[D]
  BY Zenon DEF AdvanceEach, MapThenFoldSet
<1>10. R(h) BY <1>8, Zenon
<1> HIDE DEF h
<1>11. h = [T \in SUBSET D |-> IF T = {} THEN a
                ELSE LET x == Max(T) IN Advanced(h[T \ {x}], kind, x, deltas[x])]
  BY <1>10, Zenon
<1>12. \A T \in SUBSET D : h[T] = IF T = {} THEN a
                ELSE LET x == Max(T) IN Advanced(h[T \ {x}], kind, x, deltas[x])
  BY <1>11, Zenon
<1>13. EachTable(a, kind, deltas, h)
  <2>1. h[{}] = a BY <1>12, Zenon
  <2>2. \A T \in SUBSET D : T # {} => h[T] = Advanced(h[T \ {Max(T)}], kind, Max(T), deltas[Max(T)])
    BY <1>12, Zenon
  <2> QED BY <2>1, <2>2, Zenon DEF EachTable
<1> QED BY <1>9, <1>13, Zenon

LEMMA KeptSameEvents ==
    ASSUME NEW a, NEW ev, EventsOK(ev), NEW more, EventsOK(more), Kept(a, ev),
           \A e \in Events : \A d \in Days : more[e][d] = ev[e][d]
    PROVE  Kept(a, more)
<1> SUFFICES ASSUME NEW m \in ToCount, mission_active(m)
             PROVE  Counted(a, m) = Min({DoneIn(more, MissionOf[m], Cycle(m)), Last(MissionOf[m].steps)})
  BY Zenon DEF Kept, Cycle
<1>1. m \in Missions BY DEF ToCount
<1>2. MissionOf[m].counters \subseteq Events BY <1>1, MissionsAssumption
<1>3. DoneIn(ev, MissionOf[m], Cycle(m)) = DoneIn(more, MissionOf[m], Cycle(m))
  BY <1>1, <1>2, DoneSame
<1>4. Counted(a, m) = Min({DoneIn(ev, MissionOf[m], Cycle(m)), Last(MissionOf[m].steps)})
  BY Zenon DEF Kept, Cycle
<1> QED BY <1>3, <1>4, Zenon

\* Of every event of a kind there are some more today.
MoreOfEach(ev, more, kind, deltas) ==
    /\ EventsOK(more)
    /\ \A n \in DOMAIN deltas :
          <<kind, n>> \in Events => more[<<kind, n>>][day] = ev[<<kind, n>>][day] + deltas[n]
    /\ \A c \in Events : \A d \in Days :
          (d # day \/ c[1] # kind \/ c[2] \notin DOMAIN deltas) => more[c][d] = ev[c][d]

\* Those of a part of them.
MoreOfSome(ev, more, kind, T) ==
    [c \in Events |-> [d \in Days |->
        IF d = day /\ c[1] = kind /\ c[2] \in T THEN more[c][d] ELSE ev[c][d]]]

LEMMA EventPairs ==
    \A c \in Events : c = <<c[1], c[2]>>
BY DEF Events, Sources, Collection

LEMMA MoreOfSomeIs ==
    ASSUME NEW ev, EventsOK(ev), NEW more, EventsOK(more), NEW kind, NEW T,
           NEW x, x = MoreOfSome(ev, more, kind, T)
    PROVE  /\ EventsOK(x)
           /\ \A c \in Events : \A d \in Days :
                x[c][d] = IF d = day /\ c[1] = kind /\ c[2] \in T THEN more[c][d] ELSE ev[c][d]
<1>1. \A c \in Events : \A d \in Days : ev[c][d] \in Nat /\ more[c][d] \in Nat BY DEF EventsOK
<1>2. \A c \in Events : \A d \in Days :
        x[c][d] = IF d = day /\ c[1] = kind /\ c[2] \in T THEN more[c][d] ELSE ev[c][d]
  BY Zenon DEF MoreOfSome
<1>3. x = [c \in Events |-> [d \in Days |-> x[c][d]]] BY DEF MoreOfSome
<1>4. \A c \in Events : \A d \in Days : x[c][d] \in Nat BY <1>1, <1>2
<1>5. x \in [Events -> [Days -> Nat]] BY ONLY <1>3, <1>4
<1> QED BY <1>2, <1>5 DEF EventsOK

LEMMA EachStep ==
    ASSUME NEW a, NEW kind, NEW deltas,
           IsFiniteSet(DOMAIN deltas), DOMAIN deltas \subseteq Nat,
           \A n \in DOMAIN deltas : deltas[n] \in Nat,
           NEW h, EachTable(a, kind, deltas, h), NEW T, T \subseteq DOMAIN deltas, T # {},
           NEW x, x = Max(T), NEW U, U = T \ {x}
    PROVE  x \in T /\ h[T] = Advanced(h[U], kind, x, deltas[x]) /\ deltas[x] \in Nat
<1>1. IsFiniteSet(T) BY FS_Subset
<1>2. T \subseteq Nat OBVIOUS
<1>3. Max(T) \in T /\ Max(T) \in Nat BY <1>1, <1>2, MaxOf
<1>4. h[T] = Advanced(h[T \ {Max(T)}], kind, Max(T), deltas[Max(T)]) BY Zenon DEF EachTable
<1>5. \A n \in T : deltas[n] \in Nat OBVIOUS
<1> QED BY <1>3, <1>4, <1>5, Zenon

LEMMA EachAdvances ==
    ASSUME NEW a, AcctOK(a), day \in FirstDay..MaxDay, NEW kind, NEW deltas,
           IsFiniteSet(DOMAIN deltas), DOMAIN deltas \subseteq Nat,
           \A n \in DOMAIN deltas : deltas[n] \in Nat,
           NEW b, b = AdvanceEach(a, kind, deltas)
    PROVE  Advances(a, b)
<1> DEFINE D == DOMAIN deltas
<1>1. PICK h : EachTable(a, kind, deltas, h) /\ AdvanceEach(a, kind, deltas) = h[D]
  BY EachFold
<1> DEFINE Good == {T \in SUBSET D : Advances(a, h[T])}
<1>2. {} \in Good
  <2>1. h[{}] = a BY <1>1, Zenon DEF EachTable
  <2>2. Advances(a, h[{}]) BY <2>1, AdvancesSelf
  <2> QED BY <2>2
<1>3. ASSUME NEW T \in SUBSET D, T # {}
      PROVE  \E x \in T : T \ {x} \in Good => T \in Good
  <2> DEFINE x == Max(T)
             U == T \ {x}
  <2>1. x \in T /\ h[T] = Advanced(h[U], kind, x, deltas[x]) /\ deltas[x] \in Nat
    <3>1. x = Max(T) /\ U = T \ {x} OBVIOUS
    <3> HIDE DEF x, U, Good
    <3>2. EachTable(a, kind, deltas, h) BY <1>1
    <3>3. T \subseteq D BY <1>3
    <3>4. IsFiniteSet(D) /\ D \subseteq Nat /\ \A n \in D : deltas[n] \in Nat OBVIOUS
    <3> QED BY ONLY <1>3, <3>1, <3>2, <3>3, <3>4, EachStep
  <2>2. SUFFICES ASSUME U \in Good PROVE T \in Good BY <2>1
  <2>3. Advances(a, h[U]) BY <2>2
  <2> HIDE DEF x, U
  <2>4. AcctOK(h[U]) BY <2>3, AdvancesOK
  <2>5. Advances(h[U], h[T]) BY <2>1, <2>4, AdvancedIs
  <2>6. Advances(a, h[T]) BY <2>3, <2>5, AdvancesTwice DEF AcctOK
  <2> QED BY <2>6
<1>4. \A T \in SUBSET D : T \in Good
  <2> HIDE DEF Good
  <2> QED BY <1>2, <1>3, SubsetInduction
<1>5. D \in SUBSET D OBVIOUS
<1> QED BY <1>1, <1>4, <1>5

LEMMA EachKept ==
    ASSUME NEW a, AcctOK(a), day \in FirstDay..MaxDay, NEW kind, kind # Collection[1], NEW deltas,
           IsFiniteSet(DOMAIN deltas), DOMAIN deltas \subseteq Nat,
           \A n \in DOMAIN deltas : deltas[n] \in Nat /\ <<kind, n>> \in Events,
           NEW b, b = AdvanceEach(a, kind, deltas),
           NEW ev, EventsOK(ev), Kept(a, ev), NEW more, MoreOfEach(ev, more, kind, deltas)
    PROVE  Kept(b, more)
<1> DEFINE D == DOMAIN deltas
           mix(T) == MoreOfSome(ev, more, kind, T)
<1>1. PICK h : EachTable(a, kind, deltas, h) /\ AdvanceEach(a, kind, deltas) = h[D]
  BY EachFold
<1>2. EventsOK(more) BY DEF MoreOfEach
<1>3. ASSUME NEW T
      PROVE  /\ EventsOK(mix(T))
             /\ \A c \in Events : \A d \in Days :
                    mix(T)[c][d] = IF d = day /\ c[1] = kind /\ c[2] \in T THEN more[c][d] ELSE ev[c][d]
  BY <1>2, MoreOfSomeIs
<1>4. \A n \in DOMAIN deltas : more[<<kind, n>>][day] = ev[<<kind, n>>][day] + deltas[n]
  BY DEF MoreOfEach
<1>5. day \in Days BY HomeAssumption DEF Days
<1> HIDE DEF mix
<1> DEFINE Good == {T \in SUBSET D : Advances(a, h[T]) /\ Kept(h[T], mix(T))}
<1>6. {} \in Good
  <2>1. h[{}] = a BY <1>1, Zenon DEF EachTable
  <2>2. Advances(a, h[{}]) BY <2>1, AdvancesSelf
  <2>3. \A c \in Events : \A d \in Days : mix({})[c][d] = ev[c][d] BY <1>3
  <2>4. EventsOK(mix({})) BY <1>3
  <2>5. Kept(a, mix({})) BY <2>3, <2>4, KeptSameEvents
  <2> QED BY <2>1, <2>2, <2>5
<1>7. ASSUME NEW T \in SUBSET D, T # {}
      PROVE  \E x \in T : T \ {x} \in Good => T \in Good
  <2> DEFINE x == Max(T)
             U == T \ {x}
             e == <<kind, x>>
  <2>1. x \in T /\ h[T] = Advanced(h[U], kind, x, deltas[x]) /\ deltas[x] \in Nat
    <3>1. x = Max(T) /\ U = T \ {x} OBVIOUS
    <3> HIDE DEF x, U, Good
    <3>2. EachTable(a, kind, deltas, h) BY <1>1
    <3>3. T \subseteq D BY <1>7
    <3>4. IsFiniteSet(D) /\ D \subseteq Nat /\ \A n \in D : deltas[n] \in Nat OBVIOUS
    <3> QED BY ONLY <1>7, <3>1, <3>2, <3>3, <3>4, EachStep
  <2>2. SUFFICES ASSUME U \in Good PROVE T \in Good BY <2>1
  <2>3. Advances(a, h[U]) /\ Kept(h[U], mix(U)) BY <2>2
  <2>4. e \in Events /\ e # Collection /\ e[1] = kind /\ e[2] = x
    <3>1. Collection = <<Collection[1], 0>> BY DEF Collection
    <3> QED BY <2>1, <3>1
  <2>5. U \subseteq T /\ x \notin U /\ \A n : n \in T <=> n \in U \/ n = x BY <2>1
  <2>6. more[e][day] = ev[e][day] + deltas[x] BY <1>4, <2>1
  <2>7. \A c \in Events : c[1] = kind /\ c[2] = x => c = e BY EventPairs
  <2>15. <<kind, x>> = e OBVIOUS
  <2> HIDE DEF x, U, e
  <2>8. AcctOK(h[U]) BY <2>3, AdvancesOK
  <2>9. Advances(h[U], h[T]) BY <2>1, <2>8, AdvancedIs
  <2>10. Advances(a, h[T]) BY <2>3, <2>9, AdvancesTwice DEF AcctOK
  <2>11. EventsOK(mix(U)) /\ EventsOK(mix(T)) BY <1>3
  <2>12. mix(T)[e][day] = mix(U)[e][day] + deltas[x]
    <3>1. mix(T)[e][day] = more[e][day] BY <1>3, <1>5, <2>1, <2>4
    <3>2. mix(U)[e][day] = ev[e][day] BY <1>3, <1>5, <2>4, <2>5
    <3> QED BY <2>6, <3>1, <3>2
  <2>13. ASSUME NEW c \in Events, NEW d \in Days, c # e \/ d # day PROVE mix(T)[c][d] = mix(U)[c][d]
    <3>1. mix(T)[c][d] = IF d = day /\ c[1] = kind /\ c[2] \in T THEN more[c][d] ELSE ev[c][d] BY <1>3
    <3>2. mix(U)[c][d] = IF d = day /\ c[1] = kind /\ c[2] \in U THEN more[c][d] ELSE ev[c][d] BY <1>3
    <3> QED BY <2>5, <2>7, <2>13, <3>1, <3>2
  <2>14. MoreOf(mix(U), mix(T), e, deltas[x]) BY <2>11, <2>12, <2>13 DEF MoreOf
  <2>16. Kept(h[T], mix(T))
    BY <2>1, <2>3, <2>4, <2>8, <2>11, <2>14, <2>15, AdvancedIs
  <2> QED BY <2>10, <2>16
<1>8. \A T \in SUBSET D : T \in Good
  <2> HIDE DEF Good
  <2> QED BY <1>6, <1>7, SubsetInduction
<1>9. D \in SUBSET D OBVIOUS
<1>10. Kept(b, mix(D)) BY <1>1, <1>8, <1>9
<1>11. \A c \in Events : \A d \in Days : more[c][d] = mix(D)[c][d]
  <2>1. \A c \in Events : \A d \in Days :
          (d # day \/ c[1] # kind \/ c[2] \notin D) => more[c][d] = ev[c][d]
    BY Zenon DEF MoreOfEach
  <2> HIDE DEF D
  <2> QED BY <1>3, <2>1
<1>12. EventsOK(mix(D)) BY <1>3
<1> HIDE DEF D
<1> QED BY <1>2, <1>10, <1>11, <1>12, KeptSameEvents

-----------------------------------------------------------------------------
(* What the resources gained. *)

Gain(before, after) == IF after > before THEN after - before ELSE 0

LEMMA GainedIs ==
    ASSUME NEW before, NEW after, NEW g, g = Gained(before, after),
           IsFiniteSet(DOMAIN after), DOMAIN after \subseteq Nat,
           \A n \in DOMAIN after : before[n] \in Nat /\ after[n] \in Nat
    PROVE  /\ IsFiniteSet(DOMAIN g) /\ DOMAIN g \subseteq DOMAIN after /\ DOMAIN g \subseteq Nat
           /\ \A n \in DOMAIN g : g[n] \in Nat /\ g[n] = Gain(before[n], after[n])
           /\ \A n \in DOMAIN after : n \notin DOMAIN g => Gain(before[n], after[n]) = 0
<1> DEFINE K == DOMAIN after
           D == {k \in K : after[k] > before[k]}
<1>1. DOMAIN g = D /\ \A n \in D : g[n] = after[n] - before[n] BY DEF Gained
<1>2. D \subseteq K /\ \A n \in K : n \in D <=> after[n] > before[n] OBVIOUS
<1>3. IsFiniteSet(D)
  <2> HIDE DEF D
  <2> QED BY <1>2, FS_Subset
<1> HIDE DEF D
<1>5. \A n \in D : g[n] \in Nat /\ g[n] = Gain(before[n], after[n])
  BY <1>1, <1>2 DEF Gain
<1>6. \A n \in K : n \notin D => Gain(before[n], after[n]) = 0 BY <1>2 DEF Gain
<1>7. DOMAIN g \subseteq Nat BY <1>1, <1>2
<1> HIDE DEF K
<1> QED BY <1>1, <1>2, <1>3, <1>5, <1>6, <1>7 DEF K

LEMMA ResourcesGained ==
    ASSUME NEW before \in HomeAccts, NEW a \in HomeAccts,
           NEW g, g = Gained(before.items, a.items), NEW h, h = Gained(before.clears, a.clears)
    PROVE  /\ IsFiniteSet(DOMAIN g) /\ DOMAIN g \subseteq Items /\ DOMAIN g \subseteq Nat
           /\ \A n \in DOMAIN g : g[n] \in Nat /\ g[n] = Gain(before.items[n], a.items[n])
           /\ \A n \in Items : n \notin DOMAIN g => Gain(before.items[n], a.items[n]) = 0
           /\ IsFiniteSet(DOMAIN h) /\ DOMAIN h \subseteq Quests /\ DOMAIN h \subseteq Nat
           /\ \A n \in DOMAIN h : h[n] \in Nat /\ h[n] = Gain(before.clears[n], a.clears[n])
           /\ \A n \in Quests : n \notin DOMAIN h => Gain(before.clears[n], a.clears[n]) = 0
<1> DEFINE x == before.items
           y == a.items
           u == before.clears
           v == a.clears
<1>1. /\ x \in [Items -> Nat] /\ y \in [Items -> Nat]
      /\ u \in [Quests -> Nat] /\ v \in [Quests -> Nat]
  BY AcctTypes
<1>2. g = Gained(x, y) /\ h = Gained(u, v) OBVIOUS
<1> HIDE DEF x, y, u, v
<1>3. DOMAIN y = Items /\ \A n \in DOMAIN y : x[n] \in Nat /\ y[n] \in Nat BY <1>1
<1>4. DOMAIN v = Quests /\ \A n \in DOMAIN v : u[n] \in Nat /\ v[n] \in Nat BY <1>1
<1>5. IsFiniteSet(DOMAIN y) /\ DOMAIN y \subseteq Nat BY <1>3, CountersAssumption
<1>6. IsFiniteSet(DOMAIN v) /\ DOMAIN v \subseteq Nat BY <1>4, CountersAssumption
<1>7. /\ IsFiniteSet(DOMAIN g) /\ DOMAIN g \subseteq DOMAIN y /\ DOMAIN g \subseteq Nat
      /\ \A n \in DOMAIN g : g[n] \in Nat /\ g[n] = Gain(x[n], y[n])
      /\ \A n \in DOMAIN y : n \notin DOMAIN g => Gain(x[n], y[n]) = 0
  BY ONLY <1>2, <1>3, <1>5, GainedIs
<1>8. /\ IsFiniteSet(DOMAIN h) /\ DOMAIN h \subseteq DOMAIN v /\ DOMAIN h \subseteq Nat
      /\ \A n \in DOMAIN h : h[n] \in Nat /\ h[n] = Gain(u[n], v[n])
      /\ \A n \in DOMAIN v : n \notin DOMAIN h => Gain(u[n], v[n]) = 0
  BY ONLY <1>2, <1>4, <1>6, GainedIs
<1> QED BY <1>3, <1>4, <1>7, <1>8 DEF x, y, u, v

MoreOfResources(ev, more, before, a) ==
    /\ EventsOK(more)
    /\ \A i \in Items : more[<<"item_received", i>>][day] =
                            ev[<<"item_received", i>>][day] + Gain(before.items[i], a.items[i])
    /\ \A q \in Quests : more[<<"quest_clear", q>>][day] =
                            ev[<<"quest_clear", q>>][day] + Gain(before.clears[q], a.clears[q])
    /\ \A c \in Events : \A d \in Days : (d # day \/ c \notin Sources) => more[c][d] = ev[c][d]

LEMMA SourceKinds ==
    /\ \A i \in Items : <<"item_received", i>> \in Sources /\ <<"item_received", i>> \in Events
    /\ \A q \in Quests : <<"quest_clear", q>> \in Sources /\ <<"quest_clear", q>> \in Events
    /\ \A c \in Events : c[1] = "item_received" => c[2] \in Items /\ c \in Sources
    /\ \A c \in Events : c[1] = "quest_clear" => c[2] \in Quests /\ c \in Sources
    /\ \A c \in Sources : c[1] = "item_received" \/ c[1] = "quest_clear"
    /\ Collection[1] = "memoria_collection"
BY DEF Events, Sources, Collection

LEMMA ProgressFolds ==
    ASSUME NEW a, AcctOK(a), NEW before \in HomeAccts, day \in FirstDay..MaxDay,
           NEW b, b = resource_progress(before, a)
    PROVE  \E c, d : /\ c = AdvanceEach(a, "item_received", Gained(before.items, a.items))
                     /\ d = AdvanceEach(c, "quest_clear", Gained(before.clears, a.clears))
                     /\ b = advance_missions(d)
                     /\ Advances(a, c) /\ Advances(c, d) /\ Advances(d, b)
                     /\ Current(b) /\ Projected(b)
                     /\ \A m \in Missions : Counted(b, m) = Counted(d, m)
<1> DEFINE g == Gained(before.items, a.items)
           h == Gained(before.clears, a.clears)
           c == AdvanceEach(a, "item_received", g)
           d == AdvanceEach(c, "quest_clear", h)
<1>1. a \in HomeAccts BY DEF AcctOK
<1>4. /\ IsFiniteSet(DOMAIN g) /\ DOMAIN g \subseteq Nat /\ \A n \in DOMAIN g : g[n] \in Nat
      /\ IsFiniteSet(DOMAIN h) /\ DOMAIN h \subseteq Nat /\ \A n \in DOMAIN h : h[n] \in Nat
  <2>1. g = Gained(before.items, a.items) /\ h = Gained(before.clears, a.clears) OBVIOUS
  <2> HIDE DEF g, h
  <2> QED BY <1>1, <2>1, ResourcesGained
<1>5. b = advance_missions(d) BY Zenon DEF resource_progress
<1>6. Advances(a, c)
  <2>1. c = AdvanceEach(a, "item_received", g) OBVIOUS
  <2> HIDE DEF c, g, h, d
  <2> QED BY <1>4, <2>1, EachAdvances
<1>8. d = AdvanceEach(c, "quest_clear", h) OBVIOUS
<1>9. Advances(c, d)
  <2> HIDE DEF c, g, h, d
  <2>1. AcctOK(c) BY <1>6, AdvancesOK
  <2> QED BY <1>4, <1>8, <2>1, EachAdvances
<1>10. Advances(d, b) /\ Current(b) /\ Projected(b)
       /\ \A m \in Missions : Counted(b, m) = Counted(d, m)
  <2> HIDE DEF c, g, h, d
  <2>1. AcctOK(d) BY <1>9, AdvancesOK
  <2>2. day \in Nat BY HomeAssumption
  <2> QED BY <1>5, <2>1, <2>2, MissionsAdvanced
<1>11. c = AdvanceEach(a, "item_received", Gained(before.items, a.items))
       /\ d = AdvanceEach(c, "quest_clear", Gained(before.clears, a.clears))
  BY <1>8, Zenon
<1> HIDE DEF c, d, g, h
<1> QED BY <1>5, <1>6, <1>9, <1>10, <1>11, Zenon

LEMMA Progressed ==
    ASSUME NEW a, AcctOK(a), NEW before \in HomeAccts, day \in FirstDay..MaxDay,
           NEW b, b = resource_progress(before, a)
    PROVE  Advances(a, b) /\ Current(b) /\ Projected(b)
<1>1. PICK c, d : Advances(a, c) /\ Advances(c, d) /\ Advances(d, b) /\ Current(b) /\ Projected(b)
  BY ProgressFolds
<1>2. Advances(a, d) BY <1>1, AdvancesTwice DEF AcctOK
<1> QED BY <1>1, <1>2, AdvancesTwice DEF AcctOK

LEMMA ProgressCounts ==
    ASSUME NEW a, AcctOK(a), NEW before \in HomeAccts, day \in FirstDay..MaxDay,
           NEW b, b = resource_progress(before, a),
           NEW ev, EventsOK(ev), Kept(a, ev), NEW more, MoreOfResources(ev, more, before, a)
    PROVE  Kept(b, more)
<1> DEFINE g == Gained(before.items, a.items)
           h == Gained(before.clears, a.clears)
<1>0. PICK c, d : /\ c = AdvanceEach(a, "item_received", Gained(before.items, a.items))
                  /\ d = AdvanceEach(c, "quest_clear", Gained(before.clears, a.clears))
                  /\ Advances(a, c) /\ Advances(c, d)
                  /\ \A m \in Missions : Counted(b, m) = Counted(d, m)
  BY ProgressFolds
<1>1. /\ c = AdvanceEach(a, "item_received", g) /\ d = AdvanceEach(c, "quest_clear", h)
      /\ Advances(a, c) /\ Advances(c, d)
      /\ \A m \in Missions : Counted(b, m) = Counted(d, m)
  BY <1>0
<1>2. a \in HomeAccts BY DEF AcctOK
<1>3. g = Gained(before.items, a.items) /\ h = Gained(before.clears, a.clears) OBVIOUS
<1> HIDE DEF g, h
<1>4. /\ IsFiniteSet(DOMAIN g) /\ DOMAIN g \subseteq Items /\ DOMAIN g \subseteq Nat
      /\ \A n \in DOMAIN g : g[n] \in Nat /\ g[n] = Gain(before.items[n], a.items[n])
      /\ \A n \in Items : n \notin DOMAIN g => Gain(before.items[n], a.items[n]) = 0
      /\ IsFiniteSet(DOMAIN h) /\ DOMAIN h \subseteq Quests /\ DOMAIN h \subseteq Nat
      /\ \A n \in DOMAIN h : h[n] \in Nat /\ h[n] = Gain(before.clears[n], a.clears[n])
      /\ \A n \in Quests : n \notin DOMAIN h => Gain(before.clears[n], a.clears[n]) = 0
  BY ONLY <1>2, <1>3, before \in HomeAccts, ResourcesGained
<1>5. /\ IsFiniteSet(DOMAIN g) /\ DOMAIN g \subseteq Items /\ DOMAIN g \subseteq Nat
      /\ \A n \in DOMAIN g : g[n] \in Nat /\ g[n] = Gain(before.items[n], a.items[n])
      /\ \A n \in Items : n \notin DOMAIN g => Gain(before.items[n], a.items[n]) = 0
  BY <1>4, Zenon
<1>6. /\ IsFiniteSet(DOMAIN h) /\ DOMAIN h \subseteq Quests /\ DOMAIN h \subseteq Nat
      /\ \A n \in DOMAIN h : h[n] \in Nat /\ h[n] = Gain(before.clears[n], a.clears[n])
      /\ \A n \in Quests : n \notin DOMAIN h => Gain(before.clears[n], a.clears[n]) = 0
  BY <1>4, Zenon
<1> DEFINE mid == MoreOfSome(ev, more, "item_received", Items)
<1>7. EventsOK(more) BY DEF MoreOfResources
<1>8. /\ EventsOK(mid)
      /\ \A x \in Events : \A y \in Days :
            mid[x][y] = IF y = day /\ x[1] = "item_received" /\ x[2] \in Items
                        THEN more[x][y] ELSE ev[x][y]
  <2>1. mid = MoreOfSome(ev, more, "item_received", Items) OBVIOUS
  <2> HIDE DEF mid
  <2> QED BY <1>7, <2>1, MoreOfSomeIs
<1> HIDE DEF mid
<1>9. day \in Days BY HomeAssumption DEF Days
<1>10. \A x \in Events : \A y \in Days : ev[x][y] \in Nat /\ mid[x][y] \in Nat
  BY <1>8 DEF EventsOK
<1>11. MoreOfEach(ev, mid, "item_received", g)
  <2>1. ASSUME NEW n \in DOMAIN g
        PROVE  mid[<<"item_received", n>>][day] = ev[<<"item_received", n>>][day] + g[n]
    <3> DEFINE x == <<"item_received", n>>
    <3>1. n \in Items BY <1>5
    <3>2. x \in Events /\ x[1] = "item_received" /\ x[2] = n BY <3>1, SourceKinds
    <3>3. more[x][day] = ev[x][day] + Gain(before.items[n], a.items[n])
      BY <3>1, Zenon DEF MoreOfResources
    <3> HIDE DEF x
    <3>4. mid[x][day] = more[x][day] BY <1>8, <1>9, <3>1, <3>2
    <3>5. mid[x][day] = ev[x][day] + g[n] BY <1>5, <3>3, <3>4
    <3> QED BY <3>5 DEF x
  <2>2. ASSUME NEW x \in Events, NEW y \in Days,
               y # day \/ x[1] # "item_received" \/ x[2] \notin DOMAIN g
        PROVE  mid[x][y] = ev[x][y]
    <3>1. CASE y = day /\ x[1] = "item_received" /\ x[2] \in Items
      <4>1. x = <<"item_received", x[2]>> BY <3>1, EventPairs
      <4>2. more[x][day] = ev[x][day] + Gain(before.items[x[2]], a.items[x[2]])
        BY <3>1, <4>1, Zenon DEF MoreOfResources
      <4>3. Gain(before.items[x[2]], a.items[x[2]]) = 0 BY <1>5, <2>2, <3>1
      <4>4. more[x][day] = ev[x][day] BY <1>9, <1>10, <4>2, <4>3
      <4> QED BY <1>8, <3>1, <4>4
    <3>2. CASE ~(y = day /\ x[1] = "item_received" /\ x[2] \in Items) BY <1>8, <3>2
    <3> QED BY <3>1, <3>2
  <2> QED BY <1>8, <2>1, <2>2 DEF MoreOfEach
<1>12. Kept(c, mid)
  <2>1. \A n \in DOMAIN g : g[n] \in Nat /\ <<"item_received", n>> \in Events
    BY <1>5, SourceKinds
  <2>2. "item_received" # Collection[1] BY SourceKinds
  <2> QED BY <1>1, <1>5, <1>11, <2>1, <2>2, EachKept
<1>13. MoreOfEach(mid, more, "quest_clear", h)
  <2>1. ASSUME NEW n \in DOMAIN h
        PROVE  more[<<"quest_clear", n>>][day] = mid[<<"quest_clear", n>>][day] + h[n]
    <3> DEFINE x == <<"quest_clear", n>>
    <3>1. n \in Quests BY <1>6
    <3>2. x \in Events /\ x[1] = "quest_clear" /\ x[2] = n BY <3>1, SourceKinds
    <3>3. more[x][day] = ev[x][day] + Gain(before.clears[n], a.clears[n])
      BY <3>1, Zenon DEF MoreOfResources
    <3> HIDE DEF x
    <3>4. mid[x][day] = ev[x][day] BY <1>8, <1>9, <3>1, <3>2
    <3>5. more[x][day] = mid[x][day] + h[n] BY <1>6, <3>3, <3>4
    <3> QED BY <3>5 DEF x
  <2>2. ASSUME NEW x \in Events, NEW y \in Days,
               y # day \/ x[1] # "quest_clear" \/ x[2] \notin DOMAIN h
        PROVE  more[x][y] = mid[x][y]
    <3>1. CASE y = day /\ x[1] = "item_received" /\ x[2] \in Items BY <1>8, <3>1
    <3>2. CASE y = day /\ x[1] = "quest_clear"
      <4>1. x = <<"quest_clear", x[2]>> BY <3>2, EventPairs
      <4>6. x[2] \in Quests BY <3>2, SourceKinds
      <4>2. more[x][day] = ev[x][day] + Gain(before.clears[x[2]], a.clears[x[2]])
        BY <4>1, <4>6, Zenon DEF MoreOfResources
      <4>3. Gain(before.clears[x[2]], a.clears[x[2]]) = 0 BY <1>6, <2>2, <3>2, <4>6
      <4>4. more[x][day] = ev[x][day] BY <1>9, <1>10, <4>2, <4>3
      <4>5. mid[x][day] = ev[x][day] BY <1>8, <1>9, <3>2
      <4> QED BY <3>2, <4>4, <4>5
    <3>3. CASE y # day \/ (x[1] # "quest_clear" /\ x[1] # "item_received")
      <4>1. y # day \/ x \notin Sources BY <3>3, SourceKinds
      <4>2. more[x][y] = ev[x][y] BY <4>1, Zenon DEF MoreOfResources
      <4> QED BY <1>8, <3>3, <4>2
    <3>4. x[1] = "item_received" => x[2] \in Items BY SourceKinds
    <3> QED BY <3>1, <3>2, <3>3, <3>4
  <2> QED BY <1>7, <2>1, <2>2 DEF MoreOfEach
<1>14. Kept(d, more)
  <2>1. \A n \in DOMAIN h : h[n] \in Nat /\ <<"quest_clear", n>> \in Events
    BY <1>6, SourceKinds
  <2>2. "quest_clear" # Collection[1] BY SourceKinds
  <2>3. AcctOK(c) BY <1>1, AdvancesOK
  <2> QED BY <1>1, <1>6, <1>8, <1>12, <1>13, <2>1, <2>2, <2>3, EachKept
<1> QED BY <1>1, <1>14, KeptSame

-----------------------------------------------------------------------------
(* What is written stays written. *)

Written(a, key) == RecordsWritten(a, {key}) /\ StepsWritten(a, {key}) /\ BonusesWritten(a, {key})

LEMMA LedgerIs ==
    ASSUME NEW a, NEW bag
    PROVE  Ledger(a, bag) <=> \A key \in DOMAIN bag :
                key[3] \in Nat /\ key[4] \in Nat /\ bag[key] = 1 /\ Written(a, key)
<1>1. ASSUME Ledger(a, bag), NEW key \in DOMAIN bag
      PROVE  key[3] \in Nat /\ key[4] \in Nat /\ bag[key] = 1 /\ Written(a, key)
  BY <1>1 DEF Ledger, Written, RecordsWritten, StepsWritten, BonusesWritten
<1>2. ASSUME \A key \in DOMAIN bag :
                key[3] \in Nat /\ key[4] \in Nat /\ bag[key] = 1 /\ Written(a, key)
      PROVE  Ledger(a, bag)
  <2>1. RecordsWritten(a, DOMAIN bag)
    <3>1. \A key \in DOMAIN bag : RecordsWritten(a, {key}) BY <1>2, Zenon DEF Written
    <3> QED BY <3>1 DEF RecordsWritten
  <2>2. StepsWritten(a, DOMAIN bag)
    <3>1. \A key \in DOMAIN bag : StepsWritten(a, {key}) BY <1>2, Zenon DEF Written
    <3> QED BY <3>1 DEF StepsWritten
  <2>3. BonusesWritten(a, DOMAIN bag)
    <3>1. \A key \in DOMAIN bag : BonusesWritten(a, {key}) BY <1>2, Zenon DEF Written
    <3> QED BY <3>1 DEF BonusesWritten
  <2> QED BY <1>2, <2>1, <2>2, <2>3, Zenon DEF Ledger
<1> QED BY <1>1, <1>2, Zenon

KeepsWritten(a, b) ==
    \A key : (key[3] \in Nat /\ key[4] \in Nat /\ Written(a, key)) => Written(b, key)

\* Rewards that were not written down and are now.
PaysOnce(a, b, S) ==
    \A key \in S : key[3] \in Nat /\ key[4] \in Nat /\ ~Written(a, key) /\ Written(b, key)

LEMMA LedgerPaid ==
    ASSUME NEW a, NEW b, NEW bag, Ledger(a, bag), NEW S, KeepsWritten(a, b), PaysOnce(a, b, S)
    PROVE  Ledger(b, bag (+) SetToBag(S)) /\ DOMAIN (bag (+) SetToBag(S)) = DOMAIN bag \union S
<1>1. \A key \in DOMAIN bag : key[3] \in Nat /\ key[4] \in Nat /\ bag[key] = 1 /\ Written(a, key)
  BY LedgerIs
<1>2. S \intersect DOMAIN bag = {} BY <1>1, Zenon DEF PaysOnce
<1> DEFINE more == bag (+) SetToBag(S)
<1>3. DOMAIN more = DOMAIN bag \union S /\ \A key \in DOMAIN bag \union S : more[key] = 1
  BY <1>1, <1>2, BagOnce
<1> HIDE DEF more
<1>4. \A key \in DOMAIN more : key[3] \in Nat /\ key[4] \in Nat /\ more[key] = 1 /\ Written(b, key)
  BY <1>1, <1>3, Zenon DEF KeepsWritten, PaysOnce
<1>5. Ledger(b, more) BY <1>4, LedgerIs
<1> QED BY <1>3, <1>5 DEF more

\* Records move on, and what else rewards are written in stays.
Onward(a, b) ==
    /\ b \in HomeAccts /\ Timely(b)
    /\ b.tabs = a.tabs /\ b.battle_steps = a.battle_steps /\ b.guides = a.guides
    /\ b.recipes = a.recipes /\ b.recipe_counts = a.recipe_counts
    /\ b.bonuses = a.bonuses /\ b.mails = a.mails /\ b.next_mail_id = a.next_mail_id
    /\ b.multi.received = a.multi.received
    /\ \A m \in DOMAIN a.missions : m \in DOMAIN b.missions /\ Ahead(a.missions[m], b.missions[m])
    /\ \A c \in DOMAIN a.counts : c \in DOMAIN b.counts /\ Ahead(a.counts[c], b.counts[c])

LEMMA AdvancesOnward ==
    ASSUME NEW a, NEW b, Advances(a, b)
    PROVE  Onward(a, b)
BY DEF Advances, Onward, Same, AcctFields

LEMMA SameOnward ==
    ASSUME NEW a, AcctOK(a), NEW b \in HomeAccts, NEW F, Same(a, b, F),
           F \subseteq {"initialized", "tasks", "touched", "clears", "items", "active",
                        "battle_progress", "memorias", "memoria_history", "login_day",
                        "episode", "gems"}
    PROVE  Onward(a, b)
<1>1. Same(a, b, {"initialized", "tasks", "touched", "clears", "items", "active",
                  "battle_progress", "memorias", "memoria_history", "login_day",
                  "episode", "gems"})
  BY SameMore
<1>2. /\ b.tabs = a.tabs /\ b.battle_steps = a.battle_steps /\ b.guides = a.guides
      /\ b.recipes = a.recipes /\ b.recipe_counts = a.recipe_counts
      /\ b.bonuses = a.bonuses /\ b.mails = a.mails /\ b.next_mail_id = a.next_mail_id
      /\ b.multi = a.multi /\ b.missions = a.missions /\ b.counts = a.counts
  BY <1>1 DEF Same, AcctFields
<1>3. a \in HomeAccts /\ Timely(a) BY DEF AcctOK
<1>4. Timely(b) BY <1>2, <1>3, Zenon DEF Timely
<1>5. /\ \A m \in DOMAIN a.missions : m \in DOMAIN b.missions /\ Ahead(a.missions[m], b.missions[m])
      /\ \A c \in DOMAIN a.counts : c \in DOMAIN b.counts /\ Ahead(a.counts[c], b.counts[c])
  BY <1>2, <1>3, AheadSelf, Zenon
<1> QED BY <1>2, <1>4, <1>5, Zenon DEF Onward

LEMMA OnwardTwice ==
    ASSUME NEW a \in HomeAccts, NEW b, NEW c, Onward(a, b), Onward(b, c)
    PROVE  Onward(a, c)
<1>1. b \in HomeAccts /\ c \in HomeAccts BY DEF Onward
<1>2. ASSUME NEW m \in DOMAIN a.missions
      PROVE  m \in DOMAIN c.missions /\ Ahead(a.missions[m], c.missions[m])
  <2>1. m \in DOMAIN b.missions /\ m \in DOMAIN c.missions
        /\ Ahead(a.missions[m], b.missions[m]) /\ Ahead(b.missions[m], c.missions[m])
    BY <1>2, Zenon DEF Onward
  <2>2. /\ a.missions[m].reset \in Nat /\ a.missions[m].received \in Nat
        /\ b.missions[m].reset \in Nat /\ b.missions[m].received \in Nat
        /\ c.missions[m].reset \in Nat /\ c.missions[m].received \in Nat
    BY <1>1, <1>2, <2>1, RecordTypes
  <2> QED BY <2>1, <2>2 DEF Ahead
<1>3. ASSUME NEW m \in DOMAIN a.counts
      PROVE  m \in DOMAIN c.counts /\ Ahead(a.counts[m], c.counts[m])
  <2>1. m \in DOMAIN b.counts /\ m \in DOMAIN c.counts
        /\ Ahead(a.counts[m], b.counts[m]) /\ Ahead(b.counts[m], c.counts[m])
    BY <1>3, Zenon DEF Onward
  <2>2. /\ a.counts[m].reset \in Nat /\ a.counts[m].received \in Nat
        /\ b.counts[m].reset \in Nat /\ b.counts[m].received \in Nat
        /\ c.counts[m].reset \in Nat /\ c.counts[m].received \in Nat
    BY <1>1, <1>3, <2>1, RecordTypes
  <2> QED BY <2>1, <2>2 DEF Ahead
<1> QED BY <1>2, <1>3, Zenon DEF Onward

LEMMA RecordsStay ==
    ASSUME NEW a \in HomeAccts, NEW b \in HomeAccts, NEW key, key[3] \in Nat, key[4] \in Nat,
           \A m \in DOMAIN a.missions : m \in DOMAIN b.missions /\ Ahead(a.missions[m], b.missions[m]),
           \A c \in DOMAIN a.counts : c \in DOMAIN b.counts /\ Ahead(a.counts[c], b.counts[c]),
           RecordsWritten(a, {key})
    PROVE  RecordsWritten(b, {key})
<1>1. ASSUME key[1] = "mission"
      PROVE  key[2] \in DOMAIN b.missions /\ Behind(key[3], key[4], b.missions[key[2]])
  <2>1. key[2] \in DOMAIN a.missions /\ Behind(key[3], key[4], a.missions[key[2]])
    BY <1>1 DEF RecordsWritten
  <2>2. key[2] \in DOMAIN b.missions /\ Ahead(a.missions[key[2]], b.missions[key[2]])
    BY <2>1, Zenon
  <2>3. /\ a.missions[key[2]].reset \in Nat /\ a.missions[key[2]].received \in Nat
        /\ b.missions[key[2]].reset \in Nat /\ b.missions[key[2]].received \in Nat
    BY <2>1, <2>2, RecordTypes
  <2> QED BY <2>1, <2>2, <2>3 DEF Behind, Ahead
<1>2. ASSUME key[1] = "count"
      PROVE  key[2] \in DOMAIN b.counts /\ Behind(key[3], key[4], b.counts[key[2]])
  <2>1. key[2] \in DOMAIN a.counts /\ Behind(key[3], key[4], a.counts[key[2]])
    BY <1>2 DEF RecordsWritten
  <2>2. key[2] \in DOMAIN b.counts /\ Ahead(a.counts[key[2]], b.counts[key[2]])
    BY <2>1, Zenon
  <2>3. /\ a.counts[key[2]].reset \in Nat /\ a.counts[key[2]].received \in Nat
        /\ b.counts[key[2]].reset \in Nat /\ b.counts[key[2]].received \in Nat
    BY <2>1, <2>2, RecordTypes
  <2> QED BY <2>1, <2>2, <2>3 DEF Behind, Ahead
<1> QED BY <1>1, <1>2 DEF RecordsWritten

LEMMA OnwardWritten ==
    ASSUME NEW a \in HomeAccts, NEW b, Onward(a, b),
           NEW key, key[3] \in Nat, key[4] \in Nat, Written(a, key)
    PROVE  Written(b, key)
<1>1. b \in HomeAccts BY DEF Onward
<1>2. RecordsWritten(b, {key}) BY <1>1, RecordsStay DEF Onward, Written
<1>3. StepsWritten(b, {key})
  <2>1. StepsWritten(a, {key}) BY DEF Written
  <2>2. /\ b.tabs = a.tabs /\ b.battle_steps = a.battle_steps /\ b.guides = a.guides
        /\ b.recipes = a.recipes /\ b.recipe_counts = a.recipe_counts
        /\ b.multi.received = a.multi.received
    BY DEF Onward
  <2> QED BY <2>1, <2>2, Zenon DEF StepsWritten
<1>4. BonusesWritten(b, {key})
  <2>1. BonusesWritten(a, {key}) BY DEF Written
  <2>2. b.bonuses = a.bonuses /\ b.mails = a.mails BY DEF Onward
  <2> QED BY <2>1, <2>2, Zenon DEF BonusesWritten
<1> QED BY <1>2, <1>3, <1>4 DEF Written

LEMMA OnwardLedger ==
    ASSUME NEW a \in HomeAccts, NEW b, Onward(a, b), NEW bag, Ledger(a, bag)
    PROVE  Ledger(b, bag)
<1>1. \A key \in DOMAIN bag : key[3] \in Nat /\ key[4] \in Nat /\ bag[key] = 1 /\ Written(a, key)
  BY LedgerIs
<1>2. \A key \in DOMAIN bag : Written(b, key) BY <1>1, OnwardWritten
<1> QED BY <1>1, <1>2, LedgerIs

LEMMA OnwardMails ==
    ASSUME NEW a, NEW b, Onward(a, b), MailsInOrder(a)
    PROVE  MailsInOrder(b)
<1>1. b.bonuses = a.bonuses /\ b.mails = a.mails /\ b.next_mail_id = a.next_mail_id BY DEF Onward
<1> QED BY <1>1, Zenon DEF MailsInOrder

-----------------------------------------------------------------------------
(* A request leaves a sound account. *)

\* What is said of the next state on the same day.
LEMMA SoundNext ==
    ASSUME day' = day, Sound(acct', happened', paid', requests')
    PROVE  Sound(acct, happened, paid, requests)'
<1>1. (AcctOK(acct) /\ acct.touched = {} /\ HistoryOK(happened))'
  <2>1. AcctOK(acct') /\ acct'.touched = {} /\ HistoryOK(happened') BY DEF Sound
  <2> QED BY <2>1 DEF AcctOK, HomeAccts, AcctType, AcctFields, MissionRecords, CountRecords, Record,
        CountRecord, Timely, HistoryOK, Mail
<1>2. (Ledger(acct, paid) /\ Earned(DOMAIN paid, happened.events))'
  <2>1. Ledger(acct', paid') /\ Earned(DOMAIN paid', happened'.events) BY DEF Sound
  <2> QED BY <2>1 DEF Ledger, RecordsWritten, StepsWritten, BonusesWritten, Behind, Earned,
        DoneIn, TaskDone, reset_at, StateBacked
<1>3. MailsInOrder(acct)'
  <2>1. MailsInOrder(acct') BY DEF Sound
  <2> QED BY <2>1 DEF MailsInOrder
<1>4. Kept(acct, happened.events)'
  <2>1. Kept(acct', happened'.events) BY DEF Sound
  <2> QED BY <2>1, Zenon DEF Kept, ToCount, Counted, mission_active, in_period, mission_state, Existing
<1>5. (ResourcesCounted(acct, happened.events) /\ (acct.initialized # -1 => Projected(acct)))'
  <2>1. ResourcesCounted(acct', happened'.events)
        /\ (acct'.initialized # -1 => Projected(acct')) BY DEF Sound
  <2> QED BY <2>1 DEF ResourcesCounted, Projected, Total, state_counter_total
<1>6. (CollectionSeen(acct, happened) /\ BattleReported(acct, requests) /\ SkipsCounted(acct, happened))'
  <2>1. CollectionSeen(acct', happened') /\ BattleReported(acct', requests')
        /\ SkipsCounted(acct', happened') BY DEF Sound
  <2> QED BY <2>1 DEF CollectionSeen, BattleReported, SkipsCounted
<1> QED BY <1>1, <1>2, <1>3, <1>4, <1>5, <1>6 DEF Sound

\* The mark of what a request touched is not kept.
LEMMA Untouched ==
    ASSUME NEW a, AcctOK(a), NEW b, b = [a EXCEPT !.touched = {}]
    PROVE  AcctOK(b) /\ b.touched = {} /\ Same(a, b, {"touched"})
<1>1. a \in HomeAccts /\ Timely(a) BY DEF AcctOK
<1>2. Same(a, b, {"touched"}) /\ b["touched"] = {} BY <1>1, OneField DEF AcctFields
<1>3. b \in HomeAccts
  <2>1. AcctType["touched"] = SUBSET Tasks BY DEF AcctType
  <2>2. \A f \in {"touched"} : b[f] \in AcctType[f] BY <1>2, <2>1
  <2> QED BY <1>1, <1>2, <2>2, AcctUpdate
<1>4. b.missions = a.missions /\ b.counts = a.counts BY <1>2 DEF Same, AcctFields
<1>5. Timely(b) BY <1>1, <1>4, Zenon DEF Timely
<1> QED BY <1>2, <1>3, <1>5 DEF AcctOK

LEMMA TotalsSame ==
    ASSUME NEW a, NEW b, b.items = a.items, b.clears = a.clears
    PROVE  /\ \A s : Total(b, s) = Total(a, s)
           /\ \A t : state_counter_total(b, t) = state_counter_total(a, t)
BY DEF Total, state_counter_total

LEMMA RequestDone ==
    ASSUME HomeIInv, NEW a, NEW h, NEW bag, Request(a, h, bag),
           AcctOK(a), HistoryOK(h), Ledger(a, bag), Earned(DOMAIN bag, h.events), MailsInOrder(a),
           Kept(a, h.events), ResourcesCounted(a, h.events), a.initialized # -1 => Projected(a),
           CollectionSeen(a, h), BattleReported(a, requests + 1), SkipsCounted(a, h)
    PROVE  HomeIInv'
<1> DEFINE b == [a EXCEPT !.touched = {}]
<1>1. /\ requests < MaxRequests /\ requests' = requests + 1 /\ acct' = b
      /\ happened' = h /\ paid' = bag /\ day' = day
  BY Zenon DEF Request
<1>2. AcctOK(b) /\ b.touched = {} /\ Same(a, b, {"touched"})
  <2>1. b = [a EXCEPT !.touched = {}] OBVIOUS
  <2> HIDE DEF b
  <2> QED BY <2>1, Untouched
<1> HIDE DEF b
<1>3. a \in HomeAccts BY DEF AcctOK
<1>4. Onward(a, b)
  <2>1. b \in HomeAccts BY <1>2 DEF AcctOK
  <2> QED BY <1>2, <2>1, SameOnward
<1>5. Ledger(b, bag) /\ MailsInOrder(b) BY <1>3, <1>4, OnwardLedger, OnwardMails
<1>6. /\ b.items = a.items /\ b.clears = a.clears /\ b.missions = a.missions /\ b.tasks = a.tasks
      /\ b.initialized = a.initialized /\ b.memorias = a.memorias
      /\ b.memoria_history = a.memoria_history /\ b.active = a.active
      /\ b.battle_progress = a.battle_progress /\ b.episode = a.episode
  BY <1>2 DEF Same, AcctFields
<1>7. Kept(b, h.events)
  <2>1. \A m \in Missions : Counted(b, m) = Counted(a, m) BY <1>6, SameMissionsCount
  <2> QED BY <2>1, KeptSame
<1>8. ResourcesCounted(b, h.events) /\ (b.initialized # -1 => Projected(b))
  <2>1. /\ \A s : Total(b, s) = Total(a, s)
        /\ \A t : state_counter_total(b, t) = state_counter_total(a, t)
    BY <1>6, TotalsSame
  <2>2. ResourcesCounted(b, h.events) BY <2>1, Zenon DEF ResourcesCounted
  <2>3. b.initialized # -1 => Projected(b) BY <1>6, <2>1, Zenon DEF Projected
  <2> QED BY <2>2, <2>3
<1>9. CollectionSeen(b, h) /\ BattleReported(b, requests + 1) /\ SkipsCounted(b, h)
  <2>1. CollectionSeen(b, h) BY <1>6, Zenon DEF CollectionSeen
  <2>2. BattleReported(b, requests + 1) BY <1>6, Zenon DEF BattleReported
  <2>3. SkipsCounted(b, h) BY <1>6, Zenon DEF SkipsCounted
  <2> QED BY <2>1, <2>2, <2>3
<1>10. Sound(b, h, bag, requests + 1)
  BY <1>2, <1>5, <1>7, <1>8, <1>9, Zenon DEF Sound
<1>11. Sound(acct', happened', paid', requests') BY <1>1, <1>10, Zenon
<1>12. Sound(acct, happened, paid, requests)' BY <1>1, <1>11, SoundNext
<1>13. day' \in FirstDay..MaxDay BY <1>1, Zenon DEF HomeIInv
<1>14. requests' \in 0..MaxRequests BY <1>1, HomeAssumption DEF HomeIInv
<1> QED BY <1>12, <1>13, <1>14 DEF HomeIInv

-----------------------------------------------------------------------------
(* Every home request begins and ends with the collection. *)

LEMMA MemoriasCounted ==
    ASSUME NEW a \in HomeAccts
    PROVE  Cardinality(a.memoria_history \union a.memorias) \in Nat
<1>1. a.memorias \subseteq Memorias /\ a.memoria_history \subseteq Memorias BY AcctTypes
<1>2. IsFiniteSet(a.memoria_history \union a.memorias)
  BY <1>1, CountersAssumption, FS_Subset
<1> QED BY <1>2, FS_CardinalityType

LEMMA HistoryWritten ==
    ASSUME NEW a, AcctOK(a), NEW H, H \subseteq Memorias, NEW b, b = [a EXCEPT !.memoria_history = H]
    PROVE  AcctOK(b) /\ Same(a, b, {"memoria_history"}) /\ b.memoria_history = H
<1>1. a \in HomeAccts /\ Timely(a) BY DEF AcctOK
<1>2. Same(a, b, {"memoria_history"}) /\ b["memoria_history"] = H BY <1>1, OneField DEF AcctFields
<1>3. b \in HomeAccts
  <2>1. AcctType["memoria_history"] = SUBSET Memorias BY DEF AcctType
  <2>2. \A f \in {"memoria_history"} : b[f] \in AcctType[f] BY <1>2, <2>1
  <2> QED BY <1>1, <1>2, <2>2, AcctUpdate
<1>4. b.missions = a.missions /\ b.counts = a.counts BY <1>2 DEF Same, AcctFields
<1>5. Timely(b) BY <1>1, <1>4, Zenon DEF Timely
<1> QED BY <1>2, <1>3, <1>5 DEF AcctOK

LEMMA CollectedIs ==
    ASSUME NEW a, AcctOK(a), day \in FirstDay..MaxDay, NEW c, c = Collected(a),
           NEW n, n = Cardinality(a.memoria_history \union a.memorias)
    PROVE  /\ AcctOK(c) /\ Onward(a, c)
           /\ Same(a, c, {"tasks", "touched", "missions", "counts", "multi", "memoria_history"})
           /\ c.counts = a.counts /\ c.multi = a.multi
           /\ c.memoria_history = a.memoria_history \union a.memorias
           /\ Projected(a) => Projected(c)
           /\ \A ev, more : (/\ EventsOK(ev) /\ Kept(a, ev) /\ ev[Collection][day] <= n
                             /\ ReachedOf(ev, more, Collection, n)) => Kept(c, more)
<1> DEFINE H == a.memoria_history \union a.memorias
           b == [a EXCEPT !.memoria_history = H]
<1>1. a \in HomeAccts BY DEF AcctOK
<1>2. H \subseteq Memorias BY <1>1, AcctTypes
<1>3. n \in Nat BY <1>1, MemoriasCounted
<1>4. c = advance_mission_event(b, Collection, n) BY Zenon DEF Collected
<1>5. AcctOK(b) /\ Same(a, b, {"memoria_history"}) /\ b.memoria_history = H
  <2>1. b = [a EXCEPT !.memoria_history = H] OBVIOUS
  <2> HIDE DEF b, H
  <2> QED BY <1>2, <2>1, HistoryWritten
<1>6. H = a.memoria_history \union a.memorias OBVIOUS
<1> HIDE DEF b, H
<1>7. day \in Nat BY HomeAssumption
<1>8. Advances(b, c) /\ c.counts = b.counts /\ c.multi = b.multi
  BY <1>3, <1>4, <1>5, <1>7, TickedAdvances
<1>9. AcctOK(c) BY <1>8, AdvancesOK
<1>10. Onward(a, c)
  <2>1. b \in HomeAccts BY <1>5 DEF AcctOK
  <2>2. Onward(a, b) BY <1>5, <2>1, SameOnward
  <2>3. Onward(b, c) BY <1>8, AdvancesOnward
  <2> QED BY <1>1, <2>2, <2>3, OnwardTwice
<1>11. Same(b, c, {"missions", "tasks", "touched", "counts", "multi"}) BY <1>8 DEF Advances
<1>12. Same(a, c, {"tasks", "touched", "missions", "counts", "multi", "memoria_history"})
  BY <1>5, <1>11, Zenon DEF Same
<1>13. c.memoria_history = H BY <1>5, <1>11 DEF Same, AcctFields
<1>14. c.counts = a.counts /\ c.multi = a.multi BY <1>5, <1>8 DEF Same, AcctFields
<1>15. /\ b.items = a.items /\ b.clears = a.clears /\ b.tasks = a.tasks /\ b.missions = a.missions
  BY <1>5 DEF Same, AcctFields
<1>16. ASSUME Projected(a) PROVE Projected(c)
  <2>1. Projected(b)
    <3>1. \A t : state_counter_total(b, t) = state_counter_total(a, t) BY <1>15, TotalsSame
    <3> QED BY <1>15, <1>16, <3>1, Zenon DEF Projected
  <2>2. Collection \notin Sources BY EventsFinite
  <2> QED BY <1>3, <1>4, <1>5, <1>7, <2>1, <2>2, ProjectedEvent
<1>17. ASSUME NEW ev, NEW more, EventsOK(ev), Kept(a, ev), ev[Collection][day] <= n,
              ReachedOf(ev, more, Collection, n)
       PROVE  Kept(c, more)
  <2>1. \A m \in Missions : Counted(b, m) = Counted(a, m) BY <1>15, SameMissionsCount
  <2>2. Kept(b, ev) BY <1>17, <2>1, KeptSame
  <2> QED BY <1>3, <1>4, <1>5, <1>17, <2>2, KeptCollection
<1> QED BY <1>6, <1>9, <1>10, <1>12, <1>13, <1>14, <1>16, <1>17

\* What a home request makes of the history: the collection was seen today.
Seen(ev) == [ev EXCEPT ![Collection][day] = Cardinality(happened.memorias)]

LEMMA SeenIs ==
    ASSUME NEW ev, EventsOK(ev), HomeIInv, NEW more, more = Seen(ev)
    PROVE  /\ EventsOK(more) /\ Cardinality(happened.memorias) \in Nat
           /\ ReachedOf(ev, more, Collection, Cardinality(happened.memorias))
           /\ day \in Days
<1> DEFINE n == Cardinality(happened.memorias)
<1>1. n \in Nat
  <2>1. acct \in HomeAccts /\ happened.memorias = acct.memoria_history \union acct.memorias
    BY DEF HomeIInv, Sound, AcctOK, CollectionSeen
  <2> QED BY <2>1, MemoriasCounted
<1>2. day \in Days BY HomeAssumption DEF HomeIInv, Days
<1>3. more = [ev EXCEPT ![Collection][day] = n] BY DEF Seen
<1> HIDE DEF n
<1>4. Collection \in Events BY EventsFinite
<1>5. ev \in [Events -> [Days -> Nat]] BY DEF EventsOK
<1>6. more \in [Events -> [Days -> Nat]] BY <1>1, <1>2, <1>3, <1>4, <1>5
<1>7. /\ more[Collection][day] = n
      /\ \A c \in Events : \A d \in Days : (c # Collection \/ d # day) => more[c][d] = ev[c][d]
  BY <1>2, <1>3, <1>4, <1>5
<1> QED BY <1>1, <1>2, <1>6, <1>7 DEF ReachedOf, EventsOK, n

LEMMA StartedIs ==
    ASSUME AcctOK(acct), day \in FirstDay..MaxDay, NEW b, b = Started
    PROVE  /\ AcctOK(b) /\ Same(acct, b, {"initialized"}) /\ b.initialized # -1
           /\ acct.initialized # -1 => b.initialized = acct.initialized
           /\ Onward(acct, b)
<1>1. acct \in HomeAccts /\ Timely(acct) BY DEF AcctOK
<1> DEFINE i == IF acct.initialized = -1 THEN day ELSE acct.initialized
<1>2. b = [acct EXCEPT !["initialized"] = i] BY DEF Started
<1>3. i \in Int /\ i # -1
  <2>1. acct.initialized \in Int BY <1>1, AcctTypes
  <2>2. day \in Nat BY HomeAssumption
  <2> QED BY <2>1, <2>2
<1>3a. acct.initialized # -1 => i = acct.initialized OBVIOUS
<1> HIDE DEF i
<1>4. Same(acct, b, {"initialized"}) /\ b["initialized"] = i 
  <2>1. "initialized" \in AcctFields BY DEF AcctFields
  <2> QED BY ONLY <1>1, <1>2, <2>1, OneField
<1>5. b \in HomeAccts
  <2>1. AcctType["initialized"] = Int BY DEF AcctType
  <2>2. \A f \in {"initialized"} : b[f] \in AcctType[f] BY <1>3, <1>4, <2>1
  <2> QED BY <1>1, <1>4, <2>2, AcctUpdate
<1>6. Onward(acct, b) BY <1>4, <1>5, SameOnward
<1>7. AcctOK(b) BY <1>5, <1>6 DEF AcctOK, Onward
<1> QED BY <1>3, <1>3a, <1>4, <1>6, <1>7

LEMMA EnteringIs ==
    ASSUME HomeIInv, NEW claims \in BOOLEAN, NEW r, r = Entering(claims), NEW e, e = r.acct
    PROVE  /\ r = Given(e, paid) /\ AcctOK(e) /\ Onward(acct, e)
           /\ Same(acct, e, {"initialized", "tasks", "touched", "missions", "counts", "multi", "memoria_history"})
           /\ e.multi = acct.multi
           /\ e.initialized # -1 /\ (acct.initialized # -1 => e.initialized = acct.initialized)
           /\ e.memoria_history = happened.memorias
           /\ Kept(e, Seen(happened.events))
           /\ claims => Current(e) /\ Projected(e)
           /\ Ledger(e, paid) /\ MailsInOrder(e)
<1> DEFINE b == Started
           c == Collected(b)
           n == Cardinality(happened.memorias)
<1>0. b = Started /\ c = Collected(b) OBVIOUS
<1>1. r = Given(IF claims THEN advance_missions(c) ELSE c, paid) BY DEF Entering
<1>2. /\ day \in FirstDay..MaxDay /\ AcctOK(acct) /\ HistoryOK(happened) /\ Ledger(acct, paid)
      /\ MailsInOrder(acct) /\ Kept(acct, happened.events) /\ CollectionSeen(acct, happened)
  BY DEF HomeIInv, Sound
<1>3. e = IF claims THEN advance_missions(c) ELSE c BY <1>1 DEF Given
<1>3a. r = Given(e, paid) BY <1>1, <1>3
<1> HIDE DEF b, c
<1>4. /\ AcctOK(b) /\ Same(acct, b, {"initialized"}) /\ b.initialized # -1 /\ Onward(acct, b)
      /\ acct.initialized # -1 => b.initialized = acct.initialized
  BY <1>0, <1>2, StartedIs
<1>5. /\ b.memorias = acct.memorias /\ b.memoria_history = acct.memoria_history
      /\ b.missions = acct.missions /\ b.multi = acct.multi
  BY <1>4 DEF Same, AcctFields
<1>6. happened.memorias = b.memoria_history \union b.memorias BY <1>2, <1>5 DEF CollectionSeen
<1>7. n = Cardinality(b.memoria_history \union b.memorias) BY <1>6
<1>8. /\ AcctOK(c) /\ Onward(b, c)
      /\ Same(b, c, {"tasks", "touched", "missions", "counts", "multi", "memoria_history"})
      /\ c.multi = b.multi
      /\ c.memoria_history = b.memoria_history \union b.memorias
      /\ \A ev, more : (/\ EventsOK(ev) /\ Kept(b, ev) /\ ev[Collection][day] <= n
                        /\ ReachedOf(ev, more, Collection, n)) => Kept(c, more)
  <2> HIDE DEF n
  <2> QED BY <1>0, <1>2, <1>4, <1>7, CollectedIs
<1>9. EventsOK(happened.events) BY <1>2 DEF HistoryOK, EventsOK
<1> DEFINE more == Seen(happened.events)
<1>10. day \in Days /\ ReachedOf(happened.events, more, Collection, n)
  <2>1. more = Seen(happened.events) OBVIOUS
  <2> HIDE DEF more
  <2> QED BY <1>9, <2>1, SeenIs
<1>11. happened.events[Collection][day] <= n BY <1>2, <1>10 DEF CollectionSeen
<1>12. Kept(b, happened.events)
  <2>1. \A m \in Missions : Counted(b, m) = Counted(acct, m) BY <1>5, SameMissionsCount
  <2> QED BY <1>2, <2>1, KeptSame
<1> HIDE DEF n, more
<1>13. Kept(c, more) BY <1>8, <1>9, <1>10, <1>11, <1>12
<1>14. Onward(acct, c)
  <2>1. acct \in HomeAccts BY <1>2 DEF AcctOK
  <2> QED BY <1>4, <1>8, <2>1, OnwardTwice
<1>15. c.initialized = b.initialized BY <1>8 DEF Same, AcctFields
<1>16. Same(acct, c, {"initialized", "tasks", "touched", "missions", "counts", "multi", "memoria_history"})
  BY <1>4, <1>8, Zenon DEF Same
<1>17. /\ AcctOK(e) /\ Onward(acct, e) /\ e.multi = acct.multi
       /\ Same(acct, e, {"initialized", "tasks", "touched", "missions", "counts", "multi", "memoria_history"})
       /\ e.initialized = c.initialized /\ e.memoria_history = c.memoria_history
       /\ Kept(e, more) /\ (claims => Current(e) /\ Projected(e))
  <2>1. CASE claims
    <3>1. e = advance_missions(c) BY <1>3, <2>1
    <3>2. day \in Nat BY <1>2, HomeAssumption
    <3>3. /\ Advances(c, e) /\ e.multi = c.multi /\ Current(e) /\ Projected(e)
          /\ \A m \in Missions : Counted(e, m) = Counted(c, m)
      BY <1>8, <3>1, <3>2, MissionsAdvanced
    <3>4. AcctOK(e) BY <3>3, AdvancesOK
    <3>5. Onward(acct, e)
      <4>1. acct \in HomeAccts /\ Onward(c, e) BY <1>2, <3>3, AdvancesOnward DEF AcctOK
      <4> QED BY <1>14, <4>1, OnwardTwice
    <3>6. Same(c, e, {"missions", "tasks", "touched", "counts", "multi"}) BY <3>3 DEF Advances
    <3>7. Same(acct, e, {"initialized", "tasks", "touched", "missions", "counts", "multi", "memoria_history"})
      BY <1>16, <3>6, Zenon DEF Same
    <3>8. e.initialized = c.initialized /\ e.memoria_history = c.memoria_history
      BY <3>6 DEF Same, AcctFields
    <3>9. Kept(e, more) BY <1>13, <3>3, KeptSame
    <3>10. e.multi = acct.multi BY <1>5, <1>8, <3>3
    <3> QED BY <3>3, <3>4, <3>5, <3>7, <3>8, <3>9, <3>10
  <2>2. CASE ~claims
    <3>1. e = c BY <1>3, <2>2
    <3> QED BY <1>5, <1>8, <1>13, <1>14, <1>16, <2>2, <3>1
  <2> QED BY <2>1, <2>2
<1>18. Ledger(e, paid) /\ MailsInOrder(e)
  <2>1. acct \in HomeAccts BY <1>2 DEF AcctOK
  <2> QED BY <1>2, <1>17, <2>1, OnwardLedger, OnwardMails
<1>19. e.initialized # -1 /\ (acct.initialized # -1 => e.initialized = acct.initialized)
  BY <1>4, <1>15, <1>17
<1>20. e.memoria_history = happened.memorias BY <1>6, <1>8, <1>17
<1> QED BY <1>3a, <1>17, <1>18, <1>19, <1>20 DEF more

LEMMA HomeDone ==
    ASSUME HomeIInv, NEW r, NEW h, reduce_home_inner(r, h), NEW a, a = r.acct,
           AcctOK(a), a.initialized # -1, HistoryOK(h), h.memorias = happened.memorias,
           a.memoria_history \union a.memorias = happened.memorias,
           h.events[Collection] = happened.events[Collection],
           Ledger(a, r.paid), MailsInOrder(a), Earned(DOMAIN r.paid, Seen(h.events)),
           ResourcesCounted(a, h.events), BattleReported(a, requests), SkipsCounted(a, h),
           NEW mid, EventsOK(mid), Kept(a, mid), mid[Collection] = Seen(happened.events)[Collection],
           MoreOfResources(mid, Seen(h.events), acct, a)
    PROVE  HomeIInv'
<1> DEFINE c == Collected(a)
           b == resource_progress(Started, c)
           n == Cardinality(happened.memorias)
           ev == Seen(h.events)
<1>1. Request(b, [h EXCEPT !.events[Collection][day] = n], r.paid) /\ r.ok
  BY Zenon DEF reduce_home_inner
<1>2. day \in FirstDay..MaxDay /\ AcctOK(acct) BY DEF HomeIInv, Sound
<1>3. c = Collected(a) /\ b = resource_progress(Started, c) /\ ev = Seen(h.events) OBVIOUS
<1>4. ev = [h.events EXCEPT ![Collection][day] = n] BY DEF Seen
<1>5. EventsOK(h.events) BY DEF HistoryOK, EventsOK
<1>6. n = Cardinality(a.memoria_history \union a.memorias) OBVIOUS
<1> HIDE DEF c, b, ev
<1>7. EventsOK(ev) /\ n \in Nat /\ ReachedOf(h.events, ev, Collection, n) /\ day \in Days
  BY <1>3, <1>5, SeenIs
<1> HIDE DEF n
<1>8. /\ AcctOK(c) /\ Onward(a, c)
      /\ Same(a, c, {"tasks", "touched", "missions", "counts", "multi", "memoria_history"})
      /\ c.memoria_history = a.memoria_history \union a.memorias
      /\ \A x, y : (/\ EventsOK(x) /\ Kept(a, x) /\ x[Collection][day] <= n
                    /\ ReachedOf(x, y, Collection, n)) => Kept(c, y)
  BY <1>2, <1>3, <1>6, CollectedIs
<1>9. mid[Collection][day] = n
  <2>1. happened.events \in [Events -> [Days -> Nat]] BY DEF HomeIInv, Sound, HistoryOK
  <2>2. EventsOK(happened.events) BY <2>1 DEF EventsOK
  <2> DEFINE x == Seen(happened.events)
  <2>3. x = Seen(happened.events) OBVIOUS
  <2> HIDE DEF x
  <2>4. ReachedOf(happened.events, x, Collection, n) BY <2>2, <2>3, SeenIs DEF n
  <2> QED BY <2>3, <2>4, Zenon DEF ReachedOf
<1>10. Kept(c, mid)
  <2>1. ReachedOf(mid, mid, Collection, n) BY <1>9 DEF ReachedOf
  <2>2. mid[Collection][day] <= n BY <1>7, <1>9
  <2> QED BY <1>8, <2>1, <2>2
<1> DEFINE before == Started
<1>11. before = Started OBVIOUS
<1> HIDE DEF before
<1>12. AcctOK(before) /\ Same(acct, before, {"initialized"}) BY <1>2, <1>11, StartedIs
<1>13. before.items = acct.items /\ before.clears = acct.clears BY <1>12 DEF Same, AcctFields
<1>14. c.items = a.items /\ c.clears = a.clears BY <1>8 DEF Same, AcctFields
<1>15. MoreOfResources(mid, ev, before, c)
  BY <1>3, <1>13, <1>14, Zenon DEF MoreOfResources
<1>16. b = resource_progress(before, c) BY <1>3, <1>11
<1>17. before \in HomeAccts BY <1>12 DEF AcctOK
<1>18. Kept(b, ev) BY <1>2, <1>8, <1>10, <1>15, <1>16, <1>17, ProgressCounts
<1>19. Advances(c, b) /\ Projected(b) BY <1>2, <1>8, <1>16, <1>17, Progressed
<1>20. AcctOK(b) BY <1>19, AdvancesOK
<1>21. Onward(a, b)
  <2>1. a \in HomeAccts /\ Onward(c, b) BY <1>19, AdvancesOnward DEF AcctOK
  <2> QED BY <1>8, <2>1, OnwardTwice
<1>22. Ledger(b, r.paid) /\ MailsInOrder(b)
  <2>1. a \in HomeAccts BY DEF AcctOK
  <2> QED BY <1>21, <2>1, OnwardLedger, OnwardMails
<1>23. Same(a, b, {"tasks", "touched", "missions", "counts", "multi", "memoria_history"})
       /\ b.memoria_history = c.memoria_history
  <2>1. Same(c, b, {"missions", "tasks", "touched", "counts", "multi"}) BY <1>19 DEF Advances
  <2>2. b.memoria_history = c.memoria_history BY <2>1 DEF Same, AcctFields
  <2> QED BY <1>8, <2>1, <2>2, Zenon DEF Same
<1>24. /\ b.items = a.items /\ b.clears = a.clears /\ b.memorias = a.memorias
       /\ b.active = a.active /\ b.battle_progress = a.battle_progress /\ b.episode = a.episode
  BY <1>23 DEF Same, AcctFields
<1> DEFINE k == [h EXCEPT !.events[Collection][day] = n]
<1>25. k = [h EXCEPT !.events[Collection][day] = n] OBVIOUS
<1> HIDE DEF k
<1>26. /\ h \in [events: [Events -> [Days -> Nat]], memorias: SUBSET Memorias,
                 skips: [Days -> Nat], additions: [Days -> Nat]]
       /\ \A d \in Days : d > day => \A e \in Events : h.events[e][d] = 0
  BY DEF HistoryOK
<1>27. k.events = ev /\ k.memorias = h.memorias /\ k.skips = h.skips /\ k.additions = h.additions
       /\ k = [h EXCEPT !.events = ev]
  BY <1>4, <1>25, <1>26
<1>28. HistoryOK(k)
  <2>1. k \in [events: [Events -> [Days -> Nat]], memorias: SUBSET Memorias,
               skips: [Days -> Nat], additions: [Days -> Nat]]
    <3>1. ev \in [Events -> [Days -> Nat]] BY <1>7 DEF EventsOK
    <3> QED BY <1>26, <1>27, <3>1
  <2>2. ASSUME NEW d \in Days, d > day, NEW e \in Events PROVE ev[e][d] = 0
    <3>1. d # day BY <2>2, <1>2, HomeAssumption DEF Days
    <3> QED BY <1>7, <1>26, <2>2, <3>1 DEF ReachedOf
  <2> QED BY <1>27, <2>1, <2>2, Zenon DEF HistoryOK
<1>29. ResourcesCounted(b, ev)
  <2>1. \A s : Total(b, s) = Total(a, s) BY <1>24, TotalsSame
  <2>2. ASSUME NEW s \in Sources PROVE ev[s] = h.events[s]
    <3>1. s \in Events /\ s # Collection BY EventsFinite
    <3>2. \A d \in Days : ev[s][d] = h.events[s][d] BY <1>7, <3>1 DEF ReachedOf
    <3>3. ev[s] \in [Days -> Nat] /\ h.events[s] \in [Days -> Nat]
      BY <1>5, <1>7, <3>1 DEF EventsOK
    <3> QED BY <3>2, <3>3
  <2> QED BY <2>1, <2>2 DEF ResourcesCounted
<1>30. CollectionSeen(b, k)
  <2>1. k.memorias = b.memoria_history \union b.memorias
    BY <1>8, <1>23, <1>24, <1>27
  <2>2. ASSUME NEW d \in Days PROVE ev[Collection][d] <= Cardinality(k.memorias)
    <3>1. Collection \in Events BY EventsFinite
    <3>2. CASE d = day BY <1>7, <1>27, <3>2 DEF ReachedOf, n
    <3>3. CASE d # day
      <4>1. ev[Collection][d] = happened.events[Collection][d]
        BY <1>7, <3>1, <3>3 DEF ReachedOf
      <4>2. happened.events[Collection][d] <= Cardinality(happened.memorias)
        BY DEF HomeIInv, Sound, CollectionSeen
      <4> QED BY <1>27, <4>1, <4>2
    <3> QED BY <3>2, <3>3
  <2> QED BY <1>27, <2>1, <2>2 DEF CollectionSeen
<1>31. BattleReported(b, requests + 1)
  <2>1. a \in HomeAccts BY DEF AcctOK
  <2>2. /\ a.active \in [quest: Quests \union {None}, txid: Nat, events: SUBSET BattleEvents]
        /\ a.battle_progress \in [txid: Nat, events: SUBSET BattleEvents]
    BY <2>1, AcctTypes
  <2>3. requests \in Nat BY HomeAssumption DEF HomeIInv
  <2> QED BY <1>24, <2>2, <2>3 DEF BattleReported
<1>32. SkipsCounted(b, k) BY <1>24, <1>27, Zenon DEF SkipsCounted
<1>33. Request(b, k, r.paid) BY <1>1, <1>25
<1> HIDE DEF n
<1>34. Earned(DOMAIN r.paid, k.events) /\ Kept(b, k.events) /\ ResourcesCounted(b, k.events)
  BY <1>3, <1>18, <1>27, <1>29
<1> QED BY <1>19, <1>20, <1>22, <1>28, <1>30, <1>31, <1>32, <1>33, <1>34, RequestDone

-----------------------------------------------------------------------------
(* What was earned stays earned. *)

\* Events do not become fewer.
NoLess(ev, more) ==
    EventsOK(ev) /\ EventsOK(more) /\ \A e \in Events : \A d \in Days : ev[e][d] <= more[e][d]

LEMMA TaskDoneIs ==
    ASSUME NEW t \in Tasks, NEW ev, EventsOK(ev), NEW S, S = TaskOf[t].counters \X Days,
           NEW f, f = Often(ev, S)
    PROVE  /\ IsFiniteSet(S) /\ TaskDone(ev, t) = SumFunctionOnSet(f, S)
           /\ \A x \in S : /\ x[1] \in Events /\ x[2] \in Days
                           /\ f[x] = ev[x[1]][x[2]] /\ f[x] \in Nat
<1>1. TaskOf[t].counters \subseteq Events BY CountersAssumption
<1>2. IsFiniteSet(TaskOf[t].counters) /\ IsFiniteSet(Days) BY <1>1, EventsFinite
<1>3. IsFiniteSet(S) BY <1>2, FS_Product
<1>4. TaskDone(ev, t) = SumFunctionOnSet(f, S) BY DEF TaskDone, Often
<1>5. \A x \in S : x[1] \in Events /\ x[2] \in Days BY <1>1
<1>6. \A x \in S : f[x] = ev[x[1]][x[2]] BY DEF Often
<1>7. \A x \in S : ev[x[1]][x[2]] \in Nat BY <1>5 DEF EventsOK
<1> QED BY <1>3, <1>4, <1>5, <1>6, <1>7

LEMMA TaskDoneOrder ==
    ASSUME NEW t \in Tasks, NEW ev, NEW more, NoLess(ev, more)
    PROVE  TaskDone(ev, t) <= TaskDone(more, t) /\ TaskDone(ev, t) \in Nat /\ TaskDone(more, t) \in Nat
<1> DEFINE S == TaskOf[t].counters \X Days
           f == Often(ev, S)
           g == Often(more, S)
<1>1. EventsOK(ev) /\ EventsOK(more) BY DEF NoLess
<1>2. S = TaskOf[t].counters \X Days /\ f = Often(ev, S) /\ g = Often(more, S) OBVIOUS
<1> HIDE DEF f, g, S
<1>3. /\ IsFiniteSet(S) /\ TaskDone(ev, t) = SumFunctionOnSet(f, S)
      /\ \A x \in S : /\ x[1] \in Events /\ x[2] \in Days
                      /\ f[x] = ev[x[1]][x[2]] /\ f[x] \in Nat
  BY <1>1, <1>2, TaskDoneIs
<1>4. /\ TaskDone(more, t) = SumFunctionOnSet(g, S)
      /\ \A x \in S : g[x] = more[x[1]][x[2]] /\ g[x] \in Nat
  BY <1>1, <1>2, TaskDoneIs
<1>5. \A x \in S : f[x] <= g[x] BY <1>3, <1>4 DEF NoLess
<1>6. SumFunctionOnSet(f, S) <= SumFunctionOnSet(g, S) BY <1>3, <1>4, <1>5, SumOrder
<1>7. SumFunctionOnSet(f, S) \in Nat /\ SumFunctionOnSet(g, S) \in Nat BY <1>3, <1>4, SumNat
<1> QED BY <1>3, <1>4, <1>6, <1>7

LEMMA EarnedLater ==
    ASSUME NEW keys, NEW ev, NEW more, Earned(keys, ev), NoLess(ev, more)
    PROVE  Earned(keys, more)
<1> SUFFICES ASSUME NEW key \in keys, key[1] = "mission"
             PROVE  LET rule == MissionOf[key[2]] IN
                    /\ key[2] \in Missions /\ key[3] \in 1..Len(rule.steps)
                    /\ (rule.task = None /\ ~rule.nav) =>
                            DoneIn(more, rule, key[4]) >= rule.steps[key[3]]
                    /\ (rule.task # None /\ StateBacked(rule.task)) =>
                            TaskDone(more, rule.task) >= rule.steps[key[3]]
  BY Zenon DEF Earned
<1> DEFINE rule == MissionOf[key[2]]
<1>1. /\ key[2] \in Missions /\ key[3] \in 1..Len(rule.steps)
      /\ (rule.task = None /\ ~rule.nav) => DoneIn(ev, rule, key[4]) >= rule.steps[key[3]]
      /\ (rule.task # None /\ StateBacked(rule.task)) =>
              TaskDone(ev, rule.task) >= rule.steps[key[3]]
  BY Zenon DEF Earned
<1>2. rule.steps[key[3]] \in Nat BY <1>1, LastStep
<1>3. EventsOK(ev) /\ EventsOK(more) BY DEF NoLess
<1>4. ASSUME rule.task = None /\ ~rule.nav PROVE DoneIn(more, rule, key[4]) >= rule.steps[key[3]]
  <2>1. DoneIn(ev, rule, key[4]) >= rule.steps[key[3]] BY <1>1, <1>4
  <2>2. MissionOf[key[2]].counters \subseteq Events BY <1>1, MissionsAssumption
  <2>3. \A e \in MissionOf[key[2]].counters : \A d \in Days : ev[e][d] <= more[e][d]
    BY <2>2 DEF NoLess
  <2>4. DoneIn(ev, MissionOf[key[2]], key[4]) <= DoneIn(more, MissionOf[key[2]], key[4])
    BY <1>1, <1>3, <2>3, DoneOrder
  <2>5. DoneIn(ev, MissionOf[key[2]], key[4]) \in Nat /\ DoneIn(more, MissionOf[key[2]], key[4]) \in Nat
    BY <1>1, <1>3, DoneNat
  <2> QED BY <1>2, <2>1, <2>4, <2>5
<1>5. ASSUME rule.task # None /\ StateBacked(rule.task)
      PROVE  TaskDone(more, rule.task) >= rule.steps[key[3]]
  <2>1. TaskDone(ev, rule.task) >= rule.steps[key[3]] BY <1>1, <1>5
  <2>2. rule.task \in Tasks BY <1>1, <1>5, MissionsAssumption
  <2>3. TaskDone(ev, rule.task) <= TaskDone(more, rule.task)
        /\ TaskDone(ev, rule.task) \in Nat /\ TaskDone(more, rule.task) \in Nat
    BY <2>2, TaskDoneOrder
  <2> QED BY <1>2, <2>1, <2>3
<1> QED BY <1>1, <1>4, <1>5

LEMMA NoLessTwice ==
    ASSUME NEW x, NEW y, NEW z, NoLess(x, y), NoLess(y, z)
    PROVE  NoLess(x, z)
<1>1. \A e \in Events : \A d \in Days :
        /\ x[e][d] \in Nat /\ y[e][d] \in Nat /\ z[e][d] \in Nat
        /\ x[e][d] <= y[e][d] /\ y[e][d] <= z[e][d]
  BY DEF NoLess, EventsOK
<1>2. \A e \in Events : \A d \in Days : x[e][d] <= z[e][d] BY <1>1
<1> QED BY <1>2 DEF NoLess

LEMMA SeenNoLess ==
    ASSUME HomeIInv, NEW ev, EventsOK(ev), ev[Collection] = happened.events[Collection],
           NEW more, more = Seen(ev)
    PROVE  NoLess(ev, more)
<1> DEFINE n == Cardinality(happened.memorias)
<1>1. EventsOK(more) /\ n \in Nat /\ ReachedOf(ev, more, Collection, n) /\ day \in Days BY SeenIs
<1>2. happened.events[Collection][day] <= n BY <1>1 DEF HomeIInv, Sound, CollectionSeen
<1> HIDE DEF n
<1>3. ASSUME NEW e \in Events, NEW d \in Days PROVE ev[e][d] <= more[e][d]
  <2>1. CASE e = Collection /\ d = day BY <1>1, <1>2, <2>1 DEF ReachedOf
  <2>2. CASE e # Collection \/ d # day
    <3>1. more[e][d] = ev[e][d] BY <1>1, <2>2 DEF ReachedOf
    <3>2. ev[e][d] \in Nat BY DEF EventsOK
    <3> QED BY <3>1, <3>2
  <2> QED BY <2>1, <2>2
<1> QED BY <1>1, <1>3 DEF NoLess

\* What the resources are is what happened to them.
LEMMA TaskDoneTotal ==
    ASSUME NEW a \in HomeAccts, NEW ev, EventsOK(ev), ResourcesCounted(a, ev),
           NEW t \in Tasks, StateBacked(t)
    PROVE  TaskDone(ev, t) = state_counter_total(a, t)
<1> DEFINE C == TaskOf[t].counters
           S == C \X Days
           f == Often(ev, S)
           g == [s \in C |-> Total(a, s)]
<1>1. C \subseteq Sources BY DEF StateBacked
<1>2. C \subseteq Events /\ IsFiniteSet(C) /\ IsFiniteSet(Days) BY <1>1, EventsFinite
<1>3. \A c \in C : g[c] = SumFunctionOnSet(ev[c], Days) BY <1>1 DEF ResourcesCounted
<1>4. state_counter_total(a, t) = SumFunctionOnSet(g, C) BY DEF state_counter_total
<1>5. S = TaskOf[t].counters \X Days /\ f = Often(ev, S) /\ S = C \X Days OBVIOUS
<1>6. \A c \in C, d \in Days : <<c, d>> \in S /\ f[<<c, d>>] = ev[c][d] BY DEF Often
<1> HIDE DEF g, f
<1>7. TaskDone(ev, t) = SumFunctionOnSet(f, S)
  <2> HIDE DEF S
  <2> QED BY <1>5, TaskDoneIs
<1> HIDE DEF S, C
<1>8. ASSUME NEW c \in C, NEW d \in Days PROVE ev[c][d] \in Int /\ ev[c][d] = f[<<c, d>>]
  <2>1. ev[c][d] \in Nat BY <1>2 DEF EventsOK
  <2>2. f[<<c, d>>] = ev[c][d] BY <1>6
  <2> QED BY <2>1, <2>2
<1>9. SumFunctionOnSet(f, S) = SumFunctionOnSet(g, C)
  <2>1. AreRows(f, ev, C, Days) BY <1>8, Zenon DEF AreRows
  <2>2. AreSums(g, ev, C, Days) BY <1>3, Zenon DEF AreSums
  <2>3. S = C \X Days BY <1>5
  <2> QED BY <1>2, <2>1, <2>2, <2>3, SumOfPairs
<1> QED BY <1>4, <1>7, <1>9

-----------------------------------------------------------------------------
(* Requests that leave the history alone. *)

LEMMA SoundNow ==
    ASSUME HomeIInv
    PROVE  /\ day \in FirstDay..MaxDay /\ day \in Nat /\ day \in Days /\ requests \in Nat
           /\ AcctOK(acct) /\ acct \in HomeAccts /\ HistoryOK(happened) /\ EventsOK(happened.events)
           /\ EventsOK(Seen(happened.events)) /\ NoLess(happened.events, Seen(happened.events))
           /\ Earned(DOMAIN paid, Seen(happened.events))
           /\ Ledger(acct, paid) /\ MailsInOrder(acct) /\ Kept(acct, happened.events)
           /\ ResourcesCounted(acct, happened.events) /\ CollectionSeen(acct, happened)
           /\ BattleReported(acct, requests) /\ SkipsCounted(acct, happened)
           /\ Seen(happened.events)[Collection][day] = Cardinality(happened.memorias)
           /\ \A c \in Events : \A d \in Days :
                (c # Collection \/ d # day) => Seen(happened.events)[c][d] = happened.events[c][d]
<1>1. /\ day \in FirstDay..MaxDay /\ requests \in 0..MaxRequests
      /\ AcctOK(acct) /\ HistoryOK(happened)
      /\ Earned(DOMAIN paid, happened.events)
      /\ Ledger(acct, paid) /\ MailsInOrder(acct) /\ Kept(acct, happened.events)
      /\ ResourcesCounted(acct, happened.events) /\ CollectionSeen(acct, happened)
      /\ BattleReported(acct, requests) /\ SkipsCounted(acct, happened)
  BY DEF HomeIInv, Sound
<1>2. day \in Nat /\ requests \in Nat BY <1>1, HomeAssumption
<1>3. EventsOK(happened.events) BY <1>1 DEF HistoryOK, EventsOK
<1> DEFINE more == Seen(happened.events)
<1>4. /\ EventsOK(more) /\ day \in Days
      /\ ReachedOf(happened.events, more, Collection, Cardinality(happened.memorias))
      /\ NoLess(happened.events, more)
  <2>1. more = Seen(happened.events) OBVIOUS
  <2> HIDE DEF more
  <2> QED BY <1>3, <2>1, SeenIs, SeenNoLess
<1> HIDE DEF more
<1>5. Earned(DOMAIN paid, more) BY <1>1, <1>4, EarnedLater
<1>6. acct \in HomeAccts BY <1>1 DEF AcctOK
<1> QED BY <1>1, <1>2, <1>3, <1>4, <1>5, <1>6 DEF ReachedOf, more

LEMMA NothingMore ==
    ASSUME NEW a \in HomeAccts, NEW b, b.items = a.items, b.clears = a.clears,
           NEW ev, NEW more, EventsOK(more), EventsOK(ev),
           \A c \in Events : \A d \in Days : more[c][d] = ev[c][d], day \in Days
    PROVE  MoreOfResources(ev, more, a, b)
<1>1. /\ \A i \in Items : a.items[i] \in Nat /\ Gain(a.items[i], b.items[i]) = 0
      /\ \A q \in Quests : a.clears[q] \in Nat /\ Gain(a.clears[q], b.clears[q]) = 0
  BY AcctTypes DEF Gain
<1>2. \A i \in Items : more[<<"item_received", i>>][day] = ev[<<"item_received", i>>][day]
                       /\ ev[<<"item_received", i>>][day] \in Nat
  BY SourceKinds DEF EventsOK
<1>3. \A q \in Quests : more[<<"quest_clear", q>>][day] = ev[<<"quest_clear", q>>][day]
                        /\ ev[<<"quest_clear", q>>][day] \in Nat
  BY SourceKinds DEF EventsOK
<1>4. ASSUME NEW i \in Items
      PROVE  more[<<"item_received", i>>][day] =
                ev[<<"item_received", i>>][day] + Gain(a.items[i], b.items[i])
  <2> DEFINE g == Gain(a.items[i], b.items[i])
             x == ev[<<"item_received", i>>][day]
  <2>1. g = 0 /\ x \in Nat /\ more[<<"item_received", i>>][day] = x BY <1>1, <1>2
  <2> HIDE DEF g, x
  <2>2. more[<<"item_received", i>>][day] = x + g BY <2>1
  <2> QED BY <2>2 DEF g, x
<1>5. ASSUME NEW q \in Quests
      PROVE  more[<<"quest_clear", q>>][day] =
                ev[<<"quest_clear", q>>][day] + Gain(a.clears[q], b.clears[q])
  <2> DEFINE g == Gain(a.clears[q], b.clears[q])
             x == ev[<<"quest_clear", q>>][day]
  <2>1. g = 0 /\ x \in Nat /\ more[<<"quest_clear", q>>][day] = x BY <1>1, <1>3
  <2> HIDE DEF g, x
  <2>2. more[<<"quest_clear", q>>][day] = x + g BY <2>1
  <2> QED BY <2>2 DEF g, x
<1> QED BY <1>4, <1>5 DEF MoreOfResources

\* What such a request leaves of the account.
Quiet(a) ==
    /\ AcctOK(a) /\ a.initialized # -1
    /\ a.items = acct.items /\ a.clears = acct.clears /\ a.active = acct.active
    /\ a.battle_progress = acct.battle_progress /\ a.episode = acct.episode
    /\ a.memoria_history \union a.memorias = happened.memorias
    /\ Kept(a, Seen(happened.events)) /\ MailsInOrder(a)

LEMMA HomeQuiet ==
    ASSUME HomeIInv, NEW r, reduce_home_inner(r, happened), NEW a, a = r.acct, Quiet(a),
           Ledger(a, r.paid), Earned(DOMAIN r.paid, Seen(happened.events))
    PROVE  HomeIInv'
<1> DEFINE mid == Seen(happened.events)
<1>1. /\ AcctOK(a) /\ a.initialized # -1
      /\ a.items = acct.items /\ a.clears = acct.clears /\ a.active = acct.active
      /\ a.battle_progress = acct.battle_progress /\ a.episode = acct.episode
      /\ a.memoria_history \union a.memorias = happened.memorias
      /\ Kept(a, mid) /\ MailsInOrder(a)
  BY DEF Quiet
<1>2. /\ EventsOK(mid) /\ HistoryOK(happened) /\ acct \in HomeAccts /\ day \in Days
      /\ ResourcesCounted(acct, happened.events) /\ BattleReported(acct, requests)
      /\ SkipsCounted(acct, happened)
  BY SoundNow
<1>3. mid = Seen(happened.events) OBVIOUS
<1> HIDE DEF mid
<1>4. ResourcesCounted(a, happened.events)
  <2>1. \A s : Total(a, s) = Total(acct, s) BY <1>1, TotalsSame
  <2> QED BY <1>2, <2>1, Zenon DEF ResourcesCounted
<1>5. BattleReported(a, requests) BY <1>1, <1>2, Zenon DEF BattleReported
<1>6. SkipsCounted(a, happened) BY <1>1, <1>2, Zenon DEF SkipsCounted
<1>7. MoreOfResources(mid, mid, acct, a) BY <1>1, <1>2, NothingMore
<1> QED BY <1>1, <1>2, <1>3, <1>4, <1>5, <1>6, <1>7, HomeDone

\* An account that entered is one that a quiet request may leave.
LEMMA EnteredQuiet ==
    ASSUME HomeIInv, NEW claims \in BOOLEAN, NEW r, r = Entering(claims), NEW e, e = r.acct
    PROVE  Quiet(e) /\ e \in HomeAccts
<1>1. /\ AcctOK(e) /\ e.initialized # -1
      /\ Same(acct, e, {"initialized", "tasks", "touched", "missions", "counts", "multi", "memoria_history"})
      /\ e.memoria_history = happened.memorias
      /\ Kept(e, Seen(happened.events)) /\ MailsInOrder(e)
  BY EnteringIs
<1>2. /\ e.items = acct.items /\ e.clears = acct.clears /\ e.active = acct.active
      /\ e.battle_progress = acct.battle_progress /\ e.episode = acct.episode
      /\ e.memorias = acct.memorias
  BY <1>1 DEF Same, AcctFields
<1>3. e.memoria_history \union e.memorias = happened.memorias
  <2>1. happened.memorias = acct.memoria_history \union acct.memorias
    BY SoundNow DEF CollectionSeen
  <2> QED BY <1>1, <1>2, <2>1
<1>4. e \in HomeAccts BY <1>1 DEF AcctOK
<1> QED BY <1>1, <1>2, <1>3, <1>4 DEF Quiet

LEMMA RefreshKeepsHome ==
    ASSUME HomeIInv, refresh_home
    PROVE  HomeIInv'
<1> DEFINE r == Entering(FALSE)
           e == r.acct
<1>1. r = Entering(FALSE) /\ e = r.acct OBVIOUS
<1>2. reduce_home_inner(r, happened) BY DEF refresh_home
<1> HIDE DEF r, e
<1>3. Quiet(e) BY <1>1, EnteredQuiet
<1>4. r = Given(e, paid) /\ Ledger(e, paid) BY <1>1, EnteringIs
<1>5. r.paid = paid BY <1>4 DEF Given
<1>6. Earned(DOMAIN paid, Seen(happened.events)) BY SoundNow
<1>7. Ledger(e, r.paid) /\ Earned(DOMAIN r.paid, Seen(happened.events)) BY <1>4, <1>5, <1>6
<1> QED BY <1>1, <1>2, <1>3, <1>7, HomeQuiet

-----------------------------------------------------------------------------
(* Rewards that are paid in steps. *)

\* A quiet request may change what neither the history nor the resources tell.
LEMMA QuietStays ==
    ASSUME NEW e, Quiet(e), NEW a, AcctOK(a), NEW F, Same(e, a, F),
           F \subseteq {"missions", "tasks", "touched", "counts", "tabs", "guides", "battle_steps",
                        "multi", "login_day", "bonuses", "mails", "next_mail_id", "recipes",
                        "recipe_counts", "gems"},
           \A m \in ToCount : Counted(a, m) = Counted(e, m), MailsInOrder(a)
    PROVE  Quiet(a)
<1>1. Same(e, a, {"missions", "tasks", "touched", "counts", "tabs", "guides", "battle_steps",
                  "multi", "login_day", "bonuses", "mails", "next_mail_id", "recipes",
                  "recipe_counts", "gems"})
  BY SameMore
<1>2. /\ a.initialized = e.initialized /\ a.items = e.items /\ a.clears = e.clears
      /\ a.active = e.active /\ a.battle_progress = e.battle_progress /\ a.episode = e.episode
      /\ a.memoria_history = e.memoria_history /\ a.memorias = e.memorias
  BY <1>1 DEF Same, AcctFields
<1>3. Kept(a, Seen(happened.events))
  <2>1. Kept(e, Seen(happened.events)) BY DEF Quiet
  <2> QED BY <2>1, Zenon DEF Kept
<1> QED BY <1>2, <1>3 DEF Quiet

LEMMA SameRecords ==
    ASSUME NEW a, NEW b, b.missions = a.missions, b.counts = a.counts
    PROVE  \A key : RecordsWritten(a, {key}) => RecordsWritten(b, {key})
BY DEF RecordsWritten

LEMMA SameBonuses ==
    ASSUME NEW a, NEW b, b.bonuses = a.bonuses, b.mails = a.mails, b.next_mail_id = a.next_mail_id
    PROVE  /\ \A key : BonusesWritten(a, {key}) => BonusesWritten(b, {key})
           /\ MailsInOrder(a) => MailsInOrder(b)
<1>1. ASSUME NEW key, BonusesWritten(a, {key}) PROVE BonusesWritten(b, {key})
  BY <1>1, Zenon DEF BonusesWritten
<1>2. MailsInOrder(a) => MailsInOrder(b) BY Zenon DEF MailsInOrder
<1> QED BY <1>1, <1>2

LEMMA SameTimely ==
    ASSUME NEW a, AcctOK(a), NEW b \in HomeAccts, b.missions = a.missions, b.counts = a.counts
    PROVE  AcctOK(b)
BY DEF AcctOK, Timely

\* Steps that are reached, one after the other.
LEMMA ReachableIs ==
    ASSUME NEW steps, Len(steps) \in Nat, NEW index \in Nat, index <= Len(steps), NEW count,
           NEW to, to = Max(Reachable(steps, index, count))
    PROVE  /\ to \in Nat /\ index <= to /\ to <= Len(steps)
           /\ to \in Reachable(steps, index, count)
<1> DEFINE R == Reachable(steps, index, count)
<1>1. index \in R BY DEF Reachable
<1>2. R \subseteq index..Len(steps) BY DEF Reachable
<1>3. IsFiniteSet(index..Len(steps)) BY FS_Interval
<1>4. IsFiniteSet(R) BY <1>2, <1>3, FS_Subset
<1>5. R \subseteq Nat BY <1>2
<1>6. to = Max(R) OBVIOUS
<1> HIDE DEF R
<1>7. to \in R BY <1>1, <1>4, <1>5, <1>6, MaxOf
<1>8. to \in index..Len(steps) BY <1>2, <1>7
<1> QED BY <1>7, <1>8 DEF R

LEMMA StepsAre ==
    ASSUME NEW kind, NEW id, NEW from \in Nat, NEW to \in Nat, NEW cycle, day \in Nat,
           NEW key \in Steps(kind, id, from, to, cycle)
    PROVE  /\ key[1] = kind /\ key[2] = id /\ key[4] = reset_at(cycle, day) /\ key[4] \in Nat
           /\ key[3] \in Nat \ {0} /\ from < key[3] /\ key[3] <= to
<1>1. PICK i \in (from + 1)..to : key = <<kind, id, i, reset_at(cycle, day)>> BY DEF Steps, Reward
<1>2. reset_at(cycle, day) \in Nat BY ResetAt
<1> QED BY <1>1, <1>2

\* Only rewards of missions have to be earned by what happened.
LEMMA EarnedMore ==
    ASSUME NEW keys, NEW more, NEW ev, Earned(keys, ev), Earned(more, ev)
    PROVE  Earned(keys \union more, ev)
BY Zenon DEF Earned

LEMMA OthersEarned ==
    ASSUME NEW keys, NEW ev, \A key \in keys : key[1] # "mission"
    PROVE  Earned(keys, ev)
BY Zenon DEF Earned

\* A quiet request that pays rewards that are not those of missions.
LEMMA QuietPays ==
    ASSUME HomeIInv, NEW e, Ledger(e, paid), NEW a, Quiet(a), NEW S,
           KeepsWritten(e, a), PaysOnce(e, a, S), \A key \in S : key[1] # "mission",
           NEW r, r.acct = a, r.paid = paid (+) SetToBag(S), reduce_home_inner(r, happened)
    PROVE  HomeIInv'
<1>1. Ledger(a, paid (+) SetToBag(S)) /\ DOMAIN (paid (+) SetToBag(S)) = DOMAIN paid \union S
  BY LedgerPaid
<1>2. Earned(DOMAIN paid \union S, Seen(happened.events))
  <2>1. Earned(DOMAIN paid, Seen(happened.events)) BY SoundNow
  <2>2. Earned(S, Seen(happened.events)) BY OthersEarned
  <2> QED BY <2>1, <2>2, EarnedMore
<1>4. Ledger(a, r.paid) /\ Earned(DOMAIN r.paid, Seen(happened.events)) BY <1>1, <1>2
<1> QED BY <1>4, HomeQuiet

LEMMA FieldSet ==
    ASSUME NEW e, AcctOK(e), NEW f \in AcctFields \ {"missions", "counts"}, NEW v, v \in AcctType[f],
           NEW a, a = [e EXCEPT ![f] = v]
    PROVE  AcctOK(a) /\ Same(e, a, {f}) /\ a[f] = v
<1>1. e \in HomeAccts /\ f \in AcctFields BY DEF AcctOK
<1>2. Same(e, a, {f}) /\ a[f] = v BY ONLY <1>1, a = [e EXCEPT ![f] = v], OneField
<1>3. \A g \in {f} : a[g] \in AcctType[g] BY <1>2
<1>4. a \in HomeAccts BY <1>1, <1>2, <1>3, AcctUpdate
<1>5. a.missions = e.missions /\ a.counts = e.counts BY <1>2 DEF Same, AcctFields
<1>6. AcctOK(a) BY <1>4, <1>5, SameTimely
<1> QED BY <1>2, <1>6

LEMMA MultiKeepsHome ==
    ASSUME HomeIInv, NEW step \in DOMAIN MultiSteps, receive_multi_mission(step)
    PROVE  HomeIInv'
<1> DEFINE e == Entering(FALSE).acct
           key == Reward("multi", 1, step, None)
           multi == [e.multi EXCEPT !.received = step]
           a == [e EXCEPT !.multi = multi]
           S == {key}
           r == Pay([Given(e, paid) EXCEPT !.acct = a], S)
<1>0. e = Entering(FALSE).acct /\ a = [e EXCEPT !["multi"] = multi] OBVIOUS
<1>1. /\ Entering(FALSE) = Given(e, paid) /\ Ledger(e, paid) /\ AcctOK(e) /\ e.multi = acct.multi
  <2> HIDE DEF e
  <2> QED BY <1>0, EnteringIs
<1>2. Quiet(e)
  <2> HIDE DEF e
  <2> QED BY <1>0, EnteredQuiet
<1>3. step = acct.multi.received + 1 BY DEF receive_multi_mission
<1>4. reduce_home_inner(r, happened)
  <2>1. reduce_home_inner(Pay([Given(e, paid) EXCEPT !.acct.multi.received = step], {key}), happened)
    BY <1>1, Zenon DEF receive_multi_mission, HomeRequest
  <2>2. Given(e, paid).acct = e BY DEF Given
  <2>3. [Given(e, paid) EXCEPT !.acct.multi.received = step] = [Given(e, paid) EXCEPT !.acct = a]
    BY <2>2, Zenon
  <2> QED BY <2>1, <2>3
<1>5. key[1] = "multi" /\ key[3] = step /\ key[4] \in Nat
  <2>1. reset_at(None, day) = None BY ResetAt
  <2> QED BY <2>1 DEF Reward, None
<1>6. r.acct = a /\ r.paid = paid (+) SetToBag(S)
  <2>1. r = Pay([Given(e, paid) EXCEPT !.acct = a], S) OBVIOUS
  <2> HIDE DEF r, a, e, S
  <2> QED BY <2>1 DEF Given, Pay
<1> HIDE DEF e, key, r
<1>7. step \in Nat /\ e.multi \in [count: Nat, received: Nat]
  <2>1. MultiSteps \in Seq(Nat) BY RewardsAssumption
  <2>2. e \in HomeAccts BY <1>1 DEF AcctOK
  <2> QED BY <2>1, <2>2, AcctTypes
<1>8. multi \in [count: Nat, received: Nat] /\ multi.received = step
      /\ e.multi.received \in Nat /\ step > e.multi.received
  BY <1>1, <1>3, <1>7
<1> HIDE DEF a, multi
<1>9. AcctOK(a) /\ Same(e, a, {"multi"}) /\ a["multi"] = multi
  <2>1. AcctType["multi"] = [count: Nat, received: Nat]
        /\ "multi" \in AcctFields \ {"missions", "counts"}
    BY DEF AcctType, AcctFields
  <2>2. multi \in AcctType["multi"] BY <1>8, <2>1
  <2>3. a = [e EXCEPT !["multi"] = multi] BY <1>0
  <2>4. AcctOK(e) BY <1>1
  <2>5. AcctOK(a) BY ONLY <2>1, <2>2, <2>3, <2>4, FieldSet
  <2>6. Same(e, a, {"multi"}) BY ONLY <2>1, <2>2, <2>3, <2>4, FieldSet
  <2>7. a["multi"] = multi
    <3>1. DOMAIN e = AcctFields BY <2>4, AcctFunction DEF AcctOK
    <3> QED BY <2>1, <2>3, <3>1
  <2> QED BY <2>5, <2>6, <2>7
<1>10. /\ a.missions = e.missions /\ a.counts = e.counts /\ a.bonuses = e.bonuses /\ a.mails = e.mails
       /\ a.tabs = e.tabs /\ a.battle_steps = e.battle_steps /\ a.guides = e.guides
       /\ a.recipes = e.recipes /\ a.recipe_counts = e.recipe_counts
       /\ a.next_mail_id = e.next_mail_id
  BY <1>9 DEF Same, AcctFields
<1>11. ASSUME NEW k, k[3] \in Nat, k[4] \in Nat, Written(e, k) PROVE Written(a, k)
  <2>1. RecordsWritten(a, {k}) BY <1>10, <1>11, SameRecords DEF Written
  <2>2. BonusesWritten(a, {k}) BY <1>10, <1>11, SameBonuses DEF Written
  <2>3. StepsWritten(a, {k})
    <3>1. StepsWritten(e, {k}) BY <1>11 DEF Written
    <3>2. k[1] = "multi" => k[3] <= e.multi.received BY <3>1 DEF StepsWritten
    <3>3. k[1] = "multi" => k[3] <= a.multi.received BY <1>8, <1>9, <1>11, <3>2
    <3> QED BY <1>10, <3>1, <3>3, Zenon DEF StepsWritten
  <2> QED BY <2>1, <2>2, <2>3 DEF Written
<1>12. KeepsWritten(e, a) BY <1>11, Zenon DEF KeepsWritten
<1>13. PaysOnce(e, a, S)
  <2>1. ~Written(e, key) BY <1>5, <1>8 DEF Written, StepsWritten
  <2>2. Written(a, key) BY <1>5, <1>8, <1>9 DEF Written, StepsWritten, RecordsWritten, BonusesWritten
  <2> QED BY <1>5, <1>7, <2>1, <2>2 DEF PaysOnce
<1>14. Quiet(a)
  <2>1. \A m \in ToCount : Counted(a, m) = Counted(e, m)
    BY <1>10, SameMissionsCount DEF ToCount
  <2>2. MailsInOrder(a) BY <1>2, <1>10, SameBonuses DEF Quiet
  <2> QED BY <1>2, <1>9, <2>1, <2>2, QuietStays
<1>15. \A k \in S : k[1] # "mission" BY <1>5
<1> HIDE DEF S
<1> QED BY <1>1, <1>4, <1>6, <1>12, <1>13, <1>14, <1>15, QuietPays

\* Steps that are only added to.
LEMMA StepsKept ==
    ASSUME NEW e \in HomeAccts, NEW a \in HomeAccts, a.missions = e.missions, a.counts = e.counts,
           a.bonuses = e.bonuses, a.mails = e.mails,
           \A t \in Tabs : e.tabs[t] <= a.tabs[t],
           \A q \in DOMAIN BattleSteps : e.battle_steps[q] <= a.battle_steps[q],
           e.multi.received <= a.multi.received, e.guides \subseteq a.guides,
           e.recipes \subseteq a.recipes, e.recipe_counts \subseteq a.recipe_counts
    PROVE  KeepsWritten(e, a)
<1> SUFFICES ASSUME NEW k, k[3] \in Nat, k[4] \in Nat, Written(e, k) PROVE Written(a, k)
  BY Zenon DEF KeepsWritten
<1>2. RecordsWritten(a, {k}) BY SameRecords DEF Written
<1>3. BonusesWritten(a, {k})
  <2>1. BonusesWritten(e, {k}) BY DEF Written
  <2> QED BY <2>1, Zenon DEF BonusesWritten
<1>4. StepsWritten(e, {k}) BY DEF Written
<1>5. /\ \A t \in Tabs : e.tabs[t] \in Nat /\ a.tabs[t] \in Nat
      /\ \A q \in DOMAIN BattleSteps : e.battle_steps[q] \in Nat /\ a.battle_steps[q] \in Nat
      /\ e.multi.received \in Nat /\ a.multi.received \in Nat
  BY AcctTypes
<1>6. k[1] = "tab" => k[2] \in Tabs /\ k[3] <= a.tabs[k[2]] BY <1>4, <1>5 DEF StepsWritten
<1>7. k[1] = "battle" => k[2] \in DOMAIN BattleSteps /\ k[3] <= a.battle_steps[k[2]]
  BY <1>4, <1>5 DEF StepsWritten
<1>8. k[1] = "multi" => k[3] <= a.multi.received BY <1>4, <1>5 DEF StepsWritten
<1>9. /\ k[1] = "guide" => k[2] \in a.guides
      /\ k[1] = "recipe" => k[2] \in a.recipes
      /\ k[1] = "plan" => k[3] \in a.recipe_counts
  BY <1>4 DEF StepsWritten
<1>10. StepsWritten(a, {k}) BY <1>6, <1>7, <1>8, <1>9 DEF StepsWritten
<1> QED BY <1>2, <1>3, <1>10 DEF Written

LEMMA TabKeepsHome ==
    ASSUME HomeIInv, NEW tab \in Tabs, event_tab_reward_receive(tab)
    PROVE  HomeIInv'
<1> DEFINE e == Entering(TRUE).acct
           count == ReceivedOf(e, {m \in Missions : MissionOf[m].tab = tab})
           old == e.tabs[tab]
           to == Max(Reachable(TabSteps[tab].steps, old, count))
           S == Steps("tab", tab, old, to, None)
           tabs == [e.tabs EXCEPT ![tab] = to]
           a == [e EXCEPT !["tabs"] = tabs]
           r == Pay([Given(e, paid) EXCEPT !.acct = a], S)
<1>0. e = Entering(TRUE).acct /\ a = [e EXCEPT !["tabs"] = tabs] OBVIOUS
<1>1. Entering(TRUE) = Given(e, paid) /\ Ledger(e, paid) /\ AcctOK(e)
  <2> HIDE DEF e
  <2> QED BY <1>0, EnteringIs
<1>2. Quiet(e) /\ e \in HomeAccts
  <2> HIDE DEF e
  <2> QED BY <1>0, EnteredQuiet
<1>3. reduce_home_inner(r, happened)
  <2>1. Given(e, paid).acct = e BY DEF Given
  <2>2. reduce_home_inner(Pay([Given(e, paid) EXCEPT !.acct.tabs[tab] = to], S), happened)
    BY <1>1, <2>1, Zenon DEF event_tab_reward_receive, HomeRequest
  <2>3. [Given(e, paid) EXCEPT !.acct.tabs[tab] = to] = [Given(e, paid) EXCEPT !.acct = a]
    BY <2>1, Zenon
  <2> QED BY <2>2, <2>3
<1> HIDE DEF e
<1>4. /\ old \in Nat /\ old <= Len(TabSteps[tab].steps) /\ e.tabs \in [Tabs -> Nat]
      /\ Len(TabSteps[tab].steps) \in Nat
  BY <1>2, AcctTypes, RewardsAssumption
<1>5. to \in Nat /\ old <= to /\ to <= Len(TabSteps[tab].steps)
  <2> HIDE DEF count, old
  <2> QED BY <1>4, ReachableIs
<1> HIDE DEF to
<1>6. /\ tabs \in [Tabs -> Nat] /\ tabs[tab] = to /\ \A t \in Tabs : t # tab => tabs[t] = e.tabs[t]
  BY <1>4, <1>5
<1>7. day \in Nat BY SoundNow
<1>8. \A k \in S : /\ k[1] = "tab" /\ k[2] = tab /\ k[4] \in Nat
                   /\ k[3] \in Nat /\ old < k[3] /\ k[3] <= to
  <2> HIDE DEF old
  <2> QED BY <1>4, <1>5, <1>7, StepsAre
<1>9. r.acct = a /\ r.paid = paid (+) SetToBag(S)
  <2> HIDE DEF a, S
  <2> QED BY DEF Given, Pay
<1> HIDE DEF r, S, a, tabs
<1>10. AcctOK(a) /\ Same(e, a, {"tabs"}) /\ a["tabs"] = tabs
  <2>1. /\ AcctType["tabs"] = {f \in [Tabs -> Nat] : \A t \in Tabs : f[t] <= Len(TabSteps[t].steps)}
        /\ "tabs" \in AcctFields \ {"missions", "counts"}
    BY DEF AcctType, AcctFields
  <2>2. tabs \in AcctType["tabs"]
    <3>1. \A t \in Tabs : e.tabs[t] <= Len(TabSteps[t].steps) BY <1>2, AcctTypes
    <3>2. \A t \in Tabs : tabs[t] <= Len(TabSteps[t].steps) BY <1>5, <1>6, <3>1
    <3> QED BY <1>6, <2>1, <3>2
  <2>3. a = [e EXCEPT !["tabs"] = tabs] BY <1>0
  <2>4. AcctOK(e) BY <1>1
  <2>5. AcctOK(a) BY ONLY <2>1, <2>2, <2>3, <2>4, FieldSet
  <2>6. Same(e, a, {"tabs"}) BY ONLY <2>1, <2>2, <2>3, <2>4, FieldSet
  <2>7. a["tabs"] = tabs
    <3>1. DOMAIN e = AcctFields BY <1>2, AcctFunction
    <3> QED BY <2>1, <2>3, <3>1
  <2> QED BY <2>5, <2>6, <2>7
<1>11. /\ a.missions = e.missions /\ a.counts = e.counts /\ a.bonuses = e.bonuses
       /\ a.mails = e.mails /\ a.battle_steps = e.battle_steps /\ a.guides = e.guides
       /\ a.multi = e.multi /\ a.recipes = e.recipes /\ a.recipe_counts = e.recipe_counts
       /\ a.next_mail_id = e.next_mail_id
  BY <1>10 DEF Same, AcctFields
<1>12. KeepsWritten(e, a)
  <2>1. a \in HomeAccts BY <1>10 DEF AcctOK
  <2>2. \A t \in Tabs : e.tabs[t] <= a.tabs[t] BY <1>4, <1>5, <1>6, <1>10
  <2>3. /\ \A q \in DOMAIN BattleSteps : e.battle_steps[q] <= a.battle_steps[q]
        /\ e.multi.received <= a.multi.received
    <3>1. /\ \A q \in DOMAIN BattleSteps : e.battle_steps[q] \in Nat
          /\ e.multi.received \in Nat
      BY <1>2, AcctTypes
    <3> QED BY <1>11, <3>1
  <2> QED BY <1>2, <1>11, <2>1, <2>2, <2>3, StepsKept
<1>13. PaysOnce(e, a, S)
  <2> SUFFICES ASSUME NEW k \in S
               PROVE  k[3] \in Nat /\ k[4] \in Nat /\ ~Written(e, k) /\ Written(a, k)
    BY Zenon DEF PaysOnce
  <2>1. ~Written(e, k) BY <1>4, <1>8 DEF Written, StepsWritten
  <2>2. Written(a, k)
    BY <1>6, <1>8, <1>10 DEF Written, StepsWritten, RecordsWritten, BonusesWritten
  <2> QED BY <1>8, <2>1, <2>2
<1>14. Quiet(a)
  <2>1. \A m \in ToCount : Counted(a, m) = Counted(e, m)
    BY <1>11, SameMissionsCount DEF ToCount
  <2>2. MailsInOrder(a) BY <1>2, <1>11, SameBonuses DEF Quiet
  <2> QED BY <1>2, <1>10, <2>1, <2>2, QuietStays
<1>15. \A k \in S : k[1] # "mission" BY <1>8
<1> QED BY <1>1, <1>3, <1>9, <1>12, <1>13, <1>14, <1>15, QuietPays

LEMMA PlanKeepsHome ==
    ASSUME HomeIInv, NEW indices, indices \subseteq DOMAIN RecipeCounts, claim_recipe_counts(indices)
    PROVE  HomeIInv'
<1> DEFINE e == Entering(FALSE).acct
           S == {Reward("plan", 1, i, None) : i \in indices \ e.recipe_counts}
           counts == e.recipe_counts \union indices
           a == [e EXCEPT !["recipe_counts"] = counts]
           r == Pay([Given(e, paid) EXCEPT !.acct = a], S)
<1>0. e = Entering(FALSE).acct /\ a = [e EXCEPT !["recipe_counts"] = counts] OBVIOUS
<1>1. Entering(FALSE) = Given(e, paid) /\ Ledger(e, paid) /\ AcctOK(e)
  <2> HIDE DEF e
  <2> QED BY <1>0, EnteringIs
<1>2. Quiet(e) /\ e \in HomeAccts
  <2> HIDE DEF e
  <2> QED BY <1>0, EnteredQuiet
<1>3. reduce_home_inner(r, happened)
  <2>1. Given(e, paid).acct = e BY DEF Given
  <2>2. reduce_home_inner(Pay([Given(e, paid) EXCEPT !.acct.recipe_counts = @ \union indices], S), happened)
    BY <1>1, <2>1, Zenon DEF claim_recipe_counts, HomeRequest
  <2>3. [Given(e, paid) EXCEPT !.acct.recipe_counts = @ \union indices] = [Given(e, paid) EXCEPT !.acct = a]
    BY <2>1, Zenon
  <2> QED BY <2>2, <2>3
<1> HIDE DEF e
<1>4. e.recipe_counts \subseteq DOMAIN RecipeCounts /\ DOMAIN RecipeCounts \subseteq Nat
  BY <1>2, AcctTypes, RewardsAssumption
<1>5. \A k \in S : /\ k[1] = "plan" /\ k[3] \in indices \ e.recipe_counts /\ k[3] \in Nat
                   /\ k[4] \in Nat
  <2> SUFFICES ASSUME NEW i \in indices \ e.recipe_counts, NEW k, k = Reward("plan", 1, i, None)
               PROVE  k[1] = "plan" /\ k[3] = i /\ i \in Nat /\ k[4] \in Nat
    OBVIOUS
  <2>1. reset_at(None, day) = None BY ResetAt
  <2> QED BY <1>4, <2>1 DEF Reward, None
<1>6. r.acct = a /\ r.paid = paid (+) SetToBag(S)
  <2> HIDE DEF a, S
  <2> QED BY DEF Given, Pay
<1>7. counts \subseteq DOMAIN RecipeCounts /\ e.recipe_counts \subseteq counts /\ indices \subseteq counts
  BY <1>4
<1> HIDE DEF r, S, a, counts
<1>8. AcctOK(a) /\ Same(e, a, {"recipe_counts"}) /\ a["recipe_counts"] = counts
  <2>1. /\ AcctType["recipe_counts"] = SUBSET DOMAIN RecipeCounts
        /\ "recipe_counts" \in AcctFields \ {"missions", "counts"}
    BY DEF AcctType, AcctFields
  <2>2. counts \in AcctType["recipe_counts"] BY <1>7, <2>1
  <2>3. a = [e EXCEPT !["recipe_counts"] = counts] BY <1>0
  <2>4. AcctOK(e) BY <1>1
  <2>5. AcctOK(a) BY ONLY <2>1, <2>2, <2>3, <2>4, FieldSet
  <2>6. Same(e, a, {"recipe_counts"}) BY ONLY <2>1, <2>2, <2>3, <2>4, FieldSet
  <2>7. a["recipe_counts"] = counts
    <3>1. DOMAIN e = AcctFields BY <1>2, AcctFunction
    <3> QED BY <2>1, <2>3, <3>1
  <2> QED BY <2>5, <2>6, <2>7
<1>9. /\ a.missions = e.missions /\ a.counts = e.counts /\ a.bonuses = e.bonuses
      /\ a.mails = e.mails /\ a.battle_steps = e.battle_steps /\ a.guides = e.guides
      /\ a.multi = e.multi /\ a.recipes = e.recipes /\ a.tabs = e.tabs
      /\ a.next_mail_id = e.next_mail_id
  BY <1>8 DEF Same, AcctFields
<1>10. KeepsWritten(e, a)
  <2>1. a \in HomeAccts BY <1>8 DEF AcctOK
  <2>2. /\ \A q \in DOMAIN BattleSteps : e.battle_steps[q] <= a.battle_steps[q]
        /\ \A t \in Tabs : e.tabs[t] <= a.tabs[t]
        /\ e.multi.received <= a.multi.received
    <3>1. /\ \A q \in DOMAIN BattleSteps : e.battle_steps[q] \in Nat
          /\ \A t \in Tabs : e.tabs[t] \in Nat
          /\ e.multi.received \in Nat
      BY <1>2, AcctTypes
    <3> QED BY <1>9, <3>1
  <2> QED BY <1>2, <1>7, <1>8, <1>9, <2>1, <2>2, StepsKept
<1>11. PaysOnce(e, a, S)
  <2> SUFFICES ASSUME NEW k \in S
               PROVE  k[3] \in Nat /\ k[4] \in Nat /\ ~Written(e, k) /\ Written(a, k)
    BY Zenon DEF PaysOnce
  <2>1. ~Written(e, k) BY <1>5 DEF Written, StepsWritten
  <2>2. Written(a, k)
    BY <1>5, <1>7, <1>8 DEF Written, StepsWritten, RecordsWritten, BonusesWritten
  <2> QED BY <1>5, <2>1, <2>2
<1>12. Quiet(a)
  <2>1. \A m \in ToCount : Counted(a, m) = Counted(e, m)
    BY <1>9, SameMissionsCount DEF ToCount
  <2>2. MailsInOrder(a) BY <1>2, <1>9, SameBonuses DEF Quiet
  <2> QED BY <1>2, <1>8, <2>1, <2>2, QuietStays
<1>13. \A k \in S : k[1] # "mission" BY <1>5
<1> QED BY <1>1, <1>3, <1>6, <1>10, <1>11, <1>12, <1>13, QuietPays

-----------------------------------------------------------------------------
(* Recipes *)

\* A quiet request that pays nothing.
LEMMA QuietPaysNothing ==
    ASSUME HomeIInv, NEW e, Ledger(e, paid), NEW a, Quiet(a), KeepsWritten(e, a),
           NEW r, r.acct = a, r.paid = paid, reduce_home_inner(r, happened)
    PROVE  HomeIInv'
<1>1. \A key \in DOMAIN paid : key[3] \in Nat /\ key[4] \in Nat /\ paid[key] = 1 /\ Written(e, key)
  BY LedgerIs
<1>2. \A key \in DOMAIN paid : Written(a, key) BY <1>1, Zenon DEF KeepsWritten
<1>3. Ledger(a, paid) BY <1>1, <1>2, LedgerIs
<1>4. Earned(DOMAIN paid, Seen(happened.events)) BY SoundNow
<1>5. Ledger(a, r.paid) /\ Earned(DOMAIN r.paid, Seen(happened.events)) BY <1>3, <1>4
<1> QED BY <1>5, HomeQuiet

LEMMA OnwardKeeps ==
    ASSUME NEW e \in HomeAccts, NEW a, Onward(e, a)
    PROVE  KeepsWritten(e, a)
BY OnwardWritten DEF KeepsWritten

LEMMA RecipesKeepHome ==
    ASSUME HomeIInv, recipe_learn
    PROVE  HomeIInv'
<1> DEFINE e == Entering(FALSE).acct
           b == advance_missions(e)
           learned == {x \in Recipes : Learnable(b, x)}
           S == {Reward("recipe", x, 0, None) : x \in learned}
           recipes == b.recipes \union learned
           c == [b EXCEPT !["recipes"] = recipes]
           n == Cardinality(recipes)
           tasks == [c.tasks EXCEPT ![RecipeTask] = n]
           touched == c.touched \union {RecipeTask}
           d == [c EXCEPT !["tasks"] = tasks]
           a == [d EXCEPT !["touched"] = touched]
           q == [Given(e, paid) EXCEPT !.acct = advance_missions(@)]
           p == Pay([q EXCEPT !.acct = c], S)
           r == [p EXCEPT !.acct = update_task(@, RecipeTask, Cardinality(@.recipes))]
<1>0. /\ e = Entering(FALSE).acct /\ c = [b EXCEPT !["recipes"] = recipes]
      /\ b = advance_missions(e)
      /\ d = [c EXCEPT !["tasks"] = tasks] /\ a = [d EXCEPT !["touched"] = touched]
  OBVIOUS
<1>1. Entering(FALSE) = Given(e, paid) /\ Ledger(e, paid) /\ AcctOK(e)
  <2> HIDE DEF e
  <2> QED BY <1>0, EnteringIs
<1>2. Quiet(e) /\ e \in HomeAccts
  <2> HIDE DEF e
  <2> QED BY <1>0, EnteredQuiet
<1>2a. q.acct = b /\ q.paid = paid /\ DOMAIN q = {"ok", "acct", "paid"}
  <2>1. Given(e, paid).acct = e BY DEF Given
  <2> HIDE DEF b
  <2>2. q = [Given(e, paid) EXCEPT !.acct = b] BY <1>0, <2>1, Zenon
  <2> HIDE DEF q, e
  <2> QED BY <2>2 DEF Given
<1>3. reduce_home_inner(r, happened)
  <2>1. Given(e, paid).acct = e BY DEF Given
  <2>2. q.acct = b BY <1>2a
  <2>3. reduce_home_inner(
          LET s == Pay([q EXCEPT !.acct.recipes = @ \union {x \in Recipes : Learnable(q.acct, x)}],
                       {Reward("recipe", x, 0, None) : x \in {y \in Recipes : Learnable(q.acct, y)}})
          IN  [s EXCEPT !.acct = update_task(@, RecipeTask, Cardinality(@.recipes))], happened)
    BY <1>1, Zenon DEF recipe_learn, HomeRequest
  <2> HIDE DEF q
  <2>4. [q EXCEPT !.acct.recipes = @ \union {x \in Recipes : Learnable(q.acct, x)}]
            = [q EXCEPT !.acct = c]
    <3>1. [q EXCEPT !.acct.recipes = @ \union {x \in Recipes : Learnable(q.acct, x)}]
            = [q EXCEPT !.acct = [q.acct EXCEPT !.recipes = q.acct.recipes \union {x \in Recipes : Learnable(q.acct, x)}]]
      BY Zenon
    <3> HIDE DEF b
    <3> QED BY <2>2, <3>1, Zenon
  <2>5. {Reward("recipe", x, 0, None) : x \in {y \in Recipes : Learnable(q.acct, y)}} = S
    BY <2>2, Zenon
  <2> QED BY <2>3, <2>4, <2>5, Zenon
<1> HIDE DEF e, b, q
<1>4. /\ Advances(e, b) /\ AcctOK(b) /\ \A m \in Missions : Counted(b, m) = Counted(e, m)
  <2>1. day \in Nat BY SoundNow
  <2>2. Advances(e, b) /\ \A m \in Missions : Counted(b, m) = Counted(e, m)
    BY <1>0, <1>1, <2>1, MissionsAdvanced
  <2> QED BY <2>2, AdvancesOK
<1>5. Quiet(b)
  <2>1. Same(e, b, {"missions", "tasks", "touched", "counts", "multi"}) BY <1>4 DEF Advances
  <2>2. MailsInOrder(b)
    <3>1. MailsInOrder(e) BY <1>2 DEF Quiet
    <3>2. Onward(e, b) BY <1>4, AdvancesOnward
    <3> QED BY <3>1, <3>2, OnwardMails
  <2>3. \A m \in ToCount : Counted(b, m) = Counted(e, m) BY <1>4 DEF ToCount
  <2> QED BY <1>2, <1>4, <2>1, <2>2, <2>3, QuietStays
<1>6. b \in HomeAccts BY <1>4 DEF AcctOK
<1>7. b.recipes \subseteq Recipes /\ IsFiniteSet(Recipes) /\ RecipeTask \in Tasks
  BY <1>6, AcctTypes, CountersAssumption
<1>8. recipes \subseteq Recipes /\ n \in Nat /\ b.recipes \subseteq recipes /\ learned \subseteq recipes
      /\ learned \intersect b.recipes = {}
  <2>1. recipes \subseteq Recipes /\ b.recipes \subseteq recipes /\ learned \subseteq recipes
    BY <1>7
  <2>2. learned \intersect b.recipes = {} BY DEF Learnable
  <2> HIDE DEF recipes
  <2>3. IsFiniteSet(recipes) BY <1>7, <2>1, FS_Subset
  <2>4. n \in Nat BY <2>3, FS_CardinalityType
  <2> QED BY <2>1, <2>2, <2>4
<1>9. \A k \in S : k[1] = "recipe" /\ k[2] \in learned /\ k[3] \in Nat /\ k[4] \in Nat
  <2> SUFFICES ASSUME NEW x \in learned, NEW k, k = Reward("recipe", x, 0, None)
               PROVE  k[1] = "recipe" /\ k[2] = x /\ k[3] \in Nat /\ k[4] \in Nat
    OBVIOUS
  <2>1. reset_at(None, day) = None BY ResetAt
  <2> QED BY <2>1 DEF Reward, None
<1> HIDE DEF recipes, learned
<1>10. p.acct = c /\ p.paid = paid (+) SetToBag(S)
  <2> HIDE DEF c, S
  <2> QED BY <1>2a DEF Pay
<1>11. r.paid = p.paid /\ r.acct = update_task(c, RecipeTask, Cardinality(c.recipes))
  <2>1. r = [p EXCEPT !.acct = update_task(c, RecipeTask, Cardinality(c.recipes))] BY <1>10, Zenon
  <2>2. "acct" \in DOMAIN p /\ "paid" \in DOMAIN p
    <3> HIDE DEF c, S
    <3> QED BY <1>2a DEF Pay
  <2> HIDE DEF p, r, c
  <2> QED BY <2>1, <2>2
<1> HIDE DEF S, p, r, c
<1>12. AcctOK(c) /\ Same(b, c, {"recipes"}) /\ c["recipes"] = recipes
  <2>1. /\ AcctType["recipes"] = SUBSET Recipes /\ "recipes" \in AcctFields \ {"missions", "counts"}
    BY DEF AcctType, AcctFields
  <2>2. recipes \in AcctType["recipes"] BY <1>8, <2>1
  <2>3. c = [b EXCEPT !["recipes"] = recipes] BY <1>0
  <2>4. AcctOK(b) BY <1>4
  <2>5. AcctOK(c) BY ONLY <2>1, <2>2, <2>3, <2>4, FieldSet
  <2>6. Same(b, c, {"recipes"}) BY ONLY <2>1, <2>2, <2>3, <2>4, FieldSet
  <2>7. c["recipes"] = recipes
    <3>1. DOMAIN b = AcctFields BY <1>6, AcctFunction
    <3> QED BY <2>1, <2>3, <3>1
  <2> QED BY <2>5, <2>6, <2>7
<1>13. c \in HomeAccts /\ c.tasks \in [Tasks -> Nat] /\ c.touched \subseteq Tasks
  <2>1. c \in HomeAccts BY <1>12 DEF AcctOK
  <2> QED BY <2>1, AcctTypes
<1>14. r.acct = a
  <2>1. Cardinality(c.recipes) = n BY <1>12
  <2>2. update_task(c, RecipeTask, n) = [c EXCEPT !.tasks[RecipeTask] = n,
                                                  !.touched = @ \union {RecipeTask}]
    BY DEF update_task
  <2> HIDE DEF n
  <2>3. [c EXCEPT !.tasks[RecipeTask] = n, !.touched = @ \union {RecipeTask}] = a
    <3>1. d["touched"] = c["touched"]
      <4>1. DOMAIN c = AcctFields BY <1>13, AcctFunction
      <4> QED BY <1>0, <4>1 DEF AcctFields
    <3>2. [c EXCEPT !.tasks[RecipeTask] = n, !.touched = @ \union {RecipeTask}]
            = [d EXCEPT !.touched = d["touched"] \union {RecipeTask}] BY Zenon
    <3> QED BY <3>1, <3>2, Zenon
  <2> QED BY <1>11, <2>1, <2>2, <2>3
<1>15. AcctOK(d) /\ Same(c, d, {"tasks"})
  <2>1. /\ AcctType["tasks"] = [Tasks -> Nat] /\ "tasks" \in AcctFields \ {"missions", "counts"}
    BY DEF AcctType, AcctFields
  <2>2. tasks \in AcctType["tasks"]
    <3> HIDE DEF n
    <3> QED BY <1>7, <1>8, <1>13, <2>1
  <2>3. d = [c EXCEPT !["tasks"] = tasks] BY <1>0
  <2>4. AcctOK(c) BY <1>12
  <2> HIDE DEF tasks, d
  <2>5. AcctOK(d) BY ONLY <2>1, <2>2, <2>3, <2>4, FieldSet
  <2>6. Same(c, d, {"tasks"}) BY ONLY <2>1, <2>2, <2>3, <2>4, FieldSet
  <2> QED BY <2>5, <2>6
<1>16. AcctOK(a) /\ Same(d, a, {"touched"})
  <2>1. /\ AcctType["touched"] = SUBSET Tasks /\ "touched" \in AcctFields \ {"missions", "counts"}
    BY DEF AcctType, AcctFields
  <2>2. touched \in AcctType["touched"] BY <1>7, <1>13, <2>1
  <2>3. a = [d EXCEPT !["touched"] = touched] BY <1>0
  <2>4. AcctOK(d) BY <1>15
  <2> HIDE DEF touched, d, a
  <2>5. AcctOK(a) BY ONLY <2>1, <2>2, <2>3, <2>4, FieldSet
  <2>6. Same(d, a, {"touched"}) BY ONLY <2>1, <2>2, <2>3, <2>4, FieldSet
  <2> QED BY <2>5, <2>6
<1> HIDE DEF a, d
<1>17. Same(b, a, {"recipes", "tasks", "touched"})
  BY <1>12, <1>15, <1>16, Zenon DEF Same
<1>18. /\ a.missions = b.missions /\ a.counts = b.counts /\ a.bonuses = b.bonuses
       /\ a.mails = b.mails /\ a.battle_steps = b.battle_steps /\ a.guides = b.guides
       /\ a.multi = b.multi /\ a.tabs = b.tabs /\ a.recipe_counts = b.recipe_counts
       /\ a.next_mail_id = b.next_mail_id
  BY <1>17 DEF Same, AcctFields
<1>19. a.recipes = recipes BY <1>12, <1>15, <1>16 DEF Same, AcctFields
<1>20. KeepsWritten(b, a)
  <2>1. a \in HomeAccts BY <1>16 DEF AcctOK
  <2>2. /\ \A x \in DOMAIN BattleSteps : b.battle_steps[x] <= a.battle_steps[x]
        /\ \A t \in Tabs : b.tabs[t] <= a.tabs[t]
        /\ b.multi.received <= a.multi.received
    <3>1. /\ \A x \in DOMAIN BattleSteps : b.battle_steps[x] \in Nat
          /\ \A t \in Tabs : b.tabs[t] \in Nat
          /\ b.multi.received \in Nat
      BY <1>6, AcctTypes
    <3> QED BY <1>18, <3>1
  <2> QED BY <1>6, <1>8, <1>18, <1>19, <2>1, <2>2, StepsKept
<1>21. Ledger(b, paid)
  <2>1. Onward(e, b) BY <1>4, AdvancesOnward
  <2> QED BY <1>1, <1>2, <2>1, OnwardLedger
<1>22. PaysOnce(b, a, S)
  <2> SUFFICES ASSUME NEW k \in S
               PROVE  k[3] \in Nat /\ k[4] \in Nat /\ ~Written(b, k) /\ Written(a, k)
    BY Zenon DEF PaysOnce
  <2>1. ~Written(b, k) BY <1>8, <1>9 DEF Written, StepsWritten
  <2>2. Written(a, k)
    BY <1>8, <1>9, <1>19 DEF Written, StepsWritten, RecordsWritten, BonusesWritten
  <2> QED BY <1>9, <2>1, <2>2
<1>23. Quiet(a)
  <2>1. \A m \in ToCount : Counted(a, m) = Counted(b, m)
    BY <1>18, SameMissionsCount DEF ToCount
  <2>2. MailsInOrder(a) BY <1>5, <1>18, SameBonuses DEF Quiet
  <2> QED BY <1>5, <1>16, <1>17, <2>1, <2>2, QuietStays
<1>24. \A k \in S : k[1] # "mission" BY <1>9
<1> QED BY <1>3, <1>10, <1>11, <1>14, <1>20, <1>21, <1>22, <1>23, <1>24, QuietPays

-----------------------------------------------------------------------------
(* Mails, memorias and the navigation *)

LEMMA OpenKeepsHome ==
    ASSUME HomeIInv, NEW ids, mail_open(ids)
    PROVE  HomeIInv'
<1> DEFINE e == Entering(FALSE).acct
           closed == {m \in Named(ids) : ~m.opened}
           S == {Reward("mail", m.bonus, m.step, None) : m \in closed}
           mails == (e.mails \ closed) \union {[m EXCEPT !.opened = TRUE] : m \in closed}
           a == [e EXCEPT !["mails"] = mails]
           r == Pay([Given(e, paid) EXCEPT !.acct = a], S)
<1>0. e = Entering(FALSE).acct /\ a = [e EXCEPT !["mails"] = mails] OBVIOUS
<1>1. Entering(FALSE) = Given(e, paid) /\ Ledger(e, paid) /\ AcctOK(e) /\ Onward(acct, e)
  <2> HIDE DEF e
  <2> QED BY <1>0, EnteringIs
<1>2. Quiet(e) /\ e \in HomeAccts
  <2> HIDE DEF e
  <2> QED BY <1>0, EnteredQuiet
<1>3. reduce_home_inner(r, happened)
  <2>1. Given(e, paid).acct = e BY DEF Given
  <2>2. reduce_home_inner(
          Pay([Given(e, paid) EXCEPT !.acct.mails =
                    (@ \ closed) \union {[m EXCEPT !.opened = TRUE] : m \in closed}], S), happened)
    BY <1>1, <2>1, Zenon DEF mail_open, HomeRequest
  <2> HIDE DEF closed
  <2>3. [Given(e, paid) EXCEPT !.acct.mails =
            (@ \ closed) \union {[m EXCEPT !.opened = TRUE] : m \in closed}]
            = [Given(e, paid) EXCEPT !.acct = a]
    BY <2>1, Zenon
  <2> QED BY <2>2, <2>3
<1> HIDE DEF e
<1>4. e.mails \subseteq Mail /\ e.bonuses \in [Bonuses -> [day: Nat, last: Int]]
  BY <1>2, AcctTypes
<1>5. closed \subseteq e.mails /\ \A m \in closed : ~m.opened
  <2>1. e.mails = acct.mails BY <1>1 DEF Onward
  <2> QED BY <2>1 DEF Named
<1>6. MailsInOrder(e) BY <1>2 DEF Quiet
<1>7. \A k \in S : \E m \in closed :
        k[1] = "mail" /\ k[2] = m.bonus /\ k[3] = m.step /\ k[3] \in Nat /\ k[4] \in Nat
  <2> SUFFICES ASSUME NEW m \in closed, NEW k, k = Reward("mail", m.bonus, m.step, None)
               PROVE  k[1] = "mail" /\ k[2] = m.bonus /\ k[3] = m.step /\ k[3] \in Nat /\ k[4] \in Nat
    BY Zenon
  <2>1. reset_at(None, day) = None BY ResetAt
  <2>2. m.step \in Nat BY <1>4, <1>5 DEF Mail
  <2> QED BY <2>1, <2>2 DEF Reward, None
<1>8. r.acct = a /\ r.paid = paid (+) SetToBag(S)
  <2> HIDE DEF a, S
  <2> QED BY DEF Given, Pay
<1> HIDE DEF closed
<1>9. \A m \in closed : [m EXCEPT !.opened = TRUE] \in Mail
  <2> SUFFICES ASSUME NEW m \in Mail PROVE [m EXCEPT !.opened = TRUE] \in Mail BY <1>4, <1>5
  <2> QED BY DEF Mail
<1>10. mails \subseteq Mail BY <1>4, <1>9
<1>11. \A x \in mails : \/ x \in e.mails /\ x \notin closed
                        \/ \E m \in closed : /\ x = [m EXCEPT !.opened = TRUE]
                                             /\ x.id = m.id /\ x.bonus = m.bonus /\ x.step = m.step
                                             /\ x.opened
  <2> SUFFICES ASSUME NEW m \in Mail, NEW x, x = [m EXCEPT !.opened = TRUE]
               PROVE  x.id = m.id /\ x.bonus = m.bonus /\ x.step = m.step /\ x.opened
    BY <1>4, <1>5
  <2> QED BY DEF Mail
<1> HIDE DEF r, S, a, mails
<1>12. AcctOK(a) /\ Same(e, a, {"mails"}) /\ a["mails"] = mails
  <2>1. AcctType["mails"] = SUBSET Mail /\ "mails" \in AcctFields \ {"missions", "counts"}
    BY DEF AcctType, AcctFields
  <2>2. mails \in AcctType["mails"] BY <1>10, <2>1
  <2>3. a = [e EXCEPT !["mails"] = mails] BY <1>0
  <2>4. AcctOK(e) BY <1>1
  <2>5. AcctOK(a) BY ONLY <2>1, <2>2, <2>3, <2>4, FieldSet
  <2>6. Same(e, a, {"mails"}) BY ONLY <2>1, <2>2, <2>3, <2>4, FieldSet
  <2>7. a["mails"] = mails
    <3>1. DOMAIN e = AcctFields BY <1>2, AcctFunction
    <3> QED BY <2>1, <2>3, <3>1
  <2> QED BY <2>5, <2>6, <2>7
<1>13. /\ a.missions = e.missions /\ a.counts = e.counts /\ a.bonuses = e.bonuses
       /\ a.tabs = e.tabs /\ a.battle_steps = e.battle_steps /\ a.guides = e.guides
       /\ a.multi = e.multi /\ a.recipes = e.recipes /\ a.recipe_counts = e.recipe_counts
       /\ a.next_mail_id = e.next_mail_id
  BY <1>12 DEF Same, AcctFields
<1>14. ASSUME NEW k, Written(e, k) PROVE Written(a, k)
  <2>1. RecordsWritten(a, {k}) BY <1>13, <1>14, SameRecords DEF Written
  <2>2. StepsWritten(a, {k})
    <3>1. StepsWritten(e, {k}) BY <1>14 DEF Written
    <3> QED BY <1>13, <3>1, Zenon DEF StepsWritten
  <2>3. BonusesWritten(e, {k}) BY <1>14 DEF Written
  <2>4. k[1] = "bonus" => k[2] \in Bonuses /\ k[4] <= a.bonuses[k[2]].last + 1
    BY <1>13, <2>3 DEF BonusesWritten
  <2>5. ASSUME k[1] = "mail"
        PROVE  /\ k[2] \in Bonuses /\ k[3] <= a.bonuses[k[2]].day
               /\ \A m \in a.mails : (m.bonus = k[2] /\ m.step = k[3]) => m.opened
    <3>1. /\ k[2] \in Bonuses /\ k[3] <= e.bonuses[k[2]].day
          /\ \A m \in e.mails : (m.bonus = k[2] /\ m.step = k[3]) => m.opened
      BY <2>3, <2>5 DEF BonusesWritten
    <3> QED BY <1>11, <1>12, <1>13, <3>1
  <2>6. BonusesWritten(a, {k}) BY <2>4, <2>5 DEF BonusesWritten
  <2> QED BY <2>1, <2>2, <2>6 DEF Written
<1>15. KeepsWritten(e, a) BY <1>14, Zenon DEF KeepsWritten
<1>16. PaysOnce(e, a, S)
  <2> SUFFICES ASSUME NEW k \in S
               PROVE  k[3] \in Nat /\ k[4] \in Nat /\ ~Written(e, k) /\ Written(a, k)
    BY Zenon DEF PaysOnce
  <2>1. PICK m \in closed :
        k[1] = "mail" /\ k[2] = m.bonus /\ k[3] = m.step /\ k[3] \in Nat /\ k[4] \in Nat
    BY <1>7
  <2>2. m \in e.mails /\ ~m.opened BY <1>5
  <2>3. ~Written(e, k) BY <2>1, <2>2 DEF Written, BonusesWritten
  <2>4. m.bonus \in Bonuses BY <1>4, <2>2 DEF Mail
  <2>5. m.step <= a.bonuses[m.bonus].day BY <1>6, <1>13, <2>2 DEF MailsInOrder
  <2>6. ASSUME NEW x \in a.mails, x.bonus = m.bonus, x.step = m.step PROVE x.opened
    <3>1. CASE x \in e.mails /\ x \notin closed
      <4>1. x = m BY <1>6, <2>2, <2>6, <3>1 DEF MailsInOrder
      <4> QED BY <3>1, <4>1
    <3> QED BY <1>11, <1>12, <2>6, <3>1
  <2>7. BonusesWritten(a, {k}) BY <2>1, <2>4, <2>5, <2>6 DEF BonusesWritten
  <2>8. RecordsWritten(a, {k}) /\ StepsWritten(a, {k}) BY <2>1 DEF RecordsWritten, StepsWritten
  <2> QED BY <2>1, <2>3, <2>7, <2>8 DEF Written
<1>17. MailsInOrder(a)
  <2>1. \A b \in Bonuses : a.bonuses[b].last <= day BY <1>6, <1>13 DEF MailsInOrder
  <2>2. \A x \in a.mails : \E o \in e.mails :
            /\ x.id = o.id /\ x.bonus = o.bonus /\ x.step = o.step
            /\ x = IF o \in closed THEN [o EXCEPT !.opened = TRUE] ELSE o
    BY <1>5, <1>11, <1>12
  <2>3. \A x \in a.mails : x.id <= a.next_mail_id /\ x.step <= a.bonuses[x.bonus].day
    BY <1>6, <1>13, <2>2 DEF MailsInOrder
  <2>4. ASSUME NEW x \in a.mails, NEW y \in a.mails,
               x.id = y.id \/ (x.bonus = y.bonus /\ x.step = y.step)
        PROVE  x = y
    <3>1. PICK o \in e.mails :
            /\ x.id = o.id /\ x.bonus = o.bonus /\ x.step = o.step
            /\ x = IF o \in closed THEN [o EXCEPT !.opened = TRUE] ELSE o
      BY <2>2
    <3>2. PICK p \in e.mails :
            /\ y.id = p.id /\ y.bonus = p.bonus /\ y.step = p.step
            /\ y = IF p \in closed THEN [p EXCEPT !.opened = TRUE] ELSE p
      BY <2>2
    <3>3. o = p BY <1>6, <2>4, <3>1, <3>2 DEF MailsInOrder
    <3> QED BY <3>1, <3>2, <3>3
  <2> QED BY <2>1, <2>3, <2>4 DEF MailsInOrder
<1>18. Quiet(a)
  <2>1. \A m \in ToCount : Counted(a, m) = Counted(e, m)
    BY <1>13, SameMissionsCount DEF ToCount
  <2> QED BY <1>2, <1>12, <1>17, <2>1, QuietStays
<1>19. \A k \in S : k[1] # "mission" BY <1>7
<1> QED BY <1>1, <1>3, <1>8, <1>15, <1>16, <1>18, <1>19, QuietPays

LEMMA DeleteKeepsHome ==
    ASSUME HomeIInv, NEW ids, mail_delete(ids)
    PROVE  HomeIInv'
<1> DEFINE e == Entering(FALSE).acct
           mails == e.mails \ Named(ids)
           a == [e EXCEPT !["mails"] = mails]
           r == [Given(e, paid) EXCEPT !.acct = a]
<1>0. e = Entering(FALSE).acct /\ a = [e EXCEPT !["mails"] = mails] OBVIOUS
<1>1. Entering(FALSE) = Given(e, paid) /\ Ledger(e, paid) /\ AcctOK(e)
  <2> HIDE DEF e
  <2> QED BY <1>0, EnteringIs
<1>2. Quiet(e) /\ e \in HomeAccts
  <2> HIDE DEF e
  <2> QED BY <1>0, EnteredQuiet
<1>3. reduce_home_inner(r, happened)
  <2>1. Given(e, paid).acct = e BY DEF Given
  <2>2. reduce_home_inner([Given(e, paid) EXCEPT !.acct.mails = @ \ Named(ids)], happened)
    BY <1>1, Zenon DEF mail_delete, HomeRequest
  <2>3. [Given(e, paid) EXCEPT !.acct.mails = @ \ Named(ids)] = [Given(e, paid) EXCEPT !.acct = a]
    BY <2>1, Zenon
  <2> QED BY <2>2, <2>3
<1> HIDE DEF e
<1>4. e.mails \subseteq Mail BY <1>2, AcctTypes
<1>5. mails \subseteq Mail /\ mails \subseteq e.mails BY <1>4
<1>6. r.acct = a /\ r.paid = paid
  <2> HIDE DEF a
  <2> QED BY DEF Given
<1> HIDE DEF r, a, mails
<1>7. AcctOK(a) /\ Same(e, a, {"mails"}) /\ a["mails"] = mails
  <2>1. AcctType["mails"] = SUBSET Mail /\ "mails" \in AcctFields \ {"missions", "counts"}
    BY DEF AcctType, AcctFields
  <2>2. mails \in AcctType["mails"] BY <1>5, <2>1
  <2>3. a = [e EXCEPT !["mails"] = mails] BY <1>0
  <2>4. AcctOK(e) BY <1>1
  <2>5. AcctOK(a) BY ONLY <2>1, <2>2, <2>3, <2>4, FieldSet
  <2>6. Same(e, a, {"mails"}) BY ONLY <2>1, <2>2, <2>3, <2>4, FieldSet
  <2>7. a["mails"] = mails
    <3>1. DOMAIN e = AcctFields BY <1>2, AcctFunction
    <3> QED BY <2>1, <2>3, <3>1
  <2> QED BY <2>5, <2>6, <2>7
<1>8. /\ a.missions = e.missions /\ a.counts = e.counts /\ a.bonuses = e.bonuses
      /\ a.tabs = e.tabs /\ a.battle_steps = e.battle_steps /\ a.guides = e.guides
      /\ a.multi = e.multi /\ a.recipes = e.recipes /\ a.recipe_counts = e.recipe_counts
      /\ a.next_mail_id = e.next_mail_id
  BY <1>7 DEF Same, AcctFields
<1>9. ASSUME NEW k, Written(e, k) PROVE Written(a, k)
  <2>1. RecordsWritten(a, {k}) BY <1>8, <1>9, SameRecords DEF Written
  <2>2. StepsWritten(a, {k})
    <3>1. StepsWritten(e, {k}) BY <1>9 DEF Written
    <3> QED BY <1>8, <3>1, Zenon DEF StepsWritten
  <2>3. BonusesWritten(e, {k}) BY <1>9 DEF Written
  <2>4. BonusesWritten(a, {k}) BY <1>5, <1>7, <1>8, <2>3 DEF BonusesWritten
  <2> QED BY <2>1, <2>2, <2>4 DEF Written
<1>10. KeepsWritten(e, a) BY <1>9, Zenon DEF KeepsWritten
<1>11. MailsInOrder(a)
  <2>1. MailsInOrder(e) BY <1>2 DEF Quiet
  <2> QED BY <1>5, <1>7, <1>8, <2>1 DEF MailsInOrder
<1>12. Quiet(a)
  <2>1. \A m \in ToCount : Counted(a, m) = Counted(e, m)
    BY <1>8, SameMissionsCount DEF ToCount
  <2> QED BY <1>2, <1>7, <1>11, <2>1, QuietStays
<1> QED BY <1>1, <1>3, <1>6, <1>10, <1>12, QuietPaysNothing

LEMMA SellKeepsHome ==
    ASSUME HomeIInv, NEW k, memoria_sell(k)
    PROVE  HomeIInv'
<1> DEFINE e == Entering(FALSE).acct
           memorias == e.memorias \ {k}
           a == [e EXCEPT !["memorias"] = memorias]
           r == [Given(e, paid) EXCEPT !.acct = a]
<1>0. e = Entering(FALSE).acct /\ a = [e EXCEPT !["memorias"] = memorias] OBVIOUS
<1>1. /\ Entering(FALSE) = Given(e, paid) /\ Ledger(e, paid) /\ AcctOK(e)
      /\ e.memoria_history = happened.memorias
  <2> HIDE DEF e
  <2> QED BY <1>0, EnteringIs
<1>2. Quiet(e) /\ e \in HomeAccts
  <2> HIDE DEF e
  <2> QED BY <1>0, EnteredQuiet
<1>3. reduce_home_inner(r, happened)
  <2>1. Given(e, paid).acct = e BY DEF Given
  <2>2. reduce_home_inner([Given(e, paid) EXCEPT !.acct.memorias = @ \ {k}], happened)
    BY <1>1, Zenon DEF memoria_sell, HomeRequest
  <2>3. [Given(e, paid) EXCEPT !.acct.memorias = @ \ {k}] = [Given(e, paid) EXCEPT !.acct = a]
    BY <2>1, Zenon
  <2> QED BY <2>2, <2>3
<1> HIDE DEF e
<1>4. memorias \subseteq Memorias /\ memorias \subseteq e.memorias
  <2>1. e.memorias \subseteq Memorias BY <1>2, AcctTypes
  <2> QED BY <2>1
<1>5. r.acct = a /\ r.paid = paid
  <2> HIDE DEF a
  <2> QED BY DEF Given
<1> HIDE DEF r, a, memorias
<1>6. AcctOK(a) /\ Same(e, a, {"memorias"}) /\ a["memorias"] = memorias
  <2>1. AcctType["memorias"] = SUBSET Memorias /\ "memorias" \in AcctFields \ {"missions", "counts"}
    BY DEF AcctType, AcctFields
  <2>2. memorias \in AcctType["memorias"] BY <1>4, <2>1
  <2>3. a = [e EXCEPT !["memorias"] = memorias] BY <1>0
  <2>4. AcctOK(e) BY <1>1
  <2>5. AcctOK(a) BY ONLY <2>1, <2>2, <2>3, <2>4, FieldSet
  <2>6. Same(e, a, {"memorias"}) BY ONLY <2>1, <2>2, <2>3, <2>4, FieldSet
  <2>7. a["memorias"] = memorias
    <3>1. DOMAIN e = AcctFields BY <1>2, AcctFunction
    <3> QED BY <2>1, <2>3, <3>1
  <2> QED BY <2>5, <2>6, <2>7
<1>7. Onward(e, a)
  <2>1. a \in HomeAccts BY <1>6 DEF AcctOK
  <2> QED BY <1>1, <1>6, <2>1, SameOnward
<1>8. KeepsWritten(e, a) BY <1>2, <1>7, OnwardKeeps
<1>9. Quiet(a)
  <2>1. /\ a.initialized = e.initialized /\ a.items = e.items /\ a.clears = e.clears
        /\ a.active = e.active /\ a.battle_progress = e.battle_progress /\ a.episode = e.episode
        /\ a.memoria_history = e.memoria_history /\ a.missions = e.missions
    BY <1>6 DEF Same, AcctFields
  <2>2. e.memoria_history \union e.memorias = happened.memorias BY <1>2 DEF Quiet
  <2>3. a.memoria_history \union a.memorias = happened.memorias
    BY <1>1, <1>4, <1>6, <2>1, <2>2
  <2>4. Kept(a, Seen(happened.events))
    <3>1. \A m \in Missions : Counted(a, m) = Counted(e, m) BY <2>1, SameMissionsCount
    <3>2. Kept(e, Seen(happened.events)) BY <1>2 DEF Quiet
    <3> QED BY <3>1, <3>2, KeptSame
  <2>5. MailsInOrder(a) BY <1>2, <1>7, OnwardMails DEF Quiet
  <2> QED BY <1>2, <1>6, <2>1, <2>3, <2>4, <2>5 DEF Quiet
<1> QED BY <1>1, <1>3, <1>5, <1>8, <1>9, QuietPaysNothing

\* Records as an account may hold them today.
MissionsOK(ms) ==
    /\ AsTable(ms) /\ DOMAIN ms \subseteq Missions
    /\ \A m \in DOMAIN ms : RecordOK(m, ms[m]) /\ ms[m].reset <= Cycle(m)

CountsOK(cs) ==
    /\ AsTable(cs) /\ DOMAIN cs \subseteq Categories
    /\ \A c \in DOMAIN cs : CountOK(c, cs[c]) /\ cs[c].reset <= reset_at(CountSteps[c].cycle, day)

LEMMA MissionsSet ==
    ASSUME NEW e, AcctOK(e), NEW ms, MissionsOK(ms), NEW a, a = [e EXCEPT !["missions"] = ms]
    PROVE  AcctOK(a) /\ Same(e, a, {"missions"}) /\ a["missions"] = ms /\ a.counts = e.counts
<1>1. e \in HomeAccts /\ Timely(e) BY DEF AcctOK
<1>0. AsTable(ms) /\ DOMAIN ms \subseteq Missions /\ \A m \in DOMAIN ms : RecordOK(m, ms[m]) /\ ms[m].reset <= Cycle(m)
  BY DEF MissionsOK
<1>2. DOMAIN e = AcctFields /\ "missions" \in AcctFields BY <1>1, AcctFunction DEF AcctFields
<1>3. Same(e, a, {"missions"}) BY <1>1, <1>2, OneField
<1>4. a["missions"] = ms BY <1>2
<1>5. ms \in MissionRecords BY <1>0, MissionRecordsAre DEF AsTable
<1>6. a \in HomeAccts
  <2>1. AcctType["missions"] = MissionRecords BY DEF AcctType
  <2>2. \A f \in {"missions"} : a[f] \in AcctType[f] BY ONLY <1>4, <1>5, <2>1
  <2> QED BY <1>1, <1>3, <2>2, AcctUpdate
<1>7. a.counts = e.counts BY <1>3 DEF Same, AcctFields
<1>8. Timely(a)
  <2>1. \A m \in DOMAIN a.missions : a.missions[m].reset <= reset_at(MissionOf[m].cycle, day)
    BY <1>0, <1>4 DEF Cycle
  <2>2. \A c \in DOMAIN a.counts : a.counts[c].reset <= reset_at(CountSteps[c].cycle, day)
    BY <1>1, <1>7 DEF Timely
  <2> QED BY <2>1, <2>2 DEF Timely
<1> QED BY <1>3, <1>4, <1>6, <1>7, <1>8 DEF AcctOK

LEMMA CountsSet ==
    ASSUME NEW e, AcctOK(e), NEW cs, CountsOK(cs), NEW a, a = [e EXCEPT !["counts"] = cs]
    PROVE  AcctOK(a) /\ Same(e, a, {"counts"}) /\ a["counts"] = cs /\ a.missions = e.missions
<1>1. e \in HomeAccts /\ Timely(e) BY DEF AcctOK
<1>0. AsTable(cs) /\ DOMAIN cs \subseteq Categories /\ \A c \in DOMAIN cs :
         CountOK(c, cs[c]) /\ cs[c].reset <= reset_at(CountSteps[c].cycle, day)
  BY DEF CountsOK
<1>2. DOMAIN e = AcctFields /\ "counts" \in AcctFields BY <1>1, AcctFunction DEF AcctFields
<1>3. Same(e, a, {"counts"}) BY <1>1, <1>2, OneField
<1>4. a["counts"] = cs BY <1>2
<1>5. cs \in CountRecords BY <1>0, CountRecordsAre DEF AsTable
<1>6. a \in HomeAccts
  <2>1. AcctType["counts"] = CountRecords BY DEF AcctType
  <2>2. \A f \in {"counts"} : a[f] \in AcctType[f] BY ONLY <1>4, <1>5, <2>1
  <2> QED BY <1>1, <1>3, <2>2, AcctUpdate
<1>7. a.missions = e.missions BY <1>3 DEF Same, AcctFields
<1>8. Timely(a)
  <2>1. \A c \in DOMAIN a.counts : a.counts[c].reset <= reset_at(CountSteps[c].cycle, day)
    BY <1>0, <1>4
  <2>2. \A m \in DOMAIN a.missions : a.missions[m].reset <= reset_at(MissionOf[m].cycle, day)
    BY <1>1, <1>7 DEF Timely
  <2> QED BY <2>1, <2>2 DEF Timely
<1> QED BY <1>3, <1>4, <1>6, <1>7, <1>8 DEF AcctOK

LEMMA NavigationKeepsHome ==
    ASSUME HomeIInv, navigation_task_proceed
    PROVE  HomeIInv'
<1> DEFINE e == Entering(FALSE).acct
           ids == {m \in Missions : MissionOf[m].nav /\ mission_active(m)}
           old == e.missions
           ms == [m \in DOMAIN old |-> IF m \in ids THEN [old[m] EXCEPT !.count = 1] ELSE old[m]]
           a == [e EXCEPT !["missions"] = ms]
           r == [Given(e, paid) EXCEPT !.acct = a]
<1>0. e = Entering(FALSE).acct /\ a = [e EXCEPT !["missions"] = ms] OBVIOUS
<1>1. Entering(FALSE) = Given(e, paid) /\ Ledger(e, paid) /\ AcctOK(e)
  <2> HIDE DEF e
  <2> QED BY <1>0, EnteringIs
<1>2. Quiet(e) /\ e \in HomeAccts
  <2> HIDE DEF e
  <2> QED BY <1>0, EnteredQuiet
<1>3. reduce_home_inner(r, happened)
  <2>1. Given(e, paid).acct = e BY DEF Given
  <2>2. reduce_home_inner(
          [Given(e, paid) EXCEPT !.acct.missions =
              [m \in DOMAIN @ |-> IF m \in ids THEN [@[m] EXCEPT !.count = 1] ELSE @[m]]], happened)
    BY <1>1, Zenon DEF navigation_task_proceed, HomeRequest
  <2> HIDE DEF ids
  <2>3. [Given(e, paid) EXCEPT !.acct.missions =
            [m \in DOMAIN @ |-> IF m \in ids THEN [@[m] EXCEPT !.count = 1] ELSE @[m]]]
            = [Given(e, paid) EXCEPT !.acct = a]
    BY <2>1, Zenon
  <2> QED BY <2>2, <2>3
<1> HIDE DEF e
<1>4. r.acct = a /\ r.paid = paid
  <2> HIDE DEF a
  <2> QED BY DEF Given
<1>5. DOMAIN ms = DOMAIN old /\ AsTable(ms) BY DEF AsTable
<1>6. \A m \in DOMAIN old : /\ m \in ids => ms[m] = [old[m] EXCEPT !.count = 1]
                            /\ m \notin ids => ms[m] = old[m]
  OBVIOUS
<1>7. ids \subseteq Missions /\ \A m \in ids : m \notin ToCount BY DEF ToCount
<1> HIDE DEF r, a, ms, ids
<1>8. \A m \in DOMAIN old : /\ m \in Missions /\ RecordOK(m, old[m])
                            /\ old[m].reset \in Nat /\ old[m].received \in Nat
                            /\ old[m].reset <= Cycle(m)
  <2>1. \A m \in DOMAIN old : old[m].reset <= Cycle(m) BY <1>1 DEF AcctOK, Timely, Cycle
  <2> QED BY <1>2, <2>1, RecordTypes
<1> HIDE DEF old
<1>9. \A m \in DOMAIN ms : /\ RecordOK(m, ms[m]) /\ ms[m].reset <= Cycle(m)
                           /\ ms[m].reset = old[m].reset /\ ms[m].received = old[m].received
  <2> SUFFICES ASSUME NEW m \in DOMAIN old
               PROVE  /\ RecordOK(m, ms[m]) /\ ms[m].reset <= Cycle(m)
                      /\ ms[m].reset = old[m].reset /\ ms[m].received = old[m].received
    BY <1>5
  <2>1. CASE m \in ids
    <3>1. ms[m] = [old[m] EXCEPT !.count = 1] BY <1>6, <2>1
    <3>2. Last(MissionOf[m].steps) \in Nat \ {0} BY <1>8, LastStep
    <3>3. old[m] \in Record /\ old[m].received <= Len(MissionOf[m].steps)
      BY <1>8 DEF RecordOK
    <3>4. /\ ms[m] \in Record /\ ms[m].count = 1
          /\ ms[m].reset = old[m].reset /\ ms[m].received = old[m].received
      BY <3>1, <3>3 DEF Record
    <3>5. RecordOK(m, ms[m]) BY <3>2, <3>3, <3>4 DEF RecordOK
    <3> QED BY <1>8, <3>4, <3>5
  <2>2. CASE m \notin ids BY <1>6, <1>8, <2>2
  <2> QED BY <2>1, <2>2
<1>10. AcctOK(a) /\ Same(e, a, {"missions"}) /\ a["missions"] = ms /\ a.counts = e.counts
  <2>1. MissionsOK(ms) BY <1>5, <1>8, <1>9 DEF MissionsOK
  <2>2. a = [e EXCEPT !["missions"] = ms] BY <1>0
  <2>3. AcctOK(e) BY <1>1
  <2>4. AcctOK(a) BY ONLY <2>1, <2>2, <2>3, MissionsSet
  <2>5. Same(e, a, {"missions"}) BY ONLY <2>1, <2>2, <2>3, MissionsSet
  <2>6. a.counts = e.counts BY <2>5 DEF Same, AcctFields
  <2>7. a["missions"] = ms
    <3>1. DOMAIN e = AcctFields BY <1>2, AcctFunction
    <3> QED BY <2>2, <3>1 DEF AcctFields
  <2> QED BY <2>4, <2>5, <2>6, <2>7
<1>11. /\ a.bonuses = e.bonuses /\ a.mails = e.mails
       /\ a.tabs = e.tabs /\ a.battle_steps = e.battle_steps /\ a.guides = e.guides
       /\ a.multi = e.multi /\ a.recipes = e.recipes /\ a.recipe_counts = e.recipe_counts
       /\ a.next_mail_id = e.next_mail_id
  BY <1>10 DEF Same, AcctFields
<1>12. Onward(e, a)
  <2>1. \A m \in DOMAIN e.missions : m \in DOMAIN a.missions /\ Ahead(e.missions[m], a.missions[m])
    BY <1>5, <1>8, <1>9, <1>10 DEF old, Ahead
  <2>2. \A c \in DOMAIN e.counts : c \in DOMAIN a.counts /\ Ahead(e.counts[c], a.counts[c])
    BY <1>2, <1>10, AheadSelf
  <2> QED BY <1>10, <1>11, <2>1, <2>2 DEF Onward, AcctOK
<1>13. KeepsWritten(e, a) BY <1>2, <1>12, OnwardKeeps
<1>14. Quiet(a)
  <2>1. ASSUME NEW m \in ToCount PROVE Counted(a, m) = Counted(e, m)
    <3>1. m \notin ids BY <1>7
    <3>2. Existing(a, m) = Existing(e, m) BY <1>5, <1>6, <1>10, <3>1 DEF Existing, old
    <3> QED BY <3>2, Zenon DEF Counted
  <2>2. MailsInOrder(a) BY <1>2, <1>12, OnwardMails DEF Quiet
  <2> QED BY <1>2, <1>10, <2>1, <2>2, QuietStays
<1> QED BY <1>1, <1>3, <1>4, <1>13, <1>14, QuietPaysNothing

-----------------------------------------------------------------------------
(* Claims *)

\* What an operation makes of an account, and what it pays.
Outcome(r) == DOMAIN r = {"ok", "acct", "paid"}

LEMMA PayIs ==
    ASSUME NEW r, Outcome(r), NEW S, NEW t, t = Pay(r, S)
    PROVE  Outcome(t) /\ t.ok = r.ok /\ t.acct = r.acct /\ t.paid = r.paid (+) SetToBag(S)
BY DEF Outcome, Pay

LEMMA AcctSet ==
    ASSUME NEW r, Outcome(r), NEW a, NEW t, t = [r EXCEPT !.acct = a]
    PROVE  Outcome(t) /\ t.ok = r.ok /\ t.acct = a /\ t.paid = r.paid
BY DEF Outcome

\* Rewards that do not come from missions are paid.
PaysOthers(r, t, S) ==
    /\ Outcome(t) /\ t.ok = r.ok /\ t.paid = r.paid (+) SetToBag(S)
    /\ \A k \in S : k[1] # "mission"

\* Where counts of categories have records, they are of today's cycle.
CountsCurrent(a) ==
    \A c \in DOMAIN a.counts : a.counts[c].reset = reset_at(CountSteps[c].cycle, day)

\* The steps a category has are given once.
LEMMA CountsClaimed ==
    ASSUME NEW r, Outcome(r), NEW e, e = r.acct, AcctOK(e), day \in Nat, CountsCurrent(e),
           NEW cs, cs \subseteq Categories, NEW t, t = claim_counts(r, cs), NEW a, a = t.acct
    PROVE  /\ AcctOK(a) /\ Same(e, a, {"counts"}) /\ Onward(e, a)
           /\ \E S : PaysOthers(r, t, S) /\ PaysOnce(e, a, S)
<1> DEFINE earned(c) == CountEarned(e, c)
           given(c) == CountGiven(e, c)
           new == [c \in DOMAIN e.counts \union cs |->
                    IF c \in cs THEN [received |-> CountEarned(e, c), reset |-> FreshCount(c).reset]
                    ELSE e.counts[c]]
           b == [e EXCEPT !["counts"] = new]
           S == RewardsOfCounts(e, cs)
           u == [r EXCEPT !.acct = b]
<1>0. b = [e EXCEPT !["counts"] = new] /\ u = [r EXCEPT !.acct = b] OBVIOUS
<1>1. t = Pay(u, S)
  <2>1. r.acct = e OBVIOUS
  <2>2. [r EXCEPT !.acct.counts = [c \in DOMAIN @ \union cs |->
            IF c \in cs THEN [received |-> CountEarned(r.acct, c), reset |-> FreshCount(c).reset]
            ELSE @[c]]] = u
    BY <2>1, Zenon
  <2> QED BY <2>1, <2>2, Zenon DEF claim_counts
<1>2. ASSUME NEW c \in Categories
      PROVE  /\ given(c) \in Nat /\ earned(c) \in Nat /\ given(c) <= earned(c)
             /\ earned(c) <= Len(CountSteps[c].steps)
  <2>1. e \in HomeAccts BY DEF AcctOK
  <2>2. Len(CountSteps[c].steps) \in Nat BY RewardsAssumption
  <2>3. given(c) \in Nat /\ given(c) <= Len(CountSteps[c].steps)
    BY <2>1, <2>2, RecordTypes DEF CountGiven, CountOK
  <2> HIDE DEF given
  <2> DEFINE g == given(c)
             n == ReceivedOf(e, {m \in Missions : MissionOf[m].category = c})
             x == earned(c)
             steps == CountSteps[c].steps
  <2>4. x = Max(Reachable(steps, g, n)) BY Zenon DEF CountEarned, given
  <2>5. Len(steps) \in Nat /\ g \in Nat /\ g <= Len(steps) BY <2>2, <2>3
  <2> HIDE DEF g, n, x, steps
  <2>6. x \in Nat /\ g <= x /\ x <= Len(steps) BY <2>4, <2>5, ReachableIs
  <2> QED BY <2>3, <2>6 DEF g, x, steps
<1>3. /\ DOMAIN new = DOMAIN e.counts \union cs /\ AsTable(new)
      /\ \A c \in cs : new[c] = [received |-> earned(c), reset |-> reset_at(CountSteps[c].cycle, day)]
      /\ \A c \in DOMAIN e.counts : c \notin cs => new[c] = e.counts[c]
  BY DEF AsTable, FreshCount
<1> HIDE DEF new
<1>4. \A k \in S : /\ k[1] = "count" /\ k[2] \in cs /\ k[4] = reset_at(CountSteps[k[2]].cycle, day)
                   /\ k[3] \in Nat /\ k[4] \in Nat /\ given(k[2]) < k[3] /\ k[3] <= earned(k[2])
  <2> SUFFICES ASSUME NEW k \in S
               PROVE  /\ k[1] = "count" /\ k[2] \in cs /\ k[4] = reset_at(CountSteps[k[2]].cycle, day)
                      /\ k[3] \in Nat /\ k[4] \in Nat /\ given(k[2]) < k[3] /\ k[3] <= earned(k[2])
    OBVIOUS
  <2>1. PICK c \in cs : k \in Steps("count", c, given(c), earned(c), CountSteps[c].cycle)
    BY DEF RewardsOfCounts
  <2>2. given(c) \in Nat /\ earned(c) \in Nat BY <1>2
  <2> HIDE DEF given, earned, S
  <2>3. /\ k[1] = "count" /\ k[2] = c /\ k[4] = reset_at(CountSteps[c].cycle, day) /\ k[4] \in Nat
        /\ k[3] \in Nat \ {0} /\ given(c) < k[3] /\ k[3] <= earned(c)
    BY <2>1, <2>2, StepsAre
  <2> QED BY <2>3
<1>5. e \in HomeAccts /\ Timely(e) BY DEF AcctOK
<1>6. \A c \in DOMAIN e.counts : /\ c \in Categories /\ CountOK(c, e.counts[c])
                                 /\ e.counts[c].reset \in Nat /\ e.counts[c].received \in Nat
                                 /\ e.counts[c].reset = reset_at(CountSteps[c].cycle, day)
                                 /\ given(c) = e.counts[c].received
  BY <1>5, RecordTypes DEF CountsCurrent, CountGiven
<1> HIDE DEF given, earned, S
<1>7. \A c \in cs : /\ CountOK(c, new[c]) /\ new[c].received = earned(c)
                    /\ new[c].reset = reset_at(CountSteps[c].cycle, day) /\ new[c].reset \in Nat
  <2>1. ASSUME NEW c \in cs
        PROVE  /\ CountOK(c, new[c]) /\ new[c].received = earned(c)
               /\ new[c].reset = reset_at(CountSteps[c].cycle, day) /\ new[c].reset \in Nat
    <3>1. reset_at(CountSteps[c].cycle, day) \in Nat BY ResetAt
    <3>2. earned(c) \in Nat /\ earned(c) <= Len(CountSteps[c].steps) BY <1>2
    <3> QED BY <1>3, <3>1, <3>2 DEF CountOK, CountRecord
  <2> QED BY <2>1
<1>8. CountsOK(new)
  <2>1. DOMAIN new \subseteq Categories BY <1>3, <1>6
  <2>2. ASSUME NEW c \in DOMAIN new
        PROVE  CountOK(c, new[c]) /\ new[c].reset <= reset_at(CountSteps[c].cycle, day)
    <3>1. CASE c \in cs BY <1>7, <3>1
    <3>2. CASE c \notin cs BY <1>3, <1>6, <3>2
    <3> QED BY <3>1, <3>2
  <2> QED BY <1>3, <2>1, <2>2 DEF CountsOK
<1>9. AcctOK(b) /\ Same(e, b, {"counts"}) /\ b["counts"] = new
  <2> HIDE DEF b, u
  <2>1. AcctOK(b) BY <1>0, <1>8, CountsSet
  <2>2. Same(e, b, {"counts"}) BY ONLY AcctOK(e), <1>0, <1>8, CountsSet
  <2>3. b["counts"] = new
    <3>1. DOMAIN e = AcctFields BY <1>5, AcctFunction
    <3> QED BY <1>0, <3>1 DEF AcctFields
  <2> QED BY <2>1, <2>2, <2>3
<1> HIDE DEF b, u
<1>10. /\ b.missions = e.missions /\ b.bonuses = e.bonuses /\ b.mails = e.mails
       /\ b.tabs = e.tabs /\ b.battle_steps = e.battle_steps /\ b.guides = e.guides
       /\ b.multi = e.multi /\ b.recipes = e.recipes /\ b.recipe_counts = e.recipe_counts
       /\ b.next_mail_id = e.next_mail_id
  BY <1>9 DEF Same, AcctFields
<1>11. Onward(e, b)
  <2>1. \A m \in DOMAIN e.missions : m \in DOMAIN b.missions /\ Ahead(e.missions[m], b.missions[m])
    BY <1>5, <1>10, AheadSelf
  <2>2. ASSUME NEW c \in DOMAIN e.counts
        PROVE  c \in DOMAIN b.counts /\ Ahead(e.counts[c], b.counts[c])
    <3>1. c \in DOMAIN b.counts BY <1>3, <1>9
    <3>2. CASE c \in cs
      <4>1. earned(c) \in Nat /\ given(c) <= earned(c) BY <1>2, <3>2
      <4> QED BY <1>6, <1>7, <1>9, <3>1, <3>2, <4>1 DEF Ahead
    <3>3. CASE c \notin cs BY <1>3, <1>5, <1>9, <3>1, <3>3, AheadSelf
    <3> QED BY <3>2, <3>3
  <2> QED BY <1>9, <1>10, <2>1, <2>2 DEF Onward, AcctOK
<1>12. PaysOnce(e, b, S)
  <2> SUFFICES ASSUME NEW k \in S
               PROVE  k[3] \in Nat /\ k[4] \in Nat /\ ~Written(e, k) /\ Written(b, k)
    BY Zenon DEF PaysOnce
  <2> DEFINE c == k[2]
  <2>1. c \in cs /\ c \in Categories BY <1>4
  <2>2. ~Written(e, k)
    <3> SUFFICES ASSUME Written(e, k) PROVE FALSE OBVIOUS
    <3>1. c \in DOMAIN e.counts /\ Behind(k[3], k[4], e.counts[c])
      BY <1>4 DEF Written, RecordsWritten
    <3> QED BY <1>4, <1>6, <3>1 DEF Behind
  <2>3. Written(b, k)
    <3>1. c \in DOMAIN b.counts /\ Behind(k[3], k[4], b.counts[c])
      <4>1. earned(c) \in Nat BY <1>2, <2>1
      <4> QED BY <1>3, <1>4, <1>7, <1>9, <2>1, <4>1 DEF Behind
    <3> QED BY <1>4, <3>1 DEF Written, StepsWritten, RecordsWritten, BonusesWritten
  <2> QED BY <1>4, <2>2, <2>3
<1>13. Outcome(u) /\ u.ok = r.ok /\ u.acct = b /\ u.paid = r.paid BY <1>0, AcctSet
<1>14. Outcome(t) /\ t.ok = r.ok /\ t.acct = b /\ t.paid = r.paid (+) SetToBag(S)
  BY <1>1, <1>13, PayIs
<1>15. \A k \in S : k[1] # "mission" BY <1>4
<1>16. PaysOthers(r, t, S) BY <1>14, <1>15 DEF PaysOthers
<1> QED BY <1>9, <1>11, <1>12, <1>14, <1>16

\* A reward for a category is received.
LEMMA CountsKeepHome ==
    ASSUME HomeIInv, NEW c \in Categories, count_reward_receive(c)
    PROVE  HomeIInv'
<1> DEFINE e == Entering(TRUE).acct
           cs == {c}
           g == Given(e, paid)
           r == claim_counts(g, cs)
           a == r.acct
<1>0. e = Entering(TRUE).acct /\ g = Given(e, paid) /\ r = claim_counts(g, cs) /\ a = r.acct
      /\ cs \subseteq Categories
  OBVIOUS
<1>1. Entering(TRUE) = Given(e, paid) /\ Ledger(e, paid) /\ AcctOK(e) /\ Current(e)
  <2> HIDE DEF e
  <2> QED BY <1>0, EnteringIs
<1>2. Quiet(e) /\ e \in HomeAccts
  <2> HIDE DEF e
  <2> QED BY <1>0, EnteredQuiet
<1>3. reduce_home_inner(r, happened)
  BY <1>1, Zenon DEF count_reward_receive, HomeRequest
<1> HIDE DEF e, g, r, a, cs
<1>4. Outcome(g) /\ g.ok = TRUE /\ g.acct = e /\ g.paid = paid BY <1>0 DEF Given, Outcome
<1>5. CountsCurrent(e) BY <1>1 DEF Current, CountsCurrent
<1>6. day \in Nat BY SoundNow
<1>7. AcctOK(a) /\ Same(e, a, {"counts"}) /\ Onward(e, a)
  BY <1>0, <1>1, <1>4, <1>5, <1>6, CountsClaimed
<1>12. PICK S : PaysOthers(g, r, S) /\ PaysOnce(e, a, S)
  BY <1>0, <1>1, <1>4, <1>5, <1>6, CountsClaimed
<1>8. r.acct = a /\ r.paid = paid (+) SetToBag(S) BY <1>0, <1>4, <1>12 DEF PaysOthers
<1>9. KeepsWritten(e, a) BY <1>2, <1>7, OnwardKeeps
<1>10. Quiet(a)
  <2>1. a.missions = e.missions BY <1>7 DEF Same, AcctFields
  <2>2. \A m \in ToCount : Counted(a, m) = Counted(e, m) BY <2>1, SameMissionsCount DEF ToCount
  <2>3. MailsInOrder(a) BY <1>2, <1>7, OnwardMails DEF Quiet
  <2> QED BY <1>2, <1>7, <2>2, <2>3, QuietStays
<1>11. PaysOnce(e, a, S) /\ \A k \in S : k[1] # "mission" BY <1>12 DEF PaysOthers
<1> QED BY <1>1, <1>3, <1>8, <1>9, <1>10, <1>11, QuietPays

\* A guide is done once.
LEMMA GuidesClaimed ==
    ASSUME NEW r, Outcome(r), NEW e, e = r.acct, AcctOK(e), day \in Nat,
           NEW t, t = claim_guides(r), NEW a, a = t.acct
    PROVE  /\ AcctOK(a) /\ Same(e, a, {"guides"}) /\ KeepsWritten(e, a)
           /\ \E S : PaysOthers(r, t, S) /\ PaysOnce(e, a, S)
<1> DEFINE done == {g \in Guides \ e.guides :
                      /\ GuideMembers(g) # {}
                      /\ \A m \in GuideMembers(g) : received(e, m) = Len(MissionOf[m].steps)}
           new == e.guides \union done
           b == [e EXCEPT !["guides"] = new]
           S == {Reward("guide", g, 0, None) : g \in done}
           u == [r EXCEPT !.acct = b]
<1>0. b = [e EXCEPT !["guides"] = new] /\ u = [r EXCEPT !.acct = b] OBVIOUS
<1>1. t = Pay(u, S)
  <2>1. r.acct = e OBVIOUS
  <2>2. [r EXCEPT !.acct.guides = @ \union done] = u BY <2>1, Zenon
  <2> QED BY <2>1, <2>2, Zenon DEF claim_guides
<1>2. e \in HomeAccts BY DEF AcctOK
<1>3. done \subseteq Guides /\ (\A g \in done : g \notin e.guides) /\ e.guides \subseteq Guides
  BY <1>2, AcctTypes
<1> HIDE DEF done
<1>4. \A k \in S : k[1] = "guide" /\ k[2] \in done /\ k[3] = 0 /\ k[4] = 0
  BY ResetAt DEF Reward, None
<1> HIDE DEF S
<1>5. AcctOK(b) /\ Same(e, b, {"guides"}) /\ b["guides"] = new
  <2>1. AcctType["guides"] = SUBSET Guides /\ "guides" \in AcctFields \ {"missions", "counts"}
    BY DEF AcctType, AcctFields
  <2>2. new \in AcctType["guides"] BY <1>3, <2>1
  <2> HIDE DEF b, u, new
  <2>3. AcctOK(b) BY ONLY AcctOK(e), <1>0, <2>1, <2>2, FieldSet
  <2>4. Same(e, b, {"guides"}) BY ONLY AcctOK(e), <1>0, <2>1, <2>2, FieldSet
  <2>5. b["guides"] = new
    <3>1. DOMAIN e = AcctFields BY <1>2, AcctFunction
    <3> QED BY <1>0, <2>1, <3>1
  <2> QED BY <2>3, <2>4, <2>5
<1> HIDE DEF b, u
<1>6. /\ b.missions = e.missions /\ b.counts = e.counts /\ b.bonuses = e.bonuses
      /\ b.mails = e.mails /\ b.battle_steps = e.battle_steps /\ b.tabs = e.tabs
      /\ b.multi = e.multi /\ b.recipes = e.recipes /\ b.recipe_counts = e.recipe_counts
      /\ b.next_mail_id = e.next_mail_id
  BY <1>5 DEF Same, AcctFields
<1>7. KeepsWritten(e, b)
  <2>1. b \in HomeAccts BY <1>5 DEF AcctOK
  <2>2. /\ \A q \in DOMAIN BattleSteps : e.battle_steps[q] <= b.battle_steps[q]
        /\ \A q \in Tabs : e.tabs[q] <= b.tabs[q]
        /\ e.multi.received <= b.multi.received
    <3>1. /\ \A q \in DOMAIN BattleSteps : e.battle_steps[q] \in Nat
          /\ \A q \in Tabs : e.tabs[q] \in Nat
          /\ e.multi.received \in Nat
      BY <1>2, AcctTypes
    <3> QED BY <1>6, <3>1
  <2>3. e.guides \subseteq b.guides BY <1>5
  <2> QED BY <1>2, <1>6, <2>1, <2>2, <2>3, StepsKept
<1>8. PaysOnce(e, b, S)
  <2> SUFFICES ASSUME NEW k \in S
               PROVE  k[3] \in Nat /\ k[4] \in Nat /\ ~Written(e, k) /\ Written(b, k)
    BY Zenon DEF PaysOnce
  <2>1. ~Written(e, k) BY <1>3, <1>4 DEF Written, StepsWritten
  <2>2. Written(b, k) BY <1>4, <1>5 DEF Written, StepsWritten, RecordsWritten, BonusesWritten
  <2> QED BY <1>4, <2>1, <2>2
<1>9. Outcome(u) /\ u.ok = r.ok /\ u.acct = b /\ u.paid = r.paid BY <1>0, AcctSet
<1>10. Outcome(t) /\ t.ok = r.ok /\ t.acct = b /\ t.paid = r.paid (+) SetToBag(S)
  BY <1>1, <1>9, PayIs
<1>11. \A k \in S : k[1] # "mission" BY <1>4
<1>12. PaysOthers(r, t, S) BY <1>10, <1>11 DEF PaysOthers
<1> QED BY <1>5, <1>7, <1>8, <1>10, <1>12

\* Steps of a mission that its count reaches were earned.
LEMMA StepsEarned ==
    ASSUME HomeIInv, NEW e, Quiet(e), Current(e), Projected(e), NEW m \in Missions, mission_active(m),
           NEW index \in Nat, NEW to, to \in Nat,
           to \in Reachable(MissionOf[m].steps, index, mission_count(e, m)),
           NEW S, S = Steps("mission", m, index, to, MissionOf[m].cycle)
    PROVE  Earned(S, Seen(happened.events))
<1> DEFINE ev == happened.events
           more == Seen(ev)
           rule == MissionOf[m]
           steps == rule.steps
           count == mission_count(e, m)
<1>1. day \in Nat /\ EventsOK(ev) /\ EventsOK(more) /\ NoLess(ev, more)
  BY SoundNow
<1>2. e \in HomeAccts BY DEF Quiet, AcctOK
<1>3. Len(steps) \in Nat /\ \A i \in 1..Len(steps) : steps[i] \in Nat BY LastStep
<1>4. to <= Len(steps) /\ \A j \in (index + 1)..to : steps[j] <= count
  <2>1. to \in {i \in index..Len(steps) : \A j \in (index + 1)..i : steps[j] <= count}
    BY Zenon DEF Reachable
  <2> HIDE DEF steps, count
  <2> QED BY <2>1
<1> HIDE DEF count
<1>5. (rule.task = None /\ ~rule.nav) =>
        /\ DoneIn(more, rule, Cycle(m)) \in Nat
        /\ \A j \in 1..Len(steps) : steps[j] <= count => steps[j] <= DoneIn(more, rule, Cycle(m))
  <2> SUFFICES ASSUME rule.task = None, ~rule.nav
               PROVE  /\ DoneIn(more, rule, Cycle(m)) \in Nat
                      /\ \A j \in 1..Len(steps) :
                            steps[j] <= count => steps[j] <= DoneIn(more, rule, Cycle(m))
    OBVIOUS
  <2>1. m \in ToCount BY DEF ToCount
  <2>2. Counted(e, m) = Min({DoneIn(more, rule, Cycle(m)), Last(steps)})
    BY <2>1, Zenon DEF Quiet, Kept, Cycle
  <2>3. m \in DOMAIN e.missions /\ e.missions[m].reset = Cycle(m) BY DEF Current
  <2>4. Existing(e, m) = e.missions[m] BY <2>3 DEF Existing
  <2>5. mission_state(m, Existing(e, m)) = Existing(e, m) BY <2>3, <2>4, StateStays
  <2>6. count = Counted(e, m) BY <2>5, Zenon DEF count, mission_count, Counted
  <2>7. DoneIn(more, rule, Cycle(m)) \in Nat BY <1>1, DoneNat
  <2>8. Last(steps) \in Nat BY LastStep
  <2> HIDE DEF rule, steps, more
  <2>9. count \in Nat /\ count <= DoneIn(more, rule, Cycle(m)) BY <2>2, <2>6, <2>7, <2>8, MinOfTwo
  <2> QED BY <1>3, <2>7, <2>9
<1>6. (rule.task # None /\ StateBacked(rule.task)) =>
        /\ TaskDone(more, rule.task) \in Nat
        /\ \A j \in 1..Len(steps) : steps[j] <= count => steps[j] <= TaskDone(more, rule.task)
  <2> SUFFICES ASSUME rule.task # None, StateBacked(rule.task)
               PROVE  /\ TaskDone(more, rule.task) \in Nat
                      /\ \A j \in 1..Len(steps) :
                            steps[j] <= count => steps[j] <= TaskDone(more, rule.task)
    OBVIOUS
  <2> DEFINE t == rule.task
  <2>1. t \in Tasks BY MissionsAssumption
  <2>2. count = e.tasks[t] BY DEF count, mission_count
  <2>3. e.tasks[t] = state_counter_total(e, t) BY <2>1 DEF Projected
  <2>4. ResourcesCounted(e, ev)
    <3>1. e.items = acct.items /\ e.clears = acct.clears BY DEF Quiet
    <3>2. \A s : Total(e, s) = Total(acct, s) BY <3>1, TotalsSame
    <3>3. ResourcesCounted(acct, ev) BY SoundNow
    <3> QED BY <3>2, <3>3, Zenon DEF ResourcesCounted
  <2> HIDE DEF t, ev, more
  <2>5. TaskDone(ev, t) = state_counter_total(e, t) BY <1>1, <1>2, <2>1, <2>4, TaskDoneTotal DEF t
  <2>6. TaskDone(ev, t) <= TaskDone(more, t) /\ TaskDone(ev, t) \in Nat /\ TaskDone(more, t) \in Nat
    BY <1>1, <2>1, TaskDoneOrder
  <2>7. count \in Nat /\ count <= TaskDone(more, t) BY <2>2, <2>3, <2>5, <2>6
  <2> HIDE DEF steps
  <2> QED BY <1>3, <2>6, <2>7 DEF t
<1>7. ASSUME NEW k \in S
      PROVE  k[2] = m /\ k[3] \in 1..Len(steps) /\ k[4] = Cycle(m) /\ steps[k[3]] <= count
  <2>1. /\ k[2] = m /\ k[4] = reset_at(rule.cycle, day)
        /\ k[3] \in Nat \ {0} /\ index < k[3] /\ k[3] <= to
    BY <1>1, StepsAre
  <2> QED BY <1>3, <1>4, <2>1 DEF Cycle
<1> HIDE DEF more, ev
<1> SUFFICES ASSUME NEW k \in S
             PROVE  /\ k[2] \in Missions /\ k[3] \in 1..Len(MissionOf[k[2]].steps)
                    /\ (MissionOf[k[2]].task = None /\ ~MissionOf[k[2]].nav) =>
                            DoneIn(more, MissionOf[k[2]], k[4]) >= MissionOf[k[2]].steps[k[3]]
                    /\ (MissionOf[k[2]].task # None /\ StateBacked(MissionOf[k[2]].task)) =>
                            TaskDone(more, MissionOf[k[2]].task) >= MissionOf[k[2]].steps[k[3]]
  BY Zenon DEF Earned, more, ev
<1>8. k[2] = m /\ k[3] \in 1..Len(steps) /\ k[4] = Cycle(m) /\ steps[k[3]] <= count BY <1>7
<1>9. steps[k[3]] \in Nat BY <1>3, <1>8
<1>10. (rule.task = None /\ ~rule.nav) => DoneIn(more, rule, k[4]) >= steps[k[3]]
  <2> HIDE DEF rule, steps
  <2> QED BY <1>5, <1>8, <1>9
<1>11. (rule.task # None /\ StateBacked(rule.task)) => TaskDone(more, rule.task) >= steps[k[3]]
  <2> HIDE DEF rule, steps
  <2> QED BY <1>6, <1>8, <1>9
<1> QED BY <1>8, <1>10, <1>11, Zenon DEF steps, rule

MissionKeys == {"mission"} \X Missions \X Nat \X Nat

\* Rewards that may have been paid after some claims: once each.
PaidBags == {paid} \union UNION {[K -> {1}] : K \in SUBSET (DOMAIN paid \union MissionKeys)}

\* What claims of missions make of an account that has entered, and what they pay.
ClaimOK(r) ==
    /\ Quiet(r.acct) /\ Current(r.acct) /\ Projected(r.acct)
    /\ Ledger(r.acct, r.paid) /\ Earned(DOMAIN r.paid, Seen(happened.events))

Claims == {r \in [ok: BOOLEAN, acct: HomeAccts, paid: PaidBags] : ClaimOK(r)}

LEMMA ClaimsAre ==
    ASSUME NEW r \in Claims
    PROVE  /\ Outcome(r) /\ r.ok \in BOOLEAN /\ r.acct \in HomeAccts /\ r.paid \in PaidBags
           /\ ClaimOK(r) /\ DOMAIN r.paid \subseteq DOMAIN paid \union MissionKeys
<1>1. r \in [ok: BOOLEAN, acct: HomeAccts, paid: PaidBags] /\ ClaimOK(r) BY DEF Claims
<1>2. DOMAIN r.paid \subseteq DOMAIN paid \union MissionKeys BY <1>1 DEF PaidBags
<1> QED BY <1>1, <1>2 DEF Outcome

LEMMA ClaimsEntered ==
    ASSUME HomeIInv, NEW e, e = Entering(TRUE).acct
    PROVE  Given(e, paid) \in Claims
<1>1. AcctOK(e) /\ Current(e) /\ Projected(e) /\ Ledger(e, paid) BY EnteringIs
<1>2. Quiet(e) BY EnteredQuiet
<1>3. Earned(DOMAIN paid, Seen(happened.events)) BY SoundNow
<1> DEFINE r == Given(e, paid)
<1>4. r \in [ok: BOOLEAN, acct: HomeAccts, paid: PaidBags] /\ r.acct = e /\ r.paid = paid
  BY <1>1 DEF Given, PaidBags, AcctOK
<1> HIDE DEF r
<1>5. ClaimOK(r) BY <1>1, <1>2, <1>3, <1>4 DEF ClaimOK
<1> QED BY <1>4, <1>5 DEF Claims, r

\* The steps of a mission are given once, in order, and not before they are earned.
LEMMA MissionPaid ==
    ASSUME HomeIInv, NEW r \in Claims, NEW e, e = r.acct, NEW m \in Missions, mission_active(m),
           NEW index, index = received(e, m), NEW to, to \in Nat,
           to \in Reachable(MissionOf[m].steps, index, mission_count(e, m)),
           NEW S, S = Steps("mission", m, index, to, MissionOf[m].cycle),
           NEW new, new = [e.missions EXCEPT ![m].received = to],
           NEW b, b = [e EXCEPT !["missions"] = new],
           NEW u, u = [r EXCEPT !.acct = b], NEW t, t = Pay(u, S)
    PROVE  t \in Claims
<1> DEFINE old == e.missions
           bag == r.paid (+) SetToBag(S)
<1>1. /\ Outcome(r) /\ r.ok \in BOOLEAN /\ e \in HomeAccts /\ r.paid \in PaidBags
      /\ ClaimOK(r) /\ DOMAIN r.paid \subseteq DOMAIN paid \union MissionKeys
  BY ClaimsAre
<1>2. /\ Quiet(e) /\ Current(e) /\ Projected(e)
      /\ Ledger(e, r.paid) /\ Earned(DOMAIN r.paid, Seen(happened.events))
  BY <1>1 DEF ClaimOK
<1>3. day \in Nat /\ AcctOK(e) BY <1>2, SoundNow DEF Quiet
<1>4. m \in DOMAIN old /\ old[m].reset = Cycle(m) BY <1>2 DEF Current
<1>5. \A n \in DOMAIN old : /\ n \in Missions /\ RecordOK(n, old[n])
                            /\ old[n].reset \in Nat /\ old[n].received \in Nat
                            /\ old[n].reset <= Cycle(n)
  <2>1. \A n \in DOMAIN old : old[n].reset <= Cycle(n) BY <1>3 DEF AcctOK, Timely, Cycle
  <2> QED BY <1>1, <2>1, RecordTypes
<1>6. index = old[m].received /\ index \in Nat BY <1>4, <1>5 DEF received, Existing
<1>7. index <= to /\ to <= Len(MissionOf[m].steps)
  <2>1. to \in index..Len(MissionOf[m].steps) BY DEF Reachable
  <2> QED BY <1>6, <2>1, LastStep
<1>8. Earned(S, Seen(happened.events)) BY <1>2, <1>6, StepsEarned
<1>9. \A k \in S : /\ k[1] = "mission" /\ k[2] = m /\ k[4] = Cycle(m) /\ k[4] \in Nat
                   /\ k[3] \in Nat /\ index < k[3] /\ k[3] <= to
  BY <1>3, <1>6, StepsAre DEF Cycle
<1>10. S \subseteq MissionKeys
  <2>1. \A k \in S : k = <<k[1], k[2], k[3], k[4]>> BY DEF Steps, Reward
  <2>2. ASSUME NEW k \in S PROVE k \in MissionKeys
    <3>1. /\ k = <<k[1], k[2], k[3], k[4]>> /\ k[1] \in {"mission"} /\ k[2] \in Missions
          /\ k[3] \in Nat /\ k[4] \in Nat
      BY <1>9, <2>1
    <3> QED BY ONLY <3>1 DEF MissionKeys
  <2> QED BY <2>2
<1>11. /\ AsTable(new) /\ DOMAIN new = DOMAIN old
       /\ \A n \in DOMAIN old : n # m => new[n] = old[n]
       /\ new[m] = [old[m] EXCEPT !.received = to]
  <2>1. old = [n \in DOMAIN old |-> old[n]] BY <1>1, AcctTypes, MissionRecordsAre
  <2> HIDE DEF old
  <2> QED BY <1>4, <2>1 DEF AsTable, old
<1> HIDE DEF old
<1>12. /\ RecordOK(m, new[m]) /\ new[m].received = to
       /\ new[m].reset = old[m].reset /\ new[m].count = old[m].count
  <2>1. old[m] \in Record BY <1>4, <1>5 DEF RecordOK
  <2>2. /\ new[m] \in Record /\ new[m].received = to
        /\ new[m].reset = old[m].reset /\ new[m].count = old[m].count
    BY <1>11, <2>1 DEF Record
  <2> QED BY <1>4, <1>5, <1>7, <2>2 DEF RecordOK
<1>13. MissionsOK(new)
  <2>1. \A n \in DOMAIN new : RecordOK(n, new[n]) /\ new[n].reset <= Cycle(n)
    BY <1>4, <1>5, <1>11, <1>12
  <2> QED BY <1>5, <1>11, <2>1 DEF MissionsOK
<1>14. AcctOK(b) BY <1>3, <1>13, MissionsSet
<1>15. Same(e, b, {"missions"})
  BY ONLY <1>3, <1>13, b = [e EXCEPT !["missions"] = new], MissionsSet
<1>16. b["missions"] = new
  <2>1. DOMAIN e = AcctFields BY <1>1, AcctFunction
  <2> QED BY <2>1 DEF AcctFields
<1>17. /\ b.counts = e.counts /\ b.bonuses = e.bonuses /\ b.mails = e.mails
       /\ b.tabs = e.tabs /\ b.battle_steps = e.battle_steps /\ b.guides = e.guides
       /\ b.multi = e.multi /\ b.recipes = e.recipes /\ b.recipe_counts = e.recipe_counts
       /\ b.next_mail_id = e.next_mail_id /\ b.tasks = e.tasks
       /\ b.items = e.items /\ b.clears = e.clears
  BY <1>15 DEF Same, AcctFields
<1>18. Onward(e, b)
  <2>1. ASSUME NEW n \in DOMAIN e.missions
        PROVE  n \in DOMAIN b.missions /\ Ahead(e.missions[n], b.missions[n])
    <3>1. n \in DOMAIN b.missions BY <1>11, <1>16 DEF old
    <3>2. CASE n = m BY <1>5, <1>6, <1>7, <1>12, <1>16, <3>1, <3>2 DEF Ahead, old
    <3>3. CASE n # m BY <1>1, <1>11, <1>16, <3>1, <3>3, AheadSelf DEF old
    <3> QED BY <3>2, <3>3
  <2>2. \A c \in DOMAIN e.counts : c \in DOMAIN b.counts /\ Ahead(e.counts[c], b.counts[c])
    BY <1>1, <1>17, AheadSelf
  <2> QED BY <1>14, <1>17, <2>1, <2>2 DEF Onward, AcctOK
<1>19. KeepsWritten(e, b) BY <1>1, <1>18, OnwardKeeps
<1>20. PaysOnce(e, b, S)
  <2> SUFFICES ASSUME NEW k \in S
               PROVE  k[3] \in Nat /\ k[4] \in Nat /\ ~Written(e, k) /\ Written(b, k)
    BY Zenon DEF PaysOnce
  <2>1. ~Written(e, k)
    <3> SUFFICES ASSUME Written(e, k) PROVE FALSE OBVIOUS
    <3>1. Behind(k[3], k[4], e.missions[m]) BY <1>9 DEF Written, RecordsWritten
    <3> QED BY <1>4, <1>6, <1>9, <3>1 DEF Behind, old
  <2>2. Written(b, k)
    <3>1. m \in DOMAIN b.missions /\ Behind(k[3], k[4], b.missions[m])
      <4>1. /\ k[4] = Cycle(m) /\ k[4] \in Nat /\ k[3] \in Nat /\ k[3] <= to
            /\ new[m].reset = Cycle(m) /\ new[m].received = to
        BY <1>4, <1>9, <1>12
      <4>2. m \in DOMAIN b.missions /\ b.missions[m] = new[m] BY <1>4, <1>11, <1>16
      <4> QED BY ONLY <4>1, <4>2 DEF Behind
    <3> QED BY <1>9, <3>1 DEF Written, StepsWritten, RecordsWritten, BonusesWritten
  <2> QED BY <1>9, <2>1, <2>2
<1>21. \A n \in Missions : Counted(b, n) = Counted(e, n)
  <2>1. ASSUME NEW n \in Missions PROVE Counted(b, n) = Counted(e, n)
    <3>1. CASE n = m
      <4>1. Existing(b, m) = new[m] /\ Existing(e, m) = old[m]
        BY <1>4, <1>11, <1>16 DEF Existing, old
      <4>2. mission_state(m, new[m]) = new[m] /\ mission_state(m, old[m]) = old[m]
        BY <1>4, <1>12, StateStays
      <4> QED BY <1>12, <3>1, <4>1, <4>2 DEF Counted
    <3>2. CASE n # m
      <4>1. Existing(b, n) = Existing(e, n) BY <1>11, <1>16, <3>2 DEF Existing, old
      <4> QED BY <4>1, Zenon DEF Counted
    <3> QED BY <3>1, <3>2
  <2> QED BY <2>1
<1>22. Quiet(b)
  <2>1. MailsInOrder(b) BY <1>2, <1>18, OnwardMails DEF Quiet
  <2>2. \A n \in ToCount : Counted(b, n) = Counted(e, n) BY <1>21 DEF ToCount
  <2> QED BY <1>2, <1>14, <1>15, <2>1, <2>2, QuietStays
<1>23. Current(b)
  <2>1. ASSUME NEW n \in Missions, mission_active(n)
        PROVE  n \in DOMAIN b.missions /\ b.missions[n].reset = Cycle(n)
    <3>1. n \in DOMAIN old /\ old[n].reset = Cycle(n) BY <1>2, <2>1 DEF Current, old
    <3> QED BY <1>4, <1>11, <1>12, <1>16, <3>1
  <2>2. \A c \in DOMAIN b.counts : b.counts[c].reset = reset_at(CountSteps[c].cycle, day)
    BY <1>2, <1>17 DEF Current
  <2> QED BY <2>1, <2>2 DEF Current
<1>24. Projected(b)
  <2>1. \A x : state_counter_total(b, x) = state_counter_total(e, x)
    BY ONLY <1>17, TotalsSame
  <2> QED BY ONLY <1>2, <1>17, <2>1 DEF Projected
<1>25. Ledger(b, bag) /\ DOMAIN bag = DOMAIN r.paid \union S BY <1>2, <1>19, <1>20, LedgerPaid
<1>26. Earned(DOMAIN bag, Seen(happened.events)) BY <1>2, <1>8, <1>25, EarnedMore
<1>27. bag \in PaidBags
  <2>1. bag = [k \in DOMAIN bag |-> bag[k]] BY DEF (+)
  <2>2. \A k \in DOMAIN bag : bag[k] = 1 BY <1>25 DEF Ledger
  <2>3. DOMAIN bag \subseteq DOMAIN paid \union MissionKeys BY <1>1, <1>10, <1>25
  <2> HIDE DEF bag
  <2>4. bag \in [DOMAIN bag -> {1}] BY <2>1, <2>2
  <2> QED BY <2>3, <2>4 DEF PaidBags
<1>28. Outcome(u) /\ u.ok = r.ok /\ u.acct = b /\ u.paid = r.paid BY <1>1, AcctSet
<1>29. t.ok = r.ok /\ t.acct = b /\ t.paid = bag
  <2>1. Outcome(t) /\ t.ok = u.ok /\ t.acct = u.acct /\ t.paid = u.paid (+) SetToBag(S)
    BY ONLY <1>28, t = Pay(u, S), PayIs
  <2> QED BY ONLY <1>28, <2>1
<1>30. t \in [ok: BOOLEAN, acct: HomeAccts, paid: PaidBags]
  <2>1. r \in [ok: BOOLEAN, acct: HomeAccts, paid: PaidBags] BY DEF Claims
  <2>2. b \in HomeAccts BY <1>14 DEF AcctOK
  <2>3. u \in [ok: BOOLEAN, acct: HomeAccts, paid: PaidBags] BY <2>1, <2>2
  <2>4. t = [u EXCEPT !.paid = bag] BY <1>28 DEF Pay
  <2> HIDE DEF bag
  <2> QED BY <1>27, <2>3, <2>4
<1>31. ClaimOK(t) BY <1>22, <1>23, <1>24, <1>25, <1>26, <1>29 DEF ClaimOK
<1> QED BY <1>30, <1>31 DEF Claims

LEMMA MissionClaimed ==
    ASSUME HomeIInv, NEW r \in Claims, NEW m \in Missions, NEW bulk \in BOOLEAN,
           NEW t, t = ClaimMission(r, m, bulk)
    PROVE  t \in Claims
<1> DEFINE rule == MissionOf[m]
           e == r.acct
           index == received(e, m)
           reached == Reachable(rule.steps, index, mission_count(e, m))
           to == IF bulk THEN Max(reached) ELSE index + 1
           open == /\ mission_active(m) /\ m \in DOMAIN e.missions
                   /\ rule.prev # None =>
                        received(e, rule.prev) >= Len(MissionOf[rule.prev].steps)
           S == Steps("mission", m, index, to, rule.cycle)
           new == [e.missions EXCEPT ![m].received = to]
           b == [e EXCEPT !["missions"] = new]
           u == [r EXCEPT !.acct = b]
<1>1. t = IF ~open THEN Refused(r)
          ELSE IF index >= Len(rule.steps) THEN r
          ELSE IF to \notin reached THEN Refused(r)
          ELSE Pay([r EXCEPT !.acct.missions[m].received = to], S)
  BY Zenon DEF ClaimMission
<1>2. [r EXCEPT !.acct.missions[m].received = to] = u BY Zenon
<1>3. Refused(r) \in Claims
  <2> DEFINE x == Refused(r)
  <2>1. r \in [ok: BOOLEAN, acct: HomeAccts, paid: PaidBags] /\ ClaimOK(r) BY DEF Claims
  <2>2. x \in [ok: BOOLEAN, acct: HomeAccts, paid: PaidBags] /\ x.acct = r.acct /\ x.paid = r.paid
    BY <2>1 DEF Refused
  <2> HIDE DEF x
  <2>3. ClaimOK(x) BY <2>1, <2>2 DEF ClaimOK
  <2> QED BY <2>2, <2>3 DEF Claims, x
<1>4. ASSUME open, to \in reached PROVE Pay(u, S) \in Claims
  <2>1. mission_active(m) BY <1>4
  <2>2. e \in HomeAccts /\ Quiet(e) BY ClaimsAre DEF ClaimOK
  <2>3. to \in Nat
    <3>1. day \in Nat /\ Timely(e) BY <2>2, SoundNow DEF Quiet, AcctOK
    <3>2. RecordOK(m, Existing(e, m)) BY <2>2, <3>1, ExistingOK
    <3>3. index \in Nat BY <3>2 DEF received, RecordOK, Record
    <3>4. to \in index..Len(rule.steps) BY <1>4, Zenon DEF Reachable
    <3>5. Len(rule.steps) \in Nat BY LastStep
    <3> HIDE DEF to, index, rule
    <3> QED BY <3>3, <3>4, <3>5
  <2> DEFINE x == to
             i == index
             v == u
             w == b
             z == new
             p == Pay(u, S)
  <2>4. /\ i = received(e, m) /\ x \in Nat
        /\ x \in Reachable(MissionOf[m].steps, i, mission_count(e, m))
        /\ S = Steps("mission", m, i, x, MissionOf[m].cycle)
        /\ z = [e.missions EXCEPT ![m].received = x] /\ w = [e EXCEPT !["missions"] = z]
        /\ v = [r EXCEPT !.acct = w] /\ p = Pay(v, S) /\ e = r.acct
    BY <1>4, <2>3, Zenon
  <2>5. p = Pay(u, S) OBVIOUS
  <2> HIDE DEF x, i, v, w, z, p, to, index, reached, u, b, new, S, e
  <2>6. p \in Claims BY <2>1, <2>4, MissionPaid
  <2> QED BY <2>5, <2>6
<1> HIDE DEF open, to, reached, u, S, index
<1> QED BY <1>1, <1>2, <1>3, <1>4, Zenon

LEMMA DeepestIs ==
    ASSUME NEW ms, ms \subseteq Missions, ms # {}
    PROVE  Deepest(ms) \in ms
<1> DEFINE depths == {Depth(n) : n \in ms}
           C == Cardinality(Missions)
<1>1. IsFiniteSet(ms) /\ ms \subseteq Nat BY FS_Subset, MissionsAssumption
<1>2. ASSUME NEW n \in ms PROVE Depth(n) \in Nat
  <2> DEFINE prevs == CHOOSE p : p = [i \in 0..C |->
                IF i = 0 THEN n
                ELSE IF p[i - 1] = None THEN None ELSE MissionOf[p[i - 1]].prev]
             D == {i \in 0..C : prevs[i] # None}
  <2>1. Depth(n) = Cardinality(D) BY Zenon DEF Depth
  <2>2. IsFiniteSet(0..C) BY FS_Interval, FS_CardinalityType, MissionsAssumption
  <2>3. D \subseteq 0..C OBVIOUS
  <2> HIDE DEF D
  <2>4. IsFiniteSet(D) BY <2>2, <2>3, FS_Subset
  <2> QED BY <2>1, <2>4, FS_CardinalityType
<1>3. IsFiniteSet(depths)
  <2> DEFINE f == [n \in ms |-> Depth(n)]
  <2>1. depths = {f[n] : n \in ms} OBVIOUS
  <2> HIDE DEF f, depths
  <2> QED BY <1>1, <2>1, FiniteImage
<1>4. depths \subseteq Nat /\ depths # {} BY <1>2
<1>5. PICK d \in depths : \A x \in depths : x <= d BY <1>3, <1>4, GreatestNumber
<1> DEFINE T == {n \in ms : Depth(n) = d}
<1>6. T # {} /\ T \subseteq ms BY <1>5
<1>7. IsFiniteSet(T) /\ T \subseteq Nat BY <1>1, <1>6, FS_Subset
<1>8. PICK m \in T : \A n \in T : n <= m BY <1>6, <1>7, GreatestNumber
<1>9. m \in ms /\ \A n \in ms : Depth(n) < Depth(m) \/ (Depth(n) = Depth(m) /\ n <= m)
  <2>1. m \in ms /\ Depth(m) = d BY <1>8
  <2>2. ASSUME NEW n \in ms
        PROVE  Depth(n) < Depth(m) \/ (Depth(n) = Depth(m) /\ n <= m)
    <3>1. Depth(n) <= d /\ Depth(n) \in Nat /\ d \in Nat BY <1>2, <1>4, <1>5
    <3>2. CASE Depth(n) = d BY <1>8, <2>1, <3>2
    <3>3. CASE Depth(n) # d
      <4> DEFINE x == Depth(n)
      <4>1. x <= d /\ x \in Nat /\ d \in Nat /\ x # d BY <3>1, <3>3
      <4> HIDE DEF x
      <4>2. x < d BY <4>1
      <4> QED BY <2>1, <4>2 DEF x
    <3> QED BY <3>2, <3>3
  <2> QED BY <2>1, <2>2
<1> QED BY <1>9, Zenon DEF Deepest

ClaimStep(t, m, bulk) == IF t.ok THEN ClaimMission(t, m, bulk) ELSE t

ClaimTable(r, bulk, ids, h) ==
    /\ h[{}] = r
    /\ \A T \in SUBSET ids : T # {} => h[T] = ClaimStep(h[T \ {Deepest(T)}], Deepest(T), bulk)

ClaimAll(r, ids, bulk) ==
    MapThenFoldSet(LAMBDA m, t : IF t.ok THEN ClaimMission(t, m, bulk) ELSE t, r,
                   LAMBDA m : m, LAMBDA ms : Deepest(ms), ids)

LEMMA StepClaimed ==
    ASSUME HomeIInv, NEW r \in Claims, NEW m \in Missions, NEW bulk \in BOOLEAN
    PROVE  ClaimStep(r, m, bulk) \in Claims
BY MissionClaimed DEF ClaimStep

LEMMA ClaimFold ==
    ASSUME HomeIInv, NEW r \in Claims, NEW ids, ids \subseteq Missions, NEW bulk \in BOOLEAN
    PROVE  \E h : ClaimTable(r, bulk, ids, h) /\ ClaimAll(r, ids, bulk) = h[ids]
<1> DEFINE step == [p \in Claims \X ids |-> ClaimStep(p[1], p[2], bulk)]
           pick == [T \in SUBSET ids |-> Deepest(T)]
           R(h) == h = [T \in SUBSET ids |->
                IF T = {} THEN r
                ELSE LET x == Deepest(T)
                     IN  IF h[T \ {x}].ok THEN ClaimMission(h[T \ {x}], x, bulk) ELSE h[T \ {x}]]
<1>1. \A T \in SUBSET ids : T # {} => Deepest(T) \in T
  <2>1. \A T \in SUBSET ids : T \subseteq Missions OBVIOUS
  <2> QED BY <2>1, DeepestIs
<1>2. IsFoldStep(step, Claims, ids)
  <2>1. ASSUME NEW b \in Claims, NEW n \in ids PROVE ClaimStep(b, n, bulk) \in Claims
    <3>1. n \in Missions OBVIOUS
    <3> QED BY <3>1, StepClaimed
  <2> QED BY <2>1 DEF IsFoldStep
<1>4. PICK c : IsFold(r, step, pick, Claims, ids, c)
  <2>1. \A T \in SUBSET ids : T # {} => pick[T] \in T BY <1>1
  <2>2. IsFiniteSet(ids) BY FS_Subset, MissionsAssumption
  <2>3. r \in Claims OBVIOUS
  <2> HIDE DEF step, pick
  <2> QED BY ONLY <1>2, <2>1, <2>2, <2>3, SetFoldExists
<1>14. c \in [SUBSET ids -> Claims] /\ \A T \in SUBSET ids : c[T] = FoldStep(r, step, pick, c, T)
  BY <1>4, Zenon DEF IsFold
<1>5. ASSUME NEW T \in SUBSET ids, T # {}
      PROVE  c[T] = ClaimStep(c[T \ {Deepest(T)}], Deepest(T), bulk)
  <2> DEFINE U == T \ {Deepest(T)}
             x == Deepest(T)
  <2>1. c[T] = step[<<c[U], x>>] BY <1>14, <1>5, Zenon DEF FoldStep
  <2>2. x \in ids /\ U \in SUBSET ids BY <1>1, <1>5
  <2>3. c[U] \in Claims BY <1>14, <2>2
  <2> HIDE DEF U, x
  <2>4. step[<<c[U], x>>] = ClaimStep(c[U], x, bulk) BY <2>2, <2>3
  <2>5. c[T] = ClaimStep(c[U], x, bulk) BY <2>1, <2>4
  <2> QED BY <2>5, Zenon DEF U, x
<1>6. c[{}] = r BY <1>14, Zenon DEF FoldStep
<1>7. R(c)
  <2>1. c = [T \in SUBSET ids |-> c[T]] BY <1>14
  <2>2. \A T \in SUBSET ids : c[T] = IF T = {} THEN r
                ELSE LET x == Deepest(T)
                     IN  IF c[T \ {x}].ok THEN ClaimMission(c[T \ {x}], x, bulk) ELSE c[T \ {x}]
    BY <1>5, <1>6, Zenon DEF ClaimStep
  <2> QED BY <2>1, <2>2, Zenon
<1>8. R(CHOOSE h : R(h))
  <2>1. \E h : R(h) BY <1>7, Zenon
  <2> QED BY <2>1, Zenon
<1> DEFINE h == CHOOSE g : R(g)
<1>9. ClaimAll(r, ids, bulk) = h[ids]
  BY Zenon DEF ClaimAll, MapThenFoldSet
<1>10. R(h) BY <1>8, Zenon
<1> HIDE DEF h
<1>11. h = [T \in SUBSET ids |-> IF T = {} THEN r
                ELSE LET x == Deepest(T)
                     IN  IF h[T \ {x}].ok THEN ClaimMission(h[T \ {x}], x, bulk) ELSE h[T \ {x}]]
  BY <1>10, Zenon
<1>12. \A T \in SUBSET ids : h[T] = IF T = {} THEN r
                ELSE LET x == Deepest(T)
                     IN  IF h[T \ {x}].ok THEN ClaimMission(h[T \ {x}], x, bulk) ELSE h[T \ {x}]
  BY <1>11, Zenon
<1>13. ClaimTable(r, bulk, ids, h)
  <2>1. h[{}] = r BY <1>12, Zenon
  <2>2. \A T \in SUBSET ids : T # {} => h[T] = ClaimStep(h[T \ {Deepest(T)}], Deepest(T), bulk)
    BY <1>12, Zenon DEF ClaimStep
  <2> QED BY <2>1, <2>2, Zenon DEF ClaimTable
<1> QED BY <1>9, <1>13, Zenon

LEMMA ClaimedAll ==
    ASSUME HomeIInv, NEW r \in Claims, NEW ids, ids \subseteq Missions, NEW bulk \in BOOLEAN
    PROVE  ClaimAll(r, ids, bulk) \in Claims
<1>1. PICK h : ClaimTable(r, bulk, ids, h) /\ ClaimAll(r, ids, bulk) = h[ids] BY ClaimFold
<1> DEFINE Good == {T \in SUBSET ids : h[T] \in Claims}
<1>2. {} \in Good
  <2>1. h[{}] = r BY <1>1, Zenon DEF ClaimTable
  <2> QED BY <2>1
<1>3. ASSUME NEW T \in SUBSET ids, T # {}
      PROVE  \E x \in T : T \ {x} \in Good => T \in Good
  <2> DEFINE x == Deepest(T)
             U == T \ {x}
  <2>1. h[T] = ClaimStep(h[U], x, bulk) BY <1>1, <1>3, Zenon DEF ClaimTable
  <2>2. x \in T /\ x \in Missions BY <1>3, DeepestIs
  <2>3. SUFFICES ASSUME U \in Good PROVE T \in Good BY <2>2
  <2>4. h[U] \in Claims BY <2>3
  <2> HIDE DEF x, U
  <2>5. h[T] \in Claims BY <2>1, <2>2, <2>4, StepClaimed
  <2> QED BY <2>5
<1>4. \A T \in SUBSET ids : T \in Good
  <2>1. IsFiniteSet(ids) BY FS_Subset, MissionsAssumption
  <2> HIDE DEF Good
  <2> QED BY <1>2, <1>3, <2>1, SubsetInduction
<1>5. ids \in SUBSET ids OBVIOUS
<1> QED BY <1>1, <1>4, <1>5

\* Missions are claimed, one after the other, and what their received steps earn.
LEMMA MissionsKeepHome ==
    ASSUME HomeIInv, NEW ids, ids \subseteq Missions, NEW bulk \in BOOLEAN, mission_receive(ids, bulk)
    PROVE  HomeIInv'
<1> DEFINE e == Entering(TRUE).acct
           g == Given(e, paid)
           s == ClaimAll(g, ids, bulk)
           cs == {MissionOf[m].category :
                    m \in {n \in ids : received(s.acct, n) # received(g.acct, n)}} \intersect Categories
           x == claim_counts(s, cs)
           y == claim_guides(x)
           d == s.acct
           b == x.acct
           a == y.acct
<1>0. /\ e = Entering(TRUE).acct /\ s = ClaimAll(g, ids, bulk) /\ g = Given(e, paid)
      /\ x = claim_counts(s, cs) /\ y = claim_guides(x) /\ d = s.acct /\ b = x.acct /\ a = y.acct
      /\ cs \subseteq Categories
  OBVIOUS
<1>1. Entering(TRUE) = g
  <2> HIDE DEF e
  <2> QED BY <1>0, EnteringIs
<1>2. g \in Claims BY ClaimsEntered
<1>3. reduce_home_inner(IF s.ok THEN y ELSE s, happened)
  <2>1. reduce_home_inner(claim_missions(g, ids, bulk), happened)
    BY <1>1, Zenon DEF mission_receive, HomeRequest
  <2>2. claim_missions(g, ids, bulk) = IF s.ok THEN y ELSE s
    BY Zenon DEF claim_missions, ClaimAll
  <2> QED BY <2>1, <2>2
<1> HIDE DEF e, g, s, cs, x, y, d, b, a
<1>4. s \in Claims BY <1>0, <1>2, ClaimedAll
<1>5. s.ok /\ reduce_home_inner(y, happened)
  <2>1. (IF s.ok THEN y ELSE s).ok BY <1>3, Zenon DEF reduce_home_inner
  <2> QED BY <1>3, <2>1
<1>6. /\ Outcome(s) /\ Quiet(d) /\ Current(d) /\ Ledger(d, s.paid)
      /\ Earned(DOMAIN s.paid, Seen(happened.events))
  BY <1>0, <1>4, ClaimsAre DEF ClaimOK
<1>7. AcctOK(d) /\ CountsCurrent(d) /\ d \in HomeAccts
  BY <1>6 DEF Quiet, Current, CountsCurrent, AcctOK
<1>8. day \in Nat BY SoundNow
<1>9. AcctOK(b) /\ Same(d, b, {"counts"}) /\ Onward(d, b)
  BY <1>0, <1>6, <1>7, <1>8, CountsClaimed
<1>10. PICK S : PaysOthers(s, x, S) /\ PaysOnce(d, b, S)
  BY <1>0, <1>6, <1>7, <1>8, CountsClaimed
<1>11. Outcome(x) /\ x.paid = s.paid (+) SetToBag(S) /\ \A k \in S : k[1] # "mission"
  BY <1>10 DEF PaysOthers
<1>12. AcctOK(a) /\ Same(b, a, {"guides"}) /\ KeepsWritten(b, a)
  BY <1>0, <1>8, <1>9, <1>11, GuidesClaimed
<1>13. PICK R : PaysOthers(x, y, R) /\ PaysOnce(b, a, R)
  BY <1>0, <1>8, <1>9, <1>11, GuidesClaimed
<1>14. Outcome(y) /\ y.paid = x.paid (+) SetToBag(R) /\ \A k \in R : k[1] # "mission"
  BY <1>13 DEF PaysOthers
<1>15. Ledger(b, x.paid) /\ DOMAIN x.paid = DOMAIN s.paid \union S
  <2>1. KeepsWritten(d, b) BY <1>7, <1>9, OnwardKeeps
  <2>2. Ledger(d, s.paid) /\ PaysOnce(d, b, S) BY <1>6, <1>10
  <2>3. /\ Ledger(b, s.paid (+) SetToBag(S))
        /\ DOMAIN (s.paid (+) SetToBag(S)) = DOMAIN s.paid \union S
    BY ONLY <2>1, <2>2, LedgerPaid
  <2> QED BY <1>11, <2>3
<1>16. Ledger(a, y.paid) /\ DOMAIN y.paid = DOMAIN x.paid \union R
  BY <1>12, <1>13, <1>14, <1>15, LedgerPaid
<1>17. Earned(DOMAIN y.paid, Seen(happened.events))
  <2>1. Earned(S, Seen(happened.events)) /\ Earned(R, Seen(happened.events))
    BY <1>11, <1>14, OthersEarned
  <2>2. Earned(DOMAIN s.paid \union S, Seen(happened.events)) BY <1>6, <2>1, EarnedMore
  <2>3. Earned((DOMAIN s.paid \union S) \union R, Seen(happened.events)) BY <2>1, <2>2, EarnedMore
  <2> QED BY <1>15, <1>16, <2>3
<1>18. Quiet(b)
  <2>1. b.missions = d.missions BY <1>9 DEF Same, AcctFields
  <2>2. \A m \in ToCount : Counted(b, m) = Counted(d, m) BY <2>1, SameMissionsCount DEF ToCount
  <2>3. MailsInOrder(b) BY <1>6, <1>9, OnwardMails DEF Quiet
  <2> QED BY <1>6, <1>9, <2>2, <2>3, QuietStays
<1>19. Quiet(a)
  <2>1. /\ a.missions = b.missions /\ a.bonuses = b.bonuses /\ a.mails = b.mails
        /\ a.next_mail_id = b.next_mail_id
    BY <1>12 DEF Same, AcctFields
  <2>2. \A m \in ToCount : Counted(a, m) = Counted(b, m) BY <2>1, SameMissionsCount DEF ToCount
  <2>3. MailsInOrder(a) BY <1>18, <2>1, SameBonuses DEF Quiet
  <2> QED BY <1>12, <1>18, <2>2, <2>3, QuietStays
<1> QED BY <1>0, <1>5, <1>16, <1>17, <1>19, HomeQuiet

-----------------------------------------------------------------------------
(* Skipped quests *)

\* Today's clears and additions are those of the history.
LEMMA EpisodeIs ==
    ASSUME HomeIInv
    PROVE  /\ Episode(acct) \in [day: Int, clears: Nat, additions: Nat] /\ Episode(acct).day = day
           /\ Episode(acct).clears = happened.skips[day]
           /\ Episode(acct).additions = happened.additions[day]
           /\ happened.skips[day] <= MaxDailyClear + happened.additions[day]
<1>1. day \in Days /\ acct \in HomeAccts /\ SkipsCounted(acct, happened) /\ day \in Nat BY SoundNow
<1>2. acct.episode \in [day: Int, clears: Nat, additions: Nat] BY <1>1, AcctTypes
<1>3. CASE acct.episode.day = day BY <1>1, <1>2, <1>3 DEF Episode, SkipsCounted
<1>4. CASE acct.episode.day # day
  <2>1. Episode(acct) = [day |-> day, clears |-> 0, additions |-> 0] BY <1>4 DEF Episode
  <2>2. acct.episode.day <= day /\ acct.episode.day \in Int BY <1>1, <1>2 DEF SkipsCounted
  <2>3. day > acct.episode.day BY <1>1, <1>4, <2>2
  <2>4. happened.skips[day] = 0 /\ happened.additions[day] = 0
    BY <1>1, <2>3 DEF SkipsCounted
  <2> QED BY <1>1, <2>1, <2>4 DEF SkipsCounted
<1> QED BY <1>3, <1>4

LEMMA SkipsGo ==
    ASSUME HomeIInv, NEW a, NEW h, NEW c \in Nat, NEW x \in Nat,
           a.episode.day = day, a.episode.clears = c, a.episode.additions = x,
           h.skips[day] = c, h.additions[day] = x, c <= MaxDailyClear + x,
           \A d \in Days : d # day => h.skips[d] = happened.skips[d] /\ h.additions[d] = happened.additions[d]
    PROVE  SkipsCounted(a, h)
<1>1. day \in Days /\ acct \in HomeAccts /\ SkipsCounted(acct, happened) /\ day \in Nat BY SoundNow
<1>2. acct.episode.day \in Int BY <1>1, AcctTypes
<1>3. Days \subseteq Int BY HomeAssumption DEF Days
<1>4. ASSUME NEW d \in Days
      PROVE  /\ d > day => h.skips[d] = 0 /\ h.additions[d] = 0
             /\ d = day => h.skips[d] = c /\ h.additions[d] = x
             /\ h.skips[d] <= MaxDailyClear + h.additions[d]
  <2>1. CASE d = day BY <1>1, <2>1
  <2>2. CASE d # day
    <3>1. h.skips[d] = happened.skips[d] /\ h.additions[d] = happened.additions[d] BY <2>2
    <3>2. happened.skips[d] <= MaxDailyClear + happened.additions[d] BY <1>1 DEF SkipsCounted
    <3>3. d > day => happened.skips[d] = 0 /\ happened.additions[d] = 0
      <4> SUFFICES ASSUME d > day PROVE happened.skips[d] = 0 /\ happened.additions[d] = 0 OBVIOUS
      <4>1. d > acct.episode.day BY <1>1, <1>2, <1>3 DEF SkipsCounted
      <4> QED BY <1>1, <4>1 DEF SkipsCounted
    <3> QED BY <2>2, <3>1, <3>2, <3>3
  <2> QED BY <2>1, <2>2
<1> QED BY <1>1, <1>4 DEF SkipsCounted

\* Events of a kind are written down for today.
LEMMA HappenIs ==
    ASSUME NEW h, HistoryOK(h), day \in FirstDay..MaxDay, NEW kind, NEW amounts,
           \A n \in DOMAIN amounts : amounts[n] \in Nat, NEW g, g = Happen(h, kind, amounts)
    PROVE  /\ HistoryOK(g) /\ g.memorias = h.memorias
           /\ g.skips = h.skips /\ g.additions = h.additions
           /\ \A c \in Events : \A d \in Days :
                g.events[c][d] = h.events[c][d] + IF d = day /\ c[1] = kind /\ c[2] \in DOMAIN amounts
                                                  THEN amounts[c[2]] ELSE 0
<1> DEFINE ev == h.events
           new == [c \in Events |->
                    IF c[1] = kind /\ c[2] \in DOMAIN amounts
                    THEN [ev[c] EXCEPT ![day] = @ + amounts[c[2]]] ELSE ev[c]]
<1>1. ev \in [Events -> [Days -> Nat]] /\ day \in Days /\ Days \subseteq Int
  BY HomeAssumption DEF HistoryOK, Days
<1>2. h \in [events: [Events -> [Days -> Nat]], memorias: SUBSET Memorias,
             skips: [Days -> Nat], additions: [Days -> Nat]]
  BY DEF HistoryOK
<1>3. g = [h EXCEPT !.events = new] BY Zenon DEF Happen
<1>4. ASSUME NEW c \in Events
      PROVE  /\ new[c] \in [Days -> Nat]
             /\ \A d \in Days :
                  new[c][d] = ev[c][d] + IF d = day /\ c[1] = kind /\ c[2] \in DOMAIN amounts
                                         THEN amounts[c[2]] ELSE 0
  <2>1. ev[c] \in [Days -> Nat] BY <1>1
  <2>2. CASE c[1] = kind /\ c[2] \in DOMAIN amounts
    <3> DEFINE x == amounts[c[2]]
               f == ev[c]
    <3>1. x \in Nat BY <2>2
    <3>2. new[c] = [f EXCEPT ![day] = @ + x] BY <2>2
    <3>3. f \in [Days -> Nat] BY <2>1
    <3> HIDE DEF x, f, new
    <3>4. new[c] \in [Days -> Nat] /\ \A d \in Days : new[c][d] = f[d] + IF d = day THEN x ELSE 0
      BY <1>1, <3>1, <3>2, <3>3
    <3> QED BY <2>2, <3>4 DEF x, f
  <2>3. CASE ~(c[1] = kind /\ c[2] \in DOMAIN amounts)
    <3>1. new[c] = ev[c] BY <2>3
    <3>2. \A d \in Days : ev[c][d] \in Nat BY <2>1
    <3> HIDE DEF new, ev
    <3> QED BY <2>1, <2>3, <3>1, <3>2
  <2> QED BY <2>2, <2>3
<1>5. new = [c \in Events |-> new[c]] OBVIOUS
<1> HIDE DEF new
<1>6. new \in [Events -> [Days -> Nat]] BY <1>4, <1>5
<1>7. /\ g \in [events: [Events -> [Days -> Nat]], memorias: SUBSET Memorias,
                skips: [Days -> Nat], additions: [Days -> Nat]]
      /\ g.events = new /\ g.memorias = h.memorias /\ g.skips = h.skips /\ g.additions = h.additions
  BY <1>2, <1>3, <1>6
<1>8. ASSUME NEW d \in Days, d > day, NEW c \in Events PROVE g.events[c][d] = 0
  <2>1. ev[c][d] = 0 BY <1>8 DEF HistoryOK
  <2>2. d # day BY <1>1, <1>8
  <2> QED BY <1>4, <1>7, <2>1, <2>2
<1>9. HistoryOK(g) BY <1>7, <1>8, Zenon DEF HistoryOK
<1> QED BY <1>4, <1>7, <1>9

\* What n clears of a quest make more of a resource.
Amount(s, q, n) ==
    IF s[1] = "quest_clear" THEN (IF s[2] = q THEN n ELSE 0)
    ELSE (IF s[2] \in DOMAIN DropsOf[q] THEN n * DropsOf[q][s[2]] ELSE 0)

MoreCleared(ev, more, q, n) ==
    /\ EventsOK(more)
    /\ \A s \in Sources : more[s][day] = ev[s][day] + Amount(s, q, n)
    /\ \A c \in Events : \A d \in Days : (d # day \/ c \notin Sources) => more[c][d] = ev[c][d]

LEMMA AmountNat ==
    ASSUME NEW q \in Quests, NEW n \in Nat, NEW s
    PROVE  /\ Amount(s, q, n) \in Nat
           /\ \A i \in DOMAIN DropsOf[q] : n * DropsOf[q][i] \in Nat
<1>1. \A i \in DOMAIN DropsOf[q] : DropsOf[q][i] \in Nat BY CountersAssumption
<1>2. \A i \in DOMAIN DropsOf[q] : n * DropsOf[q][i] \in Nat
  <2>1. \A x \in Nat : n * x \in Nat OBVIOUS
  <2> QED BY <1>1, <2>1
<1> QED BY <1>2 DEF Amount

LEMMA ClearsAre ==
    ASSUME NEW h, HistoryOK(h), day \in FirstDay..MaxDay, NEW q \in Quests, NEW n \in Nat,
           NEW g, g = Clears(h, q, n)
    PROVE  /\ HistoryOK(g) /\ g.memorias = h.memorias
           /\ g.skips = h.skips /\ g.additions = h.additions
           /\ MoreCleared(h.events, g.events, q, n)
<1> DEFINE one == [p \in {q} |-> n]
           drops == [i \in DOMAIN DropsOf[q] |-> n * DropsOf[q][i]]
           f == Happen(h, "quest_clear", one)
           ev == h.events
<1>0. f = Happen(h, "quest_clear", one) /\ g = Happen(f, "item_received", drops) BY DEF Clears
<1>1. DOMAIN one = {q} /\ one[q] = n OBVIOUS
<1>2. /\ DOMAIN drops = DOMAIN DropsOf[q]
      /\ \A i \in DOMAIN drops : drops[i] = n * DropsOf[q][i] /\ drops[i] \in Nat
  BY AmountNat
<1>3. \A i \in DOMAIN one : one[i] \in Nat OBVIOUS
<1> HIDE DEF one, drops, f
<1>4. /\ HistoryOK(f) /\ f.memorias = h.memorias
      /\ f.skips = h.skips /\ f.additions = h.additions
      /\ \A c \in Events : \A d \in Days :
           f.events[c][d] = ev[c][d] + IF d = day /\ c[1] = "quest_clear" /\ c[2] \in DOMAIN one
                                       THEN one[c[2]] ELSE 0
  BY <1>0, <1>3, HappenIs
<1>5. /\ HistoryOK(g) /\ g.memorias = f.memorias
      /\ g.skips = f.skips /\ g.additions = f.additions
      /\ \A c \in Events : \A d \in Days :
           g.events[c][d] = f.events[c][d] + IF d = day /\ c[1] = "item_received" /\ c[2] \in DOMAIN drops
                                             THEN drops[c[2]] ELSE 0
  BY <1>0, <1>2, <1>4, HappenIs
<1>6. EventsOK(ev) /\ EventsOK(g.events) BY <1>5 DEF HistoryOK, EventsOK
<1>7. day \in Days BY HomeAssumption DEF Days
<1>8. ASSUME NEW s \in Sources PROVE g.events[s][day] = ev[s][day] + Amount(s, q, n)
  <2>1. s \in Events /\ (s[1] = "quest_clear" \/ s[1] = "item_received")
    BY SourceKinds, EventsFinite
  <2>2. ev[s][day] \in Nat BY <1>6, <1>7, <2>1 DEF EventsOK
  <2>3. CASE s[1] = "quest_clear"
    <3>1. g.events[s][day] = f.events[s][day] + 0 BY <1>5, <1>7, <2>1, <2>3
    <3>2. f.events[s][day] = ev[s][day] + IF s[2] = q THEN n ELSE 0
      BY <1>1, <1>4, <1>7, <2>1, <2>3
    <3> QED BY <2>2, <2>3, <3>1, <3>2 DEF Amount
  <2>4. CASE s[1] = "item_received"
    <3>1. f.events[s][day] = ev[s][day] + 0 BY <1>4, <1>7, <2>1, <2>4
    <3>2. g.events[s][day] = f.events[s][day] + IF s[2] \in DOMAIN drops THEN drops[s[2]] ELSE 0
      BY <1>5, <1>7, <2>1, <2>4
    <3>3. Amount(s, q, n) = IF s[2] \in DOMAIN drops THEN drops[s[2]] ELSE 0
      BY <1>2, <2>4 DEF Amount
    <3> QED BY <2>2, <3>1, <3>2, <3>3
  <2> QED BY <2>1, <2>3, <2>4
<1>9. ASSUME NEW c \in Events, NEW d \in Days, d # day \/ c \notin Sources
      PROVE  g.events[c][d] = ev[c][d]
  <2>1. ev[c][d] \in Nat BY <1>6 DEF EventsOK
  <2>2. d # day \/ (c[1] # "quest_clear" /\ c[1] # "item_received") BY <1>9, SourceKinds
  <2>3. f.events[c][d] = ev[c][d] + 0 BY <1>4, <2>2
  <2>4. g.events[c][d] = f.events[c][d] + 0 BY <1>5, <2>2
  <2> QED BY <2>1, <2>3, <2>4
<1>10. MoreCleared(ev, g.events, q, n) BY <1>6, <1>8, <1>9, Zenon DEF MoreCleared
<1> QED BY <1>4, <1>5, <1>10

\* The resources of b are those of a and n clears of a quest.
LEMMA ClearedIs ==
    ASSUME NEW a, AcctOK(a), NEW q \in Quests, NEW n \in Nat, NEW b, b = Cleared(a, q, n)
    PROVE  /\ AcctOK(b) /\ Same(a, b, {"clears", "items"})
           /\ \A s \in Sources : Total(b, s) = Total(a, s) + Amount(s, q, n)
<1> DEFINE clears == [a.clears EXCEPT ![q] = @ + n]
           items == [i \in Items |-> a.items[i] + IF i \in DOMAIN DropsOf[q] THEN n * DropsOf[q][i] ELSE 0]
<1>1. a \in HomeAccts /\ Timely(a) BY DEF AcctOK
<1>2. a.clears \in [Quests -> Nat] /\ a.items \in [Items -> Nat] BY <1>1, AcctTypes
<1>3. DOMAIN a = AcctFields /\ a = [f \in AcctFields |-> a[f]] BY <1>1, AcctFunction
<1>4. b = [a EXCEPT !.clears = clears, !.items = items] BY Zenon DEF Cleared
<1>5. clears \in [Quests -> Nat] /\ \A p \in Quests : clears[p] = a.clears[p] + IF p = q THEN n ELSE 0
  BY <1>2
<1>6. \A i \in DOMAIN DropsOf[q] : n * DropsOf[q][i] \in Nat BY AmountNat
<1>7. /\ items \in [Items -> Nat]
      /\ \A i \in Items :
            items[i] = a.items[i] + IF i \in DOMAIN DropsOf[q] THEN n * DropsOf[q][i] ELSE 0
  BY <1>2, <1>6
<1> HIDE DEF clears, items
<1>8. Same(a, b, {"clears", "items"}) /\ b.clears = clears /\ b.items = items
  BY <1>3, <1>4 DEF Same, AcctFields
<1>9. b \in HomeAccts
  <2>1. AcctType["clears"] = [Quests -> Nat] /\ AcctType["items"] = [Items -> Nat] BY DEF AcctType
  <2>2. \A f \in {"clears", "items"} : b[f] \in AcctType[f] BY <1>5, <1>7, <1>8, <2>1
  <2> QED BY <1>1, <1>8, <2>2, AcctUpdate
<1>10. b.missions = a.missions /\ b.counts = a.counts BY <1>8 DEF Same, AcctFields
<1>11. AcctOK(b) BY <1>9, <1>10, SameTimely
<1>12. ASSUME NEW s \in Sources PROVE Total(b, s) = Total(a, s) + Amount(s, q, n)
  <2>1. s \in Events /\ (s[1] = "quest_clear" \/ s[1] = "item_received")
    BY SourceKinds, EventsFinite
  <2>2. CASE s[1] = "quest_clear"
    <3>1. s[2] \in Quests BY <2>1, <2>2, SourceKinds
    <3> QED BY <1>5, <1>8, <2>2, <3>1 DEF Total, Amount
  <2>3. CASE s[1] = "item_received"
    <3>1. s[2] \in Items BY <2>1, <2>3, SourceKinds
    <3> QED BY <1>7, <1>8, <2>3, <3>1 DEF Total, Amount
  <2> QED BY <2>1, <2>2, <2>3
<1> QED BY <1>8, <1>11, <1>12

\* An account has what n clears of a quest make of another one's resources.
HasCleared(a, b, q, n) == \A s \in Sources : Total(b, s) = Total(a, s) + Amount(s, q, n)

LEMMA SourcesAre ==
    /\ \A i \in Items : /\ <<"item_received", i>> \in Sources
                        /\ \A a : Total(a, <<"item_received", i>>) = a.items[i]
    /\ \A q \in Quests : /\ <<"quest_clear", q>> \in Sources
                         /\ \A a : Total(a, <<"quest_clear", q>>) = a.clears[q]
BY SourceKinds DEF Total

LEMMA ClearedGains ==
    ASSUME NEW b \in HomeAccts, NEW a \in HomeAccts, NEW q \in Quests, NEW n \in Nat,
           HasCleared(b, a, q, n), NEW ev, NEW more, MoreCleared(ev, more, q, n)
    PROVE  MoreOfResources(ev, more, b, a)
<1>1. \A s \in Sources : Total(b, s) \in Nat BY TotalNat
<1>2. ASSUME NEW s \in Sources
      PROVE  more[s][day] = ev[s][day] + Gain(Total(b, s), Total(a, s))
  <2>1. Total(a, s) = Total(b, s) + Amount(s, q, n) BY DEF HasCleared
  <2>2. Amount(s, q, n) \in Nat BY AmountNat
  <2>3. Gain(Total(b, s), Total(a, s)) = Amount(s, q, n)
    <3> DEFINE x == Total(b, s)
               y == Total(a, s)
               z == Amount(s, q, n)
    <3>1. x \in Nat /\ z \in Nat /\ y = x + z BY <1>1, <2>1, <2>2
    <3> HIDE DEF x, y, z
    <3>2. Gain(x, y) = z BY <3>1 DEF Gain
    <3> QED BY <3>2 DEF x, y, z
  <2>4. more[s][day] = ev[s][day] + Amount(s, q, n) BY DEF MoreCleared
  <2> QED BY <2>3, <2>4
<1>3. ASSUME NEW i \in Items
      PROVE  more[<<"item_received", i>>][day] =
                ev[<<"item_received", i>>][day] + Gain(b.items[i], a.items[i])
  <2> DEFINE s == <<"item_received", i>>
  <2>1. s \in Sources /\ Total(b, s) = b.items[i] /\ Total(a, s) = a.items[i] BY SourcesAre
  <2> HIDE DEF s
  <2>2. more[s][day] = ev[s][day] + Gain(b.items[i], a.items[i]) BY <1>2, <2>1
  <2> QED BY <2>2 DEF s
<1>4. ASSUME NEW p \in Quests
      PROVE  more[<<"quest_clear", p>>][day] =
                ev[<<"quest_clear", p>>][day] + Gain(b.clears[p], a.clears[p])
  <2> DEFINE s == <<"quest_clear", p>>
  <2>1. s \in Sources /\ Total(b, s) = b.clears[p] /\ Total(a, s) = a.clears[p] BY SourcesAre
  <2> HIDE DEF s
  <2>2. more[s][day] = ev[s][day] + Gain(b.clears[p], a.clears[p]) BY <1>2, <2>1
  <2> QED BY <2>2 DEF s
<1> QED BY <1>3, <1>4, Zenon DEF MoreOfResources, MoreCleared

LEMMA ClearedCounted ==
    ASSUME NEW b \in HomeAccts, NEW a \in HomeAccts, NEW q \in Quests, NEW n \in Nat, day \in Days,
           HasCleared(b, a, q, n), NEW ev, EventsOK(ev), NEW more, MoreCleared(ev, more, q, n),
           ResourcesCounted(b, ev)
    PROVE  ResourcesCounted(a, more)
<1> SUFFICES ASSUME NEW s \in Sources
             PROVE  Total(a, s) = SumFunctionOnSet(more[s], Days)
  BY Zenon DEF ResourcesCounted
<1> DEFINE f == ev[s]
           g == more[s]
           x == Amount(s, q, n)
<1>1. s \in Events /\ IsFiniteSet(Days) BY EventsFinite
<1>2. f \in [Days -> Nat] /\ g \in [Days -> Nat] BY <1>1 DEF EventsOK, MoreCleared
<1>3. x \in Nat BY AmountNat
<1>4. g[day] = f[day] + x /\ \A d \in Days : d # day => g[d] = f[d] BY <1>1 DEF MoreCleared
<1>5. Total(a, s) = Total(b, s) + x /\ Total(b, s) = SumFunctionOnSet(f, Days)
  BY DEF HasCleared, ResourcesCounted
<1>6. Total(b, s) \in Nat BY TotalNat
<1> HIDE DEF f, g, x
<1>7. \A d \in Days : f[d] \in Int /\ g[d] \in Int /\ (d # day => f[d] = g[d]) BY <1>2, <1>4
<1>8. SumFunctionOnSet(g, Days) = SumFunctionOnSet(f, Days) - f[day] + g[day]
  BY <1>1, <1>7, SumChanged
<1>9. SumFunctionOnSet(g, Days) = Total(a, s)
  <2>1. f[day] \in Nat BY <1>2
  <2> DEFINE y == Total(b, s)
             z == Total(a, s)
  <2>2. y \in Nat /\ z = y + x /\ SumFunctionOnSet(g, Days) = y - f[day] + g[day]
    BY <1>5, <1>6, <1>8
  <2> HIDE DEF y, z
  <2>3. SumFunctionOnSet(g, Days) = z BY <1>3, <1>4, <2>1, <2>2
  <2> QED BY <2>3 DEF z
<1> QED BY <1>9 DEF g

LEMMA HistoryTypes ==
    ASSUME NEW h, HistoryOK(h)
    PROVE  /\ EventsOK(h.events) /\ h.skips \in [Days -> Nat] /\ h.additions \in [Days -> Nat]
           /\ h.memorias \subseteq Memorias
<1>1. h \in [events: [Events -> [Days -> Nat]], memorias: SUBSET Memorias,
             skips: [Days -> Nat], additions: [Days -> Nat]]
  BY Zenon DEF HistoryOK
<1> QED BY <1>1 DEF EventsOK

\* One event is written down for today.
LEMMA HappenOne ==
    ASSUME NEW h, HistoryOK(h), day \in FirstDay..MaxDay, NEW kind, NEW x, NEW e, e = <<kind, x>>,
           e \in Events, NEW n \in Nat, NEW amounts, amounts = [p \in {x} |-> n],
           NEW g, g = Happen(h, kind, amounts)
    PROVE  /\ HistoryOK(g) /\ g.memorias = h.memorias
           /\ g.skips = h.skips /\ g.additions = h.additions
           /\ MoreOf(h.events, g.events, e, n)
<1>1. DOMAIN amounts = {x} /\ amounts[x] = n OBVIOUS
<1>2. \A i \in DOMAIN amounts : amounts[i] \in Nat BY <1>1
<1>3. /\ HistoryOK(g) /\ g.memorias = h.memorias
      /\ g.skips = h.skips /\ g.additions = h.additions
      /\ \A c \in Events : \A d \in Days :
           g.events[c][d] = h.events[c][d] + IF d = day /\ c[1] = kind /\ c[2] \in DOMAIN amounts
                                             THEN amounts[c[2]] ELSE 0
  BY <1>2, HappenIs
<1>4. EventsOK(h.events) /\ EventsOK(g.events) /\ day \in Days
  <2>1. HistoryOK(g) BY <1>3
  <2>2. EventsOK(h.events) /\ EventsOK(g.events) BY ONLY HistoryOK(h), <2>1, HistoryTypes
  <2>3. day \in Days BY HomeAssumption DEF Days
  <2> QED BY <2>2, <2>3
<1>5. e[1] = kind /\ e[2] = x OBVIOUS
<1>6. g.events[e][day] = h.events[e][day] + n BY <1>1, <1>3, <1>4, <1>5
<1>7. ASSUME NEW c \in Events, NEW d \in Days, c # e \/ d # day
      PROVE  g.events[c][d] = h.events[c][d]
  <2>1. h.events[c][d] \in Nat BY <1>4 DEF EventsOK
  <2>2. ~(d = day /\ c[1] = kind /\ c[2] \in DOMAIN amounts)
    <3>1. c = <<c[1], c[2]>> BY EventPairs
    <3> QED BY <1>1, <1>7, <3>1
  <2>3. g.events[c][d] = h.events[c][d] + 0 BY <1>3, <2>2
  <2> QED BY <2>1, <2>3
<1>8. MoreOf(h.events, g.events, e, n) BY <1>4, <1>6, <1>7, Zenon DEF MoreOf
<1> QED BY <1>3, <1>8

LEMMA SeenIsAt ==
    ASSUME HomeIInv, NEW ev, EventsOK(ev)
    PROVE  /\ EventsOK(Seen(ev)) /\ Seen(ev)[Collection][day] = Cardinality(happened.memorias)
           /\ \A c \in Events : \A d \in Days :
                (c # Collection \/ d # day) => Seen(ev)[c][d] = ev[c][d]
BY SeenIs DEF ReachedOf

LEMMA SeenMore ==
    ASSUME HomeIInv, NEW ev, EventsOK(ev), NEW e \in Events, e # Collection, NEW n \in Nat,
           NEW more, MoreOf(ev, more, e, n)
    PROVE  MoreOf(Seen(ev), Seen(more), e, n)
<1> DEFINE x == Seen(ev)
           y == Seen(more)
<1>1. EventsOK(more) /\ day \in Days BY SoundNow DEF MoreOf
<1>2. /\ EventsOK(x) /\ x[Collection][day] = Cardinality(happened.memorias)
      /\ \A c \in Events : \A d \in Days : (c # Collection \/ d # day) => x[c][d] = ev[c][d]
  BY SeenIsAt
<1>3. /\ EventsOK(y) /\ y[Collection][day] = Cardinality(happened.memorias)
      /\ \A c \in Events : \A d \in Days : (c # Collection \/ d # day) => y[c][d] = more[c][d]
  BY <1>1, SeenIsAt
<1> HIDE DEF x, y
<1>4. y[e][day] = x[e][day] + n BY <1>1, <1>2, <1>3 DEF MoreOf
<1>5. ASSUME NEW c \in Events, NEW d \in Days, c # e \/ d # day PROVE y[c][d] = x[c][d]
  <2>1. CASE c = Collection /\ d = day BY <1>2, <1>3, <2>1
  <2>2. CASE ~(c = Collection /\ d = day)
    <3>1. more[c][d] = ev[c][d] BY <1>5 DEF MoreOf
    <3> QED BY <1>2, <1>3, <2>2, <3>1
  <2> QED BY <2>1, <2>2
<1>6. MoreOf(x, y, e, n) BY <1>3, <1>4, <1>5, Zenon DEF MoreOf
<1> QED BY <1>6 DEF x, y

LEMMA SeenCleared ==
    ASSUME HomeIInv, NEW ev, EventsOK(ev), NEW q, NEW n, NEW more, MoreCleared(ev, more, q, n)
    PROVE  MoreCleared(Seen(ev), Seen(more), q, n)
<1> DEFINE x == Seen(ev)
           y == Seen(more)
<1>1. EventsOK(more) /\ day \in Days BY SoundNow DEF MoreCleared
<1>2. /\ EventsOK(x) /\ x[Collection][day] = Cardinality(happened.memorias)
      /\ \A c \in Events : \A d \in Days : (c # Collection \/ d # day) => x[c][d] = ev[c][d]
  BY SeenIsAt
<1>3. /\ EventsOK(y) /\ y[Collection][day] = Cardinality(happened.memorias)
      /\ \A c \in Events : \A d \in Days : (c # Collection \/ d # day) => y[c][d] = more[c][d]
  BY <1>1, SeenIsAt
<1> HIDE DEF x, y
<1>4. ASSUME NEW s \in Sources PROVE y[s][day] = x[s][day] + Amount(s, q, n)
  <2>1. s \in Events /\ s # Collection BY EventsFinite
  <2>2. more[s][day] = ev[s][day] + Amount(s, q, n) BY DEF MoreCleared
  <2>3. y[s][day] = more[s][day] /\ x[s][day] = ev[s][day] BY <1>1, <1>2, <1>3, <2>1
  <2> QED BY <2>2, <2>3
<1>5. ASSUME NEW c \in Events, NEW d \in Days, d # day \/ c \notin Sources PROVE y[c][d] = x[c][d]
  <2>1. CASE c = Collection /\ d = day BY <1>2, <1>3, <2>1
  <2>2. CASE ~(c = Collection /\ d = day)
    <3>1. more[c][d] = ev[c][d] BY <1>5 DEF MoreCleared
    <3> QED BY <1>2, <1>3, <2>2, <3>1
  <2> QED BY <2>1, <2>2
<1>6. MoreCleared(x, y, q, n) BY <1>3, <1>4, <1>5, Zenon DEF MoreCleared
<1> QED BY <1>6 DEF x, y

LEMMA MoreNoLess ==
    ASSUME NEW ev, EventsOK(ev), NEW more, NEW e, NEW n \in Nat, MoreOf(ev, more, e, n), day \in Days
    PROVE  NoLess(ev, more)
<1>1. EventsOK(more) BY DEF MoreOf
<1>2. ASSUME NEW c \in Events, NEW d \in Days PROVE ev[c][d] <= more[c][d]
  <2>1. ev[c][d] \in Nat /\ more[c][d] \in Nat BY <1>1 DEF EventsOK
  <2>2. CASE c = e /\ d = day
    <3> DEFINE x == ev[c][d]
               y == more[c][d]
    <3>1. x \in Nat /\ y = x + n BY <2>1, <2>2 DEF MoreOf
    <3> HIDE DEF x, y
    <3>2. x <= y BY <3>1
    <3> QED BY <3>2 DEF x, y
  <2>3. CASE ~(c = e /\ d = day)
    <3>1. more[c][d] = ev[c][d] BY <2>3 DEF MoreOf
    <3> QED BY <2>1, <3>1
  <2> QED BY <2>2, <2>3
<1> QED BY <1>1, <1>2 DEF NoLess

LEMMA ClearedNoLess ==
    ASSUME NEW ev, EventsOK(ev), NEW more, NEW q \in Quests, NEW n \in Nat, day \in Days,
           MoreCleared(ev, more, q, n)
    PROVE  NoLess(ev, more)
<1>1. EventsOK(more) BY DEF MoreCleared
<1>2. ASSUME NEW c \in Events, NEW d \in Days PROVE ev[c][d] <= more[c][d]
  <2>1. ev[c][d] \in Nat /\ more[c][d] \in Nat BY <1>1 DEF EventsOK
  <2>2. CASE c \in Sources /\ d = day
    <3> DEFINE x == ev[c][d]
               y == more[c][d]
               z == Amount(c, q, n)
    <3>1. z \in Nat BY AmountNat
    <3>2. x \in Nat /\ y = x + z BY <2>1, <2>2 DEF MoreCleared
    <3> HIDE DEF x, y, z
    <3>3. x <= y BY <3>1, <3>2
    <3> QED BY <3>3 DEF x, y
  <2>3. CASE ~(c \in Sources /\ d = day)
    <3>1. more[c][d] = ev[c][d] BY <2>3 DEF MoreCleared
    <3> QED BY <2>1, <3>1
  <2> QED BY <2>2, <2>3
<1> QED BY <1>1, <1>2 DEF NoLess

\* A row of events is what its days are.
LEMMA RowSame ==
    ASSUME NEW ev, EventsOK(ev), NEW more, EventsOK(more), NEW c \in Events,
           \A d \in Days : more[c][d] = ev[c][d]
    PROVE  more[c] = ev[c]
<1>1. ev[c] \in [Days -> Nat] /\ more[c] \in [Days -> Nat] BY DEF EventsOK
<1> QED BY <1>1

\* Additions of the day are bought.
LEMMA AddKeepsHome ==
    ASSUME HomeIInv, NEW n \in SkipCounts, daily_clear_add(n)
    PROVE  HomeIInv'
<1> DEFINE e == Entering(FALSE).acct
           ev == happened.events
           ep == Added(e, n)
           price == AdditionPrice(Episode(acct).additions, n)
           gems == e.gems - price
           b == [e EXCEPT !["gems"] = gems]
           a == [b EXCEPT !["episode"] = ep]
           r == [Given(e, paid) EXCEPT !.acct = a]
           additions == [happened.additions EXCEPT ![day] = @ + n]
           h == [happened EXCEPT !.additions = additions]
<1>0. /\ e = Entering(FALSE).acct /\ b = [e EXCEPT !["gems"] = gems]
      /\ a = [b EXCEPT !["episode"] = ep]
  OBVIOUS
<1>1. Entering(FALSE) = Given(e, paid) /\ Ledger(e, paid) /\ AcctOK(e) /\ e.initialized # -1
      /\ Same(acct, e, {"initialized", "tasks", "touched", "missions", "counts", "multi", "memoria_history"})
  <2> HIDE DEF e
  <2> QED BY <1>0, EnteringIs
<1>2. Quiet(e) /\ e \in HomeAccts
  <2> HIDE DEF e
  <2> QED BY <1>0, EnteredQuiet
<1>3. reduce_home_inner(r, h) /\ CanAdd(Episode(acct).additions, n)
  <2>1. Given(e, paid).acct = e BY DEF Given
  <2>2. reduce_home_inner([Given(e, paid) EXCEPT !.acct.gems = @ - price, !.acct.episode = Added(e, n)],
                          [happened EXCEPT !.additions[day] = @ + n])
    BY <1>1, <2>1, Zenon DEF daily_clear_add, HomeRequest
  <2>3. [Given(e, paid) EXCEPT !.acct.gems = @ - price, !.acct.episode = Added(e, n)] = r
    <3> DEFINE g == Given(e, paid)
               x == [g EXCEPT !.acct.gems = @ - price]
               y == [x EXCEPT !.acct.episode = ep]
    <3>1. DOMAIN g = {"ok", "acct", "paid"} /\ g.acct = e BY DEF Given
    <3>2. x = [g EXCEPT !.acct = b] BY <2>1, Zenon
    <3>3. x.acct = b BY <3>1, <3>2
    <3>4. y = [x EXCEPT !.acct = a] BY <3>3, Zenon
    <3>5. [g EXCEPT !.acct.gems = @ - price, !.acct.episode = Added(e, n)] = y OBVIOUS
    <3> HIDE DEF a, b, x, y, ep, price, g, e
    <3>6. y = [g EXCEPT !.acct = a] BY <3>1, <3>2, <3>4
    <3> QED BY <3>5, <3>6 DEF g, ep
  <2>4. [happened EXCEPT !.additions[day] = @ + n] = h BY Zenon
  <2>5. CanAdd(Episode(acct).additions, n) BY Zenon DEF daily_clear_add
  <2> QED BY <2>2, <2>3, <2>4, <2>5
<1> HIDE DEF e
<1>4. r.acct = a /\ r.paid = paid
  <2> HIDE DEF a
  <2> QED BY DEF Given
<1>5. n \in Nat /\ day \in Days /\ day \in Nat BY HomeAssumption, SoundNow
<1>6. /\ e.gems = acct.gems /\ e.episode = acct.episode
  BY <1>1 DEF Same, AcctFields
<1>7. /\ Episode(acct) \in [day: Int, clears: Nat, additions: Nat] /\ Episode(acct).day = day
      /\ Episode(acct).clears = happened.skips[day]
      /\ Episode(acct).additions = happened.additions[day]
      /\ happened.skips[day] <= MaxDailyClear + happened.additions[day]
  BY EpisodeIs
<1>8. Episode(e) = Episode(acct) BY <1>6, Zenon DEF Episode
<1>9. /\ ep \in [day: Int, clears: Nat, additions: Nat]
      /\ ep.day = day /\ ep.clears = Episode(acct).clears /\ ep.additions = Episode(acct).additions + n
  BY <1>5, <1>7, <1>8 DEF Added
<1>10. gems \in Nat
  <2> DEFINE from == Episode(acct).additions
             I == (from + 1)..(from + n)
  <2>1. from \in Nat /\ from + n <= Len(AdditionCosts) /\ acct.gems >= price
    BY <1>3, <1>7 DEF CanAdd
  <2>2. AdditionCosts \in Seq(Nat) BY HomeAssumption
  <2> HIDE DEF from
  <2>3. IsFiniteSet(I) BY <1>5, <2>1, FS_Interval
  <2>4. \A i \in I : AdditionCosts[i] \in Nat BY <1>5, <2>1, <2>2
  <2> HIDE DEF I
  <2>5. SumFunctionOnSet(AdditionCosts, I) \in Nat BY <2>3, <2>4, SumNat
  <2>6. price = SumFunctionOnSet(AdditionCosts, I) BY DEF AdditionPrice, I, from
  <2>7. e.gems \in Nat BY <1>2, AcctTypes
  <2> HIDE DEF price
  <2> QED BY <1>6, <2>1, <2>5, <2>6, <2>7
<1> HIDE DEF r, a, b, gems, ep, price
<1>11. AcctOK(b) /\ Same(e, b, {"gems"})
  <2>1. AcctType["gems"] = Nat /\ "gems" \in AcctFields \ {"missions", "counts"} BY DEF AcctType, AcctFields
  <2>2. gems \in AcctType["gems"] BY <1>10, <2>1
  <2>3. AcctOK(b) BY ONLY <1>0, <1>1, <2>1, <2>2, FieldSet
  <2>4. Same(e, b, {"gems"}) BY ONLY <1>0, <1>1, <2>1, <2>2, FieldSet
  <2> QED BY <2>3, <2>4
<1>12. AcctOK(a) /\ Same(b, a, {"episode"}) /\ a["episode"] = ep
  <2>1. /\ AcctType["episode"] = [day: Int, clears: Nat, additions: Nat]
        /\ "episode" \in AcctFields \ {"missions", "counts"}
    BY DEF AcctType, AcctFields
  <2>2. ep \in AcctType["episode"] BY <1>9, <2>1
  <2>3. AcctOK(a) BY ONLY <1>0, <1>11, <2>1, <2>2, FieldSet
  <2>4. Same(b, a, {"episode"}) BY ONLY <1>0, <1>11, <2>1, <2>2, FieldSet
  <2>5. a["episode"] = ep
    <3>1. DOMAIN b = AcctFields BY <1>11, AcctFunction DEF AcctOK
    <3> QED BY <1>0, <2>1, <3>1
  <2> QED BY <2>3, <2>4, <2>5
<1>13. /\ a.missions = e.missions /\ a.items = e.items /\ a.clears = e.clears
       /\ a.active = e.active /\ a.battle_progress = e.battle_progress
       /\ a.memorias = e.memorias /\ a.memoria_history = e.memoria_history
       /\ a.initialized = e.initialized
  BY <1>11, <1>12 DEF Same, AcctFields
<1>14. Onward(e, a)
  <2>1. Onward(e, b) BY <1>1, <1>11, SameOnward DEF AcctOK
  <2>2. Onward(b, a) BY <1>11, <1>12, SameOnward DEF AcctOK
  <2> QED BY <1>2, <2>1, <2>2, OnwardTwice
<1>15. Ledger(a, paid) /\ MailsInOrder(a)
  BY <1>1, <1>2, <1>14, OnwardLedger, OnwardMails DEF Quiet
<1>16. /\ HistoryOK(h) /\ h.events = ev /\ h.memorias = happened.memorias
       /\ h.skips = happened.skips /\ h.additions = additions
       /\ additions[day] = happened.additions[day] + n
       /\ \A d \in Days : d # day => additions[d] = happened.additions[d]
  <2>1. HistoryOK(happened) BY SoundNow
  <2>2. happened \in [events: [Events -> [Days -> Nat]], memorias: SUBSET Memorias,
                      skips: [Days -> Nat], additions: [Days -> Nat]]
    BY <2>1, Zenon DEF HistoryOK
  <2>3. /\ additions \in [Days -> Nat] /\ additions[day] = happened.additions[day] + n
        /\ \A d \in Days : d # day => additions[d] = happened.additions[d]
    BY <1>5, <2>2
  <2> HIDE DEF additions
  <2>4. /\ h \in [events: [Events -> [Days -> Nat]], memorias: SUBSET Memorias,
                  skips: [Days -> Nat], additions: [Days -> Nat]]
        /\ h.events = ev /\ h.memorias = happened.memorias
        /\ h.skips = happened.skips /\ h.additions = additions
    BY <2>2, <2>3
  <2> HIDE DEF h
  <2>5. HistoryOK(h) BY <2>1, <2>4, Zenon DEF HistoryOK
  <2> QED BY <2>3, <2>4, <2>5
<1> HIDE DEF h, additions
<1>17. SkipsCounted(a, h)
  <2> DEFINE c == Episode(acct).clears
             x == Episode(acct).additions + n
  <2>1. c \in Nat /\ x \in Nat BY <1>5, <1>7
  <2>2. a.episode.day = day /\ a.episode.clears = c /\ a.episode.additions = x BY <1>9, <1>12
  <2>3. h.skips[day] = c /\ h.additions[day] = x BY <1>7, <1>16
  <2>4. MaxDailyClear \in Nat BY HomeAssumption
  <2>5. c <= MaxDailyClear + x
    <3>1. c <= MaxDailyClear + Episode(acct).additions /\ Episode(acct).additions \in Nat BY <1>7
    <3> QED BY <1>5, <2>1, <2>4, <3>1
  <2>6. \A d \in Days : d # day => h.skips[d] = happened.skips[d] /\ h.additions[d] = happened.additions[d]
    BY <1>16
  <2> HIDE DEF c, x
  <2> QED BY <2>1, <2>2, <2>3, <2>5, <2>6, SkipsGo
<1> DEFINE mid == Seen(ev)
<1>18. EventsOK(mid) /\ mid[Collection] = Seen(happened.events)[Collection] BY SoundNow
<1>19. Kept(a, mid)
  <2>1. Kept(e, mid) BY <1>2 DEF Quiet
  <2>2. \A m \in Missions : Counted(a, m) = Counted(e, m) BY <1>13, SameMissionsCount
  <2> HIDE DEF mid
  <2> QED BY <2>1, <2>2, KeptSame
<1>20. a.items = acct.items /\ a.clears = acct.clears /\ a.active = acct.active
       /\ a.battle_progress = acct.battle_progress
  BY <1>2, <1>13 DEF Quiet
<1>21. MoreOfResources(mid, Seen(h.events), acct, a)
  <2>1. acct \in HomeAccts BY SoundNow
  <2>2. Seen(h.events) = mid BY <1>16
  <2>3. \A c \in Events : \A d \in Days : Seen(h.events)[c][d] = mid[c][d] BY <2>2
  <2>4. EventsOK(Seen(h.events)) BY <1>18, <2>2
  <2>5. a \in HomeAccts BY <1>12 DEF AcctOK
  <2> HIDE DEF mid
  <2>6. MoreOfResources(mid, mid, acct, a) BY ONLY <1>5, <1>18, <1>20, <2>1, <2>5, NothingMore
  <2> QED BY <2>2, <2>6
<1>22. Earned(DOMAIN paid, Seen(h.events)) BY <1>16, SoundNow
<1>23. ResourcesCounted(a, h.events)
  <2>1. \A s : Total(a, s) = Total(acct, s) BY ONLY <1>20, TotalsSame
  <2>2. ResourcesCounted(acct, h.events) BY <1>16, SoundNow
  <2> QED BY <2>1, <2>2, Zenon DEF ResourcesCounted
<1>24. BattleReported(a, requests)
  <2>1. BattleReported(acct, requests) BY SoundNow
  <2> QED BY <1>20, <2>1, Zenon DEF BattleReported
<1>25. a.memoria_history \union a.memorias = happened.memorias BY <1>2, <1>13 DEF Quiet
<1>26. a.initialized # -1 BY <1>1, <1>13
<1>27. h.events[Collection] = happened.events[Collection] /\ h.memorias = happened.memorias BY <1>16
<1>28. a = r.acct /\ AcctOK(a) /\ HistoryOK(h) /\ reduce_home_inner(r, h)
       /\ Ledger(a, r.paid) /\ Earned(DOMAIN r.paid, Seen(h.events))
  BY <1>3, <1>4, <1>12, <1>15, <1>16, <1>22
<1> HIDE DEF mid
<1> QED BY <1>15, <1>17, <1>18, <1>19, <1>21, <1>23, <1>24, <1>25, <1>26, <1>27, <1>28, HomeDone

AmountsOK(amounts) == \A x \in DOMAIN amounts : amounts[x] \in Nat

\* Events of another kind do not change what clears of a quest are.
SameClears(f, g) == \A s \in Sources : f.events[s] = g.events[s]

\* Clears of a quest and events of another kind are written down for today.
LEMMA ClearsAnd ==
    ASSUME NEW h, HistoryOK(h), day \in FirstDay..MaxDay, NEW q \in Quests, NEW n \in Nat,
           NEW kind, kind \notin {"quest_clear", "item_received", "memoria_collection"}, NEW amounts, AmountsOK(amounts),
           NEW g, g = Clears(h, q, n), NEW f, f = Happen(g, kind, amounts),
           NEW k, k = Happen(h, kind, amounts)
    PROVE  /\ HistoryOK(f) /\ HistoryOK(k) /\ HistoryOK(g)
           /\ f.memorias = h.memorias /\ f.skips = h.skips /\ f.additions = h.additions
           /\ MoreCleared(k.events, f.events, q, n) /\ MoreCleared(h.events, g.events, q, n)
           /\ SameClears(f, g) /\ f.events[Collection] = h.events[Collection]
           /\ NoLess(h.events, k.events)
           /\ MoreOfEach(h.events, k.events, kind, amounts)
<1> DEFINE some(c, d) == d = day /\ c[1] = kind /\ c[2] \in DOMAIN amounts
           add(c, d) == IF some(c, d) THEN amounts[c[2]] ELSE 0
<1>a. \A x \in DOMAIN amounts : amounts[x] \in Nat BY DEF AmountsOK
<1>1. /\ HistoryOK(g) /\ g.memorias = h.memorias
      /\ g.skips = h.skips /\ g.additions = h.additions
      /\ MoreCleared(h.events, g.events, q, n)
  BY ClearsAre
<1>2. HistoryOK(f) /\ f.memorias = g.memorias /\ f.skips = g.skips /\ f.additions = g.additions
      /\ \A c \in Events : \A d \in Days : f.events[c][d] = g.events[c][d] + add(c, d)
  BY <1>1, <1>a, HappenIs
<1>3. HistoryOK(k) /\ \A c \in Events : \A d \in Days : k.events[c][d] = h.events[c][d] + add(c, d)
  BY <1>a, HappenIs
<1>4. EventsOK(f.events) /\ EventsOK(g.events) /\ EventsOK(h.events) /\ EventsOK(k.events)
  BY <1>1, <1>2, <1>3, HistoryTypes
<1>5. \A c \in Events : \A d \in Days : /\ f.events[c][d] \in Nat /\ g.events[c][d] \in Nat
                                        /\ h.events[c][d] \in Nat /\ k.events[c][d] \in Nat
                                        /\ add(c, d) \in Nat
  BY <1>4, <1>a DEF EventsOK
<1>6. \A c \in Sources : c \in Events /\ \A d : add(c, d) = 0
  BY SourceKinds, EventsFinite
<1>7. day \in Days BY HomeAssumption DEF Days
<1>8. MoreCleared(k.events, f.events, q, n)
  <2>1. ASSUME NEW s \in Sources PROVE f.events[s][day] = k.events[s][day] + Amount(s, q, n)
    <3>1. g.events[s][day] = h.events[s][day] + Amount(s, q, n) BY <1>1, Zenon DEF MoreCleared
    <3>2. f.events[s][day] = g.events[s][day] /\ k.events[s][day] = h.events[s][day]
      BY <1>2, <1>3, <1>5, <1>6, <1>7
    <3> QED BY <3>1, <3>2
  <2>2. ASSUME NEW c \in Events, NEW d \in Days, d # day \/ c \notin Sources
        PROVE  f.events[c][d] = k.events[c][d]
    <3>1. g.events[c][d] = h.events[c][d] BY <1>1, <2>2, Zenon DEF MoreCleared
    <3> QED BY <1>2, <1>3, <3>1
  <2> QED BY <1>4, <2>1, <2>2, Zenon DEF MoreCleared
<1>9. ASSUME NEW s \in Sources PROVE f.events[s] = g.events[s]
  <2>1. s \in Events /\ \A d \in Days : f.events[s][d] = g.events[s][d]
    BY <1>2, <1>5, <1>6
  <2> QED BY <1>4, <2>1, RowSame
<1>10. f.events[Collection] = h.events[Collection]
  <2>1. Collection \in Events /\ Collection \notin Sources /\ Collection[1] = "memoria_collection"
    BY EventsFinite, SourceKinds
  <2>2. \A d \in Days : g.events[Collection][d] = h.events[Collection][d]
    BY <1>1, <2>1, Zenon DEF MoreCleared
  <2>3. \A d \in Days : add(Collection, d) = 0 BY <2>1
  <2>4. \A d \in Days : f.events[Collection][d] = h.events[Collection][d]
    BY <1>2, <1>5, <2>1, <2>2, <2>3
  <2> QED BY <1>4, <2>1, <2>4, RowSame
<1>11. NoLess(h.events, k.events)
  <2>1. \A c \in Events : \A d \in Days : h.events[c][d] <= k.events[c][d] BY <1>3, <1>5
  <2> QED BY <1>4, <2>1, Zenon DEF NoLess
<1>12. MoreOfEach(h.events, k.events, kind, amounts)
  <2>1. ASSUME NEW x \in DOMAIN amounts, <<kind, x>> \in Events
        PROVE  k.events[<<kind, x>>][day] = h.events[<<kind, x>>][day] + amounts[x]
    <3>1. add(<<kind, x>>, day) = amounts[x] OBVIOUS
    <3> QED BY <1>3, <1>7, <2>1, <3>1
  <2>2. ASSUME NEW c \in Events, NEW d \in Days, d # day \/ c[1] # kind \/ c[2] \notin DOMAIN amounts
        PROVE  k.events[c][d] = h.events[c][d]
    <3>1. add(c, d) = 0 BY <2>2
    <3> QED BY <1>3, <1>5, <3>1
  <2> QED BY <1>4, <2>1, <2>2, Zenon DEF MoreOfEach
<1> HIDE DEF add
<1>13. SameClears(f, g) BY <1>9 DEF SameClears
<1> QED BY <1>1, <1>2, <1>3, <1>8, <1>10, <1>11, <1>12, <1>13

LEMMA ClearedHas ==
    ASSUME NEW a, AcctOK(a), NEW q \in Quests, NEW n \in Nat, NEW b, b = Cleared(a, q, n)
    PROVE  /\ AcctOK(b) /\ Same(a, b, {"clears", "items"}) /\ HasCleared(a, b, q, n)
<1>1. \A s \in Sources : Total(b, s) = Total(a, s) + Amount(s, q, n) BY ClearedIs
<1>2. AcctOK(b) /\ Same(a, b, {"clears", "items"}) BY ClearedIs
<1> QED BY <1>1, <1>2, Zenon DEF HasCleared

\* Quests are skipped: attempted and cleared several times.
LEMMA SkipKeepsHome ==
    ASSUME HomeIInv, NEW q \in Quests, NEW n \in SkipCounts, quest_skip(q, n)
    PROVE  HomeIInv'
<1> DEFINE e == Entering(FALSE).acct
           ev == happened.events
           attempt == <<"quest_attempt", q>>
           sk == Skipped(e, n)
           b == advance_mission_event(e, attempt, n)
           c == [b EXCEPT !["episode"] = sk]
           a == Cleared(c, q, n)
           r == [Given(e, paid) EXCEPT !.acct = a]
           amounts == [p \in {q} |-> n]
           g == Clears(happened, q, n)
           k == Happen(happened, "quest_attempt", amounts)
           f == Happen(g, "quest_attempt", amounts)
           skips == [f.skips EXCEPT ![day] = @ + n]
           h == [f EXCEPT !.skips = skips]
<1>0. /\ e = Entering(FALSE).acct /\ b = advance_mission_event(e, attempt, n)
      /\ c = [b EXCEPT !["episode"] = sk] /\ a = Cleared(c, q, n)
      /\ g = Clears(happened, q, n) /\ f = Happen(g, "quest_attempt", amounts)
      /\ k = Happen(happened, "quest_attempt", amounts)
  OBVIOUS
<1>1. Entering(FALSE) = Given(e, paid) /\ Ledger(e, paid) /\ AcctOK(e) /\ e.initialized # -1
      /\ Same(acct, e, {"initialized", "tasks", "touched", "missions", "counts", "multi", "memoria_history"})
  <2> HIDE DEF e
  <2> QED BY <1>0, EnteringIs
<1>2. Quiet(e) /\ e \in HomeAccts
  <2> HIDE DEF e
  <2> QED BY <1>0, EnteredQuiet
<1>3. reduce_home_inner(r, h) /\ Episode(acct).clears + n <= MaxDailyClear + Episode(acct).additions
  <2>1. Given(e, paid).acct = e BY DEF Given
  <2>2. reduce_home_inner([Given(e, paid) EXCEPT !.acct = Cleared([advance_mission_event(e, <<"quest_attempt", q>>, n)
                                EXCEPT !.episode = Skipped(e, n)], q, n)],
                          [Happen(Clears(happened, q, n), "quest_attempt", [p \in {q} |-> n]) EXCEPT
                                !.skips[day] = @ + n])
    BY <1>1, <2>1, Zenon DEF quest_skip, HomeRequest
  <2>3. h = [Happen(Clears(happened, q, n), "quest_attempt", [p \in {q} |-> n]) EXCEPT !.skips[day] = @ + n]
    BY Zenon
  <2>4. Episode(acct).clears + n <= MaxDailyClear + Episode(acct).additions BY Zenon DEF quest_skip
  <2> QED BY <2>2, <2>3, <2>4
<1> HIDE DEF e
<1>4. r.acct = a /\ r.paid = paid
  <2> HIDE DEF a
  <2> QED BY DEF Given
<1>5. n \in Nat /\ day \in Days /\ day \in Nat /\ day \in FirstDay..MaxDay BY HomeAssumption, SoundNow
<1>6. /\ e.episode = acct.episode /\ e.items = acct.items /\ e.clears = acct.clears
      /\ e.active = acct.active /\ e.battle_progress = acct.battle_progress
      /\ e.memorias = acct.memorias
  BY <1>1 DEF Same, AcctFields
<1>7. /\ Episode(acct) \in [day: Int, clears: Nat, additions: Nat] /\ Episode(acct).day = day
      /\ Episode(acct).clears = happened.skips[day]
      /\ Episode(acct).additions = happened.additions[day]
      /\ happened.skips[day] <= MaxDailyClear + happened.additions[day]
  BY EpisodeIs
<1>8. Episode(e) = Episode(acct) BY <1>6, Zenon DEF Episode
<1>9. /\ sk \in [day: Int, clears: Nat, additions: Nat]
      /\ sk.day = day /\ sk.clears = Episode(acct).clears + n /\ sk.additions = Episode(acct).additions
  BY <1>5, <1>7, <1>8 DEF Skipped
<1>10. attempt \in Events /\ attempt # Collection /\ attempt \notin Sources
  BY DEF Events, Collection, Sources
<1> HIDE DEF r, a, b, c, sk, h, f, g, k
<1>11. AcctOK(b) /\ Same(e, b, {"tasks", "touched", "missions"}) /\ Onward(e, b)
  <2>1. Advances(e, b) BY ONLY <1>0, <1>1, <1>5, TickedAdvances
  <2>2. Same(e, b, {"tasks", "touched", "missions"}) BY ONLY <1>0, <1>2, EventIs
  <2> QED BY <2>1, <2>2, AdvancesOK, AdvancesOnward
<1>12. AcctOK(c) /\ Same(b, c, {"episode"}) /\ c["episode"] = sk
  <2>1. /\ AcctType["episode"] = [day: Int, clears: Nat, additions: Nat]
        /\ "episode" \in AcctFields \ {"missions", "counts"} /\ "episode" \in AcctFields
    BY DEF AcctType, AcctFields
  <2>2. sk \in AcctType["episode"] BY <1>9, <2>1
  <2>3. AcctOK(c) BY ONLY <1>0, <1>11, <2>1, <2>2, FieldSet
  <2>4. Same(b, c, {"episode"}) BY ONLY <1>0, <1>11, <2>1, <2>2, FieldSet
  <2>5. c["episode"] = sk
    <3>1. DOMAIN b = AcctFields BY <1>11, AcctFunction DEF AcctOK
    <3> QED BY <1>0, <2>1, <3>1
  <2> QED BY <2>3, <2>4, <2>5
<1>13. AcctOK(a) /\ Same(c, a, {"clears", "items"}) /\ HasCleared(c, a, q, n)
  BY <1>0, <1>5, <1>12, ClearedHas
<1>14. /\ a.missions = b.missions /\ a.episode = sk
       /\ a.active = acct.active /\ a.battle_progress = acct.battle_progress
       /\ a.memorias = e.memorias /\ a.memoria_history = e.memoria_history
       /\ a.initialized = e.initialized /\ c.items = acct.items /\ c.clears = acct.clears
  BY <1>6, <1>11, <1>12, <1>13 DEF Same, AcctFields
<1>15. Onward(e, a)
  <2>1. Onward(b, c) BY <1>11, <1>12, SameOnward DEF AcctOK
  <2>2. Onward(c, a) BY <1>12, <1>13, SameOnward DEF AcctOK
  <2>3. Onward(e, c) BY <1>2, <1>11, <2>1, OnwardTwice
  <2> QED BY <1>2, <2>2, <2>3, OnwardTwice
<1>16. Ledger(a, paid) /\ MailsInOrder(a)
  BY <1>1, <1>2, <1>15, OnwardLedger, OnwardMails DEF Quiet
<1>17. /\ HistoryOK(f) /\ HistoryOK(k) /\ HistoryOK(g)
       /\ f.memorias = happened.memorias /\ f.skips = happened.skips /\ f.additions = happened.additions
       /\ MoreCleared(k.events, f.events, q, n) /\ MoreCleared(ev, g.events, q, n)
       /\ SameClears(f, g) /\ f.events[Collection] = ev[Collection]
       /\ NoLess(ev, k.events)
  <2>1. HistoryOK(happened) BY SoundNow
  <2>2. \A x \in DOMAIN amounts : amounts[x] \in Nat BY <1>5
  <2> DEFINE kind == "quest_attempt"
  <2>3. kind \notin {"quest_clear", "item_received", "memoria_collection"} OBVIOUS
  <2>4. f = Happen(g, kind, amounts) /\ k = Happen(happened, kind, amounts) BY <1>0
  <2>5. AmountsOK(amounts) BY <2>2, Zenon DEF AmountsOK
  <2> HIDE DEF kind, amounts
  <2> QED BY <1>0, <1>5, <2>1, <2>3, <2>4, <2>5, ClearsAnd
<1>18. MoreOf(ev, k.events, attempt, n)
  <2>1. HistoryOK(happened) BY SoundNow
  <2> DEFINE kind == "quest_attempt"
  <2>2. attempt = <<kind, q>> /\ amounts = [p \in {q} |-> n] /\ k = Happen(happened, kind, amounts)
    BY <1>0
  <2> HIDE DEF kind, amounts, attempt
  <2> QED BY <1>5, <1>10, <2>1, <2>2, HappenOne
<1>19. /\ HistoryOK(h) /\ h.events = f.events /\ h.memorias = happened.memorias
       /\ h.additions = happened.additions /\ h.skips[day] = happened.skips[day] + n
       /\ \A d \in Days : d # day => h.skips[d] = happened.skips[d]
  <2>1. f \in [events: [Events -> [Days -> Nat]], memorias: SUBSET Memorias,
               skips: [Days -> Nat], additions: [Days -> Nat]]
    BY <1>17, Zenon DEF HistoryOK
  <2>2. f.skips \in [Days -> Nat] BY <2>1
  <2>3. /\ skips \in [Days -> Nat] /\ skips[day] = happened.skips[day] + n
        /\ \A d \in Days : d # day => skips[d] = happened.skips[d]
    BY <1>5, <1>17, <2>2
  <2> HIDE DEF skips
  <2>4. /\ h \in [events: [Events -> [Days -> Nat]], memorias: SUBSET Memorias,
                  skips: [Days -> Nat], additions: [Days -> Nat]]
        /\ h.events = f.events /\ h.memorias = f.memorias
        /\ h.skips = skips /\ h.additions = f.additions
    BY <2>1, <2>3 DEF h
  <2>5. \A d \in Days : d > day => \A x \in Events : h.events[x][d] = 0
    <3>1. \A d \in Days : d > day => \A x \in Events : f.events[x][d] = 0
      BY <1>17, Zenon DEF HistoryOK
    <3> QED BY <2>4, <3>1
  <2>6. HistoryOK(h) BY <2>4, <2>5, Zenon DEF HistoryOK
  <2> QED BY <1>17, <2>3, <2>4, <2>6
<1>20. SkipsCounted(a, h)
  <2> DEFINE x == Episode(acct).clears + n
             y == Episode(acct).additions
  <2>1. x \in Nat /\ y \in Nat BY <1>5, <1>7
  <2>2. a.episode.day = day /\ a.episode.clears = x /\ a.episode.additions = y BY <1>9, <1>14
  <2>3. h.skips[day] = x /\ h.additions[day] = y BY <1>7, <1>19
  <2>4. x <= MaxDailyClear + y BY <1>3
  <2>5. \A d \in Days : d # day => h.skips[d] = happened.skips[d] /\ h.additions[d] = happened.additions[d]
    BY <1>19
  <2> HIDE DEF x, y
  <2> QED BY <2>1, <2>2, <2>3, <2>4, <2>5, SkipsGo
<1> DEFINE now == Seen(ev)
           mid == Seen(k.events)
<1>21. /\ EventsOK(now) /\ MoreOf(now, mid, attempt, n) /\ EventsOK(mid)
       /\ mid[Collection] = Seen(happened.events)[Collection]
  <2>1. EventsOK(ev) /\ EventsOK(k.events) /\ EventsOK(now) BY <1>17, SoundNow, HistoryTypes
  <2>2. MoreOf(now, mid, attempt, n)
    <3> HIDE DEF attempt
    <3> QED BY <1>5, <1>10, <1>18, <2>1, SeenMore
  <2>3. EventsOK(mid) BY <2>2, Zenon DEF MoreOf
  <2>4. Collection \in Events BY EventsFinite
  <2>5. \A d \in Days : mid[Collection][d] = now[Collection][d]
    <3> HIDE DEF now, mid, attempt
    <3> QED BY <1>10, <2>2, <2>4, Zenon DEF MoreOf
  <2>6. mid[Collection] = now[Collection] BY <2>1, <2>3, <2>4, <2>5, RowSame
  <2> QED BY <2>1, <2>2, <2>3, <2>6
<1>22. Kept(a, mid)
  <2>1. Kept(e, now) BY <1>2 DEF Quiet
  <2> HIDE DEF now, mid, attempt
  <2>2. Kept(b, mid) BY <1>0, <1>1, <1>5, <1>10, <1>21, <2>1, KeptEvent
  <2>3. \A m \in Missions : Counted(a, m) = Counted(b, m) BY <1>14, SameMissionsCount
  <2> QED BY <2>2, <2>3, KeptSame
<1>23. HasCleared(acct, a, q, n)
  <2>1. \A s : Total(c, s) = Total(acct, s) BY ONLY <1>14, TotalsSame
  <2> QED BY <1>13, <2>1 DEF HasCleared
<1>24. MoreCleared(mid, Seen(h.events), q, n)
  <2>1. EventsOK(k.events) BY <1>17, HistoryTypes
  <2> QED BY <1>17, <1>19, <2>1, SeenCleared
<1>25. MoreOfResources(mid, Seen(h.events), acct, a)
  <2>1. acct \in HomeAccts /\ a \in HomeAccts BY <1>13, SoundNow DEF AcctOK
  <2> HIDE DEF mid
  <2> QED BY <1>5, <1>23, <1>24, <2>1, ClearedGains
<1>26. Earned(DOMAIN paid, Seen(h.events))
  <2>1. Earned(DOMAIN paid, now) BY SoundNow
  <2> HIDE DEF now, mid, attempt
  <2>2. NoLess(now, mid) BY <1>5, <1>21, MoreNoLess
  <2>3. NoLess(mid, Seen(h.events)) BY <1>5, <1>21, <1>24, ClearedNoLess
  <2> QED BY <2>1, <2>2, <2>3, NoLessTwice, EarnedLater
<1>27. ResourcesCounted(a, h.events)
  <2>1. acct \in HomeAccts /\ a \in HomeAccts /\ EventsOK(ev) /\ ResourcesCounted(acct, ev)
    BY <1>13, SoundNow DEF AcctOK
  <2>2. ResourcesCounted(a, g.events) BY <1>5, <1>17, <1>23, <2>1, ClearedCounted
  <2> QED BY <1>17, <1>19, <2>2, Zenon DEF ResourcesCounted, SameClears
<1>28. BattleReported(a, requests)
  <2>1. BattleReported(acct, requests) BY SoundNow
  <2> QED BY <1>14, <2>1, Zenon DEF BattleReported
<1>29. a.memoria_history \union a.memorias = happened.memorias BY <1>2, <1>14 DEF Quiet
<1>30. a.initialized # -1 BY <1>1, <1>14
<1>31. h.events[Collection] = happened.events[Collection] /\ h.memorias = happened.memorias BY <1>17, <1>19
<1>32. a = r.acct /\ AcctOK(a) /\ HistoryOK(h) /\ reduce_home_inner(r, h)
       /\ Ledger(a, r.paid) /\ Earned(DOMAIN r.paid, Seen(h.events))
  BY <1>3, <1>4, <1>13, <1>16, <1>19, <1>26
<1> HIDE DEF mid
<1> QED BY <1>16, <1>20, <1>21, <1>22, <1>25, <1>27, <1>28, <1>29, <1>30, <1>31, <1>32, HomeDone

-----------------------------------------------------------------------------
(* Login bonuses *)

\* The members of a finite set of numbers have different ranks.
LEMMA Ranks ==
    ASSUME NEW S, IsFiniteSet(S), S \subseteq Nat
    PROVE  /\ Cardinality(S) \in Nat
           /\ \A b \in S : Cardinality({c \in S : c <= b}) \in 1..Cardinality(S)
           /\ \A b, d \in S : Cardinality({c \in S : c <= b}) = Cardinality({c \in S : c <= d}) => b = d
<1>1. Cardinality(S) \in Nat BY FS_CardinalityType
<1>2. ASSUME NEW b \in S PROVE Cardinality({c \in S : c <= b}) \in 1..Cardinality(S)
  <2> DEFINE T == {c \in S : c <= b}
  <2>1. T \in SUBSET S /\ b \in T BY SMT
  <2> HIDE DEF T
  <2>2. IsFiniteSet(T) /\ Cardinality(T) <= Cardinality(S) BY <2>1, FS_Subset
  <2>3. Cardinality(T) \in Nat BY <2>2, FS_CardinalityType
  <2>4. Cardinality(T) # 0 BY <2>1, <2>2, FS_EmptySet
  <2> QED BY <1>1, <2>2, <2>3, <2>4 DEF T
<1>3. ASSUME NEW b \in S, NEW d \in S, b < d
      PROVE  Cardinality({c \in S : c <= b}) # Cardinality({c \in S : c <= d})
  <2> DEFINE T == {c \in S : c <= b}
             U == {c \in S : c <= d}
  <2>0. b \in Nat /\ d \in Nat OBVIOUS
  <2>1. U \in SUBSET S /\ T \in SUBSET U /\ d \in U /\ d \notin T
    <3>1. \A c \in S : c <= b => c <= d BY <1>3, <2>0
    <3>2. ~(d <= b) /\ d <= d BY <1>3, <2>0
    <3> QED BY <3>1, <3>2
  <2> HIDE DEF T, U
  <2>2. IsFiniteSet(U) BY <2>1, FS_Subset
  <2>3. Cardinality(U) = Cardinality(T) => U = T BY <2>1, <2>2, FS_Subset
  <2> QED BY <2>1, <2>3 DEF T, U
<1>4. ASSUME NEW b \in S, NEW d \in S, Cardinality({c \in S : c <= b}) = Cardinality({c \in S : c <= d})
      PROVE  b = d
  <2>1. ~(b < d) BY <1>3, <1>4
  <2>2. ~(d < b) BY <1>3, <1>4
  <2> QED BY <2>1, <2>2
<1> QED BY <1>1, <1>2, <1>4

BonusesDue(e) == {b \in Bonuses : BonusDue(e, b)}
BonusMail(e, b) ==
    [id |-> NextMailId(e, Cardinality({c \in BonusesDue(e) : c <= b})), bonus |-> b,
     step |-> e.bonuses[b].day + 1, end |-> day + MailDays, opened |-> FALSE]

\* The account after its bonuses were sent.
SentTo(e, a) ==
    /\ a.bonuses = [b \in Bonuses |-> IF b \in BonusesDue(e) THEN [day |-> e.bonuses[b].day + 1, last |-> day]
                                      ELSE e.bonuses[b]]
    /\ a.next_mail_id = e.next_mail_id + Cardinality(BonusesDue(e))
    /\ a.mails = e.mails \union {BonusMail(e, b) : b \in BonusesDue(e)}

LEMMA BonusesSet ==
    ASSUME NEW r, Outcome(r), AcctOK(r.acct), NEW t, t = SendBonuses(r), NEW a, a = t.acct
    PROVE  /\ Same(r.acct, a, {"bonuses", "next_mail_id", "mails"}) /\ SentTo(r.acct, a)
           /\ Outcome(t) /\ t.ok = r.ok
           /\ t.paid = r.paid (+) SetToBag({Reward("bonus", b, 0, 1) : b \in BonusesDue(r.acct)})
<1> DEFINE e == r.acct
           due == BonusesDue(e)
           S == {Reward("bonus", b, 0, 1) : b \in due}
           bonuses == [b \in Bonuses |-> IF b \in due THEN [day |-> e.bonuses[b].day + 1, last |-> day]
                                         ELSE e.bonuses[b]]
           next == e.next_mail_id + Cardinality(due)
           mails == e.mails \union {BonusMail(e, b) : b \in due}
           a1 == [e EXCEPT !["bonuses"] = bonuses]
           a2 == [a1 EXCEPT !["next_mail_id"] = next]
           a3 == [a2 EXCEPT !["mails"] = mails]
           x1 == [r EXCEPT !.acct.bonuses = bonuses]
           x2 == [x1 EXCEPT !.acct.next_mail_id = next]
           x3 == [x2 EXCEPT !.acct.mails = mails]
<1>1. t = Pay(x3, S)
  <2>1. SendBonuses(r) =
          Pay([r EXCEPT !.acct.bonuses = bonuses, !.acct.next_mail_id = next, !.acct.mails = mails], S)
    BY DEF SendBonuses, BonusesDue, BonusMail, NextMailId
  <2> HIDE DEF bonuses, next, mails, S
  <2>2. [r EXCEPT !.acct.bonuses = bonuses, !.acct.next_mail_id = next, !.acct.mails = mails] = x3
    OBVIOUS
  <2> QED BY <2>1, <2>2
<1>2. DOMAIN r = {"ok", "acct", "paid"} BY DEF Outcome
<1>3. DOMAIN e = AcctFields /\ e = [f \in AcctFields |-> e[f]] BY AcctFunction DEF AcctOK
<1>4. x1 = [r EXCEPT !.acct = a1] BY Zenon
<1>5. x1.acct = a1 /\ DOMAIN x1 = {"ok", "acct", "paid"}
  <2> HIDE DEF a1
  <2> QED BY <1>2, <1>4
<1>6. x2 = [x1 EXCEPT !.acct = a2]
  <2> HIDE DEF a1, x1
  <2> QED BY <1>5, Zenon
<1>7. x2.acct = a2 /\ DOMAIN x2 = {"ok", "acct", "paid"}
  <2> HIDE DEF a2, x1
  <2> QED BY <1>5, <1>6
<1>9. x3 = [x2 EXCEPT !.acct = a3]
  <2> HIDE DEF a2, x2, mails
  <2> QED BY <1>7, Zenon
<1> HIDE DEF x2
<1>10. x3.acct = a3 /\ DOMAIN x3 = {"ok", "acct", "paid"} /\ x3.ok = r.ok /\ x3.paid = r.paid
  <2> HIDE DEF a3, x3, a2, x1, a1
  <2>1. x1.ok = r.ok /\ x1.paid = r.paid BY <1>2, <1>4
  <2>2. x2.ok = r.ok /\ x2.paid = r.paid BY <1>5, <1>6, <2>1
  <2> QED BY <1>7, <1>9, <2>2
<1> HIDE DEF x3
<1>11. Outcome(t) /\ t.ok = r.ok /\ t.acct = a3 /\ t.paid = r.paid (+) SetToBag(S)
  <2> HIDE DEF a3, S
  <2>1. Outcome(x3) BY <1>10 DEF Outcome
  <2> QED BY <1>1, <1>10, <2>1, PayIs
<1>12. /\ DOMAIN a3 = AcctFields /\ Same(e, a3, {"bonuses", "next_mail_id", "mails"})
       /\ a3.bonuses = bonuses /\ a3.next_mail_id = next /\ a3.mails = mails
  <2> HIDE DEF bonuses, next, mails
  <2> QED BY <1>3 DEF Same, AcctFields
<1> HIDE DEF a3
<1>13. SentTo(e, a) BY <1>11, <1>12, Zenon DEF SentTo
<1> QED BY <1>11, <1>12, <1>13

\* Every bonus that is due sends one mail with a new id.
LEMMA MailsOf ==
    ASSUME NEW e, AcctOK(e), day \in Nat
    PROVE  /\ Cardinality(BonusesDue(e)) \in Nat
           /\ \A b \in BonusesDue(e) : /\ b \in Bonuses /\ BonusMail(e, b) \in Mail
                                /\ BonusMail(e, b).bonus = b
                                /\ BonusMail(e, b).step = e.bonuses[b].day + 1
                                /\ e.next_mail_id < BonusMail(e, b).id
                                /\ BonusMail(e, b).id <= e.next_mail_id + Cardinality(BonusesDue(e))
           /\ \A b, c \in BonusesDue(e) : BonusMail(e, b).id = BonusMail(e, c).id => b = c
<1> DEFINE rank(b) == Cardinality({c \in BonusesDue(e) : c <= b})
<1>1. BonusesDue(e) \subseteq Bonuses /\ Bonuses \subseteq Nat /\ IsFiniteSet(BonusesDue(e))
  <2>1. BonusesDue(e) \in SUBSET Bonuses BY DEF BonusesDue
  <2> QED BY <2>1, RewardsAssumption, FS_Subset
<1>2. /\ Cardinality(BonusesDue(e)) \in Nat /\ \A b \in BonusesDue(e) : rank(b) \in 1..Cardinality(BonusesDue(e))
      /\ \A b, c \in BonusesDue(e) : rank(b) = rank(c) => b = c
  <2> DEFINE D == BonusesDue(e)
  <2>1. D \subseteq Nat /\ IsFiniteSet(D) BY <1>1
  <2> HIDE DEF D
  <2>2. /\ Cardinality(D) \in Nat /\ \A b \in D : Cardinality({c \in D : c <= b}) \in 1..Cardinality(D)
        /\ \A b, d \in D : Cardinality({c \in D : c <= b}) = Cardinality({c \in D : c <= d}) => b = d
    BY <2>1, Ranks
  <2> QED BY <2>2, Zenon DEF D
<1>3. e.next_mail_id \in Nat /\ e.bonuses \in [Bonuses -> [day: Nat, last: Int]]
  BY AcctTypes DEF AcctOK
<1>4. \A b : BonusMail(e, b) = [id |-> e.next_mail_id + rank(b), bonus |-> b,
                                step |-> e.bonuses[b].day + 1, end |-> day + MailDays, opened |-> FALSE]
  BY Zenon DEF BonusMail, NextMailId
<1> HIDE DEF rank
<1>5. ASSUME NEW b \in BonusesDue(e)
      PROVE  /\ b \in Bonuses /\ BonusMail(e, b) \in Mail
             /\ BonusMail(e, b).bonus = b /\ BonusMail(e, b).step = e.bonuses[b].day + 1
             /\ BonusMail(e, b).id = e.next_mail_id + rank(b)
             /\ e.next_mail_id < BonusMail(e, b).id
             /\ BonusMail(e, b).id <= e.next_mail_id + Cardinality(BonusesDue(e))
  <2>1. b \in Bonuses BY <1>1
  <2>2. rank(b) \in Nat \ {0} /\ rank(b) <= Cardinality(BonusesDue(e)) BY <1>2
  <2>3. e.bonuses[b].day \in Nat BY <1>3, <2>1
  <2>4. day + MailDays \in Nat BY HomeAssumption
  <2> DEFINE x == e.next_mail_id + rank(b)
             y == e.bonuses[b].day + 1
             z == day + MailDays
  <2>5. x \in Nat \ {0} /\ y \in Nat \ {0} /\ e.next_mail_id < x /\ x <= e.next_mail_id + Cardinality(BonusesDue(e))
    BY <1>2, <1>3, <2>2, <2>3
  <2>6. BonusMail(e, b) = [id |-> x, bonus |-> b, step |-> y, end |-> z, opened |-> FALSE] BY <1>4
  <2> HIDE DEF x, y, z
  <2>7. BonusMail(e, b) \in Mail BY <2>1, <2>4, <2>5, <2>6 DEF Mail, z
  <2>8. BonusMail(e, b).bonus = b /\ BonusMail(e, b).step = y /\ BonusMail(e, b).id = x BY <2>6
  <2> QED BY <2>1, <2>5, <2>7, <2>8 DEF x, y
<1>6. ASSUME NEW b \in BonusesDue(e), NEW c \in BonusesDue(e), BonusMail(e, b).id = BonusMail(e, c).id
      PROVE  b = c
  <2>1. rank(b) \in Nat /\ rank(c) \in Nat BY <1>2
  <2>2. e.next_mail_id + rank(b) = e.next_mail_id + rank(c) BY <1>5, <1>6
  <2>3. rank(b) = rank(c) BY <1>3, <2>1, <2>2
  <2> QED BY <1>2, <2>3
<1> QED BY <1>2, <1>5, <1>6

\* Bonuses are sent in order, and paid once a day.
LEMMA BonusesSent ==
    ASSUME NEW r, Outcome(r), NEW e, e = r.acct, AcctOK(e), MailsInOrder(e), day \in Nat,
           NEW t, t = SendBonuses(r), NEW a, a = t.acct
    PROVE  /\ AcctOK(a) /\ Same(e, a, {"bonuses", "next_mail_id", "mails"})
           /\ MailsInOrder(a) /\ KeepsWritten(e, a)
           /\ \E S : PaysOthers(r, t, S) /\ PaysOnce(e, a, S)
<1> DEFINE due == BonusesDue(e)
           S == {Reward("bonus", b, 0, 1) : b \in due}
<1>1. /\ Same(e, a, {"bonuses", "next_mail_id", "mails"}) /\ SentTo(e, a)
      /\ Outcome(t) /\ t.ok = r.ok /\ t.paid = r.paid (+) SetToBag(S)
  <2>1. AcctOK(r.acct) OBVIOUS
  <2>2. Same(r.acct, a, {"bonuses", "next_mail_id", "mails"}) BY ONLY Outcome(r), <2>1, t = SendBonuses(r), a = t.acct, BonusesSet
  <2>3. SentTo(r.acct, a) BY ONLY Outcome(r), <2>1, t = SendBonuses(r), a = t.acct, BonusesSet
  <2>4. Outcome(t) /\ t.ok = r.ok BY ONLY Outcome(r), <2>1, t = SendBonuses(r), a = t.acct, BonusesSet
  <2>5. t.paid = r.paid (+) SetToBag({Reward("bonus", b, 0, 1) : b \in BonusesDue(r.acct)})
    BY ONLY Outcome(r), <2>1, t = SendBonuses(r), a = t.acct, BonusesSet
  <2> QED BY <2>2, <2>3, <2>4, <2>5
<1>2. /\ Cardinality(due) \in Nat
      /\ \A b \in due : /\ b \in Bonuses /\ BonusMail(e, b) \in Mail
                        /\ BonusMail(e, b).bonus = b /\ BonusMail(e, b).step = e.bonuses[b].day + 1
                        /\ e.next_mail_id < BonusMail(e, b).id
                        /\ BonusMail(e, b).id <= e.next_mail_id + Cardinality(due)
      /\ \A b, c \in due : BonusMail(e, b).id = BonusMail(e, c).id => b = c
  BY MailsOf
<1>3. /\ e.next_mail_id \in Nat /\ e.bonuses \in [Bonuses -> [day: Nat, last: Int]]
      /\ e.mails \subseteq Mail
  BY AcctTypes DEF AcctOK
<1>4. /\ a.bonuses \in [Bonuses -> [day: Nat, last: Int]]
      /\ \A b \in due : a.bonuses[b].day = e.bonuses[b].day + 1 /\ a.bonuses[b].last = day
      /\ \A b \in Bonuses \ due : a.bonuses[b] = e.bonuses[b]
      /\ a.next_mail_id = e.next_mail_id + Cardinality(due)
      /\ a.mails = e.mails \union {BonusMail(e, b) : b \in due}
  <2> HIDE DEF due
  <2>1. a.bonuses = [b \in Bonuses |-> IF b \in due THEN [day |-> e.bonuses[b].day + 1, last |-> day]
                                       ELSE e.bonuses[b]]
    BY <1>1 DEF SentTo, due
  <2>2. \A b \in Bonuses : e.bonuses[b].day + 1 \in Nat BY <1>3
  <2>3. \A b \in Bonuses : [day |-> e.bonuses[b].day + 1, last |-> day] \in [day: Nat, last: Int]
    BY <2>2
  <2>4. due \subseteq Bonuses BY DEF due, BonusesDue
  <2>5. a.next_mail_id = e.next_mail_id + Cardinality(due)
        /\ a.mails = e.mails \union {BonusMail(e, b) : b \in due}
    BY <1>1 DEF SentTo, due
  <2>6. a.bonuses \in [Bonuses -> [day: Nat, last: Int]] BY <1>3, <2>1, <2>3
  <2> QED BY <2>1, <2>4, <2>5, <2>6
<1>5. due \subseteq Bonuses /\ \A b \in due : e.bonuses[b].last # day BY DEF BonusesDue, BonusDue
<1> HIDE DEF due
<1>6. \A b \in Bonuses : /\ e.bonuses[b].day \in Nat /\ a.bonuses[b].day \in Nat
                         /\ e.bonuses[b].last \in Int /\ a.bonuses[b].last \in Int
                         /\ e.bonuses[b].last <= day
                         /\ e.bonuses[b].day <= a.bonuses[b].day
                         /\ e.bonuses[b].last <= a.bonuses[b].last /\ a.bonuses[b].last <= day
  <2> SUFFICES ASSUME NEW b \in Bonuses
               PROVE  /\ e.bonuses[b].day \in Nat /\ a.bonuses[b].day \in Nat
                      /\ e.bonuses[b].last \in Int /\ a.bonuses[b].last \in Int
                      /\ e.bonuses[b].last <= day
                      /\ e.bonuses[b].day <= a.bonuses[b].day
                      /\ e.bonuses[b].last <= a.bonuses[b].last /\ a.bonuses[b].last <= day
    OBVIOUS
  <2>1. e.bonuses[b].day \in Nat /\ a.bonuses[b].day \in Nat
        /\ e.bonuses[b].last \in Int /\ a.bonuses[b].last \in Int
    BY <1>3, <1>4
  <2>2. e.bonuses[b].last <= day BY DEF MailsInOrder
  <2>3. CASE b \in due BY <1>4, <2>1, <2>2, <2>3
  <2>4. CASE b \notin due BY <1>4, <2>1, <2>2, <2>4
  <2> QED BY <2>3, <2>4
<1>7. \A m \in e.mails : /\ m.id \in Nat /\ m.step \in Nat /\ m.bonus \in Bonuses
                         /\ m.id <= e.next_mail_id /\ m.step <= e.bonuses[m.bonus].day
  BY <1>3 DEF Mail, MailsInOrder
<1>8. a.next_mail_id \in Nat /\ e.next_mail_id <= a.next_mail_id BY <1>2, <1>3, <1>4
<1>9. \A b \in due : BonusMail(e, b).id \in Nat /\ BonusMail(e, b).step \in Nat
  BY <1>2 DEF Mail
<1>10. a.mails \subseteq Mail BY <1>2, <1>3, <1>4
<1>11. MailsInOrder(a)
  <2>1. ASSUME NEW m \in a.mails PROVE m.id <= a.next_mail_id /\ m.step <= a.bonuses[m.bonus].day
    <3>1. CASE m \in e.mails
      <4>1. /\ m.id \in Nat /\ m.step \in Nat /\ m.bonus \in Bonuses
            /\ m.id <= e.next_mail_id /\ m.step <= e.bonuses[m.bonus].day
        BY <1>7, <3>1
      <4>2. /\ e.bonuses[m.bonus].day \in Nat /\ a.bonuses[m.bonus].day \in Nat
            /\ e.bonuses[m.bonus].day <= a.bonuses[m.bonus].day
        BY <1>6, <4>1
      <4>3. m.id <= a.next_mail_id BY <1>3, <1>8, <4>1
      <4>4. m.step <= a.bonuses[m.bonus].day BY ONLY <4>1, <4>2
      <4> QED BY <4>3, <4>4
    <3>2. CASE \E b \in due : m = BonusMail(e, b)
      <4>1. PICK b \in due : m = BonusMail(e, b) BY <3>2
      <4> QED BY <1>2, <1>4, <1>6, <1>9, <4>1
    <3> QED BY <1>4, <3>1, <3>2
  <2>2. ASSUME NEW m \in e.mails, NEW n \in e.mails,
               m.id = n.id \/ (m.bonus = n.bonus /\ m.step = n.step)
        PROVE  m = n
    BY <2>2 DEF MailsInOrder
  <2>3. ASSUME NEW m \in e.mails, NEW b \in due, NEW n, n = BonusMail(e, b)
        PROVE  m.id # n.id /\ ~(m.bonus = n.bonus /\ m.step = n.step)
    <3>1. m.id # n.id BY <1>2, <1>3, <1>7, <1>9, <2>3
    <3>2. ~(m.bonus = n.bonus /\ m.step = n.step) BY <1>2, <1>5, <1>6, <1>7, <2>3
    <3> QED BY <3>1, <3>2
  <2>4. ASSUME NEW b \in due, NEW c \in due, NEW m, NEW n, m = BonusMail(e, b), n = BonusMail(e, c),
               m.id = n.id \/ (m.bonus = n.bonus /\ m.step = n.step)
        PROVE  m = n
    <3>1. b = c BY <1>2, <2>4
    <3> QED BY <2>4, <3>1
  <2>5. ASSUME NEW m \in a.mails, NEW n \in a.mails,
               m.id = n.id \/ (m.bonus = n.bonus /\ m.step = n.step)
        PROVE  m = n
    <3>1. m \in e.mails \/ \E b \in due : m = BonusMail(e, b) BY <1>4
    <3>2. n \in e.mails \/ \E b \in due : n = BonusMail(e, b) BY <1>4
    <3> QED BY <2>2, <2>3, <2>4, <2>5, <3>1, <3>2
  <2> QED BY <1>6, <2>1, <2>5 DEF MailsInOrder
<1>12. AcctOK(a)
  <2>1. /\ AcctType["bonuses"] = [Bonuses -> [day: Nat, last: Int]]
        /\ AcctType["next_mail_id"] = Nat /\ AcctType["mails"] = SUBSET Mail
    BY DEF AcctType
  <2>2. \A f \in {"bonuses", "next_mail_id", "mails"} : a[f] \in AcctType[f]
    BY <1>4, <1>8, <1>10, <2>1
  <2>3. e \in HomeAccts BY DEF AcctOK
  <2>4. a \in HomeAccts BY <1>1, <2>2, <2>3, AcctUpdate
  <2>5. a.missions = e.missions /\ a.counts = e.counts BY <1>1 DEF Same, AcctFields
  <2> QED BY <2>4, <2>5, SameTimely
<1>13. /\ a.missions = e.missions /\ a.counts = e.counts
       /\ a.tabs = e.tabs /\ a.battle_steps = e.battle_steps /\ a.guides = e.guides
       /\ a.multi = e.multi /\ a.recipes = e.recipes /\ a.recipe_counts = e.recipe_counts
  BY <1>1 DEF Same, AcctFields
<1>14. ASSUME NEW k, k[3] \in Nat, k[4] \in Nat, Written(e, k) PROVE Written(a, k)
  <2>1. RecordsWritten(a, {k}) BY <1>13, <1>14, SameRecords DEF Written
  <2>2. StepsWritten(a, {k})
    <3>1. StepsWritten(e, {k}) BY <1>14 DEF Written
    <3> QED BY <1>13, <3>1, Zenon DEF StepsWritten
  <2>3. BonusesWritten(e, {k}) BY <1>14 DEF Written
  <2>4. k[1] = "bonus" => k[2] \in Bonuses /\ k[4] <= a.bonuses[k[2]].last + 1
    <3>1. k[1] = "bonus" => k[2] \in Bonuses /\ k[4] <= e.bonuses[k[2]].last + 1
      BY <2>3 DEF BonusesWritten
    <3> QED BY <1>6, <1>14, <3>1
  <2>5. ASSUME k[1] = "mail"
        PROVE  /\ k[2] \in Bonuses /\ k[3] <= a.bonuses[k[2]].day
               /\ \A m \in a.mails : (m.bonus = k[2] /\ m.step = k[3]) => m.opened
    <3>1. /\ k[2] \in Bonuses /\ k[3] <= e.bonuses[k[2]].day
          /\ \A m \in e.mails : (m.bonus = k[2] /\ m.step = k[3]) => m.opened
      BY <2>3, <2>5 DEF BonusesWritten
    <3>2. k[3] <= a.bonuses[k[2]].day BY <1>6, <1>14, <3>1
    <3>3. ASSUME NEW b \in due, BonusMail(e, b).bonus = k[2], BonusMail(e, b).step = k[3] PROVE FALSE
      BY <1>2, <1>5, <1>6, <1>14, <3>1, <3>3
    <3>4. ASSUME NEW m \in a.mails, m.bonus = k[2], m.step = k[3] PROVE m.opened
      <4>1. m \in e.mails BY <1>4, <3>3, <3>4
      <4> QED BY <3>1, <3>4, <4>1
    <3> QED BY <3>1, <3>2, <3>4
  <2>6. BonusesWritten(a, {k}) BY <2>4, <2>5 DEF BonusesWritten
  <2> QED BY <2>1, <2>2, <2>6 DEF Written
<1>15. KeepsWritten(e, a) BY <1>14, Zenon DEF KeepsWritten
<1>16. \A k \in S : \E b \in due : k[1] = "bonus" /\ k[2] = b /\ k[3] = 0 /\ k[4] = day + 1
  <2>1. reset_at(1, day) = day + 1 BY ResetAt
  <2> SUFFICES ASSUME NEW b \in due, NEW k, k = Reward("bonus", b, 0, 1)
               PROVE  k[1] = "bonus" /\ k[2] = b /\ k[3] = 0 /\ k[4] = day + 1
    BY Zenon
  <2> QED BY <2>1 DEF Reward
<1>17. PaysOnce(e, a, S)
  <2> SUFFICES ASSUME NEW k \in S
               PROVE  k[3] \in Nat /\ k[4] \in Nat /\ ~Written(e, k) /\ Written(a, k)
    BY Zenon DEF PaysOnce
  <2>1. PICK b \in due : k[1] = "bonus" /\ k[2] = b /\ k[3] = 0 /\ k[4] = day + 1 BY <1>16
  <2>2. b \in Bonuses /\ e.bonuses[b].last < day /\ a.bonuses[b].last = day
    <3>1. b \in Bonuses /\ e.bonuses[b].last # day BY <1>5
    <3>2. e.bonuses[b].last \in Int /\ e.bonuses[b].last <= day BY <1>6, <3>1
    <3>3. a.bonuses[b].last = day BY <1>4
    <3> QED BY <3>1, <3>2, <3>3
  <2>3. ~(k[4] <= e.bonuses[b].last + 1) /\ k[4] <= a.bonuses[b].last + 1 BY <1>6, <2>1, <2>2
  <2>4. ~Written(e, k) BY <2>1, <2>3 DEF Written, BonusesWritten
  <2>5. RecordsWritten(a, {k}) BY <2>1 DEF RecordsWritten
  <2>6. StepsWritten(a, {k}) BY <2>1 DEF StepsWritten
  <2>7. BonusesWritten(a, {k}) BY <2>1, <2>2, <2>3 DEF BonusesWritten
  <2>8. k[3] \in Nat /\ k[4] \in Nat BY <2>1
  <2> QED BY <2>4, <2>5, <2>6, <2>7, <2>8 DEF Written
<1>18. PaysOthers(r, t, S)
  <2>1. \A k \in S : k[1] # "mission" BY <1>16
  <2> HIDE DEF S
  <2> QED BY <1>1, <2>1 DEF PaysOthers
<1> HIDE DEF S
<1> QED BY <1>1, <1>11, <1>12, <1>15, <1>17, <1>18

\* A history in which neither resources nor the collection happened.
SameResources(h) ==
    /\ h.memorias = happened.memorias /\ h.skips = happened.skips /\ h.additions = happened.additions
    /\ h.events[Collection] = happened.events[Collection]
    /\ \A s \in Sources : h.events[s] = happened.events[s]

\* One event that is no resource is written down for today and advances missions.
LEMMA EventHappens ==
    ASSUME HomeIInv, NEW kind, NEW n, NEW event, event = <<kind, n>>, event \in Events,
           event # Collection, event \notin Sources, NEW amounts, amounts = [p \in {n} |-> 1],
           NEW h, h = Happen(happened, kind, amounts),
           NEW x, AcctOK(x), NEW b, b = advance_mission_event(x, event, 1)
    PROVE  /\ HistoryOK(h) /\ EventsOK(h.events) /\ EventsOK(Seen(h.events))
           /\ SameResources(h) /\ Earned(DOMAIN paid, h.events) /\ Earned(DOMAIN paid, Seen(h.events))
           /\ Kept(x, happened.events) => Kept(b, h.events)
           /\ Kept(x, Seen(happened.events)) => Kept(b, Seen(h.events))
<1> DEFINE ev == happened.events
<1>1. /\ HistoryOK(happened) /\ EventsOK(ev) /\ EventsOK(Seen(ev)) /\ day \in FirstDay..MaxDay
      /\ Earned(DOMAIN paid, Seen(ev)) /\ day \in Days /\ Earned(DOMAIN paid, ev)
  BY SoundNow DEF HomeIInv, Sound
<1>2. /\ HistoryOK(h) /\ h.memorias = happened.memorias
      /\ h.skips = happened.skips /\ h.additions = happened.additions /\ MoreOf(ev, h.events, event, 1)
  <2> DEFINE one == 1
  <2>1. one \in Nat /\ amounts = [p \in {n} |-> one] OBVIOUS
  <2> HIDE DEF one
  <2>2. HistoryOK(h) /\ h.memorias = happened.memorias
        /\ h.skips = happened.skips /\ h.additions = happened.additions
    BY ONLY <1>1, <2>1, event = <<kind, n>>, event \in Events, h = Happen(happened, kind, amounts), HappenOne
  <2>3. MoreOf(ev, h.events, event, one)
    BY ONLY <1>1, <2>1, event = <<kind, n>>, event \in Events, h = Happen(happened, kind, amounts), HappenOne
  <2> QED BY <2>2, <2>3 DEF one
<1>3. EventsOK(h.events) BY <1>2, HistoryTypes
<1> DEFINE now == Seen(ev)
           mid == Seen(h.events)
<1>4. MoreOf(now, mid, event, 1)
  <2>1. 1 \in Nat OBVIOUS
  <2> QED BY <1>1, <1>2, <1>3, <2>1, SeenMore
<1>5. EventsOK(mid) BY <1>4, Zenon DEF MoreOf
<1>6. ASSUME NEW c \in Sources \union {Collection} PROVE h.events[c] = ev[c]
  <2>1. c \in Events /\ c # event BY EventsFinite
  <2>2. \A d \in Days : h.events[c][d] = ev[c][d] BY <1>2, <2>1, Zenon DEF MoreOf
  <2> QED BY <1>1, <1>3, <2>1, <2>2, RowSame
<1>7. SameResources(h) BY <1>2, <1>6 DEF SameResources
<1> HIDE DEF now, mid
<1>8. Earned(DOMAIN paid, mid)
  <2>1. EventsOK(now) /\ Earned(DOMAIN paid, now) BY <1>1 DEF now
  <2>2. NoLess(now, mid) BY <1>1, <1>4, <2>1, MoreNoLess
  <2> QED BY <2>1, <2>2, EarnedLater
<1>9. Earned(DOMAIN paid, h.events)
  <2>1. NoLess(ev, h.events) BY <1>1, <1>2, MoreNoLess
  <2> QED BY <1>1, <2>1, EarnedLater
<1>10. Kept(x, ev) => Kept(b, h.events)
  <2>1. 1 \in Nat OBVIOUS
  <2> QED BY <1>1, <1>2, <2>1, KeptEvent
<1>11. Kept(x, now) => Kept(b, mid)
  <2>1. 1 \in Nat /\ EventsOK(now) BY <1>1 DEF now
  <2> QED BY <1>1, <1>4, <2>1, KeptEvent
<1> QED BY <1>2, <1>3, <1>5, <1>7, <1>8, <1>9, <1>10, <1>11 DEF now, mid

LEMMA NowSame == HomeIInv => SameResources(happened)
BY DEF SameResources

\* Bonuses are sent, and the first time on a day missions hear of it.
LEMMA LoginKeepsHome ==
    ASSUME HomeIInv, login_bonus
    PROVE  HomeIInv'
<1> DEFINE e == Entering(FALSE).acct
           login == <<"login", 0>>
           today == acct.login_day = day
           x == [e EXCEPT !["login_day"] = day]
           b == IF e.login_day = day THEN e ELSE advance_mission_event(x, login, 1)
           u == [Given(e, paid) EXCEPT !.acct = b]
           t == SendBonuses(u)
           a == t.acct
           amounts == [n \in {0} |-> 1]
           h == IF acct.login_day = day THEN happened ELSE Happen(happened, "login", amounts)
<1>0. /\ e = Entering(FALSE).acct /\ x = [e EXCEPT !["login_day"] = day]
      /\ t = SendBonuses(u) /\ a = t.acct
  OBVIOUS
<1>1. Entering(FALSE) = Given(e, paid) /\ Ledger(e, paid) /\ AcctOK(e) /\ e.initialized # -1
      /\ Same(acct, e, {"initialized", "tasks", "touched", "missions", "counts", "multi", "memoria_history"})
  <2> HIDE DEF e
  <2> QED BY <1>0, EnteringIs
<1>2. Quiet(e) /\ e \in HomeAccts
  <2> HIDE DEF e
  <2> QED BY <1>0, EnteredQuiet
<1>3. reduce_home_inner(t, h)
  <2>1. Given(e, paid).acct = e BY DEF Given
  <2>2. reduce_home_inner(SendBonuses([Given(e, paid) EXCEPT !.acct =
            IF e.login_day = day THEN e
            ELSE advance_mission_event([e EXCEPT !.login_day = day], <<"login", 0>>, 1)]),
          IF acct.login_day = day THEN happened ELSE Happen(happened, "login", [n \in {0} |-> 1]))
    BY <1>1, <2>1, Zenon DEF login_bonus, HomeRequest
  <2> QED BY <2>2, Zenon
<1> HIDE DEF e
<1>4. day \in Nat /\ day \in Days /\ day \in FirstDay..MaxDay BY SoundNow
<1>5. e.login_day = acct.login_day BY <1>1 DEF Same, AcctFields
<1>6. AcctOK(x) /\ Same(e, x, {"login_day"})
  <2>1. AcctType["login_day"] = Int /\ "login_day" \in AcctFields \ {"missions", "counts"}
    BY DEF AcctType, AcctFields
  <2>2. day \in AcctType["login_day"] BY <1>4, <2>1
  <2> HIDE DEF x
  <2>3. AcctOK(x) BY ONLY <1>0, <1>1, <2>1, <2>2, FieldSet
  <2>4. Same(e, x, {"login_day"}) BY ONLY <1>0, <1>1, <2>1, <2>2, FieldSet
  <2> QED BY <2>3, <2>4
<1> HIDE DEF x
<1>7. x.missions = e.missions BY <1>6 DEF Same, AcctFields
<1>8. login \in Events /\ login # Collection /\ login \notin Sources
  BY DEF Events, Collection, Sources
<1>9. Kept(e, Seen(happened.events)) BY <1>2 DEF Quiet
<1>10. /\ AcctOK(b) /\ Onward(e, b) /\ Same(e, b, {"login_day", "tasks", "touched", "missions"})
       /\ HistoryOK(h) /\ EventsOK(h.events) /\ EventsOK(Seen(h.events))
       /\ SameResources(h) /\ Earned(DOMAIN paid, Seen(h.events)) /\ Kept(b, Seen(h.events))
  <2>1. CASE today
    <3>1. b = e /\ h = happened BY <1>5, <2>1
    <3>2. AcctOK(e) /\ Onward(e, e) /\ Same(e, e, {"login_day", "tasks", "touched", "missions"})
      <4>1. Same(e, e, {}) BY <1>2, SameSelf
      <4>2. Onward(e, e) BY <1>1, <1>2, <4>1, SameOnward
      <4>3. Same(e, e, {"login_day", "tasks", "touched", "missions"}) BY <4>1, SameMore
      <4> QED BY <1>1, <4>2, <4>3
    <3>3. /\ HistoryOK(happened) /\ EventsOK(happened.events) /\ EventsOK(Seen(happened.events))
          /\ SameResources(happened) /\ Earned(DOMAIN paid, Seen(happened.events))
      BY SoundNow, NowSame
    <3> QED BY <1>9, <3>1, <3>2, <3>3
  <2>2. CASE ~today
    <3> DEFINE c == advance_mission_event(x, login, 1)
               g == Happen(happened, "login", amounts)
    <3>1. b = c /\ h = g BY <1>5, <2>2
    <3>2. c = advance_mission_event(x, login, 1) /\ g = Happen(happened, "login", amounts) /\ 1 \in Nat
      OBVIOUS
    <3> HIDE DEF c, g
    <3>3. Advances(x, c) /\ Same(x, c, {"tasks", "touched", "missions"})
      <4>1. x \in HomeAccts BY <1>6 DEF AcctOK
      <4>2. Advances(x, c) BY ONLY <1>4, <1>6, <3>2, TickedAdvances
      <4>3. Same(x, c, {"tasks", "touched", "missions"}) BY ONLY <3>2, <4>1, EventIs
      <4> QED BY <4>2, <4>3
    <3>4. AcctOK(c) /\ Onward(x, c) BY <3>3, AdvancesOK, AdvancesOnward
    <3>5. Onward(e, x) BY <1>1, <1>6, SameOnward DEF AcctOK
    <3>6. Onward(e, c) BY <1>2, <3>4, <3>5, OnwardTwice
    <3>7. Same(e, c, {"login_day", "tasks", "touched", "missions"})
      <4>1. Same(e, c, {"login_day"} \union {"tasks", "touched", "missions"})
        BY <1>6, <3>3, SameTwice
      <4> QED BY <4>1, SameMore
    <3>8. /\ HistoryOK(g) /\ EventsOK(g.events) /\ EventsOK(Seen(g.events))
          /\ SameResources(g) /\ Earned(DOMAIN paid, Seen(g.events))
          /\ Kept(x, Seen(happened.events)) => Kept(c, Seen(g.events))
      <4> DEFINE kind == "login"
                 n == 0
      <4>1. login = <<kind, n>> /\ amounts = [p \in {n} |-> 1] /\ g = Happen(happened, kind, amounts)
        BY <3>2
      <4> HIDE DEF kind, n, login, amounts
      <4>2. c = advance_mission_event(x, login, 1) BY <3>2
      <4>3. HistoryOK(g) /\ EventsOK(g.events) /\ EventsOK(Seen(g.events))
        BY <1>6, <1>8, <4>1, <4>2, EventHappens
      <4>4. SameResources(g) /\ Earned(DOMAIN paid, Seen(g.events)) BY <1>6, <1>8, <4>1, <4>2, EventHappens
      <4>5. Kept(x, Seen(happened.events)) => Kept(c, Seen(g.events))
        BY <1>6, <1>8, <4>1, <4>2, EventHappens
      <4> QED BY <4>3, <4>4, <4>5
    <3>9. Kept(x, Seen(happened.events))
      <4>1. \A m \in Missions : Counted(x, m) = Counted(e, m) BY <1>7, SameMissionsCount
      <4> QED BY <1>9, <4>1, KeptSame
    <3> QED BY <3>1, <3>4, <3>6, <3>7, <3>8, <3>9
  <2> QED BY <2>1, <2>2
<1> HIDE DEF b, h, login, amounts
<1>11. Outcome(u) /\ u.acct = b /\ u.paid = paid /\ u.ok = TRUE
  BY DEF Given, Outcome
<1> HIDE DEF u, t, a
<1>12. MailsInOrder(b) BY <1>2, <1>10, OnwardMails DEF Quiet
<1>13. AcctOK(a) /\ Same(b, a, {"bonuses", "next_mail_id", "mails"})
       /\ MailsInOrder(a) /\ KeepsWritten(b, a)
       /\ \E S : PaysOthers(u, t, S) /\ PaysOnce(b, a, S)
  <2>1. AcctOK(a) /\ Same(b, a, {"bonuses", "next_mail_id", "mails"})
    BY ONLY <1>0, <1>4, <1>10, <1>11, <1>12, BonusesSent
  <2>2. MailsInOrder(a) /\ KeepsWritten(b, a) BY ONLY <1>0, <1>4, <1>10, <1>11, <1>12, BonusesSent
  <2>3. \E S : PaysOthers(u, t, S) /\ PaysOnce(b, a, S)
    BY ONLY <1>0, <1>4, <1>10, <1>11, <1>12, BonusesSent
  <2> QED BY <2>1, <2>2, <2>3
<1>14. PICK S : PaysOthers(u, t, S) /\ PaysOnce(b, a, S) BY <1>13
<1>15. t.paid = paid (+) SetToBag(S) /\ \A k \in S : k[1] # "mission" BY <1>11, <1>14 DEF PaysOthers
<1>16. Ledger(a, t.paid) /\ DOMAIN t.paid = DOMAIN paid \union S
  <2>1. Ledger(b, paid) BY <1>1, <1>2, <1>10, OnwardLedger
  <2> QED BY <1>13, <1>14, <1>15, <2>1, LedgerPaid
<1>17. Earned(DOMAIN t.paid, Seen(h.events))
  <2>1. Earned(S, Seen(h.events)) BY <1>15, OthersEarned
  <2> QED BY <1>10, <1>16, <2>1, EarnedMore
<1>18. /\ a.missions = b.missions /\ a.items = e.items /\ a.clears = e.clears
       /\ a.active = e.active /\ a.battle_progress = e.battle_progress /\ a.episode = e.episode
       /\ a.memorias = e.memorias /\ a.memoria_history = e.memoria_history
       /\ a.initialized = e.initialized
  BY <1>10, <1>13 DEF Same, AcctFields
<1>19. /\ a.items = acct.items /\ a.clears = acct.clears /\ a.active = acct.active
       /\ a.battle_progress = acct.battle_progress /\ a.episode = acct.episode
       /\ a.memoria_history \union a.memorias = happened.memorias
  BY <1>2, <1>18 DEF Quiet
<1> DEFINE mid == Seen(h.events)
<1>20. Kept(a, mid)
  <2>1. \A m \in Missions : Counted(a, m) = Counted(b, m) BY <1>18, SameMissionsCount
  <2> QED BY <1>10, <2>1, KeptSame
<1>21. MoreOfResources(mid, Seen(h.events), acct, a)
  <2>1. acct \in HomeAccts BY SoundNow
  <2>2. EventsOK(mid) /\ \A c \in Events : \A d \in Days : mid[c][d] = mid[c][d] BY <1>10
  <2> HIDE DEF mid
  <2>3. MoreOfResources(mid, mid, acct, a) BY ONLY <1>4, <1>19, <2>1, <2>2, NothingMore
  <2> QED BY <2>3 DEF mid
<1>22. mid[Collection] = Seen(happened.events)[Collection]
  <2>1. h.events[Collection] = happened.events[Collection] BY <1>10 DEF SameResources
  <2>2. EventsOK(happened.events) BY SoundNow
  <2>3. Collection \in Events BY EventsFinite
  <2>4. \A d \in Days : mid[Collection][d] = Seen(happened.events)[Collection][d]
    <3> SUFFICES ASSUME NEW d \in Days PROVE mid[Collection][d] = Seen(happened.events)[Collection][d]
      OBVIOUS
    <3>1. CASE d = day BY <1>10, <2>2, <3>1, SeenIsAt
    <3>2. CASE d # day
      <4>1. mid[Collection][d] = h.events[Collection][d] BY <1>10, <2>3, <3>2, SeenIsAt
      <4>2. Seen(happened.events)[Collection][d] = happened.events[Collection][d]
        BY <2>2, <2>3, <3>2, SeenIsAt
      <4> QED BY <2>1, <4>1, <4>2
    <3> QED BY <3>1, <3>2
  <2>5. EventsOK(Seen(happened.events)) BY SoundNow
  <2> QED BY <1>10, <2>3, <2>4, <2>5, RowSame
<1>23. ResourcesCounted(a, h.events)
  <2>1. \A s : Total(a, s) = Total(acct, s) BY ONLY <1>19, TotalsSame
  <2>2. ResourcesCounted(acct, happened.events) BY SoundNow
  <2>3. \A s \in Sources : h.events[s] = happened.events[s] BY <1>10 DEF SameResources
  <2> QED BY <2>1, <2>2, <2>3, Zenon DEF ResourcesCounted
<1>24. BattleReported(a, requests)
  <2>1. BattleReported(acct, requests) BY SoundNow
  <2> QED BY <1>19, <2>1, Zenon DEF BattleReported
<1>25. SkipsCounted(a, h)
  <2>1. SkipsCounted(acct, happened) BY SoundNow
  <2>2. h.skips = happened.skips /\ h.additions = happened.additions BY <1>10 DEF SameResources
  <2> QED BY <1>19, <2>1, <2>2, Zenon DEF SkipsCounted
<1>26. a.initialized # -1 BY <1>1, <1>18
<1>27. h.events[Collection] = happened.events[Collection] /\ h.memorias = happened.memorias
  BY <1>10 DEF SameResources
<1>28. EventsOK(mid) BY <1>10
<1> HIDE DEF mid
<1> QED BY <1>0, <1>3, <1>10, <1>13, <1>16, <1>17, <1>19, <1>20, <1>21, <1>22, <1>23, <1>24, <1>25,
           <1>26, <1>27, <1>28, HomeDone

-----------------------------------------------------------------------------
(* Battles *)

\* A request that changes the battle of an account that may have heard of an event.
LEMMA BattleGoes ==
    ASSUME HomeIInv, NEW b, AcctOK(b), Onward(acct, b), Same(acct, b, {"tasks", "touched", "missions"}),
           NEW h, HistoryOK(h), SameResources(h), Earned(DOMAIN paid, h.events), Kept(b, h.events),
           acct.initialized # -1 => Projected(b),
           NEW a, AcctOK(a), Same(b, a, {"active", "battle_progress"}),
           BattleReported(a, requests + 1), Request(a, h, paid)
    PROVE  HomeIInv'
<1>1. /\ a.missions = b.missions /\ a.tasks = b.tasks
      /\ a.items = acct.items /\ a.clears = acct.clears /\ b.items = acct.items /\ b.clears = acct.clears
      /\ a.episode = acct.episode /\ a.memorias = acct.memorias
      /\ a.memoria_history = acct.memoria_history /\ a.initialized = acct.initialized
  BY DEF Same, AcctFields
<1>2. Onward(b, a) BY SameOnward DEF AcctOK
<1>3. acct \in HomeAccts /\ Ledger(acct, paid) /\ MailsInOrder(acct) BY SoundNow
<1>4. Onward(acct, a) BY <1>2, <1>3, OnwardTwice
<1>5. Ledger(a, paid) /\ MailsInOrder(a) BY <1>3, <1>4, OnwardLedger, OnwardMails
<1>6. Kept(a, h.events)
  <2>1. \A m \in Missions : Counted(a, m) = Counted(b, m) BY <1>1, SameMissionsCount
  <2> QED BY <2>1, KeptSame
<1>7. ResourcesCounted(a, h.events)
  <2>1. \A s : Total(a, s) = Total(acct, s) BY ONLY <1>1, TotalsSame
  <2>2. ResourcesCounted(acct, happened.events) BY SoundNow
  <2>3. \A s \in Sources : h.events[s] = happened.events[s] BY DEF SameResources
  <2> QED BY <2>1, <2>2, <2>3, Zenon DEF ResourcesCounted
<1>8. a.initialized # -1 => Projected(a)
  <2>1. a.items = b.items /\ a.clears = b.clears BY <1>1
  <2>2. \A t : state_counter_total(a, t) = state_counter_total(b, t) BY ONLY <2>1, TotalsSame
  <2> QED BY <1>1, <2>2, Zenon DEF Projected
<1>9. CollectionSeen(a, h)
  <2>1. CollectionSeen(acct, happened) BY SoundNow
  <2>2. h.memorias = happened.memorias /\ h.events[Collection] = happened.events[Collection]
    BY DEF SameResources
  <2> QED BY <1>1, <2>1, <2>2, Zenon DEF CollectionSeen
<1>10. SkipsCounted(a, h)
  <2>1. SkipsCounted(acct, happened) BY SoundNow
  <2>2. h.skips = happened.skips /\ h.additions = happened.additions BY DEF SameResources
  <2> QED BY <1>1, <2>1, <2>2, Zenon DEF SkipsCounted
<1> QED BY <1>5, <1>6, <1>7, <1>8, <1>9, <1>10, RequestDone

\* A battle begins.
LEMMA StartKeepsHome ==
    ASSUME HomeIInv, NEW q \in Quests, battle_start(q)
    PROVE  HomeIInv'
<1> DEFINE attempt == <<"quest_attempt", q>>
           amounts == [p \in {q} |-> 1]
           b == advance_mission_event(acct, attempt, 1)
           active == [quest |-> q, txid |-> requests + 1, events |-> {}]
           a == [b EXCEPT !["active"] = active]
           h == Happen(happened, "quest_attempt", amounts)
<1>0. /\ b = advance_mission_event(acct, attempt, 1) /\ a = [b EXCEPT !["active"] = active]
      /\ h = Happen(happened, "quest_attempt", amounts) /\ 1 \in Nat
  OBVIOUS
<1>1. Request(a, h, paid) BY DEF battle_start
<1>2. /\ day \in Nat /\ day \in Days /\ day \in FirstDay..MaxDay /\ requests \in Nat
      /\ AcctOK(acct) /\ acct \in HomeAccts /\ Kept(acct, happened.events)
      /\ BattleReported(acct, requests) /\ (acct.initialized # -1 => Projected(acct))
  BY SoundNow DEF HomeIInv, Sound
<1>3. attempt \in Events /\ attempt # Collection /\ attempt \notin Sources
  BY DEF Events, Collection, Sources
<1> HIDE DEF a, b, h
<1>4. /\ HistoryOK(h) /\ SameResources(h) /\ Earned(DOMAIN paid, h.events) /\ Kept(b, h.events)
  <2> DEFINE kind == "quest_attempt"
  <2>1. attempt = <<kind, q>> /\ amounts = [p \in {q} |-> 1] /\ h = Happen(happened, kind, amounts)
    BY <1>0
  <2>2. b = advance_mission_event(acct, attempt, 1) BY <1>0
  <2> HIDE DEF kind, attempt, amounts
  <2>3. HistoryOK(h) /\ SameResources(h) BY <1>2, <1>3, <2>1, <2>2, EventHappens
  <2>4. Earned(DOMAIN paid, h.events) BY <1>2, <1>3, <2>1, <2>2, EventHappens
  <2>5. Kept(acct, happened.events) => Kept(b, h.events) BY <1>2, <1>3, <2>1, <2>2, EventHappens
  <2> QED BY <1>2, <2>3, <2>4, <2>5
<1>5. AcctOK(b) /\ Onward(acct, b) /\ Same(acct, b, {"tasks", "touched", "missions"})
  <2>1. Advances(acct, b) BY ONLY <1>0, <1>2, TickedAdvances
  <2>2. Same(acct, b, {"tasks", "touched", "missions"}) BY ONLY <1>0, <1>2, EventIs
  <2> QED BY <2>1, <2>2, AdvancesOK, AdvancesOnward
<1>6. acct.initialized # -1 => Projected(b)
  <2> HIDE DEF attempt
  <2> QED BY <1>0, <1>2, <1>3, ProjectedEvent
<1>7. active \in [quest: Quests \union {None}, txid: Nat, events: SUBSET BattleEvents]
  BY <1>2
<1>8. AcctOK(a) /\ Same(b, a, {"active"}) /\ a["active"] = active
  <2>1. /\ AcctType["active"] = [quest: Quests \union {None}, txid: Nat, events: SUBSET BattleEvents]
        /\ "active" \in AcctFields \ {"missions", "counts"}
    BY DEF AcctType, AcctFields
  <2>2. active \in AcctType["active"] BY <1>7, <2>1
  <2> HIDE DEF active
  <2>3. AcctOK(a) BY ONLY <1>0, <1>5, <2>1, <2>2, FieldSet
  <2>4. Same(b, a, {"active"}) BY ONLY <1>0, <1>5, <2>1, <2>2, FieldSet
  <2>5. DOMAIN b = AcctFields BY <1>5, AcctFunction DEF AcctOK
  <2> QED BY <1>0, <2>1, <2>3, <2>4, <2>5
<1>9. BattleReported(a, requests + 1)
  <2>1. acct.battle_progress.txid <= requests BY <1>2 DEF BattleReported
  <2>2. acct.battle_progress.txid \in Nat BY <1>2, AcctTypes
  <2>3. a.battle_progress = acct.battle_progress BY <1>5, <1>8 DEF Same, AcctFields
  <2>4. a.active.txid = requests + 1 /\ a.active.events = {} BY <1>8
  <2>5. /\ a.battle_progress.txid <= requests + 1 /\ a.active.txid <= requests + 1
        /\ a.battle_progress.txid # a.active.txid
    BY <1>2, <2>1, <2>2, <2>3, <2>4
  <2> QED BY <2>4, <2>5, Zenon DEF BattleReported
<1>10. Same(b, a, {"active", "battle_progress"}) BY <1>8, SameMore
<1> QED BY <1>1, <1>4, <1>5, <1>6, <1>8, <1>9, <1>10, BattleGoes

\* What an account is when a battle of it changes and nothing else.
LEMMA BattleOnly ==
    ASSUME HomeIInv, NEW x \in [quest: Quests \union {None}, txid: Nat, events: SUBSET BattleEvents],
           NEW y \in [txid: Nat, events: SUBSET BattleEvents],
           NEW c, c = [acct EXCEPT !["active"] = x], NEW a, a = [c EXCEPT !["battle_progress"] = y],
           BattleReported(a, requests + 1), Request(a, happened, paid)
    PROVE  HomeIInv'
<1>1. /\ AcctOK(acct) /\ acct \in HomeAccts /\ HistoryOK(happened) /\ Kept(acct, happened.events)
      /\ Earned(DOMAIN paid, happened.events) /\ (acct.initialized # -1 => Projected(acct))
  BY SoundNow DEF HomeIInv, Sound
<1>2. SameResources(happened) BY NowSame
<1>3. Same(acct, acct, {}) BY <1>1, SameSelf
<1>4. Onward(acct, acct) BY <1>1, <1>3, SameOnward
<1>5. Same(acct, acct, {"tasks", "touched", "missions"}) BY <1>3, SameMore
<1>6. AcctOK(c) /\ Same(acct, c, {"active"})
  <2>1. /\ AcctType["active"] = [quest: Quests \union {None}, txid: Nat, events: SUBSET BattleEvents]
        /\ "active" \in AcctFields \ {"missions", "counts"}
    BY DEF AcctType, AcctFields
  <2>2. x \in AcctType["active"] BY <2>1
  <2>3. c = [acct EXCEPT !["active"] = x] OBVIOUS
  <2>4. AcctOK(c) BY ONLY <1>1, <2>1, <2>2, <2>3, FieldSet
  <2>5. Same(acct, c, {"active"}) BY ONLY <1>1, <2>1, <2>2, <2>3, FieldSet
  <2> QED BY <2>4, <2>5
<1>7. AcctOK(a) /\ Same(c, a, {"battle_progress"})
  <2>1. /\ AcctType["battle_progress"] = [txid: Nat, events: SUBSET BattleEvents]
        /\ "battle_progress" \in AcctFields \ {"missions", "counts"}
    BY DEF AcctType, AcctFields
  <2>2. y \in AcctType["battle_progress"] BY <2>1
  <2>3. a = [c EXCEPT !["battle_progress"] = y] OBVIOUS
  <2>4. AcctOK(a) BY ONLY <1>6, <2>1, <2>2, <2>3, FieldSet
  <2>5. Same(c, a, {"battle_progress"}) BY ONLY <1>6, <2>1, <2>2, <2>3, FieldSet
  <2> QED BY <2>4, <2>5
<1>8. Same(acct, a, {"active", "battle_progress"})
  <2>1. Same(acct, a, {"active"} \union {"battle_progress"}) BY <1>6, <1>7, SameTwice
  <2> QED BY <2>1, SameMore
<1> QED BY <1>1, <1>2, <1>4, <1>5, <1>7, <1>8, BattleGoes

LEMMA RetireKeepsHome ==
    ASSUME HomeIInv, battle_retire
    PROVE  HomeIInv'
<1> DEFINE x == [quest |-> None, txid |-> None, events |-> {}]
           c == [acct EXCEPT !["active"] = x]
           a == [c EXCEPT !["battle_progress"] = NoProgress]
<1>0. c = [acct EXCEPT !["active"] = x] /\ a = [c EXCEPT !["battle_progress"] = NoProgress] OBVIOUS
<1>1. Request(a, happened, paid)
  <2>1. a = [acct EXCEPT !.active = x, !.battle_progress = NoProgress] OBVIOUS
  <2> QED BY <2>1, Zenon DEF battle_retire
<1>2. x \in [quest: Quests \union {None}, txid: Nat, events: SUBSET BattleEvents] BY DEF None
<1>3. NoProgress \in [txid: Nat, events: SUBSET BattleEvents] BY DEF None, NoProgress
<1>4. acct \in HomeAccts /\ requests \in Nat BY SoundNow
<1>5. DOMAIN acct = AcctFields BY <1>4, AcctFunction
<1>6. a.active = x /\ a.battle_progress = NoProgress
  <2> HIDE DEF x
  <2> QED BY <1>5 DEF AcctFields
<1> HIDE DEF a, c
<1>7. BattleReported(a, requests + 1)
  <2>1. a.active.quest = None /\ a.active.txid = 0 /\ a.battle_progress.txid = 0
    BY <1>6 DEF None, NoProgress
  <2>2. 0 <= requests + 1 BY <1>4
  <2> QED BY <2>1, <2>2 DEF BattleReported
<1> HIDE DEF x
<1> QED BY <1>0, <1>1, <1>2, <1>3, <1>7, BattleOnly

\* What happens in a battle is reported with it.
LEMMA AttackKeepsHome ==
    ASSUME HomeIInv, NEW event \in BattleEvents, battle_attack(event)
    PROVE  HomeIInv'
<1> DEFINE old == acct.active
           x == [old EXCEPT !.events = @ \union {event}]
           y == record_battle_progress(acct, event)
           c == [acct EXCEPT !["active"] = x]
           a == [c EXCEPT !["battle_progress"] = y]
<1>0. c = [acct EXCEPT !["active"] = x] /\ a = [c EXCEPT !["battle_progress"] = y] OBVIOUS
<1>1. Request(a, happened, paid)
  <2> HIDE DEF y
  <2>1. a = [acct EXCEPT !.active.events = @ \union {event}, !.battle_progress = y] OBVIOUS
  <2> QED BY <2>1, Zenon DEF battle_attack, y
<1>2. /\ acct \in HomeAccts /\ requests \in Nat /\ BattleReported(acct, requests)
      /\ acct.active.quest # None
  BY SoundNow DEF battle_attack
<1>3. /\ old \in [quest: Quests \union {None}, txid: Nat, events: SUBSET BattleEvents]
      /\ acct.battle_progress \in [txid: Nat, events: SUBSET BattleEvents]
  BY <1>2, AcctTypes
<1>4. /\ x \in [quest: Quests \union {None}, txid: Nat, events: SUBSET BattleEvents]
      /\ x.txid = old.txid /\ x.events = old.events \union {event}
  BY <1>3
<1>5. /\ old.txid <= requests
      /\ IF old.events = {} THEN acct.battle_progress.txid # old.txid
         ELSE acct.battle_progress = [txid |-> old.txid, events |-> old.events]
  BY <1>2 DEF BattleReported
<1>6. y = [txid |-> x.txid, events |-> x.events]
  <2>1. CASE old.events = {}
    <3>1. y = [[NoProgress EXCEPT !.txid = old.txid] EXCEPT !.events = @ \union {event}]
      BY <1>5, <2>1 DEF record_battle_progress
    <3>2. y = [txid |-> old.txid, events |-> {event}] BY <3>1 DEF NoProgress
    <3>3. x.events = {event} BY <1>4, <2>1
    <3> HIDE DEF x, y
    <3> QED BY <1>4, <3>2, <3>3
  <2>2. CASE old.events # {}
    <3>1. acct.battle_progress = [txid |-> old.txid, events |-> old.events] BY <1>5, <2>2
    <3>2. y = [acct.battle_progress EXCEPT !.events = @ \union {event}]
      BY <3>1 DEF record_battle_progress
    <3>3. y = [txid |-> old.txid, events |-> old.events \union {event}]
      <4> HIDE DEF old, y
      <4> QED BY <3>1, <3>2
    <3> HIDE DEF x, y
    <3> QED BY <1>4, <3>3
  <2> QED BY <2>1, <2>2
<1> HIDE DEF x, y
<1>7. y \in [txid: Nat, events: SUBSET BattleEvents] BY <1>4, <1>6
<1>8. DOMAIN acct = AcctFields BY <1>2, AcctFunction
<1>9. a.active = x /\ a.battle_progress = y BY <1>8 DEF AcctFields
<1> HIDE DEF a, c
<1>10. BattleReported(a, requests + 1)
  <2>1. a.active.txid <= requests + 1 /\ a.active.events # {} BY <1>2, <1>3, <1>4, <1>5, <1>9
  <2>2. a.battle_progress = [txid |-> a.active.txid, events |-> a.active.events] BY <1>6, <1>9
  <2>3. a.battle_progress.txid <= requests + 1 BY <2>1, <2>2
  <2> QED BY <2>1, <2>2, <2>3, Zenon DEF BattleReported
<1> QED BY <1>0, <1>1, <1>4, <1>7, <1>10, BattleOnly

\* A memoria is won in a gacha.
LEMMA WinKeepsHome ==
    ASSUME HomeIInv, NEW k \in Memorias, gacha_memoria(k)
    PROVE  HomeIInv'
<1> DEFINE won == acct.memorias \union {k}
           b == [acct EXCEPT !["memorias"] = won]
           a == resource_progress(acct, b)
           owned == happened.memorias \union {k}
           h == [happened EXCEPT !.memorias = owned]
           ev == happened.events
<1>0. b = [acct EXCEPT !["memorias"] = won] /\ a = resource_progress(acct, b) OBVIOUS
<1>1. Request(a, h, paid) BY Zenon DEF gacha_memoria
<1>2. /\ AcctOK(acct) /\ acct \in HomeAccts /\ HistoryOK(happened) /\ EventsOK(ev) /\ Kept(acct, ev)
      /\ Earned(DOMAIN paid, ev) /\ Ledger(acct, paid) /\ MailsInOrder(acct)
      /\ ResourcesCounted(acct, ev) /\ CollectionSeen(acct, happened)
      /\ BattleReported(acct, requests) /\ SkipsCounted(acct, happened)
      /\ day \in FirstDay..MaxDay /\ day \in Days /\ requests \in Nat
  BY SoundNow DEF HomeIInv, Sound
<1>3. acct.memorias \subseteq Memorias BY <1>2, AcctTypes
<1> HIDE DEF a, b
<1>4. AcctOK(b) /\ Same(acct, b, {"memorias"}) /\ b["memorias"] = won
  <2>1. AcctType["memorias"] = SUBSET Memorias /\ "memorias" \in AcctFields \ {"missions", "counts"}
    BY DEF AcctType, AcctFields
  <2>2. won \in AcctType["memorias"] BY <1>3, <2>1
  <2> HIDE DEF won
  <2>3. AcctOK(b) BY ONLY <1>0, <1>2, <2>1, <2>2, FieldSet
  <2>4. Same(acct, b, {"memorias"}) BY ONLY <1>0, <1>2, <2>1, <2>2, FieldSet
  <2>5. DOMAIN acct = AcctFields BY <1>2, AcctFunction
  <2> QED BY <1>0, <2>1, <2>3, <2>4, <2>5
<1>5. Advances(b, a) /\ Projected(a) BY <1>0, <1>2, <1>4, Progressed
<1>6. AcctOK(a) /\ Onward(acct, a)
  <2>1. Onward(acct, b) BY <1>2, <1>4, SameOnward DEF AcctOK
  <2> QED BY <1>2, <1>5, <2>1, AdvancesOK, AdvancesOnward, OnwardTwice
<1>7. /\ b.missions = acct.missions /\ b.items = acct.items /\ b.clears = acct.clears
      /\ a.items = acct.items /\ a.clears = acct.clears /\ a.active = acct.active
      /\ a.battle_progress = acct.battle_progress /\ a.episode = acct.episode
      /\ a.memorias = won /\ a.memoria_history = acct.memoria_history
  <2>1. Same(b, a, {"missions", "tasks", "touched", "counts", "multi"}) BY <1>5 DEF Advances
  <2> HIDE DEF won
  <2> QED BY <1>4, <2>1 DEF Same, AcctFields
<1>8. Kept(a, ev)
  <2>1. \A m \in Missions : Counted(b, m) = Counted(acct, m) BY <1>7, SameMissionsCount
  <2>2. Kept(b, ev) BY <1>2, <2>1, KeptSame
  <2>3. \A c \in Events : \A d \in Days : ev[c][d] = ev[c][d] OBVIOUS
  <2> HIDE DEF ev
  <2>4. MoreOfResources(ev, ev, acct, b) BY ONLY <1>2, <1>7, <2>3, NothingMore
  <2> QED BY <1>0, <1>2, <1>4, <2>2, <2>4, ProgressCounts
<1>9. owned \subseteq Memorias /\ happened.memorias \subseteq Memorias
  <2>1. happened.memorias \subseteq Memorias BY <1>2, HistoryTypes
  <2> QED BY <2>1
<1>10. HistoryOK(h) /\ h.events = ev /\ h.memorias = owned /\ h.skips = happened.skips
       /\ h.additions = happened.additions
  <2>1. happened \in [events: [Events -> [Days -> Nat]], memorias: SUBSET Memorias,
                      skips: [Days -> Nat], additions: [Days -> Nat]]
    BY <1>2, Zenon DEF HistoryOK
  <2> HIDE DEF owned
  <2>2. /\ h \in [events: [Events -> [Days -> Nat]], memorias: SUBSET Memorias,
                  skips: [Days -> Nat], additions: [Days -> Nat]]
        /\ h.events = ev /\ h.memorias = owned
        /\ h.skips = happened.skips /\ h.additions = happened.additions
    BY <1>9, <2>1
  <2> HIDE DEF h
  <2>3. HistoryOK(h) BY <1>2, <2>2, Zenon DEF HistoryOK
  <2> QED BY <2>2, <2>3
<1> HIDE DEF h
<1>11. Ledger(a, paid) /\ MailsInOrder(a) BY <1>2, <1>6, OnwardLedger, OnwardMails
<1>12. ResourcesCounted(a, h.events)
  <2>1. \A s : Total(a, s) = Total(acct, s) BY ONLY <1>7, TotalsSame
  <2> QED BY <1>2, <1>10, <2>1, Zenon DEF ResourcesCounted
<1>13. CollectionSeen(a, h)
  <2>1. happened.memorias = acct.memoria_history \union acct.memorias BY <1>2 DEF CollectionSeen
  <2>2. h.memorias = a.memoria_history \union a.memorias BY <1>7, <1>10, <2>1
  <2>3. Cardinality(happened.memorias) <= Cardinality(owned) /\ Cardinality(owned) \in Nat
        /\ Cardinality(happened.memorias) \in Nat
    <3>1. IsFiniteSet(owned) BY <1>9, CountersAssumption, FS_Subset
    <3>2. happened.memorias \in SUBSET owned OBVIOUS
    <3> HIDE DEF owned
    <3>3. Cardinality(happened.memorias) <= Cardinality(owned) BY <3>1, <3>2, FS_Subset
    <3>4. IsFiniteSet(happened.memorias) BY <3>1, <3>2, FS_Subset
    <3> QED BY <3>1, <3>3, <3>4, FS_CardinalityType
  <2>4. \A d \in Days : h.events[Collection][d] <= Cardinality(h.memorias)
    <3>1. \A d \in Days : ev[Collection][d] <= Cardinality(happened.memorias)
      BY <1>2, Zenon DEF CollectionSeen
    <3>2. Collection \in Events BY EventsFinite
    <3>3. \A d \in Days : ev[Collection][d] \in Nat BY <1>2, <3>2 DEF EventsOK
    <3>4. h.events = ev /\ h.memorias = owned BY <1>10
    <3> HIDE DEF ev, owned
    <3> QED BY <2>3, <3>1, <3>3, <3>4
  <2> QED BY <2>2, <2>4 DEF CollectionSeen
<1>14. BattleReported(a, requests + 1)
  <2>1. BattleReported(a, requests) BY <1>2, <1>7, Zenon DEF BattleReported
  <2>2. a \in HomeAccts BY <1>6 DEF AcctOK
  <2>3. a.active.txid \in Nat /\ a.battle_progress.txid \in Nat BY <2>2, AcctTypes
  <2>4. a.battle_progress.txid <= requests + 1 /\ a.active.txid <= requests + 1
    BY <1>2, <2>1, <2>3 DEF BattleReported
  <2> QED BY <2>1, <2>4, Zenon DEF BattleReported
<1>15. SkipsCounted(a, h) BY <1>2, <1>7, <1>10, Zenon DEF SkipsCounted
<1>16. Kept(a, h.events) /\ Earned(DOMAIN paid, h.events) BY <1>2, <1>8, <1>10
<1> HIDE DEF h, ev, owned, won
<1> QED BY <1>1, <1>5, <1>6, <1>10, <1>11, <1>12, <1>13, <1>14, <1>15, <1>16, RequestDone

\* The steps of a battle are given once.
LEMMA StepsGranted ==
    ASSUME NEW r, Outcome(r), NEW e, e = r.acct, AcctOK(e), day \in Nat, Ledger(e, r.paid),
           NEW q, NEW t, t = grant_mission_battle_rewards(r, q), NEW a, a = t.acct
    PROVE  /\ AcctOK(a) /\ Same(e, a, {"battle_steps"}) /\ Ledger(a, t.paid)
           /\ \A ev : Earned(DOMAIN r.paid, ev) => Earned(DOMAIN t.paid, ev)
<1>1. CASE q \notin DOMAIN BattleSteps
  <2>1. t = r BY <1>1, Zenon DEF grant_mission_battle_rewards
  <2>2. e \in HomeAccts BY DEF AcctOK
  <2>3. Same(e, e, {}) BY <2>2, SameSelf
  <2>4. Same(e, e, {"battle_steps"}) BY <2>3, SameMore
  <2> QED BY <2>1, <2>4
<1>2. CASE q \in DOMAIN BattleSteps
  <2> DEFINE steps == BattleSteps[q].steps
             old == e.battle_steps[q]
             completed == completed_mission_count(e, BattleSteps[q].missions)
             to == Max(Reachable(steps, old, completed))
             S == Steps("battle", q, old, to, None)
             new == [e.battle_steps EXCEPT ![q] = to]
             b == [e EXCEPT !["battle_steps"] = new]
             u == [r EXCEPT !.acct = b]
  <2>0. b = [e EXCEPT !["battle_steps"] = new] OBVIOUS
  <2>1. t = Pay(u, S)
    <3>1. t = Pay([r EXCEPT !.acct.battle_steps[q] = to], S)
      BY <1>2 DEF grant_mission_battle_rewards
    <3> HIDE DEF to, S
    <3>2. [r EXCEPT !.acct.battle_steps[q] = to] = u BY Zenon
    <3> QED BY <3>1, <3>2
  <2>2. e \in HomeAccts BY DEF AcctOK
  <2>3. /\ e.battle_steps \in [DOMAIN BattleSteps -> Nat]
        /\ \A p \in DOMAIN BattleSteps : e.battle_steps[p] <= Len(BattleSteps[p].steps)
    BY <2>2, AcctTypes
  <2>4. old \in Nat /\ old <= Len(steps) /\ Len(steps) \in Nat BY <1>2, <2>3, RewardsAssumption
  <2>5. to \in Nat /\ old <= to /\ to <= Len(steps)
    <3> HIDE DEF completed, old, steps
    <3> QED BY <2>4, ReachableIs
  <2> HIDE DEF to
  <2>6. /\ new \in [DOMAIN BattleSteps -> Nat] /\ new[q] = to
        /\ \A p \in DOMAIN BattleSteps : p # q => new[p] = e.battle_steps[p]
    BY <1>2, <2>3, <2>5
  <2>7. \A k \in S : /\ k[1] = "battle" /\ k[2] = q /\ k[4] \in Nat
                     /\ k[3] \in Nat /\ old < k[3] /\ k[3] <= to
    <3> HIDE DEF old
    <3> QED BY <2>4, <2>5, StepsAre
  <2> HIDE DEF S, b, new
  <2>8. Outcome(u) /\ u.acct = b /\ u.paid = r.paid
    <3>1. u = [r EXCEPT !.acct = b] OBVIOUS
    <3> HIDE DEF u
    <3> QED BY <3>1, AcctSet
  <2> HIDE DEF u
  <2>9. a = b /\ t.paid = r.paid (+) SetToBag(S) BY <2>1, <2>8, PayIs
  <2>10. AcctOK(a) /\ Same(e, a, {"battle_steps"}) /\ a["battle_steps"] = new
    <3>1. /\ AcctType["battle_steps"] = {f \in [DOMAIN BattleSteps -> Nat] :
                        \A p \in DOMAIN BattleSteps : f[p] <= Len(BattleSteps[p].steps)}
          /\ "battle_steps" \in AcctFields \ {"missions", "counts"}
      BY DEF AcctType, AcctFields
    <3>2. new \in AcctType["battle_steps"]
      <4>1. \A p \in DOMAIN BattleSteps : new[p] <= Len(BattleSteps[p].steps) BY <2>3, <2>5, <2>6
      <4> QED BY <2>6, <3>1, <4>1
    <3>3. a = [e EXCEPT !["battle_steps"] = new] BY <2>0, <2>9
    <3>4. AcctOK(e) OBVIOUS
    <3>5. AcctOK(a) BY ONLY <3>1, <3>2, <3>3, <3>4, FieldSet
    <3>6. Same(e, a, {"battle_steps"}) BY ONLY <3>1, <3>2, <3>3, <3>4, FieldSet
    <3>7. a["battle_steps"] = new
      <4>1. DOMAIN e = AcctFields BY <2>2, AcctFunction
      <4> QED BY <3>1, <3>3, <4>1
    <3> QED BY <3>5, <3>6, <3>7
  <2>11. /\ a.missions = e.missions /\ a.counts = e.counts /\ a.bonuses = e.bonuses
         /\ a.mails = e.mails /\ a.tabs = e.tabs /\ a.guides = e.guides
         /\ a.multi = e.multi /\ a.recipes = e.recipes /\ a.recipe_counts = e.recipe_counts
    BY <2>10 DEF Same, AcctFields
  <2>12. KeepsWritten(e, a)
    <3>1. a \in HomeAccts BY <2>10 DEF AcctOK
    <3>2. \A p \in DOMAIN BattleSteps : e.battle_steps[p] <= a.battle_steps[p]
      BY <2>3, <2>4, <2>5, <2>6, <2>10
    <3>3. \A p \in Tabs : e.tabs[p] <= a.tabs[p]
      <4>1. \A p \in Tabs : e.tabs[p] \in Nat BY <2>2, AcctTypes
      <4> QED BY <2>11, <4>1
    <3>4. e.multi.received <= a.multi.received
      <4>1. e.multi.received \in Nat BY <2>2, AcctTypes
      <4> QED BY <2>11, <4>1
    <3> QED BY <2>2, <2>11, <3>1, <3>2, <3>3, <3>4, StepsKept
  <2>13. PaysOnce(e, a, S)
    <3> SUFFICES ASSUME NEW k \in S
                 PROVE  k[3] \in Nat /\ k[4] \in Nat /\ ~Written(e, k) /\ Written(a, k)
      BY Zenon DEF PaysOnce
    <3>1. ~Written(e, k) BY <2>4, <2>7 DEF Written, StepsWritten
    <3>2. Written(a, k)
      BY <1>2, <2>6, <2>7, <2>10 DEF Written, StepsWritten, RecordsWritten, BonusesWritten
    <3> QED BY <2>7, <3>1, <3>2
  <2>14. Ledger(a, t.paid) /\ DOMAIN t.paid = DOMAIN r.paid \union S
    BY <2>9, <2>12, <2>13, LedgerPaid
  <2>15. \A k \in S : k[1] # "mission" BY <2>7
  <2>16. ASSUME NEW ev, Earned(DOMAIN r.paid, ev) PROVE Earned(DOMAIN t.paid, ev)
    <3>1. Earned(S, ev) BY <2>15, OthersEarned
    <3> QED BY <2>14, <2>16, <3>1, EarnedMore
  <2> QED BY <2>10, <2>14, <2>16
<1> QED BY <1>1, <1>2

\* A battle is won: what was reported in it counts, and so does the clear.
LEMMA FinishKeepsHome ==
    ASSUME HomeIInv, battle_finish
    PROVE  HomeIInv'
<1> DEFINE q == acct.active.quest
           events == acct.active.events
           ev == happened.events
           amounts == [x \in events |-> 1]
           c == Cleared(acct, q, 1)
           d == [c EXCEPT !["battle_progress"] = NoProgress]
           won == AdvanceEach(d, "battle_win", amounts)
           u == Given(won, paid)
           t == grant_mission_battle_rewards(u, q)
           b == t.acct
           p == resource_progress(acct, b)
           over == [quest |-> None, txid |-> None, events |-> {}]
           a == [p EXCEPT !["active"] = over]
           g == Clears(happened, q, 1)
           k == Happen(happened, "battle_win", amounts)
           f == Happen(g, "battle_win", amounts)
<1>0. /\ c = Cleared(acct, q, 1) /\ d = [c EXCEPT !["battle_progress"] = NoProgress]
      /\ won = AdvanceEach(d, "battle_win", amounts) /\ t = grant_mission_battle_rewards(u, q)
      /\ b = t.acct /\ p = resource_progress(acct, b) /\ a = [p EXCEPT !["active"] = over]
      /\ g = Clears(happened, q, 1) /\ k = Happen(happened, "battle_win", amounts)
      /\ f = Happen(g, "battle_win", amounts) /\ 1 \in Nat
  OBVIOUS
<1>1. /\ AcctOK(acct) /\ acct \in HomeAccts /\ HistoryOK(happened) /\ EventsOK(ev) /\ Kept(acct, ev)
      /\ Earned(DOMAIN paid, ev) /\ Ledger(acct, paid) /\ MailsInOrder(acct)
      /\ ResourcesCounted(acct, ev) /\ CollectionSeen(acct, happened)
      /\ BattleReported(acct, requests) /\ SkipsCounted(acct, happened)
      /\ day \in FirstDay..MaxDay /\ day \in Days /\ day \in Nat /\ requests \in Nat
  BY SoundNow DEF HomeIInv, Sound
<1>2. acct.active \in [quest: Quests \union {None}, txid: Nat, events: SUBSET BattleEvents]
  BY <1>1, AcctTypes
<1>3. q \in Quests /\ events \subseteq BattleEvents /\ events # {}
  BY <1>2 DEF battle_finish
<1>4. acct.battle_progress = [txid |-> acct.active.txid, events |-> acct.active.events]
  BY <1>1, <1>3 DEF BattleReported, battle_finish
<1> HIDE DEF c
<1>5. AcctOK(c) /\ Same(acct, c, {"clears", "items"}) /\ HasCleared(acct, c, q, 1)
  <2> HIDE DEF q
  <2> QED BY <1>0, <1>1, <1>3, ClearedHas
<1>6. finish_battle_progress(c) = won
  <2>1. c.battle_progress = acct.battle_progress /\ c.active = acct.active
    BY <1>5 DEF Same, AcctFields
  <2>2. c.battle_progress.txid = c.active.txid /\ c.battle_progress.events = events
    BY <1>4, <2>1
  <2> QED BY <2>2, Zenon DEF finish_battle_progress
<1>7. Request(a, f, t.paid)
  <2>1. Request([resource_progress(acct,
                    grant_mission_battle_rewards(Given(finish_battle_progress(Cleared(acct, q, 1)), paid), q).acct)
                        EXCEPT !.active = [quest |-> None, txid |-> None, events |-> {}]],
                Happen(Clears(happened, q, 1), "battle_win", [e \in acct.active.events |-> 1]),
                grant_mission_battle_rewards(Given(finish_battle_progress(Cleared(acct, q, 1)), paid), q).paid)
    BY DEF battle_finish
  <2>2. finish_battle_progress(Cleared(acct, q, 1)) = won BY <1>0, <1>6
  <2> HIDE DEF won, q
  <2> QED BY <2>1, <2>2, Zenon
<1> HIDE DEF q, d, won, t, b, p, a, g, k, f
<1>8. Outcome(u) /\ u.acct = won /\ u.paid = paid BY DEF Given, Outcome
<1> HIDE DEF u
<1>9. AcctOK(d) /\ Same(c, d, {"battle_progress"}) /\ d["battle_progress"] = NoProgress
  <2>1. /\ AcctType["battle_progress"] = [txid: Nat, events: SUBSET BattleEvents]
        /\ "battle_progress" \in AcctFields \ {"missions", "counts"}
    BY DEF AcctType, AcctFields
  <2>2. NoProgress \in AcctType["battle_progress"] BY <2>1 DEF NoProgress, None
  <2>3. AcctOK(d) BY ONLY <1>0, <1>5, <2>1, <2>2, FieldSet
  <2>4. Same(c, d, {"battle_progress"}) BY ONLY <1>0, <1>5, <2>1, <2>2, FieldSet
  <2>5. DOMAIN c = AcctFields BY <1>5, AcctFunction DEF AcctOK
  <2> QED BY <1>0, <2>1, <2>3, <2>4, <2>5
<1>10. /\ IsFiniteSet(events) /\ DOMAIN amounts = events /\ events \subseteq Nat
       /\ \A n \in events : amounts[n] \in Nat /\ <<"battle_win", n>> \in Events
  <2>1. IsFiniteSet(events) /\ events \subseteq Nat
    <3>1. events \in SUBSET BattleEvents BY <1>3
    <3> QED BY <3>1, CountersAssumption, FS_Subset
  <2>2. \A n \in events : <<"battle_win", n>> \in Events BY <1>3 DEF Events
  <2> QED BY <2>1, <2>2
<1> DEFINE kind == "battle_win"
<1>11. /\ kind # Collection[1] /\ kind \notin {"quest_clear", "item_received", "memoria_collection"}
  BY DEF Collection
<1>12. /\ won = AdvanceEach(d, kind, amounts) /\ k = Happen(happened, kind, amounts)
       /\ f = Happen(g, kind, amounts)
  BY <1>0
<1> HIDE DEF kind
<1>13. AmountsOK(amounts) BY <1>10, Zenon DEF AmountsOK
<1>14. /\ HistoryOK(f) /\ HistoryOK(k) /\ HistoryOK(g)
       /\ f.memorias = happened.memorias /\ f.skips = happened.skips /\ f.additions = happened.additions
       /\ MoreCleared(k.events, f.events, q, 1) /\ MoreCleared(ev, g.events, q, 1)
       /\ SameClears(f, g) /\ f.events[Collection] = ev[Collection]
       /\ NoLess(ev, k.events) /\ MoreOfEach(ev, k.events, kind, amounts)
  <2> HIDE DEF amounts
  <2> QED BY <1>0, <1>1, <1>3, <1>11, <1>12, <1>13, ClearsAnd
<1>15. EventsOK(f.events) /\ EventsOK(k.events) /\ EventsOK(g.events) BY <1>14, HistoryTypes
<1>16. d.missions = acct.missions
  BY <1>5, <1>9 DEF Same, AcctFields
<1>17. Kept(d, ev)
  <2>1. \A m \in Missions : Counted(d, m) = Counted(acct, m) BY <1>16, SameMissionsCount
  <2> HIDE DEF ev
  <2> QED BY <1>1, <2>1, KeptSame
<1>18. Kept(won, k.events) /\ Advances(d, won)
  <2> DEFINE ns == DOMAIN amounts
  <2>1. IsFiniteSet(DOMAIN amounts) /\ DOMAIN amounts \subseteq Nat BY <1>10
  <2>2. \A n \in DOMAIN amounts : amounts[n] \in Nat /\ <<kind, n>> \in Events BY <1>10 DEF kind
  <2>3. \A n \in DOMAIN amounts : amounts[n] \in Nat BY <2>2
  <2> HIDE DEF amounts, ev
  <2>4. Kept(won, k.events)
    BY <1>1, <1>9, <1>11, <1>12, <1>14, <1>17, <2>1, <2>2, EachKept
  <2>5. Advances(d, won) BY <1>1, <1>9, <1>12, <2>1, <2>3, EachAdvances
  <2> QED BY <2>4, <2>5
<1>19. AcctOK(won) /\ Onward(acct, won)
  <2>1. Onward(acct, c) BY <1>1, <1>5, SameOnward DEF AcctOK
  <2>2. Onward(c, d) BY <1>5, <1>9, SameOnward DEF AcctOK
  <2>3. Onward(acct, d) BY <1>1, <2>1, <2>2, OnwardTwice
  <2>4. Onward(d, won) BY <1>18, AdvancesOnward
  <2> QED BY <1>1, <1>18, <2>3, <2>4, AdvancesOK, OnwardTwice
<1>20. Ledger(won, u.paid) /\ MailsInOrder(won)
  BY <1>1, <1>8, <1>19, OnwardLedger, OnwardMails
<1>21. /\ AcctOK(b) /\ Same(won, b, {"battle_steps"}) /\ Ledger(b, t.paid)
       /\ Earned(DOMAIN t.paid, f.events)
  <2>1. AcctOK(b) /\ Same(won, b, {"battle_steps"}) BY <1>0, <1>1, <1>8, <1>19, <1>20, StepsGranted
  <2>2. Ledger(b, t.paid) BY <1>0, <1>1, <1>8, <1>19, <1>20, StepsGranted
  <2>3. \A x : Earned(DOMAIN u.paid, x) => Earned(DOMAIN t.paid, x)
    BY <1>0, <1>1, <1>8, <1>19, <1>20, StepsGranted
  <2>4. Earned(DOMAIN paid, f.events)
    <3>1. NoLess(k.events, f.events) BY <1>0, <1>1, <1>3, <1>14, <1>15, ClearedNoLess
    <3> HIDE DEF ev
    <3> QED BY <1>1, <1>14, <3>1, NoLessTwice, EarnedLater
  <2> QED BY <1>8, <2>1, <2>2, <2>3, <2>4
<1>22. Advances(b, p) /\ Projected(p) BY <1>0, <1>1, <1>21, Progressed
<1>23. AcctOK(p) /\ Onward(b, p) BY <1>22, AdvancesOK, AdvancesOnward
<1>24. AcctOK(a) /\ Same(p, a, {"active"}) /\ a["active"] = over
  <2>1. /\ AcctType["active"] = [quest: Quests \union {None}, txid: Nat, events: SUBSET BattleEvents]
        /\ "active" \in AcctFields \ {"missions", "counts"}
    BY DEF AcctType, AcctFields
  <2>2. over \in AcctType["active"] BY <2>1 DEF None
  <2> HIDE DEF over
  <2>3. AcctOK(a) BY ONLY <1>0, <1>23, <2>1, <2>2, FieldSet
  <2>4. Same(p, a, {"active"}) BY ONLY <1>0, <1>23, <2>1, <2>2, FieldSet
  <2>5. DOMAIN p = AcctFields BY <1>23, AcctFunction DEF AcctOK
  <2> QED BY <1>0, <2>1, <2>3, <2>4, <2>5
<1>25. /\ b.items = c.items /\ b.clears = c.clears /\ a.items = c.items /\ a.clears = c.clears
       /\ p.items = c.items /\ p.clears = c.clears /\ b.missions = won.missions
       /\ a.missions = p.missions /\ a.tasks = p.tasks /\ a.battle_progress = NoProgress
       /\ a.episode = acct.episode /\ a.memorias = acct.memorias
       /\ a.memoria_history = acct.memoria_history
  <2>1. /\ Same(d, won, {"missions", "tasks", "touched", "counts", "multi"})
        /\ Same(b, p, {"missions", "tasks", "touched", "counts", "multi"})
    BY <1>18, <1>22 DEF Advances
  <2>2. /\ c.episode = acct.episode /\ c.memorias = acct.memorias
        /\ c.memoria_history = acct.memoria_history
    BY <1>5 DEF Same, AcctFields
  <2>3. /\ d.episode = acct.episode /\ d.memorias = acct.memorias
        /\ d.memoria_history = acct.memoria_history /\ d.battle_progress = NoProgress
        /\ d.items = c.items /\ d.clears = c.clears
    BY <1>9, <2>2 DEF Same, AcctFields
  <2>4. /\ won.episode = acct.episode /\ won.memorias = acct.memorias
        /\ won.memoria_history = acct.memoria_history /\ won.battle_progress = NoProgress
        /\ won.items = c.items /\ won.clears = c.clears
    BY <2>1, <2>3 DEF Same, AcctFields
  <2>5. /\ b.episode = acct.episode /\ b.memorias = acct.memorias
        /\ b.memoria_history = acct.memoria_history /\ b.battle_progress = NoProgress
        /\ b.items = c.items /\ b.clears = c.clears /\ b.missions = won.missions
    BY <1>21, <2>4 DEF Same, AcctFields
  <2>6. /\ p.episode = acct.episode /\ p.memorias = acct.memorias
        /\ p.memoria_history = acct.memoria_history /\ p.battle_progress = NoProgress
        /\ p.items = c.items /\ p.clears = c.clears
    BY <2>1, <2>5 DEF Same, AcctFields
  <2> QED BY <1>24, <2>5, <2>6 DEF Same, AcctFields
<1>26. HasCleared(acct, b, q, 1) /\ HasCleared(acct, a, q, 1)
  <2>1. \A s : Total(b, s) = Total(c, s) BY ONLY <1>25, TotalsSame
  <2>2. \A s : Total(a, s) = Total(c, s) BY ONLY <1>25, TotalsSame
  <2> QED BY <1>5, <2>1, <2>2 DEF HasCleared
<1>27. Kept(a, f.events)
  <2>1. \A m \in Missions : Counted(b, m) = Counted(won, m) BY <1>25, SameMissionsCount
  <2>2. Kept(b, k.events) BY <1>18, <2>1, KeptSame
  <2>3. b \in HomeAccts BY <1>21 DEF AcctOK
  <2>4. MoreOfResources(k.events, f.events, acct, b)
    BY <1>0, <1>1, <1>3, <1>14, <1>26, <2>3, ClearedGains
  <2>5. Kept(p, f.events) BY <1>0, <1>1, <1>15, <1>21, <2>2, <2>4, ProgressCounts
  <2>6. \A m \in Missions : Counted(a, m) = Counted(p, m) BY <1>25, SameMissionsCount
  <2> QED BY <2>5, <2>6, KeptSame
<1>28. ResourcesCounted(a, f.events)
  <2>1. a \in HomeAccts BY <1>24 DEF AcctOK
  <2> HIDE DEF ev
  <2>2. ResourcesCounted(a, g.events)
    BY <1>0, <1>1, <1>3, <1>14, <1>26, <2>1, ClearedCounted
  <2> QED BY <1>14, <2>2, Zenon DEF ResourcesCounted, SameClears
<1>29. Projected(a)
  <2>1. a.items = p.items /\ a.clears = p.clears BY <1>25
  <2>2. \A x : state_counter_total(a, x) = state_counter_total(p, x) BY ONLY <2>1, TotalsSame
  <2> QED BY <1>22, <1>25, <2>2, Zenon DEF Projected
<1>30. Ledger(a, t.paid) /\ MailsInOrder(a)
  <2>1. b \in HomeAccts BY <1>21 DEF AcctOK
  <2>2. Onward(p, a) BY <1>23, <1>24, SameOnward DEF AcctOK
  <2>3. Onward(b, a) BY <1>23, <2>1, <2>2, OnwardTwice
  <2>4. b.bonuses = won.bonuses /\ b.mails = won.mails /\ b.next_mail_id = won.next_mail_id
    BY <1>21 DEF Same, AcctFields
  <2>5. MailsInOrder(b) BY <1>20, <2>4, SameBonuses
  <2> QED BY <1>21, <2>1, <2>3, <2>5, OnwardLedger, OnwardMails
<1>31. CollectionSeen(a, f)
  <2>1. f.memorias = happened.memorias /\ f.events[Collection] = happened.events[Collection] BY <1>14
  <2> QED BY <1>1, <1>25, <2>1, Zenon DEF CollectionSeen
<1>32. BattleReported(a, requests + 1)
  <2>1. a.active.quest = None /\ a.active.txid = 0 /\ a.battle_progress.txid = 0
    BY <1>24, <1>25 DEF None, NoProgress
  <2>2. 0 <= requests + 1 BY <1>1
  <2> QED BY <2>1, <2>2 DEF BattleReported
<1>33. SkipsCounted(a, f) BY <1>1, <1>14, <1>25, Zenon DEF SkipsCounted
<1> QED BY <1>7, <1>14, <1>21, <1>24, <1>27, <1>28, <1>29, <1>30, <1>31, <1>32, <1>33, RequestDone

-----------------------------------------------------------------------------
(* Days *)

\* Zeros add up to zero.
LEMMA SumZero ==
    ASSUME NEW f, NEW S, IsFiniteSet(S), \A x \in S : f[x] = 0
    PROVE  SumFunctionOnSet(f, S) = 0
<1> DEFINE s == SumFunctionOnSet(f, S)
<1>1. \A x \in S : f[x] \in Int /\ f[x] \in Int /\ f[x] = f[x] + f[x] OBVIOUS
<1>2. s = s + s BY <1>1, SumPlus
<1>3. s \in Nat BY SumNat
<1>4. s = 0
  <2> HIDE DEF s
  <2> QED BY <1>2, <1>3
<1> QED BY <1>4

\* Where nothing happened nothing was done.
LEMMA DoneNothing ==
    ASSUME NEW m \in Missions, NEW ev, EventsOK(ev), NEW reset,
           \A x \in EventDays(m, reset) : ev[x[1]][x[2]] = 0
    PROVE  DoneIn(ev, MissionOf[m], reset) = 0
<1> DEFINE S == EventDays(m, reset)
           f == Often(ev, S)
<1>1. /\ IsFiniteSet(S) /\ \A x \in S : f[x] = ev[x[1]][x[2]] /\ f[x] \in Nat
      /\ DoneIn(ev, MissionOf[m], reset) = DoneOf(f, S, MissionOf[m].maximum)
  BY DoneIs
<1>2. \A x \in S : f[x] = 0
  <2> HIDE DEF f
  <2> QED BY <1>1
<1> HIDE DEF S, f
<1>3. SumFunctionOnSet(f, S) = 0 BY <1>1, <1>2, SumZero
<1>4. Greatest(f, S) = 0
  <2>1. \A x \in S : f[x] \in Nat BY <1>1
  <2>2. Greatest(f, S) = 0 \/ \E x \in S : Greatest(f, S) = f[x] BY <1>1, <2>1, GreatestOf
  <2> QED BY <1>2, <2>2
<1> QED BY <1>1, <1>3, <1>4, Zenon DEF DoneOf

\* In a cycle that has not begun nothing was done.
LEMMA DoneLater ==
    ASSUME NEW m \in Missions, NEW ev, EventsOK(ev), day \in Nat,
           NEW reset \in Nat, Cycle(m) < reset,
           \A e \in Events : \A d \in Days : d > day => ev[e][d] = 0
    PROVE  DoneIn(ev, MissionOf[m], reset) = 0
<1> SUFFICES ASSUME NEW x \in EventDays(m, reset) PROVE ev[x[1]][x[2]] = 0
  BY DoneNothing
<1>1. x[1] \in Events /\ x[2] \in Days /\ x[2] \in FirstDay..MaxDay
  <2> DEFINE S == EventDays(m, reset)
             f == Often(ev, S)
  <2>1. \A y \in S : y[1] \in Events /\ y[2] \in Days /\ y[2] \in FirstDay..MaxDay
    BY DoneIs
  <2> QED BY <2>1
<1>2. reset_at(MissionOf[m].cycle, x[2]) = reset BY DEF EventDays
<1>3. x[2] \in Nat BY <1>1, HomeAssumption
<1>4. ASSUME x[2] <= day PROVE FALSE
  <2>1. reset_at(MissionOf[m].cycle, x[2]) <= reset_at(MissionOf[m].cycle, day)
    BY <1>3, <1>4, ResetAt
  <2>2. reset_at(MissionOf[m].cycle, day) \in Nat BY ResetAt
  <2> QED BY <1>2, <2>1, <2>2 DEF Cycle
<1>5. x[2] > day BY <1>3, <1>4
<1> QED BY <1>1, <1>5

\* The state of a mission on a day.
StateOn(m, old, d) ==
    LET reset == reset_at(MissionOf[m].cycle, d) IN
    IF reset # None /\ old.reset # reset
    THEN [count |-> 0, received |-> 0, reset |-> reset] ELSE old

PeriodOn(until, d) == until = None \/ d < until

ActiveOn(m, d) ==
    /\ PeriodOn(MissionOf[m].until, d)
    /\ MissionOf[m].tab # None => PeriodOn(TabSteps[MissionOf[m].tab].until, d)

KeptOn(a, ev, d) ==
    \A m \in ToCount :
        ActiveOn(m, d) =>
            StateOn(m, Existing(a, m), d).count =
                Min({DoneIn(ev, MissionOf[m], reset_at(MissionOf[m].cycle, d)), Last(MissionOf[m].steps)})

LEMMA KeptToday ==
    /\ Kept(acct, happened.events) <=> KeptOn(acct, happened.events, day)
    /\ Kept(acct, happened.events)' <=> KeptOn(acct', happened'.events, day')
<1>1. Kept(acct, happened.events) <=> KeptOn(acct, happened.events, day)
  BY Zenon DEF Kept, KeptOn, Counted, StateOn, ActiveOn, PeriodOn, mission_active, in_period, mission_state
<1>2. Kept(acct, happened.events)' <=> KeptOn(acct', happened'.events, day')
  BY Zenon DEF Kept, KeptOn, Counted, StateOn, ActiveOn, PeriodOn, mission_active, in_period, mission_state, Existing
<1> QED BY <1>1, <1>2

\* Missions of the next day were missions of this one, and begin a cycle or stay in theirs.
LEMMA KeptTomorrow ==
    ASSUME NEW a, AcctOK(a), day \in FirstDay..MaxDay, NEW ev, EventsOK(ev), KeptOn(a, ev, day),
           \A e \in Events : \A d \in Days : d > day => ev[e][d] = 0
    PROVE  KeptOn(a, ev, day + 1)
<1> SUFFICES ASSUME NEW m \in ToCount, ActiveOn(m, day + 1)
             PROVE  StateOn(m, Existing(a, m), day + 1).count =
                        Min({DoneIn(ev, MissionOf[m], reset_at(MissionOf[m].cycle, day + 1)),
                             Last(MissionOf[m].steps)})
  BY Zenon DEF KeptOn
<1> DEFINE cycle == MissionOf[m].cycle
           old == Existing(a, m)
           now == reset_at(cycle, day)
           then == reset_at(cycle, day + 1)
<1>1. m \in Missions /\ day \in Nat /\ day + 1 \in Nat
  BY HomeAssumption DEF ToCount
<1>2. ActiveOn(m, day)
  <2>1. MissionOf[m].until \in Nat BY <1>1, MissionsAssumption
  <2>2. MissionOf[m].tab # None => TabSteps[MissionOf[m].tab].until \in Nat
    BY <1>1, MissionsAssumption, RewardsAssumption
  <2>3. \A u \in Nat : PeriodOn(u, day + 1) => PeriodOn(u, day) BY <1>1 DEF PeriodOn
  <2> QED BY <2>1, <2>2, <2>3 DEF ActiveOn
<1>3. now \in Nat /\ then \in Nat /\ now <= then BY <1>1, ResetAt
<1>4. a \in HomeAccts /\ Timely(a) BY DEF AcctOK
<1>5. old.reset \in Nat /\ old.reset <= now
  <2>1. RecordOK(m, old) /\ old.reset <= now BY <1>1, <1>4, ExistingOK DEF Cycle
  <2> QED BY <2>1 DEF RecordOK, Record
<1>6. StateOn(m, old, day).count = Min({DoneIn(ev, MissionOf[m], now), Last(MissionOf[m].steps)})
  BY <1>2, Zenon DEF KeptOn
<1>7. CASE then = now
  <2>1. StateOn(m, old, day + 1) = StateOn(m, old, day) BY <1>7, Zenon DEF StateOn
  <2> QED BY <1>6, <1>7, <2>1
<1>8. CASE then # now
  <2>1. now < then BY <1>3, <1>8
  <2>2. then # None /\ old.reset # then BY <1>3, <1>5, <2>1 DEF None
  <2> HIDE DEF old
  <2>3. StateOn(m, old, day + 1).count = 0 BY <2>2 DEF StateOn
  <2>4. DoneIn(ev, MissionOf[m], then) = 0
    <3>1. Cycle(m) < then BY <2>1 DEF Cycle
    <3> HIDE DEF then, now
    <3> QED BY <1>1, <1>3, <3>1, DoneLater
  <2>5. Last(MissionOf[m].steps) \in Nat BY <1>1, LastStep
  <2>6. Min({0, Last(MissionOf[m].steps)}) = 0 BY <2>5, MinOfTwo
  <2> QED BY <2>3, <2>4, <2>6 DEF old
<1> QED BY <1>7, <1>8

LEMMA DayKeepsHome ==
    ASSUME HomeIInv, NextDay
    PROVE  HomeIInv'
<1>1. /\ day < MaxDay /\ day' = day + 1 /\ acct' = acct /\ happened' = happened
      /\ paid' = paid /\ requests' = requests
  BY DEF NextDay
<1>2. /\ AcctOK(acct) /\ acct.touched = {} /\ HistoryOK(happened) /\ EventsOK(happened.events)
      /\ Ledger(acct, paid) /\ Earned(DOMAIN paid, happened.events) /\ MailsInOrder(acct)
      /\ Kept(acct, happened.events) /\ ResourcesCounted(acct, happened.events)
      /\ (acct.initialized # -1 => Projected(acct))
      /\ CollectionSeen(acct, happened) /\ BattleReported(acct, requests) /\ SkipsCounted(acct, happened)
      /\ day \in FirstDay..MaxDay /\ day \in Nat
  BY SoundNow DEF HomeIInv, Sound
<1>3. day' \in FirstDay..MaxDay /\ requests' \in 0..MaxRequests
  BY <1>1, <1>2, HomeAssumption DEF HomeIInv
<1>4. acct \in HomeAccts /\ Timely(acct) BY <1>2 DEF AcctOK
<1>5. Timely(acct)'
  <2>1. \A m \in DOMAIN acct.missions : acct.missions[m].reset <= reset_at(MissionOf[m].cycle, day + 1)
    <3> SUFFICES ASSUME NEW m \in DOMAIN acct.missions
                 PROVE  acct.missions[m].reset <= reset_at(MissionOf[m].cycle, day + 1)
      OBVIOUS
    <3>1. acct.missions[m].reset <= reset_at(MissionOf[m].cycle, day) BY <1>4 DEF Timely
    <3>2. acct.missions[m].reset \in Nat BY <1>4, RecordTypes
    <3>3. reset_at(MissionOf[m].cycle, day) <= reset_at(MissionOf[m].cycle, day + 1)
      BY <1>2, ResetAt
    <3>4. reset_at(MissionOf[m].cycle, day) \in Nat /\ reset_at(MissionOf[m].cycle, day + 1) \in Nat
      BY <1>2, ResetAt
    <3> QED BY <3>1, <3>2, <3>3, <3>4
  <2>2. \A c \in DOMAIN acct.counts : acct.counts[c].reset <= reset_at(CountSteps[c].cycle, day + 1)
    <3> SUFFICES ASSUME NEW c \in DOMAIN acct.counts
                 PROVE  acct.counts[c].reset <= reset_at(CountSteps[c].cycle, day + 1)
      OBVIOUS
    <3>1. acct.counts[c].reset <= reset_at(CountSteps[c].cycle, day) BY <1>4 DEF Timely
    <3>2. acct.counts[c].reset \in Nat BY <1>4, RecordTypes
    <3>3. reset_at(CountSteps[c].cycle, day) <= reset_at(CountSteps[c].cycle, day + 1)
      BY <1>2, ResetAt
    <3>4. reset_at(CountSteps[c].cycle, day) \in Nat /\ reset_at(CountSteps[c].cycle, day + 1) \in Nat
      BY <1>2, ResetAt
    <3> QED BY <3>1, <3>2, <3>3, <3>4
  <2> QED BY <1>1, <2>1, <2>2, Zenon DEF Timely, reset_at
<1>6. (acct \in HomeAccts)'
  BY <1>1, <1>4 DEF HomeAccts, AcctType, AcctFields, MissionRecords, CountRecords, Record,
        CountRecord, Mail
<1>7. (AcctOK(acct) /\ acct.touched = {})'
  <2>1. (acct.touched = {})' BY <1>1, <1>2
  <2> QED BY <1>5, <1>6, <2>1 DEF AcctOK
<1>8. HistoryOK(happened)'
  <2>1. happened \in [events: [Events -> [Days -> Nat]], memorias: SUBSET Memorias,
                      skips: [Days -> Nat], additions: [Days -> Nat]]
    BY <1>2, Zenon DEF HistoryOK
  <2>2. \A d \in Days : d > day => \A e \in Events : happened.events[e][d] = 0
    BY <1>2, Zenon DEF HistoryOK
  <2>3. \A d \in Days : d > day + 1 => d > day
    <3>1. \A d \in Days : d \in Int BY HomeAssumption DEF Days
    <3> QED BY <1>2, <3>1
  <2>4. \A d \in Days : d > day + 1 => \A e \in Events : happened.events[e][d] = 0 BY <2>2, <2>3
  <2> QED BY <1>1, <2>1, <2>4, Zenon DEF HistoryOK
<1>9. (Ledger(acct, paid) /\ Earned(DOMAIN paid, happened.events))'
  <2>1. Ledger(acct', paid') /\ Earned(DOMAIN paid', happened'.events) BY <1>1, <1>2
  <2> QED BY <2>1 DEF Ledger, RecordsWritten, StepsWritten, BonusesWritten, Behind, Earned,
        DoneIn, TaskDone, reset_at, StateBacked
<1>10. MailsInOrder(acct)'
  <2>1. \A b \in Bonuses : acct.bonuses[b].last <= day + 1
    <3>1. \A b \in Bonuses : acct.bonuses[b].last \in Int BY <1>4, AcctTypes
    <3>2. \A b \in Bonuses : acct.bonuses[b].last <= day BY <1>2 DEF MailsInOrder
    <3> QED BY <1>2, <3>1, <3>2
  <2> QED BY <1>1, <1>2, <2>1, Zenon DEF MailsInOrder
<1>11. Kept(acct, happened.events)'
  <2>1. KeptOn(acct, happened.events, day) BY <1>2, KeptToday
  <2>2. \A e \in Events : \A d \in Days : d > day => happened.events[e][d] = 0
    BY <1>2, Zenon DEF HistoryOK
  <2>3. KeptOn(acct, happened.events, day + 1) BY <1>2, <2>1, <2>2, KeptTomorrow
  <2>4. KeptOn(acct', happened'.events, day') BY <1>1, <2>3, Zenon
  <2> QED BY <2>4, KeptToday
<1>12. (ResourcesCounted(acct, happened.events) /\ (acct.initialized # -1 => Projected(acct)))'
  BY <1>1, <1>2, Zenon DEF ResourcesCounted, Projected, Total, state_counter_total, StateBacked
<1>13. (CollectionSeen(acct, happened) /\ BattleReported(acct, requests))'
  BY <1>1, <1>2, Zenon DEF CollectionSeen, BattleReported
<1>14. SkipsCounted(acct, happened)'
  <2>1. acct.episode.day <= day + 1
    <3>1. acct.episode.day \in Int BY <1>4, AcctTypes
    <3>2. acct.episode.day <= day BY <1>2, Zenon DEF SkipsCounted
    <3> QED BY <1>2, <3>1, <3>2
  <2> QED BY <1>1, <1>2, <2>1, Zenon DEF SkipsCounted
<1> QED BY <1>3, <1>7, <1>8, <1>9, <1>10, <1>11, <1>12, <1>13, <1>14 DEF HomeIInv, Sound

-----------------------------------------------------------------------------
(* The beginning *)

\* What is stored of an account on its first day.
FirstAccount(a) ==
    /\ DOMAIN a = AcctFields /\ a = [f \in AcctFields |-> a[f]]
    /\ a.initialized = -1 /\ a.missions = <<>> /\ a.tasks \in InitialTasks /\ a.touched = {}
    /\ a.counts = <<>> /\ a.tabs = [t \in Tabs |-> 0] /\ a.guides = {}
    /\ a.battle_steps = [q \in DOMAIN BattleSteps |-> 0]
    /\ a.multi = [count |-> 0, received |-> 0]
    /\ a.clears = InitialClears /\ a.items = [i \in Items |-> DropsFor(InitialClears, i)]
    /\ a.active = [quest |-> None, txid |-> None, events |-> {}] /\ a.battle_progress = NoProgress
    /\ a.memorias = {} /\ a.memoria_history = {}
    /\ a.login_day = -1 /\ a.bonuses = [b \in Bonuses |-> [day |-> 0, last |-> -1]]
    /\ a.mails = {} /\ a.next_mail_id = 0 /\ a.recipes = {} /\ a.recipe_counts = {}
    /\ a.episode = [day |-> -1, clears |-> 0, additions |-> 0] /\ a.gems = InitialGems

LEMMA InitFirst ==
    ASSUME HomeInit
    PROVE  /\ FirstAccount(acct) /\ day = FirstDay /\ requests = 0 /\ paid = EmptyBag
           /\ happened = [events |-> Before, memorias |-> {},
                          skips |-> [d \in Days |-> 0], additions |-> [d \in Days |-> 0]]
<1>1. FirstAccount(acct)
  <2> DEFINE items == [i \in Items |-> DropsFor(InitialClears, i)]
  <2> HIDE DEF items
  <2>1. PICK tasks \in InitialTasks :
       acct = [initialized |-> -1,
               missions |-> <<>>, tasks |-> tasks, touched |-> {},
               counts |-> <<>>, tabs |-> [t \in Tabs |-> 0], guides |-> {},
               battle_steps |-> [q \in DOMAIN BattleSteps |-> 0],
               multi |-> [count |-> 0, received |-> 0],
               clears |-> InitialClears, items |-> items,
               active |-> [quest |-> None, txid |-> None, events |-> {}],
               battle_progress |-> NoProgress,
               memorias |-> {}, memoria_history |-> {},
               login_day |-> -1, bonuses |-> [b \in Bonuses |-> [day |-> 0, last |-> -1]],
               mails |-> {}, next_mail_id |-> 0,
               recipes |-> {}, recipe_counts |-> {},
               episode |-> [day |-> -1, clears |-> 0, additions |-> 0],
               gems |-> InitialGems]
    BY Zenon DEF HomeInit, items
  <2>2. DOMAIN acct = AcctFields /\ acct = [f \in AcctFields |-> acct[f]]
    BY <2>1 DEF AcctFields
  <2>3. /\ acct.initialized = -1 /\ acct.missions = <<>> /\ acct.tasks = tasks /\ acct.touched = {}
        /\ acct.counts = <<>> /\ acct.tabs = [t \in Tabs |-> 0] /\ acct.guides = {}
        /\ acct.battle_steps = [q \in DOMAIN BattleSteps |-> 0]
        /\ acct.multi = [count |-> 0, received |-> 0]
        /\ acct.clears = InitialClears /\ acct.items = items
    BY <2>1
  <2>4. /\ acct.active = [quest |-> None, txid |-> None, events |-> {}]
        /\ acct.battle_progress = NoProgress
        /\ acct.memorias = {} /\ acct.memoria_history = {}
        /\ acct.login_day = -1 /\ acct.bonuses = [b \in Bonuses |-> [day |-> 0, last |-> -1]]
        /\ acct.mails = {} /\ acct.next_mail_id = 0 /\ acct.recipes = {} /\ acct.recipe_counts = {}
        /\ acct.episode = [day |-> -1, clears |-> 0, additions |-> 0] /\ acct.gems = InitialGems
    BY <2>1
  <2> QED BY <2>2, <2>3, <2>4, Zenon DEF FirstAccount, items
<1> QED BY <1>1, Zenon DEF HomeInit

\* Drops of any clears are a number.
LEMMA DropsNat ==
    ASSUME NEW i \in Items
    PROVE  DropsFor(InitialClears, i) \in Nat
<1> DEFINE S == {q \in Quests : i \in DOMAIN DropsOf[q]}
           f == [q \in S |-> InitialClears[q] * DropsOf[q][i]]
<1>1. IsFiniteSet(S) BY FS_Subset, CountersAssumption
<1>2. \A q \in S : f[q] \in Nat
  <2>1. \A q \in S : InitialClears[q] \in Nat /\ DropsOf[q][i] \in Nat BY CountersAssumption
  <2>2. \A x, y \in Nat : x * y \in Nat OBVIOUS
  <2> QED BY <2>1, <2>2
<1> HIDE DEF S, f
<1>3. SumFunctionOnSet(f, S) \in Nat BY <1>1, <1>2, SumNat
<1> QED BY <1>3, Zenon DEF DropsFor, S, f

LEMMA FirstAccountOK ==
    ASSUME NEW a, FirstAccount(a)
    PROVE  AcctOK(a)
<1> DEFINE R == UNION {AcctType[f] : f \in AcctFields}
<1>1. a.missions \in MissionRecords /\ a.counts \in CountRecords
  <2>1. DOMAIN <<>> = {} /\ <<>> = [x \in {} |-> <<>>[x]] OBVIOUS
  <2>2. <<>> \in MissionRecords BY <2>1, MissionRecordsAre
  <2>3. <<>> \in CountRecords BY <2>1, CountRecordsAre
  <2> QED BY <2>2, <2>3 DEF FirstAccount
<1>2. a.tasks \in [Tasks -> Nat] /\ a.clears \in [Quests -> Nat] /\ a.gems \in Nat
  BY CountersAssumption, HomeAssumption DEF FirstAccount
<1>3. a.items \in [Items -> Nat]
  <2>1. \A i \in Items : DropsFor(InitialClears, i) \in Nat BY DropsNat
  <2>2. a.items = [i \in Items |-> DropsFor(InitialClears, i)] BY Zenon DEF FirstAccount
  <2> QED BY <2>1, <2>2
<1>4. /\ a.tabs \in {f \in [Tabs -> Nat] : \A t \in Tabs : f[t] <= Len(TabSteps[t].steps)}
      /\ a.battle_steps \in {f \in [DOMAIN BattleSteps -> Nat] :
                                \A q \in DOMAIN BattleSteps : f[q] <= Len(BattleSteps[q].steps)}
  <2>1. \A t \in Tabs : 0 <= Len(TabSteps[t].steps) BY RewardsAssumption
  <2>2. \A q \in DOMAIN BattleSteps : 0 <= Len(BattleSteps[q].steps) BY RewardsAssumption
  <2> QED BY <2>1, <2>2 DEF FirstAccount
<1>5. /\ a.active \in [quest: Quests \union {None}, txid: Nat, events: SUBSET BattleEvents]
      /\ a.battle_progress \in [txid: Nat, events: SUBSET BattleEvents]
      /\ a.bonuses \in [Bonuses -> [day: Nat, last: Int]]
      /\ a.episode \in [day: Int, clears: Nat, additions: Nat]
      /\ a.multi \in [count: Nat, received: Nat]
  BY DEF FirstAccount, NoProgress, None
<1>6. /\ a.initialized \in Int /\ a.touched \subseteq Tasks /\ a.guides \subseteq Guides
      /\ a.memorias \subseteq Memorias /\ a.memoria_history \subseteq Memorias
      /\ a.login_day \in Int /\ a.mails \subseteq Mail /\ a.next_mail_id \in Nat
      /\ a.recipes \subseteq Recipes /\ a.recipe_counts \subseteq DOMAIN RecipeCounts
  <2>1. /\ a.initialized = -1 /\ a.touched = {} /\ a.guides = {} /\ a.memorias = {}
        /\ a.memoria_history = {} /\ a.login_day = -1 /\ a.mails = {} /\ a.next_mail_id = 0
        /\ a.recipes = {} /\ a.recipe_counts = {}
    BY Zenon DEF FirstAccount
  <2>2. -1 \in Int /\ 0 \in Nat OBVIOUS
  <2> QED BY ONLY <2>1, <2>2
<1>7. \A f \in AcctFields : a[f] \in AcctType[f]
  <2>1. /\ a["initialized"] \in AcctType["initialized"] /\ a["missions"] \in AcctType["missions"]
        /\ a["tasks"] \in AcctType["tasks"] /\ a["touched"] \in AcctType["touched"]
        /\ a["counts"] \in AcctType["counts"] /\ a["tabs"] \in AcctType["tabs"]
        /\ a["guides"] \in AcctType["guides"] /\ a["battle_steps"] \in AcctType["battle_steps"]
        /\ a["multi"] \in AcctType["multi"] /\ a["clears"] \in AcctType["clears"]
        /\ a["items"] \in AcctType["items"]
    BY ONLY <1>1, <1>2, <1>3, <1>4, <1>5, <1>6 DEF AcctType
  <2>2. /\ a["active"] \in AcctType["active"]
        /\ a["battle_progress"] \in AcctType["battle_progress"]
        /\ a["memorias"] \in AcctType["memorias"]
        /\ a["memoria_history"] \in AcctType["memoria_history"]
        /\ a["login_day"] \in AcctType["login_day"] /\ a["bonuses"] \in AcctType["bonuses"]
        /\ a["mails"] \in AcctType["mails"] /\ a["next_mail_id"] \in AcctType["next_mail_id"]
        /\ a["recipes"] \in AcctType["recipes"]
        /\ a["recipe_counts"] \in AcctType["recipe_counts"]
        /\ a["episode"] \in AcctType["episode"] /\ a["gems"] \in AcctType["gems"]
    BY ONLY <1>2, <1>5, <1>6 DEF AcctType
  <2> QED BY ONLY <2>1, <2>2, Zenon DEF AcctFields
<1>8. a \in HomeAccts
  <2>1. \A f \in AcctFields : a[f] \in R BY <1>7, Zenon
  <2> HIDE DEF R
  <2>2. a \in [AcctFields -> R] BY <2>1 DEF FirstAccount
  <2> QED BY <1>7, <2>2, Zenon DEF HomeAccts, R
<1>9. Timely(a)
  <2>1. DOMAIN a.missions = {} /\ DOMAIN a.counts = {} BY DEF FirstAccount
  <2> QED BY <2>1 DEF Timely
<1> QED BY <1>8, <1>9 DEF AcctOK

LEMMA BeforeIs ==
    /\ EventsOK(Before)
    /\ \A e \in Events : \A d \in Days : d >= FirstDay => Before[e][d] = 0
    /\ \A d \in Days : Before[Collection][d] = 0
    /\ FirstDay - 1 \in Days
    /\ \A q \in Quests : Before[<<"quest_clear", q>>][FirstDay - 1] = InitialClears[q]
    /\ \A i \in Items : Before[<<"item_received", i>>][FirstDay - 1] = DropsFor(InitialClears, i)
<1> DEFINE past(e) == CASE e[1] = "quest_clear" -> InitialClears[e[2]]
                        [] e[1] = "item_received" -> DropsFor(InitialClears, e[2])
                        [] OTHER -> 0
           row(e) == [d \in Days |-> IF d >= FirstDay THEN 0 ELSE past(e)]
<1>1. Before = [e \in Events |-> row(e)] BY Zenon DEF Before
<1>2. \A e \in Events : e[1] = "quest_clear" => e[2] \in Quests BY DEF Events, Sources, Collection
<1>3. \A e \in Events : e[1] = "item_received" => e[2] \in Items BY DEF Events, Sources, Collection
<1>4. \A e \in Events : past(e) \in Nat
  <2> SUFFICES ASSUME NEW e \in Events PROVE past(e) \in Nat OBVIOUS
  <2>1. CASE e[1] = "quest_clear" BY <1>2, <2>1, CountersAssumption
  <2>2. CASE e[1] = "item_received" BY <1>3, <2>2, DropsNat
  <2>3. CASE e[1] # "quest_clear" /\ e[1] # "item_received" BY <2>3
  <2> QED BY <2>1, <2>2, <2>3
<1>5. /\ \A q \in Quests : past(<<"quest_clear", q>>) = InitialClears[q]
      /\ \A i \in Items : past(<<"item_received", i>>) = DropsFor(InitialClears, i)
      /\ past(Collection) = 0
  BY DEF Collection
<1>6. FirstDay - 1 \in Days /\ ~(FirstDay - 1 >= FirstDay) BY HomeAssumption DEF Days
<1>7. /\ \A q \in Quests : <<"quest_clear", q>> \in Events
      /\ \A i \in Items : <<"item_received", i>> \in Events
      /\ Collection \in Events
  BY DEF Events, Sources
<1> HIDE DEF past
<1>8. \A e \in Events : row(e) \in [Days -> Nat] BY <1>4
<1>9. EventsOK(Before)
  <2> HIDE DEF row
  <2> QED BY <1>1, <1>8, Zenon DEF EventsOK
<1>10. \A e \in Events : \A d \in Days : Before[e][d] = IF d >= FirstDay THEN 0 ELSE past(e)
  BY <1>1
<1> QED BY <1>5, <1>6, <1>7, <1>9, <1>10, Zenon

\* What happened before was on one day.
LEMMA BeforeCounted ==
    ASSUME NEW s \in Sources
    PROVE  SumFunctionOnSet(Before[s], Days) = Before[s][FirstDay - 1]
<1> DEFINE f == Before[s]
           d == FirstDay - 1
           rest == SumFunctionOnSet(f, Days \ {d})
<1>1. s \in Events /\ IsFiniteSet(Days) BY EventsFinite
<1>2. d \in Days /\ f \in [Days -> Nat] BY <1>1, BeforeIs DEF EventsOK
<1>3. \A x \in Days \ {d} : f[x] = 0
  <2>1. \A x \in Days \ {d} : x >= FirstDay BY HomeAssumption DEF Days
  <2> QED BY <1>1, <2>1, BeforeIs
<1> HIDE DEF d, f
<1>4. IsFiniteSet(Days \ {d}) BY <1>1, FS_RemoveElement
<1>5. rest = 0 BY <1>3, <1>4, SumZero
<1>6. SumFunctionOnSet(f, Days) = f[d] + rest
  <2>1. \A x \in Days : f[x] \in Int BY <1>2
  <2> QED BY <1>1, <1>2, <2>1, SumRemove
<1>7. f[d] \in Nat BY <1>2
<1> HIDE DEF rest
<1> QED BY <1>5, <1>6, <1>7 DEF f, d

LEMMA InitHome ==
    ASSUME HomeInit
    PROVE  HomeIInv
<1> DEFINE h == happened
<1>1. /\ FirstAccount(acct) /\ day = FirstDay /\ requests = 0 /\ paid = EmptyBag
      /\ h = [events |-> Before, memorias |-> {},
              skips |-> [d \in Days |-> 0], additions |-> [d \in Days |-> 0]]
  BY InitFirst
<1>2. /\ FirstDay \in Nat \ {0} /\ MaxDay \in Nat /\ FirstDay <= MaxDay /\ MaxRequests \in Nat
      /\ MaxDailyClear \in Nat /\ day \in Nat /\ day \in FirstDay..MaxDay /\ day # 0
  BY <1>1, HomeAssumption
<1>3. requests \in 0..MaxRequests BY <1>1, <1>2
<1>4. AcctOK(acct) /\ acct.touched = {} BY <1>1, FirstAccountOK DEF FirstAccount
<1>5. /\ h.events = Before /\ h.memorias = {} /\ h.skips = [d \in Days |-> 0]
      /\ h.additions = [d \in Days |-> 0]
  BY <1>1
<1>6. HistoryOK(h)
  <2>1. Before \in [Events -> [Days -> Nat]] BY BeforeIs DEF EventsOK
  <2>2. /\ [d \in Days |-> 0] \in [Days -> Nat] /\ {} \subseteq Memorias OBVIOUS
  <2>3. h \in [events: [Events -> [Days -> Nat]], memorias: SUBSET Memorias,
               skips: [Days -> Nat], additions: [Days -> Nat]]
    BY <1>1, <2>1, <2>2
  <2>4. \A d \in Days : d > day => d >= FirstDay BY <1>1, <1>2 DEF Days
  <2>5. \A d \in Days : d > day => \A e \in Events : h.events[e][d] = 0
    BY <1>5, <2>4, BeforeIs
  <2> QED BY <2>3, <2>5, Zenon DEF HistoryOK
<1>7. DOMAIN paid = {} BY <1>1 DEF EmptyBag, SetToBag
<1>8. Ledger(acct, paid) /\ Earned(DOMAIN paid, h.events)
  BY <1>7, Zenon DEF Ledger, RecordsWritten, StepsWritten, BonusesWritten, Earned
<1>9. MailsInOrder(acct)
  <2>1. acct.mails = {} /\ \A b \in Bonuses : acct.bonuses[b].last = -1
    <3>1. acct.mails = {} /\ acct.bonuses = [b \in Bonuses |-> [day |-> 0, last |-> -1]]
      BY <1>1, Zenon DEF FirstAccount
    <3> QED BY ONLY <3>1
  <2>2. \A b \in Bonuses : acct.bonuses[b].last <= day BY <1>2, <2>1
  <2> QED BY <2>1, <2>2, Zenon DEF MailsInOrder
<1>10. Kept(acct, h.events)
  <2> SUFFICES ASSUME NEW m \in ToCount
               PROVE  Counted(acct, m) = Min({DoneIn(Before, MissionOf[m], Cycle(m)),
                                              Last(MissionOf[m].steps)})
    BY <1>5, Zenon DEF Kept, Cycle
  <2>1. m \in Missions BY DEF ToCount
  <2>2. Existing(acct, m) = Fresh
    <3>1. DOMAIN acct.missions = {} BY <1>1 DEF FirstAccount
    <3> QED BY <3>1, Zenon DEF Existing
  <2>3. Counted(acct, m) = 0 BY <2>2 DEF Counted, mission_state, Fresh
  <2>4. DoneIn(Before, MissionOf[m], Cycle(m)) = 0
    <3> DEFINE S == EventDays(m, Cycle(m))
               f == Often(Before, S)
    <3>1. \A x \in S : x[1] \in Events /\ x[2] \in Days /\ x[2] \in FirstDay..MaxDay
      BY <2>1, BeforeIs, DoneIs
    <3>2. \A x \in S : x[2] >= FirstDay BY <1>2, <3>1
    <3>3. \A x \in S : Before[x[1]][x[2]] = 0 BY <3>1, <3>2, BeforeIs
    <3> QED BY <2>1, <3>3, BeforeIs, DoneNothing
  <2>5. Last(MissionOf[m].steps) \in Nat BY <2>1, LastStep
  <2>6. Min({0, Last(MissionOf[m].steps)}) = 0 BY <2>5, MinOfTwo
  <2> QED BY <2>3, <2>4, <2>6
<1>11. ResourcesCounted(acct, h.events)
  <2> SUFFICES ASSUME NEW s \in Sources PROVE Total(acct, s) = Before[s][FirstDay - 1]
    BY <1>5, BeforeCounted, Zenon DEF ResourcesCounted
  <2>1. /\ acct.clears = InitialClears
        /\ acct.items = [i \in Items |-> DropsFor(InitialClears, i)]
    BY <1>1, Zenon DEF FirstAccount
  <2>2. CASE s \in {"quest_clear"} \X Quests
    <3>1. PICK q \in Quests : s = <<"quest_clear", q>> BY <2>2
    <3>2. Total(acct, s) = InitialClears[q] BY <2>1, <3>1 DEF Total
    <3> QED BY <3>1, <3>2, BeforeIs
  <2>3. CASE s \in {"item_received"} \X Items
    <3>1. PICK i \in Items : s = <<"item_received", i>> BY <2>3
    <3>2. Total(acct, s) = acct.items[i] BY <3>1 DEF Total
    <3>3. Total(acct, s) = DropsFor(InitialClears, i) BY <2>1, <3>2
    <3> QED BY <3>1, <3>3, BeforeIs
  <2> QED BY <2>2, <2>3 DEF Sources
<1>12. acct.initialized # -1 => Projected(acct) BY <1>1 DEF FirstAccount
<1>13. CollectionSeen(acct, h)
  <2>1. h.memorias = acct.memoria_history \union acct.memorias
    BY <1>1, <1>5 DEF FirstAccount
  <2>2. Cardinality(h.memorias) = 0 BY <1>5, FS_EmptySet
  <2>3. \A d \in Days : h.events[Collection][d] = 0 BY <1>5, BeforeIs
  <2> QED BY <2>1, <2>2, <2>3 DEF CollectionSeen
<1>14. BattleReported(acct, requests)
  <2>1. acct.active = [quest |-> None, txid |-> None, events |-> {}]
        /\ acct.battle_progress = NoProgress
    BY <1>1, Zenon DEF FirstAccount
  <2>2. /\ acct.active.quest = None /\ acct.active.txid = 0 /\ acct.battle_progress.txid = 0
    BY <2>1 DEF NoProgress, None
  <2> QED BY <1>1, <2>2 DEF BattleReported
<1>15. SkipsCounted(acct, h)
  <2>1. acct.episode = [day |-> -1, clears |-> 0, additions |-> 0] BY <1>1, Zenon DEF FirstAccount
  <2>2. acct.episode.day = -1 /\ acct.episode.day <= day BY <1>2, <2>1
  <2>3. \A d \in Days : d # -1 BY <1>2 DEF Days
  <2>4. \A d \in Days : h.skips[d] = 0 /\ h.additions[d] = 0 BY <1>5
  <2>5. 0 <= MaxDailyClear + 0 BY <1>2
  <2> QED BY <2>2, <2>3, <2>4, <2>5, Zenon DEF SkipsCounted
<1> QED BY <1>2, <1>3, <1>4, <1>6, <1>8, <1>9, <1>10, <1>11, <1>12, <1>13, <1>14, <1>15
    DEF HomeIInv, Sound

-----------------------------------------------------------------------------
(* Every step *)

LEMMA NextKeepsHome ==
    ASSUME HomeIInv, HomeNext
    PROVE  HomeIInv'
<1>1. CASE refresh_home BY <1>1, RefreshKeepsHome
<1>2. CASE \E ids \in Some(Missions), bulk \in BOOLEAN : mission_receive(ids, bulk)
  <2>1. PICK ids \in Some(Missions), bulk \in BOOLEAN : mission_receive(ids, bulk) BY <1>2
  <2>2. ids \subseteq Missions BY DEF Some
  <2> QED BY <2>1, <2>2, MissionsKeepHome
<1>3. CASE \E c \in Categories : count_reward_receive(c) BY <1>3, CountsKeepHome
<1>4. CASE \E tab \in Tabs : event_tab_reward_receive(tab) BY <1>4, TabKeepsHome
<1>5. CASE \E step \in DOMAIN MultiSteps : receive_multi_mission(step) BY <1>5, MultiKeepsHome
<1>6. CASE \E q \in Quests : battle_start(q) BY <1>6, StartKeepsHome
<1>7. CASE \E e \in BattleEvents : battle_attack(e) BY <1>7, AttackKeepsHome
<1>8. CASE battle_finish BY <1>8, FinishKeepsHome
<1>9. CASE battle_retire BY <1>9, RetireKeepsHome
<1>10. CASE \E q \in Quests, n \in SkipCounts : quest_skip(q, n) BY <1>10, SkipKeepsHome
<1>11. CASE \E n \in SkipCounts : daily_clear_add(n) BY <1>11, AddKeepsHome
<1>12. CASE \E k \in Memorias : gacha_memoria(k) BY <1>12, WinKeepsHome
<1>13. CASE \E k \in Memorias : memoria_sell(k) BY <1>13, SellKeepsHome
<1>14. CASE navigation_task_proceed BY <1>14, NavigationKeepsHome
<1>15. CASE login_bonus BY <1>15, LoginKeepsHome
<1>16. CASE \E ids \in Some(1..acct.next_mail_id) : mail_open(ids) BY <1>16, OpenKeepsHome
<1>17. CASE \E ids \in Some(1..acct.next_mail_id) : mail_delete(ids) BY <1>17, DeleteKeepsHome
<1>18. CASE recipe_learn BY <1>18, RecipesKeepHome
<1>19. CASE \E indices \in Some(DOMAIN RecipeCounts) : claim_recipe_counts(indices)
  <2>1. PICK indices \in Some(DOMAIN RecipeCounts) : claim_recipe_counts(indices) BY <1>19
  <2>2. indices \subseteq DOMAIN RecipeCounts BY DEF Some
  <2> QED BY <2>1, <2>2, PlanKeepsHome
<1>20. CASE NextDay BY <1>20, DayKeepsHome
<1> QED
  BY <1>1, <1>2, <1>3, <1>4, <1>5, <1>6, <1>7, <1>8, <1>9, <1>10, <1>11, <1>12, <1>13, <1>14,
     <1>15, <1>16, <1>17, <1>18, <1>19, <1>20, Zenon
  DEF HomeNext

LEMMA StutterKeepsHome ==
    ASSUME HomeIInv, UNCHANGED homeVars
    PROVE  HomeIInv'
<1>1. /\ day' = day /\ requests' = requests /\ acct' = acct /\ happened' = happened /\ paid' = paid
  BY DEF homeVars
<1>2. Sound(acct', happened', paid', requests') BY <1>1 DEF HomeIInv
<1>3. Sound(acct, happened, paid, requests)' BY <1>1, <1>2, SoundNext
<1> QED BY <1>1, <1>3 DEF HomeIInv

\* The inductive invariant holds.
THEOREM HomeInvariant == HomeSpec => []HomeIInv
<1>1. HomeInit => HomeIInv BY InitHome
<1>2. HomeIInv /\ [HomeNext]_homeVars => HomeIInv' BY NextKeepsHome, StutterKeepsHome
<1> QED BY <1>1, <1>2, PTL DEF HomeSpec

-----------------------------------------------------------------------------
(* What follows for the properties of module Home *)

LEMMA HomeTypes == HomeIInv => HomeTypeOK
<1> SUFFICES ASSUME HomeIInv PROVE HomeTypeOK OBVIOUS
<1>1. /\ day \in FirstDay..MaxDay /\ requests \in 0..MaxRequests
      /\ AcctOK(acct) /\ acct \in HomeAccts /\ acct.touched = {} /\ day \in Days
  BY SoundNow DEF HomeIInv, Sound
<1>2. \A m \in DOMAIN acct.missions :
          /\ m \in Missions
          /\ acct.missions[m].count \in 0..Last(MissionOf[m].steps)
          /\ acct.missions[m].received \in 0..Len(MissionOf[m].steps)
  <2> SUFFICES ASSUME NEW m \in DOMAIN acct.missions
               PROVE  /\ m \in Missions
                      /\ acct.missions[m].count \in 0..Last(MissionOf[m].steps)
                      /\ acct.missions[m].received \in 0..Len(MissionOf[m].steps)
    OBVIOUS
  <2> DEFINE rec == acct.missions[m]
  <2>1. m \in Missions /\ RecordOK(m, rec) BY <1>1, RecordTypes
  <2>2. Last(MissionOf[m].steps) \in Nat /\ Len(MissionOf[m].steps) \in Nat BY <2>1, LastStep
  <2> HIDE DEF rec
  <2>3. /\ rec.count \in Nat /\ rec.received \in Nat /\ rec.count <= Last(MissionOf[m].steps)
        /\ rec.received <= Len(MissionOf[m].steps)
    BY <2>1 DEF RecordOK, Record
  <2> QED BY <2>1, <2>2, <2>3 DEF rec
<1>3. DOMAIN acct.counts \subseteq Categories BY <1>1, RecordTypes
<1>4. /\ acct.tasks \in [Tasks -> Nat] /\ acct.mails \subseteq Mail /\ acct.recipes \subseteq Recipes
      /\ acct.guides \subseteq Guides /\ acct.gems \in Nat
  BY <1>1, AcctTypes
<1>5. DOMAIN acct.missions \subseteq Missions BY <1>2
<1> QED BY <1>1, <1>2, <1>3, <1>4, <1>5, Zenon DEF HomeTypeOK

LEMMA HomePays == HomeIInv => PaymentsEarned
<1> SUFFICES ASSUME HomeIInv PROVE PaymentsEarned OBVIOUS
<1>1. Ledger(acct, paid) /\ Earned(DOMAIN paid, happened.events) BY DEF HomeIInv, Sound
<1>2. PaidOnce BY <1>1 DEF Ledger, PaidOnce
<1>3. PaidWasEarned BY <1>1, Zenon DEF Earned, PaidWasEarned
<1> QED BY <1>2, <1>3 DEF PaymentsEarned

LEMMA HomeKeeps == HomeIInv => ProgressKept
<1> SUFFICES ASSUME HomeIInv PROVE ProgressKept OBVIOUS
<1>1. /\ acct \in HomeAccts /\ EventsOK(happened.events) /\ Kept(acct, happened.events)
      /\ ResourcesCounted(acct, happened.events) /\ (acct.initialized # -1 => Projected(acct))
  BY SoundNow DEF HomeIInv, Sound
<1>2. ProgressIsComplete
  BY <1>1, Zenon DEF ProgressIsComplete, Kept, ToCount, Counted
<1>3. TaskIsProjection
  <2> SUFFICES ASSUME acct.initialized # -1, NEW t \in Tasks, StateBacked(t)
               PROVE  acct.tasks[t] = TaskDone(happened.events, t)
    BY DEF TaskIsProjection
  <2>1. acct.tasks[t] = state_counter_total(acct, t) BY <1>1 DEF Projected
  <2>2. TaskDone(happened.events, t) = state_counter_total(acct, t) BY <1>1, TaskDoneTotal
  <2> QED BY <2>1, <2>2
<1> QED BY <1>2, <1>3 DEF ProgressKept

LEMMA HomeRemembers == HomeIInv => RemovalsRemembered
<1> SUFFICES ASSUME HomeIInv PROVE RemovalsRemembered OBVIOUS
<1>1. CollectionSeen(acct, happened) /\ MailsInOrder(acct) BY DEF HomeIInv, Sound
<1>2. GoneIsRemembered BY <1>1 DEF CollectionSeen, GoneIsRemembered
<1>3. MailsAddressable BY <1>1, Zenon DEF MailsInOrder, MailsAddressable
<1> QED BY <1>2, <1>3 DEF RemovalsRemembered

LEMMA HomeSkips == HomeIInv => SkipsWithinDay
BY Zenon DEF HomeIInv, Sound, SkipsCounted, SkipsWithinDay
=============================================================================
