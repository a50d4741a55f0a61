# A formal model of the private game server

The repository is a Rust server for a mobile role-playing game: an HTTP API in
front of one SQLite file, a set of reducers that turn a saved state and a
request into a new state and a response, a combat engine, and command-line
account tools.  This directory holds TLA+ modules translated from its source,
TLC configurations that check them on small instances, and TLAPS proofs.

## 1. Inventory

| Part | State it keeps | Operations | What makes it correct |
|---|---|---|---|
| Store and replay journal (`storage.rs`, `storage/*.rs`) | `gameplay_mutations`, `active_battles`, `home_state`, `player_state`, one connection behind a mutex | one IMMEDIATE transaction per gameplay request, replay lookup, deletion, maintenance | a retried request runs once; a running battle stays resumable; the battle fields of the home state stay in step with the battle row |
| Dispatch (`api.rs`, `api/*.rs`) | the storage gate (one permit), `maintenance_tick` | admit or refuse, session check, battle check, transaction, second read, maintenance, answer | separate lock sections of a request are not overtaken; every request ends; the journal stays bounded |
| Accounts (`main.rs`, `storage/accounts.rs`, `auth_and_login.rs`) | `accounts`, `auth_grants`, `sessions`, the handoff file | create account, log in (own process), sign in, delete account, prune | a session belongs to the account whose password was verified; a grant opens one session |
| Energy (`state/energy`, `talk_and_resources.rs`) | stamina, spare stamina, mana, their update times, the daily purchase count, pass records | refresh, purchase, use, charge, reward, rank-up | time is credited once; daily limits hold |
| Battle service (`quest_and_battle.rs`) | the battle blob, progress and effects tagged with `start_txid` | start, attack, finish, resume, retire | one battle per account, rewards of the right battle |
| Combat engine and effects (`state/combat`) | members, waves, timeline, panels, gauges, effect instances, the prepared turn | commands of an ally (skill, tools), the scheduler that runs enemies, waves and lost turns | the timeline holds the living; a request ends on an ally's turn; the scheduler ends; effects end with their turns |
| Activities (`state/activities`) | exploration runs, expeditions, houses, streets, closeness, dishes | start, explore, fight, finish, retire, skip; send out, build, visit, give, serve | one run per story class, a run waits exactly for its own battle, every fight pays once, a paid run can be finished; time and levels are paid once |
| Home requests, missions, rewards (`state/home`) | mission records, tasks, claims, mail, login bonus, episode counts | report progress, claim, open, skip | one payment per step and cycle, only for what happened in it; nothing reported is lost |
| Gacha (`state/gacha`) | button, step and daily counters, wish lists, copies | list, draw, step up, choose, select | counters count draws, steps in order, shares add up |
| Shop (`state/shop`) | product counts, sessions, boxes, passes, growth steps, wheel, challenge scores | buy, verify, refresh, draw, receive, turn | priced by count, credited once, received once |
| Character growth (`state/character`, `state/quest/lifecycle.rs`) | levels, experience, boards, rates shared by a role | enhance, gain experience, open board, reset | what is raised is given back once; experience is kept up to the cap |
| Belongings (`state/atelier`, `state/party`, `state/synthesis`) | tools and memoria by entity id, and who uses them | craft, equip, lock, break, sell | nothing in use disappears, no reference outlives its target |
| Modes (`state/modes`) | panels and lines, score ranks, raid reservations | start, finish, retire, reset, receive | lines, ranks and raids pay and admit once |
| Migrations (`storage/migrations.rs`) | schema versions and checksums | apply in order at start | a crash between two migrations, or a second process, is harmless |
| Transport, configuration, assets, catalogs | none of their own | decode, serve, load | - |

**How they interact.**  A handler (an async task) takes the only permit of the
storage gate or answers `storage_busy`, and runs the whole request on a
blocking thread that owns the permit.  There it locks the connection mutex
several times: for the session, for the noncombat check, for the transaction,
for the second read of the answer and for maintenance.  Between two locks only
the gate excludes other requests.  Account commands are separate processes on
the same file, excluded by SQLite's transactions only.  Reducers run inside
the transaction and see the resources, the home state and the active battle.

**What is hard here.**  The retries of a client that lost an answer, together
with a journal that forgets; a battle check separated from the transaction it
protects; battle data spread over a row, a blob and a journal row that
maintenance would like to delete; panics under a mutex; restarts that reset
the maintenance counter; logins that race with account deletion; recovery
arithmetic whose time stamps several requests move; runs that span many
requests and meet battles, skips and party edits in between; a timeline that
several handlers of one request rewrite and every later request relies on.
`PROJECT.json` lists these
hazards at their lines with the properties that would catch them.

## 2. Modules

| Module | Models | Role |
|---|---|---|
| `JournalTypes` | the journal row and the request | shared constants and records |
| `RetryLedger` | nothing in the code: the promise to a retrying client | abstract specification |
| `Journal` | the transactions, deletion and maintenance of the store | core component |
| `Dispatch` | API server, gate, lock sections, faults; EXTENDS `Journal` | composition |
| `Auth` | accounts, grants, sessions, handoff file | component |
| `Energy` | stamina, spare stamina, mana, purchases | component |
| `Exploration` | exploration runs with their battles, skips, clears and parties | component |
| `Combat` | one battle: members, waves, timeline, tools, the scheduler | component |
| `Home` | missions, tasks, claims, login, mail, recipes, skips | component |
| `Gacha` | draws of every kind of gacha | component |
| `Shop` | purchases, sessions, boxes, passes, growth, wheel, challenges | component |
| `Growth` | levels, boards, role rates, reset | component |
| `Belongings` | tools, memoria and their users | component |
| `Modes` | panel, score and raid battles | component |
| `Expeditions`, `Housing`, `Town` | the other activities | components |
| `Migrations` | the schema, opened by several processes | component |
| `MC` modules of the same names | small instances | model checking |
| `MCAccount`, `MCActivities` | seven and five of these in one run | model checking |
| `DataTheorems` | facts about numbers, sums, finite sets and sequences | lemmas |
| `RetryLedgerProofs`, `DispatchProofs` | theorems about `RetryLedger`, and about `Journal` and `Dispatch` | proofs |
| `BattleProofs`, `HomeProofs`, `GachaProofs` | theorems about `Energy` and `Combat`, about `Home` and about `Gacha` | proofs |
| `ActivitiesProofs` | theorems about `Auth`, `Modes`, `Belongings`, `Shop`, `Exploration` and their composition | proofs |
| `AccountProofs` | theorems about `Migrations`, `Expeditions`, `Housing`, `Town`, `Growth` and the composition of these, `Home` and `Gacha` | proofs |

Definitions carry the names of the Rust functions where there is one; the
`map` of `PROJECT.json` gives the lines.

**Journal.**  Every action is one IMMEDIATE transaction.  `Journalled` is the
part they share: look the request id up, refuse a conflicting reuse, append the
row.  The battle row keeps its quest, the kind of its start, its `start_txid`
and whether it is won; the home state keeps `gacha_battle_id` and the
`start_txid` tags of `combat_effects` and `battle_progress`.  A `start_txid` is
a fresh UUID in the code; the model uses the mutation id of the start, which is
as fresh.  A stored response is stood for by the mutation id of its row, since
each execution computes its own.  The six start routes fall into four classes
by what they do to the home state.  How an attack ends is left open.  `log` is
a history variable.

**Dispatch.**  A handler is a small program counter: admit, session, guard,
transaction, reread, maintain, respond.  Each is one lock section.  A reducer
may panic, which poisons the mutex; from then on every lock panics until the
process is restarted.  A restart loses the handlers and sets the maintenance
counter to zero.  Answers may be lost.

**Auth.**  A login is three steps of a process of its own: read and verify,
issue the grant, write the handoff file with `create_new`.  It may be killed
between any two, also between creating the file and writing it.  The launcher
that takes the file away is not in the repository and is modelled by its
effect.

**Energy.**  `refresh` is an operator on the status, as in the code.  Requests
that refresh first and requests that do not (battle starts, battle rewards)
are told apart by the status they start from.

**Exploration.**  `runs` are the saved runs, `shown` the copy of them the client
sees in the resources, `battle` what the battle row and the home state say of
the fight of a step, `clears` the quest clears, `party` the composition of each
party number, `paid` a history of what was paid for.  Requests of the home
route need that no battle runs (`Outside`); that this check and the transaction
belong together is what `NoncombatOutsideBattle` of `Dispatch` says.  The
experience and money of a step count as one payment.  Quest periods are
modelled with a clock.  Left out: tasks and story keys that open a quest, the
party gauge, the earned experience shown at the finish, quests with a fixed
party.  A battle that was fought at all (`total_turn > 0`) is `fought`; story
order is the order of ids.

**Combat.**  `b` is the battle as the request works on it, `saved` what the row
holds.  The attack request is one transaction in the code; here the command,
each tool and each round of the scheduler's loop are actions, `phase` says
where the request is, and an error (`refused`, with its reason) leads to
`rollback`.  No other request can see the steps in between.  The timeline is a
function from placed units, a member and a number, to waits; `Earlier` is the
sort key of the code, and `consume_timeline_turn`, the two delays and the
removal are translated as they are.  Damage is not computed: whom an attack
hits, kills and breaks is any choice (`Outcomes`), a refresh of the effects may
change one member's speed, and a turn's start may find poison, burn, paralysis
or provocation.  Delay effects are taken to come with skills and tools aimed at
the other side.  Left out: panels, burst gauges and party gauge effects, which
change damage or which skill may be chosen, and the fixed timelines of the
tutorial.  `generated_actions` and its limit are kept, with a smaller limit.
`HpSpeedRules` says whether a rule on speed depends on health; the rules are
data outside the repository, and the runs take it to be false (see the
hazards: with it, a request may settle on an ally and be saved on an enemy's
turn).

**Home.**  `acct` is the saved account, `happened` and `paid` are histories of
what came about on each day and of what was given for it.  A request is
`reduce_home_inner`: collect, advance, its own operation, collect again.  Time
is counted in server days, since resets, login bonuses and mails look at
nothing finer; the week and the day are the cycles of the instance.  Where the
code goes over a table of missions, categories or bonuses, the model folds over
the set of their ids in ascending order, and over claimed missions with each
after the ones it needs; mails are a set, since nothing depends on their place.  Accounts are past the tutorial.  The energy refresh of a home
request is in `Energy`.

**Gacha.**  Which card a draw selects is any card of its group; `distribute_cards`
is translated with its integer units and its remainder.  Currency has a free and
a paid part, and the counters of buttons, days and steps are those of the
resources.  The weights of the cards are a set of entries, each with
the place it has in the list of the code, so that two entries of one card stay
two; an execution is the fold of `Drawn` over its cards (`DrawnAll`).  Assumed of
the master data: a step-up gacha has no negative number of rounds; a rate has
cards, none of them twice and a unit for each (`RateFits`); the pickups of a
gacha have cards, and the heaviest wish list leaves a unit for every other card
of the rate (`PickupsFit`).  On other tables the code refuses the draw or gives a
card no weight.

**Shop** keeps the product counts, the open sessions, the boxes with what is left
in each, passes with their day, growth steps with their free and premium parts,
the wheel and the challenge's scores; free and paid gems are one
number there, since how a price is taken from the two is in `Gacha`.

**Growth** has characters that share a role and therefore a rate, an ordinary, an
extra and a neo board, and the materials spent, so that a reset can be compared
with what was paid.  The cole for one item of experience is assumed to be whole
(`GrowthAssumption`): were it a fraction, rounding down at every enhancement and
once at the reset would give back more than was paid, which depends on the
tables and not on the code.
**Belongings** has entity ids, taken again when the largest is gone, and every
place that may refer to one: characters, party members, presets, parties, ship
parties, rental parties and the favourites of the profile.  The last two are
searched by no check, and `AssignedAreOwned` says nothing of them.
**Modes** starts panel battles by both routes that reach them.

**Expeditions**, **Housing** and **Town** are driven by a clock of a few seconds
and keep histories of what was paid.  **Migrations** has processes that read
which tables exist, then apply one migration per transaction, and may die
between any two; the file they find may be empty, of the time before checksums,
left half way, of another build, or with rows missing.

## 3. Runs

| Run | Shows | Bounds |
|---|---|---|
| `journal` | `TypeOK`; `RecoveryContext`: a battle can always be resumed with the context of its own start; `BattleTagsAgree`: the home fields belong to the running battle; `ImplementsLedger`: the store implements `RetryLedger` | 4 executions are a whole battle and the start of another; one id with 2 bodies and on several routes, also during the battle; retention of 1 row and 1 second and a batch of 1 make every row but the spared one prunable at once, by age, by count, or by both |
| `dispatch_battle` | `SecondReadSucceeds`, `NoncombatOutsideBattle` and the permit count in `DispatchTypeOK`, with 2 handlers and panics | 2 handlers are enough for one to overtake the other between two lock sections; with two permits instead of one TLC finds the overtaking |
| `dispatch_retry` | `AnswersAreExecutions`, `RetryWindow` with panics, crashes, failing maintenance, lost answers | one id, used with two bodies and on two routes |
| `dispatch_live` | `EveryRequestEnds`, `GateReopens`, panics included; `JournalBounded`: restarts between requests do not starve maintenance | 2 handlers; 5 executions exceed the bound of 4 rows if maintenance is starved |
| `energy` | `EnergyFromTime`, `DailyLimits` | a day of 4 seconds starting at second 1, clock up to 7: two days; intervals of 2 and 3 seconds leave remainders; limits, maximum and spare capacity are all reached |
| `energy_price_list` | refutes `PriceListRestarts`, see section 6 | as above |
| `combat` | `TimelineMatchesMembers`; `CommandsAreAnswerable`: a saved battle that is not over is on an ally's turn; `SchedulerReturns`: the limit of generated actions is never what ends the scheduler | 1 ally, waves of 1 and 2 enemies that reuse an id, up to 3 times as fast as the ally, a boss with 3 turns, skills that cost nothing, 2 tools, provocation, a limit of 10; no delay, poison or paralysis, under which only luck ends the loop |
| `combat_effects` | `TimelineMatchesMembers` when speeds change before and after every action, delay effects move members and turns are lost | 2 allies and 1 enemy, 2 speeds, delays of one slot up to a wait of 4, attack and heal tools; a limit of 2 generated actions, so that requests also fail half way |
| `account` | `AccountTypeOK` and, by component: `PaysWhatIsEarned`, `KeepsProgress`, `RemembersRemovals`, `SkipsKeepToTheDay` of `Home`; `DrawsAreCounted`, `ListStaysAvailable` of `Gacha`; `LevelsAddUp` of `Growth`; `DatabaseOpens` of `Migrations`; `OutingsPay` of `Expeditions`, `Housing` and `Town` | `Home`: 5 requests over the two days around the end of a week, six missions of every kind; `Gacha`: one gacha of each kind, each drawn past its limit; `Growth`: two characters of one role, up to three boards of two pages; `Migrations`: two processes, three versions; `Expeditions`: two slots and travellers, an hour of 3 seconds that is no multiple of the interval of 2, a destination that closes; `Housing`: two laps; `Town`: two phases, three presents across two closeness levels, dishes twice a day over two days |
| `activities` | `ActivitiesTypeOK` and `SignInsAreOwned`, `MaintenanceInvisible` of `Auth`; `ShopPaysOnce`, `ShopKeepsCount` of `Shop`; `BelongingsKept`; `ModesPayOnce`; `RunIsShown`, `RunIsPaid` of `Exploration` | `Auth`: 2 login processes and one username, so that the name can be taken again while a login or a grant is under way; `Exploration`: two stories that compete and a third quest whose period ends early, one party number with 3 compositions, health of 1, one tool, stamina for 5 payments, 2 points in time; the others: as many products, belongings and panels as make a case of two differ from one of one |
| `gacha_replay` | refutes `ListedIsPlayable`, see section 6 | two clears of the talk |
| `expedition_hours` | refutes `HoursPaidOnce`, see section 6 | an hour of 4 seconds, two intervals |

`account` and `activities` hold components that share no state: the variable
`part` is chosen in the initial state and only that component moves, so a
behaviour of the run is a behaviour of one of them and every property is
checked on all behaviours of its own component.  They are run together only to
keep the number of runs small; the properties of `MCAccount` that name a part
are those of the component, looked at only while that part moves.

Several properties are conjunctions of named parts, each with its own comment
in the module:

| Property | Parts |
|---|---|
| `EnergyFromTime` | `TimeCreditedOnce`, `RefreshComposes` |
| `PaysWhatIsEarned` (`PaymentsEarned`) | `PaidOnce`, `PaidWasEarned` |
| `KeepsProgress` (`ProgressKept`) | `ProgressIsComplete`, `TaskIsProjection` |
| `RemembersRemovals` (`RemovalsRemembered`) | `GoneIsRemembered`, `MailsAddressable` |
| `DrawsAreCounted` (`DrawsKeepCount`) | `EveryCopyCounts`, `StepsInOrder`, `SharesKept` |
| `LevelsAddUp` (`RaisingAddsUp`) | `BoardsAddUp`, `NothingGained`, `OverLimitIsSkipped` |
| `DatabaseOpens` | `OpenIsCurrent`, `OnlyRacesRefuse` |
| `OutingsPay` | `ExpeditionsPay` (`SecondsPaidOnce`, `HoursPaidTwiceAtMost`, `TravellersApart`), `HousePays` (`ProductionPaidOnce`, `CountsPaidOnce`, `RecordsComplete`), `TownPays` (`DishesAddUp`, `ClosenessPaidOnce`, `StreetWalkedThrough`) |
| `SignInsAreOwned` | `OwnersOnly`, `GrantOpensOnce` |
| `ShopPaysOnce` | `CreditedOnce`, `PassPaysOnce`, `GrowthPaysOnce`, `ChallengePaysOnce` |
| `ShopKeepsCount` | `PricedByCount`, `BoxesInTurn`, `WheelWithinDay` |
| `SkipsKeepToTheDay` | `SkipsWithinDay` |
| `BelongingsKept` | `AssignedAreOwned`, `BreaksCostCopies` |
| `ModesPayOnce` | `LinesPaidOnce`, `RanksPaidOnce`, `FightsRaidOnce` |
| `RunIsShown` | `PendingIsTheBattle`, `ProgressShowsTheRun` |
| `RunIsPaid` | `EveryFightPaysOnce`, `ClearsArePaid`, `RunStaysFinishable` |

`DatabaseOpens` says what a race may do: a process that opens the file while
another applies migrations may be refused for missing metadata, and then
succeeds when it tries again; nothing else refuses a file this program wrote.

Waits of a battle are a few ticks instead of hundreds (`WaitScale`, `BreakDelay`):
what matters is which of two turns is earlier and when two fall on the same
tick, and small numbers make both frequent.

The runs over one account leave nothing out that two would add to TLC's
coverage of `Journal`: rows, battles and home states of different accounts
meet only in the shared mutation counter and in the maintenance batch.  The
theorems hold for any set of accounts.

**Fairness.**  `dispatch_live` assumes weak fairness of `Step(w)` for each
handler: the runtime polls a ready task and a blocking task runs to its end;
waits inside a step are bounded by the busy timeout of SQLite.  Clients, the
clock, panics and restarts are under no obligation.  No other run uses
fairness.  Panics are part of the run: the property says that a handler whose
every lock panics still ends and gives its permit back.

**Deadlock** is checked in every run except where a cfg says otherwise.

## 4. Proofs

The proof modules are checked by tlapm without any assumption beyond the
ASSUMEs of the modules they are about, which TLC evaluates on the instances:
that limits, prices, intervals and lengths are natural numbers (positive where
the code divides by them), that tables are sequences or finite functions of the
types the catalogs give them, and that a marker is none of the values it is told
apart from.  The theorems hold for any accounts, requests, workers, products,
quests, parties, missions, gachas, speeds, limits and bounds.  Two theorems have
hypotheses of their own (5 and 7).

**The journal.**

1. `LedgerSafety`: `LedgerSpec => []RetryWindow`.  `RetryWindow` speaks of two
   executions and is not inductive: what is needed in between is
   `ForgottenOnlyIfExpired` (an execution that is no longer remembered has
   expired or its account is gone) and that execution numbers grow.  When an
   id is executed again it is not remembered, so it has expired, and all newer
   executions lie before the new one.
2. `TypeCorrectness`, `BattleRecovery`, `BattleTags`: `[]TypeOK`,
   `[]RecoveryContext`, `[]BattleTagsAgree` from the invariant `JournalInv`,
   the conjunction of `TypeOK`, `RowsOrdered` (mutation ids are unique and
   below the next one), `RecoveryRow` (the row of the running battle's start is
   in the journal and is the newest start row of its account) and
   `BattleTagsAgree`.  `RecoveryContext` alone is not inductive: it says what
   `battle_resume` would return, not that the row is the one `prune_expired`
   spares; and only `RowsOrdered` shows that the next start is newer than
   every row it leaves behind.
3. `JournalImplementsLedger`: `Spec => L!LedgerSpec`.  `executions` is `log`,
   `remembered` is `journal`, `deleted` the deleted accounts.  Each transaction
   is an `Execute`, maintenance a `Forget` (a row that is stale by counting
   journal rows is expired by counting executions, since the journal is part of
   the log), deletion a `Drop`.  `RequestsRunOnce`, `Spec => []RetryWindow`,
   follows.

**The API.**

4. `DispatchInv` says of every handler what it knows at its program counter
   (`HandlerKnows`), that exactly one permit is free or held (`GateHeld`) and
   that `JournalInv` holds.  What a handler has read stays true until its next
   step because only the holder of the permit touches the tables: this is
   mutual exclusion, and the reason why `SecondReadsSucceed` (a row committed
   or a battle seen is found again by the second transaction),
   `NoncombatStaysOutside` (the check for a battle and the mutation are two
   transactions) and `GateAdmitsOne` hold, panics and restarts included.
   `AnswersAreTrue` says that each answer is of an execution of its request.
   `DispatchRunsJournal`, `DispatchSpec => Spec`, carries the theorems of the
   journal over to the API; `RetriesRunOnce` is one of them.

5. `JournalStaysBounded`: `DispatchSpec => []JournalBounded`, under
   `MaintenanceKeepsUp`: no crash, no failing maintenance, and `PruneBatch` at
   least `MaintenanceEvery` (128 and 32 in the code).  `WithinRound` counts the
   requests completed since the last maintenance and the one that is through with
   its transaction (`Pending`); each has added a row at most.  What a maintenance
   leaves when it finds all expired rows is counted by an injection: a row is
   known by its account and by how many rows of the account are newer, the spared
   row by its account (`RetainedRows`).  A panic skips maintenance, too, but under
   a poisoned mutex nothing is inserted until the restart, whose first request
   does maintenance.  Shutdowns between requests are allowed at any time.  The
   bound is on all rows together: one batch takes rows in no particular order, so
   with many accounts it may leave one of them above its own retention count for
   some rounds.

**Energy, battles** (`BattleProofs`).

6. `EnergyInv` adds to the types `TimeCreditedOnce` (what was handed out fits in
   the time by which the marks have moved) and `DayCounted` (the purchases of
   the day are among those that a refreshed status and the passes count; the
   counters are reset by comparing days, so the invariant speaks of the status
   as it would be refreshed now).
   `TimeBecomesEnergyOnce` rests on `RefreshTwice`: to refresh at one time and
   then at a later one is to refresh at the later one, for every status and
   every interval.  That is arithmetic of quotients (`Division`,
   `DivisionUnique`).  `DaysAreLimited` and `EnergyTypeCorrectness` complete it.
7. `CombatInv` says of the battle in work and of the saved one that they are
   sound (`Matches`: each living member has two or three turns, numbered one
   after the other, the dead none) and that a request in a phase has what the
   phase needs.  `CombatTypeCorrectness` and `TimelineIsOfTheLiving` follow for
   any members, waves, speeds, delays and tools.  `AnAllyIsAsked`
   (`CommandsAreAnswerable`) holds under two hypotheses the runs have as well:
   no rule makes speed depend on health (`HpSpeedRules`), and no speed is so
   high that the wait it gives is zero.  Without the second an enemy may start
   in the same place of the timeline as the first ally.

**What an account does** (`ActivitiesProofs`), one invariant for each component:

8. `AuthInv`: account ids are given once, so what a login read at its first step
   is the account as it is, as it was, or none; a grant and a session know the
   account that was verified.  `SignInsBelong` and the action property
   `PruningInvisible` follow, for any batch size of the pruning.
9. `ModesInv` adds that the rank of a score battle is the rank of its best score
   (`RankIsOfTheBest`), without which a better score may pay a rank again.
   `ModesPayAndAdmitOnce`.
10. `BelongingsInv`: `BelongingsKept` with the types is inductive.  What is
   assigned is owned, so an id that is free to be given out is assigned to
   nobody, and every removal looks for references first.  `BelongingsAreKept`.
11. `ShopInv`: what was paid for a product is the sum of the prices of its first
   `counts` units (`PricedByCount`), what a box gave is its content times the
   boxes emptied and what was drawn from this one (`BoxesInTurn`), a credit per
   verified session (`CreditedOnce`), a payment for every received day, reward
   and score.  `ShopGivesOnce`, `ShopCountsAreKept`.  `PassStarted` and
   `WheelWithinDay` are the strengthening: they tie the days of a pass and of
   the wheel to the clock.
12. `ExplorationInv` strengthens the two properties by `WalksAreKept` (no run is
   beyond its last step, and what it has collected is that of the fights before
   its next step, talks that are skipped included) and restates the rest for one
   quest at a time (`OneOfAClass`, `ShownIsTheRun`, `ShownIsNoMore`,
   `PaidBefore`).  `RunsAreShown`, `RunsArePaid`.
13. `ActivitiesTypeCorrectness`: a behaviour of the composition is one of each
   component (`SideBySide`), so every theorem of 8 to 12 holds of it, and its
   type invariant is that of the parts.

**What an account is kept in, sends out, raises and draws from** (`AccountProofs`;
19 and 20 in `GachaProofs`).

14. `DatabaseCanBeOpened`, for any number of processes and of migrations.  What
   a process has read is stale at its next step, so `MigrationsInv` says what of
   it stays true whatever others do: a checksum found right stays right
   (`ChecksumsStay`), a database that the build cannot take keeps the row that
   gives it away (`TakeableStays`, `ForeignStays`), and of a process that met no
   other nothing is stale (`AloneKnows`).
15. `ExpeditionsPayForTime`.  `SecondsPaidOnce` and `HoursPaidTwiceAtMost` compare
   sums with the clock; what is inductive is `ClockPaid`, which says of every
   slot that seconds are paid up to `started_at` and no further, and an hour once
   up to there and once more up to where the last claim may have been.  The
   second hour is the one section 6 is about: the proof needs it, and needs no
   third.
16. `HousePaysOnce`.  A pass over the table of investigations may show a row that
   asks for one shown later, so a pass may miss some.  The code makes as many
   passes as there are rows.  Each pass adds a row or finds nothing missing, and
   more passes than rows cannot all add one (by cardinality), so afterwards
   nothing is missing: `RecordsComplete`.  Laps and levels add up to what was
   paid.
17. `TownPaysOnce`.  Dishes are counted between two times, at every request;
   `ServedAtOnce` shows that serving up to one time and then to a later one is
   serving up to the later one, whichever requests come in between.  Closeness
   grows with the points, so the rows paid are the rows reached.  A street is
   cleared in its last phase only.
18. `GrowthAlwaysAddsUp`: `GrowthSpec => [](GrowthTypeOK /\ RaisingAddsUp)`.  The
   panels of a character are a set, determined by pages and bits
   (`PanelsUpTo`).  A purchase adds panels that were not there (`BoardState`), a
   reset takes out those of two boards (`ResetTo`); costs and effects are sums
   over that set (`PanelsAddUp`), and one character changes only its own part of
   the sums over all (`OneCharacter`).  Of the experience given back it is shown
   that the items, the largest first, hold what it lost in them
   (`RefundIsWithin`), so nothing is gained; the invariant needs no more than
   `CharState`, that pages, bits and fields of a character agree.
19. `DrawsStayCounted`, for any gachas, buttons, rates, wish lists and cards.
   `GachaInv` is `GachaTypeOK`, `StepsCounted`, `EveryCopyCounts`, that `drawn` is a
   count of cards, and `WishesValid`.
   - Steps: the count that decides which step is next is the number of steps
     played, whatever buttons were executed in between (`StepsCounted`).
   - Copies: an execution draws one card after the other, and only after the
     last does the history change.  `HaveOK` says what an account has when
     `tally` counts the cards drawn so far, so that a card drawn twice within one
     execution finds its first copy; `DrawnTable` is the table of what it has
     after the first cards, and a smallest set of first cards for which `HaveOK`
     failed cannot exist.
   - Shares: `distribute_cards` gives every card the quotient and one unit more
     to as many as the remainder says.  The cards that get one are counted by
     their ranks, so the weights add up to the units of the rate; with
     `WishesValid`, that a stored list was validated, so do the pickups and the
     rest (`SharesAreKept`).
20. `StepsKeepTheirOrder` and `ListCanAlwaysBeRead`: the steps alone, from
   `StepsCounted` alone, and that once the gachas can be listed no request takes
   that away, an action property.  Clears only grow, the tutorial only goes on.

**What an account is paid at home** (`HomeProofs`).

21. `HomeInvariant`: `HomeSpec => []HomeIInv`.  None of the four properties of
   `Home` is inductive: `PaidOnce` looks at the history of payments only, while
   what keeps a payment from being made again is a record of the account, and a
   record says something of its own cycle only.  `Sound` therefore has a part for
   each ledger:
   - `Ledger`: every reward that was paid is written down: a step of a mission or
     a category lies behind its record (`Behind`: of an earlier cycle, or received
     in this one), a tab, guide, recipe or battle step is received, the day of a
     bonus has passed, a mail was opened or is gone.  `Timely`: no record is of a
     cycle to come.
   - `Earned`: what was paid for a mission happened in the cycle of the payment.
     Events only grow, so it stays.
   - `Kept`: what a mission counts is what happened in its cycle, up to its last
     step, for the state that `mission_state` would make of the record now; so it
     holds of a mission that was never touched, or not since its reset.
   - `ResourcesCounted` and, once an account was refreshed, `Projected`: clears and
     items are the sums of what happened, and counters of the resources are
     those.
   - `CollectionSeen`, `BattleReported` (events of a running battle are reported
     under its own `txid`; a battle that was given up has none), `MailsInOrder`,
     `SkipsCounted`: as their names say.
   Each operation is shown once to turn a sound account into one that is sound
   with what it paid and with what happened (`Advances` for what moves records,
   `Kept` and the rest for what is counted).  The requests begin and end with
   `Collection`, which is shown separately to lose nothing.  A claim of several
   missions, a skip of several clears, a bonus of several days are folds: of each,
   a statement is made about the account after the first of them, and a smallest
   failing set is excluded as in `DataTheorems`.
22. `HomeTypes`, `HomePays`, `HomeKeeps`, `HomeRemembers` and `HomeSkips` read
   `HomeTypeOK`, `PaymentsEarned`, `ProgressKept`, `RemovalsRemembered` and
   `SkipsWithinDay` off the invariant.

**The composition of an account** (`AccountProofs`).

23. A behaviour of `MCAccount` is one of each of the seven parts
   (`PartsSideBySide`), so each theorem above is one of the composition:
   `OnlyWhatIsEarnedIsPaid`, `ProgressIsNeverLost`, `RemovalsLeaveATrace`,
   `SkipsStayWithinTheDay`, `DrawsStayCounted`, `ListStaysReadable`,
   `LevelsAlwaysAddUp`, `OutingsPayOnce`, and `AccountTypeCorrectness`, the types
   of all seven.  `DatabaseCanBeOpened` carries over in the same way.

**Induction.**  Theorems with an operator as parameter cannot be instantiated, so
there is no induction rule for sums, least elements or recursive functions.
`DataTheorems` puts it as facts about sets: a set of finite sets that is not
empty has a smallest member, a set of natural numbers a least one, and so the
subsets or numbers a formula fails of cannot have one.  From this come the sum
over a set with one element more (`SumOfNext`, `SumOfPart`, `SumChanged`) and
the iteration of a step (`IterationExists`), for any values.

**Only model-checked:**

- `EveryRequestEnds` and `GateReopens`: liveness under fairness is beyond the
  prover.
- `SchedulerReturns`: that a loop of the scheduler ends before its limit depends
  on that limit and on the speeds; it is not so for every value of the constants.

## 5. Not modelled

Formatting, encryption and decoding of frames; assets; the generated catalogs,
which appear as constants; the resources blob beyond what the modules name;
`apply_memoria` and `memoria_deltas`, which no route reaches; device bindings,
which are written and never read; damage, healing and reward formulas; the
selection of traits and qualities in a synthesis; combat power; the timelines
of mods.

Of combat: the lifetimes of effect instances, panels and burst gauges.  Of
characters: evolution and locking of skills, skins, the research that opens an
extra board.  Of modes: legend challenges, damage contests, revived events.  Of
home requests: profile and settings, notifications, the start dates of mission
steps, objectives over the saved state, over syntheses and over battle parties,
and the conversion of an old home state, a pure function.  The wall clock is
taken not to run backwards.

Behaviours met while modelling that no property judges, because the repository
does not say what should happen: the battle check comes before the replay
lookup, so a retry of an executed noncombat request is refused while a battle
runs (`home/dispatch.rs:730`); a quest whose period ends during a paid run
refuses every further step (`quest/lifecycle.rs:8`); two open purchase sessions
of one product both pass the limit check (`shop/dispatch.rs:156`);
`/mission/navigation_task_proceed` writes into a record whose cycle may have
ended (`home/dispatch.rs:234`); `/solo_raid/reset` gives back a clear that only
skips count (`modes/dispatch_and_rewards.rs:193`); a panel quest can be started
as a standard battle with characters that hold another panel
(`quest_and_battle.rs:83`); a provoked ally keeps a target that a tool kills in
the same turn (`combat/attack.rs:521`); effects before a skill may take the
first place from its actor, and the request is refused
(`combat/timeline.rs:617`).  The models have them as they
are in the code.

## 6. Disagreements

`energy::refresh` resets the daily purchase count when the day of
`stamina_updated_at` lies before today.  `charge_quest` moves that time stamp
without refreshing.  A battle started after the change of day, before any home
request, therefore carries yesterday's purchase count into the new day: the
first purchase of that day costs what yesterday's next would have cost, or is
refused.  The test `energy_recovery_purchases_and_item_caps` expects zero on
the next day.  `energy_price_list` shows the trace.

`reduce_gacha_execute` refuses every execution unless the last prologue talk
was cleared exactly once; `reduce_gacha_list` asks for any clear.  A talk
played again counts as another clear, so the account is shown gachas it can
never execute.  The test `gacha_list_survives_replaying_the_last_prologue_talk`
says they stay available to it.  `gacha_replay` shows the trace.

`expedition_rewards` counts the hours of the clock since `started_at`, "one
uniform destination item per complete hour" by its comment, but moves
`started_at` on by complete intervals only.  After a claim just past the hour
it lies before the hour again, and the next claim pays the hour a second time.
`expedition_hours` shows it; `HoursPaidTwiceAtMost` bounds it.

The following are described here without a run.

`/exploration/update_party` refuses a change after the first fight with the
comment "Preserve health: party changes are permitted before the first fight".
But a run names its party by number, the party is resolved at every fight, and
`/party/bulk_update` changes it at any time outside a battle: the new members
take over the health of those who fought before, by position.

A command of several tools gives every attack tool the same target, the first
enemy, before the first tool is used.  When a tool kills it, the next one finds
its target dead and the whole request is refused, although the comment on the
loop says that such a command "emits one action per tool".  The rolls are
deterministic, so sending the command again does not help.

A delay by slots puts a unit midway between its new neighbours.  Members of the
same speed have units at the same wait; there is then no room, the computed
move is zero, and the attack that carries the effect is refused as a whole.
The test of that function expects a delay of one slot to move its target one
place back.  With three equal enemies none can be delayed by one slot at the
start of the battle.  The refusal for the reason `delay` is reached by `combat_effects` and, like every refusal, undoes the
request.

## 7. Plan

Done: the components of section 2 and the proofs of section 4, which state every
safety property of the runs but one.  What would come next:

1. `SchedulerReturns`, if a measure of the timeline can be found that bounds the
   actions of enemies between two turns of an ally by the limit of the code.
2. `JournalBounded` with crashes: the bound then grows by a row for each.
3. The objectives of home requests over syntheses and battle parties, and the
   lifetimes of effect instances in a battle (section 5).
