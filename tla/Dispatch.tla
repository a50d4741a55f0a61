------------------------------ MODULE Dispatch ------------------------------
(***************************************************************************)
(* The API server around the store: HTTP handlers that pass the storage    *)
(* gate, check the session, check for a running battle, run one            *)
(* transaction of Journal, read the stored answer back, do journal         *)
(* maintenance now and then, and answer.  Each lock of the connection      *)
(* mutex is a step of its own; only the gate keeps two requests from       *)
(* interleaving between their steps.                                       *)
(*                                                                         *)
(* Clients repeat requests as they like, lose answers, and the server may  *)
(* panic inside a reducer or be killed and restarted.                      *)
(***************************************************************************)
EXTENDS Journal

CONSTANTS
    Workers,           \* HTTP handlers running at a time
    MaintenanceEvery,  \* MAINTENANCE_EVERY_REQUESTS
    Faults             \* which of panic, crash, shutdown, prune_error happen

ASSUME DispatchAssumption ==
    /\ MaintenanceEvery \in Nat \ {0}
    /\ Faults \subseteq {"panic", "crash", "shutdown", "prune_error"}

VARIABLES
    worker,    \* per handler: where it is, its request, what it read, its answer
    permits,   \* free permits of the storage gate
    poisoned,  \* a panic left the connection mutex poisoned
    tick,      \* maintenance_tick modulo MaintenanceEvery
    answered   \* history: the successful answers clients received

serverVars == <<worker, permits, poisoned, tick, answered>>

dispatchVars == <<vars, serverVars>>

\* Mutant of StorageGatePermits: two requests run side by side.
TwoPermits == 2

StorageGatePermits == 1

\* Handled without a journal row.
DirectRoutes == {"sign_in", "user_login", "user_delete", "battle_resume"}

\* The mutations ensure_noncombat_mutation_allowed stands in front of.
NoncombatRoutes == {"gameplay", "gacha", "home_write", "home_guarded"}

DirectRequests ==
    [acct: Accounts, id: {NoId}, route: DirectRoutes, body: Bodies]

ClientRequests == Requests \union DirectRequests

\* What a handler answers: ok with the execution its bytes come from, or an
\* error code.  0: no journalled execution.
Reply == [code: {"none", "ok", "storage_busy", "join_error", "unauthorized",
                 "battle_already_active", "battle_not_active", "conflict",
                 "rejected", "not_found", "no_context", "invalid_context"},
          mid: Nat]

NoReply == [code |-> "none", mid |-> 0]
Ok(m) == [code |-> "ok", mid |-> m]
Error(c) == [code |-> c, mid |-> 0]

\* The states in which a handler holds a permit, inside spawn_blocking.
Admitted == {"session", "guard", "transaction", "reread", "maintain"}

PC == {"idle", "admit", "respond"} \union Admitted

Idle == [pc |-> "idle", req |-> <<>>, seen |-> 0, reply |-> NoReply]

\* What is known of a handler between its steps.
Handler == [pc: PC, req: ClientRequests \union {<<>>}, seen: Nat, reply: Reply]

DispatchTypeOK ==
    /\ worker \in [Workers -> Handler]
    /\ permits \in 0..StorageGatePermits
    /\ poisoned \in BOOLEAN
    /\ tick \in 0..(MaintenanceEvery - 1)
    /\ answered \subseteq [req: ClientRequests, mid: Nat]
    /\ permits + Cardinality({w \in Workers : worker[w].pc \in Admitted})
         = StorageGatePermits

DispatchInit ==
    /\ Init
    /\ worker = [w \in Workers |-> Idle]
    /\ permits = StorageGatePermits
    /\ poisoned = FALSE
    /\ tick = 0
    /\ answered = {}

-----------------------------------------------------------------------------
At(w, pc) == worker[w].pc = pc

Goto(w, pc) == worker' = [worker EXCEPT ![w].pc = pc]

\* The dispatched operation is over with this answer; maintenance is next.
Finish(w, reply) ==
    worker' = [worker EXCEPT ![w].pc = "maintain", ![w].reply = reply]

\* handle_inner: the request has been read and names a known route.
Receive(w, req) ==
    /\ At(w, "idle")
    /\ worker' = [worker EXCEPT ![w].pc = "admit", ![w].req = req]
    /\ UNCHANGED <<vars, permits, poisoned, tick, answered>>

\* run_bounded_storage: a handler that finds no free permit does not wait.
run_bounded_storage(w) ==
    /\ At(w, "admit")
    /\ \/ /\ permits > 0
          /\ permits' = permits - 1
          /\ Goto(w, IF worker[w].req.route = "sign_in"
                     THEN "transaction" ELSE "session")
       \/ /\ permits = 0
          /\ worker' = [worker EXCEPT ![w].pc = "respond",
                                      ![w].reply = Error("storage_busy")]
          /\ UNCHANGED permits
    /\ UNCHANGED <<vars, poisoned, tick, answered>>

\* Every lock of the connection mutex from here on needs it unpoisoned.
session(w) ==
    /\ At(w, "session")
    /\ ~poisoned
    /\ IF Live(worker[w].req.acct)
       THEN Goto(w, IF worker[w].req.route \in NoncombatRoutes
                    THEN "guard" ELSE "transaction")
       ELSE Finish(w, Error("unauthorized"))
    /\ UNCHANGED <<vars, permits, poisoned, tick, answered>>

\* Mutant of ensure_noncombat_mutation_allowed: it lets everything pass.
GuardIgnoresBattle(w) ==
    /\ At(w, "guard")
    /\ ~poisoned
    /\ Goto(w, "transaction")
    /\ UNCHANGED <<vars, permits, poisoned, tick, answered>>

\* The check comes before the replay lookup of the transaction: a retry of
\* an executed request is refused, too, while a battle runs.
ensure_noncombat_mutation_allowed(w) ==
    /\ At(w, "guard")
    /\ ~poisoned
    /\ IF battle[worker[w].req.acct] = NoBattle
       THEN Goto(w, "transaction")
       ELSE Finish(w, Error("battle_already_active"))
    /\ UNCHANGED <<vars, permits, poisoned, tick, answered>>

\* A journalled transaction: replay, conflict, commit, or rejection by the
\* battle checks or by the reducer, which leaves no trace.
JournalledTransaction(w) ==
    LET req == worker[w].req IN
    /\ At(w, "transaction")
    /\ ~poisoned
    /\ req.route \in Routes
    /\ \/ /\ gameplay_replay(req) = "replay"
          /\ \E r \in Found(req) : Finish(w, Ok(r.mid))
          /\ UNCHANGED vars
       \/ /\ gameplay_replay(req) = "conflict"
          /\ Finish(w, Error("conflict"))
          /\ UNCHANGED vars
       \/ /\ Transaction(req)
          /\ worker' = [worker EXCEPT ![w].pc = "reread",
                                      ![w].seen = nextMutation]
       \/ /\ gameplay_replay(req) = "none"
          /\ Finish(w, Error("rejected"))
          /\ UNCHANGED vars
    /\ UNCHANGED <<permits, poisoned, tick, answered>>

\* gameplay_response: after Applied the answer is read from the journal again,
\* under the request id, which the handler made up when the client sent none.
gameplay_response(w) ==
    LET req == worker[w].req
        own == {r \in journal : /\ r.acct = req.acct
                                /\ \/ SameKey(r, req) /\ SameRequest(r, req)
                                   \/ req.id = NoId /\ r.mid = worker[w].seen}
    IN
    /\ At(w, "reread")
    /\ ~poisoned
    /\ req.route \in Routes
    /\ IF own = {} THEN Finish(w, Error("not_found"))
       ELSE \E r \in own : Finish(w, Ok(r.mid))
    /\ UNCHANGED <<vars, permits, poisoned, tick, answered>>

\* Sign-in needs a grant, not a session; the grant of a deleted account is gone.
sign_in(w) ==
    LET a == worker[w].req.acct IN
    /\ At(w, "transaction")
    /\ ~poisoned
    /\ worker[w].req.route = "sign_in"
    /\ \/ consume_grant_and_initialize(a) /\ Finish(w, Ok(0))
       \/ account[a] = "live" /\ Finish(w, Ok(0)) /\ UNCHANGED vars
       \/ Finish(w, Error("unauthorized")) /\ UNCHANGED vars
    /\ UNCHANGED <<permits, poisoned, tick, answered>>

\* Login refreshes resources and home state in a transaction without a row.
user_login(w) ==
    /\ At(w, "transaction")
    /\ ~poisoned
    /\ worker[w].req.route = "user_login"
    /\ \/ Finish(w, Ok(0))
       \/ Finish(w, Error("rejected"))
    /\ UNCHANGED <<vars, permits, poisoned, tick, answered>>

user_delete(w) ==
    LET a == worker[w].req.acct IN
    /\ At(w, "transaction")
    /\ ~poisoned
    /\ worker[w].req.route = "user_delete"
    /\ \/ delete_account(a) /\ Finish(w, Ok(0))
       \/ ~Live(a) /\ Finish(w, Error("not_found")) /\ UNCHANGED vars
    /\ UNCHANGED <<permits, poisoned, tick, answered>>

\* battle_resume reads the battle first and the row of its start later.
ResumeReadsBattle(w) ==
    LET a == worker[w].req.acct IN
    /\ At(w, "transaction")
    /\ ~poisoned
    /\ worker[w].req.route = "battle_resume"
    /\ IF battle[a] = NoBattle
       THEN Finish(w, Error("battle_not_active"))
       ELSE worker' = [worker EXCEPT ![w].pc = "reread",
                                     ![w].seen = battle[a].txid]
    /\ UNCHANGED <<vars, permits, poisoned, tick, answered>>

ResumeReadsContext(w) ==
    LET start == latest_battle_start_response(worker[w].req.acct) IN
    /\ At(w, "reread")
    /\ ~poisoned
    /\ worker[w].req.route = "battle_resume"
    /\ \/ start = {} /\ Finish(w, Error("no_context"))
       \/ \E r \in start : Finish(w, IF r.mid = worker[w].seen
                                     THEN Ok(r.mid)
                                     ELSE Error("invalid_context"))
    /\ UNCHANGED <<vars, permits, poisoned, tick, answered>>

-----------------------------------------------------------------------------
\* Mutant of maintenance_due: the first maintenance comes only after a full
\* round of requests.
MaintenanceAfterRound == (tick + 1) % MaintenanceEvery = 0

maintenance_due == tick = 0

\* The permit goes back when the closure of dispatch_blocking ends.
Release(w) ==
    /\ permits' = permits + 1
    /\ worker' = [worker EXCEPT ![w].pc = "respond"]

\* dispatch_blocking: a failing maintenance is only logged.
Maintain(w) ==
    /\ At(w, "maintain")
    /\ \/ maintenance_due /\ ~poisoned /\ prune_expired
       \/ maintenance_due /\ ~poisoned /\ "prune_error" \in Faults
            /\ UNCHANGED vars
       \/ ~maintenance_due /\ UNCHANGED vars
    /\ tick' = (tick + 1) % MaintenanceEvery
    /\ Release(w)
    /\ UNCHANGED <<poisoned, answered>>

Respond(w) ==
    /\ At(w, "respond")
    /\ worker' = [worker EXCEPT ![w] = Idle]
    /\ answered' = IF worker[w].reply.mid = 0 THEN answered
                   ELSE answered \union
                        {[req |-> worker[w].req, mid |-> worker[w].reply.mid]}
    /\ UNCHANGED <<vars, permits, poisoned, tick>>

\* The client is gone; the blocking task ran to its end all the same.
LoseResponse(w) ==
    /\ At(w, "respond")
    /\ worker' = [worker EXCEPT ![w] = Idle]
    /\ UNCHANGED <<vars, permits, poisoned, tick, answered>>

-----------------------------------------------------------------------------
(* Faults *)

\* Mutant of Unwind: the permit leaks when the task panics.
UnwindLeaksPermit(w) ==
    /\ worker' = [worker EXCEPT ![w].pc = "respond",
                                ![w].reply = Error("join_error")]
    /\ UNCHANGED <<vars, permits, answered>>

\* A panicking task unwinds: its transaction rolls back, its permit is
\* dropped, the handler sees a JoinError and answers 500.
Unwind(w) ==
    /\ permits' = permits + 1
    /\ worker' = [worker EXCEPT ![w].pc = "respond",
                                ![w].reply = Error("join_error")]
    /\ UNCHANGED <<vars, answered>>

\* A reducer panics under the connection mutex and poisons it.
ReducerPanic(w) ==
    /\ "panic" \in Faults
    /\ At(w, "transaction")
    /\ ~poisoned
    /\ worker[w].req.route \in Routes
    /\ gameplay_replay(worker[w].req) = "none"
    /\ poisoned' = TRUE
    /\ Unwind(w)
    /\ UNCHANGED tick

\* Mutant of lock_connection: a poisoned mutex is waited for.
PoisonedLockWaits(w) == FALSE

\* lock_connection panics on a poisoned mutex, in every request to come; in
\* maintenance the tick has been taken by then.
lock_connection(w) ==
    /\ poisoned
    /\ \/ worker[w].pc \in Admitted \ {"maintain"} /\ UNCHANGED tick
       \/ At(w, "maintain") /\ maintenance_due
            /\ tick' = (tick + 1) % MaintenanceEvery
    /\ Unwind(w)
    /\ UNCHANGED poisoned

\* The process dies, or is stopped between two requests, and is started
\* again; what was committed is in the file.
Restart ==
    /\ \/ "crash" \in Faults
       \/ "shutdown" \in Faults /\ \A w \in Workers : worker[w].pc \notin Admitted
    /\ worker' = [w \in Workers |-> Idle]
    /\ permits' = StorageGatePermits
    /\ poisoned' = FALSE
    /\ tick' = 0
    /\ UNCHANGED <<vars, answered>>

-----------------------------------------------------------------------------
\* What a handler does on its own once it has a request.
Step(w) ==
    \/ run_bounded_storage(w)
    \/ session(w)
    \/ ensure_noncombat_mutation_allowed(w)
    \/ JournalledTransaction(w)
    \/ gameplay_response(w)
    \/ sign_in(w)
    \/ user_login(w)
    \/ user_delete(w)
    \/ ResumeReadsBattle(w)
    \/ ResumeReadsContext(w)
    \/ Maintain(w)
    \/ Respond(w)
    \/ LoseResponse(w)
    \/ ReducerPanic(w)
    \/ lock_connection(w)

DispatchNext ==
    \/ \E w \in Workers : Step(w)
    \/ \E w \in Workers, req \in ClientRequests : Receive(w, req)
    \/ Restart
    \/ Tick /\ UNCHANGED serverVars

\* A handler with a request is run to its end by the runtime; clients, the
\* clock and faults owe nothing.
DispatchSpec ==
    /\ DispatchInit
    /\ [][DispatchNext]_dispatchVars
    /\ \A w \in Workers : WF_dispatchVars(Step(w))

-----------------------------------------------------------------------------
(* Properties *)

\* No noncombat mutation commits while its account has a battle, although
\* ensure_noncombat_mutation_allowed looks in a lock section of its own,
\* before the transaction.
NoncombatOutsideBattle ==
    [][\A r \in log' \ log :
          r.route \in NoncombatRoutes => battle[r.acct] = NoBattle]_dispatchVars

\* Whatever a client is told was computed by an execution of exactly its
\* request: same account, id, route and body, through replays, conflicts,
\* lost answers, panics, restarts and maintenance.
AnswersAreExecutions ==
    \A x \in answered :
        x.req.route \in Routes =>
            \E e \in log : /\ e.mid = x.mid
                           /\ e.acct = x.req.acct /\ e.id = x.req.id
                           /\ SameRequest(e, x.req)

\* A handler that committed a mutation finds its row again, and one that saw
\* a battle finds that battle's start: the second read is never overtaken by
\* a deletion, a retirement or maintenance.
SecondReadSucceeds ==
    \A w \in Workers :
        worker[w].reply.code \notin {"not_found", "no_context", "invalid_context"}

\* Restarts between requests, however frequent, do not keep maintenance from
\* happening: what the journal holds stays within the retention count and the
\* row spared for battle recovery, per account, and one round of requests.  (A
\* crash between a commit and its maintenance may leave one row more each time.)
JournalBounded ==
    Cardinality(journal)
        <= Cardinality(Accounts) * (RetentionCount + 1) + MaintenanceEvery

\* Every request that was read is answered or its client is gone.
EveryRequestEnds ==
    \A w \in Workers : At(w, "admit") ~> At(w, "idle")

\* The storage gate never stays closed, not even after panics.
GateReopens == []<>(permits > 0)
=============================================================================
