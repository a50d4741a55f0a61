---------------------------- MODULE JournalTypes ----------------------------
(***************************************************************************)
(* The parameters and the record types shared by the replay journal        *)
(* (Journal, Dispatch) and by its abstract specification (RetryLedger).    *)
(***************************************************************************)
EXTENDS Integers, FiniteSets

CONSTANTS
    Accounts,          \* account identifiers
    RequestIds,        \* the x-request-id values clients choose
    NoId,              \* a request without the header: a fresh id nobody repeats
    Bodies,            \* request payloads, as the fingerprint tells them apart
    RetentionSeconds,  \* JOURNAL_RETENTION_SECONDS
    RetentionCount     \* JOURNAL_RETENTION_COUNT

ASSUME RetentionAssumption ==
    /\ RetentionSeconds \in Nat
    /\ RetentionCount \in Nat \ {0}
    /\ NoId \notin RequestIds

\* The six routes of active-battle recovery, by what their reducers do to the
\* saved home state: rental, solo raid and total battles share one treatment.
StartRoutes == {"standard", "exploration", "special", "trial"}

\* Home routes: those read_only lets through during a battle, those whose
\* transaction looks for a battle itself, and all others.
HomeRoutes == {"home_read", "home_guarded", "home_write"}

Routes == StartRoutes \union HomeRoutes
            \union {"gameplay", "gacha", "attack", "finish", "retire"}

\* A journal row: mid is mutation_id and stands for the stored response too,
\* since every execution computes its own.
Row == [mid: Nat, acct: Accounts, id: RequestIds \union {NoId},
        route: Routes, body: Bodies, at: Nat]

Request == [acct: Accounts, id: RequestIds \union {NoId},
            route: Routes, body: Bodies]

\* Two rows or requests carry the same request id of the same account.
SameKey(e, f) == e.acct = f.acct /\ e.id = f.id /\ e.id # NoId
=============================================================================
