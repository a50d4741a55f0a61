----------------------------- MODULE Migrations -----------------------------
(***************************************************************************)
(* Store::open: how a process brings the database to the schema it was     *)
(* built for.  The server and the account commands open the same file as   *)
(* processes of their own, and nothing but the transactions of SQLite is   *)
(* between them: each statement of migrate outside a transaction is a step *)
(* of its own here, and what it read may be stale at the next.             *)
(*                                                                         *)
(* Migration scripts create tables IF NOT EXISTS and insert their version  *)
(* OR IGNORE, so running one again changes nothing; the table              *)
(* schema_migrations exists exactly when it has a row.  A process may die  *)
(* at any step.                                                            *)
(***************************************************************************)
EXTENDS Naturals, FiniteSets

CONSTANTS
    Processes,                 \* the server and the account commands
    EXPECTED_SCHEMA_VERSION    \* the number of migrations of this build

ASSUME MigrationsAssumption ==
    EXPECTED_SCHEMA_VERSION \in Nat /\ EXPECTED_SCHEMA_VERSION > 1

VARIABLES
    history,     \* versions in schema_migrations
    metadata,    \* whether the table schema_migration_checksums exists
    sums,        \* its rows: version -> whether the checksum is this build's
    opening,     \* process -> where it is in Store::open
    alone,       \* processes that met no other one since they began to open
    takeable     \* whether the database was one this build can take, at first

migrationsVars == <<history, metadata, sums, opening, alone, takeable>>

Versions == 1..EXPECTED_SCHEMA_VERSION
legacy_versions == 1..(EXPECTED_SCHEMA_VERSION - 1)

Closed == [pc |-> "closed", has_history |-> FALSE, version |-> 0]
At(p, pc) == [opening EXCEPT ![p].pc = pc]
Migrating(p) == opening[p].pc \notin {"closed", "open", "refused"}

----------------------------------------------------------------------------
(* Databases a process may find: empty, of the time before checksums, left *)
(* half way, of another build, or with rows missing.                       *)

Takeable ==
    IF metadata
    THEN /\ \E k \in 0..EXPECTED_SCHEMA_VERSION : history = 1..k
         /\ DOMAIN sums = history
         /\ \A v \in history : sums[v]
    ELSE history \in {{}, legacy_versions}

MigrationsInit ==
    /\ \E k \in 0..(EXPECTED_SCHEMA_VERSION + 1) : history = 1..k
    /\ metadata \in BOOLEAN
    /\ \E known \in SUBSET history : sums \in [known -> BOOLEAN]
    /\ ~metadata => sums = << >>
    /\ opening = [p \in Processes |-> Closed]
    /\ alone = {}
    /\ takeable = Takeable

----------------------------------------------------------------------------
Rejected(p) ==
    /\ opening' = At(p, "refused")
    /\ UNCHANGED <<history, metadata, sums, alone, takeable>>

(* The first statement of migrate: is there a history?                     *)
read_history(p) ==
    /\ opening[p].pc = "closed"
    /\ opening' = [opening EXCEPT ![p] =
                     [pc |-> "metadata", has_history |-> history # {}, version |-> 1]]
    /\ alone' = IF \E q \in Processes : Migrating(q)
                THEN alone \ {q \in Processes : Migrating(q) \/ q = p}
                ELSE alone \union {p}
    /\ UNCHANGED <<history, metadata, sums, takeable>>

(* The second: are there checksums?                                        *)
read_metadata(p) ==
    /\ opening[p].pc = "metadata"
    /\ opening' = At(p, IF opening[p].has_history /\ ~metadata THEN "legacy" ELSE "create")
    /\ UNCHANGED <<history, metadata, sums, alone, takeable>>

read_versions(p) ==
    /\ opening[p].pc = "legacy"
    /\ IF history = legacy_versions
       THEN /\ opening' = At(p, "baseline")
            /\ UNCHANGED <<history, metadata, sums, alone, takeable>>
       ELSE Rejected(p)

(* One transaction: the table, which must not exist, and a checksum for    *)
(* every version of the legacy history.                                    *)
baseline(p) ==
    /\ opening[p].pc = "baseline"
    /\ IF metadata
       THEN Rejected(p)
       ELSE /\ metadata' = TRUE
            /\ sums' = [v \in legacy_versions |-> TRUE]
            /\ opening' = At(p, "create")
            /\ UNCHANGED <<history, alone, takeable>>

create_checksums(p) ==
    /\ opening[p].pc = "create"
    /\ metadata' = TRUE
    /\ opening' = At(p, "lookup")
    /\ UNCHANGED <<history, sums, alone, takeable>>

(* The loop over the migrations, one version at a time.                    *)
NextVersion(p) ==
    IF opening[p].version = EXPECTED_SCHEMA_VERSION
    THEN At(p, "check")
    ELSE [opening EXCEPT ![p].version = @ + 1, ![p].pc = "lookup"]

\* Mutant: a checksum is looked up but not compared.
NeverDrifted(v) == FALSE

Drifted(v) == ~sums[v]

lookup_checksum(p) ==
    LET v == opening[p].version IN
    /\ opening[p].pc = "lookup"
    /\ IF v \in DOMAIN sums /\ Drifted(v)
       THEN Rejected(p)
       ELSE /\ opening' = IF v \in DOMAIN sums THEN NextVersion(p)
                          ELSE At(p, IF opening[p].has_history THEN "history" ELSE "apply")
            /\ UNCHANGED <<history, metadata, sums, alone, takeable>>

MetadataMissing(p) == opening[p].version \in history

lookup_history(p) ==
    /\ opening[p].pc = "history"
    /\ IF MetadataMissing(p)
       THEN Rejected(p)
       ELSE /\ opening' = At(p, "apply")
            /\ UNCHANGED <<history, metadata, sums, alone, takeable>>

\* Mutant: the checksum is left to a transaction of its own.
AppliedWithoutChecksum(p) ==
    /\ history' = history \union {opening[p].version}
    /\ opening' = NextVersion(p)
    /\ UNCHANGED <<metadata, sums, alone, takeable>>

\* Mutant: the script forgets to enter its version.
AppliedUnversioned(p) ==
    /\ sums' = [w \in DOMAIN sums \union {opening[p].version} |-> TRUE]
    /\ opening' = NextVersion(p)
    /\ UNCHANGED <<history, metadata, alone, takeable>>

(* One transaction: the script and its checksum, whose version is a        *)
(* primary key.                                                            *)
Applied(p) ==
    LET v == opening[p].version IN
    /\ history' = history \union {v}
    /\ sums' = [w \in DOMAIN sums \union {v} |-> IF w = v THEN TRUE ELSE sums[w]]
    /\ opening' = NextVersion(p)
    /\ UNCHANGED <<metadata, alone, takeable>>

apply_migration(p) ==
    /\ opening[p].pc = "apply"
    /\ IF opening[p].version \in DOMAIN sums THEN Rejected(p) ELSE Applied(p)

check_versions(p) ==
    /\ opening[p].pc = "check"
    /\ IF history = Versions
       THEN /\ opening' = At(p, "open")
            /\ UNCHANGED <<history, metadata, sums, alone, takeable>>
       ELSE Rejected(p)

(* Any statement may find the database busy while another process migrates. *)
busy(p) ==
    /\ Migrating(p)
    /\ \E q \in Processes \ {p} : Migrating(q)
    /\ Rejected(p)

(* A process ends, or dies where it is; an open transaction is undone.     *)
exit(p) ==
    /\ opening[p].pc # "closed"
    /\ opening' = [opening EXCEPT ![p] = Closed]
    /\ alone' = alone \ {p}
    /\ UNCHANGED <<history, metadata, sums, takeable>>

MigrationsNext ==
    \E p \in Processes :
        \/ read_history(p) \/ read_metadata(p) \/ read_versions(p) \/ baseline(p)
        \/ create_checksums(p) \/ lookup_checksum(p) \/ lookup_history(p)
        \/ apply_migration(p) \/ check_versions(p) \/ busy(p) \/ exit(p)

MigrationsSpec == MigrationsInit /\ [][MigrationsNext]_migrationsVars

----------------------------------------------------------------------------
(* The tables hold versions and checksums of versions, which have their    *)
(* row in the history (the foreign key of the checksum table).             *)
MigrationsTypeOK ==
    /\ history \in SUBSET (1..(EXPECTED_SCHEMA_VERSION + 1))
    /\ metadata \in BOOLEAN
    /\ DOMAIN sums \subseteq history
    /\ \A v \in DOMAIN sums : sums[v] \in BOOLEAN
    /\ opening \in [Processes ->
           [pc : {"closed", "metadata", "legacy", "baseline", "create", "lookup",
                  "history", "apply", "check", "open", "refused"},
            has_history : BOOLEAN, version : 0..EXPECTED_SCHEMA_VERSION]]
    /\ alone \subseteq Processes

(* A process that got through Store::open works on the complete schema of  *)
(* its own build: every version is there with a checksum that was          *)
(* compared, whoever applied it and however often that was interrupted,    *)
(* and a database of another build is never used.                          *)
OpenIsCurrent ==
    \A p \in Processes : opening[p].pc = "open" =>
        /\ takeable
        /\ history = Versions /\ DOMAIN sums = Versions
        /\ \A v \in Versions : sums[v]

(* A process is turned away from a database of this program only because   *)
(* of another one that migrates it at the same time: whatever processes    *)
(* died or failed before, the next one that opens the file alone gets in.  *)
OnlyRacesRefuse ==
    \A p \in alone : opening[p].pc = "refused" => ~takeable

(* A database of this program can always be opened, and what is open is    *)
(* complete.                                                               *)
DatabaseOpens == OpenIsCurrent /\ OnlyRacesRefuse
=============================================================================
