---------------------------- MODULE AccountProofs ---------------------------
(***************************************************************************)
(* Proofs about what an account does and stands on: the database it is     *)
(* kept in (Migrations), what it sends out (Expeditions), builds (Housing) *)
(* and visits (Town), the characters it raises (Growth), and the seven     *)
(* parts side by side (MCAccount), with what HomeProofs says of the        *)
(* missions and rewards and GachaProofs of the gachas among them.          *)
(***************************************************************************)
EXTENDS MCAccount, HomeProofs, GachaProofs

-----------------------------------------------------------------------------
(* Store::open, for any number of processes and of migrations.             *)
(*                                                                         *)
(* What a process has read is stale at its next step, so the invariant     *)
(* says what of it stays true whatever the others do: a checksum that was  *)
(* there and right is there and right for good, and a database the build   *)
(* cannot take keeps the row that gives it away.  Of a process that met no *)
(* other one nothing is stale.                                             *)

PastMetadata == {"lookup", "history", "apply", "check", "open"}

\* The versions whose checksum the process has found right, or entered.
Entered(p) ==
    IF opening[p].pc \in {"check", "open"} THEN Versions
    ELSE IF opening[p].pc \in PastMetadata THEN 1..(opening[p].version - 1)
    ELSE {}

\* Checksums wait for their table, and versions passed stay passed.
ChecksumsStay ==
    /\ ~metadata => DOMAIN sums = {}
    /\ \A p \in Processes :
        /\ opening[p].pc # "closed" => opening[p].version \in Versions
        /\ opening[p].pc \in {"metadata", "legacy", "baseline", "create"}
             => opening[p].version = 1
        /\ opening[p].pc \in PastMetadata => metadata
        /\ opening[p].pc = "create" => metadata \/ ~opening[p].has_history
        /\ \A v \in Entered(p) : v \in DOMAIN sums /\ sums[v]
        /\ opening[p].pc = "baseline" => legacy_versions \subseteq history

\* A database this build can take stays one, and while it has no table of
\* checksums every process knows whether it has a history.
TakeableStays ==
    takeable =>
        /\ Takeable
        /\ \A p \in Processes :
            Migrating(p) /\ ~metadata => opening[p].has_history = (history # {})

\* The row that gives a database away: of a later build, a wrong checksum, a
\* version without a checksum, or a history that is not the legacy one.
OfLaterBuild == EXPECTED_SCHEMA_VERSION + 1 \in history

HasDrifted == metadata /\ \E v \in DOMAIN sums \intersect Versions : ~sums[v]

HistoryKnown == history # {} /\ \A p \in Processes : Migrating(p) => opening[p].has_history

LacksChecksum ==
    /\ metadata /\ HistoryKnown
    /\ \E v \in (history \intersect Versions) \ DOMAIN sums :
        \A p \in Processes : ~(opening[p].pc = "apply" /\ opening[p].version = v)

NotLegacy ==
    /\ ~metadata /\ HistoryKnown /\ history # legacy_versions
    /\ \A p \in Processes : opening[p].pc \in {"closed", "refused", "metadata", "legacy"}

ForeignStays == takeable \/ OfLaterBuild \/ HasDrifted \/ LacksChecksum \/ NotLegacy

\* Nothing that a process on its own has read is stale.
AloneKnows ==
    \A p \in alone :
        /\ Migrating(p) => \A q \in Processes \ {p} : ~Migrating(q)
        /\ opening[p].pc \in {"legacy", "baseline"} => ~metadata /\ opening[p].has_history
        /\ opening[p].pc \in {"history", "apply"} => opening[p].version \notin DOMAIN sums

MigrationsInv ==
    /\ MigrationsTypeOK /\ ChecksumsStay /\ TakeableStays /\ ForeignStays /\ AloneKnows
    /\ DatabaseOpens

-----------------------------------------------------------------------------
(* The steps *)

LEMMA VersionsTypes ==
    /\ EXPECTED_SCHEMA_VERSION \in Nat /\ EXPECTED_SCHEMA_VERSION > 1
    /\ 1 \in Versions /\ legacy_versions \subseteq Versions
    /\ legacy_versions # {} /\ Versions \subseteq Nat
<1>1. 1 \in legacy_versions BY MigrationsAssumption DEF legacy_versions
<1>2. 1 \in Versions /\ Versions \subseteq Nat BY MigrationsAssumption DEF Versions
<1>3. legacy_versions \subseteq Versions
  BY MigrationsAssumption DEF Versions, legacy_versions
<1> QED BY <1>1, <1>2, <1>3, MigrationsAssumption

LEMMA MigrationsInitInv == ASSUME MigrationsInit PROVE MigrationsInv
<1> USE DEF MigrationsInit
<1>1. \A p \in Processes : opening[p] = Closed BY Zenon
<1>2. MigrationsTypeOK BY MigrationsAssumption DEF MigrationsTypeOK, Closed
<1>3. ChecksumsStay BY <1>1 DEF ChecksumsStay, Entered, PastMetadata, Closed
<1>4. TakeableStays BY <1>1 DEF TakeableStays, Migrating, Closed
<1>5. ForeignStays
  <2> SUFFICES ASSUME ~takeable PROVE OfLaterBuild \/ HasDrifted \/ LacksChecksum \/ NotLegacy
    BY DEF ForeignStays
  <2>1. PICK k \in 0..(EXPECTED_SCHEMA_VERSION + 1) : history = 1..k OBVIOUS
  <2>2. \A p \in Processes : ~Migrating(p) /\ opening[p].pc = "closed"
    BY <1>1 DEF Migrating, Closed
  <2>3. CASE ~metadata
    BY <2>2, <2>3, Zenon DEF Takeable, NotLegacy, HistoryKnown
  <2>4. CASE metadata /\ k = EXPECTED_SCHEMA_VERSION + 1
    BY <2>1, <2>4, MigrationsAssumption DEF OfLaterBuild
  <2>5. CASE metadata /\ k \in 0..EXPECTED_SCHEMA_VERSION
    <3>1. \/ \E v \in history : v \notin DOMAIN sums
          \/ \E v \in DOMAIN sums : ~sums[v]
      BY <2>1, <2>5 DEF Takeable
    <3>2. history \subseteq Versions BY <2>1, <2>5,
    MigrationsAssumption DEF Versions
    <3>3. DOMAIN sums \subseteq history BY <1>2 DEF MigrationsTypeOK
    <3>4. CASE \E v \in history : v \notin DOMAIN sums
      BY <2>2, <2>5, <3>2, <3>4 DEF LacksChecksum, HistoryKnown
    <3>5. CASE \E v \in DOMAIN sums : ~sums[v]
      BY <2>5, <3>2, <3>3, <3>5 DEF HasDrifted
    <3> QED BY <3>1, <3>4, <3>5
  <2> QED BY <2>1, <2>3, <2>4, <2>5, MigrationsAssumption
<1>6. AloneKnows BY DEF AloneKnows
<1>7. DatabaseOpens BY <1>1 DEF DatabaseOpens, OpenIsCurrent, OnlyRacesRefuse,
Closed
<1> QED BY <1>2, <1>3, <1>4, <1>5, <1>6, <1>7 DEF MigrationsInv

LEMMA ReadHistoryKeeps ==
    ASSUME MigrationsInv, NEW p \in Processes, read_history(p)
    PROVE  MigrationsInv'
<1> USE DEF read_history, MigrationsInv, Migrating
<1>1. MigrationsTypeOK'
  BY VersionsTypes DEF MigrationsTypeOK
<1>2. ChecksumsStay'
  BY VersionsTypes DEF MigrationsTypeOK, ChecksumsStay, Entered, PastMetadata,
                       Versions
<1>3. TakeableStays'
  BY DEF MigrationsTypeOK, TakeableStays, Takeable
<1>4. ForeignStays'
  <2>1. \A q \in Processes \ {p} : opening'[q] = opening[q]
    BY DEF MigrationsTypeOK
  <2>2. /\ opening'[p].pc = "metadata" /\ opening'[p].has_history = (history # {})
    BY DEF MigrationsTypeOK
  <2>3. HistoryKnown => HistoryKnown' BY <2>1, <2>2 DEF HistoryKnown
  <2>4. OfLaterBuild \/ HasDrifted => (OfLaterBuild \/ HasDrifted)'
    BY DEF OfLaterBuild, HasDrifted
  <2>5. LacksChecksum => LacksChecksum' BY <2>1, <2>2, <2>3 DEF LacksChecksum
  <2>6. NotLegacy => NotLegacy' BY <2>1, <2>2, <2>3 DEF NotLegacy
  <2> QED BY <2>4, <2>5, <2>6 DEF ForeignStays
<1>5. AloneKnows'
  BY DEF MigrationsTypeOK, AloneKnows
<1>6. DatabaseOpens'
  BY DEF MigrationsTypeOK, DatabaseOpens, OpenIsCurrent, OnlyRacesRefuse
<1> QED BY <1>1, <1>2, <1>3, <1>4, <1>5, <1>6

LEMMA ReadMetadataKeeps ==
    ASSUME MigrationsInv, NEW p \in Processes, read_metadata(p)
    PROVE  MigrationsInv'
<1> USE DEF read_metadata, At, MigrationsInv, Migrating
<1>1. MigrationsTypeOK'
  BY DEF MigrationsTypeOK
<1>2. ChecksumsStay'
  BY DEF MigrationsTypeOK, ChecksumsStay, Entered, PastMetadata
<1>3. TakeableStays'
  BY DEF MigrationsTypeOK, TakeableStays, Takeable
<1>4. ForeignStays'
  BY DEF MigrationsTypeOK, ForeignStays, OfLaterBuild, HasDrifted, LacksChecksum,
         HistoryKnown, NotLegacy
<1>5. AloneKnows'
  BY DEF MigrationsTypeOK, AloneKnows
<1>6. DatabaseOpens'
  BY DEF MigrationsTypeOK, DatabaseOpens, OpenIsCurrent, OnlyRacesRefuse
<1> QED BY <1>1, <1>2, <1>3, <1>4, <1>5, <1>6

LEMMA VersionsRead ==
    ASSUME MigrationsTypeOK, NEW p \in Processes, read_versions(p)
    PROVE  /\ history' = history /\ metadata' = metadata /\ sums' = sums /\ takeable' = takeable
           /\ opening[p].pc = "legacy"
           /\ \/ opening'[p].pc = "refused"
              \/ opening'[p].pc = "baseline" /\ history = legacy_versions
           /\ \A q \in Processes :
                /\ opening'[q].has_history = opening[q].has_history
                /\ opening'[q].version = opening[q].version
                /\ q # p => opening'[q].pc = opening[q].pc
<1>1. /\ history' = history /\ metadata' = metadata /\ sums' = sums /\ takeable' = takeable
      /\ opening[p].pc = "legacy"
      /\ \/ opening' = [opening EXCEPT ![p].pc = "refused"]
         \/ opening' = [opening EXCEPT ![p].pc = "baseline"] /\ history = legacy_versions
  BY DEF read_versions, Rejected, At
<1>2. /\ DOMAIN opening = Processes
      /\ \A q \in Processes : DOMAIN opening[q] = {"pc", "has_history", "version"}
  BY DEF MigrationsTypeOK
<1> QED BY ONLY <1>1, <1>2, p \in Processes

LEMMA ReadVersionsKeeps ==
    ASSUME MigrationsInv, NEW p \in Processes, read_versions(p)
    PROVE  MigrationsInv'
<1> USE DEF read_versions, Rejected, At, MigrationsInv, Migrating
<1>0. /\ history' = history /\ metadata' = metadata /\ sums' = sums /\ takeable' = takeable
      /\ opening[p].pc = "legacy"
      /\ \/ opening'[p].pc = "refused"
         \/ opening'[p].pc = "baseline" /\ history = legacy_versions
      /\ \A q \in Processes :
           /\ opening'[q].has_history = opening[q].has_history
           /\ opening'[q].version = opening[q].version
           /\ q # p => opening'[q].pc = opening[q].pc
  BY VersionsRead
<1>1. MigrationsTypeOK'
  BY DEF MigrationsTypeOK
<1>2. ChecksumsStay'
  BY VersionsTypes DEF MigrationsTypeOK, ChecksumsStay, Entered, PastMetadata,
                       TakeableStays, Takeable, AloneKnows
<1>3. TakeableStays'
  <2>1. Takeable' <=> Takeable BY DEF Takeable
  <2>2. ASSUME takeable, NEW q \in Processes, Migrating(q)', ~metadata
        PROVE  opening'[q].has_history = (history # {})
    <3>1. Migrating(q) /\ opening'[q].has_history = opening[q].has_history
      <4>1. CASE q = p BY <1>0, <4>1
      <4>2. CASE q # p BY <1>0, <2>2, <4>2
      <4> QED BY <4>1, <4>2
    <3> QED BY <2>2, <3>1, Zenon DEF TakeableStays
  <2>3. UNCHANGED <<history, metadata, takeable>> OBVIOUS
  <2> QED BY <2>1, <2>2, <2>3, Zenon DEF TakeableStays
<1>4. ForeignStays'
  <2> HIDE DEF read_versions, Rejected, At
  <2>1. CASE takeable BY <1>0, <2>1, Zenon DEF ForeignStays
  <2>2. CASE OfLaterBuild BY <1>0, <2>2, Zenon DEF ForeignStays, OfLaterBuild
  <2>3. CASE HasDrifted BY <1>0, <2>3, Zenon DEF ForeignStays, HasDrifted
  <2>4. CASE LacksChecksum
    <3>1. HistoryKnown'
      <4> SUFFICES ASSUME NEW q \in Processes, Migrating(q)' PROVE opening'[q].has_history
        BY <1>0, <2>4, Zenon DEF LacksChecksum, HistoryKnown
      <4>1. Migrating(q)
        <5>1. CASE q = p BY <1>0, <5>1
        <5>2. CASE q # p BY <1>0, <5>2
        <5> QED BY <5>1, <5>2
      <4> QED BY <1>0, <2>4, <4>1, Zenon DEF LacksChecksum, HistoryKnown
    <3>2. PICK v \in (history \intersect Versions) \ DOMAIN sums :
              \A q \in Processes : ~(opening[q].pc = "apply" /\ opening[q].version = v)
      BY <2>4 DEF LacksChecksum
    <3>3. \A q \in Processes : ~(opening'[q].pc = "apply" /\ opening'[q].version = v)
      <4> SUFFICES ASSUME NEW q \in Processes, opening'[q].pc = "apply", opening'[q].version = v
                   PROVE  FALSE
        OBVIOUS
      <4>1. q # p BY <1>0
      <4> QED BY <1>0, <3>2, <4>1, Zenon
    <3> QED BY <1>0, <2>4, <3>1, <3>3, Zenon DEF ForeignStays, LacksChecksum
  <2>5. CASE NotLegacy
    <3>1. opening'[p].pc = "refused" BY <1>0, <2>5, Zenon DEF NotLegacy
    <3>2. \A q \in Processes : opening'[q].pc \in {"closed", "refused", "metadata", "legacy"}
      BY <1>0, <2>5, <3>1 DEF NotLegacy
    <3>3. HistoryKnown'
      <4> SUFFICES ASSUME NEW q \in Processes, Migrating(q)' PROVE opening'[q].has_history
        BY <1>0, <2>5, Zenon DEF NotLegacy, HistoryKnown
      <4>1. q # p /\ Migrating(q)
        <5>1. q # p BY <3>1
        <5> QED BY <1>0, <5>1
      <4> QED BY <1>0, <2>5, <4>1, Zenon DEF NotLegacy, HistoryKnown
    <3> QED BY <1>0, <2>5, <3>2, <3>3, Zenon DEF ForeignStays, NotLegacy
  <2> QED BY <2>1, <2>2, <2>3, <2>4, <2>5, Zenon DEF ForeignStays
<1>5. AloneKnows'
  BY VersionsTypes DEF MigrationsTypeOK, AloneKnows, TakeableStays, Takeable
<1>6. DatabaseOpens'
  BY VersionsTypes DEF MigrationsTypeOK, DatabaseOpens, OpenIsCurrent,
                       OnlyRacesRefuse, TakeableStays, Takeable, AloneKnows
<1> QED BY <1>1, <1>2, <1>3, <1>4, <1>5, <1>6

LEMMA CreateChecksumsKeeps ==
    ASSUME MigrationsInv, NEW p \in Processes, create_checksums(p)
    PROVE  MigrationsInv'
<1> USE DEF create_checksums, At, MigrationsInv, Migrating
<1>1. MigrationsTypeOK'
  BY DEF MigrationsTypeOK
<1>2. ChecksumsStay'
  BY VersionsTypes DEF MigrationsTypeOK, ChecksumsStay, Entered, PastMetadata,
                       TakeableStays, Takeable
<1>3. TakeableStays'
  <2> SUFFICES ASSUME takeable PROVE TakeableStays'
    BY DEF TakeableStays
  <2>1. CASE metadata
    <3>1. Takeable' BY <2>1 DEF TakeableStays, Takeable
    <3> QED BY <3>1 DEF TakeableStays
  <2>2. CASE ~metadata
    <3>1. ~opening[p].has_history BY <2>2 DEF ChecksumsStay
    <3>2. history = {} BY <2>2, <3>1 DEF TakeableStays
    <3>3. DOMAIN sums = {} BY <2>2 DEF ChecksumsStay
    <3>4. 0 \in 0..EXPECTED_SCHEMA_VERSION /\ 1..0 = {} BY VersionsTypes
    <3>5. Takeable' BY <3>2, <3>3, <3>4 DEF Takeable
    <3> QED BY <3>5 DEF TakeableStays
  <2> QED BY <2>1, <2>2
<1>4. ForeignStays'
  BY VersionsTypes DEF MigrationsTypeOK, ForeignStays, OfLaterBuild, HasDrifted,
                       LacksChecksum, HistoryKnown, NotLegacy, ChecksumsStay, TakeableStays, Takeable
<1>5. AloneKnows'
  BY VersionsTypes DEF MigrationsTypeOK, AloneKnows, ChecksumsStay,
                       TakeableStays, Takeable
<1>6. DatabaseOpens'
  BY VersionsTypes DEF MigrationsTypeOK, DatabaseOpens, OpenIsCurrent,
                       OnlyRacesRefuse, ChecksumsStay, TakeableStays, Takeable
<1> QED BY <1>1, <1>2, <1>3, <1>4, <1>5, <1>6

LEMMA LookupHistoryKeeps ==
    ASSUME MigrationsInv, NEW p \in Processes, lookup_history(p)
    PROVE  MigrationsInv'
<1> USE DEF lookup_history, MetadataMissing, Rejected, At, MigrationsInv, Migrating
<1>1. MigrationsTypeOK'
  BY DEF MigrationsTypeOK
<1>2. ChecksumsStay'
  BY VersionsTypes DEF MigrationsTypeOK, ChecksumsStay, Entered, PastMetadata,
                       TakeableStays, Takeable, AloneKnows
<1>3. TakeableStays'
  BY VersionsTypes DEF MigrationsTypeOK, TakeableStays, Takeable, ChecksumsStay,
                       AloneKnows, PastMetadata
<1>4. ForeignStays'
  <2>1. \A q \in Processes \ {p} : opening'[q] = opening[q]
    BY DEF MigrationsTypeOK
  <2>2. /\ opening'[p].pc \in {"refused", "apply"}
        /\ opening'[p].has_history = opening[p].has_history
        /\ opening'[p].pc = "apply" =>
              /\ opening'[p].version = opening[p].version
              /\ opening[p].version \notin history
    BY DEF MigrationsTypeOK
  <2>3. HistoryKnown => HistoryKnown' BY <2>1, <2>2 DEF HistoryKnown
  <2>4. OfLaterBuild \/ HasDrifted => (OfLaterBuild \/ HasDrifted)'
    BY DEF OfLaterBuild, HasDrifted
  <2>5. LacksChecksum => LacksChecksum'
    <3> SUFFICES ASSUME LacksChecksum PROVE LacksChecksum' OBVIOUS
    <3>1. PICK v \in (history \intersect Versions) \ DOMAIN sums :
             \A q \in Processes : ~(opening[q].pc = "apply" /\ opening[q].version = v)
      BY DEF LacksChecksum
    <3>2. \A q \in Processes : ~(opening'[q].pc = "apply" /\ opening'[q].version = v)
      BY <2>1, <2>2, <3>1
    <3>3. /\ metadata' /\ HistoryKnown'
          /\ v \in (history' \intersect Versions) \ DOMAIN sums'
      BY <2>3, <3>1 DEF LacksChecksum
    <3> QED BY <3>2, <3>3 DEF LacksChecksum
  <2>6. ~NotLegacy BY DEF NotLegacy
  <2> QED BY <2>4, <2>5, <2>6 DEF ForeignStays
<1>5. AloneKnows'
  BY VersionsTypes DEF MigrationsTypeOK, AloneKnows, ChecksumsStay,
                       TakeableStays, Takeable, PastMetadata
<1>6. DatabaseOpens'
  BY VersionsTypes DEF MigrationsTypeOK, DatabaseOpens, OpenIsCurrent,
                       OnlyRacesRefuse, ChecksumsStay, TakeableStays, Takeable, AloneKnows, PastMetadata
<1> QED BY <1>1, <1>2, <1>3, <1>4, <1>5, <1>6

LEMMA BusyKeeps ==
    ASSUME MigrationsInv, NEW p \in Processes, busy(p)
    PROVE  MigrationsInv'
<1> USE DEF busy, Rejected, At, MigrationsInv, Migrating
<1>1. MigrationsTypeOK'
  BY DEF MigrationsTypeOK
<1>2. ChecksumsStay'
  BY DEF MigrationsTypeOK, ChecksumsStay, Entered, PastMetadata
<1>3. TakeableStays'
  BY DEF MigrationsTypeOK, TakeableStays, Takeable
<1>4. ForeignStays'
  BY DEF MigrationsTypeOK, ForeignStays, OfLaterBuild, HasDrifted, LacksChecksum,
         HistoryKnown, NotLegacy
<1>5. AloneKnows'
  BY DEF MigrationsTypeOK, AloneKnows
<1>6. DatabaseOpens'
  BY DEF MigrationsTypeOK, DatabaseOpens, OpenIsCurrent, OnlyRacesRefuse, AloneKnows
<1> QED BY <1>1, <1>2, <1>3, <1>4, <1>5, <1>6

LEMMA ExitKeeps ==
    ASSUME MigrationsInv, NEW p \in Processes, exit(p)
    PROVE  MigrationsInv'
<1> USE DEF exit, Closed, MigrationsInv, Migrating
<1>1. MigrationsTypeOK'
  BY VersionsTypes DEF MigrationsTypeOK
<1>2. ChecksumsStay'
  BY DEF MigrationsTypeOK, ChecksumsStay, Entered, PastMetadata
<1>3. TakeableStays'
  BY DEF MigrationsTypeOK, TakeableStays, Takeable
<1>4. ForeignStays'
  BY DEF MigrationsTypeOK, ForeignStays, OfLaterBuild, HasDrifted, LacksChecksum,
         HistoryKnown, NotLegacy
<1>5. AloneKnows'
  BY DEF MigrationsTypeOK, AloneKnows
<1>6. DatabaseOpens'
  BY DEF MigrationsTypeOK, DatabaseOpens, OpenIsCurrent, OnlyRacesRefuse
<1> QED BY <1>1, <1>2, <1>3, <1>4, <1>5, <1>6

\* A legacy history gets its checksums, unless another process made their table.
LEMMA BaselineKeeps ==
    ASSUME MigrationsInv, NEW p \in Processes, baseline(p)
    PROVE  MigrationsInv'
<1> USE DEF MigrationsInv
<1>1. CASE metadata
  <2> USE DEF baseline, Rejected, At, Migrating
  <2>1. MigrationsTypeOK' BY <1>1 DEF MigrationsTypeOK
  <2>2. ChecksumsStay' BY <1>1 DEF MigrationsTypeOK, ChecksumsStay, Entered, PastMetadata
  <2>3. TakeableStays' BY <1>1 DEF MigrationsTypeOK, TakeableStays, Takeable
  <2>4. ForeignStays'
    BY <1>1 DEF MigrationsTypeOK, ForeignStays, OfLaterBuild, HasDrifted,
                LacksChecksum, HistoryKnown, NotLegacy
  <2>5. AloneKnows' BY <1>1 DEF MigrationsTypeOK, AloneKnows
  <2>6. DatabaseOpens'
    BY <1>1 DEF MigrationsTypeOK, DatabaseOpens, OpenIsCurrent, OnlyRacesRefuse, AloneKnows
  <2> QED BY <2>1, <2>2, <2>3, <2>4, <2>5, <2>6
<1>2. CASE ~metadata
  <2>1. /\ opening[p].pc = "baseline" /\ metadata' = TRUE
        /\ DOMAIN sums' = legacy_versions /\ \A v \in legacy_versions : sums'[v]
        /\ UNCHANGED <<history, alone, takeable>>
        /\ legacy_versions \subseteq history
    BY <1>2 DEF baseline, ChecksumsStay
  <2>2. /\ \A q \in Processes \ {p} : opening'[q] = opening[q]
        /\ opening'[p] = [opening[p] EXCEPT !.pc = "create"]
        /\ opening'[p].pc = "create" /\ opening'[p].version = opening[p].version
        /\ opening'[p].has_history = opening[p].has_history
    BY <1>2 DEF baseline, At, MigrationsTypeOK
  <2>3. MigrationsTypeOK'
    <3>1. opening' = [opening EXCEPT ![p].pc = "create"] BY <1>2 DEF baseline, At
    <3>2. \A v \in DOMAIN sums' : sums'[v] \in BOOLEAN BY <1>2, <2>1 DEF baseline
    <3> QED BY <2>1, <3>1, <3>2 DEF MigrationsTypeOK
  <2>10. alone \subseteq Processes BY DEF MigrationsTypeOK
  <2>4. \A q \in Processes : opening[q].pc \notin PastMetadata
    BY <1>2 DEF ChecksumsStay
  <2>5. ChecksumsStay'
    BY <2>1, <2>2, <2>4 DEF ChecksumsStay, Entered, PastMetadata
  <2>6. TakeableStays'
    <3> SUFFICES ASSUME takeable PROVE Takeable'
      BY <2>1 DEF TakeableStays
    <3>1. history = legacy_versions
      BY <1>2, <2>1, VersionsTypes DEF TakeableStays, Takeable
    <3>2. legacy_versions = 1..(EXPECTED_SCHEMA_VERSION - 1)
          /\ EXPECTED_SCHEMA_VERSION - 1 \in 0..EXPECTED_SCHEMA_VERSION
      BY VersionsTypes DEF legacy_versions
    <3> QED BY <2>1, <3>1, <3>2 DEF Takeable
  <2>7. ForeignStays'
    BY <1>2, <2>1 DEF ForeignStays, OfLaterBuild, HasDrifted, LacksChecksum, NotLegacy
  <2>8. AloneKnows'
    <3>1. \A q \in Processes : Migrating(q)' <=> Migrating(q)
      BY <2>1, <2>2 DEF Migrating
    <3>2. /\ \A q \in alone : Migrating(q) => \A r \in Processes \ {q} : ~Migrating(r)
          /\ Migrating(p)
      BY <2>1 DEF AloneKnows, Migrating
    <3>3. \A q \in alone \ {p} : ~Migrating(q) BY <2>10, <3>2
    <3> QED BY <2>1, <2>2, <2>10, <3>1, <3>2, <3>3 DEF AloneKnows, Migrating
  <2>9. DatabaseOpens'
    BY <2>1, <2>2, <2>4, <2>10
    DEF DatabaseOpens, OpenIsCurrent, OnlyRacesRefuse, PastMetadata
  <2> QED BY <2>3, <2>5, <2>6, <2>7, <2>8, <2>9
<1> QED BY <1>1, <1>2

\* The version a process goes on to, if it is not the last one.
LEMMA NextVersionTypes ==
    ASSUME MigrationsInv, NEW p \in Processes, opening[p].pc \in {"lookup", "apply"},
           opening' = NextVersion(p)
    PROVE  /\ \A q \in Processes \ {p} : opening'[q] = opening[q]
           /\ opening'[p].has_history = opening[p].has_history
           /\ opening[p].version \in Versions
           /\ opening' \in [Processes ->
                  [pc : {"closed", "metadata", "legacy", "baseline", "create", "lookup",
                         "history", "apply", "check", "open", "refused"},
                   has_history : BOOLEAN, version : 0..EXPECTED_SCHEMA_VERSION]]
           /\ opening'[p].version \in Versions
           /\ \/ opening'[p].pc = "check"
              \/ opening'[p].pc = "lookup"
           /\ \A v \in Entered(p)' : v \in Entered(p) \/ v = opening[p].version
           /\ Entered(p) \subseteq Versions
<1>1. /\ opening[p].version \in Versions
      /\ opening \in [Processes ->
           [pc : {"closed", "metadata", "legacy", "baseline", "create", "lookup",
                  "history", "apply", "check", "open", "refused"},
            has_history : BOOLEAN, version : 0..EXPECTED_SCHEMA_VERSION]]
  BY DEF MigrationsInv, MigrationsTypeOK, ChecksumsStay
<1>2. Entered(p) = 1..(opening[p].version - 1)
  BY DEF Entered, PastMetadata
<1>3. Entered(p) \subseteq Versions
  BY <1>1, <1>2, VersionsTypes DEF Versions
<1>4. CASE opening[p].version = EXPECTED_SCHEMA_VERSION
  <2>1. /\ opening' = At(p, "check") BY <1>4 DEF NextVersion
  <2>2. /\ \A q \in Processes \ {p} : opening'[q] = opening[q]
        /\ opening'[p].has_history = opening[p].has_history
        /\ opening'[p].pc = "check" /\ opening'[p].version = opening[p].version
    BY <1>1, <2>1 DEF At
  <2>3. opening' \in [Processes ->
           [pc : {"closed", "metadata", "legacy", "baseline", "create", "lookup",
                  "history", "apply", "check", "open", "refused"},
            has_history : BOOLEAN, version : 0..EXPECTED_SCHEMA_VERSION]]
    BY <1>1, <2>1 DEF At
  <2>4. Entered(p)' = Versions BY <2>2 DEF Entered
  <2>5. \A v \in Entered(p)' : v \in Entered(p) \/ v = opening[p].version
    BY <1>2, <1>4, <2>4, VersionsTypes DEF Versions
  <2> QED BY <1>1, <1>3, <2>2, <2>3, <2>5
<1>5. CASE opening[p].version # EXPECTED_SCHEMA_VERSION
  <2>1. opening' = [opening EXCEPT ![p].version = @ + 1, ![p].pc = "lookup"]
    BY <1>5 DEF NextVersion
  <2>2. /\ \A q \in Processes \ {p} : opening'[q] = opening[q]
        /\ opening'[p].has_history = opening[p].has_history
        /\ opening'[p].pc = "lookup" /\ opening'[p].version = opening[p].version + 1
    BY <1>1, <2>1
  <2>3. opening[p].version + 1 \in Versions
    BY <1>1, <1>5, VersionsTypes DEF Versions
  <2>4. opening' \in [Processes ->
           [pc : {"closed", "metadata", "legacy", "baseline", "create", "lookup",
                  "history", "apply", "check", "open", "refused"},
            has_history : BOOLEAN, version : 0..EXPECTED_SCHEMA_VERSION]]
    <3>1. opening[p].version + 1 \in 0..EXPECTED_SCHEMA_VERSION
      BY <2>3, VersionsTypes DEF Versions
    <3> QED BY <1>1, <2>1, <3>1
  <2>5. Entered(p)' = 1..(opening'[p].version - 1) BY <2>2 DEF Entered, PastMetadata
  <2>6. \A v \in Entered(p)' : v \in Entered(p) \/ v = opening[p].version
    <3>1. opening'[p].version - 1 = opening[p].version /\ opening[p].version \in Nat
      BY <1>1, <2>2, VersionsTypes
    <3> QED BY <1>2, <2>5, <3>1
  <2> QED BY <1>1, <1>3, <2>2, <2>3, <2>4, <2>6
<1> QED BY <1>4, <1>5

LEMMA CheckVersionsKeeps ==
    ASSUME MigrationsInv, NEW p \in Processes, check_versions(p)
    PROVE  MigrationsInv'
<1> USE DEF check_versions, Rejected, At, MigrationsInv, Migrating
<1>1. MigrationsTypeOK' BY DEF MigrationsTypeOK
<1>2. ChecksumsStay' BY DEF MigrationsTypeOK, ChecksumsStay, Entered, PastMetadata
<1>3. TakeableStays'
  <2>1. Takeable' <=> Takeable BY DEF Takeable
  <2>2. metadata /\ metadata' BY DEF ChecksumsStay, PastMetadata
  <2>3. UNCHANGED takeable OBVIOUS
  <2> QED BY <2>1, <2>2, <2>3 DEF TakeableStays
<1>4. ForeignStays'
  BY DEF MigrationsTypeOK, ForeignStays, OfLaterBuild, HasDrifted, LacksChecksum,
         HistoryKnown, NotLegacy
<1>5. AloneKnows' BY DEF MigrationsTypeOK, AloneKnows
<1>6. \A v \in Versions : v \in DOMAIN sums /\ sums[v]
  BY DEF ChecksumsStay, Entered
<1>7. metadata /\ DOMAIN sums \subseteq history
  BY DEF ChecksumsStay, PastMetadata, MigrationsTypeOK
<1>8. /\ \A q \in Processes \ {p} : opening'[q] = opening[q]
      /\ opening'[p].pc = IF history = Versions THEN "open" ELSE "refused"
      /\ UNCHANGED <<history, sums, alone, takeable>>
  BY DEF MigrationsTypeOK
<1>9. OpenIsCurrent'
  <2>1. CASE history = Versions
    <3>1. EXPECTED_SCHEMA_VERSION + 1 \notin Versions BY VersionsTypes DEF Versions
    <3>2. takeable
      BY <1>6, <1>7, <2>1, <3>1 DEF ForeignStays, OfLaterBuild, HasDrifted, LacksChecksum,
                                    NotLegacy
    <3>3. DOMAIN sums = Versions BY <1>6, <1>7, <2>1
    <3> QED BY <1>6, <1>8, <2>1, <3>2, <3>3 DEF OpenIsCurrent
  <2>2. CASE history # Versions
    BY <1>8, <2>2 DEF OpenIsCurrent, DatabaseOpens
  <2> QED BY <2>1, <2>2
<1>10. OnlyRacesRefuse'
  <2>1. takeable => history = Versions
    <3> SUFFICES ASSUME takeable PROVE history = Versions OBVIOUS
    <3>1. PICK k \in 0..EXPECTED_SCHEMA_VERSION : history = 1..k
      BY <1>7 DEF TakeableStays, Takeable
    <3>2. Versions \subseteq history BY <1>6, <1>7
    <3>3. EXPECTED_SCHEMA_VERSION \in history BY <3>2, VersionsTypes DEF Versions
    <3>4. k = EXPECTED_SCHEMA_VERSION BY <3>1, <3>3, VersionsTypes
    <3> QED BY <3>1, <3>4 DEF Versions
  <2>2. alone \subseteq Processes BY DEF MigrationsTypeOK
  <2> QED BY <1>8, <2>1, <2>2 DEF OnlyRacesRefuse, DatabaseOpens
<1> QED BY <1>1, <1>2, <1>3, <1>4, <1>5, <1>9, <1>10 DEF DatabaseOpens

\* A process that is turned away leaves the invariant, unless it is one that
\* met no other on a database this build can take.
LEMMA RejectedKeeps ==
    ASSUME MigrationsInv, NEW p \in Processes, Migrating(p), Rejected(p),
           p \in alone => ~takeable
    PROVE  MigrationsInv'
<1> USE DEF Rejected, At, MigrationsInv, Migrating
<1>1. MigrationsTypeOK' BY DEF MigrationsTypeOK
<1>2. ChecksumsStay' BY DEF MigrationsTypeOK, ChecksumsStay, Entered, PastMetadata
<1>3. TakeableStays' BY DEF MigrationsTypeOK, TakeableStays, Takeable
<1>4. ForeignStays'
  BY DEF MigrationsTypeOK, ForeignStays, OfLaterBuild, HasDrifted, LacksChecksum,
         HistoryKnown, NotLegacy
<1>5. AloneKnows' BY DEF MigrationsTypeOK, AloneKnows
<1>6. DatabaseOpens'
  BY DEF MigrationsTypeOK, DatabaseOpens, OpenIsCurrent, OnlyRacesRefuse
<1> QED BY <1>1, <1>2, <1>3, <1>4, <1>5, <1>6

LEMMA LookupChecksumKeeps ==
    ASSUME MigrationsInv, NEW p \in Processes, lookup_checksum(p)
    PROVE  MigrationsInv'
<1> DEFINE v == opening[p].version
<1>1. opening[p].pc = "lookup" /\ Migrating(p) BY DEF lookup_checksum, Migrating
<1>2. metadata /\ DOMAIN sums \subseteq history
  BY <1>1 DEF MigrationsInv, ChecksumsStay, PastMetadata, MigrationsTypeOK
<1>3. CASE v \in DOMAIN sums /\ ~sums[v]
  <2>1. Rejected(p) BY <1>3 DEF lookup_checksum, Drifted
  <2>2. ~takeable BY <1>2, <1>3 DEF MigrationsInv, TakeableStays, Takeable
  <2> QED BY <1>1, <2>1, <2>2, RejectedKeeps
<1>4. CASE v \in DOMAIN sums /\ sums[v]
  <2>1. opening' = NextVersion(p) /\ UNCHANGED <<history, metadata, sums, alone, takeable>>
    BY <1>4 DEF lookup_checksum, Drifted
  <2>2. /\ \A q \in Processes \ {p} : opening'[q] = opening[q]
        /\ opening'[p].has_history = opening[p].has_history
        /\ opening'[p].version \in Versions
        /\ opening'[p].pc \in {"check", "lookup"}
        /\ \A w \in Entered(p)' : w \in Entered(p) \/ w = v
    BY <1>1, <2>1, NextVersionTypes
  <2>3. MigrationsTypeOK'
    BY <1>1, <2>1, NextVersionTypes DEF MigrationsInv, MigrationsTypeOK
  <2>4. ChecksumsStay'
    <3>1. \A w \in Entered(p)' : w \in DOMAIN sums /\ sums[w]
      BY <1>4, <2>2 DEF MigrationsInv, ChecksumsStay
    <3>2. \A q \in Processes \ {p} : Entered(q)' = Entered(q) BY <2>2 DEF Entered
    <3> QED BY <1>2, <2>1, <2>2, <3>1, <3>2 DEF MigrationsInv, ChecksumsStay, PastMetadata
  <2>5. TakeableStays'
    <3>1. Takeable' <=> Takeable BY <2>1 DEF Takeable
    <3> QED BY <1>2, <2>1, <3>1 DEF MigrationsInv, TakeableStays
  <2>6. ForeignStays'
    BY <1>1, <2>1, <2>2 DEF MigrationsInv, ForeignStays, OfLaterBuild, HasDrifted,
       LacksChecksum, HistoryKnown, NotLegacy, Migrating
  <2>7. alone \subseteq Processes BY DEF MigrationsInv, MigrationsTypeOK
  <2>8. AloneKnows'
    BY <1>1, <2>1, <2>2, <2>7 DEF MigrationsInv, AloneKnows, Migrating
  <2>9. DatabaseOpens'
    BY <2>1, <2>2, <2>7 DEF MigrationsInv, DatabaseOpens, OpenIsCurrent, OnlyRacesRefuse
  <2> QED BY <2>3, <2>4, <2>5, <2>6, <2>8, <2>9 DEF MigrationsInv
<1>5. CASE v \notin DOMAIN sums
  <2>1. /\ opening' = At(p, IF opening[p].has_history THEN "history" ELSE "apply")
        /\ UNCHANGED <<history, metadata, sums, alone, takeable>>
    BY <1>5 DEF lookup_checksum
  <2>2. /\ \A q \in Processes \ {p} : opening'[q] = opening[q]
        /\ opening'[p].has_history = opening[p].has_history
        /\ opening'[p].version = v /\ v \in Versions
        /\ opening'[p].pc \in {"history", "apply"}
        /\ opening'[p].pc = "apply" => ~opening[p].has_history
    BY <1>1, <2>1 DEF At, MigrationsInv, MigrationsTypeOK, ChecksumsStay
  <2>3. MigrationsTypeOK' BY <2>1 DEF At, MigrationsInv, MigrationsTypeOK
  <2>4. ChecksumsStay'
    <3>1. Entered(p)' = Entered(p) BY <1>1, <2>2 DEF Entered, PastMetadata
    <3>2. \A q \in Processes \ {p} : Entered(q)' = Entered(q) BY <2>2 DEF Entered
    <3> QED BY <1>2, <2>1, <2>2, <3>1, <3>2 DEF MigrationsInv, ChecksumsStay, PastMetadata
  <2>5. TakeableStays'
    <3>1. Takeable' <=> Takeable BY <2>1 DEF Takeable
    <3> QED BY <1>2, <2>1, <3>1 DEF MigrationsInv, TakeableStays
  <2>6. ForeignStays'
    BY <1>1, <2>1, <2>2 DEF MigrationsInv, ForeignStays, OfLaterBuild, HasDrifted,
       LacksChecksum, HistoryKnown, NotLegacy, Migrating
  <2>7. alone \subseteq Processes BY DEF MigrationsInv, MigrationsTypeOK
  <2>8. AloneKnows'
    BY <1>1, <1>5, <2>1, <2>2, <2>7 DEF MigrationsInv, AloneKnows, Migrating
  <2>9. DatabaseOpens'
    BY <2>1, <2>2, <2>7 DEF MigrationsInv, DatabaseOpens, OpenIsCurrent, OnlyRacesRefuse
  <2> QED BY <2>3, <2>4, <2>5, <2>6, <2>8, <2>9 DEF MigrationsInv
<1> QED BY <1>3, <1>4, <1>5

LEMMA ApplyMigrationKeeps ==
    ASSUME MigrationsInv, NEW p \in Processes, apply_migration(p)
    PROVE  MigrationsInv'
<1> DEFINE v == opening[p].version
<1>1. opening[p].pc = "apply" /\ Migrating(p) BY DEF apply_migration, Migrating
<1>2. metadata /\ DOMAIN sums \subseteq history
  BY <1>1 DEF MigrationsInv, ChecksumsStay, PastMetadata, MigrationsTypeOK
<1>3. CASE v \in DOMAIN sums
  <2>1. Rejected(p) BY <1>3 DEF apply_migration
  <2>2. p \notin alone BY <1>1, <1>3 DEF MigrationsInv, AloneKnows
  <2> QED BY <1>1, <2>1, <2>2, RejectedKeeps
<1>4. CASE v \notin DOMAIN sums
  <2>1. /\ opening' = NextVersion(p) /\ history' = history \union {v}
        /\ DOMAIN sums' = DOMAIN sums \union {v}
        /\ sums'[v] = TRUE /\ \A w \in DOMAIN sums : sums'[w] = sums[w]
        /\ UNCHANGED <<metadata, alone, takeable>>
    BY <1>4 DEF apply_migration, Applied
  <2>2. /\ \A q \in Processes \ {p} : opening'[q] = opening[q]
        /\ opening'[p].has_history = opening[p].has_history
        /\ v \in Versions
        /\ opening'[p].version \in Versions
        /\ opening'[p].pc \in {"check", "lookup"}
        /\ \A w \in Entered(p)' : w \in Entered(p) \/ w = v
    BY <1>1, <2>1, NextVersionTypes
  <2>3. MigrationsTypeOK'
    <3>1. v \in 1..(EXPECTED_SCHEMA_VERSION + 1) BY <2>2, VersionsTypes DEF Versions
    <3>2. \A w \in DOMAIN sums' : sums'[w] \in BOOLEAN
      BY <2>1 DEF MigrationsInv, MigrationsTypeOK
    <3> HIDE DEF v
    <3> QED BY <1>1, <2>1, <3>1, <3>2, NextVersionTypes DEF MigrationsInv, MigrationsTypeOK
  <2>4. ChecksumsStay'
    <3>1. \A w \in Entered(p)' : w \in DOMAIN sums' /\ sums'[w]
      BY <2>1, <2>2 DEF MigrationsInv, ChecksumsStay
    <3>2. \A q \in Processes \ {p} : Entered(q)' = Entered(q) BY <2>2 DEF Entered
    <3>3. \A q \in Processes \ {p} : \A w \in Entered(q)' : w \in DOMAIN sums' /\ sums'[w]
      BY <2>1, <3>2 DEF MigrationsInv, ChecksumsStay
    <3> HIDE DEF v
    <3> QED BY <1>2, <2>1, <2>2, <3>1, <3>3 DEF MigrationsInv, ChecksumsStay, PastMetadata
  <2>5. TakeableStays'
    <3> SUFFICES ASSUME takeable PROVE Takeable' BY <1>2, <2>1 DEF TakeableStays
    <3>1. PICK k \in 0..EXPECTED_SCHEMA_VERSION : history = 1..k
      BY <1>2 DEF MigrationsInv, TakeableStays, Takeable
    <3>2. DOMAIN sums = history /\ \A w \in history : sums[w]
      BY <1>2 DEF MigrationsInv, TakeableStays, Takeable
    <3>3. Entered(p) = 1..(v - 1) /\ Entered(p) \subseteq 1..k
      BY <1>1, <3>1, <3>2 DEF MigrationsInv, ChecksumsStay, Entered, PastMetadata
    <3>4. v \in Nat /\ v \in 1..EXPECTED_SCHEMA_VERSION BY <2>2, VersionsTypes DEF Versions
    <3> HIDE DEF v
    <3>5. v = k + 1
      <4>1. ~(v <= k) BY <1>4, <3>1, <3>2, <3>4
      <4>2. v > 1 => v - 1 \in 1..(v - 1) BY <3>4
      <4>3. v > 1 => v - 1 <= k BY <3>3, <3>4, <4>2
      <4> QED BY <3>4, <4>1, <4>3
    <3>6. k + 1 \in 0..EXPECTED_SCHEMA_VERSION /\ history' = 1..(k + 1)
      BY <2>1, <3>1, <3>4, <3>5
    <3>7. DOMAIN sums' = history' /\ \A w \in history' : sums'[w]
      BY <2>1, <3>2
    <3> QED BY <1>2, <2>1, <3>6, <3>7 DEF Takeable
  <2>6. ForeignStays'
    <3>1. HistoryKnown => HistoryKnown'
      BY <1>1, <2>1, <2>2 DEF HistoryKnown, Migrating
    <3>2. OfLaterBuild => OfLaterBuild' BY <2>1 DEF OfLaterBuild
    <3>3. HasDrifted => HasDrifted' BY <1>4, <2>1 DEF HasDrifted
    <3>4. LacksChecksum => LacksChecksum'
      <4> SUFFICES ASSUME LacksChecksum PROVE LacksChecksum' OBVIOUS
      <4>1. PICK w \in (history \intersect Versions) \ DOMAIN sums :
               \A q \in Processes : ~(opening[q].pc = "apply" /\ opening[q].version = w)
        BY DEF LacksChecksum
      <4>2. w # v BY <1>1, <4>1
      <4>3. \A q \in Processes : ~(opening'[q].pc = "apply" /\ opening'[q].version = w)
        BY <2>2, <4>1
      <4>4. w \in (history' \intersect Versions) \ DOMAIN sums'
        BY <2>1, <4>1, <4>2
      <4> QED BY <2>1, <3>1, <4>3, <4>4 DEF LacksChecksum
    <3>5. ~NotLegacy BY <1>2 DEF NotLegacy
    <3> QED BY <2>1, <3>2, <3>3, <3>4, <3>5 DEF MigrationsInv, ForeignStays
  <2>7. alone \subseteq Processes BY DEF MigrationsInv, MigrationsTypeOK
  <2>8. AloneKnows'
    <3>1. \A q \in Processes : Migrating(q)' <=> Migrating(q)
      BY <1>1, <2>2 DEF Migrating
    <3>2. \A q \in alone : Migrating(q) => q = p
      BY <1>1, <2>7 DEF MigrationsInv, AloneKnows
    <3> QED BY <1>1, <2>1, <2>2, <2>7, <3>1, <3>2 DEF MigrationsInv, AloneKnows, Migrating
  <2>9. DatabaseOpens'
    <3>1. OpenIsCurrent'
      <4> SUFFICES ASSUME NEW q \in Processes, opening'[q].pc = "open"
                   PROVE  FALSE
        BY DEF OpenIsCurrent
      <4>1. opening[q].pc = "open" BY <2>2
      <4>2. v \in DOMAIN sums
        BY <2>2, <4>1 DEF MigrationsInv, DatabaseOpens, OpenIsCurrent
      <4> QED BY <1>4, <4>2
    <3>2. OnlyRacesRefuse'
      BY <2>1, <2>2, <2>7 DEF MigrationsInv, DatabaseOpens, OnlyRacesRefuse
    <3> QED BY <3>1, <3>2 DEF DatabaseOpens
  <2> QED BY <2>3, <2>4, <2>5, <2>6, <2>8, <2>9 DEF MigrationsInv
<1> QED BY <1>3, <1>4

LEMMA MigrationsInvKept == MigrationsInv /\ [MigrationsNext]_migrationsVars => MigrationsInv'
<1> SUFFICES ASSUME MigrationsInv, [MigrationsNext]_migrationsVars PROVE MigrationsInv'
  OBVIOUS
<1>1. CASE UNCHANGED migrationsVars
  BY <1>1 DEF migrationsVars, MigrationsInv, MigrationsTypeOK, ChecksumsStay, Entered,
     TakeableStays, Takeable, ForeignStays, OfLaterBuild, HasDrifted, LacksChecksum,
     HistoryKnown, NotLegacy, AloneKnows, Migrating, DatabaseOpens, OpenIsCurrent,
     OnlyRacesRefuse
<1>2. CASE MigrationsNext
  <2>1. PICK p \in Processes :
          \/ read_history(p) \/ read_metadata(p) \/ read_versions(p) \/ baseline(p)
          \/ create_checksums(p) \/ lookup_checksum(p) \/ lookup_history(p)
          \/ apply_migration(p) \/ check_versions(p) \/ busy(p) \/ exit(p)
    BY <1>2 DEF MigrationsNext
  <2> QED
    BY <2>1, ReadHistoryKeeps, ReadMetadataKeeps, ReadVersionsKeeps, BaselineKeeps,
       CreateChecksumsKeeps, LookupChecksumKeeps, LookupHistoryKeeps,
       ApplyMigrationKeeps, CheckVersionsKeeps, BusyKeeps, ExitKeeps
<1> QED BY <1>1, <1>2

LEMMA MigrationsInvHolds == MigrationsSpec => []MigrationsInv
BY MigrationsInitInv, MigrationsInvKept, PTL DEF MigrationsSpec

-----------------------------------------------------------------------------
(* Theorems *)

\* The tables of the schema keep their types and the foreign key of the
\* checksum table, whoever writes to them.
THEOREM MigrationsTypeCorrectness == MigrationsSpec => []MigrationsTypeOK
BY MigrationsInvHolds, PTL DEF MigrationsInv

\* However many processes open the database at the same time, and wherever any
\* of them dies: one that got in works on the complete schema of its build,
\* and one that met no other is turned away only from a database of another
\* build.
THEOREM DatabaseCanBeOpened == MigrationsSpec => []DatabaseOpens
BY MigrationsInvHolds, PTL DEF MigrationsInv

-----------------------------------------------------------------------------
(* Expeditions, for any number of slots and destinations.                  *)
(*                                                                         *)
(* A claim that fills less than an interval leaves started_at behind the   *)
(* time it paid for, so an hour is paid once up to started_at, and once    *)
(* more up to where the last claim may have been.                          *)

OutState ==
    [destination : Destinations, party : (SUBSET Travellers) \ {{}}, started : Nat]

\* What a slot paid by the clock since its first start: up to started_at, and
\* once more up to where the last claim may have been.
ClockPaid(hours, period, state, time, first) ==
    hours <= (state.started \div period - first \div period)
              + (AtMost(time, state.started + Interval - 1) \div period - first \div period)

\* What is known of a slot: its state, the time, and what it paid since when.
SlotPays(state, time, tick, hour, supply, first) ==
    \/ state = Idle /\ tick = 0 /\ hour = 0 /\ supply = 0
    \/ /\ state \in OutState /\ first <= state.started /\ state.started <= time
       /\ tick * Interval <= state.started - first
       /\ state.started <= DestinationEnd[state.destination]
       /\ ClockPaid(hour, Hour, state, time, first)
       /\ ClockPaid(supply, SupplyHours * Hour, state, time, first)

SlotsPay ==
    \A slot \in ExpeditionSlots :
        SlotPays(expeditions[slot], expeditionTime, ticksPaid[slot], hoursPaid[slot],
                 suppliesPaid[slot], firstStart[slot])

ExpeditionsInv == ExpeditionsTypeOK /\ SlotsPay /\ TravellersApart

LEMMA ExpeditionNumbers ==
    /\ Interval \in Nat \ {0} /\ Hour \in Nat \ {0} /\ cap \in Nat \ {0}
    /\ SupplyHours * Hour \in Nat \ {0} /\ MaxExpeditionTime \in Nat
<1>1. /\ Interval \in Nat \ {0} /\ Hour \in Nat \ {0} /\ MaxHours \in Nat \ {0}
      /\ SupplyHours \in Nat \ {0} /\ MaxExpeditionTime \in Nat
  BY ExpeditionsAssumption, Zenon
<1>2. \A x, y \in Nat \ {0} : x * y \in Nat \ {0} OBVIOUS
<1> QED BY <1>1, <1>2 DEF cap

LEMMA IdleIsNotOut == Idle \notin OutState
BY DEF Idle, OutState

\* A claim moves started_at on by what it pays, by an interval at least, and
\* leaves less than an interval to the time up to which it pays.
LEMMA ClaimMovesOn ==
    ASSUME expeditionTime \in Nat, NEW state \in OutState, state.started <= expeditionTime,
           state.started <= DestinationEnd[state.destination]
    PROVE  /\ PaidUntil(state) \in Nat /\ ticks(state) \in Nat
           /\ state.started <= PaidUntil(state) /\ PaidUntil(state) <= expeditionTime
           /\ PaidUntil(state) <= DestinationEnd[state.destination]
           /\ ticks(state) > 0 =>
                /\ StartedAfter(state) \in Nat
                /\ state.started + ticks(state) * Interval <= StartedAfter(state)
                /\ state.started + Interval <= StartedAfter(state)
                /\ StartedAfter(state) <= PaidUntil(state)
                /\ PaidUntil(state) < StartedAfter(state) + Interval
<1> DEFINE s == state.started
           e == DestinationEnd[state.destination]
           t == PaidUntil(state)
           p == elapsed(state)
           k == ticks(state)
           r == p % Interval
           a == StartedAfter(state)
<1>1. s \in Nat /\ e \in Nat BY ExpeditionsAssumption DEF OutState
<1>2. t = IF e <= expeditionTime THEN e ELSE expeditionTime BY DEF PaidUntil, AtMost
<1>3. t \in Nat /\ s <= t /\ t <= expeditionTime /\ t <= e BY <1>1, <1>2
<1>4. p = IF t > s THEN (IF t - s <= cap THEN t - s ELSE cap) ELSE 0
  BY DEF elapsed, AtMost
<1>5. k = p \div Interval BY DEF ticks
<1>6. a = IF t - s > cap THEN t ELSE s + k * Interval BY DEF StartedAfter
<1> HIDE DEF s, e, t, p, k, a
<1>7. Interval \in Nat \ {0} /\ cap \in Nat BY ExpeditionNumbers
<1>8. p \in Nat /\ p <= t - s /\ (t - s <= cap => p = t - s) BY <1>1, <1>3, <1>4, <1>7
<1>9. k \in Nat /\ r \in 0..(Interval - 1) /\ p = k * Interval + r
  <2>1. p \in Int /\ p >= 0 BY <1>8
  <2>2. /\ p \div Interval \in Int /\ r \in 0..(Interval - 1)
        /\ p = (p \div Interval) * Interval + r /\ p \div Interval >= 0
    BY <1>7, <2>1, Division, Zenon
  <2> QED BY <1>5, <2>2
<1> HIDE DEF r
<1>10. ASSUME k > 0
       PROVE  /\ a \in Nat /\ s + k * Interval <= a /\ s + Interval <= a /\ a <= t
              /\ t < a + Interval
  <2> DEFINE m == k * Interval
  <2>1. m \in Nat BY <1>7, <1>9
  <2>2. Interval <= m
    <3>1. 1 * Interval <= k * Interval BY <1>7, <1>9, <1>10, ProductOrder
    <3> QED BY <1>7, <3>1
  <2> HIDE DEF m
  <2>3. p = m + r /\ a = IF t - s > cap THEN t ELSE s + m BY <1>6, <1>9 DEF m
  <2>4. s + m <= t BY <1>1, <1>3, <1>8, <1>9, <2>1, <2>3
  <2>5. CASE t - s > cap BY <1>1, <1>3, <1>7, <2>1, <2>2, <2>3, <2>4, <2>5 DEF m
  <2>6. CASE ~(t - s > cap)
    <3>1. p = t - s BY <1>1, <1>3, <1>7, <1>8, <2>6
    <3> QED BY <1>1, <1>3, <1>7, <1>9, <2>1, <2>2, <2>3, <2>4, <2>6, <3>1 DEF m
  <2> QED BY <2>5, <2>6
<1> QED BY <1>3, <1>9, <1>10 DEF s, e, t, k, a

\* A claim at the time t pays no more than the periods since started_at, and the
\* claim before was less than an interval after it.
LEMMA ClaimPaysByClock ==
    ASSUME expeditionTime \in Nat, NEW state \in OutState, NEW after \in OutState,
           state.started <= expeditionTime, state.started <= DestinationEnd[state.destination],
           ticks(state) > 0, after.started = StartedAfter(state),
           NEW period \in Nat \ {0}, NEW first \in Nat, NEW hours \in Nat,
           ClockPaid(hours, period, state, expeditionTime, first)
    PROVE  /\ Passed(state, period) \in Nat
           /\ ClockPaid(hours + Passed(state, period), period, after, expeditionTime, first)
<1> DEFINE s == state.started
           a == after.started
           t == PaidUntil(state)
           x == AtMost(expeditionTime, s + Interval - 1)
           y == AtMost(expeditionTime, a + Interval - 1)
           n == Passed(state, period)
<1>1. /\ t \in Nat /\ s \in Nat /\ a \in Nat /\ s + Interval <= a /\ s <= t /\ a <= t
      /\ t < a + Interval /\ t <= expeditionTime
  BY ClaimMovesOn DEF OutState
<1>2. n = AtMost(t \div period - s \div period, cap \div period) BY DEF Passed
<1>3. Interval \in Nat \ {0} /\ cap \in Nat BY ExpeditionNumbers
<1>4. x \in Int /\ y \in Int
  BY <1>1, <1>3 DEF AtMost
<1>5. x <= a /\ t <= y BY <1>1, <1>3 DEF AtMost
<1>6. hours <= (s \div period - first \div period) + (x \div period - first \div period)
  BY DEF ClockPaid
<1> HIDE DEF s, a, t, x, y, n
<1>a. /\ s \in Int /\ a \in Int /\ t \in Int /\ first \in Int /\ cap \in Int
      /\ s <= t /\ cap >= 0
  BY <1>1, <1>3
<1>7. x \div period <= a \div period BY <1>a, <1>4, <1>5, DivisionOrder, Zenon
<1>8. t \div period <= y \div period BY <1>a, <1>4, <1>5, DivisionOrder, Zenon
<1>9. s \div period <= t \div period BY <1>a, DivisionOrder, Zenon
<1>10. /\ x \div period \in Int /\ a \div period \in Int /\ t \div period \in Int
       /\ y \div period \in Int /\ s \div period \in Int /\ first \div period \in Int
       /\ cap \div period \in Int /\ cap \div period >= 0
  BY <1>a, <1>4, Division, Zenon
<1>11. n \in Nat /\ n <= t \div period - s \div period BY <1>2, <1>9, <1>10 DEF AtMost
<1>12. hours + n <= (a \div period - first \div period) + (y \div period - first \div period)
  BY <1>6, <1>7, <1>8, <1>10, <1>11
<1> QED BY <1>11, <1>12 DEF ClockPaid, n, y, a

\* Time and new starts only leave more room.
LEMMA ClockPaidLater ==
    ASSUME NEW state \in OutState, NEW after \in OutState, NEW time \in Nat, NEW later \in Nat,
           time <= later, state.started <= after.started,
           NEW period \in Nat \ {0}, NEW first \in Nat, NEW hours \in Nat,
           ClockPaid(hours, period, state, time, first)
    PROVE  ClockPaid(hours, period, after, later, first)
<1> DEFINE s == state.started
           a == after.started
           x == AtMost(time, s + Interval - 1)
           y == AtMost(later, a + Interval - 1)
<1>1. s \in Nat /\ a \in Nat BY DEF OutState
<1>2. Interval \in Nat \ {0} BY ExpeditionNumbers
<1>3. x \in Int /\ y \in Int /\ x <= y BY <1>1, <1>2 DEF AtMost
<1>4. hours <= (s \div period - first \div period) + (x \div period - first \div period)
  BY DEF ClockPaid
<1>5. s <= a OBVIOUS
<1> HIDE DEF s, a, x, y
<1>a. s \in Int /\ a \in Int /\ first \in Int BY <1>1
<1>6. s \div period <= a \div period /\ x \div period <= y \div period
  BY <1>a, <1>3, <1>5, DivisionOrder, Zenon
<1>7. /\ x \div period \in Int /\ a \div period \in Int /\ y \div period \in Int
      /\ s \div period \in Int /\ first \div period \in Int
  BY <1>a, <1>3, Division, Zenon
<1>8. hours <= (a \div period - first \div period) + (y \div period - first \div period)
  BY <1>4, <1>6, <1>7
<1> QED BY <1>8 DEF ClockPaid, y, a

\* Time passes for a slot that is out as for one that is not.
LEMMA SlotWaits ==
    ASSUME NEW state, NEW time \in Nat, NEW tick, NEW hour \in Nat, NEW supply \in Nat,
           NEW first \in Nat, SlotPays(state, time, tick, hour, supply, first)
    PROVE  SlotPays(state, time + 1, tick, hour, supply, first)
<1>1. CASE state = Idle
  <2>1. state \notin OutState BY <1>1, IdleIsNotOut
  <2> QED BY <1>1, <2>1 DEF SlotPays
<1>2. CASE state # Idle
  <2>1. /\ state \in OutState /\ first <= state.started /\ state.started <= time
        /\ tick * Interval <= state.started - first
        /\ state.started <= DestinationEnd[state.destination]
        /\ ClockPaid(hour, Hour, state, time, first)
        /\ ClockPaid(supply, SupplyHours * Hour, state, time, first)
    BY <1>2, Zenon DEF SlotPays
  <2>2. time + 1 \in Nat /\ time <= time + 1 OBVIOUS
  <2>3. state.started <= state.started /\ state.started <= time + 1 BY <2>1 DEF OutState
  <2>4. ClockPaid(hour, Hour, state, time + 1, first)
    BY <2>1, <2>2, <2>3, ExpeditionNumbers, ClockPaidLater, Zenon
  <2>5. ClockPaid(supply, SupplyHours * Hour, state, time + 1, first)
    BY <2>1, <2>2, <2>3, ExpeditionNumbers, ClockPaidLater, Zenon
  <2> QED BY <2>1, <2>3, <2>4, <2>5, Zenon DEF SlotPays
<1> QED BY <1>1, <1>2

LEMMA SlotTypes ==
    ASSUME ExpeditionsInv, NEW slot \in ExpeditionSlots
    PROVE  /\ expeditionTime \in Nat /\ ticksPaid[slot] \in Nat /\ hoursPaid[slot] \in Nat
           /\ suppliesPaid[slot] \in Nat /\ firstStart[slot] \in Nat
           /\ SlotPays(expeditions[slot], expeditionTime, ticksPaid[slot], hoursPaid[slot],
                       suppliesPaid[slot], firstStart[slot])
           /\ Out(slot) <=> expeditions[slot] \in OutState
<1>1. /\ expeditionTime \in 0..MaxExpeditionTime
      /\ {ticksPaid, hoursPaid, suppliesPaid, firstStart} \subseteq [ExpeditionSlots -> Nat]
  BY Zenon DEF ExpeditionsInv, ExpeditionsTypeOK
<1>2. SlotPays(expeditions[slot], expeditionTime, ticksPaid[slot], hoursPaid[slot],
               suppliesPaid[slot], firstStart[slot])
  BY Zenon DEF ExpeditionsInv, SlotsPay
<1>3. Out(slot) <=> expeditions[slot] \in OutState
  BY <1>2, IdleIsNotOut, Zenon DEF SlotPays, Out
<1> QED BY <1>1, <1>2, <1>3, ExpeditionNumbers

\* What expedition_rewards makes of a slot.
LEMMA SlotIsPaid ==
    ASSUME ExpeditionsInv, expedition_rewards, NEW slot \in ExpeditionSlots
    PROVE  /\ Rewarded[slot] = Idle \/ Rewarded[slot] \in OutState
           /\ Rewarded[slot].party = expeditions[slot].party
           /\ Rewarded[slot] = Idle <=> expeditions[slot] = Idle
           /\ ticksPaid'[slot] \in Nat /\ hoursPaid'[slot] \in Nat
           /\ suppliesPaid'[slot] \in Nat
           /\ SlotPays(Rewarded[slot], expeditionTime, ticksPaid'[slot], hoursPaid'[slot],
                       suppliesPaid'[slot], firstStart[slot])
<1> DEFINE state == expeditions[slot]
           after == Rewarded[slot]
           first == firstStart[slot]
<1>1. /\ expeditionTime \in Nat /\ ticksPaid[slot] \in Nat /\ hoursPaid[slot] \in Nat
      /\ suppliesPaid[slot] \in Nat /\ first \in Nat
      /\ SlotPays(state, expeditionTime, ticksPaid[slot], hoursPaid[slot], suppliesPaid[slot],
                  first)
      /\ Out(slot) <=> state \in OutState
  BY SlotTypes
<1>2. /\ ticksPaid'[slot] = ticksPaid[slot] + (IF Due(slot) THEN ticks(state) ELSE 0)
      /\ hoursPaid'[slot] = hoursPaid[slot] + (IF Due(slot) THEN Passed(state, Hour) ELSE 0)
      /\ suppliesPaid'[slot] =
           suppliesPaid[slot] + (IF Due(slot) THEN Passed(state, SupplyHours * Hour) ELSE 0)
  BY DEF expedition_rewards, Ticks, PassedBySlot
<1>3. after = [state EXCEPT !.started = IF Due(slot) THEN StartedAfter(state) ELSE @]
  BY DEF Rewarded
<1>4. Idle \in [destination : {0}, party : {{}}, started : {0}] BY DEF Idle
<1>5. CASE ~Due(slot)
  <2>1. state = Idle \/ state \in OutState BY <1>1 DEF SlotPays
  <2>2. after = [state EXCEPT !.started = state.started] BY <1>3, <1>5
  <2>3. after = state BY <1>4, <2>1, <2>2 DEF OutState
  <2> QED BY <1>1, <1>2, <1>5, <2>1, <2>3
<1>6. CASE Due(slot)
  <2>1. state \in OutState /\ state # Idle /\ ticks(state) > 0
    BY <1>1, <1>6, Zenon DEF Due, Out
  <2>2. /\ first <= state.started /\ state.started <= expeditionTime
        /\ ticksPaid[slot] * Interval <= state.started - first
        /\ state.started <= DestinationEnd[state.destination]
        /\ ClockPaid(hoursPaid[slot], Hour, state, expeditionTime, first)
        /\ ClockPaid(suppliesPaid[slot], SupplyHours * Hour, state, expeditionTime, first)
    BY <1>1, <2>1, Zenon DEF SlotPays
  <2> DEFINE a == StartedAfter(state)
  <2>3. /\ PaidUntil(state) \in Nat /\ ticks(state) \in Nat
        /\ PaidUntil(state) <= expeditionTime
        /\ PaidUntil(state) <= DestinationEnd[state.destination]
        /\ a \in Nat /\ state.started + ticks(state) * Interval <= a
        /\ a <= PaidUntil(state)
    BY <1>1, <2>1, <2>2, ClaimMovesOn
  <2>4. after = [state EXCEPT !.started = a] BY <1>3, <1>6
  <2> HIDE DEF a
  <2>5. /\ after \in OutState /\ after.started = a /\ after.party = state.party
        /\ after.destination = state.destination
    BY <2>1, <2>3, <2>4 DEF OutState
  <2>6. DestinationEnd[state.destination] \in Nat
    BY <2>1, ExpeditionsAssumption DEF OutState
  <2>7. first <= a /\ a <= expeditionTime /\ a <= DestinationEnd[after.destination]
    <3>1. Interval \in Nat /\ state.started \in Nat BY <2>1, ExpeditionNumbers DEF OutState
    <3> DEFINE m == ticks(state) * Interval
    <3>2. m \in Nat BY <2>3, <3>1
    <3> HIDE DEF m
    <3>3. state.started + m <= a BY <2>3 DEF m
    <3> QED BY <1>1, <2>2, <2>3, <2>5, <2>6, <3>1, <3>2, <3>3
  <2>8. ticksPaid'[slot] \in Nat /\ ticksPaid'[slot] * Interval <= a - first
    <3> DEFINE x == ticksPaid[slot]
               y == ticks(state)
    <3>1. x \in Nat /\ y \in Nat /\ ticksPaid'[slot] = x + y BY <1>1, <1>2, <1>6, <2>3
    <3>2. Interval \in Nat /\ state.started \in Nat BY <2>1, ExpeditionNumbers DEF OutState
    <3>3. x * Interval <= state.started - first /\ state.started + y * Interval <= a
      BY <2>2, <2>3
    <3> HIDE DEF x, y
    <3>4. (x + y) * Interval = x * Interval + y * Interval BY <3>1, <3>2
    <3>5. x * Interval \in Nat /\ y * Interval \in Nat BY <3>1, <3>2
    <3>6. (x + y) * Interval <= a - first BY <1>1, <2>3, <3>2, <3>3, <3>4, <3>5
    <3> QED BY <3>1, <3>6
  <2>9. /\ hoursPaid'[slot] \in Nat
        /\ ClockPaid(hoursPaid'[slot], Hour, after, expeditionTime, first)
    <3>1. hoursPaid'[slot] = hoursPaid[slot] + Passed(state, Hour) BY <1>2, <1>6
    <3>2. /\ Passed(state, Hour) \in Nat
          /\ ClockPaid(hoursPaid[slot] + Passed(state, Hour), Hour, after, expeditionTime, first)
      BY <1>1, <2>1, <2>2, <2>5, ExpeditionNumbers, ClaimPaysByClock DEF a
    <3> QED BY <1>1, <3>1, <3>2
  <2>10. /\ suppliesPaid'[slot] \in Nat
         /\ ClockPaid(suppliesPaid'[slot], SupplyHours * Hour, after, expeditionTime, first)
    <3> DEFINE h == SupplyHours * Hour
    <3>0. h \in Nat \ {0} BY ExpeditionNumbers
    <3>1. suppliesPaid'[slot] = suppliesPaid[slot] + Passed(state, h) BY <1>2, <1>6
    <3>2. ClockPaid(suppliesPaid[slot], h, state, expeditionTime, first) BY <2>2
    <3> HIDE DEF h
    <3>3. /\ Passed(state, h) \in Nat
          /\ ClockPaid(suppliesPaid[slot] + Passed(state, h), h, after, expeditionTime, first)
      BY <1>1, <2>1, <2>2, <2>5, <3>0, <3>2, ClaimPaysByClock DEF a
    <3>4. /\ suppliesPaid'[slot] \in Nat
          /\ ClockPaid(suppliesPaid'[slot], h, after, expeditionTime, first)
      BY <1>1, <3>1, <3>3
    <3> QED BY <3>4 DEF h
  <2>11. SlotPays(after, expeditionTime, ticksPaid'[slot], hoursPaid'[slot],
                  suppliesPaid'[slot], first)
    BY <2>5, <2>7, <2>8, <2>9, <2>10, Zenon DEF SlotPays
  <2>12. after # Idle BY <2>5, IdleIsNotOut
  <2> HIDE DEF after, first
  <2>13. /\ after = Idle \/ after \in OutState
         /\ after.party = state.party /\ (after = Idle <=> state = Idle)
    BY <2>1, <2>5, <2>12
  <2> QED BY <2>8, <2>9, <2>10, <2>11, <2>13 DEF after, first
<1> QED BY <1>5, <1>6

\* A slot that starts now, after it was paid.
LEMMA SlotStarts ==
    ASSUME ExpeditionsInv, expedition_rewards, NEW slot \in ExpeditionSlots,
           NEW anew \in OutState, anew.started = expeditionTime,
           expeditionTime < DestinationEnd[anew.destination]
    PROVE  SlotPays(anew, expeditionTime, ticksPaid'[slot], hoursPaid'[slot],
                    suppliesPaid'[slot],
                    IF ~Out(slot) THEN expeditionTime ELSE firstStart[slot])
<1> DEFINE left == Rewarded[slot]
           time == expeditionTime
           first == firstStart[slot]
<1>1. /\ expeditionTime \in Nat /\ firstStart[slot] \in Nat
      /\ Out(slot) <=> expeditions[slot] \in OutState
  BY SlotTypes
<1>2. /\ left = Idle \/ left \in OutState
      /\ left = Idle <=> ~Out(slot)
      /\ ticksPaid'[slot] \in Nat /\ hoursPaid'[slot] \in Nat /\ suppliesPaid'[slot] \in Nat
      /\ SlotPays(left, time, ticksPaid'[slot], hoursPaid'[slot], suppliesPaid'[slot], first)
  BY SlotIsPaid, Zenon DEF Out
<1>3. DestinationEnd[anew.destination] \in Nat BY ExpeditionsAssumption DEF OutState
<1>4. time <= DestinationEnd[anew.destination] BY <1>1, <1>3
<1>5. CASE left = Idle
  <2>1. ticksPaid'[slot] = 0 /\ hoursPaid'[slot] = 0 /\ suppliesPaid'[slot] = 0
    <3>1. left \notin OutState BY <1>5, IdleIsNotOut
    <3> QED BY <1>2, <3>1, Zenon DEF SlotPays
  <2>2. \A period \in Nat \ {0} : ClockPaid(0, period, anew, time, time)
    <3> SUFFICES ASSUME NEW period \in Nat \ {0} PROVE ClockPaid(0, period, anew, time, time)
      OBVIOUS
    <3>1. Interval \in Nat \ {0} BY ExpeditionNumbers
    <3>2. AtMost(time, time + Interval - 1) = time BY <1>1, <3>1 DEF AtMost
    <3>3. time \div period \in Int
      <4>1. time \in Int BY <1>1
      <4> QED BY <4>1, Division, Zenon
    <3> DEFINE d == time \div period
    <3>4. (d - d) + (d - d) = 0 BY <3>3
    <3> QED BY <3>2, <3>4 DEF ClockPaid
  <2>3. ClockPaid(0, Hour, anew, time, time) /\ ClockPaid(0, SupplyHours * Hour, anew, time, time)
    BY <2>2, ExpeditionNumbers, Zenon
  <2>4. 0 * Interval <= time - time /\ time <= time BY <1>1, ExpeditionNumbers
  <2>5. SlotPays(anew, time, 0, 0, 0, time) BY <1>4, <2>3, <2>4, Zenon DEF SlotPays
  <2> QED BY <1>2, <1>5, <2>1, <2>5
<1>6. CASE left \in OutState
  <2>1. left # Idle BY <1>6, IdleIsNotOut
  <2>2. /\ first <= left.started /\ left.started <= time
        /\ ticksPaid'[slot] * Interval <= left.started - first
        /\ ClockPaid(hoursPaid'[slot], Hour, left, time, first)
        /\ ClockPaid(suppliesPaid'[slot], SupplyHours * Hour, left, time, first)
    BY <1>2, <2>1, Zenon DEF SlotPays
  <2>3. left.started \in Nat BY <1>6 DEF OutState
  <2>4. first <= time /\ time <= time /\ ticksPaid'[slot] * Interval <= time - first
    <3>1. Interval \in Nat BY ExpeditionNumbers
    <3> DEFINE m == ticksPaid'[slot] * Interval
    <3>2. m \in Nat BY <1>2, <3>1
    <3>3. m <= left.started - first BY <2>2
    <3> HIDE DEF m, left
    <3>4. m <= time - first BY <1>1, <2>2, <2>3, <3>2, <3>3
    <3>5. first <= time BY <1>1, <2>2, <2>3
    <3> QED BY <1>1, <3>4, <3>5 DEF m
  <2>5. left.started <= anew.started BY <2>2
  <2>6. ClockPaid(hoursPaid'[slot], Hour, anew, time, first)
    BY <1>1, <1>2, <1>6, <2>2, <2>4, <2>5, ExpeditionNumbers, ClockPaidLater, Zenon
  <2>7. ClockPaid(suppliesPaid'[slot], SupplyHours * Hour, anew, time, first)
    BY <1>1, <1>2, <1>6, <2>2, <2>4, <2>5, ExpeditionNumbers, ClockPaidLater, Zenon
  <2>8. SlotPays(anew, time, ticksPaid'[slot], hoursPaid'[slot], suppliesPaid'[slot], first)
    BY <1>4, <2>4, <2>6, <2>7, Zenon DEF SlotPays
  <2> QED BY <1>2, <2>1, <2>8
<1> QED BY <1>2, <1>5, <1>6

LEMMA ExpeditionsBegin == ExpeditionsInit => ExpeditionsInv
<1> SUFFICES ASSUME ExpeditionsInit PROVE ExpeditionsInv OBVIOUS
<1>1. SlotsPay BY DEF ExpeditionsInit, SlotsPay, SlotPays
<1>2. ExpeditionsTypeOK
  BY ExpeditionNumbers DEF ExpeditionsInit, ExpeditionsTypeOK, Out
<1>3. TravellersApart BY DEF ExpeditionsInit, TravellersApart, Idle
<1> QED BY <1>1, <1>2, <1>3 DEF ExpeditionsInv

\* The types of the states follow from what the slots pay.
LEMMA OutAreTyped ==
    ASSUME ExpeditionsInv, SlotsPay', expeditionTime' \in 0..MaxExpeditionTime,
           {ticksPaid', hoursPaid', suppliesPaid', firstStart'} \subseteq [ExpeditionSlots -> Nat],
           TravellersApart'
    PROVE  ExpeditionsInv'
<1>1. ASSUME NEW slot \in ExpeditionSlots, Out(slot)'
      PROVE  expeditions'[slot] \in [destination : Destinations,
                 party : (SUBSET Travellers) \ {{}}, started : 0..expeditionTime']
  <2>1. /\ expeditions'[slot] \in OutState
        /\ expeditions'[slot].started <= expeditionTime'
    BY <1>1, Zenon DEF SlotsPay, SlotPays, Out, Idle, OutState
  <2>2. expeditionTime' \in Nat BY ExpeditionNumbers
  <2> QED BY <2>1, <2>2 DEF OutState
<1> QED BY <1>1 DEF ExpeditionsInv, ExpeditionsTypeOK

LEMMA ClaimKeeps == ASSUME ExpeditionsInv, expedition_reward_receive PROVE ExpeditionsInv'
<1>1. /\ expedition_rewards /\ expeditions' = Rewarded
      /\ expeditionTime' = expeditionTime /\ firstStart' = firstStart
  BY DEF expedition_reward_receive
<1>2. ASSUME NEW slot \in ExpeditionSlots
      PROVE  /\ expeditions'[slot].party = expeditions[slot].party
             /\ ticksPaid'[slot] \in Nat /\ hoursPaid'[slot] \in Nat
             /\ suppliesPaid'[slot] \in Nat
             /\ SlotPays(expeditions'[slot], expeditionTime', ticksPaid'[slot], hoursPaid'[slot],
                         suppliesPaid'[slot], firstStart'[slot])
  BY <1>1, SlotIsPaid
<1>3. SlotsPay' BY <1>2, Zenon DEF SlotsPay
<1>4. TravellersApart' BY <1>2 DEF ExpeditionsInv, TravellersApart
<1>5. {ticksPaid', hoursPaid', suppliesPaid', firstStart'} \subseteq [ExpeditionSlots -> Nat]
  BY <1>1, <1>2 DEF expedition_rewards, ExpeditionsInv, ExpeditionsTypeOK
<1>6. expeditionTime' \in 0..MaxExpeditionTime BY <1>1 DEF ExpeditionsInv, ExpeditionsTypeOK
<1> QED BY <1>3, <1>4, <1>5, <1>6, OutAreTyped

LEMMA DepartureKeeps ==
    ASSUME ExpeditionsInv, NEW entries \in Entries, expedition_start(entries)
    PROVE  ExpeditionsInv'
<1> DEFINE anew(slot) == [destination |-> entries[slot].destination,
                          party |-> entries[slot].party, started |-> expeditionTime]
<1>1. /\ expedition_rewards /\ Apart(entries)
      /\ \A i \in DOMAIN entries :
            entries[i].party # {} /\ expeditionTime < DestinationEnd[entries[i].destination]
      /\ expeditions' = [slot \in ExpeditionSlots |->
                           IF slot \in DOMAIN entries THEN anew(slot) ELSE Rewarded[slot]]
      /\ expeditionTime' = expeditionTime
      /\ firstStart' = [slot \in ExpeditionSlots |->
            IF slot \in DOMAIN entries /\ ~Out(slot) THEN expeditionTime ELSE firstStart[slot]]
  BY Zenon DEF expedition_start
<1>2. \A i \in DOMAIN entries :
          /\ i \in ExpeditionSlots /\ entries[i].destination \in Destinations
          /\ entries[i].party \in (SUBSET Travellers) \ {{}}
  BY DEF Entries
<1>3. ASSUME NEW slot \in ExpeditionSlots
      PROVE  /\ expeditionTime \in Nat /\ firstStart[slot] \in Nat
             /\ Rewarded[slot].party = expeditions[slot].party
             /\ ticksPaid'[slot] \in Nat /\ hoursPaid'[slot] \in Nat
             /\ suppliesPaid'[slot] \in Nat
             /\ SlotPays(Rewarded[slot], expeditionTime, ticksPaid'[slot], hoursPaid'[slot],
                         suppliesPaid'[slot], firstStart[slot])
  BY <1>1, SlotIsPaid, SlotTypes
<1>4. ASSUME NEW slot \in ExpeditionSlots
      PROVE  SlotPays(expeditions'[slot], expeditionTime', ticksPaid'[slot], hoursPaid'[slot],
                      suppliesPaid'[slot], firstStart'[slot])
  <2>1. CASE slot \in DOMAIN entries
    <3>1. /\ anew(slot) \in OutState /\ anew(slot).started = expeditionTime
          /\ expeditionTime < DestinationEnd[anew(slot).destination]
      BY <1>1, <1>2, <1>3, <2>1 DEF OutState
    <3>2. /\ expeditions'[slot] = anew(slot)
          /\ firstStart'[slot] = IF ~Out(slot) THEN expeditionTime ELSE firstStart[slot]
      BY <1>1, <2>1
    <3> HIDE DEF anew
    <3>3. SlotPays(anew(slot), expeditionTime, ticksPaid'[slot], hoursPaid'[slot],
                   suppliesPaid'[slot], IF ~Out(slot) THEN expeditionTime ELSE firstStart[slot])
      BY <1>1, <3>1, SlotStarts
    <3> QED BY <1>1, <3>2, <3>3
  <2>2. CASE slot \notin DOMAIN entries
    <3>1. expeditions'[slot] = Rewarded[slot] /\ firstStart'[slot] = firstStart[slot]
      BY <1>1, <2>2
    <3> QED BY <1>1, <1>3, <3>1
  <2> QED BY <2>1, <2>2
<1>5. SlotsPay' BY <1>4, Zenon DEF SlotsPay
<1>6. TravellersApart'
  <2> SUFFICES ASSUME NEW i \in ExpeditionSlots, NEW j \in ExpeditionSlots, i # j
               PROVE  expeditions'[i].party \intersect expeditions'[j].party = {}
    BY DEF TravellersApart
  <2>1. \A slot \in ExpeditionSlots :
          expeditions'[slot].party = IF slot \in DOMAIN entries THEN entries[slot].party
                                     ELSE expeditions[slot].party
    BY <1>1, <1>3
  <2>2. /\ \A k, l \in DOMAIN entries : k # l => entries[k].party \intersect entries[l].party = {}
        /\ \A k \in DOMAIN entries : \A slot \in ExpeditionSlots \ DOMAIN entries :
             entries[k].party \intersect expeditions[slot].party = {}
    BY <1>1 DEF Apart, ApartInRequest
  <2>3. expeditions[i].party \intersect expeditions[j].party = {}
    BY DEF ExpeditionsInv, TravellersApart
  <2> QED BY <2>1, <2>2, <2>3
<1>7. {ticksPaid', hoursPaid', suppliesPaid', firstStart'} \subseteq [ExpeditionSlots -> Nat]
  <2>1. /\ ticksPaid' = [slot \in ExpeditionSlots |-> ticksPaid'[slot]]
        /\ hoursPaid' = [slot \in ExpeditionSlots |-> hoursPaid'[slot]]
        /\ suppliesPaid' = [slot \in ExpeditionSlots |-> suppliesPaid'[slot]]
    BY <1>1 DEF expedition_rewards
  <2>2. firstStart' \in [ExpeditionSlots -> Nat] BY <1>1, <1>3
  <2>3. \A slot \in ExpeditionSlots :
          /\ ticksPaid'[slot] \in Nat /\ hoursPaid'[slot] \in Nat /\ suppliesPaid'[slot] \in Nat
    BY <1>3
  <2> QED BY <2>1, <2>2, <2>3
<1>8. expeditionTime' \in 0..MaxExpeditionTime BY <1>1 DEF ExpeditionsInv, ExpeditionsTypeOK
<1> QED BY <1>5, <1>6, <1>7, <1>8, OutAreTyped

LEMMA ExpeditionTickKeeps == ASSUME ExpeditionsInv, ExpeditionTick PROVE ExpeditionsInv'
<1>1. /\ expeditionTime' = expeditionTime + 1 /\ expeditionTime < MaxExpeditionTime
      /\ UNCHANGED <<expeditions, ticksPaid, hoursPaid, suppliesPaid, firstStart>>
  BY DEF ExpeditionTick
<1>2. /\ expeditionTime \in 0..MaxExpeditionTime
      /\ {ticksPaid, hoursPaid, suppliesPaid, firstStart} \subseteq [ExpeditionSlots -> Nat]
  BY Zenon DEF ExpeditionsInv, ExpeditionsTypeOK
<1>3. SlotsPay'
  <2> SUFFICES ASSUME NEW slot \in ExpeditionSlots
               PROVE  SlotPays(expeditions[slot], expeditionTime + 1, ticksPaid[slot],
                               hoursPaid[slot], suppliesPaid[slot], firstStart[slot])
    BY <1>1, Zenon DEF SlotsPay
  <2> QED BY SlotTypes, SlotWaits
<1>4. expeditionTime' \in 0..MaxExpeditionTime BY <1>1, <1>2, ExpeditionNumbers
<1>5. TravellersApart' BY <1>1 DEF ExpeditionsInv, TravellersApart
<1> QED BY <1>1, <1>2, <1>3, <1>4, <1>5, OutAreTyped

LEMMA ExpeditionsStep ==
    ExpeditionsInv /\ [ExpeditionsNext]_expeditionsVars => ExpeditionsInv'
<1> SUFFICES ASSUME ExpeditionsInv, [ExpeditionsNext]_expeditionsVars PROVE ExpeditionsInv'
  OBVIOUS
<1>1. CASE UNCHANGED expeditionsVars
  <2>1. /\ expeditionTime' = expeditionTime
        /\ UNCHANGED <<expeditions, ticksPaid, hoursPaid, suppliesPaid, firstStart>>
    BY <1>1, Zenon DEF expeditionsVars
  <2> QED
    BY <2>1, Zenon DEF ExpeditionsInv, ExpeditionsTypeOK, SlotsPay, TravellersApart, Out
<1> QED
  BY <1>1, ClaimKeeps, DepartureKeeps, ExpeditionTickKeeps, Zenon DEF ExpeditionsNext

LEMMA ExpeditionsArePaid == ExpeditionsInv => ExpeditionsPay
<1> SUFFICES ASSUME ExpeditionsInv PROVE ExpeditionsPay OBVIOUS
<1>1. ASSUME NEW slot \in ExpeditionSlots, Out(slot)
      PROVE  /\ ticksPaid[slot] * Interval <= expeditions[slot].started - firstStart[slot]
             /\ expeditions[slot].started <= DestinationEnd[expeditions[slot].destination]
             /\ expeditions[slot] \in OutState
             /\ expeditions[slot].started <= expeditionTime
             /\ ClockPaid(hoursPaid[slot], Hour, expeditions[slot], expeditionTime,
                          firstStart[slot])
             /\ ClockPaid(suppliesPaid[slot], SupplyHours * Hour, expeditions[slot],
                          expeditionTime, firstStart[slot])
  BY <1>1, SlotTypes, Zenon DEF SlotPays, Out
<1>2. ASSUME NEW period \in Nat \ {0}, NEW state \in OutState, NEW number, NEW first \in Nat,
             state.started <= expeditionTime, number \in Nat, expeditionTime \in Nat,
             ClockPaid(number, period, state, expeditionTime, first)
      PROVE  number <= 2 * (expeditionTime \div period - first \div period)
  <2> DEFINE s == state.started
             x == AtMost(expeditionTime, s + Interval - 1)
  <2>1. number <= (s \div period - first \div period) + (x \div period - first \div period)
    BY <1>2 DEF ClockPaid
  <2>2. s \in Int /\ first \in Int /\ expeditionTime \in Int BY <1>2 DEF OutState
  <2>3. x \in Int /\ x <= expeditionTime /\ s <= expeditionTime
    BY <1>2, <2>2, ExpeditionNumbers DEF AtMost
  <2> HIDE DEF s, x
  <2>4. s \div period <= expeditionTime \div period /\ x \div period <= expeditionTime \div period
    BY <2>2, <2>3, DivisionOrder, Zenon
  <2>5. /\ s \div period \in Int /\ x \div period \in Int /\ first \div period \in Int
        /\ expeditionTime \div period \in Int
    BY <2>2, <2>3, Division, Zenon
  <2> QED BY <1>2, <2>1, <2>4, <2>5
<1>3. SecondsPaidOnce BY <1>1 DEF SecondsPaidOnce
<1>4. HoursPaidTwiceAtMost
  <2> SUFFICES ASSUME NEW slot \in ExpeditionSlots, Out(slot)
               PROVE  /\ hoursPaid[slot] <= 2 * (expeditionTime \div Hour
                                                   - firstStart[slot] \div Hour)
                      /\ suppliesPaid[slot] <=
                           2 * (expeditionTime \div (SupplyHours * Hour)
                                  - firstStart[slot] \div (SupplyHours * Hour))
    BY Zenon DEF HoursPaidTwiceAtMost
  <2>1. /\ expeditionTime \in Nat /\ hoursPaid[slot] \in Nat /\ suppliesPaid[slot] \in Nat
        /\ firstStart[slot] \in Nat
    BY SlotTypes
  <2> QED BY <1>1, <1>2, <2>1, ExpeditionNumbers, Zenon
<1>5. TravellersApart BY DEF ExpeditionsInv
<1> QED BY <1>3, <1>4, <1>5 DEF ExpeditionsPay

\* Slots pay for the time they are out and each for its own party: no second
\* twice and none after the destination closed, an hour of the clock at most
\* twice, over any claims and new starts (expedition_rewards, expedition).
THEOREM ExpeditionsPayForTime == ExpeditionsSpec => []ExpeditionsPay
BY ExpeditionsBegin, ExpeditionsStep, ExpeditionsArePaid, PTL DEF ExpeditionsSpec

-----------------------------------------------------------------------------
(* A house, for any table of laps and levels.                              *)
(*                                                                         *)
(* The table of investigations is gone through as often as it has rows.    *)
(* Each time adds a row, unless nothing that is shown is missing, so after *)
(* the last one either everything is recorded or nothing is missing.       *)

LEMMA HousingTables ==
    /\ ProductionInterval \in Nat \ {0} /\ ProductionDay \in Nat /\ CountRewards \subseteq Nat \ {0}
    /\ FirstLap \in DOMAIN LevelRule /\ DOMAIN LevelRule \subseteq Nat
    /\ \A lap \in DOMAIN LevelRule :
         /\ Len(LevelRule[lap]) \in Nat \ {0} /\ DOMAIN LevelRule[lap] = 1..Len(LevelRule[lap])
         /\ \A lv \in DOMAIN LevelRule[lap] : LevelRule[lap][lv].cost \in Nat
    /\ Len(Investigations) \in Nat /\ DOMAIN Investigations = 1..Len(Investigations)
    /\ \A i \in DOMAIN Investigations : \A m \in Investigations[i].missions : m.count \in Nat
    /\ BuildingMaterial \in Nat /\ OwnedTools \in Nat
BY HousingAssumption, Zenon

-----------------------------------------------------------------------------
(* Investigations *)

InvestigationIds == {Investigations[i].id : i \in DOMAIN Investigations}

\* What a row of the table adds to the records.
Noted(presets, records, i) ==
    IF Shown(Investigations[i], presets, records)
    THEN records \union {Investigations[i].id} ELSE records

\* Nothing that is shown is missing.
NothingMissing(presets, records) ==
    \A i \in DOMAIN Investigations :
        Shown(Investigations[i], presets, records) => Investigations[i].id \in records

LEMMA MoreIsShown ==
    ASSUME NEW spec, NEW presets, NEW small, NEW large, small \subseteq large,
           Shown(spec, presets, small)
    PROVE  Shown(spec, presets, large)
BY DEF Shown

LEMMA PassTable ==
    ASSUME NEW presets, NEW records \in SUBSET InvestigationIds
    PROVE  \E u \in [0..Len(Investigations) -> SUBSET InvestigationIds] :
              /\ u[0] = records
              /\ \A i \in 1..Len(Investigations) : u[i] = Noted(presets, u[i - 1], i)
              /\ Pass(presets, records) = u[Len(Investigations)]
<1> DEFINE n == Len(Investigations)
           S == SUBSET InvestigationIds
           step == [x \in S \X Nat |-> IF x[2] \in 1..n THEN Noted(presets, x[1], x[2]) ELSE x[1]]
           Table(u) == u = [i \in 0..n |->
                              IF i = 0 THEN records
                              ELSE LET before == u[i - 1] IN
                                   IF Shown(Investigations[i], presets, before)
                                   THEN before \union {Investigations[i].id} ELSE before]
<1>1. n \in Nat /\ DOMAIN Investigations = 1..n BY HousingTables, Zenon
<1>2. IsStepOn(step, S)
  <2> SUFFICES ASSUME NEW x \in S \X Nat
               PROVE  (IF x[2] \in 1..n THEN Noted(presets, x[1], x[2]) ELSE x[1]) \in S
    BY Zenon DEF IsStepOn
  <2>1. x[1] \in S /\ x[2] \in Nat OBVIOUS
  <2>2. x[2] \in 1..n => Investigations[x[2]].id \in InvestigationIds BY <1>1 DEF InvestigationIds
  <2> QED BY <2>1, <2>2 DEF Noted
<1> HIDE DEF step, S
<1>3. PICK u : IsIteration(u, step, records, n, S)
  <2>1. records \in S BY DEF S
  <2> QED BY <1>1, <1>2, <2>1, IterationExists, Zenon
<1>4. /\ u \in [0..n -> S] /\ u[0] = records
      /\ \A i \in 1..n : u[i] = step[<<u[i - 1], i>>]
  BY <1>3, Zenon DEF IsIteration
<1>5. ASSUME NEW i \in 1..n PROVE u[i] = Noted(presets, u[i - 1], i)
  <2> DEFINE w == <<u[i - 1], i>>
  <2>1. w \in S \X Nat /\ w[1] = u[i - 1] /\ w[2] = i BY <1>1, <1>4
  <2>2. u[i] = step[w] BY <1>4
  <2> HIDE DEF w
  <2>3. step[w] = IF w[2] \in 1..n THEN Noted(presets, w[1], w[2]) ELSE w[1]
    BY <2>1, Zenon DEF step
  <2> QED BY <2>1, <2>2, <2>3, Zenon
<1>6. Table(u)
  <2>1. \A i \in 0..n : i = 0 \/ (i \in 1..n /\ i # 0) BY <1>1
  <2>2. \A i \in 0..n : u[i] = IF i = 0 THEN records ELSE Noted(presets, u[i - 1], i)
    BY <1>4, <1>5, <2>1, Zenon
  <2>3. u = [i \in 0..n |-> u[i]] BY <1>4, Zenon
  <2>4. u = [i \in 0..n |-> IF i = 0 THEN records ELSE Noted(presets, u[i - 1], i)]
    BY <2>2, <2>3, Zenon
  <2> QED BY <2>4, Zenon DEF Noted
<1>7. ASSUME NEW v, Table(v) PROVE v[n] = u[n]
  <2>1. v[0] = records
    <3>1. 0 \in 0..n BY <1>1
    <3> QED BY <1>7, <3>1, Zenon
  <2>2. \A i \in 1..n : v[i] = Noted(presets, v[i - 1], i)
    <3>1. \A i \in 1..n : i \in 0..n /\ i # 0 BY <1>1
    <3> HIDE DEF n
    <3> QED BY <1>7, <3>1, Zenon DEF Noted
  <2> DEFINE C == {i \in 0..n : v[i] # u[i]}
  <2> SUFFICES ASSUME C # {} PROVE FALSE
    <3>1. n \in 0..n BY <1>1
    <3> QED BY <3>1
  <2>3. PICK i \in C : \A j \in C : i <= j
    <3>1. C \subseteq Nat BY <1>1
    <3> HIDE DEF C
    <3> QED BY <3>1, LeastNumber
  <2>4. i # 0 BY <1>4, <2>1
  <2>5. i \in 1..n /\ i - 1 \in 0..n /\ ~(i <= i - 1) BY <1>1, <2>4
  <2>6. v[i - 1] = u[i - 1]
    <3>1. i - 1 \notin C
      <4> HIDE DEF C
      <4> QED BY <2>3, <2>5
    <3> QED BY <2>5, <3>1
  <2>7. v[i] = u[i] BY <1>5, <2>2, <2>5, <2>6, Zenon
  <2> QED BY <2>7
<1>8. Pass(presets, records) = u[n]
  <2> DEFINE v == CHOOSE f : Table(f)
  <2>1. Table(v)
    <3> HIDE DEF Table
    <3> QED BY <1>6, Zenon
  <2>2. Pass(presets, records) = v[n] BY Zenon DEF Pass
  <2> HIDE DEF v, Table
  <2> QED BY <1>7, <2>1, <2>2, Zenon
<1> QED BY <1>4, <1>5, <1>8, Zenon DEF S

\* A pass adds what is shown: something, unless nothing is missing.
LEMMA PassAdds ==
    ASSUME NEW presets, NEW records \in SUBSET InvestigationIds
    PROVE  /\ Pass(presets, records) \in SUBSET InvestigationIds /\ records \subseteq Pass(presets, records)
           /\ Pass(presets, records) = records <=> NothingMissing(presets, records)
<1> DEFINE n == Len(Investigations)
<1>1. n \in Nat /\ DOMAIN Investigations = 1..n BY HousingTables, Zenon
<1>2. PICK u \in [0..n -> SUBSET InvestigationIds] :
              /\ u[0] = records
              /\ \A i \in 1..n : u[i] = Noted(presets, u[i - 1], i)
              /\ Pass(presets, records) = u[n]
  BY PassTable, Zenon
<1> HIDE DEF n
<1>3. \A i \in 1..n : u[i - 1] \subseteq u[i] BY <1>2 DEF Noted
<1>4. \A i \in 0..n : records \subseteq u[i]
  <2> DEFINE C == {i \in 0..n : ~(records \subseteq u[i])}
  <2> SUFFICES ASSUME C # {} PROVE FALSE OBVIOUS
  <2>1. PICK i \in C : \A j \in C : i <= j
    <3>1. C \subseteq Nat BY <1>1
    <3> HIDE DEF C
    <3> QED BY <3>1, LeastNumber
  <2>2. i # 0 BY <1>2
  <2>3. i \in 1..n /\ i - 1 \in 0..n /\ ~(i <= i - 1) BY <1>1, <2>2
  <2>4. records \subseteq u[i - 1]
    <3>1. i - 1 \notin C
      <4> HIDE DEF C
      <4> QED BY <2>1, <2>3
    <3> QED BY <2>3, <3>1
  <2>5. records \subseteq u[i] BY <1>3, <2>3, <2>4
  <2> QED BY <2>5
<1>5. \A i \in 0..n : u[i] \subseteq u[n]
  <2> DEFINE C == {k \in 0..n : ~(u[n - k] \subseteq u[n])}
  <2> SUFFICES ASSUME C # {} PROVE FALSE
    <3>1. ASSUME NEW i \in 0..n PROVE u[i] \subseteq u[n]
      <4>1. n - i \in 0..n /\ n - (n - i) = i BY <1>1
      <4> QED BY <3>1, <4>1
    <3> QED BY <3>1
  <2>1. PICK k \in C : \A j \in C : k <= j
    <3>1. C \subseteq Nat BY <1>1
    <3> HIDE DEF C
    <3> QED BY <3>1, LeastNumber
  <2>2. k # 0
    <3>1. n - 0 = n BY <1>1
    <3> QED BY <3>1
  <2>3. /\ k - 1 \in 0..n /\ ~(k <= k - 1)
        /\ n - k \in 0..n /\ n - (k - 1) \in 1..n /\ (n - (k - 1)) - 1 = n - k
    BY <1>1, <2>2
  <2>4. u[n - (k - 1)] \subseteq u[n]
    <3>1. k - 1 \notin C
      <4> HIDE DEF C
      <4> QED BY <2>1, <2>3
    <3> QED BY <2>3, <3>1
  <2>5. u[n - k] \subseteq u[n - (k - 1)] BY <1>3, <2>3
  <2>6. u[n - k] \subseteq u[n] BY <2>4, <2>5
  <2> QED BY <2>6
<1>6. u[n] \in SUBSET InvestigationIds /\ records \subseteq u[n] BY <1>1, <1>2, <1>4
<1>7. ASSUME NothingMissing(presets, records) PROVE u[n] = records
  <2> DEFINE C == {i \in 0..n : u[i] # records}
  <2> SUFFICES ASSUME C # {} PROVE FALSE
    <3>1. n \in 0..n BY <1>1
    <3> QED BY <3>1
  <2>1. PICK i \in C : \A j \in C : i <= j
    <3>1. C \subseteq Nat BY <1>1
    <3> HIDE DEF C
    <3> QED BY <3>1, LeastNumber
  <2>2. i # 0 BY <1>2
  <2>3. i \in 1..n /\ i - 1 \in 0..n /\ ~(i <= i - 1) BY <1>1, <2>2
  <2>4. u[i - 1] = records
    <3>1. i - 1 \notin C
      <4> HIDE DEF C
      <4> QED BY <2>1, <2>3
    <3> QED BY <2>3, <3>1
  <2>5. u[i] = Noted(presets, records, i) BY <1>2, <2>3, <2>4
  <2>6. u[i] = records BY <1>1, <1>7, <2>3, <2>5 DEF Noted, NothingMissing
  <2> QED BY <2>6
<1>8. ASSUME u[n] = records PROVE NothingMissing(presets, records)
  <2> SUFFICES ASSUME NEW i \in 1..n, Shown(Investigations[i], presets, records)
               PROVE  Investigations[i].id \in records
    BY <1>1, Zenon DEF NothingMissing
  <2>1. i \in 0..n /\ i - 1 \in 0..n BY <1>1
  <2>2. records \subseteq u[i - 1] BY <1>4, <2>1
  <2>3. Shown(Investigations[i], presets, u[i - 1]) BY <2>2, MoreIsShown
  <2>4. Investigations[i].id \in u[i] BY <1>2, <2>3 DEF Noted
  <2> QED BY <1>5, <1>8, <2>1, <2>4
<1> QED BY <1>2, <1>6, <1>7, <1>8

LEMMA InvestigationsTable ==
    ASSUME NEW presets, NEW records \in SUBSET InvestigationIds
    PROVE  \E u \in [0..Len(Investigations) -> SUBSET InvestigationIds] :
              /\ u[0] = records
              /\ \A i \in 1..Len(Investigations) : u[i] = Pass(presets, u[i - 1])
              /\ house_investigations(presets, records) = u[Len(Investigations)]
<1> DEFINE n == Len(Investigations)
           S == SUBSET InvestigationIds
           step == [x \in S \X Nat |-> Pass(presets, x[1])]
           Table(u) == u = [i \in 0..n |-> IF i = 0 THEN records ELSE Pass(presets, u[i - 1])]
<1>1. n \in Nat BY HousingTables, Zenon
<1>2. IsStepOn(step, S)
  <2> SUFFICES ASSUME NEW x \in S \X Nat PROVE Pass(presets, x[1]) \in S
    BY Zenon DEF IsStepOn
  <2>1. x[1] \in SUBSET InvestigationIds OBVIOUS
  <2> QED BY <2>1, PassAdds
<1> HIDE DEF step, S
<1>3. PICK u : IsIteration(u, step, records, n, S)
  <2>1. records \in S BY DEF S
  <2> QED BY <1>1, <1>2, <2>1, IterationExists, Zenon
<1>4. /\ u \in [0..n -> S] /\ u[0] = records
      /\ \A i \in 1..n : u[i] = step[<<u[i - 1], i>>]
  BY <1>3, Zenon DEF IsIteration
<1>5. ASSUME NEW i \in 1..n PROVE u[i] = Pass(presets, u[i - 1])
  <2> DEFINE w == <<u[i - 1], i>>
  <2>1. w \in S \X Nat /\ w[1] = u[i - 1] BY <1>1, <1>4
  <2>2. u[i] = step[w] BY <1>4
  <2> HIDE DEF w
  <2>3. step[w] = Pass(presets, w[1]) BY <2>1, Zenon DEF step
  <2> QED BY <2>1, <2>2, <2>3, Zenon
<1>6. Table(u)
  <2>1. \A i \in 0..n : i = 0 \/ (i \in 1..n /\ i # 0) BY <1>1
  <2>2. \A i \in 0..n : u[i] = IF i = 0 THEN records ELSE Pass(presets, u[i - 1])
    BY <1>4, <1>5, <2>1, Zenon
  <2>3. u = [i \in 0..n |-> u[i]] BY <1>4, Zenon
  <2> QED BY <2>2, <2>3, Zenon
<1>7. ASSUME NEW v, Table(v) PROVE v[n] = u[n]
  <2>1. v[0] = records
    <3>1. 0 \in 0..n BY <1>1
    <3> QED BY <1>7, <3>1, Zenon
  <2>2. \A i \in 1..n : v[i] = Pass(presets, v[i - 1])
    <3>1. \A i \in 1..n : i \in 0..n /\ i # 0 BY <1>1
    <3> HIDE DEF n
    <3> QED BY <1>7, <3>1, Zenon
  <2> DEFINE C == {i \in 0..n : v[i] # u[i]}
  <2> SUFFICES ASSUME C # {} PROVE FALSE
    <3>1. n \in 0..n BY <1>1
    <3> QED BY <3>1
  <2>3. PICK i \in C : \A j \in C : i <= j
    <3>1. C \subseteq Nat BY <1>1
    <3> HIDE DEF C
    <3> QED BY <3>1, LeastNumber
  <2>4. i # 0 BY <1>4, <2>1
  <2>5. i \in 1..n /\ i - 1 \in 0..n /\ ~(i <= i - 1) BY <1>1, <2>4
  <2>6. v[i - 1] = u[i - 1]
    <3>1. i - 1 \notin C
      <4> HIDE DEF C
      <4> QED BY <2>3, <2>5
    <3> QED BY <2>5, <3>1
  <2>7. v[i] = u[i] BY <1>5, <2>2, <2>5, <2>6, Zenon
  <2> QED BY <2>7
<1>8. house_investigations(presets, records) = u[n]
  <2> DEFINE v == CHOOSE f : Table(f)
  <2>1. Table(v)
    <3> HIDE DEF Table
    <3> QED BY <1>6, Zenon
  <2>2. house_investigations(presets, records) = v[n] BY Zenon DEF house_investigations
  <2> HIDE DEF v, Table
  <2> QED BY <1>7, <2>1, <2>2, Zenon
<1> QED BY <1>4, <1>5, <1>8, Zenon DEF S

LEMMA FewIds == IsFiniteSet(InvestigationIds) /\ Cardinality(InvestigationIds) <= Len(Investigations)
<1> DEFINE n == Len(Investigations)
           f == [i \in 1..n |-> Investigations[i].id]
<1>1. n \in Nat /\ DOMAIN Investigations = 1..n BY HousingTables, Zenon
<1>2. IsFiniteSet(1..n) /\ Cardinality(1..n) = n
  <2>1. 1 \in Int /\ n \in Int BY <1>1
  <2> HIDE DEF n
  <2>2. IsFiniteSet(1..n) /\ Cardinality(1..n) = IF 1 > n THEN 0 ELSE n - 1 + 1
    BY <2>1, FS_Interval, Zenon
  <2> QED BY <1>1, <2>2
<1>3. f \in Surjection(1..n, InvestigationIds)
  <2> HIDE DEF n
  <2>1. \A i \in 1..n : Investigations[i].id \in InvestigationIds BY <1>1 DEF InvestigationIds
  <2>2. \A t \in InvestigationIds : \E i \in 1..n : f[i] = t BY <1>1 DEF InvestigationIds
  <2> QED BY <2>1, <2>2 DEF Surjection
<1> HIDE DEF f, n
<1>4. IsFiniteSet(InvestigationIds) /\ Cardinality(InvestigationIds) <= Cardinality(1..n) BY <1>2, <1>3, FS_Surjection
<1> QED BY <1>2, <1>4 DEF n

\* After a pass for each row nothing that is shown is missing.
LEMMA InvestigationsComplete ==
    ASSUME NEW presets, NEW records \in SUBSET InvestigationIds
    PROVE  /\ house_investigations(presets, records) \in SUBSET InvestigationIds
           /\ NothingMissing(presets, house_investigations(presets, records))
<1> DEFINE n == Len(Investigations)
<1>1. n \in Nat /\ DOMAIN Investigations = 1..n BY HousingTables, Zenon
<1>2. PICK u \in [0..n -> SUBSET InvestigationIds] :
              /\ u[0] = records
              /\ \A i \in 1..n : u[i] = Pass(presets, u[i - 1])
              /\ house_investigations(presets, records) = u[n]
  BY InvestigationsTable, Zenon
<1>3. IsFiniteSet(InvestigationIds) /\ Cardinality(InvestigationIds) <= n BY FewIds
<1> HIDE DEF n
<1>4. \A i \in 0..n : IsFiniteSet(u[i]) /\ Cardinality(u[i]) \in Nat
  BY <1>2, <1>3, FS_Subset, FS_CardinalityType, SMTT(30)
<1> DEFINE Enough(i) == NothingMissing(presets, u[i]) \/ Cardinality(u[i]) >= i
           C == {i \in 0..n : ~Enough(i)}
<1>5. \A i \in 0..n : Enough(i)
  <2> SUFFICES ASSUME C # {} PROVE FALSE OBVIOUS
  <2>1. PICK i \in C : \A j \in C : i <= j
    <3>1. C \subseteq Nat BY <1>1
    <3> HIDE DEF C
    <3> QED BY <3>1, LeastNumber
  <2>2. i # 0
    <3>1. 0 \in 0..n BY <1>1
    <3>2. Cardinality(u[0]) >= 0 BY <1>4, <3>1
    <3> QED BY <3>2
  <2>3. i \in 1..n /\ i - 1 \in 0..n /\ ~(i <= i - 1) /\ i \in 0..n BY <1>1, <2>2
  <2>4. Enough(i - 1)
    <3>1. i - 1 \notin C
      <4> HIDE DEF C
      <4> QED BY <2>1, <2>3
    <3> HIDE DEF Enough
    <3> QED BY <2>3, <3>1
  <2>5. u[i] = Pass(presets, u[i - 1]) /\ u[i - 1] \in SUBSET InvestigationIds BY <1>2, <2>3
  <2>6. /\ u[i - 1] \subseteq u[i]
        /\ u[i] = u[i - 1] <=> NothingMissing(presets, u[i - 1])
    BY <2>5, PassAdds
  <2>7. CASE NothingMissing(presets, u[i - 1])
    <3>1. u[i] = u[i - 1] BY <2>6, <2>7
    <3>2. Enough(i) BY <2>7, <3>1
    <3> HIDE DEF Enough
    <3> QED BY <3>2
  <2>8. CASE ~NothingMissing(presets, u[i - 1])
    <3>1. u[i] # u[i - 1] BY <2>6, <2>8
    <3>2. Cardinality(u[i - 1]) <= Cardinality(u[i])
          /\ Cardinality(u[i - 1]) # Cardinality(u[i])
      BY <1>4, <2>3, <2>6, <3>1, FS_Subset
    <3>3. Cardinality(u[i - 1]) >= i - 1 BY <2>4, <2>8
    <3>4. Cardinality(u[i - 1]) \in Nat /\ Cardinality(u[i]) \in Nat BY <1>4, <2>3
    <3>5. Cardinality(u[i]) >= i BY <2>3, <3>2, <3>3, <3>4
    <3>6. Enough(i) BY <3>5
    <3> HIDE DEF Enough
    <3> QED BY <3>6
  <2> QED BY <2>7, <2>8
<1>6. NothingMissing(presets, u[n])
  <2> SUFFICES ASSUME ~NothingMissing(presets, u[n]) PROVE FALSE OBVIOUS
  <2>1. n \in 0..n BY <1>1
  <2>2. Cardinality(u[n]) >= n BY <1>5, <2>1
  <2>3. u[n] \in SUBSET InvestigationIds /\ Cardinality(u[n]) \in Nat BY <1>2, <1>4, <2>1
  <2>4. Cardinality(u[n]) <= Cardinality(InvestigationIds) /\ Cardinality(InvestigationIds) \in Nat
    BY <1>3, <2>3, FS_Subset, FS_CardinalityType
  <2>5. Cardinality(InvestigationIds) = Cardinality(u[n]) BY <1>1, <1>3, <2>2, <2>3, <2>4
  <2>6. u[n] = InvestigationIds BY <1>3, <2>3, <2>5, FS_Subset
  <2> QED BY <2>6 DEF NothingMissing, InvestigationIds
<1> QED BY <1>1, <1>2, <1>6

-----------------------------------------------------------------------------
(* The invariant *)

\* A house that was begun, at a level of a lap that the laps before lead to.
HouseState(h) ==
    /\ h = [lap |-> h.lap, level |-> h.level, since |-> h.since, presets |-> h.presets,
            records |-> h.records, loan |-> h.loan]
    /\ h.lap \in DOMAIN LevelRule /\ FirstLap <= h.lap /\ FirstLap..h.lap \subseteq DOMAIN LevelRule
    /\ h.level \in DOMAIN LevelRule[h.lap]
    /\ h.since \in Nat /\ IsFiniteSet(DOMAIN h.presets)
    /\ h.records \in SUBSET InvestigationIds /\ h.loan.tools \in 0..OwnedTools

HouseKept ==
    /\ houseTime \in Nat /\ produced \in Nat /\ housingCount \in Nat /\ begun \in Nat
    /\ material \in Nat
    /\ ~Built => housingCount = 0 /\ produced = 0
    /\ Built =>
        /\ HouseState(house) /\ begun <= house.since /\ house.since <= houseTime
        /\ produced * ProductionInterval <= house.since - begun
        /\ housingCount = LevelsOfLaps(house.lap) + house.level - 1
        /\ housingCount > 0 => NothingMissing(house.presets, house.records)

CountsKept ==
    /\ countReceived \in Nat /\ countReceived <= housingCount
    /\ countPaid \in [CountRewards -> Nat]
    /\ \A c \in CountRewards : countPaid[c] = IF c <= countReceived THEN 1 ELSE 0

HousingInv == HouseKept /\ CountsKept

LEMMA HousingTypes == HousingInv => HousingTypeOK /\ HousePays
<1> SUFFICES ASSUME HousingInv PROVE HousingTypeOK /\ HousePays OBVIOUS
<1>1. HouseKept /\ CountsKept BY DEF HousingInv
<1>2. ASSUME Built
      PROVE  /\ HasLevel(house.lap, house.level) /\ house.since \in begun..houseTime
             /\ house.records \subseteq {Investigations[i].id : i \in DOMAIN Investigations}
             /\ house.loan.tools \in 0..OwnedTools
  BY <1>1, <1>2 DEF HouseKept, HouseState, HasLevel, InvestigationIds
<1>3. /\ {housingCount, countReceived, material, houseTime, produced} \subseteq Nat
      /\ countPaid \in [CountRewards -> Nat]
  BY <1>1 DEF HouseKept, CountsKept
<1>4. HousingTypeOK BY <1>2, <1>3, Zenon DEF HousingTypeOK
<1>5. ProductionPaidOnce BY <1>1 DEF HouseKept, ProductionPaidOnce
<1>6. CountsPaidOnce BY <1>1 DEF HouseKept, CountsKept, CountsPaidOnce
<1>7. RecordsComplete
  <2>1. housingCount > 0 => Built BY <1>1 DEF HouseKept
  <2> QED BY <1>1, <2>1 DEF HouseKept, RecordsComplete, NothingMissing
<1> QED BY <1>4, <1>5, <1>6, <1>7 DEF HousePays

LEMMA HousingBegins == HousingInit => HousingInv
<1> SUFFICES ASSUME HousingInit PROVE HousingInv OBVIOUS
<1>1. /\ ~Built /\ housingCount = 0 /\ produced = 0 /\ houseTime = 0 /\ begun = 0
      /\ material = BuildingMaterial /\ countReceived = 0
      /\ countPaid = [c \in CountRewards |-> 0]
  BY DEF HousingInit, Built
<1>2. HouseKept BY <1>1, HousingTables DEF HouseKept
<1>3. CountsKept
  <2>1. \A c \in CountRewards : ~(c <= 0) BY HousingTables
  <2> QED BY <1>1, <2>1 DEF CountsKept
<1> QED BY <1>2, <1>3 DEF HousingInv

\* The levels of the next lap begin where those of this one end.
LEMMA LapsAddUp ==
    /\ LevelsOfLaps(FirstLap) = 0
    /\ \A lap \in Nat : FirstLap <= lap /\ FirstLap..lap \subseteq DOMAIN LevelRule =>
         /\ LevelsOfLaps(lap) \in Int
         /\ LevelsOfLaps(lap + 1) = LevelsOfLaps(lap) + (Len(LevelRule[lap]) - 1)
<1> DEFINE f == [i \in Nat |-> Len(LevelRule[FirstLap + i - 1]) - 1]
<1>1. FirstLap \in Nat /\ \A lap \in DOMAIN LevelRule : Len(LevelRule[lap]) \in Nat \ {0}
  BY HousingTables
<1>2. ASSUME NEW lap \in Nat, FirstLap <= lap
      PROVE  LevelsOfLaps(lap) = SumFunction([i \in 1..(lap - FirstLap) |-> f[i]])
  <2> DEFINE n == lap - FirstLap
  <2>1. n \in Nat BY <1>1, <1>2
  <2>2. LevelsOfLaps(lap) = SumFunction([i \in 1..n |-> Len(LevelRule[FirstLap + i - 1]) - 1])
    BY Zenon DEF LevelsOfLaps
  <2> HIDE DEF n
  <2>3. [i \in 1..n |-> Len(LevelRule[FirstLap + i - 1]) - 1] = [i \in 1..n |-> f[i]]
    BY <2>1
  <2> HIDE DEF f
  <2> QED BY <2>2, <2>3, Zenon DEF n
<1>3. ASSUME NEW lap \in Nat, FirstLap <= lap, FirstLap..lap \subseteq DOMAIN LevelRule
      PROVE  /\ LevelsOfLaps(lap) \in Int
             /\ LevelsOfLaps(lap + 1) = LevelsOfLaps(lap) + (Len(LevelRule[lap]) - 1)
  <2> DEFINE n == lap - FirstLap
  <2>1. n \in Nat /\ FirstLap + (n + 1) - 1 = lap /\ (lap + 1) - FirstLap = n + 1
        /\ lap + 1 \in Nat /\ FirstLap <= lap + 1
    BY <1>1, <1>3
  <2>2. \A i \in 1..(n + 1) : FirstLap + i - 1 \in FirstLap..lap BY <1>1, <1>3, <2>1
  <2>3. \A i \in 1..(n + 1) : f[i] \in Int
    <3> TAKE i \in 1..(n + 1)
    <3>1. FirstLap + i - 1 \in DOMAIN LevelRule BY <1>3, <2>2
    <3>2. Len(LevelRule[FirstLap + i - 1]) \in Nat BY <1>1, <3>1
    <3>3. f[i] = Len(LevelRule[FirstLap + i - 1]) - 1 BY <2>1
    <3> HIDE DEF f
    <3> QED BY <3>2, <3>3
  <2>4. f[n + 1] = Len(LevelRule[lap]) - 1
    <3>1. n + 1 \in Nat BY <2>1
    <3>2. f[n + 1] = Len(LevelRule[FirstLap + (n + 1) - 1]) - 1 BY <3>1, Zenon
    <3> QED BY <2>1, <3>2, Zenon
  <2> HIDE DEF f
  <2>5. LevelsOfLaps(lap) = SumFunction([i \in 1..n |-> f[i]]) BY <1>2, <1>3, Zenon
  <2>6. LevelsOfLaps(lap + 1) = SumFunction([i \in 1..(n + 1) |-> f[i]])
    BY <1>2, <2>1, Zenon
  <2> HIDE DEF n
  <2>7. /\ SumFunction([i \in 1..n |-> f[i]]) \in Int
        /\ SumFunction([i \in 1..(n + 1) |-> f[i]]) = SumFunction([i \in 1..n |-> f[i]]) + f[n + 1]
    BY <2>1, <2>3, SumOfFirst
  <2> QED BY <2>4, <2>5, <2>6, <2>7, Zenon
<1>4. LevelsOfLaps(FirstLap) = 0
  <2>1. FirstLap <= FirstLap /\ FirstLap - FirstLap = 0 BY <1>1
  <2>2. LevelsOfLaps(FirstLap) = SumFunction([i \in 1..0 |-> f[i]])
    BY <1>1, <1>2, <2>1, Zenon
  <2> HIDE DEF f
  <2> QED BY <2>2, SumOfNone, Zenon
<1> QED BY <1>3, <1>4

\* What is produced is paid up to Since(house), which the next production begins at.
LEMMA ProductionPays ==
    ASSUME HouseKept, Built
    PROVE  /\ Production \in Nat /\ Since(house) \in Nat
           /\ begun <= Since(house) /\ Since(house) <= houseTime
           /\ (produced + Production) * ProductionInterval <= Since(house) - begun
<1> DEFINE n == ProductionInterval
           s == house.since
           e == IF Waited > ProductionDay THEN ProductionDay ELSE Waited
           k == Production
           r == e % n
           t == Since(house)
<1>1. /\ n \in Nat \ {0} /\ ProductionDay \in Nat /\ s \in Nat /\ begun \in Nat
      /\ houseTime \in Nat /\ produced \in Nat /\ begun <= s /\ s <= houseTime
      /\ produced * n <= s - begun
  BY HousingTables DEF HouseKept, HouseState
<1>2. Waited = houseTime - s BY DEF Waited
<1>3. Waited \in Nat /\ e \in Nat /\ e <= Waited BY <1>1, <1>2
<1>4. k = e \div n BY DEF Production
<1>5. t = IF k = 0 THEN s ELSE IF Waited > ProductionDay THEN houseTime ELSE s + k * n
  BY DEF Since
<1> HIDE DEF n, s, e, k, t
<1>6. k \in Nat /\ k * n <= e
  <2>1. e \in Int /\ e >= 0 BY <1>3
  <2>2. /\ e \div n \in Int /\ r \in 0..(n - 1) /\ e = (e \div n) * n + r /\ e \div n >= 0
    BY <1>1, <2>1, Division, Zenon
  <2>3. k \in Nat /\ e = k * n + r BY <1>4, <2>2
  <2> HIDE DEF r
  <2>4. k * n \in Int BY <1>1, <2>3
  <2> QED BY <1>1, <2>2, <2>3, <2>4
<1>7. (produced + k) * n = produced * n + k * n /\ produced * n \in Int /\ k * n \in Int
  BY <1>1, <1>6
<1>8. k = 0 => k * n = 0 BY <1>1
<1>9. t \in Nat /\ s <= t /\ t <= houseTime /\ k * n <= t - s
  <2>1. CASE k = 0 BY <1>1, <1>5, <1>8, <2>1
  <2>2. CASE k # 0 /\ Waited > ProductionDay
    <3>1. t = houseTime BY <1>5, <2>2
    <3> QED BY <1>1, <1>2, <1>3, <1>6, <1>7, <3>1
  <2>3. CASE k # 0 /\ ~(Waited > ProductionDay)
    <3>1. t = s + k * n BY <1>5, <2>3
    <3>2. k * n >= 0 BY <1>1, <1>6
    <3> QED BY <1>1, <1>2, <1>3, <1>6, <1>7, <3>1, <3>2
  <2> QED BY <2>1, <2>2, <2>3
<1>10. (produced + k) * n <= t - begun BY <1>1, <1>7, <1>9
<1>11. begun <= t BY <1>1, <1>9
<1> QED BY <1>6, <1>9, <1>10, <1>11 DEF k, t, n

\* A house at level one or more is not the house that was never begun.
LEMMA StateIsBuilt ==
    ASSUME NEW h, HouseState(h)
    PROVE  h # NoHouse /\ h.level \in Nat \ {0}
<1>1. h.level \in Nat \ {0} BY HousingTables DEF HouseState
<1>2. NoHouse.level = 0 BY DEF NoHouse
<1> QED BY <1>1, <1>2

-----------------------------------------------------------------------------
(* The steps *)

LEMMA StartKeeps ==
    ASSUME HousingInv, house_start
    PROVE  HousingInv'
<1>1. HouseKept /\ CountsKept BY DEF HousingInv
<1>2. /\ house' = [lap |-> FirstLap, level |-> 1, since |-> houseTime, presets |-> << >>,
                   records |-> {}, loan |-> NoLoan]
      /\ begun' = houseTime /\ ~Built
      /\ housingCount' = housingCount /\ countReceived' = countReceived /\ material' = material
      /\ houseTime' = houseTime /\ produced' = produced /\ countPaid' = countPaid
  BY DEF house_start
<1>3. /\ FirstLap \in DOMAIN LevelRule /\ FirstLap \in Nat /\ OwnedTools \in Nat
      /\ 1 \in DOMAIN LevelRule[FirstLap]
  BY HousingTables
<1>4. /\ house'.lap = FirstLap /\ house'.level = 1 /\ house'.since = houseTime
      /\ house'.presets = << >> /\ house'.records = {} /\ house'.loan = NoLoan
  BY <1>2
<1>5. HouseState(house')
  <2>1. FirstLap..FirstLap = {FirstLap} BY <1>3
  <2>2. IsFiniteSet(DOMAIN << >>)
    <3>1. DOMAIN << >> = {} OBVIOUS
    <3> QED BY <3>1, FS_EmptySet
  <2>3. house'.loan.tools \in 0..OwnedTools BY <1>3, <1>4 DEF NoLoan
  <2>4. houseTime \in Nat BY <1>1 DEF HouseKept
  <2>5. house' = [lap |-> house'.lap, level |-> house'.level, since |-> house'.since,
                  presets |-> house'.presets, records |-> house'.records, loan |-> house'.loan]
    BY <1>2, <1>4
  <2> QED BY <1>3, <1>4, <2>1, <2>2, <2>3, <2>4, <2>5 DEF HouseState
<1>6. housingCount = 0 /\ produced = 0 /\ houseTime \in Nat /\ material \in Nat
  BY <1>1, <1>2 DEF HouseKept
<1>7. LevelsOfLaps(FirstLap) = 0 BY LapsAddUp
<1>8. Built' BY <1>5, StateIsBuilt DEF Built
<1>9. produced * ProductionInterval <= houseTime - houseTime
  <2>1. ProductionInterval \in Nat BY HousingTables
  <2> QED BY <1>6, <2>1
<1>10. HouseKept'
  BY <1>2, <1>4, <1>5, <1>6, <1>7, <1>8, <1>9 DEF HouseKept
<1>11. CountsKept' BY <1>1, <1>2 DEF CountsKept
<1> QED BY <1>10, <1>11 DEF HousingInv

LEMMA CollectKeeps ==
    ASSUME HousingInv, reward_receive
    PROVE  HousingInv'
<1>1. HouseKept /\ CountsKept BY DEF HousingInv
<1>2. /\ Built /\ house' = [house EXCEPT !.since = Since(house)]
      /\ produced' = produced + Production
      /\ housingCount' = housingCount /\ countReceived' = countReceived /\ material' = material
      /\ houseTime' = houseTime /\ countPaid' = countPaid /\ begun' = begun
  BY DEF reward_receive
<1>3. /\ Production \in Nat /\ Since(house) \in Nat
      /\ begun <= Since(house) /\ Since(house) <= houseTime
      /\ (produced + Production) * ProductionInterval <= Since(house) - begun
  BY <1>1, <1>2, ProductionPays
<1>4. HouseState(house) BY <1>1, <1>2 DEF HouseKept
<1>5. house' = [lap |-> house.lap, level |-> house.level, since |-> Since(house),
                presets |-> house.presets, records |-> house.records, loan |-> house.loan]
  <2>1. house = [lap |-> house.lap, level |-> house.level, since |-> house.since,
                 presets |-> house.presets, records |-> house.records, loan |-> house.loan]
    BY <1>4 DEF HouseState
  <2> QED BY <1>2, <2>1
<1>6. /\ house'.lap = house.lap /\ house'.level = house.level /\ house'.since = Since(house)
      /\ house'.presets = house.presets /\ house'.records = house.records
      /\ house'.loan = house.loan
  BY <1>5
<1>7. HouseState(house') BY <1>3, <1>4, <1>5, <1>6 DEF HouseState
<1>8. Built' BY <1>7, StateIsBuilt DEF Built
<1>9. HouseKept'
  BY <1>1, <1>2, <1>3, <1>6, <1>7, <1>8 DEF HouseKept
<1>10. CountsKept' BY <1>1, <1>2 DEF CountsKept
<1> QED BY <1>9, <1>10 DEF HousingInv

LEMMA CostIsPrice ==
    ASSUME Built, NEW count \in Nat,
           \A i \in 1..count : HasLevel(house.lap, house.level + i)
    PROVE  Cost(count) \in Nat
<1> DEFINE S == 1..count
           f == [i \in S |-> LevelRow(i).cost]
<1>1. IsFiniteSet(S) BY FS_Interval
<1>2. ASSUME NEW i \in S PROVE f[i] \in Nat
  <2>1. HasLevel(house.lap, house.level + i) OBVIOUS
  <2>2. LevelRule[house.lap][house.level + i].cost \in Nat BY <2>1, HousingTables DEF HasLevel
  <2> QED BY <2>2 DEF LevelRow
<1>3. DOMAIN f = S /\ Cost(count) = SumFunction(f) BY DEF Cost
<1> HIDE DEF f, S
<1>4. SumFunction(f) = SumFunctionOnSet(f, S) BY <1>3, Zenon DEF SumFunction
<1> QED BY <1>1, <1>2, <1>3, <1>4, SumNat

LEMMA EnhanceKeeps ==
    ASSUME HousingInv, NEW count \in 1..MaxEnhance, NEW product, house_enhance(count, product)
    PROVE  HousingInv'
<1> DEFINE presets == NewPresets(count, product)
           records == house_investigations(presets, house.records)
<1>1. HouseKept /\ CountsKept BY DEF HousingInv
<1>2. /\ Built
      /\ \A i \in 1..count : HasLevel(house.lap, house.level + i)
      /\ Cost(count) <= material
      /\ house' = [house EXCEPT !.since = Since(house), !.level = @ + count,
                                !.presets = presets, !.records = records]
      /\ produced' = produced + Production
      /\ material' = material - Cost(count) /\ housingCount' = housingCount + count
      /\ countReceived' = countReceived /\ houseTime' = houseTime
      /\ countPaid' = countPaid /\ begun' = begun
  BY DEF house_enhance
<1>3. /\ Production \in Nat /\ Since(house) \in Nat
      /\ begun <= Since(house) /\ Since(house) <= houseTime
      /\ (produced + Production) * ProductionInterval <= Since(house) - begun
  BY <1>1, <1>2, ProductionPays
<1>4. HouseState(house) BY <1>1, <1>2 DEF HouseKept
<1>5. count \in Nat \ {0} OBVIOUS
<1>6. house.level \in Nat \ {0} /\ house.level + count \in DOMAIN LevelRule[house.lap]
  <2>1. count \in 1..count BY <1>5
  <2> QED BY <1>2, <1>4, <2>1, StateIsBuilt DEF HasLevel
<1>7. records \in SUBSET InvestigationIds /\ NothingMissing(presets, records)
  <2>1. house.records \in SUBSET InvestigationIds BY <1>4 DEF HouseState
  <2> QED BY <2>1, InvestigationsComplete
<1>8. IsFiniteSet(DOMAIN presets)
  <2> DEFINE L == {i \in 1..count : DOMAIN LevelRow(i).options # {}}
             D == {house.level + i : i \in L}
  <2>1. DOMAIN presets = D \union DOMAIN house.presets BY Zenon DEF NewPresets
  <2>2. D \subseteq (house.level + 1)..(house.level + count) BY <1>5, <1>6
  <2>3. house.level + 1 \in Int /\ house.level + count \in Int BY <1>5, <1>6
  <2> HIDE DEF D, presets
  <2>4. IsFiniteSet((house.level + 1)..(house.level + count)) BY <2>3, FS_Interval, Zenon
  <2>5. IsFiniteSet(D) BY <2>2, <2>4, FS_Subset
  <2>6. IsFiniteSet(DOMAIN house.presets) BY <1>4 DEF HouseState
  <2>7. IsFiniteSet(D \union DOMAIN house.presets) BY <2>5, <2>6, FS_Union, Zenon
  <2> QED BY <2>1, <2>7, Zenon
<1> HIDE DEF presets, records
<1>9. house' = [lap |-> house.lap, level |-> house.level + count, since |-> Since(house),
                presets |-> presets, records |-> records, loan |-> house.loan]
  <2>1. house = [lap |-> house.lap, level |-> house.level, since |-> house.since,
                 presets |-> house.presets, records |-> house.records, loan |-> house.loan]
    BY <1>4 DEF HouseState
  <2> QED BY <1>2, <2>1
<1>10. /\ house'.lap = house.lap /\ house'.level = house.level + count
       /\ house'.since = Since(house) /\ house'.presets = presets /\ house'.records = records
       /\ house'.loan = house.loan
  BY <1>9
<1>11. HouseState(house')
  BY <1>3, <1>4, <1>6, <1>7, <1>8, <1>9, <1>10 DEF HouseState
<1>12. Built' BY <1>11, StateIsBuilt DEF Built
<1>13. Cost(count) \in Nat BY <1>2, <1>5, CostIsPrice
<1>14. housingCount \in Nat /\ material \in Nat
       /\ housingCount = LevelsOfLaps(house.lap) + house.level - 1
  BY <1>1, <1>2 DEF HouseKept
<1>15. housingCount' = LevelsOfLaps(house'.lap) + house'.level - 1
  <2>1. house.lap \in Nat /\ FirstLap <= house.lap /\ FirstLap..house.lap \subseteq DOMAIN LevelRule
    BY <1>4, HousingTables DEF HouseState
  <2>2. LevelsOfLaps(house.lap) \in Int BY <2>1, LapsAddUp
  <2> QED BY <1>2, <1>5, <1>6, <1>10, <1>14, <2>2
<1>16. HouseKept'
  <2>1. /\ houseTime' \in Nat /\ produced' \in Nat /\ housingCount' \in Nat /\ begun' \in Nat
        /\ material' \in Nat
    BY <1>1, <1>2, <1>3, <1>5, <1>13, <1>14 DEF HouseKept
  <2> QED BY <1>2, <1>3, <1>7, <1>10, <1>11, <1>12, <1>15, <2>1 DEF HouseKept
<1>17. CountsKept'
  <2>1. countReceived' \in Nat /\ countReceived' <= housingCount'
    BY <1>1, <1>2, <1>5, <1>14 DEF CountsKept
  <2> QED BY <1>1, <1>2, <2>1 DEF CountsKept
<1> QED BY <1>16, <1>17 DEF HousingInv

\* With no presets left, what is shown still was shown before.
LEMMA LessIsShown ==
    ASSUME NEW i \in DOMAIN Investigations, NEW presets, IsFiniteSet(DOMAIN presets), NEW records,
           Shown(Investigations[i], << >>, records)
    PROVE  Shown(Investigations[i], presets, records)
<1> DEFINE spec == Investigations[i]
<1>1. \A m \in spec.missions : m.count \in Nat BY HousingTables
<1>2. DOMAIN << >> = {} OBVIOUS
<1>3. /\ spec.key_product = 0 /\ spec.requires \subseteq records
      /\ \A m \in spec.missions : Cardinality({j \in DOMAIN << >> : << >>[j].type = m.type}) >= m.count
  BY <1>2 DEF Shown
<1>4. ASSUME NEW m \in spec.missions
      PROVE  Cardinality({j \in DOMAIN presets : presets[j].type = m.type}) >= m.count
  <2> DEFINE P == {j \in DOMAIN presets : presets[j].type = m.type}
             E == {j \in DOMAIN << >> : << >>[j].type = m.type}
  <2>1. E = {} BY <1>2
  <2>2. Cardinality(E) >= m.count BY <1>3
  <2>3. P \subseteq DOMAIN presets OBVIOUS
  <2> HIDE DEF P, E
  <2>4. Cardinality(E) = 0 BY <2>1, FS_EmptySet
  <2>5. IsFiniteSet(P) BY <2>3, FS_Subset
  <2>6. Cardinality(P) \in Nat BY <2>5, FS_CardinalityType
  <2>7. Cardinality(P) >= m.count BY <1>1, <2>2, <2>4, <2>6
  <2> QED BY <2>7 DEF P
<1> QED BY <1>3, <1>4 DEF Shown

LEMMA ResetKeeps ==
    ASSUME HousingInv, house_reset
    PROVE  HousingInv'
<1>1. HouseKept /\ CountsKept BY DEF HousingInv
<1>2. /\ Built /\ \A lv \in DOMAIN LevelRule[house.lap] : lv <= house.level
      /\ HasLevel(house.lap + 1, 1)
      /\ house' = [house EXCEPT !.lap = @ + 1, !.level = 1, !.presets = << >>]
      /\ produced' = produced /\ housingCount' = housingCount /\ countReceived' = countReceived
      /\ material' = material /\ houseTime' = houseTime /\ countPaid' = countPaid
      /\ begun' = begun
  BY DEF house_reset
<1>3. HouseState(house) BY <1>1, <1>2 DEF HouseKept
<1>4. house' = [lap |-> house.lap + 1, level |-> 1, since |-> house.since,
                presets |-> << >>, records |-> house.records, loan |-> house.loan]
  <2>1. house = [lap |-> house.lap, level |-> house.level, since |-> house.since,
                 presets |-> house.presets, records |-> house.records, loan |-> house.loan]
    BY <1>3 DEF HouseState
  <2> QED BY <1>2, <2>1
<1>5. /\ house'.lap = house.lap + 1 /\ house'.level = 1 /\ house'.since = house.since
      /\ house'.presets = << >> /\ house'.records = house.records /\ house'.loan = house.loan
  BY <1>4
<1>6. /\ house.lap \in Nat /\ FirstLap \in Nat /\ FirstLap <= house.lap
      /\ FirstLap..house.lap \subseteq DOMAIN LevelRule /\ house.lap \in DOMAIN LevelRule
      /\ house.level \in DOMAIN LevelRule[house.lap]
  BY <1>3, HousingTables DEF HouseState
<1>7. house.level = Len(LevelRule[house.lap])
  <2>1. /\ Len(LevelRule[house.lap]) \in Nat \ {0}
        /\ DOMAIN LevelRule[house.lap] = 1..Len(LevelRule[house.lap])
    BY <1>6, HousingTables
  <2>2. Len(LevelRule[house.lap]) \in DOMAIN LevelRule[house.lap] BY <2>1
  <2>3. Len(LevelRule[house.lap]) <= house.level BY <1>2, <2>2
  <2> QED BY <1>6, <2>1, <2>3
<1>8. HouseState(house')
  <2>1. FirstLap..(house.lap + 1) \subseteq DOMAIN LevelRule /\ house.lap + 1 \in DOMAIN LevelRule
        /\ 1 \in DOMAIN LevelRule[house.lap + 1]
    <3>1. house.lap + 1 \in DOMAIN LevelRule /\ 1 \in DOMAIN LevelRule[house.lap + 1]
      BY <1>2 DEF HasLevel
    <3>2. \A l \in FirstLap..(house.lap + 1) : l \in FirstLap..house.lap \/ l = house.lap + 1
      BY <1>6
    <3> QED BY <1>6, <3>1, <3>2
  <2>2. IsFiniteSet(DOMAIN << >>)
    <3>1. DOMAIN << >> = {} OBVIOUS
    <3> QED BY <3>1, FS_EmptySet
  <2>3. FirstLap <= house.lap + 1 BY <1>6
  <2> QED BY <1>3, <1>4, <1>5, <2>1, <2>2, <2>3 DEF HouseState
<1>9. Built' BY <1>8, StateIsBuilt DEF Built
<1>10. housingCount' = LevelsOfLaps(house'.lap) + house'.level - 1
  <2>1. /\ LevelsOfLaps(house.lap) \in Int
        /\ LevelsOfLaps(house.lap + 1)
             = LevelsOfLaps(house.lap) + (Len(LevelRule[house.lap]) - 1)
    BY <1>6, LapsAddUp
  <2>2. Len(LevelRule[house.lap]) \in Nat BY <1>6, HousingTables
  <2>3. housingCount = LevelsOfLaps(house.lap) + house.level - 1 BY <1>1, <1>2 DEF HouseKept
  <2> QED BY <1>2, <1>5, <1>7, <2>1, <2>2, <2>3
<1>11. housingCount > 0 => NothingMissing(<< >>, house.records)
  <2>1. housingCount > 0 => NothingMissing(house.presets, house.records) BY <1>1, <1>2 DEF HouseKept
  <2>2. IsFiniteSet(DOMAIN house.presets) BY <1>3 DEF HouseState
  <2> QED BY <2>1, <2>2, LessIsShown DEF NothingMissing
<1>12. HouseKept'
  <2>1. /\ houseTime \in Nat /\ produced \in Nat /\ housingCount \in Nat /\ begun \in Nat
        /\ material \in Nat /\ begun <= house.since /\ house.since <= houseTime
        /\ produced * ProductionInterval <= house.since - begun
    BY <1>1, <1>2 DEF HouseKept
  <2> QED BY <1>2, <1>5, <1>8, <1>9, <1>10, <1>11, <2>1 DEF HouseKept
<1>13. CountsKept' BY <1>1, <1>2 DEF CountsKept
<1> QED BY <1>12, <1>13 DEF HousingInv

\* What the reward for a count pays: all that were reached since the last.
LEMMA CountsPayOnce ==
    ASSUME HousingInv, house_count_reward_receive
    PROVE  HousingInv'
<1> DEFINE r == countReceived'
<1>1. HouseKept /\ CountsKept BY DEF HousingInv
<1>2. /\ Built /\ Claimable # {}
      /\ r = CHOOSE c \in Claimable : \A d \in Claimable : d <= c
      /\ countPaid' = [c \in CountRewards |-> countPaid[c] + IF c \in Claimable THEN 1 ELSE 0]
      /\ house' = house /\ housingCount' = housingCount /\ material' = material
      /\ houseTime' = houseTime /\ produced' = produced /\ begun' = begun
  BY DEF house_count_reward_receive
<1>3. /\ countReceived \in Nat /\ housingCount \in Nat /\ countReceived <= housingCount
      /\ CountRewards \subseteq Nat
      /\ \A c \in CountRewards : countPaid[c] = IF c <= countReceived THEN 1 ELSE 0
  BY <1>1, HousingTables DEF HouseKept, CountsKept
<1>4. \A c \in CountRewards : c \in Claimable <=> countReceived < c /\ c <= housingCount
  BY DEF Claimable
<1>5. Claimable \subseteq CountRewards /\ Claimable \subseteq 0..housingCount
  <2>1. Claimable \subseteq CountRewards BY DEF Claimable
  <2>2. \A c \in Claimable : c \in 0..housingCount BY <1>3, <1>4, <2>1
  <2> QED BY <2>1, <2>2
<1>6. r \in Claimable /\ \A d \in Claimable : d <= r
  <2>1. IsFiniteSet(Claimable)
    <3>1. IsFiniteSet(0..housingCount) BY <1>3, FS_Interval
    <3> QED BY <1>5, <3>1, FS_Subset
  <2>2. Claimable \subseteq Nat BY <1>3, <1>5
  <2>3. \E c \in Claimable : \A d \in Claimable : d <= c BY <1>2, <2>1, <2>2, GreatestNumber
  <2> HIDE DEF r
  <2> QED BY <1>2, <2>3, Zenon
<1>7. r \in Nat /\ countReceived < r /\ r <= housingCount BY <1>3, <1>4, <1>5, <1>6
<1> HIDE DEF r
<1>8. ASSUME NEW c \in CountRewards
      PROVE  /\ countPaid'[c] = IF c <= r THEN 1 ELSE 0
             /\ countPaid'[c] \in Nat
  <2>1. countPaid'[c] = countPaid[c] + IF c \in Claimable THEN 1 ELSE 0 BY <1>2
  <2>2. c \in Nat /\ countPaid[c] = IF c <= countReceived THEN 1 ELSE 0 BY <1>3
  <2>3. CASE c \in Claimable
    <3>1. c <= r /\ ~(c <= countReceived) BY <1>3, <1>4, <1>6, <2>2, <2>3
    <3> QED BY <2>1, <2>2, <2>3, <3>1
  <2>4. CASE c \notin Claimable
    <3>1. c <= r <=> c <= countReceived BY <1>3, <1>4, <1>7, <2>2, <2>4
    <3> QED BY <2>1, <2>2, <2>4, <3>1
  <2> QED BY <2>3, <2>4
<1>9. countPaid' \in [CountRewards -> Nat]
  <2>1. countPaid' = [c \in CountRewards |-> countPaid'[c]] BY <1>2, Zenon
  <2> QED BY <1>8, <2>1
<1>10. CountsKept'
  <2>1. countReceived' \in Nat /\ countReceived' <= housingCount' BY <1>2, <1>7 DEF r
  <2>2. \A c \in CountRewards : countPaid'[c] = IF c <= countReceived' THEN 1 ELSE 0
    BY <1>8 DEF r
  <2> QED BY <1>9, <2>1, <2>2 DEF CountsKept
<1>11. HouseKept' BY <1>1, <1>2 DEF HouseKept, Built
<1> QED BY <1>10, <1>11 DEF HousingInv

\* A loan is of tools the account has, and changes nothing else.
LEMMA LoansKeep ==
    ASSUME HousingInv, NEW loan, loan.tools \in 0..OwnedTools, Built,
           house' = [house EXCEPT !.loan = loan],
           UNCHANGED <<housingCount, countReceived, material, houseTime, produced, countPaid, begun>>
    PROVE  HousingInv'
<1>1. HouseKept /\ CountsKept BY DEF HousingInv
<1>2. HouseState(house) BY <1>1 DEF HouseKept
<1>3. house' = [lap |-> house.lap, level |-> house.level, since |-> house.since,
                presets |-> house.presets, records |-> house.records, loan |-> loan]
  <2>1. house = [lap |-> house.lap, level |-> house.level, since |-> house.since,
                 presets |-> house.presets, records |-> house.records, loan |-> house.loan]
    BY <1>2 DEF HouseState
  <2> QED BY <2>1
<1>4. /\ house'.lap = house.lap /\ house'.level = house.level /\ house'.since = house.since
      /\ house'.presets = house.presets /\ house'.records = house.records /\ house'.loan = loan
  BY <1>3
<1>5. HouseState(house') BY <1>2, <1>3, <1>4 DEF HouseState
<1>6. Built' BY <1>5, StateIsBuilt DEF Built
<1>7. HouseKept' BY <1>1, <1>4, <1>5, <1>6 DEF HouseKept
<1>8. CountsKept' BY <1>1 DEF CountsKept
<1> QED BY <1>7, <1>8 DEF HousingInv

LEMMA HousingStep == HousingInv /\ [HousingNext]_housingVars => HousingInv'
<1> SUFFICES ASSUME HousingInv, [HousingNext]_housingVars PROVE HousingInv' OBVIOUS
<1>1. ASSUME NEW count \in 1..MaxEnhance, NEW product \in Products, house_enhance(count, product)
      PROVE  HousingInv'
  BY <1>1, EnhanceKeeps
<1>2. ASSUME NEW lent \in 1..OwnedTools, rent(lent) PROVE HousingInv'
  <2> DEFINE loan == [tools |-> lent, end |-> houseTime + LoanSeconds]
  <2>1. /\ Built /\ house' = [house EXCEPT !.loan = loan]
        /\ UNCHANGED <<housingCount, countReceived, material, houseTime, produced, countPaid, begun>>
    BY <1>2 DEF rent
  <2>2. OwnedTools \in Nat BY HousingTables, Zenon
  <2>3. loan.tools \in 0..OwnedTools BY <2>2
  <2> HIDE DEF loan
  <2> QED BY <2>1, <2>3, LoansKeep
<1>3. CASE rental_reward_receive
  <2>1. /\ Built /\ house' = [house EXCEPT !.loan = NoLoan]
        /\ UNCHANGED <<housingCount, countReceived, material, houseTime, produced, countPaid, begun>>
    BY <1>3 DEF rental_reward_receive
  <2>2. OwnedTools \in Nat BY HousingTables, Zenon
  <2>3. NoLoan.tools \in 0..OwnedTools BY <2>2 DEF NoLoan
  <2> QED BY <2>1, <2>3, LoansKeep
<1>4. CASE HouseTick
  <2>1. HouseKept /\ CountsKept BY DEF HousingInv
  <2>2. /\ houseTime' = houseTime + 1
        /\ UNCHANGED <<house, housingCount, countReceived, material, produced, countPaid, begun>>
    BY <1>4 DEF HouseTick
  <2>3. houseTime \in Nat BY <2>1 DEF HouseKept
  <2>4. Built => house.since \in Nat BY <2>1 DEF HouseKept, HouseState
  <2>5. HouseKept' BY <2>1, <2>2, <2>3, <2>4 DEF HouseKept, Built
  <2>6. CountsKept' BY <2>1, <2>2 DEF CountsKept
  <2> QED BY <2>5, <2>6 DEF HousingInv
<1>5. CASE UNCHANGED housingVars
  <2>1. HouseKept /\ CountsKept BY DEF HousingInv
  <2>2. HouseKept' BY <1>5, <2>1 DEF HouseKept, Built, housingVars
  <2>3. CountsKept' BY <1>5, <2>1 DEF CountsKept, housingVars
  <2> QED BY <2>2, <2>3 DEF HousingInv
<1> QED
  BY <1>1, <1>2, <1>3, <1>4, <1>5, StartKeeps, CollectKeeps, ResetKeeps, CountsPayOnce
  DEF HousingNext

\* A house pays for time and for levels once, and records what it shows.
THEOREM HousePaysOnce == HousingSpec => []HousePays
<1>1. HousingSpec => []HousingInv BY HousingBegins, HousingStep, PTL DEF HousingSpec
<1>2. HousingInv => HousePays BY HousingTypes
<1> QED BY <1>1, <1>2, PTL

-----------------------------------------------------------------------------
(* The town: dishes, presents and streets, for any tables.                 *)
(*                                                                         *)
(* What is served between two times is a sum over the serving times, which *)
(* adds up over the times in between; closeness grows with the points, so  *)
(* the rows that were received stay the rows up to the closeness reached.  *)

LEMMA TownTables ==
    /\ Len(Phases) \in Nat \ {0} /\ DOMAIN Phases = 1..Len(Phases) /\ IsFiniteSet(Triggers)
    /\ \A i \in DOMAIN Phases : Phases[i] \subseteq Triggers /\ IsFiniteSet(Phases[i])
    /\ IsFiniteSet(Tools) /\ \A g \in Tools : GiftPoints[g] \in Nat \ {0}
    /\ Len(Closeness) \in Nat \ {0} /\ DOMAIN Closeness = 1..Len(Closeness)
    /\ \A i \in DOMAIN Closeness :
         Closeness[i].closeness \in Nat \ {0} /\ Closeness[i].cost \in Nat
    /\ \A i, j \in DOMAIN Closeness : i < j => Closeness[i].closeness < Closeness[j].closeness
    /\ Last(Closeness) = Closeness[Len(Closeness)] /\ Last(Closeness).cost \in Nat \ {0}
    /\ TownDay \in Nat \ {0} /\ IsFiniteSet(ServingTimes) /\ ServingTimes \subseteq Nat
    /\ DishCap \in Nat /\ FirstDishes \in 0..DishCap /\ MaxIdleness \in Nat
<1>1. /\ Phases \in Seq(SUBSET Triggers) /\ Len(Phases) > 0 /\ IsFiniteSet(Triggers)
      /\ IsFiniteSet(Tools) /\ \A g \in Tools : GiftPoints[g] \in Nat \ {0}
      /\ Closeness \in Seq([closeness : Nat \ {0}, cost : Nat])
      /\ Len(Closeness) > 0 /\ Last(Closeness).cost > 0
  BY TownAssumption, Zenon
<1>2. /\ \A i, j \in DOMAIN Closeness : i < j => Closeness[i].closeness < Closeness[j].closeness
      /\ TownDay \in Nat \ {0} /\ IsFiniteSet(ServingTimes)
      /\ ServingTimes \subseteq 0..(TownDay - 1)
      /\ FirstDishes \in 0..Cardinality(ServingTimes) /\ MaxIdleness \in Nat
  BY TownAssumption, Zenon
<1>3. /\ Len(Phases) \in Nat \ {0} /\ DOMAIN Phases = 1..Len(Phases)
      /\ \A i \in DOMAIN Phases : Phases[i] \subseteq Triggers
  BY <1>1
<1>4. \A i \in DOMAIN Phases : IsFiniteSet(Phases[i]) BY <1>1, <1>3, FS_Subset
<1>5. /\ Len(Closeness) \in Nat \ {0} /\ DOMAIN Closeness = 1..Len(Closeness)
      /\ \A i \in DOMAIN Closeness :
           Closeness[i].closeness \in Nat \ {0} /\ Closeness[i].cost \in Nat
  <2> DEFINE R == [closeness : Nat \ {0}, cost : Nat]
  <2>1. Closeness \in Seq(R) /\ Len(Closeness) > 0 BY <1>1
  <2> HIDE DEF R
  <2>2. /\ Len(Closeness) \in Nat \ {0} /\ DOMAIN Closeness = 1..Len(Closeness)
        /\ \A i \in DOMAIN Closeness : Closeness[i] \in R
    BY <2>1
  <2> QED BY <2>2 DEF R
<1>6. Last(Closeness) = Closeness[Len(Closeness)] BY Zenon DEF Last
<1>7. Last(Closeness).cost \in Nat \ {0} BY <1>1, <1>5, <1>6
<1>8. DishCap \in Nat /\ FirstDishes \in 0..DishCap
  BY <1>2, FS_CardinalityType, Zenon DEF DishCap
<1>9. ServingTimes \subseteq Nat BY <1>2
<1> QED BY <1>1, <1>2, <1>3, <1>4, <1>5, <1>6, <1>7, <1>8, <1>9, Zenon

-----------------------------------------------------------------------------
(* Presents *)

LEMMA ThresholdStarts ==
    /\ Threshold(0) = 0 /\ Threshold(1) = Closeness[1].cost
    /\ \A n \in 0..Len(Closeness) : Threshold(n) \in Nat
<1> DEFINE f == [i \in Nat |-> Closeness[i].cost]
<1>1. ASSUME NEW n \in 0..Len(Closeness) PROVE Threshold(n) = SumFunction([i \in 1..n |-> f[i]])
  <2>1. [i \in 1..n |-> f[i]] = [i \in 1..n |-> Closeness[i].cost] OBVIOUS
  <2> HIDE DEF f
  <2> QED BY <2>1, Zenon DEF Threshold
<1>2. Len(Closeness) \in Nat \ {0} BY TownTables, Zenon
<1>3. \A i \in 1..Len(Closeness) : f[i] = Closeness[i].cost /\ f[i] \in Nat
  <2>1. \A i \in 1..Len(Closeness) : Closeness[i].cost \in Nat BY TownTables, Zenon
  <2> QED BY <2>1
<1> HIDE DEF f
<1>4. SumFunction([i \in 1..0 |-> f[i]]) = 0 BY SumOfNone
<1>5. Threshold(0) = 0
  <2>1. 0 \in 0..Len(Closeness) BY <1>2
  <2> QED BY <1>1, <1>4, <2>1, Zenon
<1>6. SumFunction([i \in 1..(0 + 1) |-> f[i]]) = SumFunction([i \in 1..0 |-> f[i]]) + f[0 + 1]
  <2>1. \A i \in 1..(0 + 1) : f[i] \in Int BY <1>2, <1>3
  <2> HIDE <1>3
  <2> QED BY <2>1, SumOfFirst
<1>7. Threshold(1) = f[1]
  <2>1. 1 \in 0..Len(Closeness) /\ 1 \in 1..Len(Closeness) BY <1>2
  <2>2. 0 + 1 = 1 /\ f[1] \in Nat BY <2>1, <1>3
  <2>3. Threshold(1) = SumFunction([i \in 1..1 |-> f[i]]) BY <1>1, <2>1, Zenon
  <2> QED BY <2>2, <2>3, <1>4, <1>6
<1>8. ASSUME NEW n \in 0..Len(Closeness) PROVE Threshold(n) \in Nat
  <2> DEFINE S == 1..n
             g == [i \in S |-> Closeness[i].cost]
  <2>1. IsFiniteSet(S) BY FS_Interval
  <2>2. DOMAIN g = S /\ \A i \in S : g[i] \in Nat BY TownTables, <1>2
  <2>3. Threshold(n) = SumFunction(g) BY Zenon DEF Threshold
  <2> HIDE DEF S, g
  <2>4. SumFunction(g) = SumFunctionOnSet(g, S) BY <2>2, Zenon DEF SumFunction
  <2> QED BY <2>1, <2>2, <2>3, <2>4, SumNat
<1> QED BY <1>2, <1>3, <1>5, <1>7, <1>8

\* The last threshold that is passed.
LEMMA ClimbedIsLast ==
    ASSUME NEW total \in Nat
    PROVE  /\ Climbed(total) \in 0..Len(Closeness) /\ Threshold(Climbed(total)) <= total
           /\ \A n \in 0..Len(Closeness) : Threshold(n) <= total => n <= Climbed(total)
<1> DEFINE S == {n \in 0..Len(Closeness) : Threshold(n) <= total}
<1>1. Len(Closeness) \in Nat \ {0} BY TownTables, Zenon
<1>2. 0 \in S /\ S \subseteq Nat BY <1>1, ThresholdStarts
<1>3. IsFiniteSet(S)
  <2>1. IsFiniteSet(0..Len(Closeness)) BY <1>1, FS_Interval
  <2> QED BY <2>1, FS_Subset
<1>4. Climbed(total) = CHOOSE x \in S : \A y \in S : x >= y BY Zenon DEF Climbed, Max
<1>5. \E x \in S : \A y \in S : x >= y
  <2> HIDE DEF S
  <2>1. PICK x \in S : \A y \in S : y <= x BY <1>2, <1>3, GreatestNumber
  <2>2. \A y \in S : x >= y BY <2>1, <1>2
  <2> QED BY <2>2
<1>6. Climbed(total) \in S /\ \A y \in S : Climbed(total) >= y
  <2> HIDE DEF S
  <2> QED BY <1>4, <1>5, Zenon
<1> QED BY <1>1, <1>6

\* More points do not mean less closeness.
LEMMA ClosenessGrows ==
    ASSUME NEW small \in Nat, NEW large \in Nat, small <= large
    PROVE  /\ ClosenessOf(small) \in Nat /\ ClosenessOf(large) \in Nat
           /\ ClosenessOf(small) <= ClosenessOf(large)
<1> DEFINE last == Last(Closeness).closeness
           c == Last(Closeness).cost
           top == Len(Closeness)
           Of(n) == IF n = 0 THEN 1 ELSE Closeness[n].closeness
           m == Climbed(small)
           n == Climbed(large)
           d == (small - Threshold(m)) \div c
           e == (large - Threshold(n)) \div c
<1>1. /\ ClosenessOf(small) = IF Of(m) = last THEN Of(m) + d ELSE Of(m)
      /\ ClosenessOf(large) = IF Of(n) = last THEN Of(n) + e ELSE Of(n)
  BY DEF ClosenessOf
<1>2. top \in Nat \ {0} /\ c \in Nat \ {0} /\ last = Closeness[top].closeness
  BY TownTables, Zenon
<1>3. /\ \A i \in 1..top : Closeness[i].closeness \in Nat \ {0}
      /\ \A i, j \in 1..top : i < j => Closeness[i].closeness < Closeness[j].closeness
  BY TownTables, Zenon
<1>4. /\ \A i \in 0..top : Of(i) \in Nat \ {0} /\ Of(i) <= last
      /\ \A i \in 1..top : Of(i) = last => i = top
      /\ \A i, j \in 0..top : i <= j => Of(i) <= Of(j)
      /\ Of(0) = last => top = 1
  <2> HIDE DEF last, top, c, m, n, d, e
  <2>1. \A i \in 1..top : Of(i) = Closeness[i].closeness
    <3>1. \A i \in 1..top : i # 0 BY <1>2
    <3> QED BY <3>1, Zenon
  <2>2. Of(0) = 1 OBVIOUS
  <2> HIDE DEF Of
  <2>3. \A i \in 1..top : Of(i) \in Nat \ {0} /\ Of(i) <= last BY <1>2, <1>3, <2>1
  <2>4. \A i \in 1..top : Of(i) = last => i = top BY <1>2, <1>3, <2>1
  <2>5. ASSUME Of(0) = last, top # 1 PROVE FALSE
    <3>1. 1 \in 1..top /\ top \in 1..top /\ 1 < top BY <1>2, <2>5
    <3>2. Closeness[1].closeness < last /\ Closeness[1].closeness \in Nat \ {0} BY <1>2, <1>3, <3>1
    <3> QED BY <2>2, <2>5, <3>2
  <2>6. \A i, j \in 0..top : i <= j => Of(i) <= Of(j)
    <3>1. \A i, j \in 1..top : i <= j => Of(i) <= Of(j) BY <1>3, <2>1
    <3> QED BY <1>2, <2>2, <2>3, <3>1
  <2>7. \A i \in 0..top : Of(i) \in Nat \ {0} /\ Of(i) <= last
    <3>1. 1 <= last
      <4>1. top \in 1..top BY <1>2
      <4> QED BY <1>2, <1>3, <4>1
    <3>2. \A i \in 0..top : i = 0 \/ i \in 1..top BY <1>2
    <3> QED BY <2>2, <2>3, <3>1, <3>2
  <2> QED BY <2>4, <2>5, <2>6, <2>7, Zenon
<1>5. /\ m \in 0..top /\ Threshold(m) <= small /\ Threshold(m) \in Nat
      /\ n \in 0..top /\ Threshold(n) <= large /\ Threshold(n) \in Nat
  BY ClimbedIsLast, ThresholdStarts
<1>6. m <= n
  <2>1. Threshold(m) <= large BY <1>5
  <2> QED BY <1>5, <2>1, ClimbedIsLast
<1>7. d \in Nat /\ e \in Nat
  <2>1. /\ small - Threshold(m) \in Int /\ small - Threshold(m) >= 0
        /\ large - Threshold(n) \in Int /\ large - Threshold(n) >= 0
    BY <1>5
  <2> HIDE DEF c, m, n
  <2>2. d \in Int /\ d >= 0 /\ e \in Int /\ e >= 0 BY <1>2, <2>1, Division, Zenon
  <2> QED BY <2>2
<1>8. m = n => d <= e
  <2> SUFFICES ASSUME m = n PROVE d <= e OBVIOUS
  <2>1. /\ small - Threshold(m) \in Int /\ large - Threshold(n) \in Int
        /\ small - Threshold(m) <= large - Threshold(n)
    BY <1>5
  <2> HIDE DEF c, m, n
  <2> QED BY <1>2, <2>1, DivisionOrder, Zenon
<1>9. ASSUME m < n, Of(m) = last PROVE d = 0
  <2>1. m = 0 /\ top = 1
    <3> HIDE DEF Of, m, n, last, top
    <3> QED BY <1>2, <1>4, <1>5, <1>9
  <2>2. Threshold(1) = c /\ ~(Threshold(1) <= small)
    <3>1. 1 \in 0..Len(Closeness) BY <2>1
    <3>2. Threshold(1) <= small => 1 <= m BY <3>1, ClimbedIsLast
    <3>3. Threshold(1) = Closeness[1].cost BY ThresholdStarts
    <3>4. c = Closeness[top].cost BY TownTables, Zenon
    <3> QED BY <2>1, <3>2, <3>3, <3>4
  <2>3. small - Threshold(m) = small BY <2>1, ThresholdStarts
  <2>4. small = 0 * c + small /\ small \in 0..(c - 1) BY <1>2, <2>2
  <2>5. d = small \div c BY <2>3
  <2>6. 0 \in Int /\ small \in Int OBVIOUS
  <2> HIDE DEF c, d
  <2> QED BY <1>2, <2>4, <2>5, <2>6, DivisionUnique
<1> HIDE DEF Of, d, e, m, n, last, top, c
<1>10. Of(m) \in Nat /\ Of(n) \in Nat /\ Of(m) <= Of(n) /\ Of(n) <= last
  <2>1. m \in 0..top /\ n \in 0..top BY <1>5
  <2>2. Of(m) \in Nat \ {0} /\ Of(n) \in Nat \ {0} /\ Of(n) <= last BY <1>4, <2>1, Zenon
  <2>3. Of(m) <= Of(n) BY <1>4, <1>6, <2>1, Zenon
  <2> QED BY <2>2, <2>3
<1> QED BY <1>1, <1>5, <1>6, <1>7, <1>8, <1>9, <1>10

-----------------------------------------------------------------------------
(* Dishes *)

\* What is served adds up over the times in between.
LEMMA ServedAdds ==
    ASSUME NEW from \in Nat, NEW until \in Nat, NEW to \in Nat, from <= until, until <= to
    PROVE  /\ Served(from, until) \in Nat /\ Served(until, to) \in Nat
           /\ Served(from, to) = Served(from, until) + Served(until, to)
<1> DEFINE T == ServingTimes
           Of(t, x) == (x - t) \div TownDay
           f == [t \in T |-> Of(t, until) - Of(t, from)]
           g == [t \in T |-> Of(t, to) - Of(t, until)]
           h == [t \in T |-> Of(t, to) - Of(t, from)]
<1>1. TownDay \in Nat \ {0} /\ IsFiniteSet(T) /\ T \subseteq Nat BY TownTables, Zenon
<1>2. Served(from, until) = SumFunction(f) /\ Served(until, to) = SumFunction(g)
      /\ Served(from, to) = SumFunction(h)
  BY Zenon DEF Served
<1>3. ASSUME NEW t \in T
      PROVE  /\ Of(t, from) \in Int /\ Of(t, until) \in Int /\ Of(t, to) \in Int
             /\ Of(t, from) <= Of(t, until) /\ Of(t, until) <= Of(t, to)
  <2>1. /\ from - t \in Int /\ until - t \in Int /\ to - t \in Int
        /\ from - t <= until - t /\ until - t <= to - t
    BY <1>1
  <2>2. /\ (from - t) \div TownDay \in Int /\ (until - t) \div TownDay \in Int
        /\ (to - t) \div TownDay \in Int
    BY <1>1, <2>1, Division, Zenon
  <2>3. /\ (from - t) \div TownDay <= (until - t) \div TownDay
        /\ (until - t) \div TownDay <= (to - t) \div TownDay
    BY <1>1, <2>1, DivisionOrder, Zenon
  <2> QED BY <2>2, <2>3
<1> HIDE DEF Of
<1>4. \A t \in T : f[t] \in Nat /\ g[t] \in Nat /\ h[t] = f[t] + g[t]
  <2> TAKE t \in T
  <2>1. /\ f[t] = Of(t, until) - Of(t, from) /\ g[t] = Of(t, to) - Of(t, until)
        /\ h[t] = Of(t, to) - Of(t, from)
    OBVIOUS
  <2> HIDE DEF f, g, h
  <2> QED BY <1>3, <2>1
<1>5. DOMAIN f = T /\ DOMAIN g = T /\ DOMAIN h = T OBVIOUS
<1> HIDE DEF f, g, h, T
<1>6. SumFunction(f) = SumFunctionOnSet(f, T) /\ SumFunction(g) = SumFunctionOnSet(g, T)
      /\ SumFunction(h) = SumFunctionOnSet(h, T)
  BY <1>5, Zenon DEF SumFunction
<1>7. SumFunctionOnSet(f, T) \in Nat /\ SumFunctionOnSet(g, T) \in Nat
  BY <1>1, <1>4, SumNat
<1>8. SumFunctionOnSet(h, T) = SumFunctionOnSet(f, T) + SumFunctionOnSet(g, T)
  <2>1. \A t \in T : f[t] \in Int /\ g[t] \in Int /\ h[t] = f[t] + g[t] BY <1>4
  <2>2. IsFiniteSet(T) BY <1>1
  <2> QED BY ONLY <2>1, <2>2, SumPlus
<1> QED BY <1>2, <1>6, <1>7, <1>8

LEMMA ServedAtOnce ==
    ASSUME NEW at \in Nat
    PROVE  Served(at, at) = 0
<1>1. at <= at OBVIOUS
<1>2. Served(at, at) \in Nat /\ Served(at, at) = Served(at, at) + Served(at, at)
  BY <1>1, ServedAdds
<1> DEFINE n == Served(at, at)
<1> HIDE DEF n
<1>3. n \in Nat /\ n = n + n BY <1>2 DEF n
<1>4. n = 0 BY ONLY <1>3
<1> QED BY <1>4 DEF n

-----------------------------------------------------------------------------
(* The invariant *)

StreetKept ==
    /\ street \in [phase : 0..Len(Phases), triggered : SUBSET Triggers]
    /\ streetClears \in 0..1
    /\ street # NotStarted =>
        /\ street.phase \in DOMAIN Phases /\ street.triggered \subseteq Phases[street.phase]
        /\ \A i \in 1..(street.phase - 1) : \A t \in Phases[i] : <<i, t>> \in fired
        /\ \A t \in street.triggered : <<street.phase, t>> \in fired
    /\ StreetWalkedThrough

PresentKept ==
    /\ tools \subseteq Tools
    /\ present \in [total : Nat, closeness : Nat, received : Nat]
    /\ rowsPaid \in [DOMAIN Closeness -> Nat]
    /\ present.received = IF present.total = 0 THEN 0 ELSE ClosenessOf(present.total)
    /\ ClosenessPaidOnce

DishesKept ==
    /\ townTime \in Nat
    /\ dishes \in [count : 0..DishCap, idleness : 0..MaxIdleness, updated : 0..townTime]
    /\ servings \in [ordered : Nat, lost : Nat]
    /\ DishesAddUp

TownInv == StreetKept /\ PresentKept /\ DishesKept

LEMMA TownTypes == TownInv => TownTypeOK /\ TownPays
BY DEF TownInv, StreetKept, PresentKept, DishesKept, TownTypeOK, TownPays

LEMMA TownBegins == TownInit => TownInv
<1> SUFFICES ASSUME TownInit PROVE TownInv OBVIOUS
<1> USE DEF TownInit
<1>1. StreetKept
  <2>1. street = NotStarted /\ streetClears = 0 OBVIOUS
  <2>2. street \in [phase : 0..Len(Phases), triggered : SUBSET Triggers]
    <3>1. 0 \in 0..Len(Phases) BY TownTables
    <3> QED BY <2>1, <3>1 DEF NotStarted
  <2> QED BY <2>1, <2>2 DEF StreetKept, StreetWalkedThrough
<1>2. PresentKept
  <2>1. /\ tools = Tools /\ present = [total |-> 0, closeness |-> 0, received |-> 0]
        /\ rowsPaid = [i \in DOMAIN Closeness |-> 0]
    OBVIOUS
  <2>2. ClosenessPaidOnce BY <2>1 DEF ClosenessPaidOnce
  <2> QED BY <2>1, <2>2 DEF PresentKept
<1>3. DishesKept
  <2>1. /\ dishes = [count |-> FirstDishes, idleness |-> 0, updated |-> 0]
        /\ servings = [ordered |-> 0, lost |-> 0] /\ townTime = 0
    OBVIOUS
  <2>2. DishCap \in Nat /\ FirstDishes \in 0..DishCap /\ MaxIdleness \in Nat BY TownTables, Zenon
  <2>3. Served(0, 0) = 0 BY ServedAtOnce
  <2> QED BY <2>1, <2>2, <2>3 DEF DishesKept, DishesAddUp
<1> QED BY <1>1, <1>2, <1>3 DEF TownInv

\* What is served up to now is ready, or lost.
LEMMA DishesRefreshed ==
    ASSUME DishesKept
    PROVE  LET d == refresh_dishes(dishes) IN
           /\ d \in [count : 0..DishCap, idleness : 0..MaxIdleness, updated : {townTime}]
           /\ Overflow(dishes) \in Nat
           /\ servings.ordered + servings.lost + Overflow(dishes) + d.count
                = FirstDishes + Served(0, townTime)
<1> DEFINE d == refresh_dishes(dishes)
           served == Served(dishes.updated, townTime)
           total == dishes.count + served
           over == IF total - DishCap > 0 THEN total - DishCap ELSE 0
<1>1. /\ DishCap \in Nat /\ MaxIdleness \in Nat /\ townTime \in Nat
      /\ dishes.count \in 0..DishCap /\ dishes.idleness \in 0..MaxIdleness
      /\ dishes.updated \in Nat /\ dishes.updated <= townTime
      /\ servings.ordered \in Nat /\ servings.lost \in Nat /\ FirstDishes \in Nat
  BY TownTables DEF DishesKept
<1>2. /\ served \in Nat /\ Served(0, dishes.updated) \in Nat
      /\ Served(0, townTime) = Served(0, dishes.updated) + served
  <2>1. 0 \in Nat /\ 0 <= dishes.updated BY <1>1
  <2>3. dishes.updated \in Nat /\ townTime \in Nat /\ dishes.updated <= townTime BY <1>1
  <2> HIDE DEF total, over, d, served
  <2>2. /\ Served(0, dishes.updated) \in Nat /\ Served(dishes.updated, townTime) \in Nat
        /\ Served(0, townTime) = Served(0, dishes.updated) + Served(dishes.updated, townTime)
    BY ONLY <2>1, <2>3, ServedAdds
  <2> QED BY <2>2, Zenon DEF served
<1>3. servings.ordered + servings.lost + dishes.count = FirstDishes + Served(0, dishes.updated)
  BY DEF DishesKept, DishesAddUp
<1> HIDE DEF served
<1>4. \A a, b \in Int : /\ Max({a, b}) = IF a > b THEN a ELSE b
                        /\ Min({a, b}) = IF a < b THEN a ELSE b
  <2> TAKE a, b \in Int
  <2>1. \A x \in {a, b} : (\A y \in {a, b} : x >= y) <=> x = IF a > b THEN a ELSE b OBVIOUS
  <2>2. \A x \in {a, b} : (\A y \in {a, b} : x =< y) <=> x = IF a < b THEN a ELSE b OBVIOUS
  <2>3. Max({a, b}) = IF a > b THEN a ELSE b BY <2>1 DEF Max
  <2>4. Min({a, b}) = IF a < b THEN a ELSE b BY <2>2 DEF Min
  <2> QED BY <2>3, <2>4
<1>5. total \in Nat BY <1>1, <1>2
<1>6. Overflow(dishes) = over
  <2>1. Overflow(dishes) = Max({dishes.count + Served(dishes.updated, townTime) - DishCap, 0})
    <3> HIDE DEF total, over, d
    <3> QED BY DEF Overflow
  <2> DEFINE late == dishes.count + Served(dishes.updated, townTime) - DishCap
  <2>2. late = total - DishCap
    <3>1. total = dishes.count + served OBVIOUS
    <3>2. served = Served(dishes.updated, townTime) BY DEF served
    <3> HIDE DEF over, d, total
    <3> QED BY <1>1, <1>2, <3>1, <3>2
  <2>3. late \in Int /\ 0 \in Int BY <1>1, <1>5, <2>2
  <2>4. Overflow(dishes) = Max({late, 0}) BY <2>1
  <2> HIDE DEF late
  <2>5. Max({late, 0}) = IF late > 0 THEN late ELSE 0 BY <1>4, <2>3
  <2> QED BY <2>2, <2>4, <2>5
<1>7. /\ d.count = IF total < DishCap THEN total ELSE DishCap
      /\ d.idleness = IF dishes.idleness + over < MaxIdleness THEN dishes.idleness + over
                      ELSE MaxIdleness
      /\ d = [count |-> d.count, idleness |-> d.idleness, updated |-> townTime]
  <2>1. /\ d.count = Min({total, DishCap})
        /\ d.idleness = Min({dishes.idleness + Max({total - DishCap, 0}), MaxIdleness})
        /\ d = [count |-> d.count, idleness |-> d.idleness, updated |-> townTime]
    BY DEF refresh_dishes, served
  <2>2. Max({total - DishCap, 0}) = over
    <3>1. total - DishCap \in Int /\ 0 \in Int BY <1>1, <1>5
    <3> HIDE DEF total
    <3> QED BY <1>4, <3>1
  <2> HIDE DEF d, total
  <2>3. over \in Nat /\ dishes.idleness + over \in Int BY <1>1, <1>5
  <2>7. DishCap \in Int /\ total \in Int BY <1>1, <1>5
  <2>4. d.count = IF total < DishCap THEN total ELSE DishCap BY <1>4, <2>1, <2>7
  <2> HIDE DEF over
  <2>5. MaxIdleness \in Int BY <1>1
  <2>6. d.idleness = Min({dishes.idleness + over, MaxIdleness}) BY <2>1, <2>2
  <2> QED BY <1>4, <2>1, <2>3, <2>4, <2>5, <2>6
<1> HIDE DEF d
<1>8. d.count \in 0..DishCap /\ d.idleness \in 0..MaxIdleness /\ over \in Nat
      /\ over + d.count = total
  BY <1>1, <1>5, <1>7
<1>9. d \in [count : 0..DishCap, idleness : 0..MaxIdleness, updated : {townTime}]
  BY <1>7, <1>8
<1>10. servings.ordered + servings.lost + over + d.count = FirstDishes + Served(0, townTime)
  BY <1>1, <1>2, <1>3, <1>8
<1> QED BY <1>6, <1>8, <1>9, <1>10 DEF d

-----------------------------------------------------------------------------
(* The steps *)

LEMMA RefreshKeepsDishes ==
    ASSUME DishesKept, Refresh, UNCHANGED townTime
    PROVE  DishesKept'
<1> DEFINE d == refresh_dishes(dishes)
           over == Overflow(dishes)
<1>1. /\ d \in [count : 0..DishCap, idleness : 0..MaxIdleness, updated : {townTime}]
      /\ over \in Nat
      /\ servings.ordered + servings.lost + over + d.count = FirstDishes + Served(0, townTime)
  BY DishesRefreshed, Zenon
<1>2. /\ dishes' = d /\ servings' = [servings EXCEPT !.lost = @ + over] /\ townTime' = townTime
  BY DEF Refresh
<1>3. townTime \in Nat /\ servings \in [ordered : Nat, lost : Nat] BY DEF DishesKept
<1> HIDE DEF d, over
<1>4. dishes' \in [count : 0..DishCap, idleness : 0..MaxIdleness, updated : 0..townTime']
  BY <1>1, <1>2, <1>3
<1>5. /\ servings' \in [ordered : Nat, lost : Nat]
      /\ servings'.ordered = servings.ordered /\ servings'.lost = servings.lost + over
  BY <1>1, <1>2, <1>3
<1>6. dishes'.updated = townTime /\ dishes'.count = d.count BY <1>1, <1>2
<1>7. servings'.ordered + servings'.lost + dishes'.count = FirstDishes + Served(0, dishes'.updated)
  <2>1. d.count \in Nat /\ servings.ordered \in Nat /\ servings.lost \in Nat BY <1>1, <1>3, TownTables
  <2> QED BY <1>1, <1>5, <1>6, <2>1
<1> QED BY <1>2, <1>3, <1>4, <1>5, <1>7 DEF DishesKept, DishesAddUp

LEMMA OrderKeepsDishes ==
    ASSUME DishesKept, dish_order
    PROVE  DishesKept'
<1> DEFINE d == refresh_dishes(dishes)
           over == Overflow(dishes)
<1>1. /\ d \in [count : 0..DishCap, idleness : 0..MaxIdleness, updated : {townTime}]
      /\ over \in Nat
      /\ servings.ordered + servings.lost + over + d.count = FirstDishes + Served(0, townTime)
  BY DishesRefreshed, Zenon
<1>2. /\ d.count > 0 /\ dishes' = [d EXCEPT !.count = @ - 1, !.idleness = 0]
      /\ servings' = [ordered |-> servings.ordered + 1, lost |-> servings.lost + over]
      /\ townTime' = townTime
  BY DEF dish_order
<1>3. townTime \in Nat /\ servings \in [ordered : Nat, lost : Nat] BY DEF DishesKept
<1> HIDE DEF d, over
<1>4. DishCap \in Nat /\ MaxIdleness \in Nat BY TownTables, Zenon
<1>5. dishes' \in [count : 0..DishCap, idleness : 0..MaxIdleness, updated : 0..townTime']
  <2>1. d.count - 1 \in 0..DishCap /\ 0 \in 0..MaxIdleness BY <1>1, <1>2, <1>4
  <2>2. dishes' = [count |-> d.count - 1, idleness |-> 0, updated |-> townTime]
    BY <1>1, <1>2
  <2>3. townTime \in 0..townTime' BY <1>2, <1>3
  <2> QED BY <2>1, <2>2, <2>3
<1>6. /\ servings' \in [ordered : Nat, lost : Nat]
      /\ servings'.ordered = servings.ordered + 1 /\ servings'.lost = servings.lost + over
  BY <1>1, <1>2, <1>3
<1>7. dishes'.updated = townTime /\ dishes'.count = d.count - 1 BY <1>1, <1>2
<1>8. servings'.ordered + servings'.lost + dishes'.count = FirstDishes + Served(0, dishes'.updated)
  <2>1. d.count \in Nat /\ servings.ordered \in Nat /\ servings.lost \in Nat BY <1>1, <1>3, <1>4
  <2> QED BY <1>1, <1>6, <1>7, <2>1
<1> QED BY <1>2, <1>3, <1>5, <1>6, <1>8 DEF DishesKept, DishesAddUp

LEMMA TimeKeepsDishes ==
    ASSUME DishesKept, TownTick
    PROVE  DishesKept'
<1>1. /\ townTime' = townTime + 1 /\ dishes' = dishes /\ servings' = servings
  BY DEF TownTick, dishState
<1>2. townTime \in Nat BY DEF DishesKept
<1>3. dishes \in [count : 0..DishCap, idleness : 0..MaxIdleness, updated : 0..townTime]
  BY DEF DishesKept
<1>4. 0..townTime \subseteq 0..(townTime + 1) BY <1>2
<1>5. dishes' \in [count : 0..DishCap, idleness : 0..MaxIdleness, updated : 0..townTime']
  BY <1>1, <1>3, <1>4
<1> QED BY <1>1, <1>2, <1>5 DEF DishesKept, DishesAddUp

LEMMA TriggersKeepStreet ==
    ASSUME StreetKept, NEW t, street_trigger(t)
    PROVE  StreetKept'
<1> DEFINE p == street.phase
           triggered == street.triggered \union {t}
           end == Len(Phases)
<1>1. /\ streetClears = 0 /\ street # NotStarted /\ t \in Phases[p]
      /\ fired' = fired \union {<<p, t>>}
  BY DEF street_trigger
<1>2. /\ p \in 1..end /\ street.triggered \subseteq Phases[p]
      /\ \A i \in 1..(p - 1) : \A u \in Phases[i] : <<i, u>> \in fired
      /\ \A u \in street.triggered : <<p, u>> \in fired
      /\ street \in [phase : 0..end, triggered : SUBSET Triggers]
  BY <1>1, TownTables DEF StreetKept
<1>3. /\ end \in Nat \ {0} /\ DOMAIN Phases = 1..end
      /\ \A i \in 1..end : Phases[i] \subseteq Triggers /\ IsFiniteSet(Phases[i])
  BY TownTables
<1>4. triggered \subseteq Phases[p] /\ triggered \subseteq Triggers BY <1>1, <1>2, <1>3
<1>5. /\ \A u \in triggered : <<p, u>> \in fired'
      /\ \A i \in 1..(p - 1) : \A u \in Phases[i] : <<i, u>> \in fired'
  BY <1>1, <1>2
<1>6. CASE ~PhaseDone(p, triggered)
  <2>1. street' = [street EXCEPT !.triggered = triggered] /\ streetClears' = streetClears
    BY <1>6 DEF street_trigger
  <2> HIDE DEF triggered
  <2>2. /\ street' \in [phase : 0..end, triggered : SUBSET Triggers]
        /\ street'.phase = p /\ street'.triggered = triggered
    BY <1>2, <1>4, <2>1
  <2>3. streetClears' = 0 BY <1>1, <2>1
  <2> QED BY <1>2, <1>3, <1>4, <1>5, <2>2, <2>3 DEF StreetKept, StreetWalkedThrough
<1>7. CASE PhaseDone(p, triggered)
  <2>1. triggered = Phases[p]
    <3>1. Cardinality(triggered) = Cardinality(Phases[p]) BY <1>7 DEF PhaseDone
    <3>2. IsFiniteSet(Phases[p]) BY <1>2, <1>3
    <3> HIDE DEF triggered
    <3> QED BY <1>4, <3>1, <3>2, FS_Subset
  <2>2. \A i \in 1..p : \A u \in Phases[i] : <<i, u>> \in fired'
    <3> HIDE DEF triggered
    <3>1. \A i \in 1..p : i \in 1..(p - 1) \/ i = p BY <1>2
    <3> QED BY <1>5, <2>1, <3>1
  <2>3. CASE p = end
    <3>1. street' = [street EXCEPT !.triggered = triggered] /\ streetClears' = 1
      BY <1>7, <2>3 DEF street_trigger
    <3> HIDE DEF triggered
    <3>2. /\ street' \in [phase : 0..end, triggered : SUBSET Triggers]
          /\ street'.phase = p /\ street'.triggered = triggered
      BY <1>2, <1>4, <3>1
    <3> QED BY <1>2, <1>3, <1>4, <1>5, <2>2, <2>3, <3>1, <3>2 DEF StreetKept, StreetWalkedThrough
  <2>4. CASE p # end
    <3>1. street' = [phase |-> p + 1, triggered |-> {}] /\ streetClears' = 0
      BY <1>7, <2>4 DEF street_trigger
    <3>2. p + 1 \in 1..end /\ (p + 1) - 1 = p BY <1>2, <1>3, <2>4
    <3>3. /\ street' \in [phase : 0..end, triggered : SUBSET Triggers]
          /\ street'.phase = p + 1 /\ street'.triggered = {}
      BY <3>1, <3>2
    <3> QED BY <1>3, <2>2, <3>1, <3>2, <3>3 DEF StreetKept, StreetWalkedThrough
  <2> QED BY <2>3, <2>4
<1> QED BY <1>6, <1>7

LEMMA StartKeepsStreet ==
    ASSUME StreetKept, street_start
    PROVE  StreetKept'
<1>1. /\ streetClears = 0 /\ streetClears' = streetClears /\ fired' = fired
      /\ street' = IF street = NotStarted THEN [phase |-> 1, triggered |-> {}] ELSE street
  BY DEF street_start
<1>2. CASE street = NotStarted
  <2>1. street' = [phase |-> 1, triggered |-> {}] BY <1>1, <1>2
  <2>2. /\ Len(Phases) \in Nat \ {0} /\ DOMAIN Phases = 1..Len(Phases) BY TownTables, Zenon
  <2>3. 1 \in 0..Len(Phases) /\ 1 \in DOMAIN Phases BY <2>2
  <2>4. /\ street' \in [phase : 0..Len(Phases), triggered : SUBSET Triggers]
        /\ street'.phase = 1 /\ street'.triggered = {}
    BY <2>1, <2>3
  <2>5. 1..(street'.phase - 1) = {} BY <2>4
  <2> QED BY <1>1, <2>3, <2>4, <2>5 DEF StreetKept, StreetWalkedThrough
<1>3. CASE street # NotStarted
  <2>1. street' = street BY <1>1, <1>3
  <2> QED BY <1>1, <2>1 DEF StreetKept, StreetWalkedThrough
<1> QED BY <1>2, <1>3

\* Rows are paid from what was received to what is reached.
LEMMA GiftsKeepPresents ==
    ASSUME PresentKept, NEW gifts, present_execute(gifts)
    PROVE  PresentKept'
<1> DEFINE given == SumFunction([g \in gifts |-> GiftPoints[g]])
           old == present.total
           total == old + given
           reached == ClosenessOf(total)
           got == present.received
           due(i) == IF RowDue(i, got, reached) THEN 1 ELSE 0
<1>1. /\ gifts # {} /\ gifts \subseteq tools /\ tools' = tools \ gifts
      /\ present' = [total |-> total, closeness |-> reached, received |-> Max({reached, got})]
      /\ rowsPaid' = [i \in DOMAIN Closeness |-> rowsPaid[i] + due(i)]
  BY DEF present_execute
<1>2. /\ tools \subseteq Tools /\ present \in [total : Nat, closeness : Nat, received : Nat]
      /\ rowsPaid \in [DOMAIN Closeness -> Nat]
      /\ got = IF old = 0 THEN 0 ELSE ClosenessOf(old)
  BY DEF PresentKept
<1>3. given \in Nat \ {0}
  <2> DEFINE f == [g \in gifts |-> GiftPoints[g]]
  <2>1. /\ IsFiniteSet(Tools) /\ \A g \in Tools : GiftPoints[g] \in Nat \ {0}
    BY TownTables, Zenon
  <2>2. IsFiniteSet(gifts) BY <1>1, <1>2, <2>1, FS_Subset
  <2>3. DOMAIN f = gifts /\ \A g \in gifts : f[g] \in Nat \ {0} BY <1>1, <1>2, <2>1
  <2>4. PICK x \in gifts : TRUE BY <1>1
  <2> HIDE DEF f
  <2>5. SumFunction(f) = SumFunctionOnSet(f, gifts) BY <2>3, Zenon DEF SumFunction
  <2>6. SumFunctionOnSet(f, gifts) = f[x] + SumFunctionOnSet(f, gifts \ {x})
    <3>1. \A g \in gifts : f[g] \in Int BY <2>3
    <3> QED BY <2>2, <2>4, <3>1, SumRemove
  <2>7. SumFunctionOnSet(f, gifts \ {x}) \in Nat
    <3>1. IsFiniteSet(gifts \ {x}) BY <2>2, FS_Subset
    <3>2. \A g \in gifts \ {x} : f[g] \in Nat BY <2>3
    <3> QED BY <3>1, <3>2, SumNat
  <2>8. f[x] \in Nat \ {0} BY <2>3, <2>4
  <2>9. SumFunction(f) \in Nat \ {0} BY <2>5, <2>6, <2>7, <2>8
  <2> QED BY <2>9 DEF f
<1> HIDE DEF given
<1>4. old \in Nat /\ got \in Nat /\ total \in Nat \ {0} /\ old <= total BY <1>2, <1>3
<1>5. /\ reached \in Nat /\ got <= reached
  <2>1. ClosenessOf(old) \in Nat /\ reached \in Nat /\ ClosenessOf(old) <= reached
    BY <1>4, ClosenessGrows
  <2> HIDE DEF reached
  <2> QED BY <1>2, <2>1
<1>6. Max({reached, got}) = reached
  <2> HIDE DEF reached
  <2>1. \A x \in {reached, got} : (\A y \in {reached, got} : x >= y) <=> x = reached
    BY <1>4, <1>5
  <2> QED BY <2>1 DEF Max
<1>7. \A i \in DOMAIN Closeness :
        /\ Closeness[i].closeness \in Nat \ {0}
        /\ rowsPaid[i] = IF Closeness[i].closeness <= got THEN 1 ELSE 0
  <2>1. \A i \in DOMAIN Closeness : Closeness[i].closeness \in Nat \ {0} BY TownTables, Zenon
  <2>2. \A i \in DOMAIN Closeness :
          rowsPaid[i] = IF old > 0 /\ Closeness[i].closeness <= ClosenessOf(old) THEN 1 ELSE 0
    BY DEF PresentKept, ClosenessPaidOnce
  <2>3. CASE old = 0 BY <1>2, <2>1, <2>2, <2>3
  <2>4. CASE old # 0
    <3>1. old > 0 /\ got = ClosenessOf(old) BY <1>2, <1>4, <2>4
    <3> QED BY <2>1, <2>2, <3>1
  <2> QED BY <2>3, <2>4
<1> HIDE DEF reached, total
<1>8. \A i \in DOMAIN Closeness :
        /\ due(i) \in Nat
        /\ rowsPaid[i] + due(i) = IF Closeness[i].closeness <= reached THEN 1 ELSE 0
  BY <1>4, <1>5, <1>7 DEF RowDue
<1>9. /\ tools' \subseteq Tools /\ present' = [total |-> total, closeness |-> reached,
                                              received |-> reached]
      /\ rowsPaid' \in [DOMAIN Closeness -> Nat]
  <2>1. tools' \subseteq Tools BY <1>1, <1>2
  <2>2. present' = [total |-> total, closeness |-> reached, received |-> reached]
    BY <1>1, <1>6
  <2>3. \A i \in DOMAIN Closeness : rowsPaid[i] + due(i) \in Nat BY <1>2, <1>8
  <2> HIDE DEF due
  <2>4. rowsPaid' \in [DOMAIN Closeness -> Nat] BY <1>1, <2>3
  <2> QED BY <2>1, <2>2, <2>4
<1>10. present'.total = total /\ present'.received = reached /\ reached = ClosenessOf(total)
  BY <1>9 DEF reached
<1>11. ClosenessPaidOnce'
  <2> SUFFICES ASSUME NEW i \in DOMAIN Closeness
               PROVE  rowsPaid'[i] = IF present'.total > 0
                                        /\ Closeness[i].closeness <= ClosenessOf(present'.total)
                                     THEN 1 ELSE 0
    BY DEF ClosenessPaidOnce
  <2>1. rowsPaid'[i] = rowsPaid[i] + due(i) BY <1>1
  <2> HIDE DEF due
  <2> QED BY <1>4, <1>8, <1>10, <2>1
<1>12. present'.received = IF present'.total = 0 THEN 0 ELSE ClosenessOf(present'.total)
  BY <1>4, <1>10
<1>13. present' \in [total : Nat, closeness : Nat, received : Nat] BY <1>4, <1>5, <1>9
<1> QED BY <1>9, <1>11, <1>12, <1>13 DEF PresentKept

-----------------------------------------------------------------------------

LEMMA TownStep == TownInv /\ [TownNext]_townVars => TownInv'
<1> SUFFICES ASSUME TownInv, [TownNext]_townVars PROVE TownInv' OBVIOUS
<1>1. StreetKept /\ PresentKept /\ DishesKept BY DEF TownInv
<1>2. ASSUME UNCHANGED streetState PROVE StreetKept'
  BY <1>1, <1>2 DEF StreetKept, StreetWalkedThrough, streetState
<1>3. ASSUME UNCHANGED presentState PROVE PresentKept'
  BY <1>1, <1>3 DEF PresentKept, ClosenessPaidOnce, presentState
<1>4. CASE dish_order
  BY <1>1, <1>2, <1>3, <1>4, OrderKeepsDishes DEF dish_order, TownInv
<1>5. CASE street_start
  <2>1. Refresh /\ UNCHANGED presentState /\ UNCHANGED townTime BY <1>5 DEF street_start
  <2> QED BY <1>1, <1>3, <1>5, <2>1, StartKeepsStreet, RefreshKeepsDishes DEF TownInv
<1>6. CASE TownTick
  BY <1>1, <1>2, <1>3, <1>6, TimeKeepsDishes DEF TownTick, TownInv
<1>7. ASSUME NEW t \in Triggers, street_trigger(t) PROVE TownInv'
  <2>1. Refresh /\ UNCHANGED presentState /\ UNCHANGED townTime BY <1>7 DEF street_trigger
  <2> QED BY <1>1, <1>3, <1>7, <2>1, TriggersKeepStreet, RefreshKeepsDishes DEF TownInv
<1>8. ASSUME NEW gifts \in SUBSET Tools, present_execute(gifts) PROVE TownInv'
  <2>1. Refresh /\ UNCHANGED streetState /\ UNCHANGED townTime BY <1>8 DEF present_execute
  <2> QED BY <1>1, <1>2, <1>8, <2>1, GiftsKeepPresents, RefreshKeepsDishes DEF TownInv
<1>9. ASSUME NEW s \in Stories, NEW c \in Asked(s) \union {0}, character_story_clear(s, c)
      PROVE  TownInv'
  <2>1. Refresh /\ UNCHANGED streetState /\ UNCHANGED presentState /\ UNCHANGED townTime
    BY <1>9 DEF character_story_clear
  <2> QED BY <1>1, <1>2, <1>3, <2>1, RefreshKeepsDishes DEF TownInv
<1>10. CASE UNCHANGED townVars
  <2>1. /\ UNCHANGED streetState /\ UNCHANGED presentState /\ UNCHANGED townTime
        /\ UNCHANGED <<dishes, servings>>
    BY <1>10 DEF townVars, streetState, presentState
  <2>2. DishesKept' BY <1>1, <2>1 DEF DishesKept, DishesAddUp
  <2> QED BY <1>2, <1>3, <2>1, <2>2 DEF TownInv
<1> QED BY <1>4, <1>5, <1>6, <1>7, <1>8, <1>9, <1>10 DEF TownNext

\* Dishes, presents and streets give what was earned, once.
THEOREM TownPaysOnce == TownSpec => []TownPays
<1>1. TownSpec => []TownInv BY TownBegins, TownStep, PTL DEF TownSpec
<1>2. TownInv => TownPays BY TownTypes
<1> QED BY <1>1, <1>2, PTL

-----------------------------------------------------------------------------
(* What raises a character, for any boards, levels and items (Growth).     *)
(*                                                                         *)
(* The panels of a character are a set: a board that moves adds the panels *)
(* bought to it, a reset takes out those it gives back, and every sum over *)
(* panels follows.  Experience given back is what the items take, which is *)
(* no more than there was.                                                 *)

LEMMA GrowthTables ==
    /\ IsFiniteSet(Raised) /\ IsFiniteSet(ExpItems)
    /\ ExpItems \intersect {"cole", "panel item", "piece", "release item", "reset item"} = {}
    /\ FirstLimit \in Nat \ {0} /\ FirstRarity \in Nat /\ LastRarity \in Nat
    /\ FirstRarity <= LastRarity /\ QuestExp \in Nat /\ ColeRate \in Nat
    /\ Stock \in [Goods -> Nat] /\ LimitReleases \in Seq(Nat)
    /\ \A e \in ExpItems : ExpValue[e] \in Nat \ {0} /\ (ExpValue[e] * ColeRate) % 100 = 0
BY GrowthAssumption, Zenon

LEMMA LevelTables ==
    /\ Len(LevelExp) \in Nat /\ DOMAIN LevelExp = 1..Len(LevelExp)
    /\ \A l \in DOMAIN LevelExp : LevelExp[l] \in Nat
    /\ \A k, l \in DOMAIN LevelExp : k < l => LevelExp[k] < LevelExp[l]
<1>1. LevelExp \in Seq(Nat) BY GrowthAssumption, Zenon
<1>2. \A k, l \in DOMAIN LevelExp : k < l => LevelExp[k] < LevelExp[l]
  BY GrowthAssumption, Zenon
<1> QED BY <1>1, <1>2

LEMMA BoardTables ==
    ASSUME NEW c \in Raised, NEW b \in Boards
    PROVE  /\ Len(BoardPages[c][b]) \in Nat
           /\ DOMAIN BoardPages[c][b] = 1..Len(BoardPages[c][b])
           /\ \A p \in DOMAIN BoardPages[c][b] :
                /\ panels(c, b, p) \in Seq(Panel) /\ Len(panels(c, b, p)) \in Nat
                /\ DOMAIN panels(c, b, p) = 1..Len(panels(c, b, p))
                /\ \A i \in DOMAIN panels(c, b, p) : panels(c, b, p)[i] \in Panel
           /\ b # Neo => 1 \in DOMAIN BoardPages[c][b]
<1>1. BoardPages[c][b] \in Seq(Seq(Panel)) BY GrowthAssumption, Zenon
<1>2. b # Neo => BoardPages[c][b] # << >>
  <2>1. BoardPages[c][Base] # << >> /\ BoardPages[c][Ex] # << >> BY GrowthAssumption, Zenon
  <2> QED BY <2>1 DEF Boards
<1>3. ASSUME NEW p \in DOMAIN BoardPages[c][b] PROVE panels(c, b, p) \in Seq(Panel)
  BY <1>1 DEF panels
<1>4. Len(BoardPages[c][b]) \in Nat /\ DOMAIN BoardPages[c][b] = 1..Len(BoardPages[c][b])
  BY <1>1
<1>5. b # Neo => 1 \in DOMAIN BoardPages[c][b]
  <2> DEFINE s == BoardPages[c][b]
  <2>1. s \in Seq(Seq(Panel)) /\ (b # Neo => s # << >>) BY <1>1, <1>2
  <2> HIDE DEF s
  <2>2. b # Neo => 1 \in DOMAIN s BY <2>1
  <2> QED BY <2>2 DEF s
<1>6. ASSUME NEW p \in DOMAIN BoardPages[c][b]
      PROVE  /\ Len(panels(c, b, p)) \in Nat
             /\ DOMAIN panels(c, b, p) = 1..Len(panels(c, b, p))
             /\ \A i \in DOMAIN panels(c, b, p) : panels(c, b, p)[i] \in Panel
  <2> DEFINE s == panels(c, b, p)
  <2>1. s \in Seq(Panel) BY <1>3
  <2> HIDE DEF s
  <2>2. Len(s) \in Nat /\ DOMAIN s = 1..Len(s) /\ \A i \in DOMAIN s : s[i] \in Panel BY <2>1
  <2> QED BY <2>2 DEF s
<1> QED BY <1>3, <1>4, <1>5, <1>6

-----------------------------------------------------------------------------
(* Sums over panels *)

\* The panels of one page, and of one board.
PagePanels(c, b, p) == {<<c, b, p, i>> : i \in DOMAIN panels(c, b, p)}
BoardPanels(c, b) == UNION {PagePanels(c, b, p) : p \in DOMAIN BoardPages[c][b]}

LEMMA PanelsOfBoards == AllPanels = UNION {BoardPanels(c, b) : c \in Raised, b \in Boards}
BY DEF AllPanels, BoardPanels, PagePanels

LEMMA FewPanels == IsFiniteSet(AllPanels)
<1>1. ASSUME NEW c \in Raised, NEW b \in Boards PROVE IsFiniteSet(BoardPanels(c, b))
  <2> DEFINE D == DOMAIN BoardPages[c][b]
             pages == [p \in D |-> PagePanels(c, b, p)]
  <2>1. IsFiniteSet(D)
    <3>1. D = 1..Len(BoardPages[c][b]) /\ Len(BoardPages[c][b]) \in Nat BY BoardTables
    <3> QED BY <3>1, FS_Interval
  <2>2. ASSUME NEW p \in D PROVE IsFiniteSet(pages[p])
    <3> DEFINE I == DOMAIN panels(c, b, p)
               f == [i \in I |-> <<c, b, p, i>>]
    <3>1. I = 1..Len(panels(c, b, p)) /\ Len(panels(c, b, p)) \in Nat BY BoardTables
    <3>2. IsFiniteSet(I) BY <3>1, FS_Interval
    <3>3. pages[p] = {f[i] : i \in I} BY DEF PagePanels
    <3> HIDE DEF f, I, pages
    <3>4. IsFiniteSet({f[i] : i \in I}) BY <3>2, FiniteImage
    <3> QED BY <3>3, <3>4
  <2> DEFINE T == {pages[p] : p \in D}
  <2>3. BoardPanels(c, b) = UNION T
    <3>1. T = {PagePanels(c, b, p) : p \in D} BY Zenon
    <3> QED BY <3>1, Zenon DEF BoardPanels
  <2> HIDE DEF D, pages
  <2>4. IsFiniteSet(T) BY <2>1, FiniteImage
  <2>5. \A U \in T : IsFiniteSet(U) BY <2>2
  <2> HIDE DEF T
  <2> QED BY <2>3, <2>4, <2>5, FS_UNION
<1> DEFINE D == Raised \X Boards
           boards == [x \in D |-> BoardPanels(x[1], x[2])]
           T == {boards[x] : x \in D}
<1>2. IsFiniteSet(D)
  <2>1. IsFiniteSet(Boards)
    <3>1. Boards = ({} \union {Base}) \union {Ex} \union {Neo} BY DEF Boards
    <3>2. IsFiniteSet({} \union {Base}) BY FS_EmptySet, FS_AddElement
    <3>3. IsFiniteSet(({} \union {Base}) \union {Ex}) BY <3>2, FS_AddElement
    <3>4. IsFiniteSet(({} \union {Base}) \union {Ex} \union {Neo}) BY <3>3, FS_AddElement
    <3> QED BY <3>1, <3>4
  <2>2. IsFiniteSet(Raised) BY GrowthTables
  <2> QED BY <2>1, <2>2, FS_Product
<1>3. AllPanels = UNION T
  <2>1. T = {BoardPanels(c, b) : c \in Raised, b \in Boards}
    <3>1. ASSUME NEW S \in T PROVE S \in {BoardPanels(c, b) : c \in Raised, b \in Boards}
      BY <3>1
    <3>2. ASSUME NEW c \in Raised, NEW b \in Boards PROVE BoardPanels(c, b) \in T
      <4>1. <<c, b>> \in D /\ boards[<<c, b>>] = BoardPanels(c, b) OBVIOUS
      <4> HIDE DEF boards, D
      <4> QED BY <4>1
    <3> HIDE DEF T
    <3> QED BY <3>1, <3>2
  <2> QED BY <2>1, PanelsOfBoards
<1>4. \A U \in T : IsFiniteSet(U) BY <1>1
<1> HIDE DEF boards, D
<1>5. IsFiniteSet(T) BY <1>2, FiniteImage
<1> HIDE DEF T
<1> QED BY <1>3, <1>4, <1>5, FS_UNION

\* Where the panel of a tuple is found.
LEMMA PanelTypes == \A x \in AllPanels : PanelAt(x) \in Panel
<1> SUFFICES ASSUME NEW x \in AllPanels PROVE PanelAt(x) \in Panel OBVIOUS
<1>1. PICK c \in Raised, b \in Boards : x \in BoardPanels(c, b) BY PanelsOfBoards
<1>2. PICK p \in DOMAIN BoardPages[c][b] : x \in PagePanels(c, b, p) BY <1>1 DEF BoardPanels
<1>3. PICK i \in DOMAIN panels(c, b, p) : x = <<c, b, p, i>> BY <1>2 DEF PagePanels
<1>4. PanelAt(x) = panels(c, b, p)[i] BY <1>3 DEF PanelAt
<1> QED BY <1>2, <1>3, <1>4, BoardTables

\* A sum over a function on a larger set.
SumOver(f, S) == SumFunction([x \in S |-> f[x]])

LEMMA SumWithin ==
    ASSUME NEW A, IsFiniteSet(A), NEW f \in [A -> Nat],
           NEW S \in SUBSET A, NEW T \in SUBSET A, S \intersect T = {}
    PROVE  /\ SumOver(f, S) \in Nat /\ SumOver(f, T) \in Nat
           /\ SumOver(f, S \union T) = SumOver(f, S) + SumOver(f, T)
<1>1. ASSUME NEW R \in SUBSET A
      PROVE  /\ SumOver(f, R) = SumFunctionOnSet(f, R)
             /\ SumFunctionOnSet(f, R) \in Nat
  <2> DEFINE g == [x \in R |-> f[x]]
  <2>1. DOMAIN g = R /\ \A x \in R : g[x] \in Int /\ g[x] = f[x] OBVIOUS
  <2>2. IsFiniteSet(R) BY FS_Subset
  <2>3. \A x \in R : f[x] \in Nat OBVIOUS
  <2> HIDE DEF g
  <2>4. SumFunctionOnSet(g, R) = SumFunctionOnSet(f, R) BY <2>1, <2>2, SumSame
  <2>5. SumFunction(g) = SumFunctionOnSet(g, R) BY <2>1, Zenon DEF SumFunction
  <2>6. SumFunctionOnSet(f, R) \in Nat BY <2>2, <2>3, SumNat
  <2>7. SumOver(f, R) = SumFunction(g) BY Zenon DEF SumOver, g
  <2> QED BY <2>4, <2>5, <2>6, <2>7
<1>2. SumFunctionOnSet(f, S \union T) = SumFunctionOnSet(f, S) + SumFunctionOnSet(f, T)
  <2>1. IsFiniteSet(S) /\ IsFiniteSet(T) BY FS_Subset
  <2>2. \A x \in S \union T : f[x] \in Int OBVIOUS
  <2> QED BY <2>1, <2>2, SumOfBoth
<1>3. S \union T \in SUBSET A OBVIOUS
<1> DEFINE F(R) == SumOver(f, R)
<1>4. F(S) = SumFunctionOnSet(f, S) /\ SumFunctionOnSet(f, S) \in Nat BY <1>1
<1>5. F(T) = SumFunctionOnSet(f, T) /\ SumFunctionOnSet(f, T) \in Nat BY <1>1
<1>6. F(S \union T) = SumFunctionOnSet(f, S \union T) BY <1>1, <1>3
<1> HIDE DEF F
<1>7. F(S) \in Nat /\ F(T) \in Nat /\ F(S \union T) = F(S) + F(T) BY <1>2, <1>4, <1>5, <1>6
<1> QED BY <1>7 DEF F

Effects == {"stat", "role rate", "level limit"}

\* Panels apart from each other cost and do the sum of what each does.
LEMMA PanelsAddUp ==
    ASSUME NEW S \in SUBSET AllPanels, NEW T \in SUBSET AllPanels, S \intersect T = {}
    PROVE  /\ Cole(S) \in Nat /\ Cole(T) \in Nat /\ Cole(S \union T) = Cole(S) + Cole(T)
           /\ PanelItems(S) \in Nat /\ PanelItems(T) \in Nat
           /\ PanelItems(S \union T) = PanelItems(S) + PanelItems(T)
           /\ \A e \in Effects :
                /\ Effect(e, S) \in Nat /\ Effect(e, T) \in Nat
                /\ Effect(e, S \union T) = Effect(e, S) + Effect(e, T)
<1> DEFINE A == AllPanels
<1>1. IsFiniteSet(A) BY FewPanels
<1>2. \A x \in A : /\ PanelAt(x).cole \in Nat /\ PanelAt(x).items \in Nat
                   /\ PanelAt(x).value \in Nat
  BY PanelTypes DEF Panel
<1>3. S \union T \in SUBSET A OBVIOUS
<1>4. S \in SUBSET A /\ T \in SUBSET A OBVIOUS
<1>5. /\ Cole(S) \in Nat /\ Cole(T) \in Nat /\ Cole(S \union T) = Cole(S) + Cole(T)
  <2> DEFINE f == [x \in A |-> PanelAt(x).cole]
  <2>1. f \in [A -> Nat] BY <1>2
  <2>2. \A R \in SUBSET A : [x \in R |-> f[x]] = [x \in R |-> PanelAt(x).cole] OBVIOUS
  <2>3. \A R \in SUBSET A : Cole(R) = SumOver(f, R)
    <3> HIDE DEF f
    <3> QED BY <2>2, Zenon DEF SumOver, Cole
  <2> HIDE DEF A, f
  <2>4. /\ SumOver(f, S) \in Nat /\ SumOver(f, T) \in Nat
        /\ SumOver(f, S \union T) = SumOver(f, S) + SumOver(f, T)
    BY ONLY <1>1, <1>4, <2>1, S \intersect T = {}, SumWithin
  <2> QED BY <1>3, <1>4, <2>3, <2>4, Zenon
<1>6. /\ PanelItems(S) \in Nat /\ PanelItems(T) \in Nat
      /\ PanelItems(S \union T) = PanelItems(S) + PanelItems(T)
  <2> DEFINE f == [x \in A |-> PanelAt(x).items]
  <2>1. f \in [A -> Nat] BY <1>2
  <2>2. \A R \in SUBSET A : [x \in R |-> f[x]] = [x \in R |-> PanelAt(x).items] OBVIOUS
  <2>3. \A R \in SUBSET A : PanelItems(R) = SumOver(f, R)
    <3> HIDE DEF f
    <3> QED BY <2>2, Zenon DEF SumOver, PanelItems
  <2> HIDE DEF A, f
  <2>4. /\ SumOver(f, S) \in Nat /\ SumOver(f, T) \in Nat
        /\ SumOver(f, S \union T) = SumOver(f, S) + SumOver(f, T)
    BY ONLY <1>1, <1>4, <2>1, S \intersect T = {}, SumWithin
  <2> QED BY <1>3, <1>4, <2>3, <2>4, Zenon
<1>7. ASSUME NEW e \in Effects
      PROVE  /\ Effect(e, S) \in Nat /\ Effect(e, T) \in Nat
             /\ Effect(e, S \union T) = Effect(e, S) + Effect(e, T)
  <2> DEFINE f == [x \in A |-> IF PanelAt(x).effect = e THEN PanelAt(x).value ELSE 0]
  <2>1. f \in [A -> Nat] BY <1>2
  <2>2. \A R \in SUBSET A : [x \in R |-> f[x]]
                  = [x \in R |-> IF PanelAt(x).effect = e THEN PanelAt(x).value ELSE 0]
    OBVIOUS
  <2>3. \A R \in SUBSET A : Effect(e, R) = SumOver(f, R)
    <3> HIDE DEF f
    <3> QED BY <2>2, Zenon DEF SumOver, Effect
  <2> HIDE DEF A, f
  <2>4. /\ SumOver(f, S) \in Nat /\ SumOver(f, T) \in Nat
        /\ SumOver(f, S \union T) = SumOver(f, S) + SumOver(f, T)
    BY ONLY <1>1, <1>4, <2>1, S \intersect T = {}, SumWithin
  <2> QED BY <1>3, <1>4, <2>3, <2>4, Zenon
<1> QED BY <1>5, <1>6, <1>7

-----------------------------------------------------------------------------
(* The panels of a character *)

OnPage(c, b, page, bits) ==
    \/ page \in DOMAIN BoardPages[c][b] /\ bits \subseteq DOMAIN panels(c, b, page)
    \/ page = 1 /\ bits = {}

\* A character's row: its pages and bits are of its boards, and what its panels
\* do is in its fields.
CharState(c, ch) ==
    /\ ch = [id |-> c, exp |-> ch.exp, rarity |-> ch.rarity, increase |-> ch.increase,
             limit |-> ch.limit, stat |-> ch.stat, page |-> ch.page, bits |-> ch.bits]
    /\ ch.exp \in Nat /\ ch.increase \in Nat /\ ch.rarity \in FirstRarity..LastRarity
    /\ ch.page \in [Boards -> Nat \ {0}] /\ DOMAIN ch.bits = Boards
    /\ ch.bits = [b \in Boards |-> ch.bits[b]]
    /\ \A b \in Boards : OnPage(c, b, ch.page[b], ch.bits[b])
    /\ ch.stat = Effect("stat", OwnedOf(ch, Boards))
    /\ ch.limit = FirstLimit + Effect("level limit", OwnedOf(ch, Boards))

LEMMA OwnedOnBoard ==
    ASSUME NEW c \in Raised, NEW b \in Boards, NEW ch, ch.id = c, ch.page[b] \in Nat \ {0},
           OnPage(c, b, ch.page[b], ch.bits[b])
    PROVE  OwnedPanels(ch, b) \subseteq BoardPanels(c, b)
<1> DEFINE n == ch.page[b]
           pages == DOMAIN BoardPages[c][b]
<1>1. pages = 1..Len(BoardPages[c][b]) /\ Len(BoardPages[c][b]) \in Nat BY BoardTables
<1>2. ASSUME NEW x \in OwnedPanels(ch, b) PROVE x \in BoardPanels(c, b)
  <2>1. CASE \E p \in 1..(n - 1) : x \in {<<c, b, p, i>> : i \in DOMAIN panels(c, b, p)}
    <3>1. PICK p \in 1..(n - 1) : x \in {<<c, b, p, i>> : i \in DOMAIN panels(c, b, p)} BY <2>1
    <3>2. n \in pages
      <4>1. n # 1 BY <3>1
      <4> QED BY <4>1 DEF OnPage
    <3>3. p \in pages BY <1>1, <3>1, <3>2
    <3> HIDE DEF pages, n
    <3> QED BY <3>1, <3>3 DEF BoardPanels, PagePanels, pages
  <2>2. CASE x \in {<<c, b, n, i>> : i \in ch.bits[b]}
    <3>1. PICK i \in ch.bits[b] : x = <<c, b, n, i>> BY <2>2
    <3>2. n \in pages /\ i \in DOMAIN panels(c, b, n) BY <3>1 DEF OnPage
    <3> HIDE DEF pages, n
    <3> QED BY <3>1, <3>2 DEF BoardPanels, PagePanels, pages
  <2> QED BY <2>1, <2>2 DEF OwnedPanels
<1> QED BY <1>2

LEMMA BoardsApart ==
    ASSUME NEW c, NEW b, NEW d, NEW e, c # d \/ b # e
    PROVE  BoardPanels(c, b) \intersect BoardPanels(d, e) = {}
<1> SUFFICES ASSUME NEW x \in BoardPanels(c, b), x \in BoardPanels(d, e) PROVE FALSE OBVIOUS
<1>1. x[1] = c /\ x[2] = b BY DEF BoardPanels, PagePanels
<1>2. x[1] = d /\ x[2] = e BY DEF BoardPanels, PagePanels
<1> QED BY <1>1, <1>2

LEMMA OwnedByOne ==
    ASSUME NEW c \in Raised, NEW ch, CharState(c, ch), NEW bs \in SUBSET Boards
    PROVE  /\ OwnedOf(ch, bs) \subseteq AllPanels
           /\ \A x \in OwnedOf(ch, bs) : x[1] = c /\ x[2] \in bs
<1> SUFFICES ASSUME NEW x \in OwnedOf(ch, bs)
             PROVE  x \in AllPanels /\ x[1] = c /\ x[2] \in bs
  OBVIOUS
<1>1. PICK b \in bs : x \in OwnedPanels(ch, b) BY DEF OwnedOf
<1>2. x \in BoardPanels(c, b)
  <2>1. /\ ch = [id |-> c, exp |-> ch.exp, rarity |-> ch.rarity, increase |-> ch.increase,
                 limit |-> ch.limit, stat |-> ch.stat, page |-> ch.page, bits |-> ch.bits]
        /\ ch.page \in [Boards -> Nat \ {0}] /\ OnPage(c, b, ch.page[b], ch.bits[b])
    BY Zenon DEF CharState
  <2>2. ch.id = c BY <2>1
  <2>3. ch.page[b] \in Nat \ {0} BY <2>1
  <2> QED BY <1>1, <2>1, <2>2, <2>3, OwnedOnBoard, Zenon
<1>3. x[1] = c /\ x[2] = b BY <1>2 DEF BoardPanels, PagePanels
<1>4. x \in AllPanels BY <1>2, PanelsOfBoards
<1> QED BY <1>3, <1>4

\* What is said of all characters of a role, and of all panels.
RoleSum(cs, r) ==
    SumFunction([c \in {c \in Raised : RoleOf[c] = r} |->
                    Effect("role rate", OwnedOf(cs[c], Boards))])
OwnedIn(cs) == UNION {OwnedOf(cs[c], Boards) : c \in Raised}
ExpIn(cs) == SumFunction([c \in Raised |-> cs[c].exp])

CharsKept(cs) == cs = [c \in Raised |-> cs[c]] /\ \A c \in Raised : CharState(c, cs[c])

\* When one character is another, so is its part of every sum.
OneChanged(cs, c, new, cs2) ==
    /\ CharsKept(cs2) /\ OwnedIn(cs) \subseteq AllPanels
    /\ Cole(OwnedIn(cs)) \in Nat /\ PanelItems(OwnedIn(cs)) \in Nat /\ ExpIn(cs) \in Nat
    /\ Cole(OwnedIn(cs2)) + Cole(OwnedOf(cs[c], Boards))
         = Cole(OwnedIn(cs)) + Cole(OwnedOf(new, Boards))
    /\ PanelItems(OwnedIn(cs2)) + PanelItems(OwnedOf(cs[c], Boards))
         = PanelItems(OwnedIn(cs)) + PanelItems(OwnedOf(new, Boards))
    /\ ExpIn(cs2) + cs[c].exp = ExpIn(cs) + new.exp
    /\ \A r \in Roles :
         RoleSum(cs2, r) = IF r = RoleOf[c]
                           THEN RoleSum(cs, r) - Effect("role rate", OwnedOf(cs[c], Boards))
                                + Effect("role rate", OwnedOf(new, Boards))
                           ELSE RoleSum(cs, r)

LEMMA OneCharacter ==
    ASSUME NEW cs, CharsKept(cs), NEW c \in Raised, NEW new, CharState(c, new),
           NEW cs2, cs2 = [cs EXCEPT ![c] = new]
    PROVE  OneChanged(cs, c, new, cs2)
<1>1. /\ cs2 = [d \in Raised |-> cs2[d]] /\ cs2[c] = new
      /\ \A d \in Raised : d # c => cs2[d] = cs[d]
  BY DEF CharsKept
<1>2. CharsKept(cs2) BY <1>1 DEF CharsKept
<1> DEFINE rest == UNION {OwnedOf(cs[d], Boards) : d \in Raised \ {c}}
           old == OwnedOf(cs[c], Boards)
           now == OwnedOf(new, Boards)
<1>3. OwnedIn(cs) = rest \union old BY DEF OwnedIn
<1>4. OwnedIn(cs2) = rest \union now BY <1>1 DEF OwnedIn
<1>5. /\ rest \subseteq AllPanels /\ old \subseteq AllPanels /\ now \subseteq AllPanels
      /\ rest \intersect old = {} /\ rest \intersect now = {}
  <2>1. \A x \in rest : x \in AllPanels /\ x[1] # c
    <3>1. ASSUME NEW d \in Raised \ {c}, NEW x \in OwnedOf(cs[d], Boards)
          PROVE  x \in AllPanels /\ x[1] # c
      <4>1. CharState(d, cs[d]) BY DEF CharsKept
      <4> QED BY <4>1, OwnedByOne
    <3> QED BY <3>1
  <2>2. \A x \in old : x \in AllPanels /\ x[1] = c
    <3>1. CharState(c, cs[c]) BY DEF CharsKept
    <3> QED BY <3>1, OwnedByOne
  <2>3. \A x \in now : x \in AllPanels /\ x[1] = c BY OwnedByOne
  <2> HIDE DEF rest, old, now
  <2> QED BY <2>1, <2>2, <2>3
<1>6. /\ Cole(rest) \in Nat /\ Cole(old) \in Nat /\ Cole(rest \union old) = Cole(rest) + Cole(old)
      /\ PanelItems(rest) \in Nat /\ PanelItems(old) \in Nat
      /\ PanelItems(rest \union old) = PanelItems(rest) + PanelItems(old)
      /\ Effect("role rate", old) \in Nat
  <2> HIDE DEF rest, old, now
  <2> QED BY <1>5, PanelsAddUp DEF Effects
<1>7. /\ Cole(now) \in Nat /\ Cole(rest \union now) = Cole(rest) + Cole(now)
      /\ PanelItems(now) \in Nat
      /\ PanelItems(rest \union now) = PanelItems(rest) + PanelItems(now)
      /\ Effect("role rate", now) \in Nat
  <2> HIDE DEF rest, old, now
  <2> QED BY <1>5, PanelsAddUp DEF Effects
<1>8. ExpIn(cs) \in Nat /\ ExpIn(cs2) + cs[c].exp = ExpIn(cs) + new.exp
  <2> DEFINE f == [d \in Raised |-> cs[d].exp]
             g == [d \in Raised |-> cs2[d].exp]
  <2>1. \A d \in Raised : f[d] \in Nat /\ g[d] \in Nat
    BY <1>2 DEF CharsKept, CharState
  <2>2. /\ DOMAIN f = Raised /\ DOMAIN g = Raised /\ f[c] = cs[c].exp /\ g[c] = new.exp
        /\ \A d \in Raised : d # c => f[d] = g[d]
    BY <1>1
  <2>3. ExpIn(cs) = SumFunction(f) /\ ExpIn(cs2) = SumFunction(g) BY Zenon DEF ExpIn
  <2>4. IsFiniteSet(Raised) BY GrowthTables
  <2> HIDE DEF f, g
  <2>5. SumFunction(f) = SumFunctionOnSet(f, Raised) /\ SumFunction(g) = SumFunctionOnSet(g, Raised)
    BY <2>2, Zenon DEF SumFunction
  <2>6. \A d \in Raised : f[d] \in Int /\ g[d] \in Int /\ (d # c => f[d] = g[d]) BY <2>1, <2>2
  <2>7. SumFunctionOnSet(g, Raised) = SumFunctionOnSet(f, Raised) - f[c] + g[c]
    BY <2>4, <2>6, SumChanged
  <2>8. SumFunctionOnSet(f, Raised) \in Nat BY <2>1, <2>4, SumNat
  <2> QED BY <2>1, <2>2, <2>3, <2>5, <2>7, <2>8
<1>9. ASSUME NEW r \in Roles
      PROVE  RoleSum(cs2, r) = IF r = RoleOf[c]
                               THEN RoleSum(cs, r) - Effect("role rate", old)
                                    + Effect("role rate", now)
                               ELSE RoleSum(cs, r)
  <2> DEFINE S == {d \in Raised : RoleOf[d] = r}
             f == [d \in S |-> Effect("role rate", OwnedOf(cs[d], Boards))]
             g == [d \in S |-> Effect("role rate", OwnedOf(cs2[d], Boards))]
  <2>1. ASSUME NEW d \in Raised
        PROVE  /\ Effect("role rate", OwnedOf(cs[d], Boards)) \in Nat
               /\ Effect("role rate", OwnedOf(cs2[d], Boards)) \in Nat
    <3>1. CharState(d, cs[d]) /\ CharState(d, cs2[d]) BY <1>2 DEF CharsKept
    <3>2. OwnedOf(cs[d], Boards) \subseteq AllPanels /\ OwnedOf(cs2[d], Boards) \subseteq AllPanels
      BY <3>1, OwnedByOne
    <3>3. {} \in SUBSET AllPanels /\ OwnedOf(cs[d], Boards) \intersect {} = {}
          /\ OwnedOf(cs2[d], Boards) \intersect {} = {}
      OBVIOUS
    <3> QED BY <3>2, <3>3, PanelsAddUp DEF Effects
  <2>2. /\ \A d \in S : f[d] \in Int /\ g[d] \in Int /\ (d # c => f[d] = g[d])
        /\ DOMAIN f = S /\ DOMAIN g = S
    <3>1. ASSUME NEW d \in S PROVE f[d] \in Int /\ g[d] \in Int
      <4>1. /\ f[d] = Effect("role rate", OwnedOf(cs[d], Boards))
            /\ g[d] = Effect("role rate", OwnedOf(cs2[d], Boards))
        OBVIOUS
      <4>2. d \in Raised OBVIOUS
      <4> HIDE DEF f, g, S
      <4>3. f[d] \in Nat /\ g[d] \in Nat BY <2>1, <4>1, <4>2, Zenon
      <4> QED BY <4>3
    <3>2. ASSUME NEW d \in S, d # c PROVE f[d] = g[d]
      <4>1. cs2[d] = cs[d] BY <1>1, <3>2
      <4> QED BY <4>1
    <3>3. DOMAIN f = S /\ DOMAIN g = S OBVIOUS
    <3> HIDE DEF f, g, S
    <3> QED BY <3>1, <3>2, <3>3
  <2>3. IsFiniteSet(S) BY GrowthTables, FS_Subset
  <2>4. RoleSum(cs, r) = SumFunction(f) /\ RoleSum(cs2, r) = SumFunction(g)
    BY Zenon DEF RoleSum
  <2>5. c \in S => f[c] = Effect("role rate", old) /\ g[c] = Effect("role rate", now)
    BY <1>1
  <2>6. c \in S <=> r = RoleOf[c] OBVIOUS
  <2> HIDE DEF S, f, g, old, now
  <2>7. SumFunction(f) = SumFunctionOnSet(f, S) /\ SumFunction(g) = SumFunctionOnSet(g, S)
    BY <2>2, Zenon DEF SumFunction
  <2>8. CASE c \in S
    <3>1. SumFunctionOnSet(g, S) = SumFunctionOnSet(f, S) - f[c] + g[c]
      BY <2>2, <2>3, <2>8, SumChanged
    <3>2. RoleSum(cs2, r) = RoleSum(cs, r) - Effect("role rate", old) + Effect("role rate", now)
      BY <2>4, <2>5, <2>7, <2>8, <3>1
    <3> QED BY <2>6, <2>8, <3>2
  <2>9. CASE c \notin S
    <3>1. \A d \in S : f[d] \in Int /\ f[d] = g[d] BY <2>2, <2>9
    <3>2. SumFunctionOnSet(f, S) = SumFunctionOnSet(g, S) BY <2>3, <3>1, SumSame
    <3>3. RoleSum(cs2, r) = RoleSum(cs, r) BY <2>4, <2>7, <3>2, Zenon
    <3> QED BY <2>6, <2>9, <3>3
  <2> QED BY <2>8, <2>9
<1>10. OwnedIn(cs) \subseteq AllPanels BY <1>3, <1>5
<1>11. /\ Cole(OwnedIn(cs)) = Cole(rest) + Cole(old) /\ Cole(OwnedIn(cs2)) = Cole(rest) + Cole(now)
       /\ PanelItems(OwnedIn(cs)) = PanelItems(rest) + PanelItems(old)
       /\ PanelItems(OwnedIn(cs2)) = PanelItems(rest) + PanelItems(now)
  <2> HIDE DEF rest, old, now
  <2> QED BY <1>3, <1>4, <1>6, <1>7, Zenon
<1> HIDE DEF rest
<1>12. /\ Cole(OwnedIn(cs)) \in Nat /\ PanelItems(OwnedIn(cs)) \in Nat
       /\ Cole(OwnedIn(cs2)) + Cole(old) = Cole(OwnedIn(cs)) + Cole(now)
       /\ PanelItems(OwnedIn(cs2)) + PanelItems(old) = PanelItems(OwnedIn(cs)) + PanelItems(now)
  <2> DEFINE a == Cole(rest)
             o == Cole(old)
             n == Cole(now)
             a2 == PanelItems(rest)
             o2 == PanelItems(old)
             n2 == PanelItems(now)
  <2>1. /\ a \in Nat /\ o \in Nat /\ n \in Nat /\ a2 \in Nat /\ o2 \in Nat /\ n2 \in Nat
        /\ Cole(OwnedIn(cs)) = a + o /\ Cole(OwnedIn(cs2)) = a + n
        /\ PanelItems(OwnedIn(cs)) = a2 + o2 /\ PanelItems(OwnedIn(cs2)) = a2 + n2
    BY <1>6, <1>7, <1>11, Zenon
  <2> HIDE DEF old, now, a, o, n, a2, o2, n2
  <2>2. /\ Cole(OwnedIn(cs)) \in Nat /\ PanelItems(OwnedIn(cs)) \in Nat
        /\ Cole(OwnedIn(cs2)) + o = Cole(OwnedIn(cs)) + n
        /\ PanelItems(OwnedIn(cs2)) + o2 = PanelItems(OwnedIn(cs)) + n2
    BY ONLY <2>1
  <2> QED BY <2>2 DEF o, n, o2, n2
<1> QED BY <1>2, <1>8, <1>9, <1>10, <1>12, Zenon DEF OneChanged

-----------------------------------------------------------------------------
(* What a reset gives back for experience *)

LEMMA OrderTables ==
    /\ Len(ExpOrder) \in Nat /\ DOMAIN ExpOrder = 1..Len(ExpOrder)
    /\ \A i \in 1..Len(ExpOrder) :
         ExpOrder[i] \in ExpItems /\ ExpValue[ExpOrder[i]] \in Nat \ {0}
    /\ \A e \in ExpItems : \E i \in 1..Len(ExpOrder) : ExpOrder[i] = e
    /\ \A i, j \in 1..Len(ExpOrder) : ExpOrder[i] = ExpOrder[j] => i = j
<1>1. ExpOrder \in Seq(ExpItems) /\ Range(ExpOrder) = ExpItems /\ IsInjective(ExpOrder)
  BY GrowthAssumption, Zenon
<1>2. Len(ExpOrder) \in Nat /\ DOMAIN ExpOrder = 1..Len(ExpOrder) BY <1>1
<1>3. \A i \in 1..Len(ExpOrder) : ExpOrder[i] \in ExpItems BY <1>1, <1>2
<1>4. \A i \in 1..Len(ExpOrder) : ExpValue[ExpOrder[i]] \in Nat \ {0}
  BY <1>3, GrowthTables, Zenon
<1>5. \A e \in ExpItems : \E i \in 1..Len(ExpOrder) : ExpOrder[i] = e
  BY <1>1, <1>2 DEF Range
<1>6. \A i, j \in 1..Len(ExpOrder) : ExpOrder[i] = ExpOrder[j] => i = j
  BY <1>1, <1>2 DEF IsInjective
<1> QED BY <1>2, <1>3, <1>4, <1>5, <1>6

\* What each item leaves of the experience.
LEMMA RemainderTable ==
    ASSUME NEW exp \in Nat
    PROVE  /\ Remainder(exp, 0) = exp
           /\ \A i \in 0..Len(ExpOrder) : Remainder(exp, i) \in Nat
           /\ \A i \in 1..Len(ExpOrder) :
                Remainder(exp, i) = Remainder(exp, i - 1) % ExpValue[ExpOrder[i]]
<1> DEFINE n == Len(ExpOrder)
           step == [x \in Nat \X Nat |->
                       IF x[2] \in 1..n THEN x[1] % ExpValue[ExpOrder[x[2]]] ELSE x[1]]
           Table(u) == u = [i \in 0..n |->
                               IF i = 0 THEN exp ELSE u[i - 1] % ExpValue[ExpOrder[i]]]
<1>1. n \in Nat /\ \A i \in 1..n : ExpValue[ExpOrder[i]] \in Nat \ {0} BY OrderTables, Zenon
<1>2. IsStepOn(step, Nat)
  <2> SUFFICES ASSUME NEW x \in Nat \X Nat
               PROVE  (IF x[2] \in 1..n THEN x[1] % ExpValue[ExpOrder[x[2]]] ELSE x[1]) \in Nat
    BY Zenon DEF IsStepOn
  <2>1. x[1] \in Nat /\ x[2] \in Nat OBVIOUS
  <2>2. x[2] \in 1..n => ExpValue[ExpOrder[x[2]]] \in Nat \ {0} BY <1>1
  <2>3. \A a \in Nat, b \in Nat \ {0} : a % b \in Nat OBVIOUS
  <2> QED BY <2>1, <2>2, <2>3
<1> HIDE DEF step
<1>3. PICK u : IsIteration(u, step, exp, n, Nat) BY <1>1, <1>2, IterationExists, Zenon
<1>4. /\ u \in [0..n -> Nat] /\ u[0] = exp
      /\ \A i \in 1..n : u[i] = step[<<u[i - 1], i>>]
  BY <1>3, Zenon DEF IsIteration
<1>5. ASSUME NEW i \in 1..n PROVE u[i] = u[i - 1] % ExpValue[ExpOrder[i]]
  <2> DEFINE w == <<u[i - 1], i>>
  <2>1. w \in Nat \X Nat /\ w[1] = u[i - 1] /\ w[2] = i
    <3>1. i \in Nat /\ i - 1 \in 0..n BY <1>1
    <3>2. u[i - 1] \in Nat BY <1>4, <3>1
    <3> QED BY <3>1, <3>2
  <2>2. u[i] = step[w] BY <1>4
  <2> HIDE DEF w
  <2>3. step[w] = IF w[2] \in 1..n THEN w[1] % ExpValue[ExpOrder[w[2]]] ELSE w[1]
    BY <2>1, Zenon DEF step
  <2> QED BY <2>1, <2>2, <2>3, Zenon
<1>6. Table(u)
  <2>1. \A i \in 0..n : i = 0 \/ (i \in 1..n /\ i # 0) BY <1>1
  <2>2. \A i \in 0..n : u[i] = IF i = 0 THEN exp ELSE u[i - 1] % ExpValue[ExpOrder[i]]
    BY <1>4, <1>5, <2>1, Zenon
  <2>3. u = [i \in 0..n |-> u[i]] BY <1>4, Zenon
  <2> QED BY <2>2, <2>3, Zenon
<1> DEFINE v == CHOOSE f : Table(f)
<1>7. Table(v)
  <2> HIDE DEF Table
  <2> QED BY <1>6, Zenon
<1>8. \A i : Remainder(exp, i) = v[i] BY Zenon DEF Remainder
<1> HIDE DEF v
<1>9. v[0] = exp
  <2>1. 0 \in 0..n BY <1>1
  <2> QED BY <1>7, <2>1, Zenon
<1>10. \A i \in 1..n : v[i] = v[i - 1] % ExpValue[ExpOrder[i]]
  <2>1. \A i \in 1..n : i \in 0..n /\ i # 0 BY <1>1
  <2> HIDE DEF n
  <2> QED BY <1>7, <2>1, Zenon
<1>11. \A i \in 0..n : v[i] = u[i]
  <2> DEFINE C == {i \in 0..n : v[i] # u[i]}
  <2> SUFFICES ASSUME C # {} PROVE FALSE OBVIOUS
  <2>1. PICK i \in C : \A j \in C : i <= j
    <3>1. C \subseteq Nat BY <1>1
    <3> HIDE DEF C
    <3> QED BY <3>1, LeastNumber
  <2>2. i # 0 BY <1>4, <1>9
  <2>3. i \in 1..n /\ i - 1 \in 0..n /\ ~(i <= i - 1) BY <1>1, <2>2
  <2>4. v[i - 1] = u[i - 1]
    <3>1. i - 1 \notin C
      <4> HIDE DEF C
      <4> QED BY <2>1, <2>3
    <3> QED BY <2>3, <3>1
  <2>5. v[i] = u[i] BY <1>5, <1>10, <2>3, <2>4, Zenon
  <2> QED BY <2>5
<1> HIDE DEF Table
<1>12. \A i \in 0..n : v[i] \in Nat BY <1>4, <1>11
<1> QED BY <1>8, <1>9, <1>10, <1>12, Zenon

LEMMA RefundedOf ==
    ASSUME NEW exp \in Nat, NEW i \in 1..Len(ExpOrder)
    PROVE  Refunded(exp, ExpOrder[i]) = Remainder(exp, i - 1) \div ExpValue[ExpOrder[i]]
<1> DEFINE e == ExpOrder[i]
           j == CHOOSE k \in DOMAIN ExpOrder : ExpOrder[k] = e
<1>1. j \in DOMAIN ExpOrder /\ ExpOrder[j] = e
  <2>1. i \in DOMAIN ExpOrder /\ ExpOrder[i] = e BY OrderTables
  <2> HIDE DEF e
  <2> QED BY <2>1, Zenon
<1>2. Refunded(exp, e) = Remainder(exp, j - 1) \div ExpValue[e] BY Zenon DEF Refunded
<1> HIDE DEF j
<1>3. j = i BY <1>1, OrderTables
<1> QED BY <1>2, <1>3

\* The items given back hold what the experience lost in them.
LEMMA RefundHolds ==
    ASSUME NEW exp \in Nat
    PROVE  /\ \A e \in ExpItems : Refunded(exp, e) \in Nat
           /\ Remainder(exp, Len(ExpOrder)) \in Nat
           /\ Remainder(exp, Len(ExpOrder)) <= exp
           /\ SumFunction([e \in ExpItems |-> Refunded(exp, e) * ExpValue[e]])
                = exp - Remainder(exp, Len(ExpOrder))
<1> DEFINE n == Len(ExpOrder)
           f == [e \in ExpItems |-> Refunded(exp, e) * ExpValue[e]]
           First(k) == {ExpOrder[i] : i \in 1..k}
           left(k) == Remainder(exp, k)
           Holds(k) == SumFunctionOnSet(f, First(k)) = exp - left(k)
           C == {k \in 0..n : ~Holds(k)}
<1>1. /\ n \in Nat
      /\ \A i \in 1..n : ExpOrder[i] \in ExpItems /\ ExpValue[ExpOrder[i]] \in Nat \ {0}
      /\ \A e \in ExpItems : \E i \in 1..n : ExpOrder[i] = e
      /\ \A i, j \in 1..n : ExpOrder[i] = ExpOrder[j] => i = j
  BY OrderTables, Zenon
<1>2. /\ left(0) = exp /\ \A i \in 0..n : left(i) \in Nat
      /\ \A i \in 1..n : left(i) = left(i - 1) % ExpValue[ExpOrder[i]]
  BY RemainderTable, Zenon
<1>3. ASSUME NEW i \in 1..n
      PROVE  /\ Refunded(exp, ExpOrder[i]) \in Nat
             /\ left(i - 1) = Refunded(exp, ExpOrder[i]) * ExpValue[ExpOrder[i]] + left(i)
  <2> DEFINE a == left(i - 1)
             w == ExpValue[ExpOrder[i]]
  <2>1. w \in Nat \ {0} BY <1>1
  <2>2. a \in Nat
    <3>1. i - 1 \in 0..n BY <1>1
    <3> HIDE DEF left
    <3> QED BY <1>2, <3>1
  <2>3. Refunded(exp, ExpOrder[i]) = a \div w /\ left(i) = a % w BY RefundedOf, <1>2
  <2> HIDE DEF a, w
  <2>4. a \in Int /\ a >= 0 BY <2>2
  <2>5. a \div w \in Int /\ a = (a \div w) * w + (a % w) /\ (a >= 0 => a \div w >= 0)
    BY ONLY <2>1, <2>4, Division, Zenon
  <2>6. a \div w \in Nat BY <2>4, <2>5
  <2>7. Refunded(exp, ExpOrder[i]) \in Nat
        /\ a = Refunded(exp, ExpOrder[i]) * w + left(i)
    BY <2>3, <2>5, <2>6, Zenon
  <2> QED BY <2>7 DEF a, w
<1>4. ASSUME NEW e \in ExpItems PROVE Refunded(exp, e) \in Nat
  <2>1. PICK i \in 1..n : ExpOrder[i] = e BY <1>1
  <2> HIDE DEF left
  <2> QED BY <1>3, <2>1
<1>5. \A e \in ExpItems : f[e] = Refunded(exp, e) * ExpValue[e] /\ f[e] \in Nat
  <2>1. \A e \in ExpItems : ExpValue[e] \in Nat BY GrowthTables
  <2> QED BY <1>4, <2>1
<1>6. DOMAIN f = ExpItems OBVIOUS
<1> HIDE DEF f, left
<1>7. \A k \in 0..n : IsFiniteSet(First(k)) /\ First(k) \subseteq ExpItems
  <2>1. IsFiniteSet(ExpItems) BY GrowthTables
  <2>2. \A k \in 0..n : First(k) \subseteq ExpItems BY <1>1
  <2> QED BY <2>1, <2>2, FS_Subset
<1>8. ASSUME C # {} PROVE FALSE
  <2>1. PICK k \in C : \A j \in C : k <= j
    <3>1. C \subseteq Nat BY <1>1
    <3> HIDE DEF C
    <3> QED BY <1>8, <3>1, LeastNumber
  <2>2. CASE k = 0
    <3>1. First(k) = {} BY <2>2
    <3>2. SumFunctionOnSet(f, First(k)) = 0
      <4> HIDE DEF First
      <4> QED BY <3>1, SumEmpty
    <3> HIDE DEF First
    <3>3. Holds(k) BY <1>2, <2>2, <3>2
    <3> QED BY <3>3
  <2>3. CASE k # 0
    <3>1. k \in 1..n /\ k - 1 \in 0..n /\ ~(k <= k - 1) BY <1>1, <2>3
    <3>2. Holds(k - 1)
      <4>1. k - 1 \notin C
        <5> HIDE DEF C
        <5> QED BY <2>1, <3>1
      <4> HIDE DEF Holds
      <4> QED BY <3>1, <4>1
    <3> DEFINE S == First(k - 1)
               x == ExpOrder[k]
    <3>3. First(k) = S \union {x}
      <4>1. \A i : i \in 1..k <=> i \in 1..(k - 1) \/ i = k BY <1>1, <3>1
      <4> QED BY <4>1
    <3>4. x \notin S
      <4>1. \A i \in 1..(k - 1) : i \in 1..n /\ i # k BY <1>1, <3>1
      <4> QED BY <1>1, <3>1, <4>1
    <3>5. IsFiniteSet(S) /\ S \subseteq ExpItems
      <4> HIDE DEF First
      <4> QED BY <1>7, <3>1
    <3>6. x \in ExpItems BY <1>1, <3>1
    <3>7. f[x] \in Int /\ \A s \in S : f[s] \in Int
      <4> HIDE DEF S, x
      <4> QED BY <1>5, <3>5, <3>6
    <3> HIDE DEF First, S
    <3>8. SumFunctionOnSet(f, S \union {x}) = SumFunctionOnSet(f, S) + f[x]
      <4> HIDE DEF x
      <4> QED BY <3>4, <3>5, <3>7, SumAdd
    <3>9. SumFunctionOnSet(f, S) = exp - left(k - 1) BY <3>2 DEF S
    <3>10. left(k - 1) = f[x] + left(k) BY <1>3, <1>5, <3>1, <3>6
    <3>11. left(k) \in Nat /\ left(k - 1) \in Nat
      <4>1. k \in 0..n BY <1>1, <3>1
      <4> QED BY <1>2, <3>1, <4>1
    <3> HIDE DEF x
    <3>12. Holds(k) BY <3>3, <3>7, <3>8, <3>9, <3>10, <3>11
    <3> QED BY <3>12
  <2> QED BY <2>2, <2>3
<1>9. First(n) = ExpItems
  <2>1. \A e \in ExpItems : e \in First(n) BY <1>1
  <2>2. First(n) \subseteq ExpItems BY <1>1
  <2> HIDE DEF First
  <2> QED BY <2>1, <2>2
<1>10. Holds(n)
  <2>1. n \in 0..n BY <1>1
  <2> HIDE DEF Holds
  <2> QED BY <1>8, <2>1
<1>11. SumFunctionOnSet(f, ExpItems) = exp - left(n)
  <2> HIDE DEF First
  <2> QED BY <1>9, <1>10
<1>12. SumFunction(f) = SumFunctionOnSet(f, ExpItems) BY <1>6, Zenon DEF SumFunction
<1>13. SumFunctionOnSet(f, ExpItems) \in Nat
  <2>1. IsFiniteSet(ExpItems) /\ \A e \in ExpItems : f[e] \in Nat BY <1>5, GrowthTables
  <2> QED BY <2>1, SumNat
<1>14. left(n) \in Nat
  <2>1. n \in 0..n BY <1>1
  <2> QED BY <1>2, <2>1
<1>15. left(n) <= exp BY <1>11, <1>13, <1>14
<1>16. SumFunction(f) = exp - left(n) BY <1>11, <1>12
<1> QED BY <1>4, <1>14, <1>15, <1>16 DEF left, f

\* The experience in items.
LEMMA ExpOfSum ==
    ASSUME NEW u, \A e \in ExpItems : u[e] \in Nat
    PROVE  \E f : /\ \A e \in ExpItems : f[e] = u[e] * ExpValue[e] /\ f[e] \in Nat
                  /\ ExpOf(u) = SumFunctionOnSet(f, ExpItems)
                  /\ ExpOf(u) \in Nat
<1> DEFINE f == [e \in ExpItems |-> u[e] * ExpValue[e]]
<1>1. \A e \in ExpItems : f[e] = u[e] * ExpValue[e] /\ f[e] \in Nat
  <2>1. \A e \in ExpItems : ExpValue[e] \in Nat BY GrowthTables
  <2> QED BY <2>1
<1>2. DOMAIN f = ExpItems OBVIOUS
<1>3. ExpOf(u) = SumFunction(f) BY Zenon DEF ExpOf
<1> HIDE DEF f
<1>4. ExpOf(u) = SumFunctionOnSet(f, ExpItems) BY <1>2, <1>3, Zenon DEF SumFunction
<1>5. SumFunctionOnSet(f, ExpItems) \in Nat
  <2>1. IsFiniteSet(ExpItems) /\ \A e \in ExpItems : f[e] \in Nat BY <1>1, GrowthTables
  <2> QED BY <2>1, SumNat
<1> QED BY <1>1, <1>4, <1>5

LEMMA ItemsAddUp ==
    ASSUME NEW u, NEW v, NEW w,
           \A e \in ExpItems : u[e] \in Nat /\ v[e] \in Nat /\ w[e] = u[e] + v[e]
    PROVE  /\ ExpOf(u) \in Nat /\ ExpOf(v) \in Nat
           /\ ExpOf(w) = ExpOf(u) + ExpOf(v)
<1>0. IsFiniteSet(ExpItems) /\ \A e \in ExpItems : ExpValue[e] \in Nat BY GrowthTables
<1>1. PICK f : /\ \A e \in ExpItems : f[e] = u[e] * ExpValue[e] /\ f[e] \in Nat
               /\ ExpOf(u) = SumFunctionOnSet(f, ExpItems) /\ ExpOf(u) \in Nat
  <2>1. \A e \in ExpItems : u[e] \in Nat OBVIOUS
  <2> QED BY <2>1, ExpOfSum
<1>2. PICK g : /\ \A e \in ExpItems : g[e] = v[e] * ExpValue[e] /\ g[e] \in Nat
               /\ ExpOf(v) = SumFunctionOnSet(g, ExpItems) /\ ExpOf(v) \in Nat
  <2>1. \A e \in ExpItems : v[e] \in Nat OBVIOUS
  <2> QED BY <2>1, ExpOfSum
<1>3. PICK h : /\ \A e \in ExpItems : h[e] = w[e] * ExpValue[e] /\ h[e] \in Nat
               /\ ExpOf(w) = SumFunctionOnSet(h, ExpItems) /\ ExpOf(w) \in Nat
  <2>1. \A e \in ExpItems : w[e] \in Nat OBVIOUS
  <2> QED BY <2>1, ExpOfSum
<1>4. \A e \in ExpItems : f[e] \in Int /\ g[e] \in Int /\ h[e] = f[e] + g[e]
  <2>1. \A a, b, n \in Nat : (a + b) * n = a * n + b * n OBVIOUS
  <2>2. ASSUME NEW e \in ExpItems PROVE f[e] \in Int /\ g[e] \in Int /\ h[e] = f[e] + g[e]
    <3>1. u[e] \in Nat /\ v[e] \in Nat /\ ExpValue[e] \in Nat /\ w[e] = u[e] + v[e] BY <1>0
    <3>2. (u[e] + v[e]) * ExpValue[e] = u[e] * ExpValue[e] + v[e] * ExpValue[e]
      BY <2>1, <3>1
    <3>3. h[e] = f[e] + g[e] BY <1>1, <1>2, <1>3, <3>1, <3>2, Zenon
    <3> QED BY <1>1, <1>2, <3>3
  <2> QED BY <2>2
<1>5. SumFunctionOnSet(h, ExpItems)
        = SumFunctionOnSet(f, ExpItems) + SumFunctionOnSet(g, ExpItems)
  BY <1>0, <1>4, SumPlus
<1> QED BY <1>1, <1>2, <1>3, <1>5

\* The cole for items is a whole number.
LEMMA PriceIsWhole ==
    ASSUME NEW u, \A e \in ExpItems : u[e] \in Nat
    PROVE  /\ (ExpOf(u) * ColeRate) \div 100 \in Nat
           /\ 100 * ((ExpOf(u) * ColeRate) \div 100) = ColeRate * ExpOf(u)
<1>0. /\ IsFiniteSet(ExpItems) /\ ColeRate \in Nat
      /\ \A e \in ExpItems : ExpValue[e] \in Nat \ {0} /\ (ExpValue[e] * ColeRate) % 100 = 0
  BY GrowthTables
<1>1. PICK f : /\ \A e \in ExpItems : f[e] = u[e] * ExpValue[e] /\ f[e] \in Nat
               /\ ExpOf(u) = SumFunctionOnSet(f, ExpItems) /\ ExpOf(u) \in Nat
  BY ExpOfSum
<1> DEFINE Sum(T) == SumFunctionOnSet(f, T)
           Whole(T) == \E m \in Nat : Sum(T) * ColeRate = 100 * m
           C == {T \in SUBSET ExpItems : ~Whole(T)}
<1>2. ASSUME NEW e \in ExpItems PROVE \E m \in Nat : f[e] * ColeRate = 100 * m
  <2> DEFINE p == ExpValue[e] * ColeRate
             k == p \div 100
  <2>1. p \in Nat BY <1>0
  <2>2. p % 100 = 0 BY <1>0
  <2> HIDE DEF p
  <2>3. k \in Nat /\ p = 100 * k BY <2>1, <2>2
  <2> HIDE DEF k
  <2>4. u[e] \in Nat /\ ExpValue[e] \in Nat BY <1>0
  <2>5. \A a, b, r \in Nat : (a * b) * r = a * (b * r) OBVIOUS
  <2>6. (u[e] * ExpValue[e]) * ColeRate = u[e] * p BY <1>0, <2>4, <2>5 DEF p
  <2>7. \A a, b \in Nat : a * (100 * b) = 100 * (a * b) /\ a * b \in Nat OBVIOUS
  <2>8. u[e] * (100 * k) = 100 * (u[e] * k) /\ u[e] * k \in Nat BY <2>3, <2>4, <2>7
  <2>9. f[e] * ColeRate = 100 * (u[e] * k) BY <1>1, <2>3, <2>6, <2>8, Zenon
  <2> QED BY <2>8, <2>9
<1>3. ASSUME C # {} PROVE FALSE
  <2>1. PICK T \in C : \A U \in C : U \subseteq T => U = T
    <3>1. C \subseteq SUBSET ExpItems OBVIOUS
    <3> HIDE DEF C
    <3> QED BY <1>0, <1>3, <3>1, SmallestSubset
  <2>2. T \subseteq ExpItems /\ ~Whole(T) OBVIOUS
  <2>3. T # {}
    <3>1. Sum({}) = 0 BY SumEmpty
    <3>2. 0 * ColeRate = 100 * 0 BY <1>0
    <3> HIDE DEF Sum
    <3> QED BY <2>2, <3>1, <3>2
  <2>4. PICK x \in T : TRUE BY <2>3
  <2> DEFINE R == T \ {x}
  <2>5. R \in SUBSET ExpItems /\ R \subseteq T /\ R # T BY <2>2, <2>4
  <2>6. Whole(R)
    <3> HIDE DEF Whole, R
    <3> QED BY <2>1, <2>5
  <2>7. Sum(T) = f[x] + Sum(R) /\ Sum(R) \in Nat
    <3>1. IsFiniteSet(T) /\ \A s \in T : f[s] \in Int BY <1>0, <1>1, <2>2, FS_Subset
    <3>2. Sum(T) = f[x] + Sum(R)
      <4> HIDE DEF C
      <4> QED BY <3>1, <2>4, SumRemove
    <3>3. IsFiniteSet(R) /\ \A s \in R : f[s] \in Nat BY <1>0, <1>1, <2>5, FS_Subset
    <3> HIDE DEF R, C
    <3>4. Sum(R) \in Nat BY <3>3, SumNat
    <3> QED BY <3>2, <3>4
  <2>8. PICK m \in Nat : Sum(R) * ColeRate = 100 * m
    <3> HIDE DEF Sum, R
    <3> QED BY <2>6
  <2>9. PICK k \in Nat : f[x] * ColeRate = 100 * k BY <1>2, <2>2, <2>4
  <2> HIDE DEF Sum, R
  <2>10. f[x] \in Nat BY <1>1, <2>2, <2>4
  <2>11. \A a, b, r \in Nat : (a + b) * r = a * r + b * r OBVIOUS
  <2>12. Sum(T) * ColeRate = f[x] * ColeRate + Sum(R) * ColeRate BY <1>0, <2>7, <2>10, <2>11
  <2>13. 100 * k + 100 * m = 100 * (k + m) /\ k + m \in Nat OBVIOUS
  <2>14. Sum(T) * ColeRate = 100 * (k + m) BY <2>8, <2>9, <2>12, <2>13, Zenon
  <2> QED BY <2>2, <2>13, <2>14
<1>4. Whole(ExpItems)
  <2> HIDE DEF Whole
  <2> QED BY <1>3
<1>5. PICK m \in Nat : ExpOf(u) * ColeRate = 100 * m
  <2> HIDE DEF Sum
  <2>1. Sum(ExpItems) = ExpOf(u) BY <1>1 DEF Sum
  <2> QED BY <1>4, <2>1
<1>6. (100 * m) \div 100 = m OBVIOUS
<1>7. ExpOf(u) * ColeRate = ColeRate * ExpOf(u) BY <1>0, <1>1
<1>8. (ExpOf(u) * ColeRate) \div 100 = m BY <1>5, <1>6, Zenon
<1> QED BY <1>5, <1>7, <1>8

\* A reset returns no more than the experience it takes.
LEMMA RefundIsWithin ==
    ASSUME NEW exp \in Nat
    PROVE  LET refunds == [e \in ExpItems |-> Refunded(exp, e)]
               back == exp - Remainder(exp, Len(ExpOrder))
           IN  /\ back \in Nat /\ back <= exp /\ ExpOf(refunds) = back
               /\ \A e \in ExpItems : refunds[e] \in Nat /\ refunds[e] = Refunded(exp, e)
               /\ (back * ColeRate) \div 100 \in Nat
               /\ 100 * ((back * ColeRate) \div 100) = ColeRate * back
<1> DEFINE refunds == [e \in ExpItems |-> Refunded(exp, e)]
           back == exp - Remainder(exp, Len(ExpOrder))
<1>1. /\ \A e \in ExpItems : Refunded(exp, e) \in Nat
      /\ Remainder(exp, Len(ExpOrder)) \in Nat /\ Remainder(exp, Len(ExpOrder)) <= exp
      /\ SumFunction([e \in ExpItems |-> Refunded(exp, e) * ExpValue[e]]) = back
  BY RefundHolds, Zenon
<1>2. back \in Nat /\ back <= exp BY <1>1
<1>3. \A e \in ExpItems : refunds[e] \in Nat /\ refunds[e] = Refunded(exp, e) BY <1>1
<1>4. ExpOf(refunds) = back
  <2>1. [e \in ExpItems |-> refunds[e] * ExpValue[e]]
          = [e \in ExpItems |-> Refunded(exp, e) * ExpValue[e]]
    OBVIOUS
  <2> HIDE DEF refunds, back
  <2> QED BY <1>1, <2>1, Zenon DEF ExpOf
<1> HIDE DEF refunds, back
<1>5. (ExpOf(refunds) * ColeRate) \div 100 \in Nat
      /\ 100 * ((ExpOf(refunds) * ColeRate) \div 100) = ColeRate * ExpOf(refunds)
  BY <1>3, PriceIsWhole
<1>6. /\ (back * ColeRate) \div 100 \in Nat
      /\ 100 * ((back * ColeRate) \div 100) = ColeRate * back
  BY <1>4, <1>5, Zenon
<1> QED BY <1>2, <1>3, <1>4, <1>6 DEF refunds, back

-----------------------------------------------------------------------------
(* Characters as they are raised *)

LEMMA CharFields ==
    ASSUME NEW c \in Raised, NEW ch, CharState(c, ch)
    PROVE  /\ ch.id = c /\ ch.exp \in Nat /\ ch.increase \in Nat
           /\ ch.rarity \in FirstRarity..LastRarity
           /\ ch.page \in [Boards -> Nat \ {0}]
           /\ \A b \in Boards : OnPage(c, b, ch.page[b], ch.bits[b])
           /\ OwnedOf(ch, Boards) \subseteq AllPanels
           /\ ch.stat \in Nat /\ ch.limit \in Nat /\ ch.limit >= FirstLimit
           /\ level_limit(ch) = ch.limit + ch.increase
           /\ level_limit(ch) \in Nat \ {0}
<1>0. ch = [id |-> c, exp |-> ch.exp, rarity |-> ch.rarity, increase |-> ch.increase,
            limit |-> ch.limit, stat |-> ch.stat, page |-> ch.page, bits |-> ch.bits]
  BY Zenon DEF CharState
<1>1. /\ ch.exp \in Nat /\ ch.increase \in Nat /\ ch.rarity \in FirstRarity..LastRarity
      /\ ch.page \in [Boards -> Nat \ {0}]
      /\ \A b \in Boards : OnPage(c, b, ch.page[b], ch.bits[b])
      /\ ch.stat = Effect("stat", OwnedOf(ch, Boards))
      /\ ch.limit = FirstLimit + Effect("level limit", OwnedOf(ch, Boards))
  BY Zenon DEF CharState
<1>2. ch.id = c BY <1>0
<1>3. OwnedOf(ch, Boards) \subseteq AllPanels BY OwnedByOne
<1>4. \A e \in Effects : Effect(e, OwnedOf(ch, Boards)) \in Nat
  <2> DEFINE S == OwnedOf(ch, Boards)
  <2>1. S \in SUBSET AllPanels /\ {} \in SUBSET AllPanels /\ S \intersect {} = {} BY <1>3
  <2> HIDE DEF S
  <2>2. \A e \in Effects : Effect(e, S) \in Nat BY ONLY <2>1, PanelsAddUp
  <2> QED BY <2>2 DEF S
<1>5. FirstLimit \in Nat \ {0} BY GrowthTables
<1>6. /\ Effect("stat", OwnedOf(ch, Boards)) \in Nat
      /\ Effect("level limit", OwnedOf(ch, Boards)) \in Nat
  BY <1>4 DEF Effects
<1> DEFINE stat == ch.stat
           limit == ch.limit
           more == ch.increase
           raise == Effect("level limit", OwnedOf(ch, Boards))
<1>7. /\ stat \in Nat /\ limit \in Nat /\ limit >= FirstLimit /\ more \in Nat
      /\ limit + more \in Nat \ {0} /\ limit + more >= FirstLimit
  <2>1. stat \in Nat /\ limit = FirstLimit + raise /\ raise \in Nat /\ more \in Nat
    BY <1>1, <1>6, Zenon
  <2> HIDE DEF stat, limit, more, raise
  <2> QED BY ONLY <1>5, <2>1
<1>8. level_limit(ch) = limit + more
  <2> DEFINE n == limit + more
  <2>1. level_limit(ch) = Max({n, FirstLimit}) BY Zenon DEF level_limit
  <2>2. n \in Nat /\ n >= FirstLimit BY <1>7, Zenon
  <2> HIDE DEF n
  <2>3. Max({n, FirstLimit}) = n BY ONLY <1>5, <2>2 DEF Max
  <2> QED BY <2>1, <2>3, Zenon DEF n
<1> QED BY <1>1, <1>2, <1>3, <1>7, <1>8, Zenon

\* A character whose level limit grows can hold as much experience as before.
LEMMA CapsGrow ==
    ASSUME NEW c \in Raised, NEW ch, CharState(c, ch), NEW new, CharState(c, new),
           level_limit(ch) <= level_limit(new), HasCap(new)
    PROVE  HasCap(ch) /\ max_exp(ch) \in Nat /\ max_exp(new) \in Nat
           /\ max_exp(ch) <= max_exp(new)
<1> DEFINE l == level_limit(ch) + 1
           k == level_limit(new) + 1
<1>1. l \in Nat /\ k \in Nat /\ l > 1 /\ l <= k BY CharFields
<1>2. k \in DOMAIN LevelExp BY DEF HasCap
<1> HIDE DEF l, k
<1>3. l \in DOMAIN LevelExp /\ 1 \in DOMAIN LevelExp BY <1>1, <1>2, LevelTables
<1>4. LevelExp[1] < LevelExp[l] /\ LevelExp[1] \in Nat /\ LevelExp[l] \in Nat
      /\ LevelExp[k] \in Nat
  BY <1>1, <1>2, <1>3, LevelTables
<1>5. LevelExp[l] <= LevelExp[k]
  <2>1. CASE l = k BY <1>4, <2>1
  <2>2. CASE l # k
    <3>1. LevelExp[l] < LevelExp[k] BY <1>1, <1>2, <1>3, <2>2, LevelTables
    <3> QED BY <1>4, <3>1
  <2> QED BY <2>1, <2>2
<1>6. LevelExp[l] - 1 \in Nat /\ LevelExp[k] - 1 \in Nat /\ LevelExp[l] - 1 <= LevelExp[k] - 1
  BY <1>4, <1>5
<1> QED BY <1>3, <1>6 DEF HasCap, max_exp, l, k

\* The panels are those of the boards.
LEMMA SameOwned ==
    ASSUME NEW ch, NEW new, new.id = ch.id, new.page = ch.page, new.bits = ch.bits, NEW bs
    PROVE  OwnedOf(new, bs) = OwnedOf(ch, bs)
BY DEF OwnedOf, OwnedPanels

-----------------------------------------------------------------------------
(* The invariant: characters, rates and the sums.                          *)

GrowthInv ==
    /\ CharsKept(chars)
    /\ rates \in [Roles -> Nat] /\ \A r \in Roles : rates[r] = RoleSum(chars, r)
    /\ goods \in [Goods -> Nat]
    /\ earned \in Nat /\ skipped \in Nat /\ resets \in Nat
    /\ NothingGained /\ OverLimitIsSkipped

LEMMA GrowthTypes == GrowthInv => GrowthTypeOK /\ RaisingAddsUp
<1> SUFFICES ASSUME GrowthInv PROVE GrowthTypeOK /\ RaisingAddsUp OBVIOUS
<1>1. /\ CharsKept(chars) /\ rates \in [Roles -> Nat] /\ goods \in [Goods -> Nat]
      /\ \A r \in Roles : rates[r] = RoleSum(chars, r)
      /\ NothingGained /\ OverLimitIsSkipped
  BY Zenon DEF GrowthInv
<1>2. \A c \in Raised : CharState(c, chars[c]) BY <1>1, Zenon DEF CharsKept
<1>3. ASSUME NEW c \in Raised
      PROVE  LET ch == chars[c] IN
             /\ ch.exp \in Nat /\ ch.stat \in Nat /\ ch.limit >= FirstLimit
             /\ ch.rarity \in FirstRarity..LastRarity
             /\ \A b \in Boards : ch.page[b] \in DOMAIN BoardPages[c][b] \union {1}
                                  /\ OwnedPanels(ch, b) \subseteq AllPanels
  <2> DEFINE ch == chars[c]
  <2>1. CharState(c, ch) BY <1>2
  <2> HIDE DEF ch
  <2>2. /\ ch.exp \in Nat /\ ch.stat \in Nat /\ ch.limit >= FirstLimit
        /\ ch.rarity \in FirstRarity..LastRarity
        /\ \A b \in Boards : OnPage(c, b, ch.page[b], ch.bits[b])
        /\ OwnedOf(ch, Boards) \subseteq AllPanels
    BY <2>1, CharFields, Zenon
  <2>3. \A b \in Boards : ch.page[b] \in DOMAIN BoardPages[c][b] \union {1}
    BY <2>2 DEF OnPage
  <2>4. \A b \in Boards : OwnedPanels(ch, b) \subseteq AllPanels BY <2>2 DEF OwnedOf
  <2> QED BY <2>2, <2>3, <2>4 DEF ch
<1>4. GrowthTypeOK BY <1>1, <1>3, Zenon DEF GrowthTypeOK
<1>5. BoardsAddUp
  <2>1. \A c \in Raised : /\ chars[c].stat = SumBoards(c, "stat")
                          /\ chars[c].limit = FirstLimit + SumBoards(c, "level limit")
    BY <1>2, Zenon DEF CharState, SumBoards
  <2>2. \A r \in Roles : RoleSum(chars, r) = SumFunction([c \in {c \in Raised : RoleOf[c] = r} |->
                                                             SumBoards(c, "role rate")])
    BY Zenon DEF RoleSum, SumBoards
  <2> QED BY <1>1, <2>1, <2>2, Zenon DEF BoardsAddUp
<1> QED BY <1>1, <1>4, <1>5 DEF RaisingAddsUp

LEMMA GrowthBegins == GrowthInit => GrowthInv
<1> SUFFICES ASSUME GrowthInit PROVE GrowthInv OBVIOUS
<1>1. /\ chars = [c \in Raised |-> [id |-> c, exp |-> 0, rarity |-> FirstRarity, increase |-> 0,
                                    limit |-> FirstLimit, stat |-> 0,
                                    page |-> [b \in Boards |-> 1],
                                    bits |-> [b \in Boards |-> {}]]]
      /\ rates = [r \in Roles |-> 0] /\ goods = Stock /\ earned = 0 /\ skipped = 0 /\ resets = 0
  BY Zenon DEF GrowthInit
<1>2. /\ FirstLimit \in Nat \ {0} /\ FirstRarity \in FirstRarity..LastRarity
      /\ Stock \in [Goods -> Nat] /\ IsFiniteSet(Raised)
  <2>1. FirstRarity \in Nat /\ LastRarity \in Nat /\ FirstRarity <= LastRarity
    BY GrowthTables, Zenon
  <2>2. FirstRarity \in FirstRarity..LastRarity BY ONLY <2>1
  <2> QED BY <2>2, GrowthTables, Zenon
<1>3. Cole({}) = 0 /\ PanelItems({}) = 0 /\ \A e : Effect(e, {}) = 0
  <2>1. \A f : SumFunctionOnSet(f, {}) = 0 BY SumEmpty
  <2>2. \A f : DOMAIN f = {} => SumFunction(f) = 0 BY <2>1, Zenon DEF SumFunction
  <2>3. DOMAIN [x \in {} |-> PanelAt(x).cole] = {} /\ DOMAIN [x \in {} |-> PanelAt(x).items] = {}
    OBVIOUS
  <2>4. \A e : DOMAIN [x \in {} |-> IF PanelAt(x).effect = e THEN PanelAt(x).value ELSE 0] = {}
    OBVIOUS
  <2> QED BY <2>2, <2>3, <2>4, Zenon DEF Cole, PanelItems, Effect
<1>4. ASSUME NEW c \in Raised
      PROVE  OwnedOf(chars[c], Boards) = {} /\ CharState(c, chars[c]) /\ chars[c].exp = 0
  <2> DEFINE ch == chars[c]
  <2>1. ch = [id |-> c, exp |-> 0, rarity |-> FirstRarity, increase |-> 0,
              limit |-> FirstLimit, stat |-> 0,
              page |-> [b \in Boards |-> 1], bits |-> [b \in Boards |-> {}]]
    BY <1>1
  <2> HIDE DEF ch
  <2>2. ch.page = [b \in Boards |-> 1] /\ ch.bits = [b \in Boards |-> {}] BY <2>1
  <2>3. \A b \in Boards : ch.page[b] = 1 /\ ch.bits[b] = {} BY <2>2
  <2>4. \A b \in Boards : OwnedPanels(ch, b) = {} BY <2>3 DEF OwnedPanels
  <2>5. OwnedOf(ch, Boards) = {} BY <2>4 DEF OwnedOf
  <2>6. /\ ch = [id |-> c, exp |-> ch.exp, rarity |-> ch.rarity, increase |-> ch.increase,
                 limit |-> ch.limit, stat |-> ch.stat, page |-> ch.page, bits |-> ch.bits]
        /\ ch.exp = 0 /\ ch.increase = 0 /\ ch.rarity = FirstRarity /\ ch.limit = FirstLimit
        /\ ch.stat = 0
    BY <2>1
  <2>7. /\ Effect("stat", OwnedOf(ch, Boards)) = 0
        /\ Effect("level limit", OwnedOf(ch, Boards)) = 0
    BY <1>3, <2>5, Zenon
  <2>8. /\ ch.exp \in Nat /\ ch.increase \in Nat /\ ch.rarity \in FirstRarity..LastRarity
        /\ ch.stat = Effect("stat", OwnedOf(ch, Boards))
        /\ ch.limit = FirstLimit + Effect("level limit", OwnedOf(ch, Boards))
    <3>1. /\ ch.exp = 0 /\ ch.increase = 0 /\ ch.rarity = FirstRarity /\ ch.limit = FirstLimit
          /\ ch.stat = 0
      BY <2>6
    <3>2. FirstLimit + 0 = FirstLimit /\ 0 \in Nat BY <1>2
    <3> QED BY <1>2, <2>7, <3>1, <3>2, Zenon
  <2>9. /\ ch.page \in [Boards -> Nat \ {0}] /\ DOMAIN ch.bits = Boards
        /\ ch.bits = [b \in Boards |-> ch.bits[b]]
        /\ \A b \in Boards : OnPage(c, b, ch.page[b], ch.bits[b])
    BY <2>2, <2>3 DEF OnPage
  <2>10. CharState(c, ch) BY <2>6, <2>8, <2>9, Zenon DEF CharState
  <2> QED BY <2>5, <2>6, <2>10 DEF ch
<1>5. CharsKept(chars)
  <2>1. chars = [c \in Raised |-> chars[c]] BY <1>1
  <2> QED BY <1>4, <2>1, Zenon DEF CharsKept
<1>6. \A S : \A f : DOMAIN f = S /\ S \subseteq Raised /\ (\A s \in S : f[s] = 0)
                    => SumFunction(f) = 0
  <2> SUFFICES ASSUME NEW S, S \subseteq Raised, NEW f, DOMAIN f = S, \A s \in S : f[s] = 0
               PROVE  SumFunction(f) = 0
    BY Zenon
  <2> DEFINE C == {T \in SUBSET S : SumFunctionOnSet(f, T) # 0}
  <2>0. IsFiniteSet(S) BY <1>2, FS_Subset
  <2>1. ASSUME C # {} PROVE FALSE
    <3>1. PICK T \in C : \A U \in C : U \subseteq T => U = T
      <4>1. C \subseteq SUBSET S OBVIOUS
      <4> HIDE DEF C
      <4> QED BY <2>0, <2>1, <4>1, SmallestSubset
    <3>2. T # {} BY SumEmpty
    <3>3. PICK x \in T : TRUE BY <3>2
    <3>4. SumFunctionOnSet(f, T \ {x}) = 0
      <4>1. T \ {x} \in SUBSET S /\ T \ {x} \subseteq T /\ T \ {x} # T BY <3>3
      <4> QED BY <3>1, <4>1
    <3>5. T \subseteq S OBVIOUS
    <3>6. IsFiniteSet(T) /\ \A s \in T : f[s] \in Int BY <2>0, <3>5, FS_Subset
    <3>7. SumFunctionOnSet(f, T) = f[x] + SumFunctionOnSet(f, T \ {x})
      <4> HIDE DEF C
      <4> QED BY <3>3, <3>6, SumRemove
    <3>8. SumFunctionOnSet(f, T) = 0 BY <3>3, <3>4, <3>5, <3>7
    <3> QED BY <3>8
  <2>2. SumFunctionOnSet(f, S) = 0 BY <2>1
  <2> QED BY <2>2, Zenon DEF SumFunction
<1>7. \A r \in Roles : RoleSum(chars, r) = 0
  <2> SUFFICES ASSUME NEW r \in Roles PROVE RoleSum(chars, r) = 0 OBVIOUS
  <2> DEFINE S == {c \in Raised : RoleOf[c] = r}
             f == [c \in S |-> Effect("role rate", OwnedOf(chars[c], Boards))]
  <2>1. DOMAIN f = S /\ S \subseteq Raised OBVIOUS
  <2>2. \A c \in S : f[c] = 0
    <3>1. \A c \in S : OwnedOf(chars[c], Boards) = {} BY <1>4
    <3> QED BY <1>3, <3>1
  <2>3. RoleSum(chars, r) = SumFunction(f) BY Zenon DEF RoleSum
  <2> HIDE DEF f, S
  <2> QED BY <1>6, <2>1, <2>2, <2>3
<1>8. InExp = 0
  <2> DEFINE f == [c \in Raised |-> chars[c].exp]
  <2>1. DOMAIN f = Raised /\ \A c \in Raised : f[c] = 0 BY <1>4
  <2>2. InExp = SumFunction(f) BY Zenon DEF InExp
  <2> HIDE DEF f
  <2> QED BY <1>6, <2>1, <2>2
<1>9. AllOwned = {}
  <2>1. \A c \in Raised : OwnedOf(chars[c], Boards) = {} BY <1>4
  <2> QED BY <2>1 DEF AllOwned
<1>10. NothingGained
  <2>1. Cole(AllOwned) = 0 /\ PanelItems(AllOwned) = 0 BY <1>3, <1>9
  <2>2. /\ Stock["panel item"] \in Nat /\ Stock["cole"] \in Nat /\ ColeRate \in Nat
        /\ \A e \in ExpItems : Stock[e] \in Nat
    <3>1. "panel item" \in Goods /\ "cole" \in Goods /\ ExpItems \subseteq Goods BY DEF Goods
    <3> QED BY <1>2, <3>1, GrowthTables
  <2>3. ExpOf(Stock) \in Nat BY <2>2, ExpOfSum
  <2> DEFINE refunds == Stock["panel item"]
             cole == Stock["cole"]
             exp == ExpOf(Stock)
  <2>4. /\ refunds \in Nat /\ cole \in Nat /\ exp \in Nat /\ ColeRate \in Nat
    BY <2>2, <2>3
  <2> HIDE DEF refunds, cole, exp
  <2>5. /\ refunds + 0 = refunds /\ exp + 0 <= exp + 0
        /\ 100 * (cole + 0) + ColeRate * 0 <= 100 * cole + ColeRate * 0
    BY ONLY <2>4
  <2> QED BY <1>1, <1>8, <2>1, <2>5, Zenon DEF NothingGained, refunds, cole, exp
<1>11. OverLimitIsSkipped
  <2> SUFFICES ASSUME NEW c \in Raised, HasCap(chars[c])
               PROVE  chars[c].exp <= max_exp(chars[c]) + skipped
    BY DEF OverLimitIsSkipped
  <2>1. CharState(c, chars[c]) /\ chars[c].exp = 0 BY <1>4
  <2>2. level_limit(chars[c]) <= level_limit(chars[c]) BY <2>1, CharFields
  <2>3. max_exp(chars[c]) \in Nat BY <2>1, <2>2, CapsGrow
  <2> QED BY <1>1, <2>1, <2>3
<1>12. rates \in [Roles -> Nat] /\ \A r \in Roles : rates[r] = RoleSum(chars, r) BY <1>1, <1>7
<1>13. goods \in [Goods -> Nat] /\ earned \in Nat /\ skipped \in Nat /\ resets \in Nat
  BY <1>1, <1>2
<1> QED BY <1>5, <1>10, <1>11, <1>12, <1>13 DEF GrowthInv

-----------------------------------------------------------------------------
(* Steps that leave the panels alone *)

Fields(ch, exp, rarity, increase) ==
    [id |-> ch.id, exp |-> exp, rarity |-> rarity, increase |-> increase,
     limit |-> ch.limit, stat |-> ch.stat, page |-> ch.page, bits |-> ch.bits]

LEMMA FieldsState ==
    ASSUME NEW c \in Raised, NEW ch, CharState(c, ch),
           NEW exp \in Nat, NEW rarity \in FirstRarity..LastRarity, NEW increase \in Nat,
           NEW new, new = Fields(ch, exp, rarity, increase)
    PROVE  /\ CharState(c, new) /\ \A bs : OwnedOf(new, bs) = OwnedOf(ch, bs)
           /\ new.exp = exp /\ new.rarity = rarity /\ new.increase = increase
           /\ new.limit = ch.limit
<1>1. /\ new.id = ch.id /\ new.exp = exp /\ new.rarity = rarity /\ new.increase = increase
      /\ new.limit = ch.limit /\ new.stat = ch.stat /\ new.page = ch.page
      /\ new.bits = ch.bits
  BY DEF Fields
<1>2. \A bs : OwnedOf(new, bs) = OwnedOf(ch, bs) BY <1>1, SameOwned
<1>3. ch.id = c BY CharFields
<1>4. new = [id |-> c, exp |-> new.exp, rarity |-> new.rarity, increase |-> new.increase,
             limit |-> new.limit, stat |-> new.stat, page |-> new.page, bits |-> new.bits]
  BY <1>1, <1>3, Zenon DEF Fields
<1>5. /\ ch.page \in [Boards -> Nat \ {0}] /\ DOMAIN ch.bits = Boards
      /\ ch.bits = [b \in Boards |-> ch.bits[b]]
      /\ \A b \in Boards : OnPage(c, b, ch.page[b], ch.bits[b])
      /\ ch.stat = Effect("stat", OwnedOf(ch, Boards))
      /\ ch.limit = FirstLimit + Effect("level limit", OwnedOf(ch, Boards))
  BY Zenon DEF CharState
<1>6. CharState(c, new) BY <1>1, <1>2, <1>4, <1>5, Zenon DEF CharState
<1> QED BY <1>1, <1>2, <1>6

\* What the invariant says of the numbers.
LEMMA GrowthNumbers ==
    ASSUME GrowthInv
    PROVE  /\ CharsKept(chars) /\ \A c \in Raised : CharState(c, chars[c])
           /\ AllOwned = OwnedIn(chars) /\ InExp = ExpIn(chars)
           /\ goods \in [Goods -> Nat] /\ ExpItems \subseteq Goods
           /\ \A e \in ExpItems : goods[e] \in Nat
           /\ goods["cole"] \in Nat /\ goods["panel item"] \in Nat
           /\ ExpOf(goods) \in Nat
           /\ Stock["cole"] \in Nat /\ Stock["panel item"] \in Nat /\ ExpOf(Stock) \in Nat
           /\ ColeRate \in Nat /\ QuestExp \in Nat
           /\ earned \in Nat /\ skipped \in Nat /\ resets \in Nat
<1>1. /\ CharsKept(chars) /\ goods \in [Goods -> Nat]
      /\ earned \in Nat /\ skipped \in Nat /\ resets \in Nat
  BY Zenon DEF GrowthInv
<1>2. \A c \in Raised : CharState(c, chars[c]) BY <1>1, Zenon DEF CharsKept
<1>3. AllOwned = OwnedIn(chars) /\ InExp = ExpIn(chars)
  BY Zenon DEF AllOwned, OwnedIn, InExp, ExpIn
<1>4. /\ "panel item" \in Goods /\ "cole" \in Goods /\ ExpItems \subseteq Goods BY DEF Goods
<1>5. \A s \in [Goods -> Nat] : /\ s["cole"] \in Nat /\ s["panel item"] \in Nat
                               /\ \A e \in ExpItems : s[e] \in Nat
  BY <1>4
<1>6. \A s \in [Goods -> Nat] : ExpOf(s) \in Nat
  <2> SUFFICES ASSUME NEW s \in [Goods -> Nat] PROVE ExpOf(s) \in Nat OBVIOUS
  <2>1. \A e \in ExpItems : s[e] \in Nat BY <1>5
  <2> QED BY <2>1, ExpOfSum
<1>7. Stock \in [Goods -> Nat] /\ ColeRate \in Nat /\ QuestExp \in Nat BY GrowthTables
<1> QED BY <1>1, <1>2, <1>3, <1>4, <1>5, <1>6, <1>7, Zenon

\* One character over its limit by no more than was skipped, and the others
\* as they were.
LEMMA OverLimitKept ==
    ASSUME GrowthInv, NEW c \in Raised, NEW new, CharState(c, new),
           chars' = [chars EXCEPT ![c] = new],
           skipped' \in Nat, skipped <= skipped',
           HasCap(new) => new.exp <= max_exp(new) + skipped'
    PROVE  OverLimitIsSkipped'
<1>1. /\ CharsKept(chars) /\ \A d \in Raised : CharState(d, chars[d])
      /\ skipped \in Nat
  BY GrowthNumbers
<1>2. chars'[c] = new /\ \A d \in Raised : d # c => chars'[d] = chars[d]
  BY <1>1 DEF CharsKept
<1>3. ASSUME NEW d \in Raised, HasCap(chars'[d])
      PROVE  chars'[d].exp <= max_exp(chars'[d]) + skipped'
  <2>1. CASE d = c BY <1>2, <1>3, <2>1
  <2>2. CASE d # c
    <3> DEFINE ch == chars[d]
    <3>1. chars'[d] = ch BY <1>2, <2>2
    <3>2. CharState(d, ch) BY <1>1
    <3>3. OverLimitIsSkipped BY Zenon DEF GrowthInv
    <3>4. HasCap(ch) /\ ch.exp <= max_exp(ch) + skipped
      <4>1. HasCap(ch)
        <5> HIDE DEF ch
        <5> QED BY <1>3, <3>1
      <4> QED BY <4>1, <3>3, Zenon DEF OverLimitIsSkipped
    <3> HIDE DEF ch
    <3>5. level_limit(ch) <= level_limit(ch) BY <3>2, CharFields
    <3>6. max_exp(ch) \in Nat BY <3>2, <3>4, <3>5, CapsGrow
    <3>7. ch.exp \in Nat BY <3>2, CharFields
    <3> DEFINE m == max_exp(ch)
               e == ch.exp
    <3>8. e \in Nat /\ m \in Nat /\ e <= m + skipped BY <3>4, <3>6, <3>7, Zenon
    <3> HIDE DEF m, e
    <3>9. e <= m + skipped'
      <4>1. \A a, b, u, v \in Nat : a <= b + u /\ u <= v => a <= b + v OBVIOUS
      <4> QED BY <1>1, <3>8, <4>1, Zenon
    <3> QED BY <3>1, <3>9, Zenon DEF m, e
  <2> QED BY <2>1, <2>2
<1> QED BY <1>3 DEF OverLimitIsSkipped

\* Experience, rarity and releases change no sum but that of the experience.
LEMMA FieldsChange ==
    ASSUME GrowthInv, NEW c \in Raised,
           NEW exp \in Nat, NEW rarity \in FirstRarity..LastRarity, NEW increase \in Nat,
           chars' = [chars EXCEPT ![c] = Fields(chars[c], exp, rarity, increase)],
           rates' = rates
    PROVE  /\ CharsKept(chars') /\ CharState(c, Fields(chars[c], exp, rarity, increase))
           /\ rates' \in [Roles -> Nat] /\ \A r \in Roles : rates'[r] = RoleSum(chars', r)
           /\ Cole(AllOwned) \in Nat /\ Cole(AllOwned') = Cole(AllOwned)
           /\ PanelItems(AllOwned) \in Nat /\ PanelItems(AllOwned') = PanelItems(AllOwned)
           /\ InExp \in Nat /\ InExp' \in Nat /\ chars[c].exp \in Nat
           /\ InExp' + chars[c].exp = InExp + exp
<1> DEFINE ch == chars[c]
           new == Fields(ch, exp, rarity, increase)
<1>1. CharsKept(chars) /\ CharState(c, ch) BY GrowthNumbers
<1>2. rates \in [Roles -> Nat] /\ \A r \in Roles : rates[r] = RoleSum(chars, r)
  BY Zenon DEF GrowthInv
<1>3. CharState(c, new) /\ OwnedOf(new, Boards) = OwnedOf(ch, Boards) /\ new.exp = exp
  <2> HIDE DEF new, ch
  <2>1. new = Fields(ch, exp, rarity, increase) BY DEF new
  <2> QED BY <1>1, <2>1, FieldsState
<1>4. chars' = [chars EXCEPT ![c] = new] OBVIOUS
<1> HIDE DEF new
<1>5. /\ CharsKept(chars')
      /\ Cole(OwnedIn(chars)) \in Nat /\ PanelItems(OwnedIn(chars)) \in Nat
      /\ ExpIn(chars) \in Nat
      /\ Cole(OwnedIn(chars')) + Cole(OwnedOf(ch, Boards))
           = Cole(OwnedIn(chars)) + Cole(OwnedOf(new, Boards))
      /\ PanelItems(OwnedIn(chars')) + PanelItems(OwnedOf(ch, Boards))
           = PanelItems(OwnedIn(chars)) + PanelItems(OwnedOf(new, Boards))
      /\ ExpIn(chars') + ch.exp = ExpIn(chars) + new.exp
      /\ \A r \in Roles :
           RoleSum(chars', r) = IF r = RoleOf[c]
                               THEN RoleSum(chars, r) - Effect("role rate", OwnedOf(ch, Boards))
                                    + Effect("role rate", OwnedOf(new, Boards))
                               ELSE RoleSum(chars, r)
  <2>1. OneChanged(chars, c, new, chars') BY ONLY <1>1, <1>3, <1>4, c \in Raised, OneCharacter
  <2> HIDE DEF ch
  <2>2. ch = chars[c] BY DEF ch
  <2> QED BY <2>1, <2>2, Zenon DEF OneChanged
<1>6. InExp' = ExpIn(chars') /\ AllOwned' = OwnedIn(chars')
      /\ InExp = ExpIn(chars) /\ AllOwned = OwnedIn(chars)
  BY Zenon DEF InExp, ExpIn, AllOwned, OwnedIn
<1> DEFINE S == OwnedOf(ch, Boards)
           T == OwnedOf(ch, {})
<1>7. Cole(S) \in Nat /\ PanelItems(S) \in Nat /\ Effect("role rate", S) \in Nat
  <2>1. S \in SUBSET AllPanels BY <1>1, OwnedByOne
  <2>2. {} \in SUBSET AllPanels /\ S \intersect {} = {} OBVIOUS
  <2> HIDE DEF S
  <2> QED BY <2>1, <2>2, PanelsAddUp DEF Effects
<1> HIDE DEF S, T
<1>8. CharsKept(chars') /\ \A d \in Raised : CharState(d, chars'[d]) BY <1>5, Zenon DEF CharsKept
<1>9. /\ OwnedIn(chars') \subseteq AllPanels
      /\ Cole(OwnedIn(chars')) \in Nat /\ PanelItems(OwnedIn(chars')) \in Nat
      /\ ExpIn(chars') \in Nat
  <2>1. chars' = [chars' EXCEPT ![c] = chars'[c]] BY <1>8 DEF CharsKept
  <2>2. CharState(c, chars'[c]) BY <1>8
  <2>3. OneChanged(chars', c, chars'[c], chars')
    BY ONLY <1>8, <2>1, <2>2, c \in Raised, OneCharacter
  <2> QED BY <2>3, Zenon DEF OneChanged
<1>10. Cole(OwnedIn(chars')) = Cole(OwnedIn(chars))
  <2> DEFINE x == Cole(OwnedIn(chars))
             y == Cole(OwnedIn(chars'))
             z == Cole(S)
  <2>1. y + z = x + z BY <1>3, <1>5, Zenon DEF S
  <2>2. x \in Nat /\ y \in Nat /\ z \in Nat BY <1>5, <1>7, <1>9, Zenon
  <2> HIDE DEF x, y, z
  <2>3. y = x BY ONLY <2>1, <2>2
  <2> QED BY <2>3 DEF x, y
<1>11. PanelItems(OwnedIn(chars')) = PanelItems(OwnedIn(chars))
  <2> DEFINE x == PanelItems(OwnedIn(chars))
             y == PanelItems(OwnedIn(chars'))
             z == PanelItems(S)
  <2>1. y + z = x + z BY <1>3, <1>5, Zenon DEF S
  <2>2. x \in Nat /\ y \in Nat /\ z \in Nat BY <1>5, <1>7, <1>9, Zenon
  <2> HIDE DEF x, y, z
  <2>3. y = x BY ONLY <2>1, <2>2
  <2> QED BY <2>3 DEF x, y
<1>12. \A r \in Roles : rates'[r] = RoleSum(chars', r)
  <2> SUFFICES ASSUME NEW r \in Roles PROVE rates[r] = RoleSum(chars', r) OBVIOUS
  <2>1. rates[r] \in Nat /\ rates[r] = RoleSum(chars, r) BY <1>2
  <2>2. RoleSum(chars', r) = IF r = RoleOf[c]
                             THEN RoleSum(chars, r) - Effect("role rate", S)
                                  + Effect("role rate", S)
                             ELSE RoleSum(chars, r)
    BY <1>3, <1>5, Zenon DEF S
  <2>3. \A a, b \in Nat : a - b + b = a OBVIOUS
  <2>4. RoleSum(chars, r) - Effect("role rate", S) + Effect("role rate", S) = RoleSum(chars, r)
    BY <1>7, <2>1, <2>3
  <2> QED BY <2>1, <2>2, <2>4
<1>13. ch.exp \in Nat BY <1>1, CharFields
<1>14. ExpIn(chars') + ch.exp = ExpIn(chars) + exp BY <1>3, <1>5, Zenon
<1> QED BY <1>1, <1>2, <1>3, <1>5, <1>6, <1>8, <1>9, <1>10, <1>11, <1>12, <1>13, <1>14, Zenon
        DEF new

LEMMA ZeroAdds == \A a \in Nat : a + 0 = a /\ a <= a /\ a * 0 = 0
OBVIOUS

LEMMA RateGrows ==
    ASSUME NEW a \in Nat, NEW b \in Nat, NEW price \in Nat, NEW rate \in Nat, a <= b + price
    PROVE  rate * a <= rate * b + rate * price
<1>1. b + price \in Int /\ a \in Int OBVIOUS
<1>2. a * rate <= (b + price) * rate BY <1>1, ProductOrder
<1>3. (b + price) * rate = rate * b + rate * price /\ a * rate = rate * a OBVIOUS
<1> QED BY <1>2, <1>3

\* Experience that was paid for, or gained in quests, changes no account.
LEMMA FieldsKeep ==
    ASSUME GrowthInv, NEW c \in Raised,
           NEW exp \in Nat, NEW rarity \in FirstRarity..LastRarity, NEW increase \in Nat,
           chars' = [chars EXCEPT ![c] = Fields(chars[c], exp, rarity, increase)],
           rates' = rates,
           goods' \in [Goods -> Nat], goods'["panel item"] = goods["panel item"],
           NEW gained \in Nat, earned' = earned + gained,
           skipped' \in Nat, skipped <= skipped', resets' \in Nat,
           NEW price \in Nat, exp <= chars[c].exp + price,
           ExpOf(goods') + price <= ExpOf(goods) + gained,
           100 * goods'["cole"] + ColeRate * price <= 100 * goods["cole"] + ColeRate * gained,
           HasCap(Fields(chars[c], exp, rarity, increase))
             => exp <= max_exp(Fields(chars[c], exp, rarity, increase)) + skipped'
    PROVE  GrowthInv'
<1> DEFINE new == Fields(chars[c], exp, rarity, increase)
<1>1. /\ CharsKept(chars') /\ CharState(c, new)
      /\ rates' \in [Roles -> Nat] /\ \A r \in Roles : rates'[r] = RoleSum(chars', r)
      /\ Cole(AllOwned) \in Nat /\ Cole(AllOwned') = Cole(AllOwned)
      /\ PanelItems(AllOwned) \in Nat /\ PanelItems(AllOwned') = PanelItems(AllOwned)
      /\ InExp \in Nat /\ InExp' \in Nat /\ chars[c].exp \in Nat
      /\ InExp' + chars[c].exp = InExp + exp
  BY FieldsChange
<1>2. /\ goods["cole"] \in Nat /\ goods["panel item"] \in Nat /\ ExpOf(goods) \in Nat
      /\ Stock["cole"] \in Nat /\ Stock["panel item"] \in Nat /\ ExpOf(Stock) \in Nat
      /\ ColeRate \in Nat /\ earned \in Nat
  BY GrowthNumbers
<1>3. goods'["cole"] \in Nat /\ goods'["panel item"] \in Nat /\ ExpOf(goods') \in Nat
  <2>1. "cole" \in Goods /\ "panel item" \in Goods /\ ExpItems \subseteq Goods BY DEF Goods
  <2>2. \A e \in ExpItems : goods'[e] \in Nat BY <2>1
  <2>3. ExpOf(goods') \in Nat BY <2>2, ExpOfSum
  <2> QED BY <2>1, <2>3
<1>4. new.exp = exp BY DEF Fields
<1>5. OverLimitIsSkipped'
  <2>1. chars' = [chars EXCEPT ![c] = new] OBVIOUS
  <2>2. HasCap(new) => new.exp <= max_exp(new) + skipped' BY <1>4
  <2> HIDE DEF new
  <2> QED BY <1>1, <2>1, <2>2, OverLimitKept
<1>6. NothingGained'
  <2> DEFINE x == chars[c].exp
             cole == goods["cole"]
             cole2 == goods'["cole"]
             owned == Cole(AllOwned)
             held == ExpOf(goods)
             held2 == ExpOf(goods')
             in == InExp
             in2 == InExp'
             stock == Stock["cole"]
             begin == ExpOf(Stock)
             rate == ColeRate
             e1 == earned
             e2 == earned'
  <2>0. 100 * (cole + owned) + rate * in <= 100 * stock + rate * e1
    BY DEF GrowthInv, NothingGained
  <2>1. /\ goods["panel item"] + PanelItems(AllOwned) = Stock["panel item"]
        /\ held + in <= begin + e1
    BY DEF GrowthInv, NothingGained
  <2>2. /\ x \in Nat /\ cole \in Nat /\ cole2 \in Nat /\ owned \in Nat /\ held \in Nat
        /\ held2 \in Nat /\ in \in Nat /\ in2 \in Nat /\ stock \in Nat /\ begin \in Nat
        /\ rate \in Nat /\ e1 \in Nat /\ e2 = e1 + gained
        /\ exp <= x + price /\ held2 + price <= held + gained
        /\ in2 + x = in + exp
    BY <1>1, <1>2, <1>3, Zenon
  <2> HIDE DEF x, cole, cole2, owned, held, held2, in, in2, stock, begin, rate, e1, e2
  <2>3. in2 <= in + price /\ held2 + in2 <= begin + e2
    <3>1. /\ x \in Nat /\ in \in Nat /\ in2 \in Nat /\ exp \in Nat /\ price \in Nat
          /\ exp <= x + price /\ in2 + x = in + exp
      BY <2>2, Zenon
    <3>2. in2 <= in + price BY ONLY <3>1
    <3>3. /\ held \in Nat /\ held2 \in Nat /\ begin \in Nat /\ e1 \in Nat /\ e2 = e1 + gained
          /\ held2 + price <= held + gained /\ held + in <= begin + e1 /\ gained \in Nat
      BY <2>1, <2>2, Zenon
    <3>4. held2 + in2 <= begin + e2 BY ONLY <3>1, <3>2, <3>3
    <3> QED BY <3>2, <3>4
  <2>4. rate * in2 <= rate * in + rate * price
    BY ONLY <2>2, <2>3, price \in Nat, RateGrows
  <2>5. rate * e2 = rate * e1 + rate * gained BY ONLY <2>2, gained \in Nat
  <2>6. 100 * (cole2 + owned) + rate * in2 <= 100 * stock + rate * e2
    <3> DEFINE p == rate * price
               g == rate * gained
               i == rate * in
               j == rate * in2
               k == rate * e1
    <3>1. \A a, b \in Nat : a * b \in Nat BY NatClosed, Zenon
    <3>2. p \in Nat /\ g \in Nat /\ i \in Nat /\ j \in Nat /\ k \in Nat
      BY <2>2, <3>1, Zenon
    <3>3. /\ 100 * cole2 + p <= 100 * cole + g
          /\ 100 * (cole + owned) + i <= 100 * stock + k
          /\ j <= i + p
      BY <2>0, <2>4, Zenon DEF cole, cole2, rate
    <3> HIDE DEF p, g, i, j, k
    <3>4. 100 * (cole2 + owned) + j <= 100 * stock + (k + g) BY ONLY <2>2, <3>2, <3>3
    <3> QED BY <2>5, <3>4, Zenon DEF g, j, k
  <2>7. goods'["panel item"] + PanelItems(AllOwned') = Stock["panel item"]
    BY <1>1, <2>1, Zenon
  <2> USE DEF cole2, owned, held2, in2, stock, begin, rate, e2
  <2>8. /\ goods'["panel item"] + PanelItems(AllOwned') = Stock["panel item"]
        /\ ExpOf(goods') + InExp' <= ExpOf(Stock) + earned'
        /\ 100 * (goods'["cole"] + Cole(AllOwned')) + ColeRate * InExp'
             <= 100 * Stock["cole"] + ColeRate * earned'
    BY <1>1, <2>3, <2>6, <2>7, Zenon
  <2> QED BY <2>8, Zenon DEF NothingGained, ExpOf, PanelItems, Cole, PanelAt, panels
<1>7. earned' \in Nat BY <1>2, NatClosed, Zenon
<1> QED BY <1>1, <1>5, <1>6, <1>7, Zenon DEF GrowthInv, CharsKept, CharState, RoleSum, OnPage

LEMMA FieldUpdates ==
    ASSUME GrowthInv, NEW c \in Raised, NEW v
    PROVE  LET ch == chars[c] IN
           /\ [chars EXCEPT ![c].exp = v]
                = [chars EXCEPT ![c] = Fields(ch, v, ch.rarity, ch.increase)]
           /\ [chars EXCEPT ![c].rarity = v]
                = [chars EXCEPT ![c] = Fields(ch, ch.exp, v, ch.increase)]
           /\ [chars EXCEPT ![c].increase = v]
                = [chars EXCEPT ![c] = Fields(ch, ch.exp, ch.rarity, v)]
           /\ ch.exp \in Nat /\ ch.rarity \in FirstRarity..LastRarity /\ ch.increase \in Nat
<1> DEFINE ch == chars[c]
<1>1. CharState(c, ch) BY GrowthNumbers
<1>2. ch.exp \in Nat /\ ch.rarity \in FirstRarity..LastRarity /\ ch.increase \in Nat /\ ch.id = c
  BY <1>1, CharFields
<1>3. ch = [id |-> c, exp |-> ch.exp, rarity |-> ch.rarity, increase |-> ch.increase,
            limit |-> ch.limit, stat |-> ch.stat, page |-> ch.page, bits |-> ch.bits]
  BY <1>1, Zenon DEF CharState
<1> HIDE DEF ch
<1>4. /\ [ch EXCEPT !.exp = v] = Fields(ch, v, ch.rarity, ch.increase)
      /\ [ch EXCEPT !.rarity = v] = Fields(ch, ch.exp, v, ch.increase)
      /\ [ch EXCEPT !.increase = v] = Fields(ch, ch.exp, ch.rarity, v)
  BY <1>2, <1>3 DEF Fields
<1>5. /\ [chars EXCEPT ![c].exp = v] = [chars EXCEPT ![c] = [ch EXCEPT !.exp = v]]
      /\ [chars EXCEPT ![c].rarity = v] = [chars EXCEPT ![c] = [ch EXCEPT !.rarity = v]]
      /\ [chars EXCEPT ![c].increase = v] = [chars EXCEPT ![c] = [ch EXCEPT !.increase = v]]
  BY DEF ch
<1> QED BY <1>2, <1>4, <1>5, Zenon DEF ch

LEMMA SpendTakes ==
    ASSUME GrowthInv, NEW needed, DOMAIN needed \subseteq Goods,
           \A g \in DOMAIN needed : needed[g] \in Nat, CanSpend(needed)
    PROVE  /\ spend(needed) \in [Goods -> Nat]
           /\ \A g \in Goods : g \notin DOMAIN needed => spend(needed)[g] = goods[g]
           /\ \A g \in DOMAIN needed : spend(needed)[g] \in Nat /\ spend(needed)[g] + needed[g] = goods[g]
<1>1. goods \in [Goods -> Nat] BY GrowthNumbers
<1>2. \A g \in DOMAIN needed : goods[g] >= needed[g] BY DEF CanSpend
<1>3. \A g \in Goods : spend(needed)[g] = goods[g] - (IF g \in DOMAIN needed THEN needed[g] ELSE 0)
  BY DEF spend
<1>4. ASSUME NEW g \in Goods PROVE g \notin DOMAIN needed => spend(needed)[g] = goods[g]
  <2>1. goods[g] \in Nat BY <1>1
  <2> QED BY <1>3, <2>1
<1>5. ASSUME NEW g \in DOMAIN needed
      PROVE  spend(needed)[g] \in Nat /\ spend(needed)[g] + needed[g] = goods[g]
  <2>1. goods[g] \in Nat /\ needed[g] \in Nat /\ goods[g] >= needed[g] BY <1>1, <1>2
  <2>2. spend(needed)[g] = goods[g] - needed[g] BY <1>3
  <2> QED BY <2>1, <2>2
<1>6. \A g \in Goods : spend(needed)[g] \in Nat
  <2>1. \A g \in Goods : goods[g] \in Nat BY <1>1
  <2> QED BY <1>4, <1>5, <2>1
<1>7. spend(needed) \in [Goods -> Nat]
  <2>1. spend(needed) = [g \in Goods |-> spend(needed)[g]] BY DEF spend
  <2> QED BY <1>6, <2>1
<1> QED BY <1>4, <1>5, <1>7

LEMMA SameItems ==
    ASSUME NEW u, NEW v, \A e \in ExpItems : u[e] = v[e]
    PROVE  ExpOf(u) = ExpOf(v)
<1>1. [e \in ExpItems |-> u[e] * ExpValue[e]] = [e \in ExpItems |-> v[e] * ExpValue[e]]
  OBVIOUS
<1> QED BY <1>1, Zenon DEF ExpOf

\* Pieces and releases cost no experience, and let a character have no less.
LEMMA PlainFields ==
    ASSUME GrowthInv, NEW c \in Raised,
           NEW rarity, rarity \in FirstRarity..LastRarity, NEW increase \in Nat,
           increase >= chars[c].increase,
           chars' = [chars EXCEPT ![c] = Fields(chars[c], chars[c].exp, rarity, increase)],
           NEW item, item \in {"piece", "release item"}, NEW count \in Nat,
           Spent([g \in {item} |-> count]),
           UNCHANGED <<rates, earned, skipped, resets>>
    PROVE  GrowthInv'
<1> DEFINE ch == chars[c]
           exp == ch.exp
           new == Fields(ch, exp, rarity, increase)
           needed == [g \in {item} |-> count]
<1>1. /\ CharState(c, ch) /\ goods["cole"] \in Nat /\ goods["panel item"] \in Nat
      /\ goods \in [Goods -> Nat]
      /\ ExpOf(goods) \in Nat /\ ColeRate \in Nat /\ earned \in Nat /\ skipped \in Nat
      /\ resets \in Nat
  BY GrowthNumbers, Zenon
<1>2. exp \in Nat BY <1>1, CharFields
<1>3. /\ goods' = spend(needed) /\ goods' \in [Goods -> Nat]
      /\ \A g \in Goods : g # item => goods'[g] = goods[g]
  <2>1. DOMAIN needed \subseteq Goods /\ (\A g \in DOMAIN needed : needed[g] \in Nat) /\ DOMAIN needed = {item}
    BY DEF Goods
  <2>2. CanSpend(needed) /\ goods' = spend(needed) BY Zenon DEF Spent
  <2> HIDE DEF needed
  <2>3. /\ spend(needed) \in [Goods -> Nat]
        /\ \A g \in Goods : g \notin DOMAIN needed => spend(needed)[g] = goods[g]
    BY <2>1, <2>2, SpendTakes
  <2> QED BY <2>1, <2>2, <2>3
<1>4. /\ goods'["cole"] = goods["cole"] /\ goods'["panel item"] = goods["panel item"]
      /\ \A e \in ExpItems : goods'[e] = goods[e]
  <2>1. /\ "cole" \in Goods /\ "cole" # item /\ "panel item" \in Goods /\ "panel item" # item
    BY DEF Goods
  <2>2. \A e \in ExpItems : e \in Goods /\ e # item BY GrowthTables DEF Goods
  <2> QED BY <1>3, <2>1, <2>2
<1>5. ExpOf(goods') = ExpOf(goods) BY <1>4, SameItems
<1>6. CharState(c, new) /\ new.exp = exp /\ new.limit = ch.limit /\ new.increase = increase
  <2> HIDE DEF new, ch
  <2>1. new = Fields(ch, exp, rarity, increase) BY DEF new
  <2> HIDE DEF exp
  <2>2. CharState(c, ch) /\ exp \in Nat /\ rarity \in FirstRarity..LastRarity
    BY <1>1, <1>2, Zenon
  <2> QED BY ONLY <2>1, <2>2, increase \in Nat, c \in Raised, FieldsState
<1>7. HasCap(new) => exp <= max_exp(new) + skipped
  <2> SUFFICES ASSUME HasCap(new) PROVE exp <= max_exp(new) + skipped OBVIOUS
  <2>1. increase >= ch.increase OBVIOUS
  <2> DEFINE less == ch.increase
             limit == ch.limit
             m == max_exp(ch)
             m2 == max_exp(new)
  <2> HIDE DEF new, ch
  <2>2. level_limit(ch) <= level_limit(new)
    <3>1. /\ level_limit(ch) = ch.limit + ch.increase /\ ch.limit \in Nat /\ ch.increase \in Nat
      BY <1>1, CharFields
    <3>2. level_limit(new) = new.limit + new.increase BY <1>6, CharFields
    <3>3. /\ limit \in Nat /\ less \in Nat /\ level_limit(ch) = limit + less
          /\ level_limit(new) = limit + increase /\ increase >= less
      BY <1>6, <2>1, <3>1, <3>2, Zenon
    <3> HIDE DEF limit, less
    <3> QED BY ONLY <3>3, increase \in Nat
  <2>3. HasCap(ch) /\ max_exp(ch) \in Nat /\ max_exp(new) \in Nat /\ max_exp(ch) <= max_exp(new)
    BY <1>1, <1>6, <2>2, CapsGrow
  <2>4. ch.exp <= max_exp(ch) + skipped
    BY <2>3, Zenon DEF GrowthInv, OverLimitIsSkipped, ch
  <2>5. exp \in Nat /\ m \in Nat /\ m2 \in Nat /\ m <= m2 /\ exp <= m + skipped /\ skipped \in Nat
    BY <1>1, <1>2, <2>3, <2>4, Zenon
  <2> HIDE DEF exp, m, m2
  <2>6. exp <= m2 + skipped BY ONLY <2>5
  <2> QED BY <2>6 DEF m2
<1>8. /\ rates' = rates /\ earned' = earned + 0 /\ skipped' \in Nat /\ skipped <= skipped'
      /\ resets' \in Nat /\ skipped' = skipped
  BY <1>1, ZeroAdds
<1>9. /\ exp <= exp + 0 /\ ExpOf(goods') + 0 <= ExpOf(goods) + 0
      /\ 100 * goods'["cole"] + ColeRate * 0 <= 100 * goods["cole"] + ColeRate * 0
  <2> DEFINE k == 100 * goods["cole"]
  <2>1. k \in Nat /\ k + 0 = k /\ k <= k /\ ColeRate * 0 = 0
    <3>1. 100 \in Nat OBVIOUS
    <3>2. k \in Nat BY <1>1, <3>1, NatClosed, Zenon
    <3> HIDE DEF k
    <3> QED BY <1>1, <3>2, ZeroAdds, Zenon
  <2>2. exp <= exp + 0 /\ ExpOf(goods) + 0 <= ExpOf(goods) + 0 BY <1>1, <1>2, ZeroAdds, Zenon
  <2> QED BY <1>4, <1>5, <2>1, <2>2, Zenon
<1>10. chars' = [chars EXCEPT ![c] = Fields(chars[c], exp, rarity, increase)] OBVIOUS
<1>11. HasCap(Fields(chars[c], exp, rarity, increase))
         => exp <= max_exp(Fields(chars[c], exp, rarity, increase)) + skipped'
  BY <1>7, <1>8, Zenon
<1>12. exp <= chars[c].exp + 0 BY <1>9
<1> HIDE DEF exp
<1> QED BY <1>2, <1>3, <1>4, <1>8, <1>9, <1>10, <1>11, <1>12, FieldsKeep

LEMMA RarityKeeps ==
    ASSUME GrowthInv, NEW c \in Raised, NEW count \in 1..(LastRarity - FirstRarity),
           rarity_enhance(c, count)
    PROVE  GrowthInv'
<1>1. FirstRarity \in Nat /\ LastRarity \in Nat BY GrowthTables, Zenon
<1>2. /\ chars[c].rarity + count <= LastRarity
      /\ Spent([g \in {"piece"} |-> count])
      /\ chars' = [chars EXCEPT ![c].rarity = chars[c].rarity + count]
      /\ UNCHANGED <<rates, earned, skipped, resets>>
  BY DEF rarity_enhance
<1> DEFINE rarity == chars[c].rarity + count
           increase == chars[c].increase
<1>3. /\ chars' = [chars EXCEPT ![c] = Fields(chars[c], chars[c].exp, rarity, increase)]
      /\ chars[c].rarity \in FirstRarity..LastRarity /\ increase \in Nat
  BY <1>2, FieldUpdates, Zenon
<1>4. rarity \in FirstRarity..LastRarity /\ increase >= chars[c].increase /\ count \in Nat
  BY <1>1, <1>2, <1>3
<1> HIDE DEF rarity, increase
<1> QED BY <1>2, <1>3, <1>4, PlainFields

LEMMA ReleaseKeeps ==
    ASSUME GrowthInv, NEW c \in Raised, level_limit_release(c)
    PROVE  GrowthInv'
<1>1. PICK n \in DOMAIN LimitReleases :
          /\ Spent([g \in {"release item"} |-> 1])
          /\ chars' = [chars EXCEPT ![c].increase = chars[c].increase + LimitReleases[n]]
          /\ UNCHANGED <<rates, earned, skipped, resets>>
  BY DEF level_limit_release
<1>2. LimitReleases[n] \in Nat
  <2>1. LimitReleases \in Seq(Nat) BY GrowthTables
  <2> QED BY <2>1
<1> DEFINE rarity == chars[c].rarity
           increase == chars[c].increase + LimitReleases[n]
<1>3. /\ chars' = [chars EXCEPT ![c] = Fields(chars[c], chars[c].exp, rarity, increase)]
      /\ rarity \in FirstRarity..LastRarity /\ chars[c].increase \in Nat
  BY <1>1, FieldUpdates, Zenon
<1>4. increase \in Nat /\ increase >= chars[c].increase BY <1>2, <1>3
<1> HIDE DEF rarity, increase
<1> QED BY <1>1, <1>3, <1>4, PlainFields

\* Experience leaves the cap where it is.
LEMMA SameCap ==
    ASSUME NEW ch, NEW exp, NEW new, new = Fields(ch, exp, ch.rarity, ch.increase)
    PROVE  level_limit(new) = level_limit(ch) /\ max_exp(new) = max_exp(ch)
           /\ (HasCap(new) <=> HasCap(ch))
<1>1. new.limit = ch.limit /\ new.increase = ch.increase BY DEF Fields
<1>2. level_limit(new) = level_limit(ch) BY <1>1, Zenon DEF level_limit
<1> QED BY <1>2, Zenon DEF max_exp, HasCap

\* What is known of a character and its cap.
LEMMA CapNumbers ==
    ASSUME GrowthInv, NEW c \in Raised
    PROVE  /\ chars[c].exp \in Nat
           /\ HasCap(chars[c]) => /\ max_exp(chars[c]) \in Nat
                                  /\ chars[c].exp <= max_exp(chars[c]) + skipped
<1> DEFINE ch == chars[c]
<1>1. CharState(c, ch) BY GrowthNumbers
<1>2. OverLimitIsSkipped BY Zenon DEF GrowthInv
<1>3. HasCap(ch) => ch.exp <= max_exp(ch) + skipped BY <1>2, Zenon DEF OverLimitIsSkipped
<1> HIDE DEF ch
<1>4. ch.exp \in Nat /\ level_limit(ch) <= level_limit(ch) BY <1>1, CharFields
<1>5. HasCap(ch) => max_exp(ch) \in Nat BY <1>1, <1>4, CapsGrow
<1> QED BY <1>3, <1>4, <1>5 DEF ch

LEMMA RaiseKeeps ==
    ASSUME GrowthInv, NEW c \in Raised, NEW used \in Amounts, enhance(c, used)
    PROVE  GrowthInv'
<1> DEFINE ch == chars[c]
           got == ExpOf(used)
           price == (got * ColeRate) \div 100
           needed == [g \in ExpItems \union {"cole"} |-> IF g = "cole" THEN price ELSE used[g]]
           exp == Min({ch.exp + got, max_exp(ch)})
<1>1. /\ HasCap(ch) /\ ch.exp < max_exp(ch)
      /\ CanSpend(needed) /\ goods' = spend(needed)
      /\ chars' = [chars EXCEPT ![c].exp = exp]
      /\ UNCHANGED <<rates, earned, skipped, resets>>
  BY DEF enhance, Spent
<1>2. \A e \in ExpItems : used[e] \in Nat /\ e # "cole" /\ e # "panel item"
  <2>1. \A e \in ExpItems : used[e] \in 0..1 BY DEF Amounts
  <2>2. \A n \in 0..1 : n \in Nat OBVIOUS
  <2> QED BY <2>1, <2>2, GrowthTables
<1>3. /\ got \in Nat /\ price \in Nat /\ 100 * price = ColeRate * got
  BY <1>2, PriceIsWhole, ExpOfSum
<1>4. /\ goods["cole"] \in Nat /\ ColeRate \in Nat /\ earned \in Nat /\ skipped \in Nat
      /\ resets \in Nat /\ \A e \in ExpItems : goods[e] \in Nat
  BY GrowthNumbers, Zenon
<1>5. ch.exp \in Nat /\ max_exp(ch) \in Nat BY <1>1, CapNumbers
<1>6. exp \in Nat /\ exp <= ch.exp + got /\ exp <= max_exp(ch)
  <2>1. ch.exp + got \in Nat BY <1>3, <1>5, NatClosed, Zenon
  <2> QED BY <1>5, <2>1, MinOfTwo, Zenon
<1>7. /\ goods' \in [Goods -> Nat] /\ goods'["panel item"] = goods["panel item"]
      /\ goods'["cole"] \in Nat /\ goods'["cole"] + price = goods["cole"]
      /\ \A e \in ExpItems : goods'[e] \in Nat /\ goods'[e] + used[e] = goods[e]
  <2>1. /\ DOMAIN needed = ExpItems \union {"cole"} /\ needed["cole"] = price
        /\ \A e \in ExpItems : needed[e] = used[e]
    BY <1>2
  <2> HIDE DEF needed, price
  <2>2. /\ DOMAIN needed \subseteq Goods /\ "panel item" \in Goods /\ "panel item" \notin DOMAIN needed
    BY <1>2, <2>1 DEF Goods
  <2>3. \A g \in DOMAIN needed : needed[g] \in Nat BY <1>2, <1>3, <2>1
  <2>4. /\ spend(needed) \in [Goods -> Nat]
        /\ \A g \in Goods : g \notin DOMAIN needed => spend(needed)[g] = goods[g]
        /\ \A g \in DOMAIN needed : spend(needed)[g] \in Nat /\ spend(needed)[g] + needed[g] = goods[g]
    BY <1>1, <2>2, <2>3, SpendTakes
  <2>5. "cole" \in DOMAIN needed /\ \A e \in ExpItems : e \in DOMAIN needed BY <2>1
  <2> QED BY <1>1, <2>1, <2>2, <2>4, <2>5, Zenon
<1>8. ExpOf(goods) = ExpOf(goods') + got /\ ExpOf(goods') \in Nat
  <2>1. \A e \in ExpItems : /\ goods'[e] \in Nat /\ used[e] \in Nat
                            /\ goods[e] = goods'[e] + used[e]
    BY <1>2, <1>7, Zenon
  <2> QED BY ONLY <2>1, ItemsAddUp
<1>9. chars' = [chars EXCEPT ![c] = Fields(chars[c], exp, ch.rarity, ch.increase)]
      /\ ch.rarity \in FirstRarity..LastRarity /\ ch.increase \in Nat
  BY <1>1, FieldUpdates, Zenon
<1>10. 100 * goods'["cole"] + ColeRate * got <= 100 * goods["cole"]
  <2> DEFINE a == goods["cole"]
             b == goods'["cole"]
             k == ColeRate * got
  <2>1. a \in Nat /\ b \in Nat /\ price \in Nat /\ b + price = a /\ 100 * price = k
    BY <1>3, <1>4, <1>7, Zenon
  <2> HIDE DEF a, b, k, price
  <2>2. 100 * b + k <= 100 * a BY ONLY <2>1
  <2> QED BY <2>2 DEF a, b, k
<1> DEFINE held == ExpOf(goods)
           held2 == ExpOf(goods')
           new == Fields(chars[c], exp, ch.rarity, ch.increase)
<1>11. HasCap(new) => exp <= max_exp(new) + skipped'
  <2> DEFINE m == max_exp(ch)
  <2>1. max_exp(new) = m
    <3>1. new = Fields(ch, exp, ch.rarity, ch.increase) OBVIOUS
    <3> HIDE DEF new, exp
    <3> QED BY <3>1, SameCap
  <2>2. m \in Nat /\ exp \in Nat /\ exp <= m /\ skipped \in Nat BY <1>4, <1>5, <1>6, Zenon
  <2> HIDE DEF m, exp, new
  <2>3. exp <= m + skipped BY ONLY <2>2
  <2> QED BY <1>1, <2>1, <2>3
<1>12. /\ rates' = rates /\ earned' = earned + 0 /\ skipped' \in Nat /\ skipped <= skipped'
       /\ resets' \in Nat
  BY <1>1, <1>4, ZeroAdds
<1>13. held2 + got <= held + 0
  <2>1. held = held2 + got /\ held2 \in Nat BY <1>8, Zenon
  <2> HIDE DEF held, held2, got
  <2> QED BY ONLY <1>3, <2>1
<1>14. 100 * goods'["cole"] + ColeRate * got <= 100 * goods["cole"] + ColeRate * 0
  <2>1. ColeRate * 0 = 0 BY <1>4, ZeroAdds
  <2>2. 100 * goods["cole"] \in Nat
    <3>1. 100 \in Nat OBVIOUS
    <3> QED BY <1>4, <3>1, NatClosed, Zenon
  <2>3. 100 * goods["cole"] + 0 = 100 * goods["cole"] BY <2>2, ZeroAdds, Zenon
  <2> QED BY <1>10, <2>1, <2>3, Zenon
<1>15. exp <= chars[c].exp + got BY <1>6
<1> HIDE DEF exp, got, needed, price
<1> QED BY <1>3, <1>6, <1>7, <1>9, <1>11, <1>12, <1>13, <1>14, <1>15, FieldsKeep

\* Experience of quests, with and without a look at the cap.
LEMMA QuestKeeps ==
    ASSUME GrowthInv, NEW c \in Raised, NEW gained \in Nat, NEW exp \in Nat,
           exp <= chars[c].exp + gained,
           chars' = [chars EXCEPT ![c].exp = exp],
           earned' = earned + gained, skipped' \in Nat, skipped <= skipped',
           HasCap(chars[c]) => exp <= max_exp(chars[c]) + skipped',
           UNCHANGED <<rates, goods, resets>>
    PROVE  GrowthInv'
<1> DEFINE ch == chars[c]
           new == Fields(chars[c], exp, ch.rarity, ch.increase)
<1>1. /\ goods["cole"] \in Nat /\ ColeRate \in Nat /\ resets \in Nat /\ goods \in [Goods -> Nat]
      /\ ExpOf(goods) \in Nat
  BY GrowthNumbers, Zenon
<1>2. chars' = [chars EXCEPT ![c] = new]
      /\ ch.rarity \in FirstRarity..LastRarity /\ ch.increase \in Nat
  BY FieldUpdates, Zenon
<1>3. HasCap(new) => exp <= max_exp(new) + skipped'
  <2>1. new = Fields(ch, exp, ch.rarity, ch.increase) OBVIOUS
  <2>2. max_exp(new) = max_exp(ch) /\ (HasCap(new) <=> HasCap(ch))
    <3> HIDE DEF new
    <3> QED BY <2>1, SameCap
  <2> QED BY <2>2, Zenon
<1>4. goods' = goods /\ rates' = rates /\ resets' \in Nat /\ goods' \in [Goods -> Nat] BY <1>1
<1>5. ExpOf(goods') + gained <= ExpOf(goods) + gained
  <2> DEFINE held == ExpOf(goods)
  <2>1. held \in Nat /\ ExpOf(goods') = held BY <1>1, <1>4, Zenon
  <2> HIDE DEF held
  <2>2. held + gained <= held + gained BY ONLY <2>1, gained \in Nat
  <2> QED BY <2>1, <2>2, Zenon
<1>6. 100 * goods'["cole"] + ColeRate * gained <= 100 * goods["cole"] + ColeRate * gained
  <2> DEFINE k == 100 * goods["cole"] + ColeRate * gained
  <2>1. k \in Nat
    <3>1. 100 \in Nat OBVIOUS
    <3> QED BY <1>1, <3>1, NatClosed, Zenon
  <2> HIDE DEF k
  <2>2. k <= k BY ONLY <2>1
  <2> QED BY <1>4, <2>2, Zenon DEF k
<1>7. goods'["panel item"] = goods["panel item"] BY <1>4
<1> QED BY <1>2, <1>3, <1>4, <1>5, <1>6, <1>7, FieldsKeep

LEMMA CharacterExpKeeps ==
    ASSUME GrowthInv, NEW c \in Raised, character_exp(c)
    PROVE  GrowthInv'
<1> DEFINE ch == chars[c]
           exp == ExpUpToCap(ch)
<1>1. /\ chars' = [chars EXCEPT ![c].exp = exp] /\ earned' = earned + QuestExp
      /\ UNCHANGED <<rates, goods, skipped, resets>>
  BY DEF character_exp
<1>2. QuestExp \in Nat /\ skipped \in Nat BY GrowthNumbers, Zenon
<1>3. ch.exp \in Nat /\ (HasCap(ch) => max_exp(ch) \in Nat) BY CapNumbers
<1>4. exp \in Nat /\ exp <= ch.exp + QuestExp /\ (HasCap(ch) => exp <= max_exp(ch))
  <2>1. ch.exp + QuestExp \in Nat BY <1>2, <1>3, NatClosed, Zenon
  <2>2. ch.exp + QuestExp <= ch.exp + QuestExp BY <2>1, ZeroAdds, Zenon
  <2>3. CASE HasCap(ch)
    <3>1. exp = Min({ch.exp + QuestExp, max_exp(ch)}) BY <2>3, Zenon DEF ExpUpToCap
    <3>2. max_exp(ch) \in Nat BY <1>3, <2>3
    <3> HIDE DEF exp
    <3> QED BY <2>1, <3>1, <3>2, MinOfTwo, Zenon
  <2>4. CASE ~HasCap(ch)
    <3>1. exp = ch.exp + QuestExp BY <2>4, Zenon DEF ExpUpToCap
    <3> HIDE DEF exp
    <3> QED BY <2>1, <2>2, <2>4, <3>1, Zenon
  <2> QED BY <2>3, <2>4
<1>5. HasCap(ch) => exp <= max_exp(ch) + skipped'
  <2> SUFFICES ASSUME HasCap(ch) PROVE exp <= max_exp(ch) + skipped' OBVIOUS
  <2> DEFINE m == max_exp(ch)
  <2>1. m \in Nat /\ exp \in Nat /\ exp <= m /\ skipped \in Nat BY <1>2, <1>3, <1>4, Zenon
  <2> HIDE DEF m, exp
  <2>2. exp <= m + skipped BY ONLY <2>1
  <2> QED BY <1>1, <2>2 DEF m
<1>6. skipped' \in Nat /\ skipped <= skipped' BY <1>1, <1>2, ZeroAdds
<1> HIDE DEF exp
<1> QED BY <1>1, <1>2, <1>4, <1>5, <1>6, QuestKeeps

LEMMA SkipExpKeeps ==
    ASSUME GrowthInv, NEW c \in Raised, NEW count \in 1..MaxSkips, quest_skip_exp(c, count)
    PROVE  GrowthInv'
<1> DEFINE ch == chars[c]
           gained == QuestExp * count
           exp == ch.exp + gained
<1>1. /\ chars' = [chars EXCEPT ![c].exp = exp] /\ earned' = earned + gained
      /\ skipped' = skipped + gained /\ UNCHANGED <<rates, goods, resets>>
  BY DEF quest_skip_exp
<1>2. QuestExp \in Nat /\ skipped \in Nat BY GrowthNumbers, Zenon
<1>3. count \in Nat
  <2>1. MaxSkips \in Nat BY GrowthAssumption, Zenon
  <2> QED BY <2>1
<1>4. gained \in Nat BY <1>2, <1>3, NatClosed, Zenon
<1>5. /\ ch.exp \in Nat
      /\ HasCap(ch) => max_exp(ch) \in Nat /\ ch.exp <= max_exp(ch) + skipped
  BY CapNumbers
<1> HIDE DEF gained
<1>6. exp \in Nat /\ exp <= chars[c].exp + gained BY <1>4, <1>5, NatClosed, ZeroAdds, Zenon
<1>7. skipped + gained \in Nat /\ skipped <= skipped + gained BY ONLY <1>2, <1>4
<1>8. skipped' \in Nat /\ skipped <= skipped' BY <1>1, <1>7, Zenon
<1>9. HasCap(ch) => exp <= max_exp(ch) + skipped'
  <2> SUFFICES ASSUME HasCap(ch) PROVE exp <= max_exp(ch) + skipped' OBVIOUS
  <2> DEFINE m == max_exp(ch)
             e == ch.exp
  <2>1. m \in Nat /\ e \in Nat /\ e <= m + skipped /\ skipped \in Nat BY <1>2, <1>5, Zenon
  <2> HIDE DEF m, e
  <2>2. e + gained <= m + (skipped + gained) BY ONLY <1>4, <2>1
  <2> QED BY <1>1, <2>2, Zenon DEF m, e
<1> HIDE DEF exp
<1> QED BY <1>1, <1>4, <1>6, <1>8, <1>9, QuestKeeps

-----------------------------------------------------------------------------
(* Boards *)

\* A character with other boards, and with what their panels do.
WithBoards(ch, page, bits, stat, limit) ==
    [id |-> ch.id, exp |-> ch.exp, rarity |-> ch.rarity, increase |-> ch.increase,
     limit |-> limit, stat |-> stat, page |-> page, bits |-> bits]

\* The move itself, before the effects are added.
Moved(ch, b, target, bits) == [ch EXCEPT !.page[b] = target, !.bits[b] = bits]

MovedAs(ch, b, target, bits, bought) ==
    /\ Moved(ch, b, target, bits)
         = WithBoards(ch, [ch.page EXCEPT ![b] = target], [ch.bits EXCEPT ![b] = bits],
                      ch.stat, ch.limit)
    /\ panel_effect(Moved(ch, b, target, bits), bought, 1)
         = WithBoards(ch, [ch.page EXCEPT ![b] = target], [ch.bits EXCEPT ![b] = bits],
                      ch.stat + 1 * Effect("stat", bought),
                      ch.limit + 1 * Effect("level limit", bought))

LEMMA MovedFields ==
    ASSUME NEW c \in Raised, NEW ch, CharState(c, ch), NEW b \in Boards, NEW target, NEW bits,
           NEW bought
    PROVE  MovedAs(ch, b, target, bits, bought)
<1> DEFINE moved == Moved(ch, b, target, bits)
           page == [ch.page EXCEPT ![b] = target]
           bit == [ch.bits EXCEPT ![b] = bits]
           stat == ch.stat + 1 * Effect("stat", bought)
           limit == ch.limit + 1 * Effect("level limit", bought)
<1>1. ch = [id |-> c, exp |-> ch.exp, rarity |-> ch.rarity, increase |-> ch.increase,
            limit |-> ch.limit, stat |-> ch.stat, page |-> ch.page, bits |-> ch.bits]
  BY Zenon DEF CharState
<1>2. ch.id = c BY CharFields
<1>3. moved = [ch EXCEPT !.page = page, !.bits = bit] BY DEF Moved
<1> HIDE DEF moved, page, bit
<1>4. moved = WithBoards(ch, page, bit, ch.stat, ch.limit) BY <1>1, <1>2, <1>3 DEF WithBoards
<1>5. panel_effect(moved, bought, 1)
        = [moved EXCEPT !.stat = moved.stat + 1 * Effect("stat", bought),
                        !.limit = moved.limit + 1 * Effect("level limit", bought)]
  BY DEF panel_effect
<1>6. moved.stat = ch.stat /\ moved.limit = ch.limit BY <1>4 DEF WithBoards
<1>7. panel_effect(moved, bought, 1) = [moved EXCEPT !.stat = stat, !.limit = limit]
  BY <1>5, <1>6, Zenon
<1> HIDE DEF stat, limit
<1>8. panel_effect(moved, bought, 1) = WithBoards(ch, page, bit, stat, limit)
  BY <1>4, <1>7 DEF WithBoards
<1> QED BY <1>4, <1>8, Zenon DEF MovedAs, moved, page, bit, stat, limit

\* The panels a page and its bits stand for.
PanelsUpTo(c, b, page, bits) ==
    (UNION {{<<c, b, p, i>> : i \in DOMAIN panels(c, b, p)} : p \in 1..(page - 1)})
        \union {<<c, b, page, i>> : i \in bits}

LEMMA OwnedUpTo ==
    ASSUME NEW ch, NEW b
    PROVE  OwnedPanels(ch, b) = PanelsUpTo(ch.id, b, ch.page[b], ch.bits[b])
BY Zenon DEF OwnedPanels, PanelsUpTo

LEMMA SameBoard ==
    ASSUME NEW ch, NEW new, NEW b, new.id = ch.id, new.page[b] = ch.page[b],
           new.bits[b] = ch.bits[b]
    PROVE  OwnedPanels(new, b) = OwnedPanels(ch, b)
BY OwnedUpTo, Zenon

\* What a board has when it was moved on.
LEMMA BoardMoves ==
    ASSUME NEW c \in Raised, NEW b \in Boards, NEW ch, CharState(c, ch),
           NEW target \in DOMAIN BoardPages[c][b], NEW bits \in SUBSET DOMAIN panels(c, b, target),
           ch.page[b] <= target, target = ch.page[b] => ch.bits[b] \subseteq bits,
           NEW moved, moved.id = c, moved.page[b] = target, moved.bits[b] = bits
    PROVE  /\ OwnedPanels(ch, b) \subseteq OwnedPanels(moved, b)
           /\ OwnedPanels(moved, b) \subseteq BoardPanels(c, b)
<1> DEFINE n == ch.page[b]
           old == ch.bits[b]
<1>1. ch.id = c /\ n \in Nat \ {0} /\ OnPage(c, b, n, old)
  <2>1. ch.id = c /\ ch.page \in [Boards -> Nat \ {0}] /\ OnPage(c, b, n, old) BY CharFields
  <2> QED BY <2>1
<1>2. target \in Nat \ {0} BY BoardTables
<1>3. OwnedPanels(moved, b) \subseteq BoardPanels(c, b)
  <2>1. moved.page[b] \in Nat \ {0} /\ OnPage(c, b, moved.page[b], moved.bits[b])
    BY <1>2 DEF OnPage
  <2> QED BY <2>1, OwnedOnBoard
<1>4. n <= target /\ (target = n => old \subseteq bits) OBVIOUS
<1>5. /\ OwnedPanels(ch, b)
           = (UNION {{<<c, b, p, i>> : i \in DOMAIN panels(c, b, p)} : p \in 1..(n - 1)})
               \union {<<c, b, n, i>> : i \in old}
      /\ OwnedPanels(moved, b)
           = (UNION {{<<c, b, p, i>> : i \in DOMAIN panels(c, b, p)} : p \in 1..(target - 1)})
               \union {<<c, b, target, i>> : i \in bits}
  <2>1. OwnedPanels(ch, b) = PanelsUpTo(c, b, n, old) BY <1>1, OwnedUpTo, Zenon
  <2>2. OwnedPanels(moved, b) = PanelsUpTo(moved.id, b, moved.page[b], moved.bits[b])
    BY OwnedUpTo, Zenon
  <2>3. OwnedPanels(moved, b) = PanelsUpTo(c, b, target, bits) BY <2>2, Zenon
  <2> HIDE DEF n, old
  <2> QED BY <2>1, <2>3, Zenon DEF PanelsUpTo
<1> HIDE DEF n, old
<1>6. ASSUME NEW x \in OwnedPanels(ch, b) PROVE x \in OwnedPanels(moved, b)
  <2>1. CASE \E p \in 1..(n - 1) : x \in {<<c, b, p, i>> : i \in DOMAIN panels(c, b, p)}
    <3>1. PICK p \in 1..(n - 1) : x \in {<<c, b, p, i>> : i \in DOMAIN panels(c, b, p)} BY <2>1
    <3>2. p \in 1..(target - 1) BY <1>1, <1>2, <1>4
    <3> QED BY <1>5, <3>1, <3>2
  <2>2. CASE \E i \in old : x = <<c, b, n, i>>
    <3>1. PICK i \in old : x = <<c, b, n, i>> BY <2>2
    <3>2. CASE n = target BY <1>4, <1>5, <3>1, <3>2
    <3>3. CASE n # target
      <4>1. n \in 1..(target - 1) BY <1>1, <1>2, <1>4, <3>3
      <4>2. i \in DOMAIN panels(c, b, n) BY <1>1, <3>1 DEF OnPage
      <4>3. x \in {<<c, b, n, j>> : j \in DOMAIN panels(c, b, n)} BY <3>1, <4>2
      <4> QED BY <1>5, <4>1, <4>3
    <3> QED BY <3>2, <3>3
  <2> QED BY <1>5, <2>1, <2>2
<1> QED BY <1>3, <1>6

\* The character whose board has moved.
LEMMA BoardState ==
    ASSUME NEW c \in Raised, NEW b \in Boards, NEW ch, CharState(c, ch),
           NEW target \in DOMAIN BoardPages[c][b], NEW bits \in SUBSET DOMAIN panels(c, b, target),
           ch.page[b] <= target, target = ch.page[b] => ch.bits[b] \subseteq bits,
           NEW moved, moved = Moved(ch, b, target, bits),
           NEW bought, bought = OwnedPanels(moved, b) \ OwnedPanels(ch, b),
           NEW new, new = panel_effect(moved, bought, 1)
    PROVE  /\ CharState(c, new) /\ bought \subseteq AllPanels
           /\ bought \intersect OwnedOf(ch, Boards) = {}
           /\ OwnedOf(new, Boards) = OwnedOf(ch, Boards) \union bought
           /\ new.exp = ch.exp /\ level_limit(ch) <= level_limit(new)
<1> DEFINE page == [ch.page EXCEPT ![b] = target]
           bit == [ch.bits EXCEPT ![b] = bits]
           stat == ch.stat + 1 * Effect("stat", bought)
           limit == ch.limit + 1 * Effect("level limit", bought)
<1>1. /\ moved = WithBoards(ch, page, bit, ch.stat, ch.limit)
      /\ new = WithBoards(ch, page, bit, stat, limit)
  <2> DEFINE go == Moved(ch, b, target, bits)
  <2>1. /\ go = WithBoards(ch, page, bit, ch.stat, ch.limit)
        /\ panel_effect(go, bought, 1) = WithBoards(ch, page, bit, stat, limit)
    <3>1. MovedAs(ch, b, target, bits, bought)
      BY ONLY CharState(c, ch), b \in Boards, c \in Raised, MovedFields, Zenon
    <3> QED BY <3>1, Zenon DEF MovedAs
  <2>2. moved = go BY Zenon
  <2> HIDE DEF go
  <2> QED BY <2>1, <2>2, Zenon
<1>2. /\ ch.id = c /\ ch.exp \in Nat /\ ch.increase \in Nat /\ ch.rarity \in FirstRarity..LastRarity
      /\ ch.page \in [Boards -> Nat \ {0}]
      /\ \A d \in Boards : OnPage(c, d, ch.page[d], ch.bits[d])
      /\ OwnedOf(ch, Boards) \subseteq AllPanels
  BY CharFields, Zenon
<1>3. /\ DOMAIN ch.bits = Boards /\ ch.bits = [d \in Boards |-> ch.bits[d]]
      /\ ch.stat = Effect("stat", OwnedOf(ch, Boards))
      /\ ch.limit = FirstLimit + Effect("level limit", OwnedOf(ch, Boards))
  BY Zenon DEF CharState
<1>4. target \in Nat \ {0} BY BoardTables
<1>5. /\ page \in [Boards -> Nat \ {0}] /\ page[b] = target
      /\ \A d \in Boards : d # b => page[d] = ch.page[d]
  BY <1>2, <1>4
<1>6. /\ DOMAIN bit = Boards /\ bit = [d \in Boards |-> bit[d]] /\ bit[b] = bits
      /\ \A d \in Boards : d # b => bit[d] = ch.bits[d]
  BY <1>3
<1> HIDE DEF page, bit, stat, limit
<1>7. /\ moved.id = c /\ moved.page = page /\ moved.bits = bit
      /\ new.id = c /\ new.exp = ch.exp /\ new.rarity = ch.rarity /\ new.increase = ch.increase
      /\ new.limit = limit /\ new.stat = stat /\ new.page = page /\ new.bits = bit
  <2>1. moved.id = ch.id /\ moved.page = page /\ moved.bits = bit
    BY ONLY <1>1 DEF WithBoards
  <2>2. /\ new.id = ch.id /\ new.exp = ch.exp /\ new.rarity = ch.rarity
        /\ new.increase = ch.increase /\ new.limit = limit /\ new.stat = stat
        /\ new.page = page /\ new.bits = bit
    BY ONLY <1>1 DEF WithBoards
  <2> QED BY <1>2, <2>1, <2>2, Zenon
<1>8. /\ OwnedPanels(ch, b) \subseteq OwnedPanels(moved, b)
      /\ OwnedPanels(moved, b) \subseteq BoardPanels(c, b)
  <2>1. moved.page[b] = target /\ moved.bits[b] = bits BY <1>5, <1>6, <1>7
  <2>2. moved.id = c BY <1>7
  <2> QED BY ONLY CharState(c, ch), b \in Boards, c \in Raised, <2>1, <2>2, BoardMoves,
              target \in DOMAIN BoardPages[c][b], bits \in SUBSET DOMAIN panels(c, b, target),
              ch.page[b] <= target, target = ch.page[b] => ch.bits[b] \subseteq bits
<1>9. OwnedPanels(new, b) = OwnedPanels(moved, b)
  <2>1. new.id = moved.id /\ new.page[b] = moved.page[b] /\ new.bits[b] = moved.bits[b]
    BY <1>7, Zenon
  <2> QED BY ONLY <2>1, SameBoard
<1>10. \A d \in Boards : d # b => OwnedPanels(new, d) = OwnedPanels(ch, d)
  <2> SUFFICES ASSUME NEW d \in Boards, d # b PROVE OwnedPanels(new, d) = OwnedPanels(ch, d)
    OBVIOUS
  <2>1. new.id = ch.id /\ new.page[d] = ch.page[d] /\ new.bits[d] = ch.bits[d]
    BY <1>2, <1>5, <1>6, <1>7
  <2> QED BY <2>1, SameBoard
<1>11. OwnedOf(new, Boards) = OwnedOf(ch, Boards) \union bought
  <2>1. OwnedPanels(new, b) = OwnedPanels(ch, b) \union bought
    <3>1. OwnedPanels(moved, b) = OwnedPanels(ch, b) \union bought BY <1>8
    <3> QED BY <1>9, <3>1, Zenon
  <2>2. \A d \in Boards : OwnedPanels(new, d)
                            = OwnedPanels(ch, d) \union (IF d = b THEN bought ELSE {})
    BY <1>10, <2>1
  <2> QED BY ONLY <2>2, b \in Boards DEF OwnedOf
<1>12. bought \subseteq BoardPanels(c, b) BY <1>8
<1>13. bought \subseteq AllPanels BY <1>12, PanelsOfBoards
<1>14. bought \intersect OwnedOf(ch, Boards) = {}
  <2> SUFFICES ASSUME NEW x \in bought, NEW d \in Boards, x \in OwnedPanels(ch, d) PROVE FALSE
    BY DEF OwnedOf
  <2>1. CASE d = b BY <2>1
  <2>2. CASE d # b
    <3>1. ch.page[d] \in Nat \ {0} /\ OnPage(c, d, ch.page[d], ch.bits[d]) BY <1>2
    <3>2. OwnedPanels(ch, d) \subseteq BoardPanels(c, d) BY <1>2, <3>1, OwnedOnBoard
    <3>3. BoardPanels(c, d) \intersect BoardPanels(c, b) = {} BY <2>2, BoardsApart
    <3> QED BY <1>12, <3>2, <3>3
  <2> QED BY <2>1, <2>2
<1>15. \A e \in Effects : /\ Effect(e, OwnedOf(ch, Boards)) \in Nat /\ Effect(e, bought) \in Nat
                          /\ Effect(e, OwnedOf(new, Boards))
                               = Effect(e, OwnedOf(ch, Boards)) + Effect(e, bought)
  <2> DEFINE S == OwnedOf(ch, Boards)
  <2>1. S \in SUBSET AllPanels /\ bought \in SUBSET AllPanels /\ S \intersect bought = {}
    BY <1>2, <1>13, <1>14
  <2> HIDE DEF S
  <2>2. \A e \in Effects : /\ Effect(e, S) \in Nat /\ Effect(e, bought) \in Nat
                           /\ Effect(e, S \union bought) = Effect(e, S) + Effect(e, bought)
    BY ONLY <2>1, PanelsAddUp
  <2> QED BY <1>11, <2>2, Zenon DEF S
<1>16. /\ stat = Effect("stat", OwnedOf(new, Boards))
       /\ limit = FirstLimit + Effect("level limit", OwnedOf(new, Boards))
       /\ limit \in Nat /\ ch.limit \in Nat /\ ch.limit <= limit
  <2> DEFINE s == Effect("stat", OwnedOf(ch, Boards))
             t == Effect("stat", bought)
             u == Effect("stat", OwnedOf(new, Boards))
             x == Effect("level limit", OwnedOf(ch, Boards))
             y == Effect("level limit", bought)
             z == Effect("level limit", OwnedOf(new, Boards))
             was == ch.limit
  <2>1. "stat" \in Effects /\ "level limit" \in Effects BY DEF Effects
  <2>2. /\ s \in Nat /\ t \in Nat /\ u = s + t /\ x \in Nat /\ y \in Nat /\ z = x + y
    BY <1>15, <2>1, Zenon
  <2>3. stat = s + 1 * t /\ limit = was + 1 * y /\ was = FirstLimit + x
    BY <1>3, Zenon DEF stat, limit
  <2>4. FirstLimit \in Nat BY GrowthTables
  <2> HIDE DEF s, t, u, x, y, z, was
  <2>5. stat = u /\ limit = FirstLimit + z /\ limit \in Nat /\ was \in Nat /\ was <= limit
    BY ONLY <2>2, <2>3, <2>4
  <2> QED BY <2>5 DEF u, z, was
<1>17. CharState(c, new)
  <2>1. new = [id |-> c, exp |-> new.exp, rarity |-> new.rarity, increase |-> new.increase,
               limit |-> new.limit, stat |-> new.stat, page |-> new.page, bits |-> new.bits]
    BY <1>1, <1>2, <1>7, Zenon DEF WithBoards
  <2>2. \A d \in Boards : OnPage(c, d, page[d], bit[d])
    <3>1. OnPage(c, b, target, bits) BY DEF OnPage
    <3> QED BY <1>2, <1>5, <1>6, <3>1
  <2>3. /\ new.stat = Effect("stat", OwnedOf(new, Boards))
        /\ new.limit = FirstLimit + Effect("level limit", OwnedOf(new, Boards))
    BY <1>7, <1>16, Zenon
  <2> QED BY <1>2, <1>5, <1>6, <1>7, <2>1, <2>2, <2>3, Zenon DEF CharState
<1>18. level_limit(ch) <= level_limit(new)
  <2>1. /\ level_limit(ch) = ch.limit + ch.increase /\ level_limit(new) = new.limit + new.increase
    BY <1>17, CharFields
  <2> DEFINE i == ch.increase
             was == ch.limit
  <2>2. /\ level_limit(ch) = was + i /\ level_limit(new) = limit + i
        /\ i \in Nat /\ was \in Nat /\ limit \in Nat /\ was <= limit
    BY <1>2, <1>7, <1>16, <2>1, Zenon
  <2> HIDE DEF i, was
  <2> QED BY ONLY <2>2
<1> QED BY <1>7, <1>11, <1>13, <1>14, <1>17, <1>18

-----------------------------------------------------------------------------
(* Steps that buy or take back panels *)

LEMMA Distributes ==
    ASSUME NEW x \in Nat, NEW y \in Nat, NEW z \in Nat
    PROVE  x * (y + z) = x * y + x * z
OBVIOUS

\* What all characters have, after one has become another.
LEMMA PanelsChange ==
    ASSUME GrowthInv, NEW c \in Raised, NEW new, CharState(c, new),
           chars' = [chars EXCEPT ![c] = new]
    PROVE  /\ CharsKept(chars') /\ chars[c].exp \in Nat /\ new.exp \in Nat
           /\ Cole(AllOwned) \in Nat /\ Cole(AllOwned') \in Nat
           /\ PanelItems(AllOwned) \in Nat /\ PanelItems(AllOwned') \in Nat
           /\ InExp \in Nat /\ InExp' \in Nat
           /\ Cole(AllOwned') + Cole(OwnedOf(chars[c], Boards))
                = Cole(AllOwned) + Cole(OwnedOf(new, Boards))
           /\ PanelItems(AllOwned') + PanelItems(OwnedOf(chars[c], Boards))
                = PanelItems(AllOwned) + PanelItems(OwnedOf(new, Boards))
           /\ InExp' + chars[c].exp = InExp + new.exp
           /\ \A r \in Roles :
                RoleSum(chars', r) = IF r = RoleOf[c]
                    THEN rates[r] - Effect("role rate", OwnedOf(chars[c], Boards))
                         + Effect("role rate", OwnedOf(new, Boards))
                    ELSE rates[r]
<1> DEFINE ch == chars[c]
<1>1. CharsKept(chars) /\ CharState(c, ch) BY GrowthNumbers
<1>2. \A r \in Roles : rates[r] = RoleSum(chars, r) BY Zenon DEF GrowthInv
<1>3. chars' = [chars EXCEPT ![c] = new] OBVIOUS
<1>4. OneChanged(chars, c, new, chars')
  BY ONLY <1>1, <1>3, CharState(c, new), c \in Raised, OneCharacter
<1>5. InExp' = ExpIn(chars') /\ AllOwned' = OwnedIn(chars')
      /\ InExp = ExpIn(chars) /\ AllOwned = OwnedIn(chars)
  BY Zenon DEF InExp, ExpIn, AllOwned, OwnedIn
<1>6. CharsKept(chars') /\ \A d \in Raised : CharState(d, chars'[d])
  BY <1>4, Zenon DEF OneChanged, CharsKept
<1>7. /\ Cole(OwnedIn(chars')) \in Nat /\ PanelItems(OwnedIn(chars')) \in Nat
      /\ ExpIn(chars') \in Nat
  <2>1. chars' = [chars' EXCEPT ![c] = chars'[c]] BY <1>6 DEF CharsKept
  <2>2. CharState(c, chars'[c]) BY <1>6
  <2>3. OneChanged(chars', c, chars'[c], chars')
    BY ONLY <1>6, <2>1, <2>2, c \in Raised, OneCharacter
  <2> QED BY <2>3, Zenon DEF OneChanged
<1>8. ch.exp \in Nat /\ new.exp \in Nat
  <2>1. ch.exp \in Nat BY <1>1, CharFields
  <2>2. new.exp \in Nat BY CharFields
  <2> QED BY <2>1, <2>2
<1> HIDE DEF ch
<1>9. ch = chars[c] BY DEF ch
<1>10. /\ Cole(OwnedIn(chars)) \in Nat /\ PanelItems(OwnedIn(chars)) \in Nat
       /\ ExpIn(chars) \in Nat
       /\ Cole(OwnedIn(chars')) + Cole(OwnedOf(ch, Boards))
            = Cole(OwnedIn(chars)) + Cole(OwnedOf(new, Boards))
       /\ PanelItems(OwnedIn(chars')) + PanelItems(OwnedOf(ch, Boards))
            = PanelItems(OwnedIn(chars)) + PanelItems(OwnedOf(new, Boards))
       /\ ExpIn(chars') + ch.exp = ExpIn(chars) + new.exp
       /\ \A r \in Roles :
            RoleSum(chars', r) = IF r = RoleOf[c]
                                THEN RoleSum(chars, r) - Effect("role rate", OwnedOf(ch, Boards))
                                     + Effect("role rate", OwnedOf(new, Boards))
                                ELSE RoleSum(chars, r)
  BY <1>4, <1>9, Zenon DEF OneChanged
<1>11. \A r \in Roles :
          RoleSum(chars', r) = IF r = RoleOf[c]
                              THEN rates[r] - Effect("role rate", OwnedOf(ch, Boards))
                                   + Effect("role rate", OwnedOf(new, Boards))
                              ELSE rates[r]
  <2> SUFFICES ASSUME NEW r \in Roles
               PROVE  RoleSum(chars', r) = IF r = RoleOf[c]
                              THEN rates[r] - Effect("role rate", OwnedOf(ch, Boards))
                                   + Effect("role rate", OwnedOf(new, Boards))
                              ELSE rates[r]
    OBVIOUS
  <2>1. rates[r] = RoleSum(chars, r) BY <1>2
  <2> QED BY <1>10, <2>1, Zenon
<1> QED BY <1>5, <1>6, <1>7, <1>8, <1>9, <1>10, <1>11, Zenon

\* Panels and experience that cost what they are worth.
LEMMA PanelsKeep ==
    ASSUME GrowthInv, NEW c \in Raised, NEW new, CharState(c, new),
           chars' = [chars EXCEPT ![c] = new],
           goods' \in [Goods -> Nat], rates' \in [Roles -> Nat],
           rates' = [rates EXCEPT ![RoleOf[c]] =
                        rates[RoleOf[c]] - Effect("role rate", OwnedOf(chars[c], Boards))
                        + Effect("role rate", OwnedOf(new, Boards))],
           UNCHANGED <<earned, skipped>>, resets' \in Nat,
           HasCap(new) => new.exp <= max_exp(new) + skipped,
           goods'["panel item"] + PanelItems(OwnedOf(new, Boards))
             = goods["panel item"] + PanelItems(OwnedOf(chars[c], Boards)),
           ExpOf(goods') + new.exp <= ExpOf(goods) + chars[c].exp,
           100 * (goods'["cole"] + Cole(OwnedOf(new, Boards))) + ColeRate * new.exp
             <= 100 * (goods["cole"] + Cole(OwnedOf(chars[c], Boards))) + ColeRate * chars[c].exp
    PROVE  GrowthInv'
<1> DEFINE ch == chars[c]
           a == Cole(OwnedOf(ch, Boards))
           b == Cole(OwnedOf(new, Boards))
           m == PanelItems(OwnedOf(ch, Boards))
           n == PanelItems(OwnedOf(new, Boards))
           e == ch.exp
           f == new.exp
           r == RoleOf[c]
           change == rates[r] - Effect("role rate", OwnedOf(ch, Boards))
                     + Effect("role rate", OwnedOf(new, Boards))
<1>1. /\ CharsKept(chars') /\ e \in Nat /\ f \in Nat
      /\ Cole(AllOwned) \in Nat /\ Cole(AllOwned') \in Nat
      /\ PanelItems(AllOwned) \in Nat /\ PanelItems(AllOwned') \in Nat
      /\ InExp \in Nat /\ InExp' \in Nat
      /\ Cole(AllOwned') + a = Cole(AllOwned) + b
      /\ PanelItems(AllOwned') + m = PanelItems(AllOwned) + n
      /\ InExp' + e = InExp + f
      /\ \A s \in Roles : RoleSum(chars', s) = IF s = r THEN change ELSE rates[s]
  BY ONLY GrowthInv, c \in Raised, CharState(c, new), chars' = [chars EXCEPT ![c] = new],
          PanelsChange, Zenon
<1>2. /\ goods["cole"] \in Nat /\ goods["panel item"] \in Nat /\ ExpOf(goods) \in Nat
      /\ Stock["cole"] \in Nat /\ Stock["panel item"] \in Nat /\ ExpOf(Stock) \in Nat
      /\ ColeRate \in Nat /\ earned \in Nat /\ skipped \in Nat
  BY GrowthNumbers, Zenon
<1>3. goods'["cole"] \in Nat /\ goods'["panel item"] \in Nat /\ ExpOf(goods') \in Nat
  <2>1. "cole" \in Goods /\ "panel item" \in Goods /\ ExpItems \subseteq Goods BY DEF Goods
  <2>2. \A x \in ExpItems : goods'[x] \in Nat BY <2>1
  <2>3. ExpOf(goods') \in Nat BY <2>2, ExpOfSum
  <2> QED BY <2>1, <2>3
<1>4. a \in Nat /\ b \in Nat /\ m \in Nat /\ n \in Nat
  <2>1. CharState(c, ch) BY GrowthNumbers
  <2>2. \A d, x : d \in Raised /\ CharState(d, x)
                    => Cole(OwnedOf(x, Boards)) \in Nat /\ PanelItems(OwnedOf(x, Boards)) \in Nat
    <3> SUFFICES ASSUME NEW d \in Raised, NEW x, CharState(d, x)
                 PROVE  Cole(OwnedOf(x, Boards)) \in Nat /\ PanelItems(OwnedOf(x, Boards)) \in Nat
      OBVIOUS
    <3> DEFINE S == OwnedOf(x, Boards)
    <3>1. S \in SUBSET AllPanels /\ {} \in SUBSET AllPanels /\ S \intersect {} = {} BY OwnedByOne
    <3> HIDE DEF S
    <3>2. Cole(S) \in Nat /\ PanelItems(S) \in Nat BY ONLY <3>1, PanelsAddUp
    <3> QED BY <3>2, Zenon DEF S
  <2> QED BY <2>1, <2>2, Zenon
<1>5. OverLimitIsSkipped'
  <2>1. skipped' \in Nat /\ skipped <= skipped'
    <3>1. skipped' = skipped BY Zenon
    <3> QED BY <1>2, <3>1, ZeroAdds, Zenon
  <2>2. HasCap(new) => new.exp <= max_exp(new) + skipped' BY Zenon
  <2> QED BY <2>1, <2>2, OverLimitKept
<1>6. \A s \in Roles : rates'[s] = RoleSum(chars', s)
  <2>1. rates \in [Roles -> Nat] BY Zenon DEF GrowthInv
  <2>2. rates' = [rates EXCEPT ![r] = change] BY Zenon
  <2> HIDE DEF r, change
  <2> QED BY ONLY <1>1, <2>1, <2>2
<1>7. NothingGained'
  <2> DEFINE cole == goods["cole"]
             cole2 == goods'["cole"]
             item == goods["panel item"]
             item2 == goods'["panel item"]
             owned == Cole(AllOwned)
             owned2 == Cole(AllOwned')
             bought == PanelItems(AllOwned)
             bought2 == PanelItems(AllOwned')
             held == ExpOf(goods)
             held2 == ExpOf(goods')
             in == InExp
             in2 == InExp'
             stock == Stock["cole"]
             wanted == Stock["panel item"]
             begin == ExpOf(Stock)
             rate == ColeRate
             e1 == earned
  <2>1. /\ item + bought = wanted /\ held + in <= begin + e1
        /\ 100 * (cole + owned) + rate * in <= 100 * stock + rate * e1
    BY DEF GrowthInv, NothingGained
  <2>2. /\ cole \in Nat /\ cole2 \in Nat /\ item \in Nat /\ item2 \in Nat
        /\ owned \in Nat /\ owned2 \in Nat /\ bought \in Nat /\ bought2 \in Nat
        /\ held \in Nat /\ held2 \in Nat /\ in \in Nat /\ in2 \in Nat
        /\ stock \in Nat /\ wanted \in Nat /\ begin \in Nat /\ rate \in Nat /\ e1 \in Nat
        /\ owned2 + a = owned + b /\ bought2 + m = bought + n /\ in2 + e = in + f
    BY <1>1, <1>2, <1>3, Zenon
  <2>3. /\ item2 + n = item + m /\ held2 + f <= held + e
        /\ 100 * (cole2 + b) + rate * f <= 100 * (cole + a) + rate * e
    BY Zenon
  <2>4. e \in Nat /\ f \in Nat BY <1>1, Zenon
  <2> HIDE DEF cole, cole2, item, item2, owned, owned2, bought, bought2, held, held2, in, in2,
               stock, wanted, begin, rate, e1, a, b, m, n, e, f
  <2>5. item2 + bought2 = wanted
    <3>1. /\ item + bought = wanted /\ item2 + n = item + m /\ bought2 + m = bought + n
          /\ item \in Nat /\ item2 \in Nat /\ bought \in Nat /\ bought2 \in Nat /\ wanted \in Nat
      BY <2>1, <2>2, <2>3, Zenon
    <3> QED BY ONLY <1>4, <3>1
  <2>6. held2 + in2 <= begin + e1
    <3>1. /\ held + in <= begin + e1 /\ held2 + f <= held + e /\ in2 + e = in + f
          /\ held \in Nat /\ held2 \in Nat /\ in \in Nat /\ in2 \in Nat /\ begin \in Nat
          /\ e1 \in Nat
      BY <2>1, <2>2, <2>3, Zenon
    <3> QED BY ONLY <2>4, <3>1
  <2>7. rate * in2 + rate * e = rate * in + rate * f
    <3>1. rate \in Nat /\ in \in Nat /\ in2 \in Nat BY <2>2, Zenon
    <3>2. rate * (in2 + e) = rate * in2 + rate * e BY ONLY <2>4, <3>1, Distributes
    <3>3. rate * (in + f) = rate * in + rate * f BY ONLY <2>4, <3>1, Distributes
    <3> QED BY <2>2, <3>2, <3>3, Zenon
  <2>8. 100 * (cole2 + owned2) + rate * in2 <= 100 * stock + rate * e1
    <3> DEFINE i == rate * in
               j == rate * in2
               k == rate * e1
               p == rate * e
               q == rate * f
    <3>1. i \in Nat /\ j \in Nat /\ k \in Nat /\ p \in Nat /\ q \in Nat
      BY <2>2, <2>4, NatClosed, Zenon
    <3>2. /\ j + p = i + q
          /\ 100 * (cole2 + b) + q <= 100 * (cole + a) + p
          /\ 100 * (cole + owned) + i <= 100 * stock + k
      BY <2>1, <2>3, <2>7, Zenon
    <3>3. owned2 + a = owned + b /\ owned \in Nat /\ owned2 \in Nat /\ cole \in Nat
          /\ cole2 \in Nat /\ stock \in Nat
      BY <2>2, Zenon
    <3> HIDE DEF i, j, k, p, q
    <3>4. 100 * (cole2 + owned2) + j <= 100 * stock + k BY ONLY <1>4, <3>1, <3>2, <3>3
    <3> QED BY <3>4, Zenon DEF j, k
  <2>9. /\ goods'["panel item"] + PanelItems(AllOwned') = Stock["panel item"]
        /\ ExpOf(goods') + InExp' <= ExpOf(Stock) + earned'
        /\ 100 * (goods'["cole"] + Cole(AllOwned')) + ColeRate * InExp'
             <= 100 * Stock["cole"] + ColeRate * earned'
    BY <2>5, <2>6, <2>8, Zenon
       DEF cole2, item2, owned2, bought2, held2, in2, stock, wanted, begin, rate, e1
  <2> QED BY <2>9, Zenon DEF NothingGained, ExpOf, PanelItems, Cole, PanelAt, panels
<1>8. earned' \in Nat /\ skipped' \in Nat BY <1>2
<1> QED BY <1>1, <1>5, <1>6, <1>7, <1>8, Zenon
        DEF GrowthInv, CharsKept, CharState, RoleSum, OnPage

LEMMA OwnedCounts ==
    ASSUME NEW c \in Raised, NEW ch, CharState(c, ch)
    PROVE  /\ OwnedOf(ch, Boards) \in SUBSET AllPanels
           /\ Cole(OwnedOf(ch, Boards)) \in Nat /\ PanelItems(OwnedOf(ch, Boards)) \in Nat
           /\ \A e \in Effects : Effect(e, OwnedOf(ch, Boards)) \in Nat
<1> DEFINE S == OwnedOf(ch, Boards)
<1>1. S \in SUBSET AllPanels /\ {} \in SUBSET AllPanels /\ S \intersect {} = {} BY OwnedByOne
<1> HIDE DEF S
<1>2. Cole(S) \in Nat /\ PanelItems(S) \in Nat /\ \A e \in Effects : Effect(e, S) \in Nat
  BY ONLY <1>1, PanelsAddUp
<1> QED BY <1>1, <1>2, Zenon DEF S

\* Buying panels up to a page and bits of it.
LEMMA GrowboardKeeps ==
    ASSUME GrowthInv, NEW c \in Raised, NEW b \in Boards,
           NEW target \in DOMAIN BoardPages[c][b], NEW bits, growboard(c, b, target, bits)
    PROVE  GrowthInv'
<1> DEFINE ch == chars[c]
           moved == Moved(ch, b, target, bits)
           bought == OwnedPanels(moved, b) \ OwnedPanels(ch, b)
           new == panel_effect(moved, bought, 1)
           r == RoleOf[c]
           needed == [g \in {"cole", "panel item"} |->
                       IF g = "cole" THEN Cole(bought) ELSE PanelItems(bought)]
<1>1. /\ ch.page[b] <= target /\ bits \subseteq DOMAIN panels(c, b, target)
      /\ target = ch.page[b] => ch.bits[b] \subseteq bits
      /\ Spent(needed)
      /\ chars' = [chars EXCEPT ![c] = new]
      /\ rates' = [rates EXCEPT ![r] = RoleRate(rates[r], bought, 1)]
      /\ UNCHANGED <<earned, skipped, resets>>
  BY Zenon DEF growboard, Moved
<1>2. CharState(c, ch) /\ goods \in [Goods -> Nat] /\ skipped \in Nat /\ resets \in Nat
  BY GrowthNumbers
<1> HIDE DEF ch
<1>3. /\ CharState(c, new) /\ bought \subseteq AllPanels
      /\ bought \intersect OwnedOf(ch, Boards) = {}
      /\ OwnedOf(new, Boards) = OwnedOf(ch, Boards) \union bought
      /\ new.exp = ch.exp /\ level_limit(ch) <= level_limit(new)
  <2>1. moved = Moved(ch, b, target, bits) OBVIOUS
  <2> HIDE DEF moved
  <2>2. bought = OwnedPanels(moved, b) \ OwnedPanels(ch, b) OBVIOUS
  <2> HIDE DEF bought
  <2>3. new = panel_effect(moved, bought, 1) OBVIOUS
  <2> HIDE DEF new
  <2>4. bits \in SUBSET DOMAIN panels(c, b, target) /\ ch.page[b] <= target BY <1>1
  <2>5. target = ch.page[b] => ch.bits[b] \subseteq bits BY <1>1
  <2> QED BY ONLY <1>2, <2>1, <2>2, <2>3, <2>4, <2>5, BoardState,
              c \in Raised, b \in Boards, target \in DOMAIN BoardPages[c][b]
<1> HIDE DEF moved, bought, new
<1> DEFINE S == OwnedOf(ch, Boards)
           T == OwnedOf(new, Boards)
<1>4. /\ Cole(S) \in Nat /\ Cole(bought) \in Nat /\ Cole(T) = Cole(S) + Cole(bought)
      /\ PanelItems(S) \in Nat /\ PanelItems(bought) \in Nat
      /\ PanelItems(T) = PanelItems(S) + PanelItems(bought)
      /\ Effect("role rate", S) \in Nat /\ Effect("role rate", bought) \in Nat
      /\ Effect("role rate", T) = Effect("role rate", S) + Effect("role rate", bought)
  <2>1. S \in SUBSET AllPanels BY <1>2, OwnedCounts
  <2>2. bought \in SUBSET AllPanels /\ S \intersect bought = {} /\ T = S \union bought BY <1>3
  <2> HIDE DEF S, T
  <2>3. /\ Cole(S) \in Nat /\ Cole(bought) \in Nat /\ Cole(S \union bought) = Cole(S) + Cole(bought)
        /\ PanelItems(S) \in Nat /\ PanelItems(bought) \in Nat
        /\ PanelItems(S \union bought) = PanelItems(S) + PanelItems(bought)
        /\ \A e \in Effects :
             /\ Effect(e, S) \in Nat /\ Effect(e, bought) \in Nat
             /\ Effect(e, S \union bought) = Effect(e, S) + Effect(e, bought)
    BY ONLY <2>1, <2>2, PanelsAddUp
  <2>4. "role rate" \in Effects BY DEF Effects
  <2> QED BY <2>2, <2>3, <2>4, Zenon
<1> HIDE DEF S, T
<1>5. /\ goods' \in [Goods -> Nat] /\ \A e \in ExpItems : goods'[e] = goods[e]
      /\ goods["cole"] \in Nat /\ goods["panel item"] \in Nat
      /\ goods'["cole"] \in Nat /\ goods'["panel item"] \in Nat
      /\ goods'["cole"] + Cole(bought) = goods["cole"]
      /\ goods'["panel item"] + PanelItems(bought) = goods["panel item"]
  <2>1. /\ DOMAIN needed = {"cole", "panel item"} /\ needed["cole"] = Cole(bought)
        /\ needed["panel item"] = PanelItems(bought)
    OBVIOUS
  <2>2. CanSpend(needed) /\ goods' = spend(needed) BY <1>1, Zenon DEF Spent
  <2> HIDE DEF needed
  <2>3. \A g \in DOMAIN needed : needed[g] \in Nat BY <1>4, <2>1
  <2>4. DOMAIN needed \subseteq Goods BY <2>1 DEF Goods
  <2>5. /\ spend(needed) \in [Goods -> Nat]
        /\ \A g \in Goods : g \notin DOMAIN needed => spend(needed)[g] = goods[g]
        /\ \A g \in DOMAIN needed : spend(needed)[g] \in Nat /\ spend(needed)[g] + needed[g] = goods[g]
    BY <2>2, <2>3, <2>4, SpendTakes
  <2>6. \A e \in ExpItems : e \in Goods /\ e \notin DOMAIN needed
    BY <2>1, GrowthTables DEF Goods
  <2>7. "cole" \in Goods /\ "panel item" \in Goods BY DEF Goods
  <2>8. goods["cole"] \in Nat /\ goods["panel item"] \in Nat BY <1>2, <2>7
  <2>9. "cole" \in DOMAIN needed /\ "panel item" \in DOMAIN needed BY <2>1
  <2>10. \A e \in ExpItems : goods'[e] = goods[e] BY <2>2, <2>5, <2>6, Zenon
  <2> QED BY <2>1, <2>2, <2>5, <2>8, <2>9, <2>10, Zenon
<1>6. ExpOf(goods') + new.exp <= ExpOf(goods) + ch.exp
  <2>1. ExpOf(goods') = ExpOf(goods) BY <1>5, SameItems
  <2>2. ExpOf(goods) \in Nat BY GrowthNumbers, Zenon
  <2>3. ch.exp \in Nat BY <1>2, CharFields
  <2>4. ExpOf(goods) + ch.exp \in Nat BY <2>2, <2>3, NatClosed, Zenon
  <2>5. ExpOf(goods) + ch.exp <= ExpOf(goods) + ch.exp BY <2>4, ZeroAdds, Zenon
  <2> QED BY <1>3, <2>1, <2>5, Zenon
<1>7. goods'["panel item"] + PanelItems(T) = goods["panel item"] + PanelItems(S)
  <2> DEFINE x == goods["panel item"]
             y == goods'["panel item"]
             s == PanelItems(S)
             t == PanelItems(T)
             k == PanelItems(bought)
  <2>1. /\ x \in Nat /\ y \in Nat /\ s \in Nat /\ k \in Nat /\ t = s + k /\ y + k = x
    BY <1>4, <1>5, Zenon
  <2> HIDE DEF x, y, s, t, k
  <2>2. y + t = x + s BY ONLY <2>1
  <2> QED BY <2>2, Zenon DEF x, y, s, t
<1>8. 100 * (goods'["cole"] + Cole(T)) + ColeRate * new.exp
        <= 100 * (goods["cole"] + Cole(S)) + ColeRate * ch.exp
  <2> DEFINE x == goods["cole"]
             y == goods'["cole"]
             s == Cole(S)
             t == Cole(T)
             k == Cole(bought)
             p == ColeRate * ch.exp
  <2>1. /\ x \in Nat /\ y \in Nat /\ s \in Nat /\ k \in Nat /\ t = s + k /\ y + k = x
    BY <1>4, <1>5, Zenon
  <2>2. p \in Nat
    <3>1. ColeRate \in Nat BY GrowthNumbers, Zenon
    <3>2. ch.exp \in Nat BY <1>2, CharFields
    <3> QED BY <3>1, <3>2, NatClosed, Zenon
  <2>3. ColeRate * new.exp = p BY <1>3, Zenon
  <2> HIDE DEF x, y, s, t, k, p
  <2>4. 100 * (y + t) + p <= 100 * (x + s) + p BY ONLY <2>1, <2>2
  <2> QED BY <2>3, <2>4, Zenon DEF x, y, s, t, p
<1>9. /\ rates' = [rates EXCEPT ![r] = rates[r] - Effect("role rate", S) + Effect("role rate", T)]
      /\ rates' \in [Roles -> Nat]
  <2>1. rates \in [Roles -> Nat] /\ r \in Roles BY DEF GrowthInv, Roles
  <2> DEFINE x == rates[r]
             s == Effect("role rate", S)
             t == Effect("role rate", T)
             k == Effect("role rate", bought)
  <2>2. x \in Nat /\ s \in Nat /\ k \in Nat /\ t = s + k BY <1>4, <2>1
  <2>3. rates' = [rates EXCEPT ![r] = x + 1 * k] BY <1>1, Zenon DEF RoleRate
  <2> HIDE DEF x, s, t, k, r
  <2>4. x + 1 * k = x - s + t /\ x + 1 * k \in Nat BY ONLY <2>2
  <2>5. rates' = [rates EXCEPT ![r] = x - s + t] BY <2>3, <2>4, Zenon
  <2>6. rates' \in [Roles -> Nat] BY ONLY <2>1, <2>3, <2>4
  <2> QED BY <2>5, <2>6, Zenon DEF x, s, t
<1>10. HasCap(new) => new.exp <= max_exp(new) + skipped
  <2> SUFFICES ASSUME HasCap(new) PROVE new.exp <= max_exp(new) + skipped OBVIOUS
  <2>1. HasCap(ch) /\ max_exp(ch) \in Nat /\ max_exp(new) \in Nat /\ max_exp(ch) <= max_exp(new)
    BY <1>2, <1>3, CapsGrow
  <2>2. ch.exp <= max_exp(ch) + skipped BY <2>1, Zenon DEF GrowthInv, OverLimitIsSkipped, ch
  <2>3. ch.exp \in Nat BY <1>2, CharFields
  <2> DEFINE e == ch.exp
             m == max_exp(ch)
             n == max_exp(new)
  <2>4. e \in Nat /\ m \in Nat /\ n \in Nat /\ m <= n /\ e <= m + skipped
    BY <2>1, <2>2, <2>3, Zenon
  <2>5. new.exp = e BY <1>3
  <2> HIDE DEF e, m, n
  <2>6. e <= n + skipped BY ONLY <1>2, <2>4
  <2> QED BY <2>5, <2>6, Zenon DEF n
<1>11. chars' = [chars EXCEPT ![c] = new] /\ UNCHANGED <<earned, skipped>> /\ resets' \in Nat
  <2>1. resets' = resets BY <1>1, Zenon
  <2> QED BY <1>1, <1>2, <2>1, Zenon
<1>12. /\ CharState(c, new) /\ goods' \in [Goods -> Nat] /\ rates' \in [Roles -> Nat]
       /\ rates' = [rates EXCEPT ![RoleOf[c]] =
                       rates[RoleOf[c]] - Effect("role rate", OwnedOf(chars[c], Boards))
                       + Effect("role rate", OwnedOf(new, Boards))]
       /\ goods'["panel item"] + PanelItems(OwnedOf(new, Boards))
            = goods["panel item"] + PanelItems(OwnedOf(chars[c], Boards))
       /\ ExpOf(goods') + new.exp <= ExpOf(goods) + chars[c].exp
       /\ 100 * (goods'["cole"] + Cole(OwnedOf(new, Boards))) + ColeRate * new.exp
            <= 100 * (goods["cole"] + Cole(OwnedOf(chars[c], Boards))) + ColeRate * chars[c].exp
  BY <1>3, <1>5, <1>6, <1>7, <1>8, <1>9, Zenon DEF S, T, ch, r
<1> QED BY ONLY GrowthInv, c \in Raised, <1>10, <1>11, <1>12, PanelsKeep

LEMMA BulkKeeps ==
    ASSUME GrowthInv, NEW c \in Raised, NEW b \in Boards, growboard_bulk_release(c, b)
    PROVE  GrowthInv'
<1>1. \E target \in DOMAIN BoardPages[c][b] : \E bits : growboard(c, b, target, bits)
  BY DEF growboard_bulk_release
<1> QED BY <1>1, GrowboardKeeps

LEMMA PageKeeps ==
    ASSUME GrowthInv, NEW c \in Raised, NEW b \in Boards, growboard_page_release(c, b)
    PROVE  GrowthInv'
<1> DEFINE n == chars[c].page[b]
<1>1. n < Len(BoardPages[c][b]) /\ growboard(c, b, n + 1, {})
  BY DEF growboard_page_release
<1>2. n \in Nat
  <2>1. CharState(c, chars[c]) BY GrowthNumbers
  <2>2. chars[c].page \in [Boards -> Nat \ {0}] BY <2>1, CharFields
  <2> QED BY <2>2
<1>3. /\ Len(BoardPages[c][b]) \in Nat
      /\ DOMAIN BoardPages[c][b] = 1..Len(BoardPages[c][b])
  BY BoardTables
<1> HIDE DEF n
<1>4. n + 1 \in DOMAIN BoardPages[c][b] BY <1>1, <1>2, <1>3
<1> QED BY <1>1, <1>4, GrowboardKeeps

-----------------------------------------------------------------------------
(* Resets *)

LEMMA LevelOnly ==
    ASSUME NEW c \in Raised, NEW ch, CharState(c, ch)
    PROVE  TakenBack(ch, TRUE) = Fields(ch, 0, ch.rarity, ch.increase)
<1>1. ch = [id |-> c, exp |-> ch.exp, rarity |-> ch.rarity, increase |-> ch.increase,
            limit |-> ch.limit, stat |-> ch.stat, page |-> ch.page, bits |-> ch.bits]
  BY Zenon DEF CharState
<1>2. ch.id = c BY CharFields
<1>3. TakenBack(ch, TRUE) = [ch EXCEPT !.exp = 0] BY DEF TakenBack
<1> QED BY <1>1, <1>2, <1>3 DEF Fields

\* Both boards at the first page, and nothing bought of it.
LEMMA ResetFields ==
    ASSUME NEW c \in Raised, NEW ch, CharState(c, ch)
    PROVE  TakenBack(ch, FALSE)
             = WithBoards(Fields(ch, 0, ch.rarity, ch.increase),
                          [ch.page EXCEPT ![Base] = 1, ![Ex] = 1],
                          [ch.bits EXCEPT ![Base] = {}, ![Ex] = {}],
                          ch.stat + (-1) * Effect("stat", ResetPanels(ch, FALSE)),
                          ch.limit + (-1) * Effect("level limit", ResetPanels(ch, FALSE)))
<1> DEFINE taken == ResetPanels(ch, FALSE)
           page == [ch.page EXCEPT ![Base] = 1, ![Ex] = 1]
           bit == [ch.bits EXCEPT ![Base] = {}, ![Ex] = {}]
           stat == ch.stat + (-1) * Effect("stat", taken)
           limit == ch.limit + (-1) * Effect("level limit", taken)
           done == panel_effect(ch, taken, -1)
<1>1. ch = [id |-> c, exp |-> ch.exp, rarity |-> ch.rarity, increase |-> ch.increase,
            limit |-> ch.limit, stat |-> ch.stat, page |-> ch.page, bits |-> ch.bits]
  BY Zenon DEF CharState
<1>2. ch.id = c BY CharFields
<1>3. TakenBack(ch, FALSE)
        = [done EXCEPT !.exp = 0, !.page = [done.page EXCEPT ![Base] = 1, ![Ex] = 1],
                       !.bits = [done.bits EXCEPT ![Base] = {}, ![Ex] = {}]]
  BY DEF TakenBack
<1> HIDE DEF taken
<1>4. done = [ch EXCEPT !.stat = stat, !.limit = limit] BY Zenon DEF panel_effect
<1> HIDE DEF done, stat, limit
<1>5. done = [id |-> c, exp |-> ch.exp, rarity |-> ch.rarity, increase |-> ch.increase,
              limit |-> limit, stat |-> stat, page |-> ch.page, bits |-> ch.bits]
  <2>1. ch.id = c BY <1>2
  <2> QED BY ONLY <1>1, <1>4, <2>1
<1>6. done.page = ch.page /\ done.bits = ch.bits BY <1>5
<1>7. TakenBack(ch, FALSE) = [done EXCEPT !.exp = 0, !.page = page, !.bits = bit]
  BY <1>3, <1>6, Zenon
<1> HIDE DEF page, bit
<1>8. TakenBack(ch, FALSE)
        = [id |-> c, exp |-> 0, rarity |-> ch.rarity, increase |-> ch.increase,
           limit |-> limit, stat |-> stat, page |-> page, bits |-> bit]
  BY ONLY <1>5, <1>7
<1>9. WithBoards(Fields(ch, 0, ch.rarity, ch.increase), page, bit, stat, limit)
        = [id |-> c, exp |-> 0, rarity |-> ch.rarity, increase |-> ch.increase,
           limit |-> limit, stat |-> stat, page |-> page, bits |-> bit]
  BY ONLY <1>2 DEF WithBoards, Fields
<1> QED BY <1>8, <1>9, Zenon DEF page, bit, stat, limit, taken

\* What a reset leaves: the panels but those it takes back.
ResetTo(c, ch, taken, new) ==
    /\ CharState(c, new) /\ new.exp = 0 /\ taken \subseteq OwnedOf(ch, Boards)
    /\ OwnedOf(new, Boards) = OwnedOf(ch, Boards) \ taken

LEMMA LevelResets ==
    ASSUME NEW c \in Raised, NEW ch, CharState(c, ch)
    PROVE  ResetTo(c, ch, ResetPanels(ch, TRUE), TakenBack(ch, TRUE))
<1> DEFINE new == Fields(ch, 0, ch.rarity, ch.increase)
<1>1. 0 \in Nat /\ ch.rarity \in FirstRarity..LastRarity /\ ch.increase \in Nat BY CharFields
<1>2. new = Fields(ch, 0, ch.rarity, ch.increase) OBVIOUS
<1> HIDE DEF new
<1>3. CharState(c, new) /\ new.exp = 0 /\ \A bs : OwnedOf(new, bs) = OwnedOf(ch, bs)
  BY ONLY <1>1, <1>2, CharState(c, ch), c \in Raised, FieldsState
<1>4. ResetPanels(ch, TRUE) = {} BY DEF ResetPanels
<1>5. TakenBack(ch, TRUE) = new BY LevelOnly DEF new
<1>6. ResetTo(c, ch, {}, new) BY <1>3 DEF ResetTo
<1> QED BY <1>4, <1>5, <1>6, Zenon

LEMMA BoardsReset ==
    ASSUME NEW c \in Raised, NEW ch, CharState(c, ch)
    PROVE  ResetTo(c, ch, ResetPanels(ch, FALSE), TakenBack(ch, FALSE))
<1> DEFINE start == Fields(ch, 0, ch.rarity, ch.increase)
           taken == ResetPanels(ch, FALSE)
           page == [ch.page EXCEPT ![Base] = 1, ![Ex] = 1]
           bit == [ch.bits EXCEPT ![Base] = {}, ![Ex] = {}]
           stat == ch.stat + (-1) * Effect("stat", taken)
           limit == ch.limit + (-1) * Effect("level limit", taken)
           new == WithBoards(start, page, bit, stat, limit)
<1>1. TakenBack(ch, FALSE) = new BY ResetFields
<1>2. /\ ch.id = c /\ ch.increase \in Nat /\ ch.rarity \in FirstRarity..LastRarity
      /\ ch.page \in [Boards -> Nat \ {0}]
      /\ \A d \in Boards : OnPage(c, d, ch.page[d], ch.bits[d])
      /\ OwnedOf(ch, Boards) \in SUBSET AllPanels
  BY CharFields, Zenon
<1>3. /\ DOMAIN ch.bits = Boards /\ ch.bits = [d \in Boards |-> ch.bits[d]]
      /\ ch.stat = Effect("stat", OwnedOf(ch, Boards))
      /\ ch.limit = FirstLimit + Effect("level limit", OwnedOf(ch, Boards))
  BY Zenon DEF CharState
<1>4. Boards = {Base, Ex, Neo} /\ Base # Neo /\ Ex # Neo /\ Base # Ex
  BY DEF Boards, Base, Ex, Neo
<1>5. /\ page \in [Boards -> Nat \ {0}] /\ page[Base] = 1 /\ page[Ex] = 1
      /\ page[Neo] = ch.page[Neo]
  BY <1>2, <1>4
<1>6. /\ DOMAIN bit = Boards /\ bit = [d \in Boards |-> bit[d]]
      /\ bit[Base] = {} /\ bit[Ex] = {} /\ bit[Neo] = ch.bits[Neo]
  BY <1>3, <1>4
<1> HIDE DEF page, bit, stat, limit, taken
<1>7. /\ new.id = c /\ new.exp = 0 /\ new.rarity = ch.rarity /\ new.increase = ch.increase
      /\ new.limit = limit /\ new.stat = stat /\ new.page = page /\ new.bits = bit
  BY ONLY <1>2 DEF WithBoards, Fields
<1>8. new = [id |-> c, exp |-> new.exp, rarity |-> new.rarity, increase |-> new.increase,
             limit |-> new.limit, stat |-> new.stat, page |-> new.page, bits |-> new.bits]
  <2>1. new = [id |-> c, exp |-> 0, rarity |-> ch.rarity, increase |-> ch.increase,
               limit |-> limit, stat |-> stat, page |-> page, bits |-> bit]
    BY ONLY <1>2 DEF WithBoards, Fields
  <2> HIDE DEF new
  <2> QED BY <1>7, <2>1, Zenon
<1> HIDE DEF new
<1>9. /\ OwnedPanels(new, Base) = {} /\ OwnedPanels(new, Ex) = {}
      /\ OwnedPanels(new, Neo) = OwnedPanels(ch, Neo)
  <2>1. \A d : PanelsUpTo(c, d, 1, {}) = {} BY DEF PanelsUpTo
  <2>2. /\ OwnedPanels(new, Base) = PanelsUpTo(c, Base, 1, {})
        /\ OwnedPanels(new, Ex) = PanelsUpTo(c, Ex, 1, {})
    BY <1>5, <1>6, <1>7, OwnedUpTo, Zenon
  <2>3. OwnedPanels(new, Neo) = OwnedPanels(ch, Neo)
    <3>1. new.id = ch.id /\ new.page[Neo] = ch.page[Neo] /\ new.bits[Neo] = ch.bits[Neo]
      BY <1>2, <1>5, <1>6, <1>7, Zenon
    <3> QED BY ONLY <3>1, SameBoard
  <2> QED BY <2>1, <2>2, <2>3, Zenon
<1>10. OwnedOf(new, Boards) = OwnedPanels(ch, Neo) BY <1>4, <1>9 DEF OwnedOf
<1>11. taken = OwnedOf(ch, {Base, Ex}) BY DEF ResetPanels, taken
<1>12. OwnedOf(ch, Boards) = taken \union OwnedPanels(ch, Neo) BY <1>4, <1>11 DEF OwnedOf
<1>13. taken \intersect OwnedPanels(ch, Neo) = {}
  <2>1. {Base, Ex} \in SUBSET Boards /\ {Neo} \in SUBSET Boards BY <1>4
  <2>2. \A x \in OwnedOf(ch, {Base, Ex}) : x[2] \in {Base, Ex} BY ONLY <2>1, OwnedByOne,
                                                c \in Raised, CharState(c, ch)
  <2>3. \A x \in OwnedOf(ch, {Neo}) : x[2] \in {Neo} BY ONLY <2>1, OwnedByOne,
                                                c \in Raised, CharState(c, ch)
  <2>4. OwnedOf(ch, {Neo}) = OwnedPanels(ch, Neo) BY DEF OwnedOf
  <2> QED BY <1>4, <1>11, <2>2, <2>3, <2>4
<1>14. taken \subseteq OwnedOf(ch, Boards) /\ OwnedOf(new, Boards) = OwnedOf(ch, Boards) \ taken
  BY <1>10, <1>12, <1>13
<1>15. \A e \in Effects : /\ Effect(e, OwnedOf(ch, Boards)) \in Nat /\ Effect(e, taken) \in Nat
                          /\ Effect(e, OwnedOf(new, Boards)) \in Nat
                          /\ Effect(e, OwnedOf(ch, Boards))
                               = Effect(e, taken) + Effect(e, OwnedOf(new, Boards))
  <2> DEFINE S == OwnedOf(ch, Boards)
             T == OwnedOf(new, Boards)
  <2>1. /\ taken \in SUBSET AllPanels /\ T \in SUBSET AllPanels /\ taken \intersect T = {}
        /\ S = taken \union T
    BY <1>2, <1>14
  <2> HIDE DEF S, T
  <2>2. \A e \in Effects : /\ Effect(e, taken) \in Nat /\ Effect(e, T) \in Nat
                           /\ Effect(e, taken \union T) = Effect(e, taken) + Effect(e, T)
    BY ONLY <2>1, PanelsAddUp
  <2>3. \A e \in Effects : Effect(e, S) = Effect(e, taken) + Effect(e, T) BY <2>1, <2>2, Zenon
  <2>4. \A e \in Effects : Effect(e, S) \in Nat BY <2>2, <2>3, NatClosed, Zenon
  <2> QED BY <2>2, <2>3, <2>4, Zenon DEF S, T
<1>16. /\ stat = Effect("stat", OwnedOf(new, Boards))
       /\ limit = FirstLimit + Effect("level limit", OwnedOf(new, Boards))
  <2> DEFINE s == Effect("stat", OwnedOf(ch, Boards))
             t == Effect("stat", taken)
             u == Effect("stat", OwnedOf(new, Boards))
             x == Effect("level limit", OwnedOf(ch, Boards))
             y == Effect("level limit", taken)
             z == Effect("level limit", OwnedOf(new, Boards))
             was == ch.limit
  <2>1. "stat" \in Effects /\ "level limit" \in Effects BY DEF Effects
  <2>2. /\ t \in Nat /\ u \in Nat /\ s = t + u /\ y \in Nat /\ z \in Nat /\ x = y + z
    BY <1>15, <2>1, Zenon
  <2>3. stat = s + (-1) * t /\ limit = was + (-1) * y /\ was = FirstLimit + x
    BY <1>3, Zenon DEF stat, limit
  <2>4. FirstLimit \in Nat BY GrowthTables
  <2> HIDE DEF s, t, u, x, y, z, was
  <2>5. stat = u /\ limit = FirstLimit + z BY ONLY <2>2, <2>3, <2>4
  <2> QED BY <2>5 DEF u, z
<1>17. CharState(c, new)
  <2>1. \A d \in Boards : OnPage(c, d, page[d], bit[d])
    <3>1. \A d : OnPage(c, d, 1, {}) BY DEF OnPage
    <3>2. OnPage(c, Neo, page[Neo], bit[Neo]) BY <1>2, <1>4, <1>5, <1>6
    <3>3. OnPage(c, Base, page[Base], bit[Base]) BY <1>5, <1>6, <3>1, Zenon
    <3>4. OnPage(c, Ex, page[Ex], bit[Ex]) BY <1>5, <1>6, <3>1, Zenon
    <3> QED BY <1>4, <3>2, <3>3, <3>4
  <2>2. /\ new.stat = Effect("stat", OwnedOf(new, Boards))
        /\ new.limit = FirstLimit + Effect("level limit", OwnedOf(new, Boards))
    BY <1>7, <1>16, Zenon
  <2>3. 0 \in Nat OBVIOUS
  <2> QED BY <1>2, <1>5, <1>6, <1>7, <1>8, <2>1, <2>2, <2>3, Zenon DEF CharState
<1>18. ResetTo(c, ch, taken, new) BY <1>7, <1>14, <1>17, Zenon DEF ResetTo
<1> QED BY <1>1, <1>18, Zenon DEF taken

\* What a reset gives back, by goods.
LEMMA RefundOf ==
    ASSUME NEW ch, NEW only_level, ch.exp \in Nat
    PROVE  LET refund == Refund(ch, only_level)
               taken == ResetPanels(ch, only_level)
               back == ch.exp - Remainder(ch.exp, Len(ExpOrder))
           IN  /\ \A e \in ExpItems : refund[e] = Refunded(ch.exp, e)
               /\ refund["cole"] = (back * ColeRate) \div 100 + Cole(taken)
               /\ refund["panel item"] = PanelItems(taken)
               /\ \A g \in {"piece", "release item", "reset item"} : refund[g] = 0
<1> DEFINE taken == ResetPanels(ch, only_level)
           back == ch.exp - Remainder(ch.exp, Len(ExpOrder))
           cole == (back * ColeRate) \div 100 + Cole(taken)
           refunds == PanelItems(taken)
           refund == Refund(ch, only_level)
<1>1. refund = [g \in Goods |-> CASE g \in ExpItems   -> Refunded(ch.exp, g)
                                  [] g = "cole"       -> cole
                                  [] g = "panel item" -> refunds
                                  [] OTHER            -> 0]
  BY DEF Refund
<1>2. ExpItems \intersect {"cole", "panel item", "piece", "release item", "reset item"} = {}
  BY GrowthTables
<1>3. /\ ExpItems \subseteq Goods
      /\ {"cole", "panel item", "piece", "release item", "reset item"} \subseteq Goods
  BY DEF Goods
<1> HIDE DEF cole, refunds, refund
<1>4. /\ \A e \in ExpItems : refund[e] = Refunded(ch.exp, e)
      /\ refund["cole"] = cole /\ refund["panel item"] = refunds
      /\ \A g \in {"piece", "release item", "reset item"} : refund[g] = 0
  BY ONLY <1>1, <1>2, <1>3
<1> QED BY <1>4, Zenon DEF cole, refunds, refund

LEMMA TakingBackKeeps ==
    ASSUME GrowthInv, NEW c \in Raised, NEW only_level \in BOOLEAN,
           enhancement_reset(c, only_level)
    PROVE  GrowthInv'
<1> DEFINE ch == chars[c]
           new == TakenBack(ch, only_level)
           taken == ResetPanels(ch, only_level)
           costs == level(ch) >= ResetLevel
           refund == Refund(ch, only_level)
           r == RoleOf[c]
           rate == RoleRate(rates[r], taken, -1)
           exp == ch.exp
           back == exp - Remainder(exp, Len(ExpOrder))
           cole == (back * ColeRate) \div 100
           refunds == [e \in ExpItems |-> Refunded(exp, e)]
<1>1. /\ costs => goods["reset item"] >= 1
      /\ rate >= 0
      /\ goods' = [g \in Goods |-> goods[g] + refund[g]
                                    - (IF g = "reset item" /\ costs THEN 1 ELSE 0)]
      /\ chars' = [chars EXCEPT ![c] = new]
      /\ rates' = [rates EXCEPT ![r] = rate]
      /\ resets' = resets + 1 /\ UNCHANGED <<earned, skipped>>
  BY Zenon DEF enhancement_reset, RateTakenBack
<1>2. /\ CharState(c, ch) /\ goods \in [Goods -> Nat] /\ skipped \in Nat /\ resets \in Nat
      /\ ColeRate \in Nat /\ \A e \in ExpItems : goods[e] \in Nat
  BY GrowthNumbers
<1>3. exp \in Nat BY <1>2, CharFields
<1>4. ResetTo(c, ch, taken, new)
  <2> HIDE DEF ch
  <2>1. CASE only_level = TRUE BY <1>2, <2>1, LevelResets, Zenon
  <2>2. CASE only_level = FALSE BY <1>2, <2>2, BoardsReset, Zenon
  <2> QED BY <2>1, <2>2
<1>5. /\ \A e \in ExpItems : refund[e] = Refunded(exp, e)
      /\ refund["cole"] = cole + Cole(taken)
      /\ refund["panel item"] = PanelItems(taken)
      /\ \A g \in {"piece", "release item", "reset item"} : refund[g] = 0
  BY <1>3, RefundOf, Zenon
<1>6. /\ back \in Nat /\ back <= exp /\ ExpOf(refunds) = back
      /\ \A e \in ExpItems : refunds[e] \in Nat /\ refunds[e] = Refunded(exp, e)
      /\ cole \in Nat /\ 100 * cole = ColeRate * back
  <2> HIDE DEF exp
  <2> QED BY <1>3, RefundIsWithin, Zenon
<1> HIDE DEF ch, new, taken, costs, refund, exp, back, cole, refunds
<1> DEFINE S == OwnedOf(ch, Boards)
           T == OwnedOf(new, Boards)
<1>7. /\ CharState(c, new) /\ new.exp = 0 /\ taken \subseteq S /\ T = S \ taken
  BY <1>4, Zenon DEF ResetTo
<1>8. /\ Cole(T) \in Nat /\ Cole(taken) \in Nat /\ Cole(S) = Cole(taken) + Cole(T)
      /\ PanelItems(T) \in Nat /\ PanelItems(taken) \in Nat
      /\ PanelItems(S) = PanelItems(taken) + PanelItems(T)
      /\ Effect("role rate", T) \in Nat /\ Effect("role rate", taken) \in Nat
      /\ Effect("role rate", S) = Effect("role rate", taken) + Effect("role rate", T)
  <2>1. S \in SUBSET AllPanels BY <1>2, OwnedCounts
  <2>2. /\ taken \in SUBSET AllPanels /\ T \in SUBSET AllPanels /\ taken \intersect T = {}
        /\ S = taken \union T
    BY <1>7, <2>1
  <2> HIDE DEF S, T
  <2>3. /\ Cole(taken) \in Nat /\ Cole(T) \in Nat /\ Cole(taken \union T) = Cole(taken) + Cole(T)
        /\ PanelItems(taken) \in Nat /\ PanelItems(T) \in Nat
        /\ PanelItems(taken \union T) = PanelItems(taken) + PanelItems(T)
        /\ \A e \in Effects :
             /\ Effect(e, taken) \in Nat /\ Effect(e, T) \in Nat
             /\ Effect(e, taken \union T) = Effect(e, taken) + Effect(e, T)
    BY ONLY <2>2, PanelsAddUp
  <2>4. "role rate" \in Effects BY DEF Effects
  <2> QED BY <2>2, <2>3, <2>4, Zenon
<1> HIDE DEF S, T
<1>9. /\ \A e \in ExpItems : goods'[e] = goods[e] + refunds[e]
      /\ goods["cole"] \in Nat /\ goods["panel item"] \in Nat
      /\ goods'["cole"] = goods["cole"] + (cole + Cole(taken))
      /\ goods'["panel item"] = goods["panel item"] + PanelItems(taken)
      /\ goods' \in [Goods -> Nat]
  <2>1. \A g \in Goods : goods[g] \in Nat BY <1>2
  <2>2. \A e \in ExpItems : e \in Goods /\ e # "reset item" BY GrowthTables DEF Goods
  <2>3. /\ "cole" \in Goods /\ "panel item" \in Goods /\ "reset item" \in Goods
        /\ \A g \in Goods : g \in ExpItems \/ g = "cole" \/ g = "panel item"
                            \/ g \in {"piece", "release item", "reset item"}
    BY DEF Goods
  <2>4. \A g \in Goods : refund[g] \in Nat
    <3>1. cole + Cole(taken) \in Nat BY <1>6, <1>8, NatClosed, Zenon
    <3>2. \A e \in ExpItems : refund[e] \in Nat BY <1>5, <1>6, Zenon
    <3>3. 0 \in Nat OBVIOUS
    <3> QED BY <1>5, <1>8, <2>3, <3>1, <3>2, <3>3, Zenon
  <2>5. \A g \in Goods : g # "reset item" => goods'[g] = goods[g] + refund[g]
    <3> SUFFICES ASSUME NEW g \in Goods, g # "reset item" PROVE goods'[g] = goods[g] + refund[g]
      OBVIOUS
    <3>1. goods[g] \in Nat /\ refund[g] \in Nat BY <2>1, <2>4
    <3>2. goods'[g] = goods[g] + refund[g] - 0
      BY <1>1
    <3> QED BY ONLY <3>1, <3>2
  <2>6. goods'["reset item"] \in Nat
    <3>1. refund["reset item"] = 0 /\ goods["reset item"] \in Nat BY <1>5, <2>1, <2>3
    <3>2. goods'["reset item"] = goods["reset item"] + 0 - (IF costs THEN 1 ELSE 0)
      BY <1>1, <2>3, <3>1
    <3> DEFINE x == goods["reset item"]
               y == goods'["reset item"]
    <3>3. x \in Nat BY <3>1, Zenon
    <3>4. CASE costs
      <4>1. x >= 1 /\ y = x + 0 - 1 BY <1>1, <3>2, <3>4, Zenon
      <4> HIDE DEF x, y
      <4>2. y \in Nat BY ONLY <3>3, <4>1
      <4> QED BY <4>2 DEF y
    <3>5. CASE ~costs
      <4>1. y = x + 0 - 0 BY <3>2, <3>5, Zenon
      <4> HIDE DEF x, y
      <4>2. y \in Nat BY ONLY <3>3, <4>1
      <4> QED BY <4>2 DEF y
    <3> QED BY <3>4, <3>5
  <2>7. \A g \in Goods : goods'[g] \in Nat
    <3>1. \A g \in Goods : g # "reset item" => goods'[g] \in Nat
      BY <2>1, <2>4, <2>5, NatClosed, Zenon
    <3> QED BY <2>6, <3>1, Zenon
  <2>8. goods' = [g \in Goods |-> goods'[g]] BY <1>1
  <2>9. goods' \in [Goods -> Nat] BY <2>7, <2>8
  <2>10. \A e \in ExpItems : goods'[e] = goods[e] + refunds[e] BY <1>5, <1>6, <2>2, <2>5, Zenon
  <2>11. "cole" # "reset item" /\ "panel item" # "reset item" OBVIOUS
  <2> QED BY <1>5, <2>1, <2>3, <2>5, <2>9, <2>10, <2>11, Zenon
<1>10. ExpOf(goods') + new.exp <= ExpOf(goods) + exp
  <2>1. ExpOf(goods) \in Nat /\ ExpOf(goods') = ExpOf(goods) + ExpOf(refunds)
    <3>1. \A e \in ExpItems : goods[e] \in Nat /\ refunds[e] \in Nat
                              /\ goods'[e] = goods[e] + refunds[e]
      BY <1>2, <1>6, <1>9, Zenon
    <3> QED BY ONLY <3>1, ItemsAddUp
  <2> DEFINE x == ExpOf(goods)
             y == ExpOf(goods')
  <2>2. x \in Nat /\ y = x + back BY <1>6, <2>1, Zenon
  <2> HIDE DEF x, y
  <2>3. back \in Nat /\ back <= exp BY <1>6
  <2>4. y + 0 <= x + exp BY ONLY <1>3, <2>2, <2>3
  <2> QED BY <1>7, <2>4, Zenon DEF x, y
<1>11. goods'["panel item"] + PanelItems(T) = goods["panel item"] + PanelItems(S)
  <2> DEFINE x == goods["panel item"]
             y == goods'["panel item"]
             s == PanelItems(S)
             t == PanelItems(T)
             k == PanelItems(taken)
  <2>1. /\ x \in Nat /\ t \in Nat /\ k \in Nat /\ s = k + t /\ y = x + k
    BY <1>8, <1>9, Zenon
  <2> HIDE DEF x, y, s, t, k
  <2>2. y + t = x + s BY ONLY <2>1
  <2> QED BY <2>2, Zenon DEF x, y, s, t
<1>12. 100 * (goods'["cole"] + Cole(T)) + ColeRate * new.exp
         <= 100 * (goods["cole"] + Cole(S)) + ColeRate * exp
  <2> DEFINE x == goods["cole"]
             y == goods'["cole"]
             s == Cole(S)
             t == Cole(T)
             k == Cole(taken)
             p == ColeRate * exp
             q == ColeRate * back
  <2>1. /\ x \in Nat /\ t \in Nat /\ k \in Nat /\ cole \in Nat /\ s = k + t
        /\ y = x + (cole + k) /\ 100 * cole = q
    BY <1>6, <1>8, <1>9, Zenon
  <2>2. p \in Nat /\ q \in Nat BY <1>2, <1>3, <1>6, NatClosed, Zenon
  <2>3. q <= p
    <3>1. back \in Int /\ exp \in Int /\ back <= exp BY <1>3, <1>6
    <3>2. back * ColeRate <= exp * ColeRate BY ONLY <1>2, <3>1, ProductOrder
    <3>3. back * ColeRate = q /\ exp * ColeRate = p BY <1>2, <1>3, <1>6
    <3> QED BY <3>2, <3>3, Zenon
  <2>4. ColeRate * new.exp = 0 BY <1>2, <1>7, ZeroAdds, Zenon
  <2> HIDE DEF x, y, s, t, k, p, q
  <2>5. 100 * (y + t) + 0 <= 100 * (x + s) + p BY ONLY <2>1, <2>2, <2>3
  <2> QED BY <2>4, <2>5, Zenon DEF x, y, s, t, p
<1>13. /\ rates' = [rates EXCEPT ![r] = rates[r] - Effect("role rate", S) + Effect("role rate", T)]
       /\ rates' \in [Roles -> Nat]
  <2>1. rates \in [Roles -> Nat] /\ r \in Roles BY DEF GrowthInv, Roles
  <2> DEFINE x == rates[r]
             s == Effect("role rate", S)
             t == Effect("role rate", T)
             k == Effect("role rate", taken)
  <2>2. x \in Nat /\ t \in Nat /\ k \in Nat /\ s = k + t BY <1>8, <2>1
  <2>3. rate = x + (-1) * k BY Zenon DEF RoleRate
  <2>4. rates' = [rates EXCEPT ![r] = rate] /\ rate >= 0 BY <1>1, Zenon
  <2> HIDE DEF x, s, t, k, r, rate
  <2>5. rate = x - s + t /\ rate \in Nat BY ONLY <2>2, <2>3, <2>4
  <2>6. rates' = [rates EXCEPT ![r] = x - s + t] BY <2>4, <2>5, Zenon
  <2>7. rates' \in [Roles -> Nat] BY ONLY <2>1, <2>4, <2>5
  <2> QED BY <2>6, <2>7, Zenon DEF x, s, t
<1>14. HasCap(new) => new.exp <= max_exp(new) + skipped
  <2> SUFFICES ASSUME HasCap(new) PROVE new.exp <= max_exp(new) + skipped OBVIOUS
  <2>1. level_limit(new) <= level_limit(new) BY <1>7, CharFields
  <2>2. max_exp(new) \in Nat BY <1>7, <2>1, CapsGrow
  <2> DEFINE m == max_exp(new)
  <2>3. m \in Nat BY <2>2
  <2> HIDE DEF m
  <2>4. 0 <= m + skipped BY ONLY <1>2, <2>3
  <2> QED BY <1>7, <2>4, Zenon DEF m
<1>15. chars' = [chars EXCEPT ![c] = new] /\ UNCHANGED <<earned, skipped>> /\ resets' \in Nat
  <2>1. resets' = resets + 1 BY <1>1, Zenon
  <2>2. resets' \in Nat BY ONLY <1>2, <2>1
  <2> QED BY <1>1, <2>2, Zenon
<1>16. /\ CharState(c, new) /\ goods' \in [Goods -> Nat] /\ rates' \in [Roles -> Nat]
       /\ rates' = [rates EXCEPT ![RoleOf[c]] =
                       rates[RoleOf[c]] - Effect("role rate", OwnedOf(chars[c], Boards))
                       + Effect("role rate", OwnedOf(new, Boards))]
       /\ goods'["panel item"] + PanelItems(OwnedOf(new, Boards))
            = goods["panel item"] + PanelItems(OwnedOf(chars[c], Boards))
       /\ ExpOf(goods') + new.exp <= ExpOf(goods) + chars[c].exp
       /\ 100 * (goods'["cole"] + Cole(OwnedOf(new, Boards))) + ColeRate * new.exp
            <= 100 * (goods["cole"] + Cole(OwnedOf(chars[c], Boards))) + ColeRate * chars[c].exp
  BY <1>7, <1>9, <1>10, <1>11, <1>12, <1>13, Zenon DEF S, T, ch, r, exp
<1> QED BY ONLY GrowthInv, c \in Raised, <1>14, <1>15, <1>16, PanelsKeep

-----------------------------------------------------------------------------
(* The theorem *)

LEMMA GrowthStep == GrowthInv /\ [GrowthNext]_growthVars => GrowthInv'
<1> SUFFICES ASSUME GrowthInv, [GrowthNext]_growthVars PROVE GrowthInv' OBVIOUS
<1>1. ASSUME NEW c \in Raised, NEW used \in Amounts, enhance(c, used) PROVE GrowthInv'
  BY <1>1, RaiseKeeps
<1>2. ASSUME NEW c \in Raised, NEW count \in 1..(LastRarity - FirstRarity),
             rarity_enhance(c, count)
      PROVE  GrowthInv'
  BY <1>2, RarityKeeps
<1>3. ASSUME NEW c \in Raised, level_limit_release(c) PROVE GrowthInv'
  BY <1>3, ReleaseKeeps
<1>4. ASSUME NEW c \in Raised, NEW b \in Boards, growboard_bulk_release(c, b) PROVE GrowthInv'
  BY <1>4, BulkKeeps
<1>5. ASSUME NEW c \in Raised, NEW b \in Boards, growboard_page_release(c, b) PROVE GrowthInv'
  BY <1>5, PageKeeps
<1>6. ASSUME NEW c \in Raised, NEW only_level \in BOOLEAN, enhancement_reset(c, only_level)
      PROVE  GrowthInv'
  BY <1>6, TakingBackKeeps
<1>7. ASSUME NEW c \in Raised, character_exp(c) PROVE GrowthInv'
  BY <1>7, CharacterExpKeeps
<1>8. ASSUME NEW c \in Raised, NEW count \in 1..MaxSkips, quest_skip_exp(c, count) PROVE GrowthInv'
  BY <1>8, SkipExpKeeps
<1>9. CASE UNCHANGED growthVars
  <2>1. /\ chars' = chars /\ rates' = rates /\ goods' = goods /\ earned' = earned
        /\ skipped' = skipped /\ resets' = resets
    BY <1>9 DEF growthVars
  <2>2. /\ CharsKept(chars) /\ rates \in [Roles -> Nat]
        /\ \A r \in Roles : rates[r] = RoleSum(chars, r)
        /\ goods \in [Goods -> Nat] /\ earned \in Nat /\ skipped \in Nat /\ resets \in Nat
        /\ NothingGained /\ OverLimitIsSkipped
    BY Zenon DEF GrowthInv
  <2>3. NothingGained'
    <3>1. AllOwned' = AllOwned /\ InExp' = InExp BY <2>1, Zenon DEF AllOwned, InExp
    <3> QED BY <2>1, <2>2, <3>1, Zenon
            DEF NothingGained, ExpOf, PanelItems, Cole, PanelAt, panels
  <2>4. OverLimitIsSkipped' BY <2>1, <2>2, Zenon DEF OverLimitIsSkipped
  <2> QED BY <2>1, <2>2, <2>3, <2>4, Zenon
          DEF GrowthInv, CharsKept, CharState, RoleSum, OnPage
<1>10. CASE GrowthNext
  BY <1>1, <1>2, <1>3, <1>4, <1>5, <1>6, <1>7, <1>8, <1>10, Zenon DEF GrowthNext
<1> QED BY <1>9, <1>10

THEOREM GrowthAlwaysAddsUp == GrowthSpec => [](GrowthTypeOK /\ RaisingAddsUp)
<1>1. GrowthSpec => []GrowthInv BY GrowthBegins, GrowthStep, PTL DEF GrowthSpec
<1> QED BY <1>1, GrowthTypes, PTL

-----------------------------------------------------------------------------
(* Side by side: a behaviour of the seven is a behaviour of each of them,  *)
(* which stutters while another one moves.                                 *)

LEMMA PartsSideBySide ==
    AccountSpec =>
        /\ HomeSpec /\ GachaSpec /\ GrowthSpec /\ MigrationsSpec
        /\ ExpeditionsSpec /\ HousingSpec /\ TownSpec
<1>1. AccountInit =>
          /\ HomeInit /\ GachaInit /\ GrowthInit /\ MigrationsInit
          /\ ExpeditionsInit /\ HousingInit /\ TownInit
  BY DEF AccountInit
<1>2. [AccountNext]_accountVars =>
          /\ [HomeNext]_homeVars /\ [GachaNext]_gachaVars /\ [GrowthNext]_growthVars
          /\ [MigrationsNext]_migrationsVars /\ [ExpeditionsNext]_expeditionsVars
          /\ [HousingNext]_housingVars /\ [TownNext]_townVars
  BY Zenon DEF AccountNext, accountVars
<1> QED
  BY <1>1, <1>2, PTL DEF AccountSpec, HomeSpec, GachaSpec, GrowthSpec, MigrationsSpec,
                         ExpeditionsSpec, HousingSpec, TownSpec

\* What an account sends out, builds and visits pays for time, levels, points
\* and triggers as often as they came about.
THEOREM OutingsPayOnce == AccountSpec => []OutingsPay
<1>1. ExpeditionsPay /\ HousePays /\ TownPays => OutingsPay BY Zenon DEF OutingsPay
<1> QED
  BY <1>1, PartsSideBySide, ExpeditionsPayForTime, HousePaysOnce, TownPaysOnce, PTL

\* Whatever raises characters and whatever takes it back add up, for all of them.
THEOREM LevelsAlwaysAddUp == AccountSpec => []LevelsAddUp
<1>1. GrowthTypeOK /\ RaisingAddsUp => LevelsAddUp BY Zenon DEF LevelsAddUp
<1> QED BY <1>1, PartsSideBySide, GrowthAlwaysAddsUp, PTL

\* Once the gachas can be listed no request of the account takes that away.
THEOREM ListStaysReadable == AccountSpec => ListStaysAvailable
BY PartsSideBySide, ListCanAlwaysBeRead, PTL

\* No reward of a mission, a category, a bonus or a mail is paid twice, and none
\* for what did not happen in its cycle.
THEOREM OnlyWhatIsEarnedIsPaid == AccountSpec => []PaysWhatIsEarned
<1>1. PaymentsEarned => PaysWhatIsEarned BY Zenon DEF PaysWhatIsEarned
<1> QED BY <1>1, PartsSideBySide, HomeInvariant, HomePays, PTL

\* Whichever request comes first, missions and counters have what happened.
THEOREM ProgressIsNeverLost == AccountSpec => []KeepsProgress
<1>1. ProgressKept => KeepsProgress BY Zenon DEF KeepsProgress
<1> QED BY <1>1, PartsSideBySide, HomeInvariant, HomeKeeps, PTL

\* Memorias that were sold stay in the collection, ids of deleted mails are not
\* given again.
THEOREM RemovalsLeaveATrace == AccountSpec => []RemembersRemovals
<1>1. RemovalsRemembered => RemembersRemovals BY Zenon DEF RemembersRemovals
<1> QED BY <1>1, PartsSideBySide, HomeInvariant, HomeRemembers, PTL

\* No order of skips, additions and days goes past the limit of a day.
THEOREM SkipsStayWithinTheDay == AccountSpec => []SkipsKeepToTheDay
<1>1. SkipsWithinDay => SkipsKeepToTheDay BY Zenon DEF SkipsKeepToTheDay
<1> QED BY <1>1, PartsSideBySide, HomeInvariant, HomeSkips, PTL

\* Whichever gachas, buttons and lists: every copy, step and share is counted.
THEOREM DrawsStayCounted == AccountSpec => []DrawsAreCounted
<1>1. GachaTypeOK /\ DrawsKeepCount => DrawsAreCounted BY Zenon DEF DrawsAreCounted
<1> QED BY <1>1, PartsSideBySide, DrawsAlwaysCount, PTL

\* The tables of the seven parts keep their types.
THEOREM AccountTypeCorrectness == AccountSpec => []AccountTypeOK
<1>1. /\ HomeTypeOK /\ GachaTypeOK /\ GrowthTypeOK /\ MigrationsTypeOK
      /\ ExpeditionsTypeOK /\ HousingTypeOK /\ TownTypeOK
      => AccountTypeOK
  BY Zenon DEF AccountTypeOK
<1>2. HomeSpec => []HomeTypeOK BY HomeInvariant, HomeTypes, PTL
<1>3. ExpeditionsSpec => []ExpeditionsTypeOK
  <2>1. ExpeditionsInv => ExpeditionsTypeOK BY DEF ExpeditionsInv
  <2> QED BY <2>1, ExpeditionsBegin, ExpeditionsStep, PTL DEF ExpeditionsSpec
<1>4. HousingSpec => []HousingTypeOK
  BY HousingBegins, HousingStep, HousingTypes, PTL DEF HousingSpec
<1>5. TownSpec => []TownTypeOK BY TownBegins, TownStep, TownTypes, PTL DEF TownSpec
<1>6. GrowthSpec => []GrowthTypeOK BY GrowthAlwaysAddsUp, PTL
<1>7. GachaSpec => []GachaTypeOK BY DrawsAlwaysCount, PTL
<1> QED BY <1>1, <1>2, <1>3, <1>4, <1>5, <1>6, <1>7, PartsSideBySide, MigrationsTypeCorrectness, PTL
=============================================================================
