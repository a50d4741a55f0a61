------------------------- MODULE RetryLedgerProofs -------------------------
(***************************************************************************)
(* RetryLedger delivers its promise: executions of one request id are      *)
(* separated by the retention window.                                      *)
(***************************************************************************)
EXTENDS RetryLedger, FiniteSetTheorems, TLAPS

\* Newer executions are a finite set, so counting them makes sense.
LEMMA NewerFinite ==
    ASSUME IsFiniteSet(executions), NEW e
    PROVE  /\ IsFiniteSet(Newer(e))
           /\ Cardinality(Newer(e)) \in Nat
<1>1. Newer(e) \subseteq executions
  BY DEF Newer
<1>2. QED
  BY <1>1, FS_Subset, FS_CardinalityType

\* An execution that has expired stays so while executions are only added and
\* the clock only advances.
LEMMA ExpiredStable ==
    ASSUME NEW e \in Row,
           IsFiniteSet(executions), IsFiniteSet(executions'),
           executions \subseteq executions',
           now \in Nat, now' \in Nat, now <= now',
           Expired(e)
    PROVE  Expired(e)'
<1>1. CASE now - e.at > RetentionSeconds
  BY <1>1, RetentionAssumption DEF Expired, Row
<1>2. CASE Cardinality(Newer(e)) >= RetentionCount
  <2>1. Newer(e) \subseteq Newer(e)'
    BY DEF Newer
  <2>2. IsFiniteSet(Newer(e)')
    <3>1. Newer(e)' \subseteq executions'
      BY DEF Newer
    <3>2. QED
      BY <3>1, FS_Subset
  <2>3. Cardinality(Newer(e)) <= Cardinality(Newer(e)')
    BY <2>1, <2>2, FS_Subset
  <2>4. Cardinality(Newer(e)) \in Nat /\ Cardinality(Newer(e)') \in Nat
    BY <2>2, NewerFinite, FS_CardinalityType
  <2>5. Cardinality(Newer(e)') >= RetentionCount
    BY <1>2, <2>3, <2>4, RetentionAssumption
  <2>6. QED
    BY <2>5 DEF Expired
<1>3. QED
  BY <1>1, <1>2 DEF Expired

LedgerInv == LedgerTypeOK /\ ForgottenOnlyIfExpired /\ RetryWindow

\* What every step does to executions and to the clock.
LEMMA LedgerMonotone ==
    ASSUME LedgerTypeOK, [LedgerNext]_ledgerVars
    PROVE  /\ executions \subseteq executions'
           /\ IsFiniteSet(executions')
           /\ now' \in Nat
           /\ now <= now'
<1>1. ASSUME NEW e \in executions', Execute(e)
      PROVE  /\ executions \subseteq executions'
             /\ IsFiniteSet(executions')
             /\ now' = now
  BY <1>1, FS_AddElement DEF Execute, LedgerTypeOK
<1>2. CASE Forget(remembered \ remembered')
  BY <1>2 DEF Forget, LedgerTypeOK
<1>3. ASSUME NEW a \in Accounts, Drop(a)
      PROVE  executions' = executions /\ now' = now
  BY <1>3 DEF Drop
<1>4. CASE TimePasses
  BY <1>4 DEF TimePasses, LedgerTypeOK
<1>5. CASE UNCHANGED ledgerVars
  BY <1>5 DEF ledgerVars, LedgerTypeOK
<1>6. QED
  BY <1>1, <1>2, <1>3, <1>4, <1>5 DEF LedgerNext, LedgerTypeOK

\* One step keeps the types.
LEMMA LedgerTypeStep ==
    ASSUME LedgerTypeOK, [LedgerNext]_ledgerVars
    PROVE  LedgerTypeOK'
<1>1. /\ IsFiniteSet(executions')
      /\ now' \in Nat
  BY LedgerMonotone
<1>2. ASSUME NEW e \in executions', Execute(e)
      PROVE  LedgerTypeOK'
  BY <1>1, <1>2 DEF Execute, LedgerTypeOK
<1>3. CASE Forget(remembered \ remembered')
  BY <1>1, <1>3 DEF Forget, LedgerTypeOK
<1>4. ASSUME NEW a \in Accounts, Drop(a)
      PROVE  LedgerTypeOK'
  BY <1>1, <1>4 DEF Drop, LedgerTypeOK
<1>5. CASE TimePasses
  BY <1>1, <1>5 DEF TimePasses, LedgerTypeOK
<1>6. CASE UNCHANGED ledgerVars
  BY <1>1, <1>6 DEF ledgerVars, LedgerTypeOK
<1>7. QED
  BY <1>2, <1>3, <1>4, <1>5, <1>6 DEF LedgerNext

\* One step keeps every execution remembered, of a deleted account or expired:
\* Forget takes expired ones only, Drop those of the account it deletes.
LEMMA ForgottenStep ==
    ASSUME LedgerTypeOK, ForgottenOnlyIfExpired, [LedgerNext]_ledgerVars
    PROVE  ForgottenOnlyIfExpired'
<1> DEFINE Kept(e) == e \in remembered \/ e.acct \in deleted
<1>1. ASSUME NEW e \in executions, Expired(e)
      PROVE  Expired(e)'
  BY <1>1, LedgerMonotone, ExpiredStable DEF LedgerTypeOK
<1>2. ASSUME NEW e \in executions, Kept(e)
      PROVE  Kept(e)' \/ Expired(e)
  <2>1. ASSUME NEW f \in executions', Execute(f)
        PROVE  Kept(e)'
    BY <1>2, <2>1 DEF Execute
  <2>2. CASE Forget(remembered \ remembered')
    BY <1>2, <2>2 DEF Forget
  <2>3. ASSUME NEW a \in Accounts, Drop(a)
        PROVE  Kept(e)'
    BY <1>2, <2>3 DEF Drop
  <2>4. CASE TimePasses \/ UNCHANGED ledgerVars
    BY <1>2, <2>4 DEF TimePasses, ledgerVars
  <2>5. QED
    BY <2>1, <2>2, <2>3, <2>4 DEF LedgerNext
<1>3. ASSUME NEW e \in executions' \ executions
      PROVE  e \in remembered'
  BY DEF LedgerNext, ledgerVars, Execute, Forget, Drop, TimePasses
<1>4. ASSUME NEW e \in executions
      PROVE  Kept(e)' \/ Expired(e)'
  BY <1>1, <1>2 DEF ForgottenOnlyIfExpired
<1>5. ASSUME NEW e \in executions'
      PROVE  Kept(e)' \/ Expired(e)'
  BY <1>3, <1>4
<1>6. QED
  BY <1>5 DEF ForgottenOnlyIfExpired

\* One step keeps the window between two executions of one request: the only
\* new pairs are those of an older execution with the one Execute adds.
LEMMA WindowStep ==
    ASSUME LedgerTypeOK, ForgottenOnlyIfExpired, RetryWindow,
           [LedgerNext]_ledgerVars
    PROVE  RetryWindow'
<1>1. ASSUME NEW g \in executions', Execute(g)
      PROVE  RetryWindow'
  <2> DEFINE Window(e, f) ==
        \/ f.at - e.at > RetentionSeconds
        \/ Cardinality({n \in Newer(e) : n.mid < f.mid}) >= RetentionCount
  <2> SUFFICES ASSUME NEW e \in executions', NEW f \in executions',
                      SameKey(e, f), e.mid < f.mid
               PROVE  Window(e, f)'
    BY DEF RetryWindow
  <2>1. /\ executions' = executions \union {g}
        /\ \A x \in executions : x.mid < g.mid
        /\ executions \subseteq Row
        /\ g \in Row
    BY <1>1 DEF Execute, LedgerTypeOK
  <2>2. e \in executions
    BY <2>1 DEF Row
  <2>3. CASE f \in executions
    <3>1. {n \in Newer(e) : n.mid < f.mid}' = {n \in Newer(e) : n.mid < f.mid}
      BY <2>1, <2>3 DEF Newer, Row
    <3>2. Window(e, f)
      BY <2>2, <2>3 DEF RetryWindow
    <3>3. QED
      BY <3>1, <3>2
  <2>4. CASE f = g
    <3>1. e \notin remembered
      BY <1>1, <2>4 DEF Execute, SameKey
    <3>2. e.acct \notin deleted
      BY <1>1, <2>4 DEF Execute, SameKey
    <3>3. Expired(e)
      BY <2>2, <3>1, <3>2 DEF ForgottenOnlyIfExpired
    <3>4. {n \in Newer(e) : n.mid < f.mid}' = Newer(e)
      BY <2>1, <2>4 DEF Newer, Row
    <3>5. f.at = now
      BY <1>1, <2>4 DEF Execute
    <3>6. QED
      BY <3>3, <3>4, <3>5 DEF Expired
  <2>5. QED
    BY <2>1, <2>3, <2>4
<1>2. CASE executions' = executions
  BY <1>2 DEF RetryWindow, Newer
<1>3. QED
  BY <1>1, <1>2 DEF LedgerNext, ledgerVars, Forget, Drop, TimePasses

LEMMA LedgerInitial == LedgerInit => LedgerInv
BY FS_EmptySet
   DEF LedgerInit, LedgerInv, LedgerTypeOK, ForgottenOnlyIfExpired, RetryWindow

\* The promise of the replay journal: two executions of one request id of one
\* account are more than RetentionSeconds or at least RetentionCount other
\* executions of the account apart (gameplay_replay, prune_expired).
THEOREM LedgerSafety == LedgerSpec => []RetryWindow
<1>1. LedgerInv /\ [LedgerNext]_ledgerVars => LedgerInv'
  BY LedgerTypeStep, ForgottenStep, WindowStep DEF LedgerInv
<1>2. LedgerInv => RetryWindow
  BY DEF LedgerInv
<1>3. QED
  BY LedgerInitial, <1>1, <1>2, PTL DEF LedgerSpec
=============================================================================
