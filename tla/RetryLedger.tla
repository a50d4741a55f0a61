---------------------------- MODULE RetryLedger ----------------------------
(***************************************************************************)
(* What the replay journal promises a retrying client, with no table,      *)
(* battle or maintenance statement in sight: a request that was executed   *)
(* is remembered, a remembered request is never executed again, and it is  *)
(* forgotten only once it is old or once enough newer requests of the same *)
(* account were executed.                                                  *)
(*                                                                         *)
(* Journal implements this module: its table is what is remembered here.   *)
(***************************************************************************)
EXTENDS JournalTypes

VARIABLES
    executions,  \* every execution that ever committed
    remembered,  \* the executions whose answer can still be replayed
    deleted,     \* the accounts that were deleted
    now          \* seconds

ledgerVars == <<executions, remembered, deleted, now>>

Newer(e) == {n \in executions : n.acct = e.acct /\ n.mid > e.mid}

Expired(e) ==
    \/ now - e.at > RetentionSeconds
    \/ Cardinality(Newer(e)) >= RetentionCount

LedgerInit ==
    /\ executions = {}
    /\ remembered = {}
    /\ deleted = {}
    /\ now = 0

Execute(e) ==
    /\ e \in Row
    /\ e.acct \notin deleted
    /\ e.at = now
    /\ \A x \in executions : x.mid < e.mid
    /\ \A r \in remembered : ~SameKey(r, e)
    /\ executions' = executions \union {e}
    /\ remembered' = remembered \union {e}
    /\ UNCHANGED <<deleted, now>>

Forget(D) ==
    /\ D \subseteq remembered
    /\ \A e \in D : Expired(e)
    /\ remembered' = remembered \ D
    /\ UNCHANGED <<executions, deleted, now>>

Drop(a) ==
    /\ deleted' = deleted \union {a}
    /\ remembered' = {r \in remembered : r.acct # a}
    /\ UNCHANGED <<executions, now>>

TimePasses ==
    /\ now' = now + 1
    /\ UNCHANGED <<executions, remembered, deleted>>

LedgerNext ==
    \/ \E e \in executions' : Execute(e)
    \/ Forget(remembered \ remembered')
    \/ \E a \in Accounts : Drop(a)
    \/ TimePasses

LedgerSpec == LedgerInit /\ [][LedgerNext]_ledgerVars

-----------------------------------------------------------------------------
LedgerTypeOK ==
    /\ executions \subseteq Row
    /\ IsFiniteSet(executions)
    /\ remembered \subseteq executions
    /\ deleted \subseteq Accounts
    /\ now \in Nat

\* The inductive core: what is not remembered any more has expired.
ForgottenOnlyIfExpired ==
    \A e \in executions :
        \/ e \in remembered
        \/ e.acct \in deleted
        \/ Expired(e)

\* Between two executions of one request lies the whole retention window.
RetryWindow ==
    \A e, f \in executions :
        (SameKey(e, f) /\ e.mid < f.mid)
            => \/ f.at - e.at > RetentionSeconds
               \/ Cardinality({n \in Newer(e) : n.mid < f.mid}) >= RetentionCount
=============================================================================
