-------------------------- MODULE ActivitiesProofs --------------------------
(***************************************************************************)
(* Proofs about the components the activities run checks: sign-ins (Auth), *)
(* special battles (Modes), what a player owns (Belongings), the shop      *)
(* (Shop) and runs of quests (Exploration), one section each, every one    *)
(* with its inductive invariant; and about the five put side by side.      *)
(***************************************************************************)
EXTENDS MCActivities, DataTheorems

-----------------------------------------------------------------------------
(* Sign-ins belong to whoever logged in for them: for any number of        *)
(* accounts, login processes, passwords and lifetimes.                     *)

\* An account id is given once: AUTOINCREMENT never returns to one.
AccountsNumbered ==
    /\ \A a \in accounts : a.id < nextAccount
    /\ \A a, b \in accounts : a.id = b.id => a = b

\* What a login process has read is an account as it is or as it was: the id
\* is not given to anybody else.
LoginsRead ==
    \A l \in Logins : \A a \in login[l].account :
        /\ a.id < nextAccount
        /\ \A b \in accounts : b.id = a.id => b = a

\* The account a grant or a session opens is the one that was verified for it.
VerifiedFor(id, owner) ==
    \E a \in accounts :
        a.id = owner /\ [grant |-> id, user |-> a.user, pw |-> a.pw] \in verified

GrantsVerified ==
    /\ \A g \in grants : g.id < nextGrant /\ VerifiedFor(g.id, g.acct)
    /\ \A g, h \in grants : g.id = h.id => g = h

SessionsOwned ==
    \A s \in sessions : s.acct \in players /\ VerifiedFor(s.grant, s.acct)

\* A grant that has opened a session is revoked for good.
OpenedRevoked ==
    \A t \in GrantIds :
        \/ opened[t] = 0
        \/ opened[t] = 1 /\ t < nextGrant /\ \A g \in grants : g.id = t => g.revoked

AuthInv ==
    /\ AuthTypeOK
    /\ AccountsNumbered
    /\ LoginsRead
    /\ GrantsVerified
    /\ SessionsOwned
    /\ OpenedRevoked

-----------------------------------------------------------------------------
LEMMA AuthInitial == AuthInit => AuthInv
<1> SUFFICES ASSUME AuthInit PROVE AuthInv
  OBVIOUS
<1>1. AuthTypeOK
  <2>1. login \in [Logins -> [pc: {"idle", "read", "issued"},
                              account: SUBSET Account, grant: 0..MaxGrants]]
    BY AuthAssumption DEF AuthInit, IdleLogin
  <2>2. QED
    BY <2>1 DEF AuthInit, AuthTypeOK
<1>2. AccountsNumbered /\ GrantsVerified /\ SessionsOwned
  BY DEF AuthInit, AccountsNumbered, GrantsVerified, SessionsOwned
<1>3. LoginsRead
  BY DEF AuthInit, LoginsRead, IdleLogin
<1>4. OpenedRevoked
  BY DEF AuthInit, OpenedRevoked
<1>5. QED
  BY <1>1, <1>2, <1>3, <1>4 DEF AuthInv

\* The account processes: what each of their steps leaves well typed.
LEMMA LoginTypes ==
    ASSUME AuthTypeOK, NEW l \in Logins,
           \/ \E u \in Usernames, p \in Passwords : account_by_username(l, u, p)
           \/ issue_grant(l)
           \/ write_handoff(l)
           \/ LoginDies(l)
    PROVE  AuthTypeOK'
<1> DEFINE Login == [pc: {"idle", "read", "issued"}, account: SUBSET Account,
                     grant: 0..MaxGrants]
<1>1. /\ login \in [Logins -> Login]
      /\ IdleLogin \in Login
  BY AuthAssumption DEF AuthTypeOK, IdleLogin
<1>2. ASSUME NEW u \in Usernames, NEW p \in Passwords, account_by_username(l, u, p)
      PROVE  AuthTypeOK'
  <2>1. PICK a \in accounts :
            login' = [login EXCEPT ![l] = [pc |-> "read", account |-> {a}, grant |-> 0]]
    BY <1>2 DEF account_by_username
  <2>2. [pc |-> "read", account |-> {a}, grant |-> 0] \in Login
    BY AuthAssumption DEF AuthTypeOK
  <2>3. login' \in [Logins -> Login]
    BY <1>1, <2>1, <2>2
  <2>4. QED
    BY <1>2, <2>3 DEF account_by_username, AuthTypeOK
<1>3. CASE issue_grant(l)
  <2>1. CASE login' = [login EXCEPT ![l] = IdleLogin]
             /\ UNCHANGED <<grants, nextGrant, verified>>
    <3>1. login' \in [Logins -> Login]
      BY <1>1, <2>1
    <3>2. QED
      BY <1>3, <2>1, <3>1 DEF issue_grant, AuthTypeOK
  <2>2. ASSUME NEW a \in login[l].account,
               grants' = grants \union {[id |-> nextGrant, acct |-> a.id,
                                         expires |-> authTime + HandoffTtl,
                                         revoked |-> FALSE]},
               nextGrant' = nextGrant + 1,
               verified' = verified \union {[grant |-> nextGrant,
                                             user |-> a.user, pw |-> a.pw]},
               login' = [login EXCEPT ![l] = [pc |-> "issued", account |-> {},
                                              grant |-> nextGrant]]
        PROVE  AuthTypeOK'
    <3>1. a \in Account /\ nextGrant \in GrantIds
      BY <1>1, <1>3, AuthAssumption DEF issue_grant, AuthTypeOK, GrantIds
    <3>2. a.id \in Nat /\ a.user \in Usernames /\ a.pw \in Passwords
      BY <3>1 DEF Account
    <3>3. grants' \subseteq Grant /\ verified' \subseteq Credentials
      <4>1. authTime + HandoffTtl \in Nat
        BY AuthAssumption DEF AuthTypeOK
      <4>2. /\ [id |-> nextGrant, acct |-> a.id, expires |-> authTime + HandoffTtl,
                revoked |-> FALSE] \in Grant
            /\ [grant |-> nextGrant, user |-> a.user, pw |-> a.pw] \in Credentials
        BY <3>1, <3>2, <4>1 DEF Grant, Credentials
      <4>3. QED
        BY <2>2, <4>2 DEF AuthTypeOK
    <3>4. [pc |-> "issued", account |-> {}, grant |-> nextGrant] \in Login
      BY <3>1, AuthAssumption DEF GrantIds
    <3>5. login' \in [Logins -> Login]
      BY <1>1, <2>2, <3>4
    <3>6. QED
      BY <1>3, <2>2, <3>3, <3>5 DEF issue_grant, AuthTypeOK
  <2>3. QED
    BY <1>3, <2>1, <2>2 DEF issue_grant
<1>4. CASE write_handoff(l)
  <2>1. login' \in [Logins -> Login]
    BY <1>1, <1>4 DEF write_handoff
  <2>2. handoff' \in {Absent, Empty} \union GrantIds
    BY <1>1, <1>4 DEF write_handoff, AuthTypeOK, GrantIds, Empty
  <2>3. QED
    BY <1>4, <2>1, <2>2 DEF write_handoff, AuthTypeOK
<1>5. CASE LoginDies(l)
  <2>1. login' \in [Logins -> Login]
    BY <1>1, <1>5 DEF LoginDies
  <2>2. handoff' \in {Absent, Empty} \union GrantIds
    BY <1>5 DEF LoginDies, AuthTypeOK
  <2>3. QED
    BY <1>5, <2>1, <2>2 DEF LoginDies, AuthTypeOK
<1>6. QED
  BY <1>2, <1>3, <1>4, <1>5

LEMMA AuthTypeStep ==
    ASSUME AuthInv, [AuthNext]_authVars
    PROVE  AuthTypeOK'
<1> USE DEF AuthInv
<1>1. ASSUME NEW l \in Logins,
             \/ \E u \in Usernames, p \in Passwords : account_by_username(l, u, p)
             \/ issue_grant(l)
             \/ write_handoff(l)
             \/ LoginDies(l)
      PROVE  AuthTypeOK'
  BY <1>1, LoginTypes
<1>2. ASSUME NEW u \in Usernames, NEW p \in Passwords, create_account(u, p)
      PROVE  AuthTypeOK'
  BY <1>2 DEF create_account, NewAccountId, AuthTypeOK, Account
<1>3. CASE TakeHandoff
  BY <1>3 DEF TakeHandoff, AuthTypeOK, Absent, Empty, GrantIds
<1>4. ASSUME NEW t \in GrantIds, consume_grant_and_initialize(t)
      PROVE  AuthTypeOK'
  <2>1. PICK g \in resolve_grant(t) :
            /\ grants' = (grants \ {g}) \union {[g EXCEPT !.revoked = TRUE]}
            /\ players' = players \union {g.acct}
            /\ sessions' = sessions \union {[grant |-> t, acct |-> g.acct,
                                             expires |-> authTime + SessionTtl]}
            /\ opened' = [opened EXCEPT ![t] = @ + 1]
    BY <1>4 DEF consume_grant_and_initialize
  <2>2. g \in grants /\ g \in Grant
    BY DEF resolve_grant, AuthTypeOK
  <2>3. grants' \subseteq Grant
    BY <2>1, <2>2 DEF AuthTypeOK, Grant
  <2>4. players' \subseteq {a.id : a \in accounts'}
    BY <1>4, <2>1, <2>2
       DEF consume_grant_and_initialize, AuthTypeOK, AuthInv, GrantsVerified,
           VerifiedFor
  <2>5. sessions' \subseteq Session
    BY <2>1, <2>2, AuthAssumption DEF AuthTypeOK, Grant, Session
  <2>6. opened' \in [GrantIds -> Nat]
    BY <2>1 DEF AuthTypeOK
  <2>7. QED
    BY <1>4, <2>3, <2>4, <2>5, <2>6 DEF consume_grant_and_initialize, AuthTypeOK
<1>5. ASSUME NEW s \in sessions, delete_account(s)
      PROVE  AuthTypeOK'
  BY <1>5 DEF delete_account, AuthTypeOK
<1>6. CASE prune_expired
  BY <1>6 DEF prune_expired, Batch, AuthTypeOK
<1>7. CASE AuthTick
  BY <1>7 DEF AuthTick, AuthTypeOK
<1>8. CASE UNCHANGED authVars
  BY <1>8 DEF authVars, AuthTypeOK
<1>9. QED
  BY <1>1, <1>2, <1>3, <1>4, <1>5, <1>6, <1>7, <1>8 DEF AuthNext

\* What the actions other than create_account and delete_account leave alone.
LEMMA AccountsFrame ==
    ASSUME [AuthNext]_authVars
    PROVE  \/ \E u \in Usernames, p \in Passwords : create_account(u, p)
           \/ \E s \in sessions : delete_account(s)
           \/ UNCHANGED <<accounts, nextAccount>>
BY DEF AuthNext, authVars, account_by_username, issue_grant, write_handoff,
       LoginDies, TakeHandoff, consume_grant_and_initialize, prune_expired,
       AuthTick

LEMMA NumberedStep ==
    ASSUME AuthTypeOK, AccountsNumbered, [AuthNext]_authVars
    PROVE  AccountsNumbered'
<1>1. ASSUME NEW u \in Usernames, NEW p \in Passwords, create_account(u, p)
      PROVE  AccountsNumbered'
  BY <1>1 DEF create_account, NewAccountId, AccountsNumbered, AuthTypeOK, Account
<1>2. ASSUME NEW s \in sessions, delete_account(s)
      PROVE  AccountsNumbered'
  BY <1>2 DEF delete_account, AccountsNumbered
<1>3. CASE UNCHANGED <<accounts, nextAccount>>
  BY <1>3 DEF AccountsNumbered
<1>4. QED
  BY <1>1, <1>2, <1>3, AccountsFrame

\* A login that has read a row keeps it while the account is deleted, and no
\* later account gets its id.
LEMMA LoginsReadStep ==
    ASSUME AuthTypeOK, AccountsNumbered, LoginsRead, [AuthNext]_authVars
    PROVE  LoginsRead'
<1>1. ASSUME NEW l \in Logins, NEW a \in login'[l].account
      PROVE  a \in accounts \/ a \in login[l].account
  <2>1. CASE login'[l] = login[l]
    BY <2>1
  <2>2. CASE login'[l] # login[l]
    <3>1. login'[l].account = {} \/ \E b \in accounts : login'[l].account = {b}
      BY <2>2 DEF AuthNext, authVars, AuthTypeOK, create_account, delete_account,
           account_by_username, issue_grant, write_handoff, LoginDies, TakeHandoff,
           consume_grant_and_initialize, prune_expired, AuthTick, IdleLogin
    <3>2. QED
      BY <3>1
  <2>3. QED
    BY <2>1, <2>2
<1>2. ASSUME NEW l \in Logins, NEW a \in login'[l].account
      PROVE  /\ a \in Account /\ a.id < nextAccount
             /\ \A b \in accounts : b.id = a.id => b = a
  BY <1>1, <1>2 DEF AccountsNumbered, LoginsRead, AuthTypeOK
<1>3. /\ nextAccount' >= nextAccount
      /\ \A b \in accounts' : b \in accounts \/ b.id = nextAccount
  BY AccountsFrame DEF create_account, NewAccountId, delete_account, AuthTypeOK
<1>4. ASSUME NEW l \in Logins, NEW a \in login'[l].account
      PROVE  /\ a.id < nextAccount'
             /\ \A b \in accounts' : b.id = a.id => b = a
  <2>1. nextAccount \in Nat /\ nextAccount' \in Nat /\ a.id \in Nat
    BY <1>2, AccountsFrame DEF create_account, delete_account, AuthTypeOK, Account
  <2>2. QED
    BY <1>2, <1>3, <2>1
<1>5. QED
  BY <1>4 DEF LoginsRead

-----------------------------------------------------------------------------
(* Grants and sessions *)

\* Logging in adds a grant for an account that is there and was verified.
LEMMA GrantsIssued ==
    ASSUME AuthInv, NEW l \in Logins, issue_grant(l)
    PROVE  GrantsVerified' /\ SessionsOwned' /\ OpenedRevoked'
<1> USE DEF AuthInv
<1>1. UNCHANGED <<accounts, players, sessions, opened>>
  BY DEF issue_grant
<1>2. CASE UNCHANGED <<grants, nextGrant, verified>>
  BY <1>1, <1>2 DEF GrantsVerified, SessionsOwned, OpenedRevoked, VerifiedFor
<1>3. ASSUME NEW a \in login[l].account, NEW b \in accounts, b.id = a.id,
             grants' = grants \union {[id |-> nextGrant, acct |-> a.id,
                                       expires |-> authTime + HandoffTtl,
                                       revoked |-> FALSE]},
             nextGrant' = nextGrant + 1,
             verified' = verified \union {[grant |-> nextGrant,
                                           user |-> a.user, pw |-> a.pw]}
      PROVE  GrantsVerified' /\ SessionsOwned' /\ OpenedRevoked'
  <2>1. PICK new : new = [id |-> nextGrant, acct |-> a.id,
                          expires |-> authTime + HandoffTtl, revoked |-> FALSE]
    OBVIOUS
  <2>2. /\ new.id = nextGrant /\ new.acct = a.id
        /\ grants' = grants \union {new}
    BY <1>3, <2>1
  <2>3. /\ VerifiedFor(new.id, new.acct)'
        /\ \A g \in grants : VerifiedFor(g.id, g.acct)'
    <3>1. b = a
      BY <1>3 DEF LoginsRead
    <3>2. /\ accounts' = accounts /\ verified \subseteq verified'
          /\ [grant |-> new.id, user |-> a.user, pw |-> a.pw] \in verified'
      BY <1>1, <1>3, <2>2
    <3>3. QED
      BY <2>2, <3>1, <3>2 DEF GrantsVerified, VerifiedFor
  <2>4. \A g \in grants : g.id \in Nat /\ g.id < nextGrant
    BY AuthAssumption DEF GrantsVerified, AuthTypeOK, Grant, GrantIds
  <2>5. nextGrant \in Nat
    BY DEF AuthTypeOK
  <2>6. GrantsVerified'
    BY <1>3, <2>2, <2>3, <2>4, <2>5 DEF GrantsVerified
  <2>7. SessionsOwned'
    BY <1>1, <1>3 DEF SessionsOwned, VerifiedFor
  <2>8. OpenedRevoked'
    <3>1. \A t \in GrantIds : t \in Nat
      BY AuthAssumption DEF GrantIds
    <3>2. QED
      BY <1>1, <1>3, <2>2, <2>5, <3>1 DEF OpenedRevoked
  <2>9. QED
    BY <2>6, <2>7, <2>8
<1>4. QED
  BY <1>2, <1>3 DEF issue_grant

\* A sign-in revokes the grant it uses and opens that account's session.
LEMMA GrantsConsumed ==
    ASSUME AuthInv, NEW t \in GrantIds, consume_grant_and_initialize(t)
    PROVE  GrantsVerified' /\ SessionsOwned' /\ OpenedRevoked'
<1> USE DEF AuthInv
<1>1. PICK g \in resolve_grant(t) :
          /\ grants' = (grants \ {g}) \union {[g EXCEPT !.revoked = TRUE]}
          /\ players' = players \union {g.acct}
          /\ sessions' = sessions \union {[grant |-> t, acct |-> g.acct,
                                           expires |-> authTime + SessionTtl]}
          /\ opened' = [opened EXCEPT ![t] = @ + 1]
  BY DEF consume_grant_and_initialize
<1>2. UNCHANGED <<accounts, nextGrant, verified>>
  BY DEF consume_grant_and_initialize
<1>3. g \in grants /\ g \in Grant /\ g.id = t /\ ~g.revoked
  BY DEF resolve_grant, AuthTypeOK
<1> DEFINE used == [g EXCEPT !.revoked = TRUE]
<1>4. used.id = t /\ used.acct = g.acct /\ used.revoked
  BY <1>3 DEF Grant
<1>5. \A h \in grants : h.id = t => h = g
  BY <1>3 DEF GrantsVerified
<1>6. GrantsVerified'
  BY <1>1, <1>2, <1>3, <1>4, <1>5 DEF GrantsVerified, VerifiedFor
<1>7. SessionsOwned'
  <2>1. VerifiedFor(t, g.acct)'
    BY <1>2, <1>3 DEF GrantsVerified, VerifiedFor
  <2>2. \A s \in sessions : VerifiedFor(s.grant, s.acct)'
    BY <1>2 DEF SessionsOwned, VerifiedFor
  <2>3. QED
    BY <1>1, <2>1, <2>2 DEF SessionsOwned
<1>8. OpenedRevoked'
  <2>1. opened[t] = 0 /\ t < nextGrant
    BY <1>3 DEF OpenedRevoked, GrantsVerified
  <2>2. /\ opened'[t] = 1
        /\ \A u \in GrantIds \ {t} : opened'[u] = opened[u]
    BY <1>1, <2>1 DEF AuthTypeOK
  <2>3. \A h \in grants' : h.id = t => h.revoked
    BY <1>1, <1>4, <1>5
  <2>4. \A u \in GrantIds \ {t} :
            (\A h \in grants : h.id = u => h.revoked)
                => \A h \in grants' : h.id = u => h.revoked
    BY <1>1, <1>4
  <2>5. QED
    BY <1>2, <2>1, <2>2, <2>3, <2>4 DEF OpenedRevoked
<1>9. QED
  BY <1>6, <1>7, <1>8

\* Deletion takes everything the account owns; the foreign keys leave no
\* grant and no session without its account.
LEMMA AccountDeleted ==
    ASSUME AuthInv, NEW d \in sessions, delete_account(d)
    PROVE  GrantsVerified' /\ SessionsOwned' /\ OpenedRevoked'
<1> USE DEF AuthInv
<1>1. /\ accounts' = {a \in accounts : a.id # d.acct}
      /\ players' = players \ {d.acct}
      /\ grants' = {g \in grants : g.acct # d.acct}
      /\ sessions' = {s \in sessions : s.acct # d.acct}
      /\ UNCHANGED <<nextGrant, verified, opened>>
  BY DEF delete_account
<1>2. GrantsVerified'
  BY <1>1 DEF GrantsVerified, VerifiedFor
<1>3. SessionsOwned'
  BY <1>1 DEF SessionsOwned, VerifiedFor
<1>4. OpenedRevoked'
  BY <1>1 DEF OpenedRevoked
<1>5. QED
  BY <1>2, <1>3, <1>4

LEMMA OwnersStep ==
    ASSUME AuthInv, [AuthNext]_authVars
    PROVE  GrantsVerified' /\ SessionsOwned' /\ OpenedRevoked'
<1>1. ASSUME NEW l \in Logins, issue_grant(l)
      PROVE  GrantsVerified' /\ SessionsOwned' /\ OpenedRevoked'
  BY <1>1, GrantsIssued
<1>2. ASSUME NEW t \in GrantIds, consume_grant_and_initialize(t)
      PROVE  GrantsVerified' /\ SessionsOwned' /\ OpenedRevoked'
  BY <1>2, GrantsConsumed
<1>3. ASSUME NEW s \in sessions, delete_account(s)
      PROVE  GrantsVerified' /\ SessionsOwned' /\ OpenedRevoked'
  BY <1>3, AccountDeleted
<1>4. CASE /\ accounts \subseteq accounts'
           /\ grants' \subseteq grants
           /\ sessions' \subseteq sessions
           /\ UNCHANGED <<players, nextGrant, verified, opened>>
  BY <1>4 DEF AuthInv, GrantsVerified, SessionsOwned, OpenedRevoked, VerifiedFor
<1>5. QED
  BY <1>1, <1>2, <1>3, <1>4
     DEF AuthNext, authVars, create_account, account_by_username, write_handoff,
         LoginDies, TakeHandoff, prune_expired, Batch, AuthTick

-----------------------------------------------------------------------------
(* The theorems about AuthSpec *)

LEMMA AuthInvariance == AuthSpec => []AuthInv
<1>1. ASSUME AuthInv, [AuthNext]_authVars
      PROVE  AuthInv'
  <2>1. AuthTypeOK /\ AccountsNumbered /\ LoginsRead
    BY <1>1 DEF AuthInv
  <2>2. AuthTypeOK' /\ AccountsNumbered' /\ LoginsRead'
    BY <1>1, <2>1, AuthTypeStep, NumberedStep, LoginsReadStep
  <2>3. QED
    BY <1>1, <2>2, OwnersStep DEF AuthInv
<1>2. QED
  BY AuthInitial, <1>1, PTL DEF AuthSpec

\* The tables, the login processes and the handoff file keep their types, and
\* every player belongs to an account that is there.
THEOREM AuthTypeCorrectness == AuthSpec => []AuthTypeOK
BY AuthInvariance, PTL DEF AuthInv

\* A session opens the account whose password its login verified, and a grant
\* opens at most one, although accounts are deleted and usernames taken again
\* while a login is between its steps (issue_grant, write_handoff).
THEOREM SignInsBelong == AuthSpec => []SignInsAreOwned
<1>1. AuthInv => OwnersOnly
  BY DEF AuthInv, SessionsOwned, VerifiedFor, OwnersOnly
<1>2. AuthInv => GrantOpensOnce
  BY DEF AuthInv, OpenedRevoked, GrantOpensOnce
<1>3. QED
  BY <1>1, <1>2, AuthInvariance, PTL DEF SignInsAreOwned

\* A grant or session that would still be accepted leaves its table only when
\* it is consumed or with its account: for any batch size of prune_expired.
THEOREM PruningInvisible == AuthSpec => MaintenanceInvisible
<1> DEFINE Excused(row) ==
        \/ row.expires <= authTime
        \/ row \in grants /\ \E g \in grants' : g.id = row.id
        \/ \A a \in accounts' : a.id # row.acct
<1>1. ASSUME AuthInv, [AuthNext]_authVars,
             NEW row \in (grants \ grants') \union (sessions \ sessions')
      PROVE  Excused(row)
  <2>1. CASE prune_expired
    BY <1>1, <2>1 DEF prune_expired, Batch, Expired
  <2>2. ASSUME NEW s \in sessions, delete_account(s)
        PROVE  Excused(row)
    BY <1>1, <2>2 DEF delete_account
  <2>3. ASSUME NEW t \in GrantIds, consume_grant_and_initialize(t)
        PROVE  Excused(row)
    <3>1. PICK g \in grants :
              /\ g \in Grant
              /\ grants' = (grants \ {g}) \union {[g EXCEPT !.revoked = TRUE]}
              /\ sessions \subseteq sessions'
      BY <1>1, <2>3 DEF consume_grant_and_initialize, resolve_grant, AuthInv,
                        AuthTypeOK
    <3>2. [g EXCEPT !.revoked = TRUE].id = g.id
      BY <3>1 DEF Grant
    <3>3. row = g
      BY <1>1, <3>1
    <3>4. QED
      BY <3>1, <3>2, <3>3
  <2>4. CASE grants \subseteq grants' /\ sessions \subseteq sessions'
    BY <1>1, <2>4
  <2>5. QED
    BY <1>1, <2>1, <2>2, <2>3, <2>4
       DEF AuthNext, authVars, create_account, account_by_username, issue_grant,
           write_handoff, LoginDies, TakeHandoff, AuthTick
<1>2. AuthInv /\ [AuthNext]_authVars =>
          [\A row \in (grants \ grants') \union (sessions \ sessions') :
              Excused(row)]_authVars
  BY <1>1
<1>3. QED
  BY <1>2, AuthInvariance, PTL DEF AuthSpec, MaintenanceInvisible

-----------------------------------------------------------------------------
(* Special battles: panel lines, score ranks and raids, for any panels,    *)
(* lines, ranks and limits.                                                *)

\* The rank a score battle has is that of the best score, once there is one.
RankIsOfTheBest ==
    \/ score.rank = 0 /\ score.high = 0
    \/ score.rank = RankOf(score.high)

ModesInv == ModesTypeOK /\ ModesPayOnce /\ RankIsOfTheBest

LEMMA MaxIsGreatest ==
    ASSUME NEW S, S \subseteq Nat, IsFiniteSet(S), S # {}
    PROVE  Max(S) \in S /\ \A y \in S : y <= Max(S)
<1>1. PICK n \in S : \A m \in S : m <= n BY GreatestNumber
<1>2. \E x \in S : \A y \in S : x >= y BY <1>1
<1>3. Max(S) \in S /\ \A y \in S : Max(S) >= y BY <1>2, Zenon DEF Max
<1> QED BY <1>3

LEMMA MinIsLeast ==
    ASSUME NEW S, S \subseteq Nat, S # {}
    PROVE  Min(S) \in S /\ \A y \in S : Min(S) <= y
<1>1. \E x \in S : \A y \in S : x =< y BY LeastNumber
<1> QED BY <1>1, Zenon DEF Min

\* A better score has no worse rank.
LEMMA RanksRise ==
    /\ \A s \in Nat : RankOf(s) \in DOMAIN RankScore
    /\ \A s, t \in Nat : s <= t => RankOf(s) <= RankOf(t)
<1> DEFINE D == DOMAIN RankScore
           reached(s) == {r \in D : RankScore[r] <= s}
<1>1. D \subseteq Nat /\ IsFiniteSet(D) /\ D # {} /\ \A r \in D : RankScore[r] \in Int
  BY ModesAssumption
<1>2. Min(D) \in D /\ \A y \in D : Min(D) <= y
  <2> HIDE DEF D
  <2> QED BY <1>1, MinIsLeast
<1>3. ASSUME NEW s \in Nat, reached(s) # {}
      PROVE  Max(reached(s)) \in reached(s) /\ \A y \in reached(s) : y <= Max(reached(s))
  <2> DEFINE R == reached(s)
  <2>1. R \in SUBSET D OBVIOUS
  <2>2. IsFiniteSet(R) /\ R \subseteq Nat
    <3> HIDE DEF R, D
    <3> QED BY <1>1, <2>1, FS_Subset
  <2>3. R # {} BY <1>3
  <2>4. Max(R) \in R /\ \A y \in R : y <= Max(R)
    <3> HIDE DEF R
    <3> QED BY <2>2, <2>3, MaxIsGreatest
  <2> QED BY <2>4
<1>4. \A s : RankOf(s) = IF reached(s) = {} THEN Min(D) ELSE Max(reached(s))
  BY Zenon DEF RankOf
<1>5. ASSUME NEW s \in Nat PROVE RankOf(s) \in D BY <1>2, <1>3, <1>4
<1>6. ASSUME NEW s \in Nat, NEW t \in Nat, s <= t PROVE RankOf(s) <= RankOf(t)
  <2>1. reached(s) \subseteq reached(t) BY <1>1, <1>6
  <2>2. CASE reached(s) = {}
    <3>1. RankOf(s) = Min(D) BY <1>4, <2>2
    <3> QED BY <1>2, <1>5, <3>1
  <2>3. CASE reached(s) # {}
    <3>1. reached(t) # {} BY <2>1, <2>3
    <3>2. RankOf(s) \in reached(s) BY <1>3, <1>4, <2>3
    <3>3. \A y \in reached(t) : y <= RankOf(t) BY <1>3, <1>4, <3>1
    <3> QED BY <2>1, <3>2, <3>3
  <2> QED BY <2>2, <2>3
<1> QED BY <1>5, <1>6

CompleteLines(ps) == {l \in Lines : l \subseteq Cleared(ps)}

\* Panels that stay cleared keep their lines, and there are not more lines than
\* there are.
LEMMA LinesRise ==
    /\ Cardinality(Lines) \in Nat \ {0}
    /\ \A ps : LineCount(ps) \in 0..Cardinality(Lines)
    /\ \A ps, qs : Cleared(ps) \subseteq Cleared(qs) => LineCount(ps) <= LineCount(qs)
<1>1. IsFiniteSet(Lines) /\ Cardinality(Lines) \in Nat \ {0}
  <2>1. IsFiniteSet(SUBSET Panels) BY ModesAssumption, FS_SUBSET
  <2>2. Lines \in SUBSET (SUBSET Panels) BY ModesAssumption
  <2>3. IsFiniteSet(Lines) BY <2>1, <2>2, FS_Subset
  <2>4. Cardinality(Lines) \in Nat BY <2>3, FS_CardinalityType
  <2>5. Cardinality(Lines) # 0 BY <2>3, FS_EmptySet, ModesAssumption
  <2> QED BY <2>3, <2>4, <2>5
<1>2. \A ps : LineCount(ps) = Cardinality(CompleteLines(ps)) BY DEF LineCount, CompleteLines
<1>3. \A ps : CompleteLines(ps) \in SUBSET Lines BY DEF CompleteLines
<1>4. \A ps : /\ IsFiniteSet(CompleteLines(ps))
              /\ Cardinality(CompleteLines(ps)) <= Cardinality(Lines)
  BY <1>1, <1>3, FS_Subset
<1>5. \A ps : Cardinality(CompleteLines(ps)) \in Nat BY <1>4, FS_CardinalityType
<1>6. ASSUME NEW ps, NEW qs, Cleared(ps) \subseteq Cleared(qs)
      PROVE  Cardinality(CompleteLines(ps)) <= Cardinality(CompleteLines(qs))
  <2>1. CompleteLines(ps) \in SUBSET CompleteLines(qs) BY <1>6 DEF CompleteLines
  <2> QED BY <1>4, <2>1, FS_Subset
<1> QED BY <1>1, <1>2, <1>4, <1>5, <1>6

LEMMA ModesStart == ModesInit => ModesInv
<1> SUFFICES ASSUME ModesInit PROVE ModesInv OBVIOUS
<1>1. Cardinality(Lines) \in Nat \ {0} BY LinesRise
<1>2. ModesTypeOK BY <1>1, ModesAssumption DEF ModesInit, ModesTypeOK, Peace
<1>3. LinesPaidOnce
  <2>1. Cleared(panelStates) = {} BY DEF ModesInit, Cleared
  <2>2. {l \in Lines : l \subseteq Cleared(panelStates)} = {} BY <2>1, ModesAssumption
  <2>3. LineCount(panelStates) = 0 BY <2>2, FS_EmptySet DEF LineCount
  <2>4. \A n \in LineRewards : n \in Nat /\ ~(n <= 0) BY <1>1, ModesAssumption
  <2> QED BY <1>1, <2>3, <2>4 DEF ModesInit, LinesPaidOnce
<1>4. RanksPaidOnce
  BY ModesAssumption DEF ModesInit, RanksPaidOnce
<1>5. FightsRaidOnce BY DEF ModesInit, FightsRaidOnce
<1>6. RankIsOfTheBest BY DEF ModesInit, RankIsOfTheBest
<1> QED BY <1>2, <1>3, <1>4, <1>5, <1>6 DEF ModesInv, ModesPayOnce

\* What a step leaves alone stays right.
LEMMA ModesFrame ==
    ASSUME ModesInv
    PROVE  /\ UNCHANGED <<panelStates, line, modesPaid, events>> => LinesPaidOnce'
           /\ UNCHANGED <<score, modesPaid>> => RanksPaidOnce' /\ RankIsOfTheBest'
           /\ UNCHANGED <<raid, fought>> => FightsRaidOnce'
BY Zenon DEF ModesInv, ModesPayOnce, LinesPaidOnce, RanksPaidOnce, RankIsOfTheBest,
             FightsRaidOnce

LEMMA RaidStarts ==
    ASSUME ModesInv, NEW team \in SUBSET Fighters, solo_raid_battle_start(team)
    PROVE  ModesInv'
<1> USE DEF ModesInv, ModesPayOnce
<1>1. ModesTypeOK' /\ raid'.entered # 0
  BY DEF ModesTypeOK, solo_raid_battle_start, UsedBy, Fight, Score, Raid, Peace
<1>2. FightsRaidOnce'
  <2>1. \A c \in Fighters : fought'[c] = IF c \in team THEN fought[c] + 1 ELSE fought[c]
    BY DEF solo_raid_battle_start, ModesTypeOK
  <2>2. \A c \in team : fought[c] = 0 /\ c \in Fighters
    BY DEF solo_raid_battle_start, ModesTypeOK, FightsRaidOnce
  <2>3. \A c \in Fighters : fought'[c] <= 1 BY <2>1, <2>2 DEF FightsRaidOnce
  <2>4. raid'.used = raid.used \union team BY DEF solo_raid_battle_start, UsedBy
  <2>5. raid'.used = {c \in Fighters : fought'[c] > 0}
    BY <2>1, <2>2, <2>4 DEF FightsRaidOnce, ModesTypeOK
  <2> QED BY <1>1, <2>3, <2>5 DEF FightsRaidOnce
<1>3. LinesPaidOnce' /\ RanksPaidOnce' /\ RankIsOfTheBest'
  BY ModesFrame DEF solo_raid_battle_start
<1> QED BY <1>1, <1>2, <1>3

\* Steps that start or give up a battle, show what was achieved, or let time pass.
LEMMA ModesStay ==
    ASSUME ModesInv,
           \/ \E p \in Panels, team \in SUBSET Fighters : total_battle_start(p, team)
           \/ \E q \in {Score} \union Panels, team \in SUBSET Fighters :
                standard_battle_start(q, team)
           \/ special_battle_retire
           \/ achieve_line_drama
           \/ quest_skip(1)
           \/ RaidDayPasses
    PROVE  ModesInv'
<1> USE DEF ModesInv, ModesPayOnce
<1>1. ASSUME NEW p \in Panels, NEW team \in SUBSET Fighters, total_battle_start(p, team)
      PROVE  ModesInv'
  <2>1. ModesTypeOK' BY <1>1 DEF ModesTypeOK, total_battle_start, Fight
  <2> QED BY <1>1, <2>1, ModesFrame DEF total_battle_start
<1>2. ASSUME NEW q \in {Score} \union Panels, NEW team \in SUBSET Fighters,
             standard_battle_start(q, team)
      PROVE  ModesInv'
  <2>1. ModesTypeOK' BY <1>2 DEF ModesTypeOK, standard_battle_start, Fight
  <2> QED BY <1>2, <2>1, ModesFrame DEF standard_battle_start
<1>3. CASE special_battle_retire
  <2>1. ModesTypeOK' BY <1>3 DEF ModesTypeOK, special_battle_retire
  <2> QED BY <1>3, <2>1, ModesFrame DEF special_battle_retire
<1>4. CASE achieve_line_drama
  <2>1. ModesTypeOK' BY <1>4, LinesRise DEF ModesTypeOK, achieve_line_drama
  <2>2. LinesPaidOnce'
    <3>1. line'.best = line.best BY <1>4 DEF achieve_line_drama, ModesTypeOK
    <3>2. UNCHANGED <<panelStates, modesPaid, events>> BY <1>4 DEF achieve_line_drama
    <3> QED BY <3>1, <3>2, Zenon DEF LinesPaidOnce
  <2> QED BY <1>4, <2>1, <2>2, ModesFrame DEF achieve_line_drama
<1>5. CASE quest_skip(1)
  <2>1. ModesTypeOK' BY <1>5, ModesAssumption DEF ModesTypeOK, quest_skip
  <2> QED BY <1>5, <2>1, ModesFrame DEF quest_skip
<1>6. CASE RaidDayPasses
  <2>1. ModesTypeOK' BY <1>6, ModesAssumption DEF ModesTypeOK, RaidDayPasses
  <2> QED BY <1>6, <2>1, ModesFrame DEF RaidDayPasses
<1> QED BY <1>1, <1>2, <1>3, <1>4, <1>5, <1>6

\* A panel that is open again takes lines away, but not the best count.
LEMMA PanelReset ==
    ASSUME ModesInv, NEW p \in Panels, reset_panel(p)
    PROVE  ModesInv'
<1> USE DEF ModesInv, ModesPayOnce
<1>1. ModesTypeOK' BY DEF ModesTypeOK, reset_panel
<1>2. LinesPaidOnce'
  <2>1. Cleared(panelStates') \subseteq Cleared(panelStates)
    BY DEF Cleared, reset_panel, ModesTypeOK
  <2>2. LineCount(panelStates') <= LineCount(panelStates) BY <2>1, LinesRise
  <2>3. LineCount(panelStates') <= line.best
    <3>1. LineCount(panelStates') \in 0..Cardinality(Lines)
          /\ LineCount(panelStates) \in 0..Cardinality(Lines) BY LinesRise
    <3> QED BY <2>2, <3>1, LinesRise DEF LinesPaidOnce, ModesTypeOK
  <2>4. UNCHANGED <<line, modesPaid, events>> BY DEF reset_panel
  <2> QED BY <2>3, <2>4, Zenon DEF LinesPaidOnce
<1> QED BY <1>1, <1>2, ModesFrame DEF reset_panel

LEMMA RaidReset ==
    ASSUME ModesInv, solo_raid_reset
    PROVE  ModesInv'
<1> USE DEF ModesInv, ModesPayOnce
<1>1. ModesTypeOK'
  <2>1. \A n \in 0..RaidLimit : GivenBack(n) \in 0..RaidLimit
    BY MaxOfTwo, ModesAssumption DEF GivenBack
  <2> QED BY <2>1 DEF ModesTypeOK, solo_raid_reset
<1>2. FightsRaidOnce'
  BY DEF solo_raid_reset, FightsRaidOnce
<1> QED BY <1>1, <1>2, ModesFrame DEF solo_raid_reset

\* Every rank from the last one received to the best is paid.
LEMMA RanksReceived ==
    ASSUME ModesInv, score_rank_first_reward_receive
    PROVE  ModesInv'
<1> USE DEF ModesInv, ModesPayOnce
<1>1. ModesTypeOK'
  BY ModesAssumption DEF ModesTypeOK, score_rank_first_reward_receive
<1>2. score'.received = score.rank /\ score'.rank = score.rank /\ score'.high = score.high
  BY DEF ModesTypeOK, score_rank_first_reward_receive
<1>3. RanksPaidOnce'
  <2>1. \A r \in DOMAIN RankScore : modesPaid'.ranks[r] =
            IF score.received < r /\ r <= score.rank THEN modesPaid.ranks[r] + 1
            ELSE modesPaid.ranks[r]
    BY DEF ModesTypeOK, score_rank_first_reward_receive
  <2>2. score.received < score.rank BY DEF score_rank_first_reward_receive
  <2>3. \A r \in DOMAIN RankScore : modesPaid'.ranks[r] = IF r <= score.rank THEN 1 ELSE 0
    BY <2>1, <2>2, ModesAssumption DEF RanksPaidOnce, ModesTypeOK
  <2> QED BY <1>2, <2>3, ModesAssumption DEF RanksPaidOnce, ModesTypeOK
<1>4. LinesPaidOnce'
  <2>1. modesPaid'.lines = modesPaid.lines /\ modesPaid'.complete = modesPaid.complete
    BY DEF ModesTypeOK, score_rank_first_reward_receive
  <2>2. UNCHANGED <<panelStates, line, events>> BY DEF score_rank_first_reward_receive
  <2> QED BY <2>1, <2>2 DEF LinesPaidOnce
<1>5. RankIsOfTheBest' BY <1>2, Zenon DEF RankIsOfTheBest
<1> QED BY <1>1, <1>3, <1>4, <1>5, ModesFrame DEF score_rank_first_reward_receive

\* A won panel: lines are paid up to the count they reach, if none reached it.
LEMMA PanelWon ==
    ASSUME ModesInv, NEW s \in Scores, special_battle_finish(s),
           specialBattle.quest \in Panels,
           finish_total(specialBattle.quest, specialBattle.party)
    PROVE  ModesInv'
<1> USE DEF ModesInv, ModesPayOnce
<1> DEFINE q == specialBattle.quest
           ps == [panelStates EXCEPT ![q] = specialBattle.party]
           lines == LineCount(ps)
           all == Cardinality(Lines)
<1>1. specialBattle.party \in SUBSET Fighters BY DEF ModesTypeOK, Fight, Peace
<1>2. lines \in 0..all /\ all \in Nat \ {0} /\ line.best \in 0..all
  <2> HIDE DEF ps
  <2> QED BY LinesRise DEF ModesTypeOK
<1>3. panelStates' = ps /\ line' = [line EXCEPT !.best = Max({line.best, lines})]
  BY DEF finish_total, BestLines
<1>4. /\ \A n \in LineRewards : modesPaid'.lines[n] =
             IF line.best < n /\ n <= lines THEN modesPaid.lines[n] + 1 ELSE modesPaid.lines[n]
      /\ modesPaid'.complete = IF line.best < all /\ lines = all THEN modesPaid.complete + 1
                               ELSE modesPaid.complete
      /\ modesPaid'.ranks = modesPaid.ranks
      /\ modesPaid' \in [lines: [LineRewards -> Nat], complete: Nat,
                         ranks: [DOMAIN RankScore -> Nat]]
  <2>1. modesPaid' = [modesPaid EXCEPT
             !.lines = [n \in LineRewards |->
                          IF line.best < n /\ n <= lines THEN @[n] + 1 ELSE @[n]],
             !.complete = IF line.best < all /\ lines = all THEN @ + 1 ELSE @]
    BY DEF finish_total
  <2> HIDE DEF lines, all
  <2> DEFINE rewarded == [n \in LineRewards |->
                 IF line.best < n /\ n <= lines THEN modesPaid.lines[n] + 1
                 ELSE modesPaid.lines[n]]
             complete == IF line.best < all /\ lines = all THEN modesPaid.complete + 1
                         ELSE modesPaid.complete
  <2>2. modesPaid' = [modesPaid EXCEPT !.lines = rewarded, !.complete = complete]
    BY <2>1, Zenon
  <2>3. modesPaid \in [lines: [LineRewards -> Nat], complete: Nat,
                       ranks: [DOMAIN RankScore -> Nat]] BY DEF ModesTypeOK
  <2>4. rewarded \in [LineRewards -> Nat] BY <2>3
  <2>5. complete \in Nat BY <2>3
  <2>6. /\ modesPaid'.lines = rewarded /\ modesPaid'.complete = complete
        /\ modesPaid'.ranks = modesPaid.ranks
        /\ modesPaid' \in [lines: [LineRewards -> Nat], complete: Nat,
                           ranks: [DOMAIN RankScore -> Nat]]
    <3> HIDE DEF rewarded, complete
    <3> QED BY <2>2, <2>3, <2>4, <2>5
  <2> QED BY <2>6
<1>5. events'.lines = events.lines + Max({lines - line.best, 0})
  BY DEF finish_total, ModesTypeOK
<1>6. events'.center \in Nat /\ DOMAIN events' = {"lines", "center"}
  BY DEF finish_total, ModesTypeOK
<1> HIDE DEF lines, all, ps
<1>7. line'.best = (IF line.best >= lines THEN line.best ELSE lines) /\ line'.shown = line.shown
  BY <1>2, <1>3, MaxOfTwo DEF ModesTypeOK
<1>8. Max({lines - line.best, 0}) = IF lines >= line.best THEN lines - line.best ELSE 0
  BY <1>2, MaxOfTwo
<1>9. ModesTypeOK'
  <2>1. events' \in [lines: Nat, center: Nat]
    <3>1. events' = [lines |-> events'.lines, center |-> events'.center]
      BY DEF finish_total
    <3> QED BY <1>2, <1>5, <1>6, <1>8, <3>1 DEF ModesTypeOK
  <2>2. line' \in [best: 0..all, shown: Nat] /\ line'.shown <= line'.best
    BY <1>2, <1>3, <1>7 DEF ModesTypeOK
  <2>3. panelStates' \in [Panels -> SUBSET Fighters]
    BY <1>1, <1>3 DEF ModesTypeOK, ps
  <2>4. specialBattle' = Peace BY DEF special_battle_finish
  <2>5. UNCHANGED <<raid, daily, raidDay, fought, score>>
    BY DEF special_battle_finish, finish_total
  <2> QED BY <1>4, <2>1, <2>2, <2>3, <2>4, <2>5 DEF ModesTypeOK, all
<1>10. LinesPaidOnce'
  <2>1. LineCount(panelStates') <= line'.best BY <1>2, <1>3, <1>7 DEF lines
  <2>2. \A n \in LineRewards : modesPaid'.lines[n] = IF n <= line'.best THEN 1 ELSE 0
    BY <1>2, <1>4, <1>7, ModesAssumption DEF LinesPaidOnce, all
  <2>3. modesPaid'.complete = IF line'.best = all THEN 1 ELSE 0
    BY <1>2, <1>4, <1>7 DEF LinesPaidOnce, all
  <2>4. events'.lines = line'.best BY <1>2, <1>5, <1>7, <1>8 DEF LinesPaidOnce
  <2> QED BY <2>1, <2>2, <2>3, <2>4 DEF LinesPaidOnce, all
<1>11. RanksPaidOnce' /\ RankIsOfTheBest'
  <2>1. UNCHANGED score BY DEF finish_total
  <2> QED BY <1>4, <2>1, Zenon DEF RanksPaidOnce, RankIsOfTheBest
<1>12. FightsRaidOnce' BY ModesFrame DEF special_battle_finish
<1> QED BY <1>9, <1>10, <1>11, <1>12

LEMMA BattleScored ==
    ASSUME ModesInv, NEW s \in Scores, special_battle_finish(s), apply_battle_score(s)
    PROVE  ModesInv'
<1> USE DEF ModesInv, ModesPayOnce
<1> DEFINE rank == RankOf(s)
<1>1. s \in Nat /\ rank \in DOMAIN RankScore /\ rank \in Nat \ {0}
  BY RanksRise, ModesAssumption
<1>2. score.rank \in Nat /\ score.high \in Nat BY ModesAssumption DEF ModesTypeOK
<1>3. /\ score'.rank = Max({score.rank, rank}) /\ score'.high = Max({score.high, s})
      /\ score'.received = score.received
      /\ score' = [score EXCEPT !.rank = score'.rank, !.high = score'.high]
  BY DEF apply_battle_score, Scored, ModesTypeOK
<1>4. s <= score.high => (score.rank = 0 /\ score.high = 0) \/ rank <= score.rank
  BY <1>1, <1>2, RanksRise DEF RankIsOfTheBest
<1>5. score.high <= s => score.rank = 0 \/ score.rank <= rank
  BY <1>1, <1>2, RanksRise DEF RankIsOfTheBest
<1> HIDE DEF rank
<1>6. score'.rank = IF score.rank >= rank THEN score.rank ELSE rank
  BY <1>1, <1>2, <1>3, MaxOfTwo
<1>7. score'.high = IF score.high >= s THEN score.high ELSE s
  BY <1>1, <1>2, <1>3, MaxOfTwo
<1>8. RankIsOfTheBest'
  <2>1. CASE score.high >= s /\ ~(score.rank = 0 /\ score.high = 0)
    <3>1. score'.high = score.high /\ score'.rank = score.rank
      BY <1>1, <1>2, <1>4, <1>6, <1>7, <2>1
    <3>2. score.rank = RankOf(score.high) BY <2>1 DEF RankIsOfTheBest
    <3> QED BY <3>1, <3>2, Zenon DEF RankIsOfTheBest
  <2>2. CASE score.high <= s
    <3>1. score'.high = s /\ score'.rank = rank
      BY <1>1, <1>2, <1>5, <1>6, <1>7, <2>2
    <3> QED BY <3>1, Zenon DEF RankIsOfTheBest, rank
  <2> QED BY <1>1, <1>2, <2>1, <2>2
<1>9. ModesTypeOK'
  <2>1. score' \in [rank: DOMAIN RankScore \union {0}, high: Nat, received: Nat]
    BY <1>1, <1>2, <1>3, <1>6, <1>7 DEF ModesTypeOK
  <2>2. specialBattle' = Peace BY DEF special_battle_finish
  <2>3. UNCHANGED <<panelStates, line, raid, daily, raidDay, modesPaid, events, fought>>
    BY DEF special_battle_finish, apply_battle_score
  <2> QED BY <2>1, <2>2, <2>3 DEF ModesTypeOK
<1>10. RanksPaidOnce'
  <2>1. UNCHANGED modesPaid BY DEF apply_battle_score
  <2>2. score'.received <= score'.rank
    BY <1>1, <1>2, <1>3, <1>6 DEF RanksPaidOnce, ModesTypeOK
  <2>3. score'.rank > 0 => score'.rank = RankOf(score'.high)
    BY <1>1, <1>2, <1>6, <1>8 DEF RankIsOfTheBest
  <2> QED BY <1>3, <2>1, <2>2, <2>3 DEF RanksPaidOnce
<1>11. LinesPaidOnce' /\ FightsRaidOnce'
  BY ModesFrame DEF special_battle_finish, apply_battle_score
<1> QED BY <1>8, <1>9, <1>10, <1>11

LEMMA SpecialBattleWon ==
    ASSUME ModesInv, NEW s \in Scores, special_battle_finish(s)
    PROVE  ModesInv'
<1>1. CASE apply_battle_score(s) BY <1>1, BattleScored
<1>2. CASE specialBattle.quest \in Panels
           /\ finish_total(specialBattle.quest, specialBattle.party)
  BY <1>2, PanelWon
<1>3. CASE UNCHANGED <<panelStates, line, score, modesPaid, events>>
  <2>1. ModesTypeOK' BY <1>3 DEF ModesInv, ModesTypeOK, special_battle_finish
  <2> QED BY <1>3, <2>1, ModesFrame DEF special_battle_finish, ModesInv, ModesPayOnce
<1> QED BY <1>1, <1>2, <1>3, Zenon DEF special_battle_finish

LEMMA ModesStep == ModesInv /\ [ModesNext]_modesVars => ModesInv'
<1> SUFFICES ASSUME ModesInv, [ModesNext]_modesVars PROVE ModesInv' OBVIOUS
<1>1. CASE UNCHANGED modesVars
  BY <1>1, ModesFrame DEF ModesInv, ModesPayOnce, ModesTypeOK, modesVars
<1>2. CASE \E team \in SUBSET Fighters : solo_raid_battle_start(team)
  BY <1>2, RaidStarts
<1>3. CASE \E s \in Scores : special_battle_finish(s) BY <1>3, SpecialBattleWon
<1>4. CASE score_rank_first_reward_receive BY <1>4, RanksReceived
<1>5. CASE \E p \in Panels : reset_panel(p) BY <1>5, PanelReset
<1>6. CASE solo_raid_reset BY <1>6, RaidReset
<1>7. CASE ~(\/ UNCHANGED modesVars
             \/ \E team \in SUBSET Fighters : solo_raid_battle_start(team)
             \/ \E s \in Scores : special_battle_finish(s)
             \/ score_rank_first_reward_receive
             \/ \E p \in Panels : reset_panel(p)
             \/ solo_raid_reset)
  BY <1>7, ModesStay, Zenon DEF ModesNext
<1> QED BY <1>1, <1>2, <1>3, <1>4, <1>5, <1>6, <1>7, Zenon

\* Special battles pay and admit once: the rewards of lines for the best count
\* of lines ever held together, those of ranks up to the one last received,
\* and a character fights in a raid once until it is reset (finish_total,
\* apply_battle_score, score_rank_first_reward_receive, register_special_
\* battle_state and the resets).
THEOREM ModesPayAndAdmitOnce == ModesSpec => []ModesPayOnce
<1>1. ModesInv => ModesPayOnce BY DEF ModesInv
<1> QED BY <1>1, ModesStart, ModesStep, PTL DEF ModesSpec

-----------------------------------------------------------------------------
(* What a player owns and where it is in use, for any kinds, holders and   *)
(* bounds.                                                                 *)

BelongingsInv == BelongingsTypeOK /\ BelongingsKept

\* What has to look for references before it goes.
Assigned(id) ==
    IF things[id].kind = "memoria" THEN assigned_memoria(id) ELSE assigned_tool(id)

LEMMA ThingsAreThings ==
    ASSUME NEW t \in Thing
    PROVE  /\ t.kind \in {"equipment", "battle", "memoria"}
           /\ t.kind = "equipment" => t.type \in Slots
           /\ t.kind = "memoria" => t.breaks \in 0..MaxBreaks /\ t.exp \in 0..MaxExp
           /\ \A b \in BOOLEAN :
                /\ [t EXCEPT !.locked = b] \in Thing
                /\ [t EXCEPT !.locked = b].kind = t.kind
                /\ [t EXCEPT !.locked = b].type = t.type
                /\ t.kind = "memoria" => [t EXCEPT !.locked = b].breaks = t.breaks
           /\ t.kind = "memoria" =>
                /\ \A n \in 0..MaxBreaks : [t EXCEPT !.breaks = n] \in Thing
                /\ \A n \in 0..MaxExp : [t EXCEPT !.exp = n] \in Thing
<1>1. CASE t \in [kind: {"equipment"}, type: Slots, locked: BOOLEAN] BY <1>1 DEF Thing
<1>2. CASE t \in [kind: {"battle"}, type: {0}, locked: BOOLEAN] BY <1>2 DEF Thing
<1>3. CASE t \in [kind: {"memoria"}, type: MemoriaIds, locked: BOOLEAN,
                  breaks: 0..MaxBreaks, exp: 0..MaxExp]
  BY <1>3 DEF Thing
<1> QED BY <1>1, <1>2, <1>3 DEF Thing

\* No assigned thing goes, and none changes what it is.
LEMMA AssignedStay ==
    ASSUME BelongingsInv, UNCHANGED referring,
           \A id \in DOMAIN things :
               \/ /\ id \in DOMAIN things'
                  /\ things'[id].kind = things[id].kind
                  /\ things'[id].type = things[id].type
               \/ ~Assigned(id)
    PROVE  AssignedAreOwned'
<1> USE DEF BelongingsInv, BelongingsKept, AssignedAreOwned, referring
<1>1. ASSUME NEW id, owned_memoria(id), assigned_memoria(id) PROVE owned_memoria(id)'
  BY <1>1 DEF owned_memoria, owned, Assigned
<1>2. ASSUME NEW id, owned("battle", id), id \in tools PROVE owned("battle", id)'
  BY <1>2 DEF owned, Assigned, assigned_tool
<1>3. ASSUME NEW h \in Holders, NEW s \in Slots, valid_equipment(gear[h].slots[s], s)
      PROVE  valid_equipment(gear[h].slots[s], s)'
  <2> DEFINE id == gear[h].slots[s]
  <2>1. id \in DOMAIN things /\ things[id].kind = "equipment" /\ things[id].type = s
    BY <1>3 DEF valid_equipment, owned
  <2>2. Assigned(id) BY <2>1 DEF Assigned, assigned_tool
  <2>3. id' = id BY Zenon
  <2>4. id \in DOMAIN things' /\ things'[id].kind = "equipment" /\ things'[id].type = s
    <3> HIDE DEF id
    <3> QED BY <2>1, <2>2
  <2> QED BY <2>3, <2>4 DEF valid_equipment, owned
<1>4. ASSUME NEW h \in Holders PROVE ValidGear(gear[h])'
  <2>1. ValidGear(gear[h]) OBVIOUS
  <2>2. gear[h].memoria # None => owned_memoria(gear[h].memoria)'
    BY <1>1, <2>1 DEF ValidGear, assigned_memoria
  <2> QED BY <1>3, <2>1, <2>2 DEF ValidGear
<1>5. ValidTools(tools)' BY <1>2 DEF ValidTools
<1>6. \A id \in ship' : owned_memoria(id)' BY <1>1 DEF assigned_memoria
<1> QED BY <1>4, <1>5, <1>6

LEMMA MemoriasCount ==
    ASSUME BelongingsTypeOK
    PROVE  /\ IsFiniteSet(Memorias) /\ Cardinality(Memorias) \in Nat
           /\ \A id \in Memorias : things[id].breaks \in Nat
           /\ Memorias \subseteq DOMAIN things
<1>1. IsFiniteSet(Entities) BY BelongingsAssumption, FS_Interval DEF Entities
<1>2. Memorias \in SUBSET Entities /\ Memorias \subseteq DOMAIN things
  BY DEF BelongingsTypeOK, Memorias
<1>3. \A id \in Memorias : things[id] \in Thing /\ things[id].kind = "memoria"
  BY DEF BelongingsTypeOK, Memorias
<1>4. \A id \in Memorias : things[id].breaks \in Nat
  BY <1>3, ThingsAreThings, BelongingsAssumption
<1> QED BY <1>1, <1>2, <1>4, FS_Subset, FS_CardinalityType

BreaksOf == [i \in Memorias |-> things[i].breaks]

LEMMA BreaksAddUp ==
    /\ SumFunction(BreaksOf) = SumFunctionOnSet(BreaksOf, Memorias)
    /\ BelongingsTypeOK => SumFunction(BreaksOf) \in Nat
<1>1. SumFunction(BreaksOf) = SumFunctionOnSet(BreaksOf, Memorias)
  <2>1. DOMAIN BreaksOf = Memorias BY DEF BreaksOf
  <2> QED BY <2>1, Zenon DEF SumFunction
<1>2. ASSUME BelongingsTypeOK PROVE SumFunctionOnSet(BreaksOf, Memorias) \in Nat
  <2>1. IsFiniteSet(Memorias) /\ \A id \in Memorias : BreaksOf[id] \in Nat
    BY <1>2, MemoriasCount DEF BreaksOf
  <2> QED BY <2>1, SumNat
<1> QED BY <1>1, <1>2

\* Memorias that go take their breaks along.
LEMMA FewerMemorias ==
    ASSUME BelongingsInv, Memorias' \subseteq Memorias, copies' = copies,
           \A id \in Memorias' : things'[id].breaks = things[id].breaks
    PROVE  BreaksCostCopies'
<1> USE DEF BelongingsInv, BelongingsKept
<1> DEFINE M == Memorias
           N == Memorias'
           f == BreaksOf
           g == BreaksOf'
<1>1. IsFiniteSet(M) /\ Cardinality(M) \in Nat /\ \A id \in M : f[id] \in Nat
  BY MemoriasCount DEF BreaksOf
<1>2. N \in SUBSET M OBVIOUS
<1>3. \A id \in N : f[id] = g[id] /\ f[id] \in Int BY <1>1 DEF BreaksOf
<1>4. Cardinality(M) + SumFunctionOnSet(f, M) <= copies
  BY BreaksAddUp DEF BreaksCostCopies, BreaksOf
<1>5. g = [i \in N |-> things'[i].breaks] /\ DOMAIN g = N BY DEF BreaksOf
<1>6. copies \in Nat BY DEF BelongingsTypeOK
<1>7. \A id \in M : f[id] \in Int BY <1>1
<1> HIDE DEF M, N, f, g
<1>8. IsFiniteSet(N) /\ Cardinality(N) <= Cardinality(M) BY <1>1, <1>2, FS_Subset
<1>9. Cardinality(N) \in Nat BY <1>8, FS_CardinalityType
<1>10. SumFunctionOnSet(f, N) <= SumFunctionOnSet(f, M) BY <1>1, <1>2, SumOfPart
<1>11. SumFunctionOnSet(f, N) = SumFunctionOnSet(g, N) BY <1>3, <1>8, SumSame
<1>12. SumFunctionOnSet(f, M) \in Int /\ SumFunctionOnSet(f, N) \in Int
  BY <1>1, <1>3, <1>7, <1>8, SumRemove
<1>13. Cardinality(N) + SumFunctionOnSet(g, N) <= copies
  BY <1>1, <1>4, <1>6, <1>8, <1>9, <1>10, <1>11, <1>12
<1>14. SumFunction(g) = SumFunctionOnSet(g, N) BY <1>5, Zenon DEF SumFunction
<1>15. Cardinality(N) + SumFunction([i \in N |-> things'[i].breaks]) <= copies'
  BY <1>5, <1>13, <1>14
<1> QED BY <1>15 DEF BreaksCostCopies, N

\* A new memoria has no breaks.
LEMMA MemoriaComes ==
    ASSUME BelongingsInv, NEW new, new \notin Memorias, Memorias' = Memorias \union {new},
           \A id \in Memorias : things'[id].breaks = things[id].breaks,
           things'[new].breaks = 0, copies' = copies + 1
    PROVE  BreaksCostCopies'
<1> USE DEF BelongingsInv, BelongingsKept
<1> DEFINE M == Memorias
           N == Memorias'
           f == BreaksOf
           g == BreaksOf'
<1>1. IsFiniteSet(M) /\ Cardinality(M) \in Nat /\ \A id \in M : f[id] \in Nat /\ f[id] \in Int
  BY MemoriasCount DEF BreaksOf
<1>2. N = M \union {new} /\ new \notin M OBVIOUS
<1>3. (\A id \in M : f[id] = g[id]) /\ g[new] = 0 BY <1>1 DEF BreaksOf
<1>4. Cardinality(M) + SumFunctionOnSet(f, M) <= copies
  BY BreaksAddUp DEF BreaksCostCopies, BreaksOf
<1>5. g = [i \in N |-> things'[i].breaks] /\ DOMAIN g = N BY DEF BreaksOf
<1>6. copies \in Nat BY DEF BelongingsTypeOK
<1> HIDE DEF M, N, f, g
<1>7. Cardinality(N) = Cardinality(M) + 1 BY <1>1, <1>2, FS_AddElement
<1>8. SumFunctionOnSet(f, M) = SumFunctionOnSet(g, M) BY <1>1, <1>3, SumSame
<1>9. SumFunctionOnSet(g, N) = SumFunctionOnSet(g, M) + 0
  <2>1. g[new] \in Int /\ \A id \in M : g[id] \in Int BY <1>1, <1>3
  <2>2. SumFunctionOnSet(g, M \union {new}) = SumFunctionOnSet(g, M) + g[new]
    BY <1>1, <1>2, <2>1, SumAdd
  <2> QED BY <1>2, <1>3, <2>2
<1>10. SumFunctionOnSet(f, M) \in Int BY <1>1, SumRemove
<1>11. Cardinality(N) + SumFunctionOnSet(g, N) <= copies'
  BY <1>1, <1>4, <1>6, <1>7, <1>8, <1>9, <1>10
<1>12. SumFunction(g) = SumFunctionOnSet(g, N) BY <1>5, Zenon DEF SumFunction
<1>13. Cardinality(N) + SumFunction([i \in N |-> things'[i].breaks]) <= copies'
  BY <1>5, <1>11, <1>12
<1> QED BY <1>13 DEF BreaksCostCopies, N

\* Breaks that are gained are memorias that go, or items.
LEMMA MemoriaBroken ==
    ASSUME BelongingsInv, NEW target \in Memorias, NEW set, set \subseteq Memorias,
           target \notin set, NEW items \in Nat,
           Memorias' = Memorias \ set, copies' = copies + items,
           \A id \in Memorias' : things'[id].breaks =
               IF id = target THEN things[id].breaks + (items + Cardinality(set))
               ELSE things[id].breaks
    PROVE  BreaksCostCopies'
<1> USE DEF BelongingsInv, BelongingsKept
<1> DEFINE M == Memorias
           N == Memorias'
           f == BreaksOf
           g == BreaksOf'
           gained == items + Cardinality(set)
<1>1. IsFiniteSet(M) /\ Cardinality(M) \in Nat /\ \A id \in M : f[id] \in Nat /\ f[id] \in Int
  BY MemoriasCount DEF BreaksOf
<1>2. N = M \ set /\ N \in SUBSET M /\ set \in SUBSET M /\ target \in N OBVIOUS
<1>3. IsFiniteSet(set) /\ Cardinality(set) \in Nat
  <2> HIDE DEF M
  <2> QED BY <1>1, <1>2, FS_Subset, FS_CardinalityType
<1>4. \A id \in N : g[id] = IF id = target THEN f[id] + gained ELSE f[id]
  BY DEF BreaksOf
<1>5. Cardinality(M) + SumFunctionOnSet(f, M) <= copies
  BY BreaksAddUp DEF BreaksCostCopies, BreaksOf
<1>6. g = [i \in N |-> things'[i].breaks] /\ DOMAIN g = N BY DEF BreaksOf
<1>7. copies \in Nat BY DEF BelongingsTypeOK
<1>8. gained \in Nat /\ gained = items + Cardinality(set) BY <1>3
<1>9. copies' = copies + items OBVIOUS
<1> HIDE DEF M, N, f, g, gained
<1>10. IsFiniteSet(N) /\ Cardinality(N) = Cardinality(M) - Cardinality(set)
  <2>1. M \intersect set = set BY <1>2
  <2> QED BY <1>1, <1>2, <2>1, FS_Difference
<1>11. SumFunctionOnSet(f, N) <= SumFunctionOnSet(f, M) BY <1>1, <1>2, SumOfPart
<1>12. SumFunctionOnSet(g, N) = SumFunctionOnSet(f, N) - f[target] + g[target]
  <2>1. \A id \in N : f[id] \in Int /\ g[id] \in Int /\ (id # target => f[id] = g[id])
    BY <1>1, <1>2, <1>4, <1>8
  <2> QED BY <1>2, <1>10, <2>1, SumChanged
<1>13. g[target] = f[target] + gained /\ f[target] \in Int BY <1>1, <1>2, <1>4
<1>14. SumFunctionOnSet(f, M) \in Int /\ SumFunctionOnSet(f, N) \in Int
  <2>1. \A id \in N : f[id] \in Int BY <1>1, <1>2
  <2>2. \A id \in M : f[id] \in Int BY <1>1
  <2> QED BY <1>1, <1>10, <2>1, <2>2, SumRemove
<1>15. Cardinality(N) + SumFunctionOnSet(g, N) <= copies'
  BY <1>1, <1>3, <1>5, <1>7, <1>8, <1>9, <1>10, <1>11, <1>12, <1>13, <1>14
<1>16. SumFunction(g) = SumFunctionOnSet(g, N) BY <1>6, Zenon DEF SumFunction
<1>17. Cardinality(N) + SumFunction([i \in N |-> things'[i].breaks]) <= copies'
  BY <1>6, <1>15, <1>16
<1> QED BY <1>17 DEF BreaksCostCopies, N

\* The next id is nobody's.
LEMMA NextIdIsNew ==
    ASSUME BelongingsTypeOK
    PROVE  next_entity_id \notin DOMAIN things
<1> DEFINE S == DOMAIN things \union {0}
<1>1. S \in SUBSET (0..MaxThings) BY BelongingsAssumption DEF BelongingsTypeOK, Entities
<1>2. IsFiniteSet(0..MaxThings) BY BelongingsAssumption, FS_Interval
<1>3. IsFiniteSet(S)
  <2> HIDE DEF S
  <2> QED BY <1>1, <1>2, FS_Subset
<1>4. S \subseteq Nat /\ S # {} BY <1>1
<1>5. Max(S) \in S /\ \A y \in S : y <= Max(S)
  <2> HIDE DEF S
  <2> QED BY <1>3, <1>4, MaxIsGreatest
<1>6. next_entity_id = Max(S) + 1 BY DEF next_entity_id
<1>7. ASSUME Max(S) + 1 \in S PROVE FALSE
  <2> DEFINE m == Max(S)
  <2>1. m \in S /\ m + 1 \in S /\ \A y \in S : y <= m BY <1>5, <1>7
  <2> HIDE DEF m, S
  <2>2. m \in Nat /\ m + 1 <= m BY <1>4, <2>1
  <2> QED BY <2>2
<1> QED BY <1>6, <1>7

\* A thing that comes takes nobody's place.
LEMMA ThingComes ==
    ASSUME BelongingsInv, NEW t \in Thing, next_entity_id \in Entities,
           things' = [i \in DOMAIN things \union {next_entity_id} |->
                         IF i = next_entity_id THEN t ELSE things[i]],
           acquired' \in Nat, copies' \in Nat, UNCHANGED referring
    PROVE  /\ BelongingsTypeOK' /\ AssignedAreOwned'
           /\ next_entity_id \notin DOMAIN things
           /\ things'[next_entity_id] = t
           /\ \A i \in DOMAIN things : things'[i] = things[i]
           /\ DOMAIN things' = DOMAIN things \union {next_entity_id}
<1> DEFINE new == next_entity_id
<1>1. new \notin DOMAIN things BY NextIdIsNew DEF BelongingsInv
<1>2. new \in Entities /\ things' = [i \in DOMAIN things \union {new} |->
                                        IF i = new THEN t ELSE things[i]]
  OBVIOUS
<1> HIDE DEF new
<1>3. /\ things'[new] = t /\ \A i \in DOMAIN things : things'[i] = things[i]
      /\ DOMAIN things' = DOMAIN things \union {new}
  BY <1>1, <1>2
<1>4. things' \in [DOMAIN things' -> Thing] /\ DOMAIN things' \subseteq Entities
  BY <1>2, <1>3 DEF BelongingsInv, BelongingsTypeOK
<1>5. BelongingsTypeOK' BY <1>4, Zenon DEF BelongingsInv, BelongingsTypeOK, referring
<1>6. AssignedAreOwned' BY <1>3, AssignedStay
<1> QED BY <1>1, <1>3, <1>5, <1>6 DEF new

LEMMA ToolAdded ==
    ASSUME BelongingsInv, NEW kind, NEW type,
           [kind |-> kind, type |-> type, locked |-> FALSE] \in Thing, kind # "memoria",
           add_synthesis_output(kind, type)
    PROVE  BelongingsInv'
<1> DEFINE t == [kind |-> kind, type |-> type, locked |-> FALSE]
           new == next_entity_id
<1>1. /\ BelongingsTypeOK' /\ AssignedAreOwned' /\ new \notin DOMAIN things
      /\ things'[new] = t /\ \A i \in DOMAIN things : things'[i] = things[i]
      /\ DOMAIN things' = DOMAIN things \union {new}
  <2>1. acquired' \in Nat /\ copies' \in Nat
    BY DEF add_synthesis_output, BelongingsInv, BelongingsTypeOK
  <2> QED BY <2>1, ThingComes DEF add_synthesis_output
<1>2. t.kind # "memoria" OBVIOUS
<1> HIDE DEF t, new
<1>3. Memorias' \subseteq Memorias BY <1>1, <1>2 DEF Memorias
<1>4. \A id \in Memorias' : things'[id].breaks = things[id].breaks
  BY <1>1, <1>3 DEF Memorias
<1>5. copies' = copies BY DEF add_synthesis_output
<1>6. BreaksCostCopies' BY <1>3, <1>4, <1>5, FewerMemorias
<1> QED BY <1>1, <1>6 DEF BelongingsInv, BelongingsKept

LEMMA MemoriaAdded ==
    ASSUME BelongingsInv, NEW id \in MemoriaIds, add_memoria(id)
    PROVE  BelongingsInv'
<1> DEFINE t == [kind |-> "memoria", type |-> id, locked |-> FALSE, breaks |-> 0, exp |-> 0]
           new == next_entity_id
<1>1. t \in Thing /\ t.kind = "memoria" /\ t.breaks = 0 BY BelongingsAssumption DEF Thing
<1>2. /\ BelongingsTypeOK' /\ AssignedAreOwned' /\ new \notin DOMAIN things
      /\ things'[new] = t /\ \A i \in DOMAIN things : things'[i] = things[i]
      /\ DOMAIN things' = DOMAIN things \union {new}
  <2>1. acquired' \in Nat /\ copies' \in Nat
    BY DEF add_memoria, BelongingsInv, BelongingsTypeOK
  <2>2. /\ next_entity_id \in Entities /\ UNCHANGED referring
        /\ things' = [i \in DOMAIN things \union {next_entity_id} |->
                         IF i = next_entity_id THEN t ELSE things[i]]
    BY DEF add_memoria
  <2> HIDE DEF t
  <2> QED BY <1>1, <2>1, <2>2, ThingComes
<1> HIDE DEF t, new
<1>3. new \notin Memorias /\ Memorias' = Memorias \union {new} BY <1>1, <1>2 DEF Memorias
<1>4. \A i \in Memorias : things'[i].breaks = things[i].breaks BY <1>2 DEF Memorias
<1>5. things'[new].breaks = 0 BY <1>1, <1>2
<1>6. copies' = copies + 1 BY DEF add_memoria
<1>7. BreaksCostCopies' BY <1>3, <1>4, <1>5, <1>6, MemoriaComes
<1> QED BY <1>2, <1>7 DEF BelongingsInv, BelongingsKept

-----------------------------------------------------------------------------
\* Referring.  A step that only refers keeps all things.
LEMMA BreaksStay ==
    ASSUME BelongingsInv, UNCHANGED <<things, copies>>
    PROVE  BreaksCostCopies'
BY Zenon DEF BelongingsInv, BelongingsKept, BreaksCostCopies, Memorias

LEMMA ReferredOwned ==
    ASSUME BelongingsInv, UNCHANGED <<things, copies>>, BelongingsTypeOK',
           \A h \in Holders : ValidGear(gear'[h]), ValidTools(tools'),
           \A id \in ship' : owned_memoria(id)
    PROVE  BelongingsInv'
<1>1. ASSUME NEW h \in Holders PROVE ValidGear(gear[h])'
  BY <1>1 DEF ValidGear, valid_equipment, owned_memoria, owned
<1>2. ValidTools(tools)' BY DEF ValidTools, owned
<1>3. \A id \in ship' : owned_memoria(id)' BY DEF owned_memoria, owned
<1>4. BreaksCostCopies' BY BreaksStay
<1> QED BY <1>1, <1>2, <1>3, <1>4 DEF BelongingsInv, BelongingsKept, AssignedAreOwned

LEMMA GearSet ==
    ASSUME BelongingsInv, NEW h \in Holders, NEW g \in Gear,
           bulk_set(h, g)
    PROVE  BelongingsInv'
<1> USE DEF BelongingsInv, BelongingsKept, AssignedAreOwned
<1>1. BelongingsTypeOK' BY DEF BelongingsTypeOK, bulk_set
<1>2. \A x \in Holders : ValidGear(gear'[x]) BY DEF BelongingsTypeOK, bulk_set
<1>3. UNCHANGED <<things, copies, tools, ship>> BY DEF bulk_set
<1>4. ValidTools(tools') BY <1>3
<1>5. \A id \in ship' : owned_memoria(id) BY <1>3
<1> QED BY <1>1, <1>2, <1>3, <1>4, <1>5, ReferredOwned

LEMMA OneEquipped ==
    ASSUME BelongingsInv, NEW h \in Holders, NEW slot \in Slots,
           NEW id \in Entities \union {None}, equip(h, slot, id)
    PROVE  BelongingsInv'
<1> USE DEF BelongingsInv, BelongingsKept, AssignedAreOwned
<1> DEFINE g == [gear[h] EXCEPT !.slots[slot] = id]
<1>1. gear[h] \in Gear BY DEF BelongingsTypeOK
<1>2. /\ g \in Gear /\ g.memoria = gear[h].memoria
      /\ \A s \in Slots : g.slots[s] = IF s = slot THEN id ELSE gear[h].slots[s]
  BY <1>1 DEF Gear
<1>3. (id # None => valid_equipment(id, slot)) /\ gear' = [gear EXCEPT ![h] = g]
  BY DEF equip
<1>4. ValidGear(gear[h]) OBVIOUS
<1> HIDE DEF g
<1>5. ValidGear(g) BY <1>2, <1>3, <1>4 DEF ValidGear
<1>6. UNCHANGED <<things, copies, tools, ship, rental, favorites, acquired>> BY DEF equip
<1>7. BelongingsTypeOK' BY <1>2, <1>3, <1>6 DEF BelongingsTypeOK
<1>8. \A x \in Holders : ValidGear(gear'[x]) BY <1>3, <1>5 DEF BelongingsTypeOK
<1>9. ValidTools(tools') BY <1>6
<1>10. \A i \in ship' : owned_memoria(i) BY <1>6
<1> QED BY <1>6, <1>7, <1>8, <1>9, <1>10, ReferredOwned

LEMMA PartyUpdated ==
    ASSUME BelongingsInv, NEW g \in Gear, NEW set \in SUBSET Entities, NEW only \in BOOLEAN,
           party_update(g, set, only)
    PROVE  BelongingsInv'
<1> USE DEF BelongingsInv, BelongingsKept, AssignedAreOwned
<1>1. UNCHANGED <<things, copies, ship, rental, favorites, acquired>> /\ tools' = set
  BY DEF party_update
<1>2. gear' = IF only THEN gear ELSE [gear EXCEPT !["member"] = g] BY DEF party_update
<1>3. BelongingsTypeOK' BY <1>1, <1>2 DEF BelongingsTypeOK
<1>4. \A x \in Holders : ValidGear(gear'[x]) BY <1>2 DEF BelongingsTypeOK, party_update
<1>5. ValidTools(tools') BY DEF party_update
<1>6. \A i \in ship' : owned_memoria(i) BY <1>1
<1> QED BY <1>1, <1>3, <1>4, <1>5, <1>6, ReferredOwned

LEMMA OthersReferred ==
    ASSUME BelongingsInv,
           \/ \E set \in SUBSET Entities : ship_party(set)
           \/ \E slots \in [Slots -> Entities \union {None}], set \in SUBSET Entities :
                rental_party_update(slots, set)
           \/ \E s \in Slots, id \in Entities \union {None} : rental_character_equip(s, id)
           \/ \E set \in SUBSET Entities : update_favorite_battle_tools(set)
    PROVE  BelongingsInv'
<1> USE DEF BelongingsInv, BelongingsKept, AssignedAreOwned
<1>1. UNCHANGED <<things, copies, gear, tools, acquired>>
  BY DEF ship_party, rental_party_update, rental_character_equip, update_favorite_battle_tools
<1>2. \A i \in ship' : owned_memoria(i)
  BY DEF ship_party, rental_party_update, rental_character_equip, update_favorite_battle_tools
<1>3. BelongingsTypeOK'
  <2>1. ASSUME NEW set \in SUBSET Entities, ship_party(set) PROVE BelongingsTypeOK'
    BY <2>1 DEF BelongingsTypeOK, ship_party
  <2>2. ASSUME NEW slots \in [Slots -> Entities \union {None}], NEW set \in SUBSET Entities,
               rental_party_update(slots, set)
        PROVE  BelongingsTypeOK'
    BY <2>2 DEF BelongingsTypeOK, rental_party_update
  <2>3. ASSUME NEW s \in Slots, NEW id \in Entities \union {None},
               rental_character_equip(s, id)
        PROVE  BelongingsTypeOK'
    BY <2>3 DEF BelongingsTypeOK, rental_character_equip
  <2>4. ASSUME NEW set \in SUBSET Entities, update_favorite_battle_tools(set)
        PROVE  BelongingsTypeOK'
    BY <2>4 DEF BelongingsTypeOK, update_favorite_battle_tools
  <2> QED BY <2>1, <2>2, <2>3, <2>4
<1>4. ValidTools(tools') /\ \A x \in Holders : ValidGear(gear'[x]) BY <1>1
<1> QED BY <1>1, <1>2, <1>3, <1>4, ReferredOwned

-----------------------------------------------------------------------------
\* Consuming.

LEMMA Locked ==
    ASSUME BelongingsInv, NEW id, NEW b \in BOOLEAN, lock(id, b)
    PROVE  BelongingsInv'
<1>1. /\ id \in DOMAIN things /\ things' = [things EXCEPT ![id].locked = b]
      /\ UNCHANGED <<referring, acquired, copies>>
  BY DEF lock
<1>2. things \in [DOMAIN things -> Thing] /\ DOMAIN things \subseteq Entities
  BY DEF BelongingsInv, BelongingsTypeOK
<1> DEFINE t == [things[id] EXCEPT !.locked = b]
<1>3. /\ t \in Thing /\ t.kind = things[id].kind /\ t.type = things[id].type
      /\ t.kind = "memoria" => t.breaks = things[id].breaks
  <2>1. things[id] \in Thing BY <1>1, <1>2
  <2> QED BY <2>1, ThingsAreThings
<1>4. things' = [things EXCEPT ![id] = t] BY <1>1
<1> HIDE DEF t
<1>5. /\ DOMAIN things' = DOMAIN things
      /\ \A i \in DOMAIN things : /\ things'[i] \in Thing
                                  /\ things'[i].kind = things[i].kind
                                  /\ things'[i].type = things[i].type
                                  /\ things[i].kind = "memoria"
                                       => things'[i].breaks = things[i].breaks
  BY <1>1, <1>2, <1>3, <1>4
<1>6. things' \in [DOMAIN things' -> Thing] BY <1>2, <1>4, <1>5
<1>7. BelongingsTypeOK'
  BY <1>1, <1>2, <1>5, <1>6, Zenon DEF BelongingsInv, BelongingsTypeOK, referring
<1>8. AssignedAreOwned' BY <1>1, <1>5, AssignedStay
<1>9. Memorias' = Memorias BY <1>5 DEF Memorias
<1>10. \A i \in Memorias' : things'[i].breaks = things[i].breaks
  BY <1>5, <1>9 DEF Memorias
<1>11. BreaksCostCopies' BY <1>1, <1>9, <1>10, FewerMemorias
<1> QED BY <1>7, <1>8, <1>11 DEF BelongingsInv, BelongingsKept

\* Things that nothing refers to go.
LEMMA ThingsGo ==
    ASSUME BelongingsInv, NEW set, things' = Removed(set),
           UNCHANGED <<referring, acquired, copies>>,
           \A id \in set : id \in DOMAIN things => ~Assigned(id)
    PROVE  BelongingsInv'
<1>1. /\ DOMAIN things' = DOMAIN things \ set
      /\ \A i \in DOMAIN things \ set : things'[i] = things[i]
  BY DEF Removed
<1>2. things' \in [DOMAIN things' -> Thing] /\ DOMAIN things' \subseteq Entities
  BY <1>1 DEF Removed, BelongingsInv, BelongingsTypeOK
<1>3. BelongingsTypeOK' BY <1>2, Zenon DEF BelongingsInv, BelongingsTypeOK, referring
<1>4. AssignedAreOwned' BY <1>1, AssignedStay
<1>5. Memorias' \subseteq Memorias BY <1>1 DEF Memorias
<1>6. \A i \in Memorias' : things'[i].breaks = things[i].breaks BY <1>1 DEF Memorias
<1>7. BreaksCostCopies' BY <1>5, <1>6, FewerMemorias
<1> QED BY <1>3, <1>4, <1>7 DEF BelongingsInv, BelongingsKept

LEMMA ToolsConverted ==
    ASSUME BelongingsInv, NEW set, tool_convert(set)
    PROVE  BelongingsInv'
<1>1. \A id \in set : id \in DOMAIN things => ~Assigned(id)
  BY DEF tool_convert, owned, Assigned
<1> QED BY <1>1, ThingsGo DEF tool_convert

LEMMA MemoriasSold ==
    ASSUME BelongingsInv, NEW set, memoria_sell(set)
    PROVE  BelongingsInv'
<1>1. \A id \in set : id \in DOMAIN things => ~Assigned(id)
  BY DEF memoria_sell, Consumable, owned_memoria, owned, Assigned
<1> QED BY <1>1, ThingsGo DEF memoria_sell

\* A memoria that others are fed to stays what and where it is.
LEMMA MemoriaFed ==
    ASSUME BelongingsInv, NEW target, NEW set, NEW m \in Thing,
           owned_memoria(target), Consumable(target, set),
           m.kind = "memoria", m.type = things[target].type,
           things' = Fed(target, set, m), UNCHANGED <<referring, acquired>>,
           copies' \in Nat
    PROVE  /\ BelongingsTypeOK' /\ AssignedAreOwned'
           /\ target \in Memorias /\ set \subseteq Memorias /\ target \notin set
           /\ Memorias' = Memorias \ set
           /\ things'[target] = m
           /\ \A i \in Memorias' : i # target => things'[i] = things[i]
<1>1. /\ target \in DOMAIN things /\ things[target].kind = "memoria" /\ target \notin set
      /\ \A id \in set : id \in DOMAIN things /\ things[id].kind = "memoria" /\ ~Assigned(id)
  BY DEF owned_memoria, owned, Consumable, Assigned
<1>2. /\ DOMAIN things' = DOMAIN things \ set
      /\ things'[target] = m
      /\ \A i \in DOMAIN things' : i # target => things'[i] = things[i]
  BY <1>1 DEF Fed
<1>3. things' \in [DOMAIN things' -> Thing] /\ DOMAIN things' \subseteq Entities
  BY <1>1, <1>2 DEF Fed, BelongingsInv, BelongingsTypeOK
<1>4. BelongingsTypeOK' BY <1>3, Zenon DEF BelongingsInv, BelongingsTypeOK, referring
<1>5. AssignedAreOwned' BY <1>1, <1>2, AssignedStay
<1>6. target \in Memorias /\ set \subseteq Memorias BY <1>1 DEF Memorias
<1>7. Memorias' = Memorias \ set BY <1>1, <1>2 DEF Memorias
<1>8. \A i \in Memorias' : i # target => things'[i] = things[i] BY <1>2, <1>7 DEF Memorias
<1> QED BY <1>1, <1>2, <1>4, <1>5, <1>6, <1>7, <1>8

LEMMA MemoriaEnhanced ==
    ASSUME BelongingsInv, NEW target, NEW set \in SUBSET Entities, NEW items \in 0..1,
           memoria_enhance(target, set, items)
    PROVE  BelongingsInv'
<1> DEFINE f == [id \in set |-> 1 + things[id].exp]
           gained == items + SumFunction(f)
           n == Min({things[target].exp + gained, MaxExp})
           m == [things[target] EXCEPT !.exp = n]
<1>1. /\ owned_memoria(target) /\ Consumable(target, set)
      /\ things' = Fed(target, set, m)
      /\ UNCHANGED <<referring, acquired, copies>>
  BY DEF memoria_enhance
<1>2. \A id \in set \union {target} : things[id] \in Thing /\ things[id].kind = "memoria"
  BY <1>1 DEF Consumable, owned_memoria, owned, BelongingsInv, BelongingsTypeOK
<1>3. \A id \in set \union {target} : things[id].exp \in 0..MaxExp BY <1>2, ThingsAreThings
<1>4. SumFunction(f) \in Nat
  <2>1. DOMAIN f = set /\ \A id \in set : f[id] \in Nat BY <1>3, BelongingsAssumption
  <2>2. IsFiniteSet(set)
    <3>1. IsFiniteSet(Entities) BY BelongingsAssumption, FS_Interval DEF Entities
    <3> QED BY <3>1, FS_Subset
  <2>3. SumFunction(f) = SumFunctionOnSet(f, set) BY <2>1, Zenon DEF SumFunction
  <2> HIDE DEF f
  <2> QED BY <2>1, <2>2, <2>3, SumNat
<1>5. n \in 0..MaxExp
  <2> DEFINE e == things[target].exp + gained
  <2>1. e \in Nat BY <1>3, <1>4, BelongingsAssumption
  <2> HIDE DEF e
  <2>2. Min({e, MaxExp}) \in {e, MaxExp} /\ \A y \in {e, MaxExp} : Min({e, MaxExp}) <= y
    <3> DEFINE S == {e, MaxExp}
    <3>1. S \subseteq Nat /\ S # {} BY <2>1, BelongingsAssumption
    <3> HIDE DEF S
    <3>2. Min(S) \in S /\ \A y \in S : Min(S) <= y BY <3>1, MinIsLeast
    <3> QED BY <3>2 DEF S
  <2>3. n = Min({e, MaxExp}) BY DEF e
  <2> HIDE DEF n
  <2> QED BY <2>1, <2>2, <2>3, BelongingsAssumption
<1> HIDE DEF n
<1>6. /\ m \in Thing /\ m.kind = "memoria" /\ m.type = things[target].type
      /\ m.breaks = things[target].breaks
  <2>1. m \in Thing BY <1>2, <1>5, ThingsAreThings
  <2>2. things[target] \in [kind: {"memoria"}, type: MemoriaIds, locked: BOOLEAN,
                            breaks: 0..MaxBreaks, exp: 0..MaxExp]
    BY <1>2 DEF Thing
  <2>3. m.kind = "memoria" /\ m.type = things[target].type /\ m.breaks = things[target].breaks
    BY <2>2
  <2> QED BY <2>1, <2>3
<1> HIDE DEF m
<1>7. copies' \in Nat BY <1>1 DEF BelongingsInv, BelongingsTypeOK
<1>8. /\ BelongingsTypeOK' /\ AssignedAreOwned' /\ Memorias' = Memorias \ set
      /\ things'[target] = m /\ \A i \in Memorias' : i # target => things'[i] = things[i]
  BY <1>1, <1>6, <1>7, MemoriaFed
<1>9. \A i \in Memorias' : things'[i].breaks = things[i].breaks BY <1>6, <1>8
<1>10. BreaksCostCopies' BY <1>1, <1>8, <1>9, FewerMemorias
<1> QED BY <1>8, <1>10 DEF BelongingsInv, BelongingsKept

LEMMA LimitBroken ==
    ASSUME BelongingsInv, NEW target, NEW set \in SUBSET Entities, NEW items \in 0..1,
           memoria_limit_break(target, set, items)
    PROVE  BelongingsInv'
<1> DEFINE gained == items + Cardinality(set)
           n == things[target].breaks + gained
           m == [things[target] EXCEPT !.breaks = n]
<1>1. /\ owned_memoria(target) /\ Consumable(target, set)
      /\ things' = Fed(target, set, m)
      /\ UNCHANGED <<referring, acquired>> /\ copies' = copies + items
      /\ BreaksWithin(things[target].breaks, gained)
  BY DEF memoria_limit_break
<1>2. things[target] \in Thing /\ things[target].kind = "memoria"
  BY <1>1 DEF owned_memoria, owned, BelongingsInv, BelongingsTypeOK
<1>3. Cardinality(set) \in Nat
  <2>1. IsFiniteSet(Entities) BY BelongingsAssumption, FS_Interval DEF Entities
  <2> QED BY <2>1, FS_Subset, FS_CardinalityType
<1>4. n \in 0..MaxBreaks
  BY <1>1, <1>2, <1>3, ThingsAreThings, BelongingsAssumption DEF BreaksWithin
<1>5. m \in Thing /\ m.kind = "memoria" /\ m.type = things[target].type /\ m.breaks = n
  <2> HIDE DEF n
  <2>1. m \in Thing BY <1>2, <1>4, ThingsAreThings
  <2>2. things[target] \in [kind: {"memoria"}, type: MemoriaIds, locked: BOOLEAN,
                            breaks: 0..MaxBreaks, exp: 0..MaxExp]
    BY <1>2 DEF Thing
  <2>3. m.kind = "memoria" /\ m.type = things[target].type /\ m.breaks = n BY <2>2
  <2> QED BY <2>1, <2>3
<1> HIDE DEF m
<1>6. copies' \in Nat BY <1>1 DEF BelongingsInv, BelongingsTypeOK
<1>7. /\ BelongingsTypeOK' /\ AssignedAreOwned' /\ Memorias' = Memorias \ set
      /\ target \in Memorias /\ set \subseteq Memorias /\ target \notin set
      /\ things'[target] = m /\ \A i \in Memorias' : i # target => things'[i] = things[i]
  BY <1>1, <1>2, <1>5, <1>6, MemoriaFed
<1>8. \A i \in Memorias' : things'[i].breaks =
          IF i = target THEN things[i].breaks + (items + Cardinality(set))
          ELSE things[i].breaks
  BY <1>5, <1>7
<1>9. items \in Nat OBVIOUS
<1>10. BreaksCostCopies' BY <1>1, <1>7, <1>8, <1>9, MemoriaBroken
<1> QED BY <1>7, <1>10 DEF BelongingsInv, BelongingsKept

-----------------------------------------------------------------------------
LEMMA BelongingsStart == BelongingsInit => BelongingsInv
<1> SUFFICES ASSUME BelongingsInit PROVE BelongingsInv OBVIOUS
<1>1. NoGear \in Gear BY DEF NoGear, Gear
<1>2. BelongingsTypeOK
  <2>1. things = [i \in {} |-> {}] BY DEF BelongingsInit
  <2>2. DOMAIN things = {} /\ things \in [DOMAIN things -> Thing] BY <2>1
  <2> QED BY <1>1, <2>2 DEF BelongingsInit, BelongingsTypeOK, NoGear, Gear
<1>3. AssignedAreOwned
  <2>1. ValidGear(NoGear) BY DEF ValidGear, NoGear
  <2>2. ValidTools({}) BY FS_EmptySet, BelongingsAssumption DEF ValidTools
  <2> QED BY <2>1, <2>2 DEF BelongingsInit, AssignedAreOwned
<1>4. BreaksCostCopies
  <2>1. Memorias = {} BY DEF BelongingsInit, Memorias
  <2>2. SumFunction(BreaksOf) = SumFunctionOnSet(BreaksOf, {}) BY <2>1, BreaksAddUp
  <2>3. SumFunction(BreaksOf) = 0 BY <2>2, SumEmpty
  <2>4. Cardinality(Memorias) = 0 BY <2>1, FS_EmptySet
  <2>5. copies = 0 BY DEF BelongingsInit
  <2>6. Cardinality(Memorias) + SumFunction(BreaksOf) <= copies BY <2>3, <2>4, <2>5
  <2> QED BY <2>6 DEF BreaksCostCopies, BreaksOf
<1> QED BY <1>2, <1>3, <1>4 DEF BelongingsInv, BelongingsKept

LEMMA BelongingsStep == BelongingsInv /\ [BelongingsNext]_belongingsVars => BelongingsInv'
<1> SUFFICES ASSUME BelongingsInv, [BelongingsNext]_belongingsVars PROVE BelongingsInv'
  OBVIOUS
<1>1. CASE UNCHANGED belongingsVars
  <2>1. UNCHANGED <<things, gear, tools, ship, rental, favorites, acquired, copies>>
    BY <1>1 DEF belongingsVars
  <2>2. BelongingsTypeOK' BY <2>1, Zenon DEF BelongingsInv, BelongingsTypeOK
  <2>3. /\ \A h \in Holders : ValidGear(gear'[h])
        /\ ValidTools(tools') /\ \A id \in ship' : owned_memoria(id)
    BY <2>1 DEF BelongingsInv, BelongingsKept, AssignedAreOwned
  <2> QED BY <2>1, <2>2, <2>3, ReferredOwned
<1>2. ASSUME NEW s \in Slots, add_synthesis_output("equipment", s) PROVE BelongingsInv'
  <2>1. [kind |-> "equipment", type |-> s, locked |-> FALSE] \in Thing BY DEF Thing
  <2> QED BY <1>2, <2>1, ToolAdded
<1>3. CASE add_synthesis_output("battle", 0)
  <2>1. [kind |-> "battle", type |-> 0, locked |-> FALSE] \in Thing BY DEF Thing
  <2> QED BY <1>3, <2>1, ToolAdded
<1>4. CASE \E id \in MemoriaIds : add_memoria(id) BY <1>4, MemoriaAdded
<1>5. CASE \E h \in Holders, g \in Gear : bulk_set(h, g) BY <1>5, GearSet
<1>6. CASE \E h \in Holders, s \in Slots, id \in Entities \union {None} : equip(h, s, id)
  BY <1>6, OneEquipped
<1>7. CASE \E g \in Gear, set \in SUBSET Entities : party_update(g, set, FALSE)
  BY <1>7, PartyUpdated
<1>8. CASE \E set \in SUBSET Entities : party_update(NoGear, set, TRUE)
  <2>1. NoGear \in Gear BY DEF NoGear, Gear
  <2> QED BY <1>8, <2>1, PartyUpdated
<1>9. CASE \/ \E set \in SUBSET Entities : ship_party(set)
           \/ \E slots \in [Slots -> Entities \union {None}], set \in SUBSET Entities :
                rental_party_update(slots, set)
           \/ \E s \in Slots, id \in Entities \union {None} : rental_character_equip(s, id)
           \/ \E set \in SUBSET Entities : update_favorite_battle_tools(set)
  BY <1>9, OthersReferred
<1>10. CASE \E id \in Entities, b \in BOOLEAN : lock(id, b) BY <1>10, Locked
<1>11. CASE \E set \in SUBSET Entities : tool_convert(set) BY <1>11, ToolsConverted
<1>12. CASE \E id \in Entities, set \in SUBSET Entities, items \in 0..1 :
              memoria_enhance(id, set, items)
  BY <1>12, MemoriaEnhanced
<1>13. CASE \E id \in Entities, set \in SUBSET Entities, items \in 0..1 :
              memoria_limit_break(id, set, items)
  BY <1>13, LimitBroken
<1>14. CASE \E set \in SUBSET Entities : memoria_sell(set) BY <1>14, MemoriasSold
<1> QED
  BY <1>1, <1>2, <1>3, <1>4, <1>5, <1>6, <1>7, <1>8, <1>9, <1>10, <1>11, <1>12, <1>13, <1>14,
     Zenon DEF BelongingsNext

\* What is equipped, set in a party or put on a ship is owned and fits, although
\* ids are given out again, and limit breaks are paid in memorias or items: no
\* memoria is both there and used up (next_entity_id, assigned_tool,
\* assigned_memoria, memoria_limit_break).
THEOREM BelongingsAreKept == BelongingsSpec => []BelongingsKept
<1>1. BelongingsInv => BelongingsKept BY DEF BelongingsInv
<1> QED BY <1>1, BelongingsStart, BelongingsStep, PTL DEF BelongingsSpec

-----------------------------------------------------------------------------
(* The shop, for any products, prices, boxes, passes and limits.           *)

LEMMA ShopConstants ==
    /\ LineupSlots \in Nat \ {0} /\ PassDays \in Nat \ {0} /\ WheelLimit \in Nat \ {0}
    /\ DaySeconds \in Nat \ {0} /\ LineupInterval \in Nat /\ BoxPrice \in Nat
    /\ GrowthPrice \in Nat /\ LotPoints \in Nat /\ LotPrice \in Nat /\ OfferPrice \in Nat
    /\ OfferDays \in Nat /\ InitialGems \in Nat /\ InitialTokens \in Nat
    /\ InitialBundles \in Nat /\ MaxSessions \in Nat /\ MaxRequests \in Nat
    /\ MaxShopTime \in Nat
BY Zenon, ShopAssumption

\* Every number of a unit has its step.
LEMMA StepAtIsStep ==
    ASSUME NEW p \in Products, NEW count \in Nat
    PROVE  StepAt(p, count) \in PurchaseStep
<1> DEFINE steps == purchase_steps(p)
           n == Min({count + 1, Len(steps)})
<1>1. steps \in Seq(PurchaseStep) /\ steps # <<>> BY ShopAssumption, Zenon DEF purchase_steps
<1> HIDE DEF steps
<1>2. Len(steps) \in Nat /\ Len(steps) # 0 BY <1>1, LenProperties, EmptySeq
<1>3. n \in {count + 1, Len(steps)} /\ \A y \in {count + 1, Len(steps)} : n <= y
  <2> DEFINE S == {count + 1, Len(steps)}
  <2>1. S \subseteq Nat /\ S # {} BY <1>2
  <2> HIDE DEF S
  <2>2. Min(S) \in S /\ \A y \in S : Min(S) <= y BY <2>1, MinIsLeast
  <2> QED BY <2>2 DEF S
<1> HIDE DEF n
<1>4. n \in 1..Len(steps) BY <1>2, <1>3
<1>5. steps[n] \in PurchaseStep BY <1>1, <1>4, ElementOfSeq
<1> QED BY <1>5 DEF StepAt, n, steps

LEMMA PricesGrow ==
    ASSUME NEW p \in Products, NEW n \in Nat
    PROVE  /\ PricesUpTo(p, n) \in Int
           /\ PricesUpTo(p, n + 1) = PricesUpTo(p, n) + StepAt(p, n).price
<1> DEFINE f == [i \in 1..(n + 1) |-> StepAt(p, i - 1).price]
<1>1. \A i \in 1..(n + 1) : f[i] \in Int
  <2> SUFFICES ASSUME NEW i \in 1..(n + 1) PROVE StepAt(p, i - 1).price \in Int OBVIOUS
  <2>1. StepAt(p, i - 1) \in PurchaseStep BY StepAtIsStep
  <2> QED BY <2>1 DEF PurchaseStep
<1>2. [i \in 1..n |-> f[i]] = [i \in 1..n |-> StepAt(p, i - 1).price]
  <2>1. \A i \in 1..n : i \in 1..(n + 1) OBVIOUS
  <2> QED BY <2>1, Zenon
<1>3. [i \in 1..(n + 1) |-> f[i]] = f BY Zenon
<1>4. f[n + 1] = StepAt(p, n).price
  <2>1. n + 1 \in 1..(n + 1) /\ (n + 1) - 1 = n OBVIOUS
  <2> QED BY <2>1
<1> HIDE DEF f
<1>5. /\ SumFunction([i \in 1..n |-> f[i]]) \in Int
      /\ SumFunction([i \in 1..(n + 1) |-> f[i]]) = SumFunction([i \in 1..n |-> f[i]]) + f[n + 1]
  BY <1>1, SumOfFirst
<1>6. PricesUpTo(p, n) = SumFunction([i \in 1..n |-> f[i]]) BY <1>2, Zenon DEF PricesUpTo
<1>7. PricesUpTo(p, n + 1) = SumFunction([i \in 1..(n + 1) |-> f[i]])
  BY <1>3, Zenon DEF PricesUpTo, f
<1> QED BY <1>4, <1>5, <1>6, <1>7

LEMMA PricesAreNumbers ==
    ASSUME NEW p \in Products, NEW n \in Nat PROVE PricesUpTo(p, n) \in Nat
<1> DEFINE f == [i \in 1..n |-> StepAt(p, i - 1).price]
           S == 1..n
<1>1. \A i \in S : f[i] \in Nat
  <2> SUFFICES ASSUME NEW i \in 1..n PROVE StepAt(p, i - 1).price \in Nat OBVIOUS
  <2>1. StepAt(p, i - 1) \in PurchaseStep BY StepAtIsStep
  <2> QED BY <2>1 DEF PurchaseStep
<1>2. DOMAIN f = S OBVIOUS
<1>3. IsFiniteSet(S)
  <2>1. 1 \in Int /\ n \in Int OBVIOUS
  <2> QED BY <2>1, FS_Interval, Zenon
<1>4. PricesUpTo(p, n) = SumFunction(f) BY Zenon DEF PricesUpTo
<1> HIDE DEF f, S
<1>5. SumFunction(f) = SumFunctionOnSet(f, S) BY <1>2, Zenon DEF SumFunction
<1>6. SumFunctionOnSet(f, S) \in Nat BY <1>1, <1>3, SumNat
<1> QED BY <1>4, <1>5, <1>6

-----------------------------------------------------------------------------
\* Units are paid one after the other.

UnitState == [ok: BOOLEAN, gems: Int, tokens: Nat]

NextUnit(before, step) ==
    [ok |-> before.ok /\ before.gems >= step.price,
     gems |-> before.gems - step.price,
     tokens |-> before.tokens + step.tokens]

UnitTable(u, a, p, quantity) ==
    u = [i \in 0..quantity |->
            IF i = 0 THEN [ok |-> TRUE, gems |-> a.gems, tokens |-> a.tokens]
            ELSE NextUnit(u[i - 1], StepAt(p, a.counts[p] + i - 1))]

LEMMA NextUnitIsState ==
    ASSUME NEW x \in UnitState, NEW step \in PurchaseStep
    PROVE  /\ NextUnit(x, step) \in UnitState
           /\ NextUnit(x, step).gems = x.gems - step.price
           /\ NextUnit(x, step).ok => NextUnit(x, step).gems >= 0
<1> DEFINE ok == x.ok /\ x.gems >= step.price
           gems == x.gems - step.price
           tokens == x.tokens + step.tokens
<1>1. NextUnit(x, step) = [ok |-> ok, gems |-> gems, tokens |-> tokens] BY Zenon DEF NextUnit
<1>2. x.gems \in Int /\ x.tokens \in Nat /\ step.price \in Nat /\ step.tokens \in Nat
  BY DEF UnitState, PurchaseStep
<1>3. ok \in BOOLEAN BY Zenon DEF ok
<1>4. gems \in Int /\ tokens \in Nat /\ (ok => gems >= 0) BY <1>2
<1> HIDE DEF ok, gems, tokens
<1>5. [ok |-> ok, gems |-> gems, tokens |-> tokens] \in UnitState
  BY <1>3, <1>4 DEF UnitState
<1>6. NextUnit(x, step).gems = gems /\ NextUnit(x, step).ok = ok BY <1>1
<1>7. NextUnit(x, step).gems = x.gems - step.price BY <1>6 DEF gems
<1> QED BY <1>1, <1>4, <1>5, <1>6, <1>7

LEMMA UnitTableExists ==
    ASSUME NEW a \in ShopAccount, NEW p \in Products, NEW n \in Nat
    PROVE  \E u : UnitTable(u, a, p, n)
<1> DEFINE s == [ok |-> TRUE, gems |-> a.gems, tokens |-> a.tokens]
           at(i) == StepAt(p, a.counts[p] + i - 1)
           step == [x \in UnitState \X Nat |->
                      IF x[2] = 0 THEN x[1] ELSE NextUnit(x[1], at(x[2]))]
<1>1. s \in UnitState /\ a.counts[p] \in Nat BY DEF UnitState, ShopAccount
<1>2. \A i \in Nat \ {0} : at(i) \in PurchaseStep
  <2> SUFFICES ASSUME NEW i \in Nat \ {0} PROVE at(i) \in PurchaseStep OBVIOUS
  <2> DEFINE k == a.counts[p] + i - 1
  <2>1. k \in Nat BY <1>1
  <2> HIDE DEF k
  <2>2. StepAt(p, k) \in PurchaseStep BY <2>1, StepAtIsStep
  <2> QED BY <2>2 DEF k
<1>3. IsStepOn(step, UnitState)
  <2> SUFFICES ASSUME NEW x \in UnitState \X Nat
               PROVE  (IF x[2] = 0 THEN x[1] ELSE NextUnit(x[1], at(x[2]))) \in UnitState
    BY Zenon DEF IsStepOn
  <2> HIDE DEF at
  <2>1. x[1] \in UnitState /\ x[2] \in Nat OBVIOUS
  <2>2. x[2] # 0 => NextUnit(x[1], at(x[2])) \in UnitState
    BY <1>2, <2>1, NextUnitIsState
  <2> QED BY <2>1, <2>2
<1> HIDE DEF s, step
<1>4. PICK u : IsIteration(u, step, s, n, UnitState)
  <2>1. s \in UnitState BY <1>1
  <2> QED BY <2>1, <1>3, IterationExists, Zenon
<1>4a. /\ u \in [0..n -> UnitState] /\ u[0] = s
       /\ \A i \in 1..n : u[i] = step[<<u[i - 1], i>>]
  BY <1>4, Zenon DEF IsIteration
<1>5. ASSUME NEW i \in 1..n PROVE u[i] = NextUnit(u[i - 1], at(i))
  <2> DEFINE w == <<u[i - 1], i>>
  <2>1. w \in UnitState \X Nat /\ w[1] = u[i - 1] /\ w[2] = i /\ i # 0 BY <1>4a
  <2>2. u[i] = step[w] BY <1>4a
  <2> HIDE DEF at, w
  <2>3. step[w] = IF w[2] = 0 THEN w[1] ELSE NextUnit(w[1], at(w[2]))
    BY <2>1, Zenon DEF step
  <2> QED BY <2>1, <2>2, <2>3, Zenon
<1>6. u = [i \in 0..n |-> IF i = 0 THEN s ELSE NextUnit(u[i - 1], at(i))]
  <2>1. \A i \in 0..n : i = 0 \/ (i \in 1..n /\ i # 0) OBVIOUS
  <2> HIDE DEF at
  <2>2. \A i \in 0..n : u[i] = IF i = 0 THEN s ELSE NextUnit(u[i - 1], at(i))
    BY <1>4a, <1>5, <2>1, Zenon
  <2>3. u = [i \in 0..n |-> u[i]] BY <1>4a, Zenon
  <2> QED BY <2>2, <2>3, Zenon
<1> QED BY <1>6, Zenon DEF UnitTable, s

\* After so many units, their prices are paid, and what is paid was there.
LEMMA UnitsPaid ==
    ASSUME NEW a \in ShopAccount, NEW p \in Products, NEW n \in Nat, NEW u,
           UnitTable(u, a, p, n)
    PROVE  /\ u[n] \in UnitState
           /\ u[n].gems = a.gems - (PricesUpTo(p, a.counts[p] + n) - PricesUpTo(p, a.counts[p]))
           /\ u[n].ok => u[n].gems >= 0
<1> DEFINE c == a.counts[p]
           Right(i) == /\ u[i] \in UnitState
                       /\ u[i].gems = a.gems - (PricesUpTo(p, c + i) - PricesUpTo(p, c))
                       /\ u[i].ok => u[i].gems >= 0
           C == {i \in 0..n : ~Right(i)}
<1>1. c \in Nat /\ a.gems \in Nat /\ a.tokens \in Nat BY DEF ShopAccount
<1>2. u[0] = [ok |-> TRUE, gems |-> a.gems, tokens |-> a.tokens] BY DEF UnitTable
<1>3. \A i \in 1..n : u[i] = NextUnit(u[i - 1], StepAt(p, c + i - 1))
  <2>1. \A i \in 1..n : i \in 0..n /\ i # 0 OBVIOUS
  <2> QED BY <2>1, Zenon DEF UnitTable
<1> HIDE DEF c
<1>4. Right(0)
  <2>1. c + 0 = c BY <1>1
  <2>2. PricesUpTo(p, c) \in Int BY <1>1, PricesGrow
  <2> QED BY <1>1, <1>2, <2>1, <2>2 DEF UnitState
<1>5. ASSUME C # {} PROVE FALSE
  <2>1. PICK i \in C : \A m \in C : i <= m
    <3>1. C \subseteq Nat OBVIOUS
    <3> HIDE DEF C
    <3> QED BY <1>5, <3>1, LeastNumber
  <2>2. i \in 1..n /\ ~Right(i)
    <3> HIDE DEF Right
    <3> QED BY <1>4
  <2>3. Right(i - 1)
    <3>1. i - 1 \in 0..n BY <2>2
    <3>2. i - 1 \notin C
      <4> HIDE DEF C
      <4> QED BY <2>1, <2>2
    <3> HIDE DEF Right
    <3> QED BY <3>1, <3>2
  <2> DEFINE k == c + (i - 1)
             step == StepAt(p, k)
  <2>4. k \in Nat /\ c + i - 1 = k /\ c + i = k + 1 BY <1>1, <2>2
  <2> HIDE DEF k
  <2>5. step \in PurchaseStep BY <2>4, StepAtIsStep
  <2>6. PricesUpTo(p, k) \in Int /\ PricesUpTo(p, k + 1) = PricesUpTo(p, k) + step.price
    BY <2>4, PricesGrow
  <2>7. u[i] = NextUnit(u[i - 1], step) BY <1>3, <2>2, <2>4
  <2> HIDE DEF step
  <2>8. /\ u[i] \in UnitState /\ u[i].gems = u[i - 1].gems - step.price
        /\ u[i].ok => u[i].gems >= 0
    BY <2>3, <2>5, <2>7, NextUnitIsState
  <2>9. u[i - 1].gems = a.gems - (PricesUpTo(p, k) - PricesUpTo(p, c))
    BY <2>3 DEF k
  <2>10. PricesUpTo(p, c) \in Int /\ step.price \in Nat BY <1>1, <2>5, PricesGrow DEF PurchaseStep
  <2>11. PricesUpTo(p, c + i) = PricesUpTo(p, k) + step.price BY <2>4, <2>6
  <2>12. u[i].gems = a.gems - (PricesUpTo(p, c + i) - PricesUpTo(p, c))
    BY <1>1, <2>6, <2>8, <2>9, <2>10, <2>11
  <2> QED BY <2>2, <2>8, <2>12
<1>6. Right(n)
  <2> HIDE DEF Right
  <2> QED BY <1>5
<1> QED BY <1>6 DEF c

LEMMA UnitsBought ==
    ASSUME NEW a \in ShopAccount, NEW p \in Products, NEW q \in Nat
    PROVE  \E r \in UnitState :
             /\ Bought(a, p, q) = [ok |-> r.ok,
                    acct |-> [a EXCEPT !.gems = r.gems, !.tokens = r.tokens,
                                       !.counts[p] = @ + q]]
             /\ r.gems = a.gems - (PricesUpTo(p, a.counts[p] + q) - PricesUpTo(p, a.counts[p]))
             /\ r.ok => r.gems >= 0
<1> DEFINE u == CHOOSE u : UnitTable(u, a, p, q)
<1>1. UnitTable(u, a, p, q) BY UnitTableExists, Zenon
<1>2. Bought(a, p, q) = [ok |-> u[q].ok,
          acct |-> [a EXCEPT !.gems = u[q].gems, !.tokens = u[q].tokens, !.counts[p] = @ + q]]
  BY Zenon DEF Bought, UnitTable, NextUnit
<1> HIDE DEF u
<1>3. /\ u[q] \in UnitState
      /\ u[q].gems = a.gems - (PricesUpTo(p, a.counts[p] + q) - PricesUpTo(p, a.counts[p]))
      /\ u[q].ok => u[q].gems >= 0
  BY <1>1, UnitsPaid
<1> QED BY <1>2, <1>3

-----------------------------------------------------------------------------
\* Types and limits, and what the parts of an account say of each other.

\* The wheel counts the spins of the last day it was turned on.
WheelCountsDay ==
    /\ acct.wheel.day <= day(shopTime)
    /\ given.spins[acct.wheel.day] = acct.wheel.count /\ acct.wheel.count <= WheelLimit
    /\ \A d \in Days : d > acct.wheel.day => given.spins[d] = 0

\* What a pass paid was paid since it started.
PassStarted ==
    /\ acct.pass.started <= shopTime
    /\ acct.pass.started = -1 => acct.pass.received = {}

ShopInv ==
    /\ ShopTypeOK
    /\ PricedByCount /\ BoxesInTurn /\ WheelWithinDay /\ WheelCountsDay
    /\ CreditedOnce /\ PassPaysOnce /\ PassStarted /\ GrowthPaysOnce /\ ChallengePaysOnce

SamePrices ==
    /\ acct'.counts = acct.counts /\ acct'.pieces = acct.pieces
    /\ given'.spent = given.spent /\ given'.pieces = given.pieces
SameBoxes == acct'.box = acct.box /\ given'.won = given.won
SameWheel == shopTime' = shopTime /\ acct'.wheel = acct.wheel /\ given'.spins = given.spins
SameCredits ==
    acct'.sessions = acct.sessions /\ acct'.counts = acct.counts /\ given'.credits = given.credits
SamePass == shopTime' = shopTime /\ acct'.pass = acct.pass /\ given'.pass = given.pass
SameGrowth ==
    acct'.growth = acct.growth /\ given'.free = given.free /\ given'.premium = given.premium
SameChallenge ==
    acct'.challenge.received = acct.challenge.received /\ given'.challenge = given.challenge

LEMMA PricesStay == ASSUME PricedByCount, SamePrices PROVE PricedByCount'
<1>1. /\ \A p \in Products :
            given'.spent[p] = IF IsStoreProduct(p) THEN 0 ELSE PricesUpTo(p, acct'.counts[p])
      /\ given'.pieces = PiecesUpTo(acct'.pieces)
  BY Zenon DEF PricedByCount, SamePrices
<1> QED BY <1>1, Zenon DEF PricedByCount

LEMMA BoxesStay == ASSUME BoxesInTurn, SameBoxes PROVE BoxesInTurn'
BY Zenon DEF BoxesInTurn, SameBoxes, Box

LEMMA WheelStays ==
    ASSUME WheelWithinDay, WheelCountsDay, SameWheel PROVE WheelWithinDay' /\ WheelCountsDay'
BY Zenon DEF WheelWithinDay, WheelCountsDay, SameWheel, day

LEMMA CreditsStay == ASSUME CreditedOnce, SameCredits PROVE CreditedOnce'
BY Zenon DEF CreditedOnce, SameCredits, WithinLimit, IsStoreProduct, purchase_steps

LEMMA PassStays == ASSUME PassPaysOnce, PassStarted, SamePass PROVE PassPaysOnce' /\ PassStarted'
BY Zenon DEF PassPaysOnce, PassStarted, SamePass, Due, day

LEMMA GrowthStays == ASSUME GrowthPaysOnce, SameGrowth PROVE GrowthPaysOnce'
BY Zenon DEF GrowthPaysOnce, SameGrowth, Reached

LEMMA ChallengeStays == ASSUME ChallengePaysOnce, SameChallenge PROVE ChallengePaysOnce'
<1>1. \A r \in ChallengeScores :
          given'.challenge[r] = IF r <= acct'.challenge.received THEN 1 ELSE 0
  BY DEF ChallengePaysOnce, SameChallenge
<1> QED BY <1>1, Zenon DEF ChallengePaysOnce

\* What a request leaves behind has its types if what it makes has.
LEMMA RequestTypes ==
    ASSUME ShopTypeOK, NEW a \in ShopAccount, NEW g \in ShopGiven,
           Len(a.sessions) <= MaxSessions, Request(a, g)
    PROVE  ShopTypeOK' /\ acct' = a /\ given' = g /\ shopTime' = shopTime
<1>1. /\ acct' = a /\ given' = g /\ shopTime' = shopTime
      /\ requests < MaxRequests /\ requests' = requests + 1
  BY Zenon DEF Request
<1>2. requests \in 0..MaxRequests /\ shopTime \in 0..MaxShopTime BY Zenon DEF ShopTypeOK
<1>3. requests' \in 0..MaxRequests BY <1>1, <1>2, ShopConstants
<1> QED BY <1>1, <1>2, <1>3, Zenon DEF ShopTypeOK

\* A request that counts nothing: it pays and receives, and changes parts of the
\* account that no later request is limited by.
LEMMA NothingCounted ==
    ASSUME ShopInv, NEW a \in ShopAccount,
           a.counts = acct.counts, a.pieces = acct.pieces, a.box = acct.box,
           a.wheel = acct.wheel, a.sessions = acct.sessions, a.pass = acct.pass,
           a.growth = acct.growth, a.challenge.received = acct.challenge.received,
           Request(a, given)
    PROVE  ShopInv'
<1>1. ShopTypeOK /\ given \in ShopGiven /\ Len(a.sessions) <= MaxSessions
  BY Zenon DEF ShopInv, ShopTypeOK
<1>2. ShopTypeOK' /\ acct' = a /\ given' = given /\ shopTime' = shopTime
  BY <1>1, RequestTypes, Zenon
<1>3. /\ SamePrices /\ SameBoxes /\ SameWheel /\ SameCredits /\ SamePass /\ SameGrowth
      /\ SameChallenge
  BY <1>2, Zenon
     DEF SamePrices, SameBoxes, SameWheel, SameCredits, SamePass, SameGrowth, SameChallenge
<1> QED BY <1>2, <1>3, PricesStay, BoxesStay, WheelStays, CreditsStay, PassStays, GrowthStays,
           ChallengeStays, Zenon DEF ShopInv

\* The account and the clock of a state the invariant holds in.
LEMMA ShopFields ==
    ASSUME ShopInv
    PROVE  /\ acct \in ShopAccount /\ given \in ShopGiven /\ shopTime \in Nat
           /\ shopTime \in 0..MaxShopTime /\ ShopTypeOK /\ Len(acct.sessions) <= MaxSessions
<1>1. /\ acct \in ShopAccount /\ given \in ShopGiven /\ Len(acct.sessions) <= MaxSessions
      /\ shopTime \in 0..MaxShopTime /\ ShopTypeOK
  BY Zenon DEF ShopInv, ShopTypeOK
<1>2. MaxShopTime \in Nat BY ShopConstants
<1> QED BY <1>1, <1>2

LEMMA BonusKeeps == ASSUME ShopInv, receive_first_purchase_bonus PROVE ShopInv'
<1> DEFINE a == [acct EXCEPT !.first_bonus = TRUE]
<1>1. Request(a, given) BY Zenon DEF receive_first_purchase_bonus
<1>2. /\ a \in ShopAccount /\ a.counts = acct.counts /\ a.pieces = acct.pieces
      /\ a.box = acct.box /\ a.wheel = acct.wheel /\ a.sessions = acct.sessions
      /\ a.pass = acct.pass /\ a.growth = acct.growth /\ a.challenge = acct.challenge
  BY ShopFields DEF ShopAccount
<1> HIDE DEF a
<1> QED BY <1>1, <1>2, NothingCounted

LEMMA OfferKeeps == ASSUME ShopInv, special_offer_purchase PROVE ShopInv'
<1> DEFINE until == shopTime + OfferDays * DaySeconds
           gems == acct.gems - OfferPrice
           a == [acct EXCEPT !.gems = gems, !.offer_until = until]
<1>1. Request(a, given) /\ acct.gems >= OfferPrice BY Zenon DEF special_offer_purchase
<1>2. acct.gems \in Nat BY ShopFields DEF ShopAccount
<1>3. gems \in Nat BY <1>1, <1>2, ShopConstants
<1>4. until \in Nat
  <2>1. OfferDays * DaySeconds \in Nat BY ShopConstants
  <2> QED BY <2>1, ShopFields
<1> HIDE DEF gems, until
<1>5. /\ a \in ShopAccount /\ a.counts = acct.counts /\ a.pieces = acct.pieces
      /\ a.box = acct.box /\ a.wheel = acct.wheel /\ a.sessions = acct.sessions
      /\ a.pass = acct.pass /\ a.growth = acct.growth /\ a.challenge = acct.challenge
  BY <1>3, <1>4, ShopFields DEF ShopAccount
<1> HIDE DEF a
<1> QED BY <1>1, <1>5, NothingCounted

LEMMA BundleKeeps ==
    ASSUME ShopInv, NEW n \in BundleTokens, bundle_open(n) PROVE ShopInv'
<1> DEFINE bundles == acct.bundles - 1
           tokens == acct.tokens + n
           a == [acct EXCEPT !.bundles = bundles, !.tokens = tokens]
<1>1. Request(a, given) /\ acct.bundles >= 1 BY Zenon DEF bundle_open
<1>2. acct.bundles \in Nat /\ acct.tokens \in Nat BY ShopFields DEF ShopAccount
<1>3. n \in Nat BY ShopAssumption, Zenon
<1>4. bundles \in Nat /\ tokens \in Nat BY <1>1, <1>2, <1>3
<1> HIDE DEF bundles, tokens
<1>5. /\ a \in ShopAccount /\ a.counts = acct.counts /\ a.pieces = acct.pieces
      /\ a.box = acct.box /\ a.wheel = acct.wheel /\ a.sessions = acct.sessions
      /\ a.pass = acct.pass /\ a.growth = acct.growth /\ a.challenge = acct.challenge
  BY <1>4, ShopFields DEF ShopAccount
<1> HIDE DEF a
<1> QED BY <1>1, <1>5, NothingCounted

LEMMA ChallengeKeeps ==
    ASSUME ShopInv, NEW r \in ChallengeScores, item_challenge_execute(r) PROVE ShopInv'
<1> DEFINE high == Max({acct.challenge.high, r})
           a == [acct EXCEPT !.challenge.high = high]
<1>1. Request(a, given) BY Zenon DEF item_challenge_execute
<1>2. acct.challenge.high \in Nat BY ShopFields DEF ShopAccount
<1>3. r \in Nat BY ShopAssumption, Zenon
<1>4. high \in Nat
  <2>1. acct.challenge.high \in Int /\ r \in Int BY <1>2, <1>3
  <2>2. high = IF acct.challenge.high >= r THEN acct.challenge.high ELSE r
    BY <2>1, MaxOfTwo, Zenon
  <2> QED BY <1>2, <1>3, <2>2
<1> HIDE DEF high
<1>5. /\ a \in ShopAccount /\ a.counts = acct.counts /\ a.pieces = acct.pieces
      /\ a.box = acct.box /\ a.wheel = acct.wheel /\ a.sessions = acct.sessions
      /\ a.pass = acct.pass /\ a.growth = acct.growth
      /\ a.challenge.received = acct.challenge.received
  BY <1>4, ShopFields DEF ShopAccount
<1> HIDE DEF a
<1> QED BY <1>1, <1>5, NothingCounted

-----------------------------------------------------------------------------
\* The lineup that a request finds or replaces.
LEMMA LineupTypes ==
    ASSUME ShopInv, NEW r,
           r \in [lineup: Seq(Products), refresh_at: Nat, refreshes: Nat,
                  purchased: [Products -> Nat]]
    PROVE  refresh_random_shop(r) \in [lineup: Seq(Products), refresh_at: Nat,
                                       refreshes: Nat, purchased: [Products -> Nat]]
<1> DEFINE n == Len(RandomProducts)
           offset == (r.refreshes * LineupSlots) % n
           lineup == [i \in 1..LineupSlots |-> RandomProducts[((offset + i - 1) % n) + 1]]
           none == [p \in Products |-> 0]
           at == shopTime + LineupInterval
<1>1. RandomProducts \in Seq(Products) /\ RandomProducts # <<>> BY ShopAssumption, Zenon
<1>2. n \in Nat /\ n # 0 BY <1>1, LenProperties, EmptySeq
<1> HIDE DEF n
<1>3. offset \in Nat
  <2>1. r.refreshes * LineupSlots \in Nat BY ShopConstants
  <2> QED BY <1>2, <2>1
<1> HIDE DEF offset
<1>4. \A i \in 1..LineupSlots : RandomProducts[((offset + i - 1) % n) + 1] \in Products
  <2> SUFFICES ASSUME NEW i \in 1..LineupSlots
               PROVE  RandomProducts[((offset + i - 1) % n) + 1] \in Products
    OBVIOUS
  <2> DEFINE at_ == ((offset + i - 1) % n) + 1
  <2>1. at_ \in 1..n
    <3>1. (offset + i - 1) % n \in 0..(n - 1) BY <1>2, <1>3, ShopConstants
    <3> QED BY <1>2, <3>1
  <2> HIDE DEF at_
  <2>2. RandomProducts[at_] \in Products BY <1>1, <2>1, ElementOfSeq DEF n
  <2> QED BY <2>2 DEF at_
<1>5. lineup \in Seq(Products)
  <2>1. lineup \in [1..LineupSlots -> Products] BY <1>4, Zenon
  <2>2. LineupSlots \in Nat BY ShopConstants
  <2> HIDE DEF lineup
  <2> QED BY <2>1, <2>2, FunctionIsSeq
<1>6. none \in [Products -> Nat] OBVIOUS
<1>7. at \in Nat BY ShopFields, ShopConstants
<1>8. refresh_random_shop(r) = [r EXCEPT !.lineup = lineup, !.purchased = none,
                                        !.refresh_at = at]
  BY Zenon DEF refresh_random_shop, n, offset
<1> HIDE DEF lineup, none, at
<1> QED BY <1>5, <1>6, <1>7, <1>8

LEMMA CurrentIs ==
    ASSUME ShopInv
    PROVE  /\ Current \in ShopAccount /\ Current.gems = acct.gems
           /\ Current.tokens = acct.tokens
           /\ Current.counts = acct.counts /\ Current.pieces = acct.pieces
           /\ Current.box = acct.box /\ Current.wheel = acct.wheel
           /\ Current.sessions = acct.sessions /\ Current.pass = acct.pass
           /\ Current.growth = acct.growth /\ Current.challenge = acct.challenge
<1>1. acct \in ShopAccount BY ShopFields
<1>2. acct.random \in [lineup: Seq(Products), refresh_at: Nat, refreshes: Nat,
                       purchased: [Products -> Nat]]
  BY <1>1 DEF ShopAccount
<1> DEFINE random == refresh_random_shop(acct.random)
           a == [acct EXCEPT !.random = random]
<1>3. random \in [lineup: Seq(Products), refresh_at: Nat, refreshes: Nat,
                  purchased: [Products -> Nat]]
  BY <1>2, LineupTypes, Zenon
<1>4. Current = a \/ Current = acct BY Zenon DEF Current
<1> HIDE DEF random
<1>5. /\ a \in ShopAccount /\ a.gems = acct.gems /\ a.counts = acct.counts
      /\ a.pieces = acct.pieces /\ a.tokens = acct.tokens
      /\ a.box = acct.box /\ a.wheel = acct.wheel /\ a.sessions = acct.sessions
      /\ a.pass = acct.pass /\ a.growth = acct.growth /\ a.challenge = acct.challenge
  BY <1>1, <1>3 DEF ShopAccount
<1> HIDE DEF a
<1> QED BY <1>1, <1>4, <1>5, Zenon

LEMMA ListKeeps == ASSUME ShopInv, random_shop_list PROVE ShopInv'
<1>1. Request(Current, given) BY Zenon DEF random_shop_list
<1> QED BY <1>1, CurrentIs, NothingCounted

LEMMA RefreshCosts_ ==
    ASSUME NEW n \in Nat PROVE RefreshCost(n) \in Nat
<1> DEFINE I == {i \in 1..Len(RefreshCosts) : n < RefreshCosts[i].count}
           row == SelectInSeq(RefreshCosts, LAMBDA r : n < r.count)
           at == IF row = 0 THEN Len(RefreshCosts) ELSE row
<1>1. RefreshCosts \in Seq([count: Nat, gems: Nat]) BY ShopAssumption, Zenon
<1>2. row = IF I # {} THEN Min(I) ELSE 0 BY Zenon DEF SelectInSeq
<1>3. Len(RefreshCosts) \in Nat BY <1>1, LenProperties
<1>4. I # {} => Min(I) \in I
  <2>1. I \subseteq Nat OBVIOUS
  <2> HIDE DEF I
  <2> QED BY <2>1, MinIsLeast
<1> HIDE DEF row
<1>5. RefreshCosts # <<>> => at \in 1..Len(RefreshCosts)
  <2>1. RefreshCosts # <<>> => Len(RefreshCosts) # 0 BY <1>1, EmptySeq
  <2>2. row = 0 \/ row \in 1..Len(RefreshCosts) BY <1>2, <1>4
  <2> QED BY <1>3, <2>1, <2>2
<1>6. RefreshCost(n) = IF RefreshCosts = <<>> THEN 0 ELSE RefreshCosts[at].gems
  BY Zenon DEF RefreshCost, row
<1> HIDE DEF at
<1>7. RefreshCosts # <<>> => RefreshCosts[at] \in [count: Nat, gems: Nat]
  BY <1>1, <1>5, ElementOfSeq
<1> QED BY <1>6, <1>7

LEMMA RefreshKeeps == ASSUME ShopInv, random_shop_refresh PROVE ShopInv'
<1> DEFINE cost == RefreshCost(Current.random.refreshes)
           gems == Current.gems - cost
           more == [Current.random EXCEPT !.refreshes = @ + 1]
           random == refresh_random_shop(more)
           a == [Current EXCEPT !.gems = gems, !.random = random]
<1>1. Request(a, given) /\ Current.gems >= cost BY Zenon DEF random_shop_refresh
<1>2. Current \in ShopAccount BY CurrentIs
<1>3. Current.random \in [lineup: Seq(Products), refresh_at: Nat, refreshes: Nat,
                          purchased: [Products -> Nat]]
  BY <1>2 DEF ShopAccount
<1>4. cost \in Nat BY <1>3, RefreshCosts_
<1>5. gems \in Nat
  <2>1. Current.gems \in Nat BY <1>2 DEF ShopAccount
  <2> HIDE DEF cost
  <2> QED BY <1>1, <1>4, <2>1
<1>6. more \in [lineup: Seq(Products), refresh_at: Nat, refreshes: Nat,
                purchased: [Products -> Nat]]
  BY <1>3
<1> HIDE DEF more
<1>7. random \in [lineup: Seq(Products), refresh_at: Nat, refreshes: Nat,
                  purchased: [Products -> Nat]]
  BY <1>6, LineupTypes, Zenon
<1> HIDE DEF gems, random
<1>8. /\ a \in ShopAccount /\ a.counts = Current.counts /\ a.pieces = Current.pieces
      /\ a.box = Current.box /\ a.wheel = Current.wheel /\ a.sessions = Current.sessions
      /\ a.pass = Current.pass /\ a.growth = Current.growth
      /\ a.challenge = Current.challenge
  BY <1>2, <1>5, <1>7 DEF ShopAccount
<1> HIDE DEF a
<1> QED BY <1>1, <1>8, CurrentIs, NothingCounted

-----------------------------------------------------------------------------
\* Wheel, item challenge and growth pack.

LEMMA DaysInOrder ==
    /\ \A t \in 0..MaxShopTime : day(t) \in Days /\ day(t) \in Nat
    /\ \A t, u \in 0..MaxShopTime : t <= u => day(t) <= day(u)
<1>1. MaxShopTime \in Nat /\ DaySeconds \in Nat \ {0} BY ShopConstants
<1>2. \A t \in 0..MaxShopTime : t \div DaySeconds \in Nat BY <1>1, Division
<1>3. \A t, u \in 0..MaxShopTime : t <= u => t \div DaySeconds <= u \div DaySeconds
  BY <1>1, DivisionOrder
<1>4. \A t \in 0..MaxShopTime : t \div DaySeconds <= MaxShopTime \div DaySeconds
  <2>1. MaxShopTime \in 0..MaxShopTime BY <1>1
  <2> QED BY <1>3, <2>1
<1>5. MaxShopTime \div DaySeconds \in Nat
  <2>1. MaxShopTime \in 0..MaxShopTime BY <1>1
  <2> QED BY <1>2, <2>1
<1> DEFINE last == MaxShopTime \div DaySeconds
           q(t) == t \div DaySeconds
<1>6. \A t \in 0..MaxShopTime : q(t) \in 0..last
  <2> SUFFICES ASSUME NEW t \in 0..MaxShopTime PROVE q(t) \in 0..last OBVIOUS
  <2>1. q(t) \in Nat /\ q(t) <= last /\ last \in Nat BY <1>2, <1>4, <1>5, Zenon
  <2> HIDE DEF q, last
  <2> QED BY <2>1
<1> QED BY <1>2, <1>3, <1>6, Zenon DEF day, Days

LEMMA WheelKeeps == ASSUME ShopInv, wheel PROVE ShopInv'
<1> DEFINE d0 == day(shopTime)
           count == Today.count + 1
           next == [Today EXCEPT !.count = @ + 1]
           tokens == acct.tokens + 1
           a == [acct EXCEPT !.wheel = next, !.tokens = tokens]
           spins == [given.spins EXCEPT ![d0] = @ + 1]
           g == [given EXCEPT !.spins[d0] = @ + 1]
<1>1. Request(a, g) /\ Today.count < WheelLimit BY Zenon DEF wheel, Spun
<1>2. acct \in ShopAccount /\ given \in ShopGiven BY ShopFields
<1>3. /\ acct.wheel \in [day: Days, count: Nat] /\ acct.tokens \in Nat
      /\ given.spins \in [Days -> Nat]
  BY <1>2 DEF ShopAccount, ShopGiven
<1>4. d0 \in Days /\ d0 \in Nat BY ShopFields, DaysInOrder
<1>5. Days \subseteq Nat BY DEF Days
<1> HIDE DEF d0
<1>6. Today \in [day: Days, count: Nat] /\ Today.day = d0
  BY <1>3, <1>4 DEF Today, d0
<1>7. /\ next \in [day: Days, count: Nat] /\ next.day = d0 /\ next.count = count
      /\ count \in Nat /\ count <= WheelLimit /\ Today.count \in Nat
  BY <1>1, <1>6, ShopConstants
<1>8. tokens \in Nat BY <1>3
<1> HIDE DEF next, tokens
<1>9. /\ a \in ShopAccount /\ a.counts = acct.counts /\ a.pieces = acct.pieces
      /\ a.box = acct.box /\ a.sessions = acct.sessions
      /\ a.pass = acct.pass /\ a.growth = acct.growth /\ a.challenge = acct.challenge
      /\ a.wheel = next
  BY <1>2, <1>7, <1>8 DEF ShopAccount
<1>10. /\ g \in ShopGiven /\ g.spent = given.spent /\ g.pieces = given.pieces
       /\ g.credits = given.credits /\ g.won = given.won /\ g.pass = given.pass
       /\ g.free = given.free /\ g.premium = given.premium /\ g.challenge = given.challenge
       /\ g.spins = spins
  <2>1. g = [given EXCEPT !.spins = spins] BY <1>2 DEF ShopGiven
  <2>2. spins \in [Days -> Nat] BY <1>3, <1>4
  <2> HIDE DEF spins, g
  <2> QED BY <1>2, <2>1, <2>2 DEF ShopGiven
<1> HIDE DEF a, g
<1>11. ShopTypeOK' /\ acct' = a /\ given' = g /\ shopTime' = shopTime
  BY <1>1, <1>9, <1>10, ShopFields, RequestTypes
<1>12. SamePrices /\ SameBoxes /\ SameCredits /\ SamePass /\ SameGrowth /\ SameChallenge
  BY <1>9, <1>10, <1>11, Zenon
     DEF SamePrices, SameBoxes, SameCredits, SamePass, SameGrowth, SameChallenge
<1>13. /\ acct.wheel.day <= d0 /\ given.spins[acct.wheel.day] = acct.wheel.count
       /\ \A d \in Days : d > acct.wheel.day => given.spins[d] = 0
       /\ \A d \in Days : given.spins[d] <= WheelLimit
  BY Zenon DEF ShopInv, WheelCountsDay, WheelWithinDay, d0
<1>14. given.spins[d0] = Today.count
  <2>1. CASE acct.wheel.day = d0 BY <1>13, <2>1 DEF Today, d0
  <2>2. CASE acct.wheel.day # d0
    <3> DEFINE w == acct.wheel.day
    <3>0. w \in Nat /\ w # d0 /\ w <= d0 BY <1>3, <1>5, <1>13, <2>2
    <3> HIDE DEF w
    <3>1. w < d0 BY <1>4, <3>0
    <3>2. given.spins[d0] = 0 BY <1>4, <1>13, <3>1 DEF w
    <3> QED BY <2>2, <3>2 DEF Today, d0
  <2> QED BY <2>1, <2>2
<1>15. g.spins[d0] = count /\ \A d \in Days : d # d0 => g.spins[d] = given.spins[d]
  BY <1>3, <1>4, <1>10, <1>14
<1>16. \A d \in Days : g.spins[d] <= WheelLimit BY <1>7, <1>13, <1>15
<1>17. ASSUME NEW d \in Days, d > d0 PROVE g.spins[d] = 0
  <2>1. d \in Nat /\ acct.wheel.day \in Nat BY <1>3, <1>5
  <2>2. d # d0 /\ d > acct.wheel.day BY <1>4, <1>13, <1>17, <2>1
  <2> QED BY <1>13, <1>15, <2>2
<1>18. WheelWithinDay' BY <1>11, <1>16, Zenon DEF WheelWithinDay
<1>19. d0 <= d0 BY <1>4
<1>20. /\ acct'.wheel.day <= day(shopTime')
       /\ given'.spins[acct'.wheel.day] = acct'.wheel.count /\ acct'.wheel.count <= WheelLimit
       /\ \A d \in Days : d > acct'.wheel.day => given'.spins[d] = 0
  <2>1. day(shopTime') = d0 /\ acct'.wheel = next /\ given'.spins = g.spins
    BY <1>9, <1>11, Zenon DEF d0
  <2> QED BY <1>7, <1>15, <1>17, <1>19, <2>1
<1>21. WheelCountsDay' BY <1>20, Zenon DEF WheelCountsDay
<1> QED BY <1>11, <1>12, <1>18, <1>21, PricesStay, BoxesStay, CreditsStay, PassStays,
           GrowthStays, ChallengeStays, Zenon DEF ShopInv

LEMMA RewardsKeep == ASSUME ShopInv, item_challenge_reward_receive PROVE ShopInv'
<1> DEFINE new == Unreceived
           top == Max(new)
           tokens == acct.tokens + Cardinality(new)
           a == [acct EXCEPT !.challenge.received = top, !.tokens = tokens]
           total == [r \in ChallengeScores |->
                      given.challenge[r] + (IF r \in new THEN 1 ELSE 0)]
           g == [given EXCEPT !.challenge = total]
<1>1. Request(a, g) /\ new # {} BY Zenon DEF item_challenge_reward_receive
<1>2. acct \in ShopAccount /\ given \in ShopGiven BY ShopFields
<1>3. /\ acct.challenge \in [high: Nat, received: Nat] /\ acct.tokens \in Nat
      /\ given.challenge \in [ChallengeScores -> Nat]
  BY <1>2 DEF ShopAccount, ShopGiven
<1>4. ChallengeScores \subseteq Nat /\ IsFiniteSet(ChallengeScores) BY ShopAssumption, Zenon
<1>5. /\ new \subseteq ChallengeScores
      /\ \A r \in ChallengeScores :
            r \in new <=> acct.challenge.received < r /\ r <= acct.challenge.high
  BY DEF Unreceived
<1> HIDE DEF new
<1>6. IsFiniteSet(new) /\ new \subseteq Nat BY <1>4, <1>5, FS_Subset
<1>7. top \in new /\ \A r \in new : r <= top BY <1>1, <1>6, MaxIsGreatest
<1>8. Cardinality(new) \in Nat BY <1>6, FS_CardinalityType
<1>9. tokens \in Nat /\ top \in Nat BY <1>3, <1>6, <1>7, <1>8
<1>10. total \in [ChallengeScores -> Nat] BY <1>3
<1> HIDE DEF tokens, top
<1>11. /\ a \in ShopAccount /\ a.counts = acct.counts /\ a.pieces = acct.pieces
       /\ a.box = acct.box /\ a.sessions = acct.sessions
       /\ a.pass = acct.pass /\ a.growth = acct.growth /\ a.wheel = acct.wheel
       /\ a.challenge.received = top
  BY <1>2, <1>9 DEF ShopAccount
<1>12. \A r \in ChallengeScores : total[r] = IF r <= top THEN 1 ELSE 0
  <2> SUFFICES ASSUME NEW r \in ChallengeScores PROVE total[r] = IF r <= top THEN 1 ELSE 0
    OBVIOUS
  <2>1. given.challenge[r] = IF r <= acct.challenge.received THEN 1 ELSE 0
    BY Zenon DEF ShopInv, ChallengePaysOnce
  <2>2. total[r] = given.challenge[r] + (IF r \in new THEN 1 ELSE 0) OBVIOUS
  <2>3. r \in Nat /\ top \in Nat /\ acct.challenge.received \in Nat
    BY <1>3, <1>4, <1>9
  <2>4. acct.challenge.received < top /\ top <= acct.challenge.high /\ acct.challenge.high \in Nat
    BY <1>3, <1>5, <1>7
  <2> HIDE DEF total
  <2>5. CASE r \in new
    <3>1. r <= top /\ ~(r <= acct.challenge.received) BY <1>5, <1>7, <2>3, <2>5
    <3> QED BY <2>1, <2>2, <2>5, <3>1
  <2>6. CASE r \notin new
    <3>1. r <= acct.challenge.received \/ r > acct.challenge.high
      BY <1>5, <2>3, <2>4, <2>6
    <3>2. r <= top <=> r <= acct.challenge.received BY <2>3, <2>4, <3>1
    <3> QED BY <2>1, <2>2, <2>6, <3>2
  <2> QED BY <2>5, <2>6
<1> HIDE DEF total
<1>13. /\ g \in ShopGiven /\ g.spent = given.spent /\ g.pieces = given.pieces
       /\ g.credits = given.credits /\ g.won = given.won /\ g.pass = given.pass
       /\ g.free = given.free /\ g.premium = given.premium /\ g.spins = given.spins
       /\ g.challenge = total
  BY <1>2, <1>10 DEF ShopGiven
<1> HIDE DEF a, g
<1>14. ShopTypeOK' /\ acct' = a /\ given' = g /\ shopTime' = shopTime
  BY <1>1, <1>11, <1>13, ShopFields, RequestTypes
<1>15. SamePrices /\ SameBoxes /\ SameWheel /\ SameCredits /\ SamePass /\ SameGrowth
  BY <1>11, <1>13, <1>14, Zenon
     DEF SamePrices, SameBoxes, SameWheel, SameCredits, SamePass, SameGrowth
<1>16. \A r \in ChallengeScores :
          given'.challenge[r] = IF r <= acct'.challenge.received THEN 1 ELSE 0
  BY <1>11, <1>12, <1>13, <1>14
<1>17. ChallengePaysOnce' BY <1>16, Zenon DEF ChallengePaysOnce
<1> QED BY <1>14, <1>15, <1>17, PricesStay, BoxesStay, WheelStays, CreditsStay, PassStays,
           GrowthStays, Zenon DEF ShopInv

LEMMA GrowthIs ==
    /\ IsFiniteSet(DOMAIN GrowthSteps)
    /\ \A s \in DOMAIN GrowthSteps : GrowthSteps[s] \in Nat
<1>1. GrowthSteps \in Seq(Nat) BY ShopAssumption, Zenon
<1>2. DOMAIN GrowthSteps = 1..Len(GrowthSteps) /\ Len(GrowthSteps) \in Nat
  BY <1>1, LenProperties
<1>3. IsFiniteSet(1..Len(GrowthSteps)) BY <1>2, FS_Interval
<1>4. \A s \in 1..Len(GrowthSteps) : GrowthSteps[s] \in Nat BY <1>1, ElementOfSeq
<1> QED BY <1>2, <1>3, <1>4

\* More points take no step away that was reached.
LEMMA GrowthMoves ==
    ASSUME GrowthPaysOnce, acct.growth.points \in Nat, acct'.growth.points \in Nat,
           acct.growth.points <= acct'.growth.points,
           acct.growth.owned => acct'.growth.owned,
           acct'.growth.free = acct.growth.free, acct'.growth.premium = acct.growth.premium,
           given'.free = given.free, given'.premium = given.premium
    PROVE  GrowthPaysOnce'
<1>1. /\ \A s \in DOMAIN GrowthSteps :
            /\ given'.free[s] = IF s \in acct'.growth.free THEN 1 ELSE 0
            /\ given'.premium[s] = IF s \in acct'.growth.premium THEN 1 ELSE 0
      /\ acct'.growth.premium # {} => acct'.growth.owned
  BY DEF GrowthPaysOnce
<1>2. acct.growth.free \union acct.growth.premium \subseteq Reached
  BY Zenon DEF GrowthPaysOnce
<1>3. \A s \in Reached : s \in Reached'
  <2> SUFFICES ASSUME NEW s \in Reached PROVE s \in Reached' OBVIOUS
  <2>1. s \in DOMAIN GrowthSteps /\ GrowthSteps[s] <= acct.growth.points BY Zenon DEF Reached
  <2>2. GrowthSteps[s] \in Nat BY <2>1, GrowthIs
  <2>3. GrowthSteps[s] <= acct'.growth.points BY <2>1, <2>2
  <2> QED BY <2>1, <2>3, Zenon DEF Reached
<1>4. acct'.growth.free \union acct'.growth.premium \subseteq Reached' BY <1>2, <1>3, Zenon
<1> QED BY <1>1, <1>4, Zenon DEF GrowthPaysOnce

\* A request that buys the growth pack or points for it.
LEMMA GrowthBought ==
    ASSUME ShopInv, NEW gems \in Nat, NEW hold \in BOOLEAN, NEW points \in Nat,
           acct.growth.points <= points, acct.growth.owned => hold, NEW a,
           a = [acct EXCEPT !.gems = gems, !.growth.owned = hold, !.growth.points = points],
           Request(a, given)
    PROVE  ShopInv'
<1>1. acct \in ShopAccount /\ given \in ShopGiven BY ShopFields
<1> DEFINE growth == [acct.growth EXCEPT !.owned = hold, !.points = points]
<1>2. /\ growth \in [owned: BOOLEAN, points: Nat, free: SUBSET DOMAIN GrowthSteps,
                     premium: SUBSET DOMAIN GrowthSteps]
      /\ growth.owned = hold /\ growth.points = points
      /\ growth.free = acct.growth.free /\ growth.premium = acct.growth.premium
      /\ acct.growth.points \in Nat
  BY <1>1 DEF ShopAccount
<1>3. a = [acct EXCEPT !.gems = gems, !.growth = growth] BY <1>1 DEF ShopAccount
<1> HIDE DEF growth
<1>4. /\ a \in ShopAccount /\ a.counts = acct.counts /\ a.pieces = acct.pieces
      /\ a.box = acct.box /\ a.wheel = acct.wheel /\ a.sessions = acct.sessions
      /\ a.pass = acct.pass /\ a.growth = growth /\ a.challenge = acct.challenge
  BY <1>1, <1>2, <1>3 DEF ShopAccount
<1>5. ShopTypeOK' /\ acct' = a /\ given' = given /\ shopTime' = shopTime
  BY <1>1, <1>4, ShopFields, RequestTypes
<1>6. SamePrices /\ SameBoxes /\ SameWheel /\ SameCredits /\ SamePass /\ SameChallenge
  BY <1>4, <1>5, Zenon
     DEF SamePrices, SameBoxes, SameWheel, SameCredits, SamePass, SameChallenge
<1>7. GrowthPaysOnce'
  <2>1. GrowthPaysOnce /\ acct'.growth = growth /\ given' = given
    BY <1>4, <1>5, Zenon DEF ShopInv
  <2> QED BY <1>2, <2>1, GrowthMoves
<1> QED BY <1>5, <1>6, <1>7, PricesStay, BoxesStay, WheelStays, CreditsStay, PassStays,
           ChallengeStays, Zenon DEF ShopInv

LEMMA GrowthPurchaseKeeps == ASSUME ShopInv, growth_pack_purchase PROVE ShopInv'
<1> DEFINE gems == acct.gems - GrowthPrice
           points == acct.growth.points
           a == [acct EXCEPT !.gems = gems, !.growth.owned = TRUE, !.growth.points = points]
<1>1. /\ Request([acct EXCEPT !.gems = @ - GrowthPrice, !.growth.owned = TRUE], given)
      /\ acct.gems >= GrowthPrice
  BY Zenon DEF growth_pack_purchase
<1>2. acct \in ShopAccount BY ShopFields
<1>3. acct.gems \in Nat /\ points \in Nat BY <1>2 DEF ShopAccount
<1>4. gems \in Nat BY <1>1, <1>3, ShopConstants
<1>5. a = [acct EXCEPT !.gems = @ - GrowthPrice, !.growth.owned = TRUE]
  BY <1>2 DEF ShopAccount
<1>6. Request(a, given) BY <1>1, <1>5, Zenon
<1>7. points <= points BY <1>3
<1> HIDE DEF gems
<1> QED BY <1>3, <1>4, <1>6, <1>7, GrowthBought

LEMMA PointsKeep ==
    ASSUME ShopInv, NEW lots \in Quantities, growth_pack_point_purchase(lots) PROVE ShopInv'
<1> DEFINE gems == acct.gems - lots * LotPrice
           points == acct.growth.points + lots * LotPoints
           hold == acct.growth.owned
           a == [acct EXCEPT !.gems = gems, !.growth.owned = hold, !.growth.points = points]
<1>1. /\ Request([acct EXCEPT !.gems = @ - lots * LotPrice,
                             !.growth.points = @ + lots * LotPoints], given)
      /\ acct.gems >= lots * LotPrice
  BY Zenon DEF growth_pack_point_purchase
<1>2. acct \in ShopAccount BY ShopFields
<1>3. acct.gems \in Nat /\ acct.growth.points \in Nat /\ hold \in BOOLEAN
  BY <1>2 DEF ShopAccount
<1>4. lots * LotPrice \in Nat /\ lots * LotPoints \in Nat
  <2>1. lots \in Nat BY ShopAssumption, Zenon
  <2> QED BY <2>1, ShopConstants
<1>5. gems \in Nat /\ points \in Nat /\ acct.growth.points <= points BY <1>1, <1>3, <1>4
<1>6. a = [acct EXCEPT !.gems = @ - lots * LotPrice,
                       !.growth.points = @ + lots * LotPoints]
  BY <1>2 DEF ShopAccount
<1>7. Request(a, given) BY <1>1, <1>6, Zenon
<1> HIDE DEF gems, points
<1> QED BY <1>3, <1>5, <1>7, GrowthBought

\* What is claimed was reached and not received, and premium rewards go to owners.
LEMMA ClaimsKeep ==
    ASSUME ShopInv, NEW free, NEW premium, Claims(free, premium),
           free \subseteq Reached \ acct.growth.free,
           premium \subseteq Reached \ acct.growth.premium,
           premium # {} => acct.growth.owned
    PROVE  ShopInv'
<1> DEFINE tokens == acct.tokens + Cardinality(free) + Cardinality(premium)
           frees == acct.growth.free \union free
           premiums == acct.growth.premium \union premium
           growth == [acct.growth EXCEPT !.free = frees, !.premium = premiums]
           a == [acct EXCEPT !.growth.free = @ \union free,
                             !.growth.premium = @ \union premium,
                             !.tokens = @ + Cardinality(free) + Cardinality(premium)]
           paid1 == [s \in DOMAIN given.free |-> given.free[s] + (IF s \in free THEN 1 ELSE 0)]
           paid2 == [s \in DOMAIN given.premium |->
                       given.premium[s] + (IF s \in premium THEN 1 ELSE 0)]
           g == [given EXCEPT !.free = paid1, !.premium = paid2]
           S == DOMAIN GrowthSteps
<1>1. Request(a, g) BY Zenon DEF Claims
<1>2. acct \in ShopAccount /\ given \in ShopGiven BY ShopFields
<1>3. /\ acct.growth \in [owned: BOOLEAN, points: Nat, free: SUBSET S, premium: SUBSET S]
      /\ acct.tokens \in Nat /\ given.free \in [S -> Nat] /\ given.premium \in [S -> Nat]
  BY <1>2 DEF ShopAccount, ShopGiven
<1>4. Reached \subseteq S BY DEF Reached
<1>5. free \subseteq S /\ premium \subseteq S BY <1>4
<1>6. Cardinality(free) \in Nat /\ Cardinality(premium) \in Nat
  BY <1>5, GrowthIs, FS_Subset, FS_CardinalityType
<1>7. tokens \in Nat BY <1>3, <1>6
<1>8. /\ growth \in [owned: BOOLEAN, points: Nat, free: SUBSET S, premium: SUBSET S]
      /\ growth.owned = acct.growth.owned /\ growth.points = acct.growth.points
      /\ growth.free = frees /\ growth.premium = premiums
  BY <1>3, <1>5
<1>9. a = [acct EXCEPT !.growth = growth, !.tokens = tokens] BY <1>2 DEF ShopAccount
<1> HIDE DEF a, growth, tokens
<1>10. /\ a \in ShopAccount /\ a.counts = acct.counts /\ a.pieces = acct.pieces
       /\ a.box = acct.box /\ a.wheel = acct.wheel /\ a.sessions = acct.sessions
       /\ a.pass = acct.pass /\ a.growth = growth /\ a.challenge = acct.challenge
  BY <1>2, <1>7, <1>8, <1>9 DEF ShopAccount
<1>11. paid1 \in [S -> Nat] /\ paid2 \in [S -> Nat] BY <1>3
<1>12. /\ \A s \in S : given.free[s] = IF s \in acct.growth.free THEN 1 ELSE 0
       /\ \A s \in S : given.premium[s] = IF s \in acct.growth.premium THEN 1 ELSE 0
       /\ acct.growth.premium # {} => acct.growth.owned
       /\ acct.growth.free \union acct.growth.premium \subseteq Reached
  BY Zenon DEF ShopInv, GrowthPaysOnce
<1>13. \A s \in S : paid1[s] = IF s \in frees THEN 1 ELSE 0 BY <1>3, <1>12
<1>14. \A s \in S : paid2[s] = IF s \in premiums THEN 1 ELSE 0 BY <1>3, <1>12
<1> HIDE DEF paid1, paid2
<1>15. /\ g \in ShopGiven /\ g.spent = given.spent /\ g.pieces = given.pieces
       /\ g.credits = given.credits /\ g.won = given.won /\ g.pass = given.pass
       /\ g.free = paid1 /\ g.premium = paid2 /\ g.spins = given.spins
       /\ g.challenge = given.challenge
  BY <1>2, <1>11 DEF ShopGiven
<1> HIDE DEF g
<1>16. ShopTypeOK' /\ acct' = a /\ given' = g /\ shopTime' = shopTime
  BY <1>1, <1>10, <1>15, ShopFields, RequestTypes
<1>17. SamePrices /\ SameBoxes /\ SameWheel /\ SameCredits /\ SamePass /\ SameChallenge
  BY <1>10, <1>15, <1>16, Zenon
     DEF SamePrices, SameBoxes, SameWheel, SameCredits, SamePass, SameChallenge
<1>18. Reached' = Reached BY <1>8, <1>10, <1>16, Zenon DEF Reached
<1>19. frees \union premiums \subseteq Reached BY <1>12
<1>20. premiums # {} => acct.growth.owned BY <1>12
<1>21. GrowthPaysOnce'
  <2>1. /\ acct'.growth.free = frees /\ acct'.growth.premium = premiums
        /\ acct'.growth.owned = acct.growth.owned
        /\ given'.free = paid1 /\ given'.premium = paid2
    BY <1>8, <1>10, <1>15, <1>16, Zenon
  <2> HIDE DEF frees, premiums
  <2> QED BY <1>13, <1>14, <1>18, <1>19, <1>20, <2>1, Zenon DEF GrowthPaysOnce
<1> QED BY <1>16, <1>17, <1>21, PricesStay, BoxesStay, WheelStays, CreditsStay, PassStays,
           ChallengeStays, Zenon DEF ShopInv

LEMMA ReceiveKeeps ==
    ASSUME ShopInv, NEW s \in DOMAIN GrowthSteps, NEW is_premium \in BOOLEAN,
           growth_receive(s, is_premium)
    PROVE  ShopInv'
<1>1. s \in Reached BY Zenon DEF growth_receive
<1>2. CASE is_premium
  <2>1. acct.growth.owned /\ Claims({}, {s} \ acct.growth.premium)
    BY <1>2, Zenon DEF growth_receive
  <2> QED BY <1>1, <2>1, ClaimsKeep
<1>3. CASE ~is_premium
  <2>1. Claims({s} \ acct.growth.free, {}) BY <1>3, Zenon DEF growth_receive
  <2> QED BY <1>1, <2>1, ClaimsKeep
<1> QED BY <1>2, <1>3

LEMMA BulkClaimsKeep == ASSUME ShopInv, growth_bulk_receive PROVE ShopInv'
<1> DEFINE free == Reached \ acct.growth.free
           premium == IF acct.growth.owned THEN Reached \ acct.growth.premium ELSE {}
<1>1. Claims(free, premium) BY Zenon DEF growth_bulk_receive
<1>2. /\ free \subseteq Reached \ acct.growth.free
      /\ premium \subseteq Reached \ acct.growth.premium
      /\ premium # {} => acct.growth.owned
  OBVIOUS
<1> HIDE DEF free, premium
<1> QED BY <1>1, <1>2, ClaimsKeep

-----------------------------------------------------------------------------
\* The daily pass.

\* The days of a pass that have come are numbers of its days, and no fewer later.
LEMMA DueIs ==
    ASSUME ShopInv, acct.pass.started # -1
    PROVE  /\ Due \in 0..PassDays
           /\ Due = Min({day(shopTime) - day(acct.pass.started) + 1, PassDays})
           /\ day(acct.pass.started) \in Nat /\ day(acct.pass.started) <= day(shopTime)
<1>1. acct.pass.started \in -1..MaxShopTime BY ShopFields DEF ShopAccount
<1>2. acct.pass.started <= shopTime BY Zenon DEF ShopInv, PassStarted
<1>3. acct.pass.started \in 0..MaxShopTime BY <1>1
<1> DEFINE a == day(acct.pass.started)
           b == day(shopTime)
           n == b - a + 1
<1>4. a \in Nat /\ b \in Nat /\ a <= b BY <1>2, <1>3, ShopFields, DaysInOrder
<1> HIDE DEF a, b
<1>5. n \in Nat BY <1>4
<1> DEFINE m == Max({n, 0})
<1> HIDE DEF n
<1>6. m = n BY <1>5, MaxOfTwo
<1> DEFINE d == Min({n, PassDays})
<1>7. d \in {n, PassDays} /\ d <= n /\ d <= PassDays
  <2> DEFINE S == {n, PassDays}
  <2>1. S \subseteq Nat /\ S # {} BY <1>5, ShopConstants
  <2> HIDE DEF S
  <2>2. Min(S) \in S /\ \A y \in S : Min(S) <= y BY <2>1, MinIsLeast
  <2> QED BY <2>2 DEF S
<1>8. Due = Min({m, PassDays}) BY Zenon DEF Due, m, n, a, b
<1>9. Due = d BY <1>6, <1>8
<1> HIDE DEF d
<1>10. d \in 0..PassDays BY <1>5, <1>7, ShopConstants
<1> QED BY <1>4, <1>9, <1>10 DEF a, b, d, n

\* Days that have come and were not received are received once.
LEMMA ReceivedKeeps ==
    ASSUME ShopInv, PassValid, NEW days, Received(days),
           days \subseteq (1..Due) \ acct.pass.received
    PROVE  ShopInv'
<1> DEFINE received == acct.pass.received \union days
           pass == [acct.pass EXCEPT !.received = received]
           tokens == acct.tokens + Cardinality(days)
           a == [acct EXCEPT !.pass.received = @ \union days,
                             !.tokens = @ + Cardinality(days)]
           total == [d \in 1..PassDays |-> IF d \in days THEN given.pass[d] + 1 ELSE given.pass[d]]
           g == [given EXCEPT !.pass = total]
<1>1. Request(a, g) BY Zenon DEF Received
<1>2. acct \in ShopAccount /\ given \in ShopGiven BY ShopFields
<1>3. acct.pass.started # -1 BY Zenon DEF PassValid
<1>4. /\ acct.pass \in [started: -1..MaxShopTime, expires: Nat, received: SUBSET (1..PassDays)]
      /\ acct.tokens \in Nat /\ given.pass \in [1..PassDays -> Nat]
  BY <1>2 DEF ShopAccount, ShopGiven
<1>5. Due \in 0..PassDays BY <1>3, DueIs
<1>6. PassDays \in Nat BY ShopConstants
<1>6a. \A d \in 1..PassDays : d \in Nat BY <1>6
<1>7. days \subseteq 1..PassDays BY <1>5, <1>6
<1>8. IsFiniteSet(1..PassDays) /\ IsFiniteSet(days)
  <2>1. IsFiniteSet(1..PassDays) BY <1>6, FS_Interval
  <2> QED BY <1>7, <2>1, FS_Subset
<1>8a. acct.pass.received \subseteq 1..PassDays BY <1>4
<1>9. tokens \in Nat
  <2>1. Cardinality(days) \in Nat BY <1>8, FS_CardinalityType
  <2> QED BY <1>4, <2>1
<1>10. /\ pass \in [started: -1..MaxShopTime, expires: Nat, received: SUBSET (1..PassDays)]
       /\ pass.started = acct.pass.started /\ pass.received = received
  BY <1>4, <1>7
<1>11. a = [acct EXCEPT !.pass = pass, !.tokens = tokens] BY <1>2 DEF ShopAccount
<1> HIDE DEF a, pass, tokens
<1>12. /\ a \in ShopAccount /\ a.counts = acct.counts /\ a.pieces = acct.pieces
       /\ a.box = acct.box /\ a.wheel = acct.wheel /\ a.sessions = acct.sessions
       /\ a.pass = pass /\ a.growth = acct.growth /\ a.challenge = acct.challenge
  BY <1>2, <1>9, <1>10, <1>11 DEF ShopAccount
<1>13. total \in [1..PassDays -> Nat]
  <2> DEFINE old == given.pass
  <2>1. old \in [1..PassDays -> Nat] BY <1>4
  <2>2. total = [d \in 1..PassDays |-> IF d \in days THEN old[d] + 1 ELSE old[d]] OBVIOUS
  <2> HIDE DEF old, total
  <2> QED BY <2>1, <2>2
<1>14. \A d \in 1..PassDays : given.pass[d] = IF d \in acct.pass.received THEN 1 ELSE 0
  BY Zenon DEF ShopInv, PassPaysOnce
<1>15. \A d \in 1..PassDays : total[d] = IF d \in received THEN 1 ELSE 0 BY <1>14
<1> HIDE DEF total
<1>16. /\ g \in ShopGiven /\ g.spent = given.spent /\ g.pieces = given.pieces
       /\ g.credits = given.credits /\ g.won = given.won /\ g.pass = total
       /\ g.free = given.free /\ g.premium = given.premium /\ g.spins = given.spins
       /\ g.challenge = given.challenge
  BY <1>2, <1>13 DEF ShopGiven
<1> HIDE DEF g
<1>17. ShopTypeOK' /\ acct' = a /\ given' = g /\ shopTime' = shopTime
  BY <1>1, <1>12, <1>16, ShopFields, RequestTypes
<1>18. SamePrices /\ SameBoxes /\ SameWheel /\ SameCredits /\ SameGrowth /\ SameChallenge
  BY <1>12, <1>16, <1>17, Zenon
     DEF SamePrices, SameBoxes, SameWheel, SameCredits, SameGrowth, SameChallenge
<1>19. /\ acct'.pass.started = acct.pass.started /\ acct'.pass.received = received
       /\ given'.pass = total
  BY <1>10, <1>12, <1>16, <1>17, Zenon
<1>20. PassStarted' BY <1>3, <1>17, <1>19, Zenon DEF PassStarted, ShopInv
<1>21. Due' = Due BY <1>17, <1>19, Zenon DEF Due, day
<1>22. received # {} => Max(received) <= Due
  <2> SUFFICES ASSUME received # {} PROVE Max(received) <= Due OBVIOUS
  <2>1. received \subseteq 1..PassDays /\ received \subseteq Nat
    BY <1>6a, <1>7, <1>8a, Zenon
  <2>2. IsFiniteSet(received) BY <1>8, <2>1, FS_Subset
  <2> HIDE DEF received
  <2>3. Max(received) \in received BY <2>1, <2>2, MaxIsGreatest
  <2> DEFINE last == Max(received)
  <2>4. CASE last \in days
    <3> HIDE DEF last
    <3>1. last \in 1..Due BY <2>4
    <3>2. last <= Due BY <1>5, <1>6, <3>1
    <3> QED BY <3>2 DEF last
  <2>5. CASE last \in acct.pass.received
    <3> DEFINE old == acct.pass.received
    <3>0. old \subseteq 1..PassDays /\ old # {} BY <1>8a, <2>5
    <3>1. old \subseteq Nat /\ IsFiniteSet(old) /\ old # {}
      <4> HIDE DEF old
      <4>1. old \subseteq Nat BY <1>6a, <3>0, Zenon
      <4>2. IsFiniteSet(old) BY <1>8, <3>0, FS_Subset, Zenon
      <4> QED BY <3>0, <4>1, <4>2
    <3>2. Max(received) <= Max(old) /\ Max(old) \in old
      <4> HIDE DEF old
      <4>1. Max(old) \in old /\ \A y \in old : y <= Max(old) BY <3>1, MaxIsGreatest
      <4> QED BY <2>5, <4>1 DEF old
    <3>3. Max(old) <= Due BY <3>1, Zenon DEF ShopInv, PassPaysOnce
    <3>4. Max(received) \in Nat /\ Max(old) \in Nat BY <2>1, <2>3, <3>1, <3>2
    <3> HIDE DEF old
    <3> QED BY <1>5, <3>2, <3>3, <3>4
  <2> QED BY <2>3, <2>4, <2>5 DEF received
<1>23. PassPaysOnce'
  <2> HIDE DEF received
  <2>1. acct'.pass.received # {} => Max(acct'.pass.received) <= Due'
    BY <1>19, <1>21, <1>22
  <2>2. \A d \in 1..PassDays : given'.pass[d] = IF d \in acct'.pass.received THEN 1 ELSE 0
    BY <1>15, <1>19
  <2> QED BY <2>1, <2>2, Zenon DEF PassPaysOnce
<1> QED BY <1>17, <1>18, <1>20, <1>23, PricesStay, BoxesStay, WheelStays, CreditsStay,
           GrowthStays, ChallengeStays, Zenon DEF ShopInv

LEMMA PassDayKeeps ==
    ASSUME ShopInv, NEW d \in 1..PassDays, daily_pass_receive(d) PROVE ShopInv'
<1>1. PassValid /\ d \in 1..Due /\ d \notin acct.pass.received /\ Received({d})
  BY Zenon DEF daily_pass_receive
<1>2. {d} \subseteq (1..Due) \ acct.pass.received BY <1>1
<1> QED BY <1>1, <1>2, ReceivedKeeps

LEMMA PassBulkKeeps == ASSUME ShopInv, daily_pass_bulk_receive PROVE ShopInv'
<1>1. PassValid /\ Received((1..Due) \ acct.pass.received) BY Zenon DEF daily_pass_bulk_receive
<1> DEFINE days == (1..Due) \ acct.pass.received
<1>2. days \subseteq (1..Due) \ acct.pass.received OBVIOUS
<1> HIDE DEF days
<1>3. Received(days) BY <1>1 DEF days
<1> QED BY <1>1, <1>2, <1>3, ReceivedKeeps

-----------------------------------------------------------------------------
\* Time passes, and a pass is bought.

LEMMA MinGrows ==
    ASSUME NEW a \in Nat, NEW b \in Nat, NEW c \in Nat, a <= b
    PROVE  Min({a, c}) \in Nat /\ Min({b, c}) \in Nat /\ Min({a, c}) <= Min({b, c})
<1> DEFINE S == {a, c}
           T == {b, c}
<1>1. S \subseteq Nat /\ S # {} /\ T \subseteq Nat /\ T # {} OBVIOUS
<1>2. (\A y \in S : y = a \/ y = c) /\ (\A y \in T : y = b \/ y = c) OBVIOUS
<1>3. a \in S /\ c \in S /\ b \in T /\ c \in T OBVIOUS
<1> HIDE DEF S, T
<1>4. Min(S) \in S /\ \A y \in S : Min(S) <= y BY <1>1, MinIsLeast
<1>5. Min(T) \in T /\ \A y \in T : Min(T) <= y BY <1>1, MinIsLeast
<1>6. Min(S) \in Nat /\ Min(T) \in Nat BY <1>1, <1>4, <1>5
<1>7. Min(S) <= a /\ Min(S) <= c /\ (Min(T) = b \/ Min(T) = c) BY <1>2, <1>3, <1>4, <1>5
<1>8. Min(S) <= Min(T) BY <1>6, <1>7
<1> QED BY <1>6, <1>8 DEF S, T

LEMMA TimeKeepsPass ==
    ASSUME ShopInv, shopTime' \in 0..MaxShopTime, shopTime <= shopTime',
           acct'.pass.received = acct.pass.received, given'.pass = given.pass,
           acct.pass.started # -1 => acct'.pass.started = acct.pass.started,
           acct'.pass.started <= shopTime'
    PROVE  PassPaysOnce' /\ PassStarted'
<1>1. /\ \A d \in 1..PassDays : given.pass[d] = IF d \in acct.pass.received THEN 1 ELSE 0
      /\ acct.pass.received # {} => Max(acct.pass.received) <= Due
      /\ acct.pass.started = -1 => acct.pass.received = {}
  BY Zenon DEF ShopInv, PassPaysOnce, PassStarted
<1>2. PassStarted' BY <1>1, Zenon DEF PassStarted
<1>3. \A d \in 1..PassDays : given'.pass[d] = IF d \in acct'.pass.received THEN 1 ELSE 0
  BY <1>1
<1>4. ASSUME acct.pass.received # {} PROVE Max(acct.pass.received) <= Due'
  <2>1. acct.pass.started # -1 /\ acct'.pass.started = acct.pass.started BY <1>1, <1>4
  <2>2. acct.pass.started \in -1..MaxShopTime /\ acct.pass.received \subseteq 1..PassDays
    <3>1. acct.pass \in [started: -1..MaxShopTime, expires: Nat,
                         received: SUBSET (1..PassDays)]
      BY ShopFields DEF ShopAccount
    <3> QED BY <3>1
  <2>3. acct.pass.started <= shopTime BY Zenon DEF ShopInv, PassStarted
  <2>4. acct.pass.started \in 0..MaxShopTime BY <2>1, <2>2
  <2> DEFINE s == day(acct.pass.started)
             t == day(shopTime)
             u == day(shopTime')
             m == t - s + 1
             n == u - s + 1
  <2>5. s \in Nat /\ t \in Nat /\ u \in Nat /\ s <= t /\ t <= u
    BY <2>3, <2>4, ShopFields, DaysInOrder
  <2>6. Due = Min({Max({m, 0}), PassDays}) BY Zenon DEF Due
  <2>7. Due' = Min({Max({n, 0}), PassDays}) BY <2>1, Zenon DEF Due, day
  <2> HIDE DEF s, t, u
  <2>8. m \in Nat /\ n \in Nat /\ m <= n BY <2>5
  <2> HIDE DEF m, n
  <2>9. Max({m, 0}) = m /\ Max({n, 0}) = n BY <2>8, MaxOfTwo
  <2>10. Due \in Nat /\ Due' \in Nat /\ Due <= Due'
    <3>1. PassDays \in Nat BY ShopConstants
    <3>2. Min({m, PassDays}) \in Nat /\ Min({n, PassDays}) \in Nat
          /\ Min({m, PassDays}) <= Min({n, PassDays})
      BY <2>8, <3>1, MinGrows
    <3> QED BY <2>6, <2>7, <2>9, <3>2, Zenon
  <2> DEFINE R == acct.pass.received
             last == Max(R)
  <2>11. last \in Nat
    <3>1. PassDays \in Nat BY ShopConstants
    <3>2. 1 \in Int /\ PassDays \in Int /\ \A d \in 1..PassDays : d \in Nat BY <3>1
    <3>3. IsFiniteSet(1..PassDays) BY <3>2, FS_Interval, Zenon
    <3>3a. IsFiniteSet(R) /\ R \subseteq Nat BY <2>2, <3>2, <3>3, FS_Subset, Zenon
    <3>4. R # {} BY <1>4
    <3> HIDE DEF R
    <3>5. Max(R) \in R BY <3>3a, <3>4, MaxIsGreatest
    <3> QED BY <3>3a, <3>5
  <2>12. last <= Due BY <1>1, <1>4, Zenon
  <2> HIDE DEF last
  <2>13. last <= Due' BY <2>10, <2>11, <2>12
  <2> QED BY <2>13 DEF last
<1>5. PassPaysOnce' BY <1>3, <1>4, Zenon DEF PassPaysOnce
<1> QED BY <1>2, <1>5

LEMMA ShopTickKeeps == ASSUME ShopInv, ShopTick PROVE ShopInv'
<1>1. /\ shopTime < MaxShopTime /\ shopTime' = shopTime + 1
      /\ acct' = acct /\ requests' = requests /\ given' = given
  BY Zenon DEF ShopTick
<1>2. shopTime' \in 0..MaxShopTime /\ shopTime <= shopTime'
  <2>1. MaxShopTime \in Nat /\ shopTime \in Nat BY ShopFields, ShopConstants
  <2> QED BY <1>1, <2>1
<1>3. ShopTypeOK' BY <1>1, <1>2, Zenon DEF ShopInv, ShopTypeOK
<1>4. SamePrices /\ SameBoxes /\ SameCredits /\ SameGrowth /\ SameChallenge
  BY <1>1, Zenon DEF SamePrices, SameBoxes, SameCredits, SameGrowth, SameChallenge
<1>5. acct.pass.started <= shopTime'
  <2>1. acct.pass.started \in Int /\ shopTime \in Int BY ShopFields DEF ShopAccount
  <2>2. acct.pass.started <= shopTime BY Zenon DEF ShopInv, PassStarted
  <2> QED BY <1>1, <2>1, <2>2
<1>6. PassPaysOnce' /\ PassStarted' BY <1>1, <1>2, <1>5, TimeKeepsPass
<1>7. day(shopTime) \in Nat /\ day(shopTime') \in Nat /\ day(shopTime) <= day(shopTime')
  BY <1>2, ShopFields, DaysInOrder
<1>8. acct.wheel.day \in Nat
  <2>1. acct.wheel.day \in Days BY ShopFields DEF ShopAccount
  <2> QED BY <2>1 DEF Days
<1>9. acct.wheel.day <= day(shopTime')
  <2>1. acct.wheel.day <= day(shopTime) BY Zenon DEF ShopInv, WheelCountsDay
  <2> QED BY <1>7, <1>8, <2>1
<1>10. WheelWithinDay' BY <1>1, Zenon DEF ShopInv, WheelWithinDay
<1>11. WheelCountsDay'
  <2>1. /\ acct'.wheel.day <= day(shopTime')
        /\ given'.spins[acct'.wheel.day] = acct'.wheel.count
        /\ acct'.wheel.count <= WheelLimit
        /\ \A d \in Days : d > acct'.wheel.day => given'.spins[d] = 0
    BY <1>1, <1>9, Zenon DEF ShopInv, WheelCountsDay
  <2> QED BY <2>1, Zenon DEF WheelCountsDay
<1> QED BY <1>3, <1>4, <1>6, <1>10, <1>11, PricesStay, BoxesStay, CreditsStay, GrowthStays,
           ChallengeStays, Zenon DEF ShopInv

-----------------------------------------------------------------------------
\* Pieces.

LEMMA PiecePrices == ASSUME NEW n \in Nat PROVE PiecePrice(n) \in Nat
<1> DEFINE I == {i \in 1..Len(PieceTable) : PieceTable[i].until = 0 \/ n < PieceTable[i].until}
           tier == SelectInSeq(PieceTable, LAMBDA row : row.until = 0 \/ n < row.until)
<1>1. /\ PieceTable \in Seq([until: Nat, price: Nat])
      /\ \E i \in DOMAIN PieceTable : PieceTable[i].until = 0
  BY ShopAssumption, Zenon
<1>2. tier = IF I # {} THEN Min(I) ELSE 0 BY Zenon DEF SelectInSeq
<1>3. DOMAIN PieceTable = 1..Len(PieceTable) /\ Len(PieceTable) \in Nat
  BY <1>1, LenProperties
<1>4. I # {} BY <1>1, <1>3
<1>5. Min(I) \in I
  <2>1. I \subseteq Nat OBVIOUS
  <2> HIDE DEF I
  <2> QED BY <1>4, <2>1, MinIsLeast
<1>6. tier \in 1..Len(PieceTable)
  <2> HIDE DEF tier
  <2> QED BY <1>2, <1>4, <1>5
<1>7. PiecePrice(n) = PieceTable[tier].price BY Zenon DEF PiecePrice
<1> HIDE DEF tier
<1>8. PieceTable[tier] \in [until: Nat, price: Nat] BY <1>1, <1>6, ElementOfSeq
<1> QED BY <1>7, <1>8

\* The first pieces and the ones after them are all pieces.
LEMMA PiecesAdd ==
    ASSUME NEW m \in Nat, NEW n \in Nat
    PROVE  /\ PiecesUpTo(m) \in Int
           /\ SumFunction([i \in 1..n |-> PiecePrice(m + i - 1)]) \in Nat
           /\ PiecesUpTo(m + n)
                = PiecesUpTo(m) + SumFunction([i \in 1..n |-> PiecePrice(m + i - 1)])
<1> DEFINE f == [i \in Nat \ {0} |-> PiecePrice(i - 1)]
           g == [i \in 1..n |-> PiecePrice(m + i - 1)]
<1>1. \A i \in Nat \ {0} : f[i] \in Nat
  <2> SUFFICES ASSUME NEW i \in Nat \ {0} PROVE PiecePrice(i - 1) \in Nat OBVIOUS
  <2>1. i - 1 \in Nat OBVIOUS
  <2> QED BY <2>1, PiecePrices
<1>2. \A i \in 1..n : f[m + i] = PiecePrice(m + i - 1)
  <2>1. \A i \in 1..n : m + i \in Nat \ {0} /\ (m + i) - 1 = m + i - 1 OBVIOUS
  <2> QED BY <2>1
<1>3. [i \in 1..n |-> f[m + i]] = g BY <1>2, Zenon
<1>4. ASSUME NEW k \in Nat PROVE PiecesUpTo(k) = SumFunction([i \in 1..k |-> f[i]])
  <2>1. \A i \in 1..k : f[i] = PiecePrice(i - 1) OBVIOUS
  <2> HIDE DEF f
  <2>2. [i \in 1..k |-> f[i]] = [i \in 1..k |-> PiecePrice(i - 1)] BY <2>1, Zenon
  <2> QED BY <2>2, Zenon DEF PiecesUpTo
<1> HIDE DEF f
<1>5. /\ SumFunction([i \in 1..m |-> f[i]]) \in Int
      /\ SumFunction([i \in 1..n |-> f[m + i]]) \in Nat
      /\ SumFunction([i \in 1..(m + n) |-> f[i]])
           = SumFunction([i \in 1..m |-> f[i]]) + SumFunction([i \in 1..n |-> f[m + i]])
  BY <1>1, SumOfNext
<1>6. m + n \in Nat OBVIOUS
<1> QED BY <1>3, <1>4, <1>5, <1>6 DEF g

LEMMA PiecesKeep == ASSUME ShopInv, NEW n \in Quantities, piece_exchange(n) PROVE ShopInv'
<1> DEFINE price == SumFunction([i \in 1..n |-> PiecePrice(acct.pieces + i - 1)])
           tokens == acct.tokens - price
           pieces == acct.pieces + n
           total == given.pieces + price
           a == [acct EXCEPT !.tokens = tokens, !.pieces = pieces]
           g == [given EXCEPT !.pieces = total]
<1>1. Request(a, g) /\ acct.tokens >= price BY Zenon DEF piece_exchange
<1>2. acct \in ShopAccount /\ given \in ShopGiven BY ShopFields
<1>3. acct.tokens \in Nat /\ acct.pieces \in Nat /\ given.pieces \in Nat
  BY <1>2 DEF ShopAccount, ShopGiven
<1>4. n \in Nat BY ShopAssumption, Zenon
<1>5. /\ price \in Nat /\ PiecesUpTo(acct.pieces) \in Int
      /\ PiecesUpTo(acct.pieces + n) = PiecesUpTo(acct.pieces) + price
  BY <1>3, <1>4, PiecesAdd
<1> HIDE DEF price
<1>6. tokens \in Nat /\ pieces \in Nat /\ total \in Nat BY <1>1, <1>3, <1>4, <1>5
<1>7. total = PiecesUpTo(pieces)
  <2>1. given.pieces = PiecesUpTo(acct.pieces) BY Zenon DEF ShopInv, PricedByCount
  <2> QED BY <1>3, <1>5, <2>1
<1> HIDE DEF tokens, pieces, total
<1>8. /\ a \in ShopAccount /\ a.counts = acct.counts /\ a.pieces = pieces
      /\ a.box = acct.box /\ a.wheel = acct.wheel /\ a.sessions = acct.sessions
      /\ a.pass = acct.pass /\ a.growth = acct.growth /\ a.challenge = acct.challenge
  BY <1>2, <1>6 DEF ShopAccount
<1>9. /\ g \in ShopGiven /\ g.spent = given.spent /\ g.pieces = total
      /\ g.credits = given.credits /\ g.won = given.won /\ g.pass = given.pass
      /\ g.free = given.free /\ g.premium = given.premium /\ g.spins = given.spins
      /\ g.challenge = given.challenge
  BY <1>2, <1>6 DEF ShopGiven
<1> HIDE DEF a, g
<1>10. ShopTypeOK' /\ acct' = a /\ given' = g /\ shopTime' = shopTime
  BY <1>1, <1>8, <1>9, ShopFields, RequestTypes
<1>11. SameCredits /\ SameBoxes /\ SameWheel /\ SamePass /\ SameGrowth /\ SameChallenge
  BY <1>8, <1>9, <1>10, Zenon
     DEF SameCredits, SameBoxes, SameWheel, SamePass, SameGrowth, SameChallenge
<1>12. PricedByCount'
  <2>1. /\ \A p \in Products :
              given.spent[p] = IF IsStoreProduct(p) THEN 0 ELSE PricesUpTo(p, acct.counts[p])
        /\ acct'.counts = acct.counts /\ given'.spent = given.spent
        /\ given'.pieces = PiecesUpTo(acct'.pieces)
    BY <1>7, <1>8, <1>9, <1>10, Zenon DEF ShopInv, PricedByCount
  <2>2. \A p \in Products :
            given'.spent[p] = IF IsStoreProduct(p) THEN 0 ELSE PricesUpTo(p, acct'.counts[p])
    BY <2>1, Zenon
  <2> QED BY <2>1, <2>2, Zenon DEF PricedByCount
<1> QED BY <1>10, <1>11, <1>12, CreditsStay, BoxesStay, WheelStays, PassStays, GrowthStays,
           ChallengeStays, Zenon DEF ShopInv

-----------------------------------------------------------------------------
\* Products that are not sold in the store.

LEMMA CountsMove ==
    ASSUME CreditedOnce, acct'.sessions = acct.sessions, given'.credits = given.credits,
           \A p \in Products : \/ acct'.counts[p] = acct.counts[p]
                               \/ ~IsStoreProduct(p) /\ WithinLimit(p, acct'.counts[p])
    PROVE  CreditedOnce'
<1>1. \A s \in 1..MaxSessions :
          given'.credits[s] = IF s \in DOMAIN acct'.sessions /\ acct'.sessions[s].verified
                              THEN 1 ELSE 0
  BY DEF CreditedOnce
<1>2. ASSUME NEW p \in Products
      PROVE  /\ WithinLimit(p, acct'.counts[p])
             /\ IsStoreProduct(p) =>
                  acct'.counts[p] = Cardinality({s \in DOMAIN acct'.sessions :
                       acct'.sessions[s].product = p /\ acct'.sessions[s].verified})
  <2>1. /\ WithinLimit(p, acct.counts[p])
        /\ IsStoreProduct(p) =>
             acct.counts[p] = Cardinality({s \in DOMAIN acct.sessions :
                  acct.sessions[s].product = p /\ acct.sessions[s].verified})
    BY Zenon DEF CreditedOnce
  <2> QED BY <2>1, Zenon
<1> QED BY <1>1, <1>2, Zenon DEF CreditedOnce

\* A product is bought from an account that agrees with the present one in all
\* that is counted, and the lineup counts it or not.
LEMMA BuyKeeps ==
    ASSUME ShopInv, NEW p \in Products, NEW q \in Nat, NEW b \in ShopAccount,
           b.gems = acct.gems, b.counts = acct.counts, b.pieces = acct.pieces,
           b.box = acct.box, b.wheel = acct.wheel, b.sessions = acct.sessions,
           b.pass = acct.pass, b.growth = acct.growth, b.challenge = acct.challenge,
           CanBuy(b, p, q), NEW a,
           LET after == Bought(b, p, q).acct IN
             \/ a = after
             \/ a = [after EXCEPT !.random.purchased[p] = @ + q],
           Request(a, Paid(b, Bought(b, p, q).acct, p))
    PROVE  ShopInv'
<1>1. PICK r \in UnitState :
        /\ Bought(b, p, q) = [ok |-> r.ok,
               acct |-> [b EXCEPT !.gems = r.gems, !.tokens = r.tokens, !.counts[p] = @ + q]]
        /\ r.gems = b.gems - (PricesUpTo(p, b.counts[p] + q) - PricesUpTo(p, b.counts[p]))
        /\ r.ok => r.gems >= 0
  BY UnitsBought
<1> DEFINE c == acct.counts[p] + q
           counts == [acct.counts EXCEPT ![p] = c]
           after == [b EXCEPT !.gems = r.gems, !.tokens = r.tokens, !.counts = counts]
           total == given.spent[p] + b.gems - r.gems
           spent == [given.spent EXCEPT ![p] = total]
           g == [given EXCEPT !.spent = spent]
<1>2. /\ ~IsStoreProduct(p) /\ WithinLimit(p, b.counts[p] + q) /\ Bought(b, p, q).ok
  BY Zenon DEF CanBuy
<1>3. r.ok /\ r.gems >= 0 BY <1>1, <1>2
<1>4. acct \in ShopAccount /\ given \in ShopGiven BY ShopFields
<1>5. /\ acct.counts \in [Products -> Nat] /\ acct.gems \in Nat /\ given.spent \in [Products -> Nat]
      /\ b.random \in [lineup: Seq(Products), refresh_at: Nat, refreshes: Nat,
                       purchased: [Products -> Nat]]
  BY <1>4 DEF ShopAccount, ShopGiven
<1>6. r.gems \in Nat /\ r.tokens \in Nat BY <1>3 DEF UnitState
<1>7. acct.counts[p] \in Nat /\ c \in Nat /\ given.spent[p] \in Nat BY <1>5
<1>8. counts \in [Products -> Nat] /\ counts[p] = c
      /\ \A x \in Products : x # p => counts[x] = acct.counts[x]
  <2> HIDE DEF c
  <2> QED BY <1>5, <1>7
<1>9. Bought(b, p, q).acct = after
  <2>1. Bought(b, p, q).acct
          = [b EXCEPT !.gems = r.gems, !.tokens = r.tokens, !.counts[p] = @ + q]
    BY <1>1
  <2>2. [b EXCEPT !.gems = r.gems, !.tokens = r.tokens, !.counts[p] = @ + q] = after
    BY DEF ShopAccount
  <2> QED BY <2>1, <2>2, Zenon
<1> HIDE DEF counts
<1>10. /\ after \in ShopAccount /\ after.counts = counts /\ after.pieces = acct.pieces
       /\ after.box = acct.box /\ after.wheel = acct.wheel /\ after.sessions = acct.sessions
       /\ after.pass = acct.pass /\ after.growth = acct.growth
       /\ after.challenge = acct.challenge /\ after.gems = r.gems
       /\ after.random = b.random
  BY <1>6, <1>8 DEF ShopAccount
<1> HIDE DEF after
<1>11. /\ a \in ShopAccount /\ a.counts = counts /\ a.pieces = acct.pieces
       /\ a.box = acct.box /\ a.wheel = acct.wheel /\ a.sessions = acct.sessions
       /\ a.pass = acct.pass /\ a.growth = acct.growth /\ a.challenge = acct.challenge
  <2>1. CASE a = after BY <1>10, <2>1
  <2>2. CASE a = [after EXCEPT !.random.purchased[p] = @ + q]
    <3> DEFINE bought == [b.random.purchased EXCEPT ![p] = @ + q]
               random == [b.random EXCEPT !.purchased = bought]
    <3>1. b.random.purchased \in [Products -> Nat] BY <1>5
    <3>1a. bought \in [Products -> Nat] BY <3>1
    <3>2. a = [after EXCEPT !.random = random] BY <1>5, <1>10, <2>2 DEF ShopAccount
    <3> HIDE DEF bought
    <3>3. random \in [lineup: Seq(Products), refresh_at: Nat, refreshes: Nat,
                      purchased: [Products -> Nat]]
      BY <1>5, <3>1a
    <3> HIDE DEF random
    <3> QED BY <1>10, <3>2, <3>3 DEF ShopAccount
  <2> QED BY <1>9, <2>1, <2>2
<1>12. /\ PricesUpTo(p, acct.counts[p]) \in Nat /\ PricesUpTo(p, c) \in Nat
       /\ given.spent[p] = PricesUpTo(p, acct.counts[p])
  <2>1. given.spent[p] = PricesUpTo(p, acct.counts[p])
    BY <1>2, Zenon DEF ShopInv, PricedByCount
  <2> HIDE DEF c
  <2> QED BY <1>7, <2>1, PricesAreNumbers
<1>13. total = PricesUpTo(p, c)
  <2>1. r.gems = acct.gems - (PricesUpTo(p, c) - PricesUpTo(p, acct.counts[p])) BY <1>1
  <2> HIDE DEF c
  <2> QED BY <1>5, <1>6, <1>12, <2>1
<1>14. Paid(b, Bought(b, p, q).acct, p) = g
  <2>1. Paid(b, after, p) = [given EXCEPT !.spent[p] = @ + b.gems - r.gems]
    BY <1>10, Zenon DEF Paid
  <2>2. [given EXCEPT !.spent[p] = @ + b.gems - r.gems] = g BY <1>4 DEF ShopGiven
  <2> QED BY <1>9, <2>1, <2>2
<1> HIDE DEF total, c
<1>15. /\ spent \in [Products -> Nat] /\ spent[p] = total
       /\ \A x \in Products : x # p => spent[x] = given.spent[x]
  BY <1>5, <1>12, <1>13
<1> HIDE DEF spent
<1>16. /\ g \in ShopGiven /\ g.spent = spent /\ g.pieces = given.pieces
       /\ g.credits = given.credits /\ g.won = given.won /\ g.pass = given.pass
       /\ g.free = given.free /\ g.premium = given.premium /\ g.spins = given.spins
       /\ g.challenge = given.challenge
  BY <1>4, <1>15 DEF ShopGiven
<1> HIDE DEF g
<1>17. Request(a, g) BY <1>14
<1>18. ShopTypeOK' /\ acct' = a /\ given' = g /\ shopTime' = shopTime
  BY <1>11, <1>16, <1>17, ShopFields, RequestTypes
<1>19. SameBoxes /\ SameWheel /\ SamePass /\ SameGrowth /\ SameChallenge
  BY <1>11, <1>16, <1>18, Zenon
     DEF SameBoxes, SameWheel, SamePass, SameGrowth, SameChallenge
<1>20. acct'.counts = counts /\ given'.spent = spent BY <1>11, <1>16, <1>18, Zenon
<1>21. CreditedOnce'
  <2>1. WithinLimit(p, acct'.counts[p]) BY <1>2, <1>8, <1>20 DEF c
  <2>2. \A x \in Products : \/ acct'.counts[x] = acct.counts[x]
                            \/ ~IsStoreProduct(x) /\ WithinLimit(x, acct'.counts[x])
    BY <1>2, <1>8, <1>20, <2>1, Zenon
  <2>3. CreditedOnce /\ acct'.sessions = acct.sessions /\ given'.credits = given.credits
    BY <1>11, <1>16, <1>18, Zenon DEF ShopInv
  <2> QED BY <2>2, <2>3, CountsMove
<1>22. PricedByCount'
  <2>1. ASSUME NEW x \in Products
        PROVE given'.spent[x] = IF IsStoreProduct(x) THEN 0 ELSE PricesUpTo(x, acct'.counts[x])
    <3>1. CASE x = p BY <1>2, <1>8, <1>13, <1>15, <1>20, <3>1
    <3>2. CASE x # p
      <4>1. given.spent[x] = IF IsStoreProduct(x) THEN 0 ELSE PricesUpTo(x, acct.counts[x])
        BY Zenon DEF ShopInv, PricedByCount
      <4>2. given'.spent[x] = given.spent[x] /\ acct'.counts[x] = acct.counts[x]
        BY <1>8, <1>15, <1>20, <3>2, Zenon
      <4> QED BY <4>1, <4>2, Zenon
    <3> QED BY <3>1, <3>2
  <2>2. given'.pieces = PiecesUpTo(acct'.pieces)
    BY <1>11, <1>16, <1>18, Zenon DEF ShopInv, PricedByCount
  <2> QED BY <2>1, <2>2, Zenon DEF PricedByCount
<1> QED BY <1>18, <1>19, <1>21, <1>22, BoxesStay, WheelStays, PassStays, GrowthStays,
           ChallengeStays, Zenon DEF ShopInv

LEMMA PurchaseKeeps ==
    ASSUME ShopInv, NEW p \in Products, NEW q \in Quantities, purchase(p, q)
    PROVE  ShopInv'
<1> DEFINE a == Bought(acct, p, q).acct
<1>1. CanBuy(acct, p, q) /\ Request(a, Paid(acct, a, p)) BY Zenon DEF purchase
<1>2. q \in Nat BY ShopAssumption, Zenon
<1>3. acct \in ShopAccount BY ShopFields
<1> QED BY <1>1, <1>2, <1>3, BuyKeeps, Zenon

LEMMA LineupPurchaseKeeps ==
    ASSUME ShopInv, NEW p \in Products, NEW q \in Quantities, random_shop_purchase(p, q)
    PROVE  ShopInv'
<1> DEFINE after == Bought(Current, p, q).acct
           a == [after EXCEPT !.random.purchased[p] = @ + q]
<1>1. CanBuy(Current, p, q) /\ Request(a, Paid(Current, after, p))
  BY Zenon DEF random_shop_purchase
<1>2. q \in Nat BY ShopAssumption, Zenon
<1> QED BY <1>1, <1>2, CurrentIs, BuyKeeps, Zenon

-----------------------------------------------------------------------------
\* Purchase sessions.

\* Sessions whose verified ones are the same.
LEMMA SessionsMove ==
    ASSUME CreditedOnce, acct'.counts = acct.counts, given'.credits = given.credits,
           \A s : /\ (s \in DOMAIN acct'.sessions /\ acct'.sessions[s].verified)
                       <=> (s \in DOMAIN acct.sessions /\ acct.sessions[s].verified)
                  /\ s \in DOMAIN acct.sessions =>
                       acct'.sessions[s].product = acct.sessions[s].product
    PROVE  CreditedOnce'
<1>1. \A s \in 1..MaxSessions :
          given'.credits[s] = IF s \in DOMAIN acct'.sessions /\ acct'.sessions[s].verified
                              THEN 1 ELSE 0
  BY DEF CreditedOnce
<1>2. ASSUME NEW p \in Products
      PROVE  /\ WithinLimit(p, acct'.counts[p])
             /\ IsStoreProduct(p) =>
                  acct'.counts[p] = Cardinality({s \in DOMAIN acct'.sessions :
                       acct'.sessions[s].product = p /\ acct'.sessions[s].verified})
  <2>1. /\ WithinLimit(p, acct.counts[p])
        /\ IsStoreProduct(p) =>
             acct.counts[p] = Cardinality({s \in DOMAIN acct.sessions :
                  acct.sessions[s].product = p /\ acct.sessions[s].verified})
    BY Zenon DEF CreditedOnce
  <2>2. {s \in DOMAIN acct.sessions : acct.sessions[s].product = p /\ acct.sessions[s].verified}
          = {s \in DOMAIN acct'.sessions :
               acct'.sessions[s].product = p /\ acct'.sessions[s].verified}
    OBVIOUS
  <2> QED BY <2>1, <2>2, Zenon
<1> QED BY <1>1, <1>2, Zenon DEF CreditedOnce

\* A request that changes sessions but verifies none.
LEMMA SessionsKeep ==
    ASSUME ShopInv, NEW entries \in Seq(ShopSession), Len(entries) <= MaxSessions,
           Request([acct EXCEPT !.sessions = entries], given),
           \A s : /\ (s \in DOMAIN entries /\ entries[s].verified)
                       <=> (s \in DOMAIN acct.sessions /\ acct.sessions[s].verified)
                  /\ s \in DOMAIN acct.sessions =>
                       entries[s].product = acct.sessions[s].product
    PROVE  ShopInv'
<1> DEFINE a == [acct EXCEPT !.sessions = entries]
<1>1. acct \in ShopAccount /\ given \in ShopGiven BY ShopFields
<1>2. /\ a \in ShopAccount /\ a.counts = acct.counts /\ a.pieces = acct.pieces
      /\ a.box = acct.box /\ a.wheel = acct.wheel /\ a.sessions = entries
      /\ a.pass = acct.pass /\ a.growth = acct.growth /\ a.challenge = acct.challenge
  BY <1>1 DEF ShopAccount
<1> HIDE DEF a
<1>3. Request(a, given) BY Zenon DEF a
<1>4. ShopTypeOK' /\ acct' = a /\ given' = given /\ shopTime' = shopTime
  BY <1>1, <1>2, <1>3, ShopFields, RequestTypes
<1>5. SamePrices /\ SameBoxes /\ SameWheel /\ SamePass /\ SameGrowth /\ SameChallenge
  BY <1>2, <1>4, Zenon
     DEF SamePrices, SameBoxes, SameWheel, SamePass, SameGrowth, SameChallenge
<1>6. CreditedOnce'
  <2>1. CreditedOnce /\ acct'.sessions = entries /\ acct'.counts = acct.counts
        /\ given'.credits = given.credits
    BY <1>2, <1>4, Zenon DEF ShopInv
  <2> QED BY <2>1, SessionsMove
<1> QED BY <1>4, <1>5, <1>6, PricesStay, BoxesStay, WheelStays, PassStays, GrowthStays,
           ChallengeStays, Zenon DEF ShopInv

LEMMA StartKeeps == ASSUME ShopInv, NEW p \in Products, session_start(p) PROVE ShopInv'
<1> DEFINE old == acct.sessions
           n == Len(old) + 1
           new == [product |-> p, transaction |-> n, verified |-> FALSE]
           entries == Append(old, new)
<1>1. Len(old) < MaxSessions /\ Request([acct EXCEPT !.sessions = entries], given)
  <2>1. Request([acct EXCEPT !.sessions = Append(@, [product |-> p,
                   transaction |-> Len(acct.sessions) + 1, verified |-> FALSE])], given)
        /\ Len(acct.sessions) < MaxSessions
    BY Zenon DEF session_start
  <2> QED BY <2>1, Zenon
<1>2. old \in Seq(ShopSession) BY ShopFields DEF ShopAccount
<1> HIDE DEF old
<1>3. Len(old) \in Nat /\ DOMAIN old = 1..Len(old) BY <1>2, LenProperties
<1>4. n \in 1..MaxSessions BY <1>1, <1>3, ShopConstants
<1>5. new \in ShopSession BY <1>4 DEF ShopSession, Transactions
<1> HIDE DEF new
<1>6. /\ entries \in Seq(ShopSession) /\ Len(entries) = n
      /\ DOMAIN entries = 1..n
      /\ \A s \in 1..Len(old) : entries[s] = old[s]
      /\ entries[n] = new
  BY <1>2, <1>3, <1>5
<1> HIDE DEF entries
<1>7. new.verified = FALSE BY DEF new
<1>8. \A s : /\ (s \in DOMAIN entries /\ entries[s].verified)
                  <=> (s \in DOMAIN old /\ old[s].verified)
             /\ s \in DOMAIN old => entries[s].product = old[s].product
  <2> SUFFICES ASSUME NEW s
               PROVE  /\ (s \in DOMAIN entries /\ entries[s].verified)
                           <=> (s \in DOMAIN old /\ old[s].verified)
                      /\ s \in DOMAIN old => entries[s].product = old[s].product
    OBVIOUS
  <2>1. s \in 1..n <=> s \in 1..Len(old) \/ s = n BY <1>3
  <2>2. n \notin 1..Len(old) BY <1>3
  <2>3. CASE s \in 1..Len(old) BY <1>3, <1>6, <2>1, <2>3, Zenon
  <2>4. CASE s = n BY <1>3, <1>6, <1>7, <2>2, <2>4, Zenon
  <2> QED BY <1>3, <1>6, <2>1, <2>3, <2>4
<1>9. Len(entries) <= MaxSessions BY <1>4, <1>6, ShopConstants
<1> QED BY <1>1, <1>6, <1>8, <1>9, SessionsKeep DEF old

LEMMA PublishKeeps ==
    ASSUME ShopInv, NEW s \in 1..MaxSessions, NEW t \in Transactions \union {NoTransaction},
           session_publish(s, t)
    PROVE  ShopInv'
<1> DEFINE old == acct.sessions
           entries == [old EXCEPT ![s] = [@ EXCEPT !.transaction = t]]
<1>1. s \in DOMAIN old /\ Request([acct EXCEPT !.sessions[s].transaction = t], given)
  BY Zenon DEF session_publish
<1>2. old \in Seq(ShopSession) /\ Len(old) <= MaxSessions BY ShopFields DEF ShopAccount
<1>3. [acct EXCEPT !.sessions[s].transaction = t] = [acct EXCEPT !.sessions = entries]
  BY <1>1, <1>2, ShopFields DEF ShopAccount
<1> HIDE DEF old
<1>4. old[s] \in ShopSession
  <2>1. DOMAIN old = 1..Len(old) BY <1>2, LenProperties
  <2> QED BY <1>1, <1>2, <2>1, ElementOfSeq
<1> DEFINE new == [old[s] EXCEPT !.transaction = t]
<1>5. new \in ShopSession /\ new.product = old[s].product /\ new.verified = old[s].verified
  BY <1>4 DEF ShopSession
<1>6. entries = [old EXCEPT ![s] = new] OBVIOUS
<1> HIDE DEF new
<1>7. entries \in Seq(ShopSession) /\ Len(entries) = Len(old)
      /\ DOMAIN entries = DOMAIN old
      /\ \A i \in DOMAIN old : entries[i] = IF i = s THEN new ELSE old[i]
  BY <1>1, <1>2, <1>5, <1>6
<1> HIDE DEF entries
<1>8. \A i : /\ (i \in DOMAIN entries /\ entries[i].verified)
                  <=> (i \in DOMAIN old /\ old[i].verified)
             /\ i \in DOMAIN old => entries[i].product = old[i].product
  BY <1>5, <1>7
<1>9. Request([acct EXCEPT !.sessions = entries], given) BY <1>1, <1>3, Zenon
<1> QED BY <1>2, <1>7, <1>8, <1>9, SessionsKeep DEF old

\* A step with a price in the store makes its product one of the store.
LEMMA SoldInStore ==
    ASSUME NEW p \in Products, NEW n \in Nat, StepAt(p, n).store > 0
    PROVE  IsStoreProduct(p)
<1> DEFINE steps == purchase_steps(p)
           i == Min({n + 1, Len(steps)})
<1>1. steps \in Seq(PurchaseStep) /\ steps # <<>> BY ShopAssumption, Zenon DEF purchase_steps
<1> HIDE DEF steps
<1>2. Len(steps) \in Nat /\ Len(steps) # 0 BY <1>1, LenProperties, EmptySeq
<1>3. i \in {n + 1, Len(steps)} /\ \A y \in {n + 1, Len(steps)} : i <= y
  <2> DEFINE S == {n + 1, Len(steps)}
  <2>1. S \subseteq Nat /\ S # {} BY <1>2
  <2> HIDE DEF S
  <2>2. Min(S) \in S /\ \A y \in S : Min(S) <= y BY <2>1, MinIsLeast
  <2> QED BY <2>2 DEF S
<1> HIDE DEF i
<1>4. i \in DOMAIN steps
  <2>1. i \in 1..Len(steps) BY <1>2, <1>3
  <2>2. DOMAIN steps = 1..Len(steps) BY <1>1, LenProperties
  <2> QED BY <2>1, <2>2
<1>5. steps[i].store > 0 BY Zenon DEF StepAt, i, steps
<1> QED BY <1>4, <1>5, Zenon DEF IsStoreProduct, steps

\* A verified session is counted once more, for its product and for itself.
LEMMA OneMoreVerified ==
    ASSUME CreditedOnce, NEW s \in 1..MaxSessions, s \in DOMAIN acct.sessions,
           ~acct.sessions[s].verified, NEW p \in Products, p = acct.sessions[s].product,
           IsFiniteSet(DOMAIN acct.sessions), DOMAIN acct'.sessions = DOMAIN acct.sessions,
           acct'.sessions[s].product = p, acct'.sessions[s].verified,
           \A i \in DOMAIN acct.sessions : i # s => acct'.sessions[i] = acct.sessions[i],
           WithinLimit(p, acct'.counts[p]), acct'.counts[p] = acct.counts[p] + 1,
           \A x \in Products : x # p => acct'.counts[x] = acct.counts[x],
           given'.credits[s] = given.credits[s] + 1,
           \A i \in 1..MaxSessions : i # s => given'.credits[i] = given.credits[i]
    PROVE  CreditedOnce'
<1>1. ASSUME NEW i \in 1..MaxSessions
      PROVE  given'.credits[i] = IF i \in DOMAIN acct'.sessions /\ acct'.sessions[i].verified
                                 THEN 1 ELSE 0
  <2>1. given.credits[i] = IF i \in DOMAIN acct.sessions /\ acct.sessions[i].verified
                           THEN 1 ELSE 0
    BY Zenon DEF CreditedOnce
  <2>2. CASE i = s
    <3>1. given.credits[s] = 0 BY <2>1, <2>2
    <3> QED BY <2>2, <3>1
  <2>3. CASE i # s
    <3>1. (i \in DOMAIN acct'.sessions /\ acct'.sessions[i].verified)
            <=> (i \in DOMAIN acct.sessions /\ acct.sessions[i].verified)
      BY <2>3
    <3> QED BY <2>1, <2>3, <3>1
  <2> QED BY <2>2, <2>3
<1>2. ASSUME NEW x \in Products
      PROVE  /\ WithinLimit(x, acct'.counts[x])
             /\ IsStoreProduct(x) =>
                  acct'.counts[x] = Cardinality({i \in DOMAIN acct'.sessions :
                       acct'.sessions[i].product = x /\ acct'.sessions[i].verified})
  <2> DEFINE S == {i \in DOMAIN acct.sessions :
                     acct.sessions[i].product = x /\ acct.sessions[i].verified}
             T == {i \in DOMAIN acct'.sessions :
                     acct'.sessions[i].product = x /\ acct'.sessions[i].verified}
  <2>1. /\ WithinLimit(x, acct.counts[x])
        /\ IsStoreProduct(x) => acct.counts[x] = Cardinality(S)
    BY Zenon DEF CreditedOnce
  <2>2. CASE x # p
    <3>1. T = S BY <2>2
    <3>2. acct'.counts[x] = acct.counts[x] BY <2>2
    <3> HIDE DEF S, T
    <3>3. /\ WithinLimit(x, acct'.counts[x])
          /\ IsStoreProduct(x) => acct'.counts[x] = Cardinality(T)
      BY <2>1, <3>1, <3>2, Zenon
    <3> QED BY <3>3, Zenon DEF T
  <2>3. CASE x = p
    <3>1. T = S \union {s} /\ s \notin S BY <2>3
    <3>2. IsFiniteSet(S)
      <4>1. S \subseteq DOMAIN acct.sessions OBVIOUS
      <4> HIDE DEF S
      <4> QED BY <4>1, FS_Subset
    <3> HIDE DEF S, T
    <3>3. Cardinality(T) = Cardinality(S) + 1 BY <3>1, <3>2, FS_AddElement
    <3>4. /\ WithinLimit(x, acct'.counts[x])
          /\ IsStoreProduct(x) => acct'.counts[x] = Cardinality(T)
      BY <2>1, <2>3, <3>3, Zenon
    <3> QED BY <3>4, Zenon DEF T
  <2> QED BY <2>2, <2>3
<1> QED BY <1>1, <1>2, Zenon DEF CreditedOnce

LEMMA VerifyKeeps ==
    ASSUME ShopInv, NEW s \in 1..MaxSessions, NEW t \in Transactions, verify(s, t)
    PROVE  ShopInv'
<1> DEFINE old == acct.sessions
           p == old[s].product
           step == StepAt(p, acct.counts[p])
           passed == IF step.pass THEN PassBought(acct.pass) ELSE acct.pass
           gems == acct.gems + step.store
           tokens == acct.tokens + step.tokens
           new == [old[s] EXCEPT !.verified = TRUE, !.transaction = t]
           entries == [old EXCEPT ![s] = new]
           counts == [acct.counts EXCEPT ![p] = @ + 1]
           credits == [given.credits EXCEPT ![s] = @ + 1]
           a == [acct EXCEPT !.gems = gems, !.tokens = tokens, !.pass = passed,
                             !.counts = counts, !.sessions = entries]
           g == [given EXCEPT !.credits = credits]
<1>1. /\ s \in DOMAIN old /\ ~old[s].verified /\ step.store > 0
      /\ WithinLimit(p, acct.counts[p] + 1)
      /\ Request(Verified(acct, s, t), Credited(s))
  BY Zenon DEF verify
<1>2. acct \in ShopAccount /\ given \in ShopGiven BY ShopFields
<1>3. /\ old \in Seq(ShopSession) /\ acct.gems \in Nat /\ acct.tokens \in Nat
      /\ acct.counts \in [Products -> Nat] /\ given.credits \in [1..MaxSessions -> Nat]
      /\ acct.pass \in [started: -1..MaxShopTime, expires: Nat,
                        received: SUBSET (1..PassDays)]
  BY <1>2 DEF ShopAccount, ShopGiven
<1>4. Verified(acct, s, t) = a
  <2>1. Verified(acct, s, t)
          = [acct EXCEPT !.gems = @ + step.store, !.tokens = @ + step.tokens,
                 !.pass = passed, !.counts[p] = @ + 1,
                 !.sessions[s] = [@ EXCEPT !.verified = TRUE, !.transaction = t]]
    BY Zenon DEF Verified
  <2> HIDE DEF step, passed, p
  <2>2. [acct EXCEPT !.gems = @ + step.store, !.tokens = @ + step.tokens,
                 !.pass = passed, !.counts[p] = @ + 1,
                 !.sessions[s] = [@ EXCEPT !.verified = TRUE, !.transaction = t]] = a
    BY <1>2 DEF ShopAccount
  <2> QED BY <2>1, <2>2, Zenon
<1>5. Credited(s) = g BY <1>2 DEF Credited, ShopGiven
<1> HIDE DEF a, g, old
<1>6. DOMAIN old = 1..Len(old) /\ Len(old) \in Nat BY <1>3, LenProperties
<1>7. old[s] \in ShopSession BY <1>1, <1>3, <1>6, ElementOfSeq
<1>8. p \in Products /\ new \in ShopSession /\ new.product = p /\ new.verified
  BY <1>7 DEF ShopSession
<1> HIDE DEF p, new
<1>9. acct.counts[p] \in Nat BY <1>3, <1>8
<1>10. step \in PurchaseStep /\ IsStoreProduct(p)
  <2>1. StepAt(p, acct.counts[p]) \in PurchaseStep BY <1>8, <1>9, StepAtIsStep
  <2>2. IsStoreProduct(p) BY <1>1, <1>8, <1>9, SoldInStore
  <2> QED BY <2>1, <2>2
<1> HIDE DEF step
<1>11. gems \in Nat /\ tokens \in Nat
  <2>1. step.store \in Nat /\ step.tokens \in Nat BY <1>10 DEF PurchaseStep
  <2> QED BY <1>3, <2>1
<1>12. /\ counts \in [Products -> Nat] /\ counts[p] = acct.counts[p] + 1
       /\ \A x \in Products : x # p => counts[x] = acct.counts[x]
  BY <1>3, <1>8, <1>9
<1>13. /\ credits \in [1..MaxSessions -> Nat] /\ credits[s] = given.credits[s] + 1
       /\ \A i \in 1..MaxSessions : i # s => credits[i] = given.credits[i]
  <2> DEFINE c == given.credits
  <2>1. c \in [1..MaxSessions -> Nat] BY <1>3
  <2>2. credits = [c EXCEPT ![s] = c[s] + 1] OBVIOUS
  <2> HIDE DEF c, credits
  <2>3. /\ credits \in [1..MaxSessions -> Nat] /\ credits[s] = c[s] + 1
        /\ \A i \in 1..MaxSessions : i # s => credits[i] = c[i]
    BY <2>1, <2>2
  <2> QED BY <2>3 DEF c
<1>14. /\ entries \in Seq(ShopSession) /\ Len(entries) = Len(old)
       /\ DOMAIN entries = DOMAIN old /\ entries[s] = new
       /\ \A i \in DOMAIN old : i # s => entries[i] = old[i]
  BY <1>1, <1>3, <1>8
<1>15. /\ passed \in [started: -1..MaxShopTime, expires: Nat, received: SUBSET (1..PassDays)]
       /\ passed.received = acct.pass.received
       /\ acct.pass.started # -1 => passed.started = acct.pass.started
       /\ passed.started <= shopTime
  <2>1. acct.pass.started <= shopTime BY Zenon DEF ShopInv, PassStarted
  <2>2. CASE ~step.pass BY <1>3, <2>1, <2>2
  <2>3. CASE step.pass
    <3> DEFINE started == IF acct.pass.started = -1 THEN shopTime ELSE acct.pass.started
               later == Max({acct.pass.expires, shopTime})
               length == PassDays * DaySeconds
               expires == later + length
    <3>1. passed = [acct.pass EXCEPT !.started = started, !.expires = expires]
      BY <2>3, Zenon DEF PassBought
    <3>2. shopTime \in Nat /\ shopTime \in 0..MaxShopTime BY ShopFields
    <3>3. started \in -1..MaxShopTime /\ started <= shopTime BY <1>3, <2>1, <3>2
    <3>4. expires \in Nat
      <4>1. acct.pass.expires \in Nat BY <1>3
      <4>2. later \in Nat BY <3>2, <4>1, MaxOfTwo
      <4>3. length \in Nat BY ShopConstants
      <4> HIDE DEF later, length
      <4> QED BY <4>2, <4>3
    <3>5. acct.pass.started # -1 => started = acct.pass.started OBVIOUS
    <3> HIDE DEF started, expires, passed
    <3> QED BY <1>3, <3>1, <3>3, <3>4, <3>5
  <2> QED BY <2>2, <2>3
<1> HIDE DEF gems, tokens, counts, entries, credits, passed
<1>16. /\ a \in ShopAccount /\ a.counts = counts /\ a.pieces = acct.pieces
       /\ a.box = acct.box /\ a.wheel = acct.wheel /\ a.sessions = entries
       /\ a.pass = passed /\ a.growth = acct.growth /\ a.challenge = acct.challenge
  BY <1>2, <1>11, <1>12, <1>14, <1>15 DEF ShopAccount, a
<1>17. /\ g \in ShopGiven /\ g.spent = given.spent /\ g.pieces = given.pieces
       /\ g.credits = credits /\ g.won = given.won /\ g.pass = given.pass
       /\ g.free = given.free /\ g.premium = given.premium /\ g.spins = given.spins
       /\ g.challenge = given.challenge
  BY <1>2, <1>13 DEF ShopGiven, g
<1>18. Request(a, g) /\ Len(a.sessions) <= MaxSessions
  BY <1>1, <1>4, <1>5, <1>14, <1>16, ShopFields DEF old
<1>19. ShopTypeOK' /\ acct' = a /\ given' = g /\ shopTime' = shopTime
  BY <1>16, <1>17, <1>18, ShopFields, RequestTypes
<1>20. SameBoxes /\ SameWheel /\ SameGrowth /\ SameChallenge
  BY <1>16, <1>17, <1>19, Zenon DEF SameBoxes, SameWheel, SameGrowth, SameChallenge
<1>21. /\ acct'.counts = counts /\ acct'.sessions = entries /\ given'.credits = credits
       /\ given'.spent = given.spent /\ given'.pieces = given.pieces
       /\ acct'.pieces = acct.pieces /\ acct'.pass = passed /\ given'.pass = given.pass
  BY <1>16, <1>17, <1>19, Zenon
<1>22. PassPaysOnce' /\ PassStarted'
  <2>1. shopTime' \in 0..MaxShopTime /\ shopTime <= shopTime'
    <3>1. shopTime \in 0..MaxShopTime /\ shopTime \in Nat BY ShopFields
    <3> QED BY <1>19, <3>1
  <2>2. /\ acct'.pass.received = acct.pass.received
        /\ acct.pass.started # -1 => acct'.pass.started = acct.pass.started
        /\ acct'.pass.started <= shopTime'
    BY <1>15, <1>19, <1>21
  <2> QED BY <1>21, <2>1, <2>2, TimeKeepsPass
<1>23. CreditedOnce'
  <2>1. IsFiniteSet(DOMAIN old)
    <3>1. 1 \in Int /\ Len(old) \in Int BY <1>6
    <3> QED BY <1>6, <3>1, FS_Interval
  <2>2. WithinLimit(p, acct'.counts[p]) BY <1>1, <1>12, <1>21
  <2>3. CreditedOnce BY Zenon DEF ShopInv
  <2>4. p = old[s].product BY DEF p
  <2> QED BY <1>1, <1>8, <1>12, <1>13, <1>14, <1>21, <2>1, <2>2, <2>3, <2>4, OneMoreVerified, Zenon
     DEF old
<1>24. PricedByCount'
  <2>1. ASSUME NEW x \in Products
        PROVE given'.spent[x] = IF IsStoreProduct(x) THEN 0 ELSE PricesUpTo(x, acct'.counts[x])
    <3>1. given.spent[x] = IF IsStoreProduct(x) THEN 0 ELSE PricesUpTo(x, acct.counts[x])
      BY Zenon DEF ShopInv, PricedByCount
    <3>2. CASE x = p BY <1>10, <1>21, <3>1, <3>2, Zenon
    <3>3. CASE x # p BY <1>12, <1>21, <3>1, <3>3, Zenon
    <3> QED BY <3>2, <3>3
  <2>2. given'.pieces = PiecesUpTo(acct'.pieces)
    BY <1>21, Zenon DEF ShopInv, PricedByCount
  <2> QED BY <2>1, <2>2, Zenon DEF PricedByCount
<1> QED BY <1>19, <1>20, <1>22, <1>23, <1>24, BoxesStay, WheelStays, GrowthStays,
           ChallengeStays, Zenon DEF ShopInv

-----------------------------------------------------------------------------
\* Boxes.

BoxState == [number: Nat \ {0}, drawn: [BoxCards -> Nat]]

LEMMA BoxHolds == ASSUME NEW k \in Nat \ {0} PROVE Box(k) \in [BoxCards -> Nat]
<1> DEFINE i == Min({k, Len(Boxes)})
<1>1. Boxes \in Seq([BoxCards -> Nat]) /\ Boxes # <<>> BY ShopAssumption, Zenon
<1>2. Len(Boxes) \in Nat /\ Len(Boxes) # 0 BY <1>1, LenProperties, EmptySeq
<1>3. i \in {k, Len(Boxes)} /\ \A y \in {k, Len(Boxes)} : i <= y
  <2> DEFINE S == {k, Len(Boxes)}
  <2>1. S \subseteq Nat /\ S # {} BY <1>2
  <2> HIDE DEF S
  <2>2. Min(S) \in S /\ \A y \in S : Min(S) <= y BY <2>1, MinIsLeast
  <2> QED BY <2>2 DEF S
<1> HIDE DEF i
<1>4. i \in 1..Len(Boxes) BY <1>2, <1>3
<1>5. Boxes[i] \in [BoxCards -> Nat] BY <1>1, <1>4, ElementOfSeq
<1> QED BY <1>5 DEF Box, i

\* What was won of a card when a box is as given.
WonBy(box, c) == box.drawn[c] + SumFunction([i \in 1..(box.number - 1) |-> Box(i)[c]])

LEMMA WonIsNumber ==
    ASSUME NEW c \in BoxCards, NEW k \in Nat
    PROVE  /\ SumFunction([i \in 1..k |-> Box(i)[c]]) \in Int
           /\ SumFunction([i \in 1..(k + 1) |-> Box(i)[c]])
                = SumFunction([i \in 1..k |-> Box(i)[c]]) + Box(k + 1)[c]
<1> DEFINE f == [i \in 1..(k + 1) |-> Box(i)[c]]
<1>1. \A i \in 1..(k + 1) : f[i] \in Int
  <2> SUFFICES ASSUME NEW i \in 1..(k + 1) PROVE Box(i)[c] \in Int OBVIOUS
  <2>1. i \in Nat \ {0} OBVIOUS
  <2>2. Box(i) \in [BoxCards -> Nat] BY <2>1, BoxHolds
  <2> QED BY <2>2
<1>2. /\ [i \in 1..k |-> f[i]] = [i \in 1..k |-> Box(i)[c]]
      /\ [i \in 1..(k + 1) |-> f[i]] = [i \in 1..(k + 1) |-> Box(i)[c]]
      /\ f[k + 1] = Box(k + 1)[c]
  <2>1. \A i \in 1..k : i \in 1..(k + 1) OBVIOUS
  <2>2. k + 1 \in 1..(k + 1) OBVIOUS
  <2> QED BY <2>1, <2>2, Zenon
<1> HIDE DEF f
<1>3. /\ SumFunction([i \in 1..k |-> f[i]]) \in Int
      /\ SumFunction([i \in 1..(k + 1) |-> f[i]])
           = SumFunction([i \in 1..k |-> f[i]]) + f[k + 1]
  BY <1>1, SumOfFirst
<1> QED BY <1>2, <1>3

\* A card that is drawn is won, whether it empties the box or not.
LEMMA DrawWins ==
    ASSUME NEW box \in BoxState, NEW card \in BoxCards
    PROVE  /\ DrawnFromBox(box, card) \in BoxState
           /\ \A c \in BoxCards :
                /\ WonBy(box, c) \in Int
                /\ WonBy(DrawnFromBox(box, card), c)
                     = WonBy(box, c) + (IF c = card THEN 1 ELSE 0)
<1> DEFINE drawn == [box.drawn EXCEPT ![card] = @ + 1]
           number == box.number
           none == [c \in BoxCards |-> 0]
           next == DrawnFromBox(box, card)
<1>1. box.drawn \in [BoxCards -> Nat] /\ number \in Nat \ {0} BY DEF BoxState
<1>2. /\ drawn \in [BoxCards -> Nat]
      /\ \A c \in BoxCards : drawn[c] = box.drawn[c] + (IF c = card THEN 1 ELSE 0)
  BY <1>1
<1>3. none \in [BoxCards -> Nat] /\ \A c \in BoxCards : none[c] = 0 OBVIOUS
<1>4. next = IF drawn = Box(number) THEN [number |-> number + 1, drawn |-> none]
             ELSE [box EXCEPT !.drawn = drawn]
  BY Zenon DEF DrawnFromBox
<1> HIDE DEF drawn, none, next
<1>5. next \in BoxState /\ next.number = (IF drawn = Box(number) THEN number + 1 ELSE number)
      /\ next.drawn = (IF drawn = Box(number) THEN none ELSE drawn)
  BY <1>1, <1>2, <1>3, <1>4 DEF BoxState
<1>6. ASSUME NEW c \in BoxCards
      PROVE  /\ WonBy(box, c) \in Int
             /\ WonBy(next, c) = WonBy(box, c) + (IF c = card THEN 1 ELSE 0)
  <2> DEFINE k == number - 1
             sum == SumFunction([i \in 1..k |-> Box(i)[c]])
             more == SumFunction([i \in 1..(k + 1) |-> Box(i)[c]])
             one == IF c = card THEN 1 ELSE 0
  <2>1. k \in Nat /\ k + 1 = number /\ (number + 1) - 1 = k + 1 BY <1>1
  <2>2. one \in Nat OBVIOUS
  <2> HIDE DEF k, number
  <2>3. sum \in Int /\ more = sum + Box(number)[c] BY <2>1, WonIsNumber
  <2>4. WonBy(box, c) = box.drawn[c] + sum BY Zenon DEF WonBy, k, number
  <2>5. box.drawn[c] \in Nat /\ drawn[c] = box.drawn[c] + one BY <1>1, <1>2
  <2> HIDE DEF one
  <2>6. WonBy(next, c) = next.drawn[c] + SumFunction([i \in 1..(next.number - 1) |-> Box(i)[c]])
    BY Zenon DEF WonBy
  <2>7. CASE drawn = Box(number)
    <3>1. next.number - 1 = k + 1 /\ next.drawn[c] = 0 BY <1>3, <1>5, <2>1, <2>7
    <3>2. WonBy(next, c) = 0 + more BY <2>6, <3>1, Zenon
    <3>3. Box(number)[c] = box.drawn[c] + one BY <2>5, <2>7
    <3> HIDE DEF sum, more
    <3>4. WonBy(next, c) = (box.drawn[c] + sum) + one BY <2>2, <2>3, <2>5, <3>2, <3>3
    <3> QED BY <2>2, <2>3, <2>4, <2>5, <3>4 DEF one
  <2>8. CASE drawn # Box(number)
    <3>1. next.number - 1 = k /\ next.drawn = drawn BY <1>5, <2>8 DEF k
    <3>2. WonBy(next, c) = drawn[c] + sum BY <2>6, <3>1, Zenon
    <3> HIDE DEF sum, more
    <3>3. WonBy(next, c) = (box.drawn[c] + sum) + one BY <2>2, <2>3, <2>5, <3>2
    <3> QED BY <2>2, <2>3, <2>4, <2>5, <3>3 DEF one
  <2> QED BY <2>7, <2>8
<1> QED BY <1>5, <1>6 DEF next

BoxTable(u, first, cards) ==
    u = [i \in 0..Len(cards) |-> IF i = 0 THEN first ELSE DrawnFromBox(u[i - 1], cards[i])]

LEMMA BoxTableExists ==
    ASSUME NEW first \in BoxState, NEW n \in Nat, NEW cards \in [1..n -> BoxCards]
    PROVE  \E u : BoxTable(u, first, cards)
<1> DEFINE step == [x \in BoxState \X Nat |->
                      IF x[2] \in 1..n THEN DrawnFromBox(x[1], cards[x[2]]) ELSE x[1]]
<1>1. Len(cards) = n BY FunctionIsSeq
<1>2. IsStepOn(step, BoxState)
  <2> SUFFICES ASSUME NEW x \in BoxState \X Nat
               PROVE  (IF x[2] \in 1..n THEN DrawnFromBox(x[1], cards[x[2]]) ELSE x[1])
                        \in BoxState
    BY Zenon DEF IsStepOn
  <2>1. x[1] \in BoxState /\ x[2] \in Nat OBVIOUS
  <2>2. x[2] \in 1..n => cards[x[2]] \in BoxCards OBVIOUS
  <2>3. x[2] \in 1..n => DrawnFromBox(x[1], cards[x[2]]) \in BoxState
    BY <2>1, <2>2, DrawWins
  <2> QED BY <2>1, <2>3, Zenon
<1> HIDE DEF step
<1>3. PICK u : IsIteration(u, step, first, n, BoxState)
  BY <1>2, IterationExists, Zenon
<1>4. /\ u \in [0..n -> BoxState] /\ u[0] = first
      /\ \A i \in 1..n : u[i] = step[<<u[i - 1], i>>]
  BY <1>3, Zenon DEF IsIteration
<1>5. ASSUME NEW i \in 1..n PROVE u[i] = DrawnFromBox(u[i - 1], cards[i])
  <2> DEFINE w == <<u[i - 1], i>>
  <2>1. w \in BoxState \X Nat /\ w[1] = u[i - 1] /\ w[2] = i BY <1>4
  <2>2. u[i] = step[w] BY <1>4
  <2> HIDE DEF w
  <2>3. step[w] = IF w[2] \in 1..n THEN DrawnFromBox(w[1], cards[w[2]]) ELSE w[1]
    BY <2>1, Zenon DEF step
  <2> QED BY <2>1, <2>2, <2>3, Zenon
<1>6. u = [i \in 0..n |-> IF i = 0 THEN first ELSE DrawnFromBox(u[i - 1], cards[i])]
  <2>1. \A i \in 0..n : i = 0 \/ (i \in 1..n /\ i # 0) OBVIOUS
  <2>2. \A i \in 0..n : u[i] = IF i = 0 THEN first ELSE DrawnFromBox(u[i - 1], cards[i])
    BY <1>4, <1>5, <2>1, Zenon
  <2>3. u = [i \in 0..n |-> u[i]] BY <1>4, Zenon
  <2> QED BY <2>2, <2>3, Zenon
<1> QED BY <1>1, <1>6, Zenon DEF BoxTable

\* The draws of a request win the cards that are drawn.
LEMMA DrawsWin ==
    ASSUME NEW first \in BoxState, NEW n \in Nat, NEW cards \in [1..n -> BoxCards], NEW u,
           BoxTable(u, first, cards)
    PROVE  /\ u[n] \in BoxState
           /\ \A c \in BoxCards :
                WonBy(u[n], c) = WonBy(first, c) + Cardinality({i \in 1..n : cards[i] = c})
<1> DEFINE Drawn(i, c) == {j \in 1..i : cards[j] = c}
           Right(i) == /\ u[i] \in BoxState
                       /\ \A c \in BoxCards :
                            WonBy(u[i], c) = WonBy(first, c) + Cardinality(Drawn(i, c))
           C == {i \in 0..n : ~Right(i)}
<1>1. Len(cards) = n BY FunctionIsSeq
<1>2. u[0] = first
  <2>1. 0 \in 0..n OBVIOUS
  <2> QED BY <1>1, <2>1, Zenon DEF BoxTable
<1>3. \A i \in 1..n : u[i] = DrawnFromBox(u[i - 1], cards[i])
  <2>1. \A i \in 1..n : i \in 0..n /\ i # 0 OBVIOUS
  <2> QED BY <1>1, <2>1, Zenon DEF BoxTable
<1>4. \A c \in BoxCards : WonBy(first, c) \in Int
  <2> SUFFICES ASSUME NEW c \in BoxCards PROVE WonBy(first, c) \in Int OBVIOUS
  <2> QED BY DrawWins
<1>5. Right(0)
  <2>1. ASSUME NEW c \in BoxCards
        PROVE  WonBy(u[0], c) = WonBy(first, c) + Cardinality(Drawn(0, c))
    <3>1. Drawn(0, c) = {} OBVIOUS
    <3> HIDE DEF Drawn
    <3>2. Cardinality(Drawn(0, c)) = 0 BY <3>1, FS_EmptySet
    <3> QED BY <1>2, <1>4, <3>2
  <2> QED BY <1>2, <2>1
<1>6. ASSUME C # {} PROVE FALSE
  <2>1. PICK i \in C : \A m \in C : i <= m
    <3>1. C \subseteq Nat OBVIOUS
    <3> HIDE DEF C
    <3> QED BY <1>6, <3>1, LeastNumber
  <2>2. i \in 1..n /\ ~Right(i)
    <3> HIDE DEF Right
    <3> QED BY <1>5
  <2> DEFINE k == i - 1
  <2>3. k \in 0..n /\ i = k + 1 /\ k \in Nat BY <2>2
  <2>4. Right(k)
    <3>1. k \notin C
      <4> HIDE DEF C
      <4> QED BY <2>1, <2>2
    <3> HIDE DEF Right, k
    <3> QED BY <2>3, <3>1
  <2>5. u[i] = DrawnFromBox(u[k], cards[i]) BY <1>3, <2>2
  <2>6. cards[i] \in BoxCards BY <2>2
  <2> HIDE DEF k
  <2>7. u[i] \in BoxState /\ \A c \in BoxCards :
          /\ WonBy(u[k], c) \in Int
          /\ WonBy(u[i], c) = WonBy(u[k], c) + (IF c = cards[i] THEN 1 ELSE 0)
    <3> DEFINE box == u[k]
               card == cards[i]
               next == u[i]
    <3>1. box \in BoxState /\ card \in BoxCards /\ next = DrawnFromBox(box, card)
      BY <2>4, <2>5, <2>6
    <3> HIDE DEF box, card, next
    <3>2. next \in BoxState /\ \A c \in BoxCards :
            /\ WonBy(box, c) \in Int
            /\ WonBy(next, c) = WonBy(box, c) + (IF c = card THEN 1 ELSE 0)
      BY <3>1, DrawWins
    <3> QED BY <3>2 DEF box, card, next
  <2>8. ASSUME NEW c \in BoxCards
        PROVE  WonBy(u[i], c) = WonBy(first, c) + Cardinality(Drawn(i, c))
    <3> DEFINE S == Drawn(k, c)
               T == Drawn(i, c)
    <3>1. IsFiniteSet(S)
      <4>1. 1 \in Int /\ k \in Int BY <2>3
      <4>2. IsFiniteSet(1..k) BY <4>1, FS_Interval, Zenon
      <4>3. S \subseteq 1..k OBVIOUS
      <4> HIDE DEF S
      <4> QED BY <4>2, <4>3, FS_Subset
    <3>2. 1..i = (1..k) \union {i} /\ i \notin 1..k BY <2>3
    <3>3. T = IF cards[i] = c THEN S \union {i} ELSE S BY <3>2
    <3>4. i \notin S BY <3>2
    <3> HIDE DEF S, T
    <3>5. Cardinality(S) \in Nat BY <3>1, FS_CardinalityType
    <3>6. Cardinality(T) = Cardinality(S) + (IF c = cards[i] THEN 1 ELSE 0)
      <4>1. Cardinality(S \union {i}) = Cardinality(S) + 1 BY <3>1, <3>4, FS_AddElement
      <4>2. CASE cards[i] = c BY <3>3, <4>1, <4>2
      <4>3. CASE cards[i] # c BY <3>3, <3>5, <4>3
      <4> QED BY <4>2, <4>3
    <3>7. WonBy(u[k], c) = WonBy(first, c) + Cardinality(S) BY <2>4 DEF S
    <3>8. WonBy(first, c) \in Int BY <1>4
    <3>9. WonBy(u[i], c) = WonBy(u[k], c) + (IF c = cards[i] THEN 1 ELSE 0) BY <2>7
    <3>10. WonBy(u[i], c) = WonBy(first, c) + Cardinality(T)
      BY <3>5, <3>6, <3>7, <3>8, <3>9
    <3> QED BY <3>10 DEF T
  <2>9. Right(i) BY <2>7, <2>8
  <2> QED BY <2>2, <2>9
<1>7. Right(n)
  <2> HIDE DEF Right
  <2> QED BY <1>6
<1> QED BY <1>7

LEMMA BoxGachaKeeps ==
    ASSUME ShopInv, NEW n \in Quantities, NEW cards \in [1..n -> BoxCards], box_gacha(cards)
    PROVE  ShopInv'
<1> DEFINE u == CHOOSE u : BoxTable(u, acct.box, cards)
           price == BoxPrice * Len(cards)
           tokens == acct.tokens - price
           last == u[Len(cards)]
           drawn(c) == Cardinality({i \in DOMAIN cards : cards[i] = c})
           won == [c \in DOMAIN given.won |-> given.won[c] + drawn(c)]
           a == [acct EXCEPT !.tokens = tokens, !.box = last]
           g == [given EXCEPT !.won = won]
<1>1. n \in Nat BY ShopAssumption, Zenon
<1>2. Len(cards) = n /\ DOMAIN cards = 1..n BY <1>1, FunctionIsSeq
<1>3. acct \in ShopAccount /\ given \in ShopGiven BY ShopFields
<1>4. acct.box \in BoxState /\ acct.tokens \in Nat /\ given.won \in [BoxCards -> Nat]
  BY <1>3 DEF ShopAccount, ShopGiven, BoxState
<1>5. acct.tokens >= price
  BY Zenon DEF box_gacha
<1>6. Request([acct EXCEPT !.tokens = @ - price, !.box = last],
              [given EXCEPT !.won = [c \in BoxCards |->
                  @[c] + Cardinality({i \in DOMAIN cards : cards[i] = c})]])
  BY Zenon DEF box_gacha, BoxTable
<1>7. BoxTable(u, acct.box, cards) BY <1>1, <1>4, BoxTableExists, Zenon
<1> HIDE DEF u
<1>8. /\ u[n] \in BoxState
      /\ \A c \in BoxCards :
            WonBy(u[n], c) = WonBy(acct.box, c) + Cardinality({i \in 1..n : cards[i] = c})
  BY <1>1, <1>4, <1>7, DrawsWin
<1>9. /\ last \in BoxState
      /\ \A c \in BoxCards : WonBy(last, c) = WonBy(acct.box, c) + drawn(c)
  BY <1>2, <1>8
<1>10. \A c \in BoxCards : drawn(c) \in Nat
  <2> SUFFICES ASSUME NEW c \in BoxCards PROVE drawn(c) \in Nat OBVIOUS
  <2> DEFINE S == {i \in DOMAIN cards : cards[i] = c}
  <2>1. 1 \in Int /\ n \in Int BY <1>1
  <2>2. IsFiniteSet(DOMAIN cards) BY <1>2, <2>1, FS_Interval
  <2>3. S \subseteq DOMAIN cards OBVIOUS
  <2> HIDE DEF S
  <2>4. Cardinality(S) \in Nat BY <2>2, <2>3, FS_Subset, FS_CardinalityType
  <2> QED BY <2>4 DEF S
<1>11. [given EXCEPT !.won = [c \in BoxCards |->
                  @[c] + Cardinality({i \in DOMAIN cards : cards[i] = c})]] = g
       /\ [acct EXCEPT !.tokens = @ - price, !.box = last] = a
  BY <1>3, <1>4 DEF ShopGiven, ShopAccount
<1>12. Request(a, g) BY <1>6, <1>11, Zenon
<1> HIDE DEF drawn, last
<1>13. won \in [BoxCards -> Nat] /\ \A c \in BoxCards : won[c] = given.won[c] + drawn(c)
  BY <1>4, <1>10
<1> HIDE DEF won
<1>14. price \in Nat BY <1>1, <1>2, ShopConstants
<1> HIDE DEF price
<1>15. tokens \in Nat BY <1>4, <1>5, <1>14
<1> HIDE DEF tokens
<1>16. /\ a \in ShopAccount /\ a.counts = acct.counts /\ a.pieces = acct.pieces
       /\ a.wheel = acct.wheel /\ a.sessions = acct.sessions /\ a.box = last
       /\ a.pass = acct.pass /\ a.growth = acct.growth /\ a.challenge = acct.challenge
  BY <1>3, <1>9, <1>15 DEF ShopAccount, BoxState
<1>17. /\ g \in ShopGiven /\ g.spent = given.spent /\ g.pieces = given.pieces
       /\ g.credits = given.credits /\ g.won = won /\ g.pass = given.pass
       /\ g.free = given.free /\ g.premium = given.premium /\ g.spins = given.spins
       /\ g.challenge = given.challenge
  BY <1>3, <1>13 DEF ShopGiven
<1> HIDE DEF a, g
<1>18. ShopTypeOK' /\ acct' = a /\ given' = g /\ shopTime' = shopTime
  BY <1>12, <1>16, <1>17, ShopFields, RequestTypes
<1>19. SamePrices /\ SameCredits /\ SameWheel /\ SamePass /\ SameGrowth /\ SameChallenge
  BY <1>16, <1>17, <1>18, Zenon
     DEF SamePrices, SameCredits, SameWheel, SamePass, SameGrowth, SameChallenge
<1>20. \A c \in BoxCards : won[c] = WonBy(last, c)
  <2> SUFFICES ASSUME NEW c \in BoxCards PROVE won[c] = WonBy(last, c) OBVIOUS
  <2>1. given.won[c] = WonBy(acct.box, c) BY Zenon DEF ShopInv, BoxesInTurn, WonBy
  <2> QED BY <1>9, <1>13, <2>1
<1>21. BoxesInTurn'
  <2>1. \A c \in BoxCards : given'.won[c] = WonBy(acct'.box, c)
    BY <1>16, <1>17, <1>18, <1>20
  <2> QED BY <2>1, Zenon DEF BoxesInTurn, WonBy
<1> QED BY <1>18, <1>19, <1>21, PricesStay, CreditsStay, WheelStays, PassStays, GrowthStays,
           ChallengeStays, Zenon DEF ShopInv

-----------------------------------------------------------------------------
LEMMA ShopInitInv == ASSUME ShopInit PROVE ShopInv
<1> DEFINE zeros == [p \in Products |-> 0]
           none == [c \in BoxCards |-> 0]
           first == [number |-> 1, drawn |-> none]
           random == [lineup |-> <<>>, refresh_at |-> 0, refreshes |-> 0, purchased |-> zeros]
           pass == [started |-> -1, expires |-> 0, received |-> {}]
           growth == [owned |-> FALSE, points |-> 0, free |-> {}, premium |-> {}]
           wheel0 == [day |-> 0, count |-> 0]
           challenge == [high |-> 0, received |-> 0]
<1>1. /\ acct = [gems |-> InitialGems, tokens |-> InitialTokens, bundles |-> InitialBundles,
               counts |-> zeros, sessions |-> <<>>, first_bonus |-> FALSE, random |-> random,
               pieces |-> 0, box |-> first, pass |-> pass, growth |-> growth,
               offer_until |-> 0, wheel |-> wheel0, challenge |-> challenge]
      /\ given = [spent |-> zeros, pieces |-> 0, credits |-> [s \in 1..MaxSessions |-> 0],
                won |-> none, pass |-> [d \in 1..PassDays |-> 0],
                free |-> [s \in DOMAIN GrowthSteps |-> 0],
                premium |-> [s \in DOMAIN GrowthSteps |-> 0],
                spins |-> [d \in Days |-> 0],
                challenge |-> [r \in ChallengeScores |-> 0]]
      /\ shopTime = 0 /\ requests = 0
  BY Zenon DEF ShopInit
<1>2. 0 \in 0..MaxShopTime /\ 0 \in 0..MaxRequests /\ -1 \in -1..MaxShopTime
  BY ShopConstants
<1>3. 0 \in Days /\ day(0) \in Nat
  <2>1. day(0) = 0
    <3>1. DaySeconds \in Nat \ {0} /\ 0 = 0 * DaySeconds + 0 /\ 0 \in 0..(DaySeconds - 1)
      BY ShopConstants
    <3>2. 0 \div DaySeconds = 0 BY <3>1, DivisionUnique
    <3> QED BY <3>2, Zenon DEF day
  <2> QED BY <1>2, <2>1, DaysInOrder
<1>4. /\ zeros \in [Products -> Nat] /\ first \in BoxState
      /\ random \in [lineup: Seq(Products), refresh_at: Nat, refreshes: Nat,
                     purchased: [Products -> Nat]]
      /\ pass \in [started: -1..MaxShopTime, expires: Nat, received: SUBSET (1..PassDays)]
      /\ growth \in [owned: BOOLEAN, points: Nat, free: SUBSET DOMAIN GrowthSteps,
                     premium: SUBSET DOMAIN GrowthSteps]
      /\ wheel0 \in [day: Days, count: Nat] /\ challenge \in [high: Nat, received: Nat]
      /\ none \in [BoxCards -> Nat]
  BY <1>2, <1>3 DEF BoxState
<1>5. /\ pass.started = -1 /\ pass.received = {} /\ growth.free = {} /\ growth.premium = {}
      /\ wheel0.day = 0 /\ wheel0.count = 0 /\ challenge.received = 0
      /\ first.number = 1 /\ \A c \in BoxCards : first.drawn[c] = 0
      /\ \A p \in Products : zeros[p] = 0
      /\ \A c \in BoxCards : none[c] = 0
  OBVIOUS
<1> HIDE DEF zeros, none, first, random, pass, growth, wheel0, challenge
<1>6. acct \in ShopAccount
  <2>1. acct = [gems |-> InitialGems, tokens |-> InitialTokens, bundles |-> InitialBundles,
               counts |-> zeros, sessions |-> <<>>, first_bonus |-> FALSE, random |-> random,
               pieces |-> 0, box |-> first, pass |-> pass, growth |-> growth,
               offer_until |-> 0, wheel |-> wheel0, challenge |-> challenge]
    BY <1>1
  <2>2. <<>> \in Seq(ShopSession) OBVIOUS
  <2>3. InitialGems \in Nat /\ InitialTokens \in Nat /\ InitialBundles \in Nat
    BY ShopConstants
  <2>4. first \in [number: Nat \ {0}, drawn: [BoxCards -> Nat]] BY <1>4 DEF BoxState
  <2> QED BY <1>4, <2>1, <2>2, <2>3, <2>4 DEF ShopAccount
<1>7. given \in ShopGiven BY <1>1, <1>4 DEF ShopGiven
<1>8. Len(acct.sessions) <= MaxSessions /\ DOMAIN acct.sessions = {}
  <2>1. acct.sessions = <<>> BY <1>1
  <2>2. Len(<<>>) = 0 /\ DOMAIN <<>> = {} OBVIOUS
  <2>3. 0 <= MaxSessions BY ShopConstants
  <2> QED BY <2>1, <2>2, <2>3
<1>9. ShopTypeOK BY <1>1, <1>2, <1>6, <1>7, <1>8, Zenon DEF ShopTypeOK
<1>10. PricedByCount
  <2>1. \A p \in Products : PricesUpTo(p, 0) = 0
    <3> SUFFICES ASSUME NEW p \in Products PROVE PricesUpTo(p, 0) = 0 OBVIOUS
    <3> DEFINE f == [i \in 1..0 |-> StepAt(p, i - 1).price]
    <3>1. f = [i \in 1..0 |-> f[i]] BY Zenon
    <3> HIDE DEF f
    <3>2. SumFunction(f) = 0 BY <3>1, SumOfNone
    <3> QED BY <3>2, Zenon DEF PricesUpTo, f
  <2>2. PiecesUpTo(0) = 0
    <3> DEFINE f == [i \in 1..0 |-> PiecePrice(i - 1)]
    <3>1. f = [i \in 1..0 |-> f[i]] BY Zenon
    <3> HIDE DEF f
    <3>2. SumFunction(f) = 0 BY <3>1, SumOfNone
    <3> QED BY <3>2, Zenon DEF PiecesUpTo, f
  <2>3. /\ \A p \in Products : given.spent[p] = 0 /\ acct.counts[p] = 0
        /\ given.pieces = 0 /\ acct.pieces = 0
    BY <1>1, <1>5
  <2> QED BY <2>1, <2>2, <2>3, Zenon DEF PricedByCount
<1>11. BoxesInTurn
  <2>1. ASSUME NEW c \in BoxCards
        PROVE  given.won[c] = acct.box.drawn[c]
                 + SumFunction([i \in 1..(acct.box.number - 1) |-> Box(i)[c]])
    <3> DEFINE f == [i \in 1..0 |-> Box(i)[c]]
    <3>1. f = [i \in 1..0 |-> f[i]] BY Zenon
    <3> HIDE DEF f
    <3>2. SumFunction(f) = 0 BY <3>1, SumOfNone
    <3>3. acct.box = first /\ given.won[c] = 0 BY <1>1, <1>5
    <3>4. first.number - 1 = 0 /\ first.drawn[c] = 0 BY <1>5
    <3>5. SumFunction([i \in 1..(acct.box.number - 1) |-> Box(i)[c]]) = 0
      BY <3>2, <3>3, <3>4, Zenon DEF f
    <3> QED BY <3>3, <3>4, <3>5
  <2> QED BY <2>1, Zenon DEF BoxesInTurn
<1>12. WheelWithinDay /\ WheelCountsDay
  <2>1. \A d \in Days : given.spins[d] = 0 BY <1>1
  <2>2. acct.wheel.day = 0 /\ acct.wheel.count = 0 BY <1>1, <1>5
  <2>3. 0 <= WheelLimit /\ 0 <= day(shopTime) BY <1>1, <1>3, ShopConstants
  <2> QED BY <1>3, <2>1, <2>2, <2>3 DEF WheelWithinDay, WheelCountsDay
<1>13. CreditedOnce
  <2>1. \A s \in 1..MaxSessions : given.credits[s] = 0 BY <1>1
  <2>2. \A p \in Products : acct.counts[p] = 0 BY <1>1, <1>5
  <2>3. \A p \in Products : WithinLimit(p, 0)
    <3>1. \A p \in Products : ProductOf[p].limit \in Nat BY ShopAssumption, Zenon
    <3> QED BY <3>1 DEF WithinLimit
  <2>4. \A p \in Products : Cardinality({s \in DOMAIN acct.sessions :
               acct.sessions[s].product = p /\ acct.sessions[s].verified}) = 0
    <3>1. \A p \in Products : {s \in DOMAIN acct.sessions :
               acct.sessions[s].product = p /\ acct.sessions[s].verified} = {}
      BY <1>8
    <3> QED BY <3>1, FS_EmptySet, Zenon
  <2>5. \A s \in 1..MaxSessions : s \notin DOMAIN acct.sessions BY <1>8
  <2> QED BY <2>1, <2>2, <2>3, <2>4, <2>5, Zenon DEF CreditedOnce
<1>14. PassPaysOnce /\ PassStarted
  <2>1. \A d \in 1..PassDays : given.pass[d] = 0 BY <1>1
  <2>2. acct.pass.received = {} /\ acct.pass.started <= shopTime BY <1>1, <1>5
  <2> QED BY <2>1, <2>2, Zenon DEF PassPaysOnce, PassStarted
<1>15. GrowthPaysOnce
  <2>1. \A s \in DOMAIN GrowthSteps : given.free[s] = 0 /\ given.premium[s] = 0 BY <1>1
  <2>2. acct.growth.free = {} /\ acct.growth.premium = {} BY <1>1, <1>5
  <2> QED BY <2>1, <2>2, Zenon DEF GrowthPaysOnce
<1>16. ChallengePaysOnce
  <2>1. \A r \in ChallengeScores : given.challenge[r] = 0 /\ ~(r <= 0)
    <3>1. ChallengeScores \subseteq Nat \ {0} BY ShopAssumption, Zenon
    <3> QED BY <1>1, <3>1
  <2>2. acct.challenge.received = 0 BY <1>1, <1>5
  <2> QED BY <2>1, <2>2 DEF ChallengePaysOnce
<1> QED BY <1>9, <1>10, <1>11, <1>12, <1>13, <1>14, <1>15, <1>16 DEF ShopInv

LEMMA ShopNextKeeps == ASSUME ShopInv, ShopNext PROVE ShopInv'
<1>1. CASE \E p \in Products, n \in Quantities : purchase(p, n) BY <1>1, PurchaseKeeps
<1>2. CASE \E n \in Quantities : piece_exchange(n) BY <1>2, PiecesKeep
<1>3. CASE random_shop_list BY <1>3, ListKeeps
<1>4. CASE random_shop_refresh BY <1>4, RefreshKeeps
<1>5. CASE \E p \in Products, n \in Quantities : random_shop_purchase(p, n)
  BY <1>5, LineupPurchaseKeeps
<1>6. CASE \E p \in Products : session_start(p) BY <1>6, StartKeeps
<1>7. CASE \E s \in 1..MaxSessions, t \in Transactions \union {NoTransaction} :
              session_publish(s, t)
  BY <1>7, PublishKeeps
<1>8. CASE \E s \in 1..MaxSessions, t \in Transactions : verify(s, t) BY <1>8, VerifyKeeps
<1>9. CASE receive_first_purchase_bonus BY <1>9, BonusKeeps
<1>10. CASE \E d \in 1..PassDays : daily_pass_receive(d) BY <1>10, PassDayKeeps
<1>11. CASE daily_pass_bulk_receive BY <1>11, PassBulkKeeps
<1>12. CASE growth_pack_purchase BY <1>12, GrowthPurchaseKeeps
<1>13. CASE \E n \in Quantities : growth_pack_point_purchase(n) BY <1>13, PointsKeep
<1>14. CASE \E s \in DOMAIN GrowthSteps, is_premium \in BOOLEAN : growth_receive(s, is_premium)
  BY <1>14, ReceiveKeeps
<1>15. CASE growth_bulk_receive BY <1>15, BulkClaimsKeep
<1>16. CASE special_offer_purchase BY <1>16, OfferKeeps
<1>17. CASE \E n \in BundleTokens : bundle_open(n) BY <1>17, BundleKeeps
<1>18. CASE \E n \in Quantities : \E cards \in [1..n -> BoxCards] : box_gacha(cards)
  BY <1>18, BoxGachaKeeps
<1>19. CASE wheel BY <1>19, WheelKeeps
<1>20. CASE \E r \in ChallengeScores : item_challenge_execute(r) BY <1>20, ChallengeKeeps
<1>21. CASE item_challenge_reward_receive BY <1>21, RewardsKeep
<1>22. CASE ShopTick BY <1>22, ShopTickKeeps
<1> QED BY <1>1, <1>2, <1>3, <1>4, <1>5, <1>6, <1>7, <1>8, <1>9, <1>10, <1>11, <1>12, <1>13,
           <1>14, <1>15, <1>16, <1>17, <1>18, <1>19, <1>20, <1>21, <1>22, Zenon DEF ShopNext

LEMMA ShopStutters == ASSUME ShopInv, UNCHANGED shopVars PROVE ShopInv'
<1>1. acct' = acct /\ shopTime' = shopTime /\ requests' = requests /\ given' = given
  BY Zenon DEF shopVars
<1>2. ShopTypeOK' BY <1>1, Zenon DEF ShopInv, ShopTypeOK
<1>3. /\ SamePrices /\ SameBoxes /\ SameWheel /\ SameCredits /\ SamePass /\ SameGrowth
      /\ SameChallenge
  BY <1>1, Zenon
     DEF SamePrices, SameBoxes, SameWheel, SameCredits, SamePass, SameGrowth, SameChallenge
<1> QED BY <1>2, <1>3, PricesStay, BoxesStay, WheelStays, CreditsStay, PassStays, GrowthStays,
           ChallengeStays, Zenon DEF ShopInv

LEMMA ShopIsSound == ShopSpec => []ShopInv
<1>1. ShopInit => ShopInv BY ShopInitInv
<1>2. ShopInv /\ [ShopNext]_shopVars => ShopInv' BY ShopNextKeeps, ShopStutters
<1> QED BY <1>1, <1>2, PTL DEF ShopSpec

(* What is bought or earned in the shop is given once, however it is       *)
(* claimed: sessions, passes, growth and challenges.                       *)
THEOREM ShopGivesOnce == ShopSpec => []ShopPaysOnce
<1>1. ShopInv => ShopPaysOnce BY Zenon DEF ShopInv, ShopPaysOnce
<1> QED BY <1>1, ShopIsSound, PTL

(* Counts that prices and limits depend on keep step with what was bought, *)
(* drawn and spun.                                                         *)
THEOREM ShopCountsAreKept == ShopSpec => []ShopKeepsCount
<1>1. ShopInv => ShopKeepsCount BY Zenon DEF ShopInv, ShopKeepsCount
<1> QED BY <1>1, ShopIsSound, PTL

-----------------------------------------------------------------------------
(* A run, its battle and the progress the client sees stay together, and   *)
(* every fight and clear is paid for once, for any quests, parties and     *)
(* limits.                                                                 *)

(* What the quests are made of. *)

LEMMA AreaIsOptions ==
    ASSUME NEW q \in Quests, NEW O \in Range(Areas[q])
    PROVE  O \subseteq Option
<1>1. Areas[q] \in Seq(SUBSET Option) BY ExplorationAssumption
<1>2. PICK i \in DOMAIN Areas[q] : O = Areas[q][i] BY DEF Range
<1>3. i \in 1..Len(Areas[q]) BY <1>1, <1>2
<1>4. Areas[q][i] \in SUBSET Option BY <1>1, <1>3, ElementOfSeq
<1> QED BY <1>2, <1>4

LEMMA PointsAreNumbers == Points \subseteq Nat
<1> SUFFICES ASSUME NEW x \in Points PROVE x \in Nat OBVIOUS
<1>1. PICK o \in UNION UNION {Range(Areas[q]) : q \in Quests} : x \in 0..(o.points - 1)
  BY DEF Points
<1>2. PICK q \in Quests : \E O \in Range(Areas[q]) : o \in O BY <1>1
<1>3. o \in Option BY <1>2, AreaIsOptions
<1>4. o.points \in Nat BY <1>3 DEF Option
<1> QED BY <1>1, <1>4

LEMMA StepsAreOptions ==
    ASSUME NEW q \in Quests, NEW steps \in exploration_steps(q)
    PROVE  steps \in Seq(Option)
<1>1. Areas[q] \in Seq(SUBSET Option) BY ExplorationAssumption
<1>2. steps \in [1..Len(Areas[q]) -> UNION Range(Areas[q])] BY DEF exploration_steps
<1>3. UNION Range(Areas[q]) \subseteq Option BY AreaIsOptions
<1>4. Len(Areas[q]) \in Nat BY <1>1, LenProperties
<1>5. steps \in [1..Len(Areas[q]) -> Option] BY <1>2, <1>3
<1> QED BY <1>4, <1>5, FunctionIsSeq

LEMMA PartyHasMembers ==
    ASSUME NEW p \in Parties
    PROVE  /\ p.members \in Seq(Nat)
           /\ p.tools \in Nat
           /\ Len(p.members) \in Nat
           /\ FullHealth(p) \in Seq(0..MaxHp)
           /\ Len(FullHealth(p)) = Len(p.members)
           /\ FullTools(p) \in Seq(0..ToolUses)
<1>1. p.members \in Seq(Nat) /\ p.tools \in Nat
  BY ExplorationAssumption DEF Party
<1>2. Len(p.members) \in Nat BY <1>1, LenProperties
<1>3. MaxHp \in 0..MaxHp /\ ToolUses \in 0..ToolUses BY ExplorationAssumption
<1>4. FullHealth(p) \in [1..Len(p.members) -> 0..MaxHp] BY <1>3 DEF FullHealth
<1>5. FullTools(p) \in [1..p.tools -> 0..ToolUses] BY <1>3 DEF FullTools
<1>6. FullHealth(p) \in Seq(0..MaxHp) BY <1>2, <1>4, FunctionIsSeq
<1>7. FullTools(p) \in Seq(0..ToolUses) BY <1>1, <1>5, FunctionIsSeq
<1>8. Len(FullHealth(p)) = Len(p.members) BY <1>2, <1>4, FunctionIsSeq
<1> QED BY <1>1, <1>2, <1>6, <1>7, <1>8

-----------------------------------------------------------------------------
(* Walking over the steps. *)

\* The talks that come next can be passed over, and only talks are.
LEMMA TalksAreSkipped ==
    ASSUME NEW steps \in Seq(Option), NEW next \in 0..Len(steps),
           NEW n, n = skip_talks(steps, next)
    PROVE  /\ n \in next..Len(steps)
           /\ \A i \in (next + 1)..n : steps[i].kind = Talk
<1> DEFINE L == Len(steps)
           Stops == {m \in next..L : m < L => steps[m + 1].kind # Talk}
           Skips(m) == /\ \A i \in (next + 1)..m : steps[i].kind = Talk
                       /\ m < L => steps[m + 1].kind # Talk
<1>1. L \in Nat /\ next \in Nat /\ next <= L BY LenProperties
<1> HIDE DEF L
<1>2. L \in Stops BY <1>1
<1>3. Stops \subseteq Nat BY <1>1
<1>4. PICK m \in Stops : \A k \in Stops : m <= k
  <2> HIDE DEF Stops
  <2> QED BY <1>2, <1>3, LeastNumber
<1>5. m \in next..L /\ (m < L => steps[m + 1].kind # Talk) BY <1>4
<1>6. ASSUME NEW i \in (next + 1)..m PROVE steps[i].kind = Talk
  <2>1. m \in Nat /\ i \in Nat /\ m <= L BY <1>1, <1>5
  <2>2. i - 1 \in next..L /\ i - 1 < m /\ i - 1 < L /\ (i - 1) + 1 = i BY <1>1, <2>1
  <2>3. i - 1 \notin Stops
    <3> HIDE DEF Stops
    <3> QED BY <1>4, <2>1, <2>2, <1>3
  <2> QED BY <2>2, <2>3
<1>7. Skips(m) BY <1>5, <1>6
<1>8. n = CHOOSE k \in next..L : Skips(k) BY DEF skip_talks, L
<1>9. n \in next..L /\ Skips(n)
  <2> HIDE DEF Skips
  <2> QED BY <1>5, <1>7, <1>8
<1> QED BY <1>9 DEF L

\* The fights among the first n steps.
Fights(steps, n) == {i \in 1..n : steps[i].kind = Battle}

LEMMA FightsAreFinite ==
    ASSUME NEW steps, NEW n \in Nat
    PROVE  IsFiniteSet(Fights(steps, n)) /\ Cardinality(Fights(steps, n)) \in Nat
<1>1. IsFiniteSet(1..n) BY FS_Interval
<1>2. Fights(steps, n) \subseteq 1..n BY DEF Fights
<1>3. IsFiniteSet(Fights(steps, n)) BY <1>1, <1>2, FS_Subset
<1> QED BY <1>3, FS_CardinalityType

\* No fight is passed over with the talks.
LEMMA NoFightIsSkipped ==
    ASSUME NEW steps \in Seq(Option), NEW next \in 0..Len(steps)
    PROVE  Fights(steps, skip_talks(steps, next)) = Fights(steps, next)
<1> DEFINE n == skip_talks(steps, next)
<1>1. n \in next..Len(steps) /\ \A i \in (next + 1)..n : steps[i].kind = Talk
  BY TalksAreSkipped
<1>2. Len(steps) \in Nat /\ next \in Nat BY LenProperties
<1> HIDE DEF n
<1>3. ASSUME NEW i \in 1..n, steps[i].kind = Battle PROVE i \in 1..next
  <2>1. i \notin (next + 1)..n BY <1>1, <1>3 DEF Battle, Talk
  <2> QED BY <1>1, <1>2, <2>1
<1>4. 1..next \subseteq 1..n BY <1>1, <1>2
<1> QED BY <1>3, <1>4 DEF Fights, n

\* A step that is done adds a fight when it is one.
LEMMA FightsGrow ==
    ASSUME NEW steps, NEW n \in Nat
    PROVE  Cardinality(Fights(steps, n + 1)) =
               Cardinality(Fights(steps, n)) + (IF steps[n + 1].kind = Battle THEN 1 ELSE 0)
<1>0. IsFiniteSet(Fights(steps, n)) /\ Cardinality(Fights(steps, n)) \in Nat
  BY FightsAreFinite
<1>1. n + 1 \notin Fights(steps, n) BY DEF Fights
<1>2. 1..(n + 1) = (1..n) \union {n + 1} OBVIOUS
<1>3. CASE steps[n + 1].kind = Battle
  <2>1. Fights(steps, n + 1) = Fights(steps, n) \union {n + 1} BY <1>2, <1>3 DEF Fights
  <2>2. Cardinality(Fights(steps, n) \union {n + 1}) = Cardinality(Fights(steps, n)) + 1
    BY <1>0, <1>1, FS_AddElement
  <2> QED BY <1>3, <2>1, <2>2
<1>4. CASE steps[n + 1].kind # Battle
  <2>1. Fights(steps, n + 1) = Fights(steps, n) BY <1>2, <1>4 DEF Fights
  <2> QED BY <1>0, <1>4, <2>1
<1> QED BY <1>3, <1>4

-----------------------------------------------------------------------------
(* The invariant. *)

\* No run is beyond its last step, and its experience is that of the fights
\* behind it.
WalksAreKept ==
    \A q \in Running : /\ runs[q].next <= Len(runs[q].steps)
                       /\ runs[q].exp = Cardinality(Fights(runs[q].steps, runs[q].next))

\* ProgressShowsTheRun in three parts.
OneOfAClass == \A q, p \in Running : IsStory[q] = IsStory[p] => q = p
ShownIsTheRun == \A q \in Running : shown[IsStory[q]] = Shown(runs[q])
ShownIsNoMore ==
    \A story \in BOOLEAN : (\A q \in Running : IsStory[q] # story) => shown[story] = NoRun

\* ClearsArePaid without sets.
PaidBefore ==
    \A q \in Quests : clears[q] + (IF q \in Running THEN 1 ELSE 0) <= paid[q]

ExplorationInv ==
    /\ ExplorationTypeOK
    /\ WalksAreKept
    /\ PendingIsTheBattle
    /\ OneOfAClass
    /\ ShownIsTheRun
    /\ ShownIsNoMore
    /\ PaidBefore
    /\ RunStaysFinishable

LEMMA ClassesAreBoolean == \A q \in Quests : IsStory[q] \in BOOLEAN
BY ExplorationAssumption

LEMMA ShownParts ==
    ProgressShowsTheRun <=> OneOfAClass /\ ShownIsTheRun /\ ShownIsNoMore
<1> DEFINE class(story) == {q \in Running : IsStory[q] = story}
<1>0. Running \subseteq Quests BY DEF Running
<1>1. ASSUME ProgressShowsTheRun PROVE OneOfAClass /\ ShownIsTheRun /\ ShownIsNoMore
  <2>1. \A story \in BOOLEAN :
            \/ class(story) = {} /\ shown[story] = NoRun
            \/ \E q \in class(story) : class(story) = {q} /\ shown[story] = Shown(runs[q])
    BY <1>1, Zenon DEF ProgressShowsTheRun
  <2>2. ASSUME NEW q \in Running
        PROVE  class(IsStory[q]) = {q} /\ shown[IsStory[q]] = Shown(runs[q])
    <3>1. IsStory[q] \in BOOLEAN /\ q \in class(IsStory[q])
      BY <1>0, ClassesAreBoolean
    <3>2. PICK p \in class(IsStory[q]) :
              class(IsStory[q]) = {p} /\ shown[IsStory[q]] = Shown(runs[p])
      <4> HIDE DEF class
      <4> QED BY <2>1, <3>1
    <3>3. p = q
      <4> HIDE DEF class
      <4> QED BY <3>1, <3>2
    <3> QED BY <3>2, <3>3, Zenon
  <2>3. OneOfAClass
    <3> SUFFICES ASSUME NEW q \in Running, NEW p \in Running, IsStory[q] = IsStory[p]
                 PROVE  q = p
      BY DEF OneOfAClass
    <3>1. p \in class(IsStory[q]) OBVIOUS
    <3> HIDE DEF class
    <3> QED BY <2>2, <3>1
  <2>4. ShownIsTheRun BY <2>2, Zenon DEF ShownIsTheRun
  <2>5. ShownIsNoMore
    <3> SUFFICES ASSUME NEW story \in BOOLEAN, \A q \in Running : IsStory[q] # story
                 PROVE  shown[story] = NoRun
      BY DEF ShownIsNoMore
    <3>1. class(story) = {} OBVIOUS
    <3> HIDE DEF class
    <3> QED BY <2>1, <3>1, Zenon
  <2> QED BY <2>3, <2>4, <2>5
<1>2. ASSUME OneOfAClass, ShownIsTheRun, ShownIsNoMore PROVE ProgressShowsTheRun
  <2> SUFFICES ASSUME NEW story \in BOOLEAN
               PROVE  \/ class(story) = {} /\ shown[story] = NoRun
                      \/ \E q \in class(story) :
                            class(story) = {q} /\ shown[story] = Shown(runs[q])
    BY Zenon DEF ProgressShowsTheRun
  <2>1. CASE class(story) = {}
    <3>1. \A q \in Running : IsStory[q] # story BY <2>1
    <3>2. shown[story] = NoRun BY <1>2, <3>1, Zenon DEF ShownIsNoMore
    <3> QED BY <2>1, <3>2
  <2>2. CASE class(story) # {}
    <3>1. PICK q \in Running : IsStory[q] = story BY <2>2
    <3>2. class(story) = {q} BY <1>2, <3>1 DEF OneOfAClass
    <3>3. shown[story] = Shown(runs[q]) BY <1>2, <3>1, Zenon DEF ShownIsTheRun
    <3> HIDE DEF class
    <3> QED BY <3>2, <3>3
  <2> QED BY <2>1, <2>2
<1> QED BY <1>1, <1>2

LEMMA PaidParts == ClearsArePaid <=> PaidBefore
<1>1. ASSUME NEW q PROVE Cardinality({q} \intersect Running) = IF q \in Running THEN 1 ELSE 0
  <2>1. CASE q \in Running
    <3>1. {q} \intersect Running = {q} BY <2>1
    <3> QED BY <2>1, <3>1, FS_Singleton
  <2>2. CASE q \notin Running
    <3>1. {q} \intersect Running = {} BY <2>2
    <3> QED BY <2>2, <3>1, FS_EmptySet
  <2> QED BY <2>1, <2>2
<1> QED BY <1>1 DEF ClearsArePaid, PaidBefore

LEMMA InvIsRight ==
    ExplorationInv => ExplorationTypeOK /\ RunIsShown /\ RunIsPaid
<1> SUFFICES ASSUME ExplorationInv PROVE RunIsShown /\ RunIsPaid
  BY DEF ExplorationInv
<1>1. RunIsShown BY ShownParts DEF ExplorationInv, RunIsShown
<1>2. EveryFightPaysOnce
  BY Zenon DEF ExplorationInv, WalksAreKept, EveryFightPaysOnce, Fights
<1>3. RunIsPaid BY <1>2, PaidParts DEF ExplorationInv, RunIsPaid
<1> QED BY <1>1, <1>3

-----------------------------------------------------------------------------
(* How the runs change. *)

LEMMA QuestsArePositive == \A q \in Quests : q \in Nat /\ q # 0
BY ExplorationAssumption

\* A record with a quest is none of the two that stand for nothing.
LEMMA RunIsARun == \A r \in Run : r # NoRun
<1> SUFFICES ASSUME NEW r \in Run PROVE r # NoRun OBVIOUS
<1>1. r.quest # 0 BY QuestsArePositive DEF Run
<1>2. NoRun.quest = 0 BY DEF NoRun
<1> QED BY <1>1, <1>2

LEMMA RunningIsARun ==
    ASSUME ExplorationTypeOK, NEW q \in Running
    PROVE  q \in Quests /\ runs[q] \in Run /\ runs[q].quest = q
<1>1. q \in Quests /\ runs[q] # NoRun BY DEF Running
<1>2. runs \in [Quests -> {NoRun} \union Run] /\ \A p \in Running : runs[p].quest = p
  BY Zenon DEF ExplorationTypeOK
<1>3. runs[q] \in {NoRun} \union Run BY <1>1, <1>2
<1> QED BY <1>1, <1>2, <1>3

LEMMA ShownIsProgress == \A r \in Run : Shown(r) \in Progress
BY DEF Shown, Run, Progress

\* What the four tables of a walk are.
RunTables ==
    /\ runs \in [Quests -> {NoRun} \union Run]
    /\ \A q \in Running : runs[q].quest = q
    /\ shown \in [BOOLEAN -> {NoRun} \union Progress]
    /\ WalksAreKept
    /\ OneOfAClass
    /\ ShownIsTheRun
    /\ ShownIsNoMore

LEMMA InvHasTables == ExplorationInv => RunTables
BY DEF ExplorationInv, ExplorationTypeOK, RunTables

\* A run is put in its place, and progress shows it.
LEMMA RunIsPut ==
    ASSUME RunTables, NEW q \in Quests, NEW r \in Run, r.quest = q,
           r.next <= Len(r.steps), r.exp = Cardinality(Fights(r.steps, r.next)),
           \A p \in Running : IsStory[p] = IsStory[q] => p = q,
           runs' = [runs EXCEPT ![q] = r], progress(r)
    PROVE  /\ RunTables'
           /\ Running' = Running \union {q}
           /\ runs'[q] = r
           /\ \A p \in Quests : p # q => runs'[p] = runs[p]
<1>1. runs \in [Quests -> {NoRun} \union Run] /\ \A p \in Running : runs[p].quest = p
  BY Zenon DEF RunTables
<1>2. runs' \in [Quests -> {NoRun} \union Run] BY <1>1
<1>3. runs'[q] = r /\ \A p \in Quests : p # q => runs'[p] = runs[p] BY <1>1
<1>4. r # NoRun BY RunIsARun
<1>5. Running' = Running \union {q} BY <1>3, <1>4 DEF Running
<1>6. Running \subseteq Quests BY DEF Running
<1>7. \A p \in Running' : p = q \/ (p \in Running /\ p # q /\ runs'[p] = runs[p])
  BY <1>3, <1>5, <1>6
<1>8. \A p \in Running' : runs'[p].quest = p BY <1>1, <1>3, <1>7
<1>9. IsStory[q] \in BOOLEAN BY ClassesAreBoolean
<1>10. /\ shown \in [BOOLEAN -> {NoRun} \union Progress]
       /\ shown' = [shown EXCEPT ![IsStory[q]] = Shown(r)]
  BY Zenon DEF RunTables, progress
<1>11. Shown(r) \in Progress BY ShownIsProgress
<1>12. shown' \in [BOOLEAN -> {NoRun} \union Progress] BY <1>9, <1>10, <1>11
<1>13. shown'[IsStory[q]] = Shown(r) BY <1>9, <1>10
<1>14. \A story \in BOOLEAN : story # IsStory[q] => shown'[story] = shown[story] BY <1>10
<1>15. WalksAreKept'
  <2> SUFFICES ASSUME NEW p \in Running'
               PROVE  /\ runs'[p].next <= Len(runs'[p].steps)
                      /\ runs'[p].exp = Cardinality(Fights(runs'[p].steps, runs'[p].next))
    BY Zenon DEF WalksAreKept
  <2>1. CASE p = q BY <1>3, <2>1, Zenon
  <2>2. CASE p # q
    <3>1. p \in Running /\ runs'[p] = runs[p] BY <1>7, <2>2
    <3> QED BY <3>1, Zenon DEF RunTables, WalksAreKept
  <2> QED BY <2>1, <2>2
<1>16. OneOfAClass' BY <1>5 DEF OneOfAClass, RunTables
<1>17. ShownIsTheRun'
  <2> SUFFICES ASSUME NEW p \in Running' PROVE shown'[IsStory[p]] = Shown(runs'[p])
    BY Zenon DEF ShownIsTheRun
  <2>1. CASE p = q BY <1>3, <1>13, <2>1, Zenon
  <2>2. CASE p # q
    <3>1. p \in Running /\ runs'[p] = runs[p] BY <1>7, <2>2
    <3>2. IsStory[p] # IsStory[q] BY <2>2, <3>1
    <3>3. IsStory[p] \in BOOLEAN BY <1>6, <3>1, ClassesAreBoolean
    <3>4. shown[IsStory[p]] = Shown(runs[p]) BY <3>1, Zenon DEF RunTables, ShownIsTheRun
    <3> QED BY <1>14, <3>1, <3>2, <3>3, <3>4, Zenon
  <2> QED BY <2>1, <2>2
<1>18. ShownIsNoMore'
  <2> SUFFICES ASSUME NEW story \in BOOLEAN, \A p \in Running' : IsStory[p] # story
               PROVE  shown'[story] = NoRun
    BY Zenon DEF ShownIsNoMore
  <2>1. story # IsStory[q] BY <1>5
  <2>2. \A p \in Running : IsStory[p] # story BY <1>5
  <2>3. shown[story] = NoRun BY <2>2, Zenon DEF RunTables, ShownIsNoMore
  <2> QED BY <1>14, <2>1, <2>3
<1>19. RunTables'
  BY <1>2, <1>8, <1>12, <1>15, <1>16, <1>17, <1>18, Zenon DEF RunTables
<1> QED BY <1>3, <1>5, <1>19

\* A run goes, and its progress with it.
LEMMA RunIsGone ==
    ASSUME RunTables, NEW q \in Running,
           runs' = [runs EXCEPT ![q] = NoRun], remove_progress(q)
    PROVE  /\ RunTables'
           /\ Running' = Running \ {q}
           /\ \A p \in Running' : runs'[p] = runs[p]
<1>0. q \in Quests BY DEF Running
<1>1. runs \in [Quests -> {NoRun} \union Run] /\ \A p \in Running : runs[p].quest = p
  BY Zenon DEF RunTables
<1>2. runs' \in [Quests -> {NoRun} \union Run] BY <1>1
<1>3. runs'[q] = NoRun /\ \A p \in Quests : p # q => runs'[p] = runs[p] BY <1>0, <1>1
<1>5. Running' = Running \ {q} BY <1>3 DEF Running
<1>6. Running \subseteq Quests BY DEF Running
<1>7. \A p \in Running' : p \in Running /\ p # q /\ runs'[p] = runs[p]
  BY <1>3, <1>5, <1>6
<1>8. \A p \in Running' : runs'[p].quest = p BY <1>1, <1>7
<1>9. IsStory[q] \in BOOLEAN BY <1>0, ClassesAreBoolean
<1>10. /\ shown \in [BOOLEAN -> {NoRun} \union Progress]
       /\ shown' = [shown EXCEPT ![IsStory[q]] = NoRun]
  BY Zenon DEF RunTables, remove_progress
<1>12. shown' \in [BOOLEAN -> {NoRun} \union Progress] BY <1>9, <1>10
<1>13. shown'[IsStory[q]] = NoRun BY <1>9, <1>10
<1>14. \A story \in BOOLEAN : story # IsStory[q] => shown'[story] = shown[story] BY <1>10
<1>15. WalksAreKept' BY <1>7, Zenon DEF WalksAreKept, RunTables
<1>16. OneOfAClass' BY <1>7 DEF OneOfAClass, RunTables
<1>17. ShownIsTheRun'
  <2> SUFFICES ASSUME NEW p \in Running' PROVE shown'[IsStory[p]] = Shown(runs'[p])
    BY Zenon DEF ShownIsTheRun
  <2>1. p \in Running /\ p # q /\ runs'[p] = runs[p] BY <1>7
  <2>2. IsStory[p] # IsStory[q] BY <2>1 DEF RunTables, OneOfAClass
  <2>3. IsStory[p] \in BOOLEAN BY <1>6, <2>1, ClassesAreBoolean
  <2>4. shown[IsStory[p]] = Shown(runs[p]) BY <2>1, Zenon DEF RunTables, ShownIsTheRun
  <2> QED BY <1>14, <2>1, <2>2, <2>3, <2>4, Zenon
<1>18. ShownIsNoMore'
  <2> SUFFICES ASSUME NEW story \in BOOLEAN, \A p \in Running' : IsStory[p] # story,
                      story # IsStory[q]
               PROVE  shown'[story] = NoRun
    BY <1>13, Zenon DEF ShownIsNoMore
  <2>1. \A p \in Running : IsStory[p] # story BY <1>5
  <2>2. shown[story] = NoRun BY <2>1, Zenon DEF RunTables, ShownIsNoMore
  <2> QED BY <1>14, <2>2
<1>19. RunTables'
  BY <1>2, <1>8, <1>12, <1>15, <1>16, <1>17, <1>18, Zenon DEF RunTables
<1> QED BY <1>5, <1>7, <1>19

-----------------------------------------------------------------------------
(* What the requests are made of. *)

LEMMA CostIsNumber ==
    ASSUME NEW attempts \in [Quests -> Nat]
    PROVE  Cost(attempts) \in Nat
<1> DEFINE f == [q \in Quests |-> attempts[q] * Stamina[q]]
<1>1. \A q \in Quests : f[q] \in Nat
  <2> SUFFICES ASSUME NEW q \in Quests PROVE attempts[q] * Stamina[q] \in Nat OBVIOUS
  <2>1. attempts[q] \in Nat /\ Stamina[q] \in Nat BY ExplorationAssumption
  <2> QED BY <2>1
<1>2. IsFiniteSet(Quests) BY ExplorationAssumption
<1>3. DOMAIN f = Quests OBVIOUS
<1>4. Cost(attempts) = SumFunctionOnSet(f, DOMAIN f) BY DEF Cost, SumFunction, SumFunctionOnSet
<1> HIDE DEF f
<1> QED BY <1>1, <1>2, <1>3, <1>4, SumNat

LEMMA AttemptsArePaid ==
    ASSUME ExplorationInv, NEW attempts \in [Quests -> Nat], Attempts(attempts)
    PROVE  /\ stamina' \in 0..InitialStamina
           /\ paid' \in [Quests -> Nat]
           /\ \A q \in Quests : paid'[q] = paid[q] + attempts[q]
<1> DEFINE c == Cost(attempts)
<1>1. c \in Nat BY CostIsNumber
<1>2. stamina >= c /\ stamina' = stamina - c
      /\ paid' = [q \in Quests |-> paid[q] + attempts[q]]
  BY DEF Attempts
<1> HIDE DEF c
<1>3. stamina \in 0..InitialStamina /\ paid \in [Quests -> Nat] /\ InitialStamina \in Nat
  BY ExplorationAssumption DEF ExplorationInv, ExplorationTypeOK
<1> QED BY <1>1, <1>2, <1>3

LEMMA TimesIsNumbers ==
    ASSUME NEW q \in Quests, NEW n \in Nat
    PROVE  /\ Times(q, n) \in [Quests -> Nat]
           /\ \A p \in Quests : Times(q, n)[p] = IF p = q THEN n ELSE 0
BY DEF Times

\* Outside a battle no run waits for one.
LEMMA NoneIsPending ==
    ASSUME ExplorationInv, Outside, NEW q \in Running
    PROVE  runs[q].pending = FALSE
<1>1. runs[q].pending \in BOOLEAN BY RunningIsARun DEF ExplorationInv, Run
<1>2. ~runs[q].pending BY Zenon DEF ExplorationInv, PendingIsTheBattle, Outside
<1> QED BY <1>1, <1>2

LEMMA PendingStaysOff ==
    ASSUME Outside', \A q \in Running' : runs'[q].pending = FALSE
    PROVE  PendingIsTheBattle'
BY Zenon DEF PendingIsTheBattle, Outside

\* A run stays finishable while its own clears do and none is taken back.
LEMMA FinishableStays ==
    ASSUME ExplorationInv, \A q \in Running' : q \in Running /\ clears'[q] = clears[q],
           clears' \in [Quests -> Nat], \A q \in Quests : clears[q] <= clears'[q],
           now' \in Nat, now <= now'
    PROVE  RunStaysFinishable'
<1>1. clears \in [Quests -> Nat] /\ now \in Nat
  BY ExplorationAssumption DEF ExplorationInv, ExplorationTypeOK
<1> SUFFICES ASSUME NEW q \in Running', InPeriod(q)' PROVE validate_quest(q, clears)'
  BY Zenon DEF RunStaysFinishable
<1>2. q \in Quests /\ q \in Running BY DEF Running
<1>3. EndAt[q] \in Nat /\ Predecessor[q] \in Nat BY <1>2, ExplorationAssumption
<1>4. InPeriod(q) BY <1>1, <1>3 DEF InPeriod
<1>5. validate_quest(q, clears) BY <1>2, <1>4 DEF ExplorationInv, RunStaysFinishable
<1>6. Predecessor[q] \in Quests => clears'[Predecessor[q]] > 0
  <2> SUFFICES ASSUME Predecessor[q] \in Quests PROVE clears'[Predecessor[q]] > 0 OBVIOUS
  <2>1. clears[Predecessor[q]] > 0 BY <1>5 DEF validate_quest
  <2>2. clears[Predecessor[q]] \in Nat /\ clears'[Predecessor[q]] \in Nat BY <1>1
  <2> QED BY <2>1, <2>2
<1> QED BY <1>2, <1>5, <1>6 DEF validate_quest, InPeriod

\* The step after the one that is done, and the talks behind it.
LEMMA RunAdvances ==
    ASSUME NEW r \in Run, r.next <= Len(r.steps), ~AtEnd(r), NEW s, s = Advance(r)
    PROVE  /\ s \in Run
           /\ s.quest = r.quest /\ s.steps = r.steps /\ s.exp = r.exp
           /\ s.pending = r.pending
           /\ s.next <= Len(s.steps)
           /\ Fights(s.steps, s.next) = Fights(r.steps, r.next + 1)
<1>1. r.steps \in Seq(Option) /\ r.next \in Nat BY DEF Run
<1>2. Len(r.steps) \in Nat BY <1>1, LenProperties
<1>3. r.next + 1 \in 0..Len(r.steps) BY <1>1, <1>2 DEF AtEnd
<1> DEFINE n == skip_talks(r.steps, r.next + 1)
           before == r.next + 1
           steps == r.steps
<1>4. n \in before..Len(steps)
  <2>1. steps \in Seq(Option) /\ before \in 0..Len(steps) /\ n = skip_talks(steps, before)
    BY <1>1, <1>3
  <2> HIDE DEF n, before, steps
  <2> QED BY <2>1, TalksAreSkipped
<1>5. Fights(steps, n) = Fights(steps, before)
  <2>1. steps \in Seq(Option) /\ before \in 0..Len(steps) /\ n = skip_talks(steps, before)
    BY <1>1, <1>3
  <2> HIDE DEF n, before, steps
  <2> QED BY <2>1, NoFightIsSkipped, Zenon
<1>6. s = [r EXCEPT !.next = n, !.gathered = {}] BY DEF Advance
<1> HIDE DEF n
<1>7. n \in Nat /\ n <= Len(r.steps) BY <1>1, <1>2, <1>4
<1>8. s \in Run BY <1>6, <1>7 DEF Run
<1>9. /\ s.quest = r.quest /\ s.steps = r.steps /\ s.exp = r.exp
      /\ s.pending = r.pending /\ s.next = n
  BY <1>6 DEF Run
<1> QED BY <1>5, <1>7, <1>8, <1>9

\* No request but those of this module's tables: a conjunct for each.
LEMMA InvParts ==
    ASSUME RunTables', PendingIsTheBattle', PaidBefore', RunStaysFinishable',
           (battle \in {NoBattle} \union BattleRow)', (clears \in [Quests -> Nat])',
           (party \in [PartyNumbers -> Parties])', (stamina \in 0..InitialStamina)',
           (now \in 0..MaxTime)', (paid \in [Quests -> Nat])'
    PROVE  ExplorationInv'
BY DEF ExplorationInv, ExplorationTypeOK, RunTables

-----------------------------------------------------------------------------
(* One step for each request. *)

LEMMA ExplorationStarts ==
    ASSUME ExplorationInv, NEW q \in Quests, NEW number \in PartyNumbers,
           exploration_start(q, number)
    PROVE  ExplorationInv'
<1> DEFINE p == party[number]
<1>1. PICK steps \in exploration_steps(q) :
          LET r == [quest |-> q, number |-> number, steps |-> steps,
                    next |-> skip_talks(steps, 0), gathered |-> {}, exp |-> 0,
                    fought |-> FALSE, hps |-> FullHealth(p),
                    tools |-> FullTools(p), members |-> p.members,
                    pending |-> FALSE]
          IN  runs' = [runs EXCEPT ![q] = r] /\ progress(r)
  BY DEF exploration_start
<1> DEFINE n == skip_talks(steps, 0)
           r == [quest |-> q, number |-> number, steps |-> steps,
                 next |-> n, gathered |-> {}, exp |-> 0,
                 fought |-> FALSE, hps |-> FullHealth(p),
                 tools |-> FullTools(p), members |-> p.members, pending |-> FALSE]
<1>2. /\ Outside /\ validate_quest(q, clears) /\ StartAllowed(q) /\ Attempts(Times(q, 1))
      /\ UNCHANGED <<battle, clears, party, now>>
  BY DEF exploration_start
<1>3. ExplorationTypeOK /\ RunTables BY InvHasTables DEF ExplorationInv
<1>4. p \in Parties BY <1>3 DEF ExplorationTypeOK
<1>5. steps \in Seq(Option) BY StepsAreOptions
<1>6. n \in 0..Len(steps) /\ Fights(steps, n) = Fights(steps, 0)
  <2>1. Len(steps) \in Nat BY <1>5, LenProperties
  <2>2. 0 \in 0..Len(steps) BY <2>1
  <2> QED BY <1>5, <2>2, TalksAreSkipped, NoFightIsSkipped
<1>7. n \in Nat /\ n <= Len(steps)
  <2>1. Len(steps) \in Nat BY <1>5, LenProperties
  <2> QED BY <1>6, <2>1
<1>8. Cardinality(Fights(steps, n)) = 0
  <2>1. Fights(steps, 0) = {} BY DEF Fights
  <2> QED BY <1>6, <2>1, FS_EmptySet
<1> HIDE DEF n
<1>9. r \in Run
  <2>1. /\ p.members \in Seq(Nat) /\ FullHealth(p) \in Seq(0..MaxHp)
        /\ FullTools(p) \in Seq(0..ToolUses)
    <3> HIDE DEF p
    <3> QED BY <1>4, PartyHasMembers
  <2> HIDE DEF p
  <2> QED BY <1>5, <1>7, <2>1 DEF Run
<1>10. q \notin Running /\ \A x \in Running : IsStory[x] = IsStory[q] => x = q
  BY <1>2 DEF StartAllowed
<1>11. /\ r.quest = q /\ r.pending = FALSE /\ r.next <= Len(r.steps)
       /\ r.exp = Cardinality(Fights(r.steps, r.next))
  BY <1>7, <1>8
<1>12. runs' = [runs EXCEPT ![q] = r] /\ progress(r) BY <1>1 DEF n
<1> HIDE DEF r, p
<1>13. /\ RunTables'
       /\ Running' = Running \union {q}
       /\ runs'[q] = r
       /\ \A x \in Quests : x # q => runs'[x] = runs[x]
  BY <1>3, <1>9, <1>10, <1>11, <1>12, RunIsPut
<1>14. PendingIsTheBattle'
  <2>1. \A x \in Running : runs[x].pending = FALSE BY <1>2, NoneIsPending
  <2>2. \A x \in Running' : runs'[x].pending = FALSE
    BY <1>11, <1>13, <2>1 DEF Running
  <2>3. Outside' BY <1>2 DEF Outside
  <2> QED BY <2>2, <2>3, PendingStaysOff
<1>15. /\ stamina' \in 0..InitialStamina /\ paid' \in [Quests -> Nat]
       /\ \A x \in Quests : paid'[x] = paid[x] + (IF x = q THEN 1 ELSE 0)
  <2> DEFINE t == Times(q, 1)
  <2>1. t \in [Quests -> Nat] /\ \A x \in Quests : t[x] = IF x = q THEN 1 ELSE 0
    BY TimesIsNumbers
  <2>2. Attempts(t) BY <1>2
  <2> HIDE DEF t
  <2> QED BY <2>1, <2>2, AttemptsArePaid
<1>16. clears \in [Quests -> Nat] /\ paid \in [Quests -> Nat]
  BY <1>3 DEF ExplorationTypeOK
<1>17. PaidBefore'
  <2> SUFFICES ASSUME NEW x \in Quests
               PROVE  clears'[x] + (IF x \in Running' THEN 1 ELSE 0) <= paid'[x]
    BY Zenon DEF PaidBefore
  <2>1. clears[x] + (IF x \in Running THEN 1 ELSE 0) <= paid[x]
    BY Zenon DEF ExplorationInv, PaidBefore
  <2>2. clears[x] \in Nat /\ paid[x] \in Nat /\ clears' = clears BY <1>2, <1>16
  <2>3. x \in Running' <=> x \in Running \/ x = q BY <1>13
  <2>4. paid'[x] = paid[x] + (IF x = q THEN 1 ELSE 0) BY <1>15
  <2> QED BY <1>10, <2>1, <2>2, <2>3, <2>4
<1>18. RunStaysFinishable'
  BY <1>2, <1>13 DEF ExplorationInv, RunStaysFinishable, InPeriod, validate_quest
<1> QED
  BY <1>2, <1>3, <1>13, <1>14, <1>15, <1>17, <1>18, InvParts DEF ExplorationTypeOK

\* A request that only moves a run on, or ends it, or fights.
LEMMA RunsMove ==
    ASSUME ExplorationInv, RunTables', Running' \subseteq Running, PendingIsTheBattle',
           battle' \in {NoBattle} \union BattleRow,
           UNCHANGED <<clears, party, stamina, now, paid>>
    PROVE  ExplorationInv'
<1>1. ExplorationTypeOK BY DEF ExplorationInv
<1>2. /\ clears \in [Quests -> Nat] /\ paid \in [Quests -> Nat]
      /\ now \in Nat /\ \A x \in Quests : clears[x] \in Nat /\ paid[x] \in Nat
  BY <1>1, ExplorationAssumption DEF ExplorationTypeOK
<1>3. PaidBefore'
  <2> SUFFICES ASSUME NEW x \in Quests
               PROVE  clears'[x] + (IF x \in Running' THEN 1 ELSE 0) <= paid'[x]
    BY Zenon DEF PaidBefore
  <2>1. clears[x] + (IF x \in Running THEN 1 ELSE 0) <= paid[x]
    BY Zenon DEF ExplorationInv, PaidBefore
  <2>2. clears[x] \in Nat /\ paid[x] \in Nat /\ clears' = clears /\ paid' = paid
    BY <1>2
  <2> QED BY <2>1, <2>2
<1>4. RunStaysFinishable'
  <2>1. \A x \in Quests : clears[x] <= clears'[x] BY <1>2
  <2>2. now' \in Nat /\ now <= now' BY <1>2
  <2> QED BY <1>2, <2>1, <2>2, FinishableStays
<1> QED BY <1>1, <1>3, <1>4, InvParts DEF ExplorationTypeOK

LEMMA PointIsExplored ==
    ASSUME ExplorationInv, NEW q \in Quests, NEW point \in Points,
           exploration_explore(q, point)
    PROVE  ExplorationInv'
<1> DEFINE r == runs[q]
           all == r.gathered \union {point}
           gathered == [r EXCEPT !.gathered = all]
           done == Cardinality(all) = Step(r).points
           explored == IF done THEN Advance(r) ELSE gathered
<1>1. /\ Outside /\ q \in Running /\ ~AtEnd(r) /\ Step(r).kind = Gather
      /\ runs' = [runs EXCEPT ![q] = explored] /\ progress(explored)
      /\ UNCHANGED <<battle, clears, party, stamina, now, paid>>
  BY Zenon DEF exploration_explore
<1>2. ExplorationTypeOK /\ RunTables BY InvHasTables DEF ExplorationInv
<1>3. r \in Run /\ r.quest = q BY <1>1, <1>2, RunningIsARun
<1>4. /\ r.next <= Len(r.steps) /\ r.exp = Cardinality(Fights(r.steps, r.next))
  BY <1>1, <1>2 DEF RunTables, WalksAreKept
<1>5. r.pending = FALSE BY <1>1, NoneIsPending
<1>6. all \subseteq Nat BY <1>3, PointsAreNumbers DEF Run
<1> HIDE DEF r, done
<1>7. /\ explored \in Run /\ explored.quest = q /\ explored.pending = FALSE
      /\ explored.next <= Len(explored.steps)
      /\ explored.exp = Cardinality(Fights(explored.steps, explored.next))
  <2>1. CASE done
    <3> DEFINE s == Advance(r)
    <3>1. /\ s \in Run
          /\ s.quest = r.quest /\ s.steps = r.steps /\ s.exp = r.exp
          /\ s.pending = r.pending
          /\ s.next <= Len(s.steps)
          /\ Fights(s.steps, s.next) = Fights(r.steps, r.next + 1)
      BY <1>1, <1>3, <1>4, RunAdvances
    <3>2. Cardinality(Fights(r.steps, r.next + 1)) = Cardinality(Fights(r.steps, r.next))
      <4> DEFINE m == r.next
                 steps == r.steps
      <4>1. m \in Nat BY <1>3 DEF Run
      <4>2. steps[m + 1].kind # Battle BY <1>1 DEF Step, Gather, Battle
      <4>3. Cardinality(Fights(steps, m)) \in Nat BY <4>1, FightsAreFinite
      <4> HIDE DEF m, steps
      <4>4. Cardinality(Fights(steps, m + 1)) = Cardinality(Fights(steps, m))
        BY <4>1, <4>2, <4>3, FightsGrow
      <4> QED BY <4>4 DEF m, steps
    <3>3. explored = s BY <2>1
    <3> HIDE DEF s, explored
    <3> QED BY <3>1, <3>2, <3>3, <1>3, <1>4, <1>5, Zenon
  <2>2. CASE ~done
    <3>1. explored = gathered BY <2>2
    <3>2. explored \in Run BY <1>3, <1>6, <3>1 DEF Run
    <3>3. /\ explored.quest = r.quest /\ explored.steps = r.steps
          /\ explored.exp = r.exp /\ explored.next = r.next
          /\ explored.pending = r.pending
      BY <1>3, <3>1 DEF Run
    <3> HIDE DEF explored
    <3> QED BY <3>2, <3>3, <1>3, <1>4, <1>5, Zenon
  <2> QED BY <2>1, <2>2
<1> HIDE DEF explored
<1>8. \A p \in Running : IsStory[p] = IsStory[q] => p = q
  BY <1>1, <1>2 DEF RunTables, OneOfAClass
<1>9. /\ RunTables'
      /\ Running' = Running \union {q}
      /\ runs'[q] = explored
      /\ \A x \in Quests : x # q => runs'[x] = runs[x]
  BY <1>1, <1>2, <1>7, <1>8, RunIsPut
<1>10. PendingIsTheBattle'
  <2>1. \A x \in Running : runs[x].pending = FALSE BY <1>1, NoneIsPending
  <2>2. \A x \in Running' : runs'[x].pending = FALSE
    BY <1>1, <1>7, <1>9, <2>1 DEF Running
  <2>3. Outside' BY <1>1 DEF Outside
  <2> QED BY <2>2, <2>3, PendingStaysOff
<1>11. Running' \subseteq Running /\ battle' \in {NoBattle} \union BattleRow
  BY <1>1, <1>2, <1>9 DEF ExplorationTypeOK
<1> QED BY <1>1, <1>9, <1>10, <1>11, RunsMove

LEMMA PartyIsUpdated ==
    ASSUME ExplorationInv, NEW q \in Quests, NEW number \in PartyNumbers,
           exploration_update_party(q, number)
    PROVE  ExplorationInv'
<1> DEFINE p == party[number]
           r == runs[q]
           s == [r EXCEPT !.number = number, !.members = p.members,
                          !.hps = FullHealth(p), !.tools = FullTools(p)]
<1>1. /\ Outside /\ q \in Running
      /\ runs' = [runs EXCEPT ![q] = s] /\ progress(s)
      /\ UNCHANGED <<battle, clears, party, stamina, now, paid>>
  BY Zenon DEF exploration_update_party
<1>2. ExplorationTypeOK /\ RunTables BY InvHasTables DEF ExplorationInv
<1>3. r \in Run /\ r.quest = q BY <1>1, <1>2, RunningIsARun
<1>4. /\ r.next <= Len(r.steps) /\ r.exp = Cardinality(Fights(r.steps, r.next))
  BY <1>1, <1>2 DEF RunTables, WalksAreKept
<1>5. r.pending = FALSE BY <1>1, NoneIsPending
<1>6. p \in Parties BY <1>2 DEF ExplorationTypeOK
<1> HIDE DEF r, p
<1>7. /\ p.members \in Seq(Nat) /\ FullHealth(p) \in Seq(0..MaxHp)
      /\ FullTools(p) \in Seq(0..ToolUses)
  BY <1>6, PartyHasMembers
<1>8. s \in Run BY <1>3, <1>7 DEF Run
<1>9. /\ s.quest = r.quest /\ s.steps = r.steps /\ s.exp = r.exp
      /\ s.next = r.next /\ s.pending = r.pending
  BY <1>3 DEF Run
<1> HIDE DEF s
<1>10. /\ s.quest = q /\ s.pending = FALSE /\ s.next <= Len(s.steps)
       /\ s.exp = Cardinality(Fights(s.steps, s.next))
  BY <1>3, <1>4, <1>5, <1>9, Zenon
<1>11. \A x \in Running : IsStory[x] = IsStory[q] => x = q
  BY <1>1, <1>2 DEF RunTables, OneOfAClass
<1>12. /\ RunTables'
       /\ Running' = Running \union {q}
       /\ runs'[q] = s
       /\ \A x \in Quests : x # q => runs'[x] = runs[x]
  BY <1>1, <1>2, <1>8, <1>10, <1>11, RunIsPut
<1>13. PendingIsTheBattle'
  <2>1. \A x \in Running : runs[x].pending = FALSE BY <1>1, NoneIsPending
  <2>2. \A x \in Running' : runs'[x].pending = FALSE
    BY <1>1, <1>10, <1>12, <2>1 DEF Running
  <2>3. Outside' BY <1>1 DEF Outside
  <2> QED BY <2>2, <2>3, PendingStaysOff
<1>14. Running' \subseteq Running /\ battle' \in {NoBattle} \union BattleRow
  BY <1>1, <1>2, <1>12 DEF ExplorationTypeOK
<1> QED BY <1>1, <1>12, <1>13, <1>14, RunsMove

\* finish and retire.
LEMMA RunEnds ==
    ASSUME ExplorationInv, NEW q \in Running, Outside, UNCHANGED battle,
           runs' = [runs EXCEPT ![q] = NoRun], remove_progress(q)
    PROVE  /\ RunTables' /\ PendingIsTheBattle' /\ Running' = Running \ {q}
           /\ battle' \in {NoBattle} \union BattleRow
<1>1. ExplorationTypeOK /\ RunTables BY InvHasTables DEF ExplorationInv
<1>2. /\ RunTables' /\ Running' = Running \ {q}
      /\ \A p \in Running' : runs'[p] = runs[p]
  BY <1>1, RunIsGone
<1>3. \A x \in Running' : runs'[x].pending = FALSE BY <1>2, NoneIsPending
<1>4. Outside' BY DEF Outside
<1> QED BY <1>1, <1>2, <1>3, <1>4, PendingStaysOff DEF ExplorationTypeOK

LEMMA ExplorationRetires ==
    ASSUME ExplorationInv, NEW story \in BOOLEAN, exploration_retire(story)
    PROVE  ExplorationInv'
<1>1. PICK q \in Running : runs' = [runs EXCEPT ![q] = NoRun] /\ remove_progress(q)
  BY Zenon DEF exploration_retire
<1>2. Outside /\ UNCHANGED <<battle, clears, party, stamina, now, paid>>
  BY Zenon DEF exploration_retire
<1>3. /\ RunTables' /\ PendingIsTheBattle' /\ Running' = Running \ {q}
      /\ battle' \in {NoBattle} \union BattleRow
  BY <1>1, <1>2, RunEnds
<1>4. Running' \subseteq Running BY <1>3
<1> QED BY <1>2, <1>3, <1>4, RunsMove

LEMMA ExplorationFinishes ==
    ASSUME ExplorationInv, NEW q \in Quests, exploration_finish(q)
    PROVE  ExplorationInv'
<1>1. /\ Outside /\ q \in Running /\ clears' = [clears EXCEPT ![q] = @ + 1]
      /\ runs' = [runs EXCEPT ![q] = NoRun] /\ remove_progress(q)
      /\ UNCHANGED <<battle, party, stamina, now, paid>>
  BY DEF exploration_finish
<1>2. ExplorationTypeOK BY DEF ExplorationInv
<1>3. /\ RunTables' /\ PendingIsTheBattle' /\ Running' = Running \ {q}
      /\ battle' \in {NoBattle} \union BattleRow
  BY <1>1, RunEnds
<1>4. clears \in [Quests -> Nat] /\ paid \in [Quests -> Nat] /\ now \in Nat
  BY <1>2, ExplorationAssumption DEF ExplorationTypeOK
<1>5. /\ clears' \in [Quests -> Nat]
      /\ \A x \in Quests : clears'[x] = clears[x] + (IF x = q THEN 1 ELSE 0)
  BY <1>1, <1>4
<1>6. PaidBefore'
  <2> SUFFICES ASSUME NEW x \in Quests
               PROVE  clears'[x] + (IF x \in Running' THEN 1 ELSE 0) <= paid'[x]
    BY Zenon DEF PaidBefore
  <2>1. clears[x] + (IF x \in Running THEN 1 ELSE 0) <= paid[x]
    BY Zenon DEF ExplorationInv, PaidBefore
  <2>2. clears[x] \in Nat /\ paid[x] \in Nat /\ paid' = paid BY <1>1, <1>4
  <2>3. x \in Running' <=> x \in Running /\ x # q BY <1>3
  <2>4. clears'[x] = clears[x] + (IF x = q THEN 1 ELSE 0) BY <1>5
  <2> QED BY <1>1, <2>1, <2>2, <2>3, <2>4
<1>7. RunStaysFinishable'
  <2>1. \A x \in Running' : x \in Running /\ clears'[x] = clears[x]
    BY <1>3, <1>4, <1>5 DEF Running
  <2>2. \A x \in Quests : clears[x] <= clears'[x] BY <1>4, <1>5
  <2>3. now' \in Nat /\ now <= now' BY <1>1, <1>4
  <2> QED BY <1>5, <2>1, <2>2, <2>3, FinishableStays
<1> QED BY <1>1, <1>2, <1>3, <1>5, <1>6, <1>7, InvParts DEF ExplorationTypeOK

\* The runs, their battle and what is shown stay as they are.
LEMMA RunsStay ==
    ASSUME ExplorationInv, UNCHANGED <<runs, battle, shown>>
    PROVE  /\ RunTables' /\ PendingIsTheBattle' /\ Running' = Running
           /\ battle' \in {NoBattle} \union BattleRow
<1>1. RunTables BY InvHasTables
<1>2. Running' = Running BY DEF Running
<1>3. RunTables'
  BY <1>1, <1>2 DEF RunTables, WalksAreKept, OneOfAClass, ShownIsTheRun, ShownIsNoMore
<1>4. PendingIsTheBattle' BY <1>2 DEF ExplorationInv, PendingIsTheBattle
<1> QED BY <1>2, <1>3, <1>4 DEF ExplorationInv, ExplorationTypeOK

\* What is skipped is paid for, clear by clear.
LEMMA ClearsAreSkipped ==
    ASSUME ExplorationInv, NEW attempts \in [Quests -> Nat], Attempts(attempts),
           \A q \in Running : attempts[q] = 0,
           clears' \in [Quests -> Nat],
           \A q \in Quests : clears'[q] = clears[q] + attempts[q],
           UNCHANGED <<runs, battle, shown, party, now>>
    PROVE  ExplorationInv'
<1>1. ExplorationTypeOK BY DEF ExplorationInv
<1>2. /\ RunTables' /\ PendingIsTheBattle' /\ Running' = Running
      /\ battle' \in {NoBattle} \union BattleRow
  BY RunsStay
<1>3. clears \in [Quests -> Nat] /\ paid \in [Quests -> Nat] /\ now \in Nat
  BY <1>1, ExplorationAssumption DEF ExplorationTypeOK
<1>4. /\ stamina' \in 0..InitialStamina /\ paid' \in [Quests -> Nat]
      /\ \A q \in Quests : paid'[q] = paid[q] + attempts[q]
  BY AttemptsArePaid
<1>5. PaidBefore'
  <2> SUFFICES ASSUME NEW x \in Quests
               PROVE  clears'[x] + (IF x \in Running' THEN 1 ELSE 0) <= paid'[x]
    BY Zenon DEF PaidBefore
  <2>1. clears[x] + (IF x \in Running THEN 1 ELSE 0) <= paid[x]
    BY Zenon DEF ExplorationInv, PaidBefore
  <2>2. clears[x] \in Nat /\ paid[x] \in Nat /\ attempts[x] \in Nat BY <1>3
  <2>3. clears'[x] = clears[x] + attempts[x] /\ paid'[x] = paid[x] + attempts[x]
    BY <1>4
  <2> QED BY <1>2, <2>1, <2>2, <2>3
<1>6. RunStaysFinishable'
  <2>1. \A x \in Running' : x \in Running /\ clears'[x] = clears[x]
    BY <1>2, <1>3 DEF Running
  <2>2. \A x \in Quests : clears[x] <= clears'[x] BY <1>3
  <2>3. now' \in Nat /\ now <= now' BY <1>3
  <2> QED BY <2>1, <2>2, <2>3, FinishableStays
<1> QED BY <1>1, <1>2, <1>4, <1>5, <1>6, InvParts DEF ExplorationTypeOK

LEMMA QuestIsSkipped ==
    ASSUME ExplorationInv, NEW q \in Quests, NEW n \in 1..MaxRepeat, exploration_skip(q, n)
    PROVE  ExplorationInv'
<1> DEFINE t == Times(q, n)
<1>1. /\ q \notin Running /\ Attempts(t) /\ clears' = [clears EXCEPT ![q] = @ + n]
      /\ UNCHANGED <<runs, battle, shown, party, now>>
  BY DEF exploration_skip, SkipAllowed
<1>2. n \in Nat BY ExplorationAssumption
<1>3. t \in [Quests -> Nat] /\ \A x \in Quests : t[x] = IF x = q THEN n ELSE 0
  BY <1>2, TimesIsNumbers
<1> HIDE DEF t
<1>4. clears \in [Quests -> Nat] BY DEF ExplorationInv, ExplorationTypeOK
<1>5. /\ clears' \in [Quests -> Nat]
      /\ \A x \in Quests : clears'[x] = clears[x] + t[x]
  BY <1>1, <1>2, <1>3, <1>4
<1>6. \A x \in Running : t[x] = 0 BY <1>1, <1>3 DEF Running
<1> QED BY <1>1, <1>3, <1>5, <1>6, ClearsAreSkipped

LEMMA StoryIsSkipped ==
    ASSUME ExplorationInv, NEW end, story_skip(end)
    PROVE  ExplorationInv'
<1> DEFINE skipped == {q \in StoryQuests : last_main_story_quest_id < q /\ q <= end}
           attempts == [q \in Quests |-> IF q \in skipped THEN 1 ELSE 0]
<1>1. /\ Running = {} /\ Attempts(attempts)
      /\ clears' = [q \in Quests |-> clears[q] + attempts[q]]
      /\ UNCHANGED <<runs, battle, shown, party, now>>
  BY Zenon DEF story_skip, StorySkipAllowed
<1> HIDE DEF skipped
<1>2. attempts \in [Quests -> Nat] OBVIOUS
<1> HIDE DEF attempts
<1>3. clears \in [Quests -> Nat] BY DEF ExplorationInv, ExplorationTypeOK
<1>4. /\ clears' \in [Quests -> Nat]
      /\ \A q \in Quests : clears'[q] = clears[q] + attempts[q]
  BY <1>1, <1>2, <1>3
<1> QED BY <1>1, <1>2, <1>4, ClearsAreSkipped

LEMMA PartyIsChanged ==
    ASSUME ExplorationInv, NEW number \in PartyNumbers, NEW p \in Parties,
           reduce_party(number, p)
    PROVE  ExplorationInv'
<1>1. party' = [party EXCEPT ![number] = p]
      /\ UNCHANGED <<runs, battle, shown, clears, stamina, now, paid>>
  BY DEF reduce_party
<1>2. ExplorationTypeOK BY DEF ExplorationInv
<1>3. /\ RunTables' /\ PendingIsTheBattle' /\ Running' = Running
      /\ battle' \in {NoBattle} \union BattleRow
  BY <1>1, RunsStay
<1>4. PaidBefore' BY <1>1, <1>3 DEF ExplorationInv, PaidBefore
<1>5. RunStaysFinishable'
  BY <1>1, <1>3 DEF ExplorationInv, RunStaysFinishable, InPeriod, validate_quest
<1> QED BY <1>1, <1>2, <1>3, <1>4, <1>5, InvParts DEF ExplorationTypeOK

LEMMA TimePasses ==
    ASSUME ExplorationInv, Tick
    PROVE  ExplorationInv'
<1>1. /\ now < MaxTime /\ now' = now + 1
      /\ UNCHANGED <<runs, battle, shown, clears, party, stamina, paid>>
  BY DEF Tick
<1>2. ExplorationTypeOK BY DEF ExplorationInv
<1>3. /\ RunTables' /\ PendingIsTheBattle' /\ Running' = Running
      /\ battle' \in {NoBattle} \union BattleRow
  BY <1>1, RunsStay
<1>4. /\ now \in Nat /\ now' \in 0..MaxTime /\ now' \in Nat /\ now <= now'
      /\ clears \in [Quests -> Nat]
  BY <1>1, <1>2, ExplorationAssumption DEF ExplorationTypeOK
<1>5. PaidBefore' BY <1>1, <1>3 DEF ExplorationInv, PaidBefore
<1>6. RunStaysFinishable'
  <2>1. \A x \in Quests : clears[x] <= clears'[x] BY <1>1, <1>4
  <2>2. \A x \in Running' : x \in Running /\ clears'[x] = clears[x] BY <1>1, <1>3
  <2> QED BY <1>1, <1>4, <2>1, <2>2, FinishableStays
<1> QED BY <1>1, <1>2, <1>3, <1>4, <1>5, <1>6, InvParts DEF ExplorationTypeOK

-----------------------------------------------------------------------------
(* Battles. *)

LEMMA BattleIsARow ==
    ASSUME ExplorationInv, battle # NoBattle
    PROVE  /\ battle \in BattleRow
           /\ battle.hps \in Seq(0..MaxHp) /\ Len(battle.hps) \in Nat
           /\ battle.tools \in Seq(0..ToolUses) /\ Len(battle.tools) \in Nat
<1>1. battle \in BattleRow BY DEF ExplorationInv, ExplorationTypeOK
<1>2. battle.hps \in Seq(0..MaxHp) /\ battle.tools \in Seq(0..ToolUses)
  BY <1>1 DEF BattleRow
<1> QED BY <1>1, <1>2, LenProperties

\* The battle of a party that fits.
LEMMA BattleIsBuilt ==
    ASSUME NEW q \in Quests \union OtherQuests, NEW id \in Nat, NEW p \in Parties,
           NEW hps \in Seq(0..MaxHp), NEW kit \in Seq(0..ToolUses),
           Len(p.members) <= Len(hps),
           NEW b, b = build_battle_start(q, id, p, hps, kit)
    PROVE  /\ b \in BattleRow /\ b.quest = q /\ b.battle_id = id
           /\ Len(b.hps) = Len(b.members)
<1> DEFINE n == Len(p.members)
           taken == SubSeq(hps, 1, n)
           members == p.members
<1>1. members \in Seq(Nat) /\ n \in Nat BY PartyHasMembers
<1>2. Len(hps) \in Nat BY LenProperties
<1>3. \A i \in 1..n : hps[i] \in 0..MaxHp
  <2> HIDE DEF n
  <2> SUFFICES ASSUME NEW i \in 1..n PROVE hps[i] \in 0..MaxHp OBVIOUS
  <2>1. i \in 1..Len(hps) BY <1>1, <1>2 DEF n
  <2> QED BY <2>1, ElementOfSeq
<1>4. taken \in Seq(0..MaxHp) /\ Len(taken) = n
  <2> HIDE DEF n
  <2>1. /\ SubSeq(hps, 1, n) \in Seq(0..MaxHp)
        /\ Len(SubSeq(hps, 1, n)) = IF 1 <= n THEN n - 1 + 1 ELSE 0
    <3>1. 1 \in Int /\ n \in Int BY <1>1
    <3> QED BY <1>3, <3>1, SubSeqProperties
  <2> QED BY <1>1, <2>1
<1>5. b = [quest |-> q, battle_id |-> id, members |-> members, hps |-> taken,
           tools |-> kit, status |-> "fighting"]
  BY DEF build_battle_start
<1> HIDE DEF taken, members
<1>6. b \in BattleRow BY <1>1, <1>4, <1>5 DEF BattleRow
<1>7. b.quest = q /\ b.battle_id = id /\ b.hps = taken /\ b.members = members BY <1>5
<1> QED BY <1>4, <1>6, <1>7 DEF members

LEMMA StepIsAnOption ==
    ASSUME NEW r \in Run, r.next <= Len(r.steps), ~AtEnd(r)
    PROVE  Step(r) \in Option
<1> DEFINE steps == r.steps
           i == r.next + 1
<1>1. steps \in Seq(Option) /\ r.next \in Nat BY DEF Run
<1>2. Len(steps) \in Nat BY <1>1, LenProperties
<1>3. i \in 1..Len(steps) BY <1>1, <1>2 DEF AtEnd
<1>4. Step(r) = steps[i] BY DEF Step
<1> HIDE DEF steps, i
<1> QED BY <1>1, <1>3, <1>4, ElementOfSeq

LEMMA ExplorationFights ==
    ASSUME ExplorationInv, NEW q \in Quests, exploration_battle_start(q)
    PROVE  ExplorationInv'
<1> DEFINE r == runs[q]
           p == party[r.number]
           s == [r EXCEPT !.pending = TRUE]
<1>1. /\ Outside /\ q \in Running /\ ~AtEnd(r) /\ Step(r).kind = Battle /\ PartyFits(p, r)
      /\ battle' = build_battle_start(q, Step(r).battle_id, p, r.hps, r.tools)
      /\ runs' = [runs EXCEPT ![q] = s] /\ progress(s)
      /\ UNCHANGED <<clears, party, stamina, now, paid>>
  BY Zenon DEF exploration_battle_start, battle_start
<1>2. ExplorationTypeOK /\ RunTables BY InvHasTables DEF ExplorationInv
<1>3. r \in Run /\ r.quest = q BY <1>1, <1>2, RunningIsARun
<1>4. /\ r.next <= Len(r.steps) /\ r.exp = Cardinality(Fights(r.steps, r.next))
  BY <1>1, <1>2 DEF RunTables, WalksAreKept
<1>5. Step(r) \in Option BY <1>1, <1>3, <1>4, StepIsAnOption
<1>6. p \in Parties
  <2>1. r.number \in PartyNumbers BY <1>3 DEF Run
  <2> QED BY <1>2, <2>1 DEF ExplorationTypeOK
<1> DEFINE id == Step(r).battle_id
           hps == r.hps
           kit == r.tools
<1> HIDE DEF r, p
<1>7. hps \in Seq(0..MaxHp) /\ kit \in Seq(0..ToolUses) BY <1>3 DEF Run
<1>8. id \in Nat BY <1>5 DEF Option
<1>9. Len(p.members) <= Len(hps) BY <1>1 DEF PartyFits
<1>10. battle' = build_battle_start(q, id, p, hps, kit) BY <1>1
<1> HIDE DEF id, hps, kit
<1>11. /\ battle' \in BattleRow /\ battle'.quest = q /\ battle'.battle_id = id
       /\ Len(battle'.hps) = Len(battle'.members)
  BY <1>6, <1>7, <1>8, <1>9, <1>10, BattleIsBuilt
<1>12. battle' # NoBattle
  <2>1. q # 0 BY QuestsArePositive
  <2> QED BY <1>11, <2>1 DEF NoBattle
<1>13. s \in Run BY <1>3 DEF Run
<1>14. /\ s.quest = r.quest /\ s.steps = r.steps /\ s.exp = r.exp
       /\ s.next = r.next /\ s.pending = TRUE
  BY <1>3 DEF Run
<1> HIDE DEF s
<1>15. /\ s.quest = q /\ s.next <= Len(s.steps)
       /\ s.exp = Cardinality(Fights(s.steps, s.next))
  BY <1>3, <1>4, <1>14, Zenon
<1>16. \A x \in Running : IsStory[x] = IsStory[q] => x = q
  BY <1>1, <1>2 DEF RunTables, OneOfAClass
<1>17. /\ RunTables'
       /\ Running' = Running \union {q}
       /\ runs'[q] = s
       /\ \A x \in Quests : x # q => runs'[x] = runs[x]
  BY <1>1, <1>2, <1>13, <1>15, <1>16, RunIsPut
<1>18. ~AtEnd(s) /\ Step(s).kind = Battle /\ Step(s).battle_id = id
  BY <1>1, <1>14 DEF AtEnd, Step, id
<1>19. PendingIsTheBattle'
  <2> SUFFICES ASSUME NEW x \in Running'
               PROVE  /\ runs'[x].pending <=> battle' # NoBattle /\ battle'.quest = x
                      /\ runs'[x].pending =>
                            /\ ~AtEnd(runs'[x])
                            /\ Step(runs'[x]).kind = Battle
                            /\ Step(runs'[x]).battle_id = battle'.battle_id
                            /\ Len(battle'.hps) = Len(battle'.members)
    BY Zenon DEF PendingIsTheBattle, AtEnd, Step
  <2>1. CASE x = q BY <1>11, <1>12, <1>14, <1>17, <1>18, <2>1
  <2>2. CASE x # q
    <3>1. x \in Running /\ runs'[x] = runs[x] BY <1>17, <2>2 DEF Running
    <3>2. runs'[x].pending = FALSE BY <1>1, <3>1, NoneIsPending
    <3> QED BY <1>11, <2>2, <3>2
  <2> QED BY <2>1, <2>2
<1>20. Running' \subseteq Running /\ battle' \in {NoBattle} \union BattleRow
  BY <1>1, <1>11, <1>17
<1> QED BY <1>1, <1>17, <1>19, <1>20, RunsMove

LEMMA OtherQuestsAreNone == OtherQuests \intersect Quests = {}
BY ExplorationAssumption

LEMMA OtherBattleStarts ==
    ASSUME ExplorationInv, NEW q \in OtherQuests, NEW number \in PartyNumbers,
           other_battle_start(q, number)
    PROVE  ExplorationInv'
<1> DEFINE p == party[number]
           hps == FullHealth(p)
           kit == FullTools(p)
<1>1. /\ Outside /\ battle' = build_battle_start(q, 0, p, hps, kit)
      /\ UNCHANGED <<runs, shown, clears, party, stamina, now, paid>>
  BY DEF other_battle_start
<1>2. ExplorationTypeOK /\ RunTables BY InvHasTables DEF ExplorationInv
<1>3. p \in Parties BY <1>2 DEF ExplorationTypeOK
<1> HIDE DEF p
<1>4. /\ hps \in Seq(0..MaxHp) /\ kit \in Seq(0..ToolUses)
      /\ Len(p.members) <= Len(hps)
  BY <1>3, PartyHasMembers
<1> HIDE DEF hps, kit
<1>5. battle' \in BattleRow /\ battle'.quest = q
  BY <1>1, <1>3, <1>4, BattleIsBuilt
<1>6. Running' = Running BY <1>1 DEF Running
<1>7. RunTables'
  BY <1>1, <1>2, <1>6 DEF RunTables, WalksAreKept, OneOfAClass, ShownIsTheRun, ShownIsNoMore
<1>8. PendingIsTheBattle'
  <2> SUFFICES ASSUME NEW x \in Running'
               PROVE  runs'[x].pending = FALSE /\ battle'.quest # x
    BY Zenon DEF PendingIsTheBattle
  <2>1. x \in Running /\ x \in Quests BY <1>6 DEF Running
  <2>2. runs[x].pending = FALSE BY <1>1, <2>1, NoneIsPending
  <2> QED BY <1>1, <1>5, <2>1, <2>2, OtherQuestsAreNone
<1>9. Running' \subseteq Running /\ battle' \in {NoBattle} \union BattleRow
  BY <1>5, <1>6
<1> QED BY <1>1, <1>7, <1>8, <1>9, RunsMove

LEMMA BattleGoesOn ==
    ASSUME ExplorationInv, battle # NoBattle,
           NEW hps \in [1..Len(battle.hps) -> 0..MaxHp],
           NEW kit \in [1..Len(battle.tools) -> 0..ToolUses],
           NEW status \in {"fighting", "won", "lost"},
           battle_attack(hps, kit, status)
    PROVE  ExplorationInv'
<1>1. /\ battle' = [battle EXCEPT !.hps = hps, !.tools = kit, !.status = status]
      /\ UNCHANGED <<runs, shown, clears, party, stamina, now, paid>>
  BY DEF battle_attack
<1>2. /\ battle \in BattleRow /\ Len(battle.hps) \in Nat /\ Len(battle.tools) \in Nat
  BY BattleIsARow
<1> DEFINE n == Len(battle.hps)
           m == Len(battle.tools)
<1>3. hps \in Seq(0..MaxHp) /\ Len(hps) = n
  <2>1. n \in Nat /\ hps \in [1..n -> 0..MaxHp] BY <1>2
  <2> HIDE DEF n
  <2> QED BY <2>1, FunctionIsSeq
<1>4. kit \in Seq(0..ToolUses)
  <2>1. m \in Nat /\ kit \in [1..m -> 0..ToolUses] BY <1>2
  <2> HIDE DEF m
  <2> QED BY <2>1, FunctionIsSeq
<1>5. battle' \in BattleRow BY <1>1, <1>2, <1>3, <1>4 DEF BattleRow
<1>6. /\ battle'.quest = battle.quest /\ battle'.battle_id = battle.battle_id
      /\ battle'.members = battle.members /\ battle'.hps = hps
  BY <1>1, <1>2 DEF BattleRow
<1>7. RunTables BY InvHasTables
<1>8. Running' = Running BY <1>1 DEF Running
<1>9. RunTables'
  BY <1>1, <1>7, <1>8 DEF RunTables, WalksAreKept, OneOfAClass, ShownIsTheRun, ShownIsNoMore
<1>10. PendingIsTheBattle'
  <2> SUFFICES ASSUME NEW x \in Running'
               PROVE  /\ runs'[x].pending <=> battle' # NoBattle /\ battle'.quest = x
                      /\ runs'[x].pending =>
                            /\ ~AtEnd(runs'[x])
                            /\ Step(runs'[x]).kind = Battle
                            /\ Step(runs'[x]).battle_id = battle'.battle_id
                            /\ Len(battle'.hps) = Len(battle'.members)
    BY Zenon DEF PendingIsTheBattle, AtEnd, Step
  <2>1. x \in Running /\ x \in Quests /\ runs'[x] = runs[x] BY <1>1, <1>8 DEF Running
  <2>2. /\ runs[x].pending <=> battle.quest = x
        /\ runs[x].pending =>
            /\ ~AtEnd(runs[x])
            /\ Step(runs[x]).kind = Battle
            /\ Step(runs[x]).battle_id = battle.battle_id
            /\ Len(battle.hps) = Len(battle.members)
    BY <2>1, Zenon DEF ExplorationInv, PendingIsTheBattle
  <2>3. battle'.quest = x => battle' # NoBattle
    BY <2>1, QuestsArePositive DEF NoBattle
  <2>4. Len(battle'.hps) = Len(battle.hps) BY <1>3, <1>6
  <2> QED BY <1>6, <2>1, <2>2, <2>3, <2>4, Zenon
<1>11. Running' \subseteq Running /\ battle' \in {NoBattle} \union BattleRow
  BY <1>5, <1>8
<1> QED BY <1>1, <1>9, <1>10, <1>11, RunsMove

LEMMA BattleIsWon ==
    ASSUME ExplorationInv, NEW q \in Quests, exploration_battle_finish(q)
    PROVE  ExplorationInv'
<1> DEFINE r == runs[q]
           s == Advance(r)
           won == Won(r)
<1>1. /\ battle # NoBattle /\ battle.quest = q /\ q \in Running /\ r.pending
      /\ runs' = [runs EXCEPT ![q] = won] /\ progress(won) /\ battle' = NoBattle
      /\ UNCHANGED <<clears, party, stamina, now, paid>>
  BY DEF exploration_battle_finish
<1>2. ExplorationTypeOK /\ RunTables BY InvHasTables DEF ExplorationInv
<1>3. r \in Run /\ r.quest = q BY <1>1, <1>2, RunningIsARun
<1>4. /\ r.next <= Len(r.steps) /\ r.exp = Cardinality(Fights(r.steps, r.next))
  BY <1>1, <1>2 DEF RunTables, WalksAreKept
<1>5. ~AtEnd(r) /\ Step(r).kind = Battle
  BY <1>1, Zenon DEF ExplorationInv, PendingIsTheBattle
<1>6. battle.hps \in Seq(0..MaxHp) /\ battle.tools \in Seq(0..ToolUses)
  BY <1>1, BattleIsARow
<1>7. \A x \in Running : IsStory[x] = IsStory[q] => x = q
  BY <1>1, <1>2 DEF RunTables, OneOfAClass
<1>8. \A x \in Running : x # q => runs[x].pending = FALSE
  <2> SUFFICES ASSUME NEW x \in Running, x # q PROVE runs[x].pending = FALSE OBVIOUS
  <2>1. runs[x].pending \in BOOLEAN BY <1>2, RunningIsARun DEF Run
  <2>2. runs[x].pending => battle.quest = x
    BY Zenon DEF ExplorationInv, PendingIsTheBattle
  <2> QED BY <1>1, <2>1, <2>2
<1>9. won = [s EXCEPT !.hps = battle.hps, !.tools = battle.tools,
                      !.exp = @ + 1, !.fought = TRUE, !.pending = FALSE]
  BY DEF Won
<1> HIDE DEF r, won
<1>10. /\ s \in Run
       /\ s.quest = r.quest /\ s.steps = r.steps /\ s.exp = r.exp
       /\ s.pending = r.pending
       /\ s.next <= Len(s.steps)
       /\ Fights(s.steps, s.next) = Fights(r.steps, r.next + 1)
  BY <1>3, <1>4, <1>5, RunAdvances
<1> HIDE DEF s
<1>11. s.exp + 1 \in Nat BY <1>10 DEF Run
<1>12. won \in Run BY <1>6, <1>9, <1>10, <1>11 DEF Run
<1>13. /\ won.quest = s.quest /\ won.steps = s.steps /\ won.exp = s.exp + 1
       /\ won.next = s.next /\ won.pending = FALSE
  BY <1>9, <1>10 DEF Run
<1>14. won.exp = Cardinality(Fights(won.steps, won.next))
  <2> DEFINE m == r.next
             steps == r.steps
  <2>1. m \in Nat BY <1>3 DEF Run
  <2>2. steps[m + 1].kind = Battle BY <1>5 DEF Step
  <2> HIDE DEF m, steps
  <2>3. Cardinality(Fights(steps, m + 1)) = Cardinality(Fights(steps, m)) + 1
    BY <2>1, <2>2, FightsGrow
  <2>4. Cardinality(Fights(won.steps, won.next)) = Cardinality(Fights(steps, m + 1))
    BY <1>10, <1>13, Zenon DEF m, steps
  <2>5. won.exp = Cardinality(Fights(steps, m)) + 1
    BY <1>4, <1>10, <1>13, Zenon DEF m, steps
  <2> QED BY <2>3, <2>4, <2>5
<1>15. won.quest = q /\ won.next <= Len(won.steps) BY <1>3, <1>10, <1>13
<1>16. /\ RunTables'
       /\ Running' = Running \union {q}
       /\ runs'[q] = won
       /\ \A x \in Quests : x # q => runs'[x] = runs[x]
  BY <1>1, <1>2, <1>7, <1>12, <1>14, <1>15, RunIsPut
<1>17. \A x \in Running' : runs'[x].pending = FALSE
  BY <1>8, <1>13, <1>16 DEF Running
<1>18. Outside' BY <1>1 DEF Outside
<1>19. PendingIsTheBattle' BY <1>17, <1>18, PendingStaysOff
<1>20. Running' \subseteq Running /\ battle' \in {NoBattle} \union BattleRow
  BY <1>1, <1>16
<1> QED BY <1>1, <1>16, <1>19, <1>20, RunsMove

LEMMA OtherBattleFinishes ==
    ASSUME ExplorationInv, other_battle_finish
    PROVE  ExplorationInv'
<1>1. /\ battle.quest \notin Quests /\ battle' = NoBattle
      /\ UNCHANGED <<runs, shown, clears, party, stamina, now, paid>>
  BY DEF other_battle_finish
<1>2. ExplorationTypeOK /\ RunTables BY InvHasTables DEF ExplorationInv
<1>3. Running' = Running BY <1>1 DEF Running
<1>4. RunTables'
  BY <1>1, <1>2, <1>3 DEF RunTables, WalksAreKept, OneOfAClass, ShownIsTheRun, ShownIsNoMore
<1>5. \A x \in Running' : runs'[x].pending = FALSE
  <2> SUFFICES ASSUME NEW x \in Running' PROVE runs'[x].pending = FALSE OBVIOUS
  <2>1. x \in Running /\ x \in Quests /\ runs'[x] = runs[x] BY <1>1, <1>3 DEF Running
  <2>2. runs[x].pending \in BOOLEAN BY <1>2, <2>1, RunningIsARun DEF Run
  <2>3. runs[x].pending => battle.quest = x
    BY <2>1, Zenon DEF ExplorationInv, PendingIsTheBattle
  <2> QED BY <1>1, <2>1, <2>2, <2>3
<1>6. Outside' BY <1>1 DEF Outside
<1>7. PendingIsTheBattle' BY <1>5, <1>6, PendingStaysOff
<1> QED BY <1>1, <1>3, <1>4, <1>7, RunsMove

LEMMA BattleIsRetired ==
    ASSUME ExplorationInv, battle_retire
    PROVE  ExplorationInv'
<1> DEFINE q == battle.quest
           r == runs[q]
           s == [r EXCEPT !.pending = FALSE]
<1>1. /\ runs' = [x \in Quests |-> IF x = q /\ x \in Running
                                   THEN [runs[x] EXCEPT !.pending = FALSE]
                                   ELSE runs[x]]
      /\ battle' = NoBattle
      /\ UNCHANGED <<shown, clears, party, stamina, now, paid>>
  BY DEF battle_retire, retire_battle
<1>2. ExplorationTypeOK /\ RunTables BY InvHasTables DEF ExplorationInv
<1>3. runs \in [Quests -> {NoRun} \union Run] BY <1>2 DEF ExplorationTypeOK
<1>4. \A x \in Running : x # q => runs[x].pending = FALSE
  <2> SUFFICES ASSUME NEW x \in Running, x # q PROVE runs[x].pending = FALSE OBVIOUS
  <2>1. runs[x].pending \in BOOLEAN BY <1>2, RunningIsARun DEF Run
  <2>2. runs[x].pending => battle.quest = x
    BY Zenon DEF ExplorationInv, PendingIsTheBattle
  <2> QED BY <2>1, <2>2
<1>5. /\ RunTables' /\ Running' \subseteq Running
      /\ \A x \in Running' : runs'[x].pending = FALSE
  <2>1. CASE q \in Running
    <3>1. q \in Quests /\ r \in Run /\ r.quest = q BY <1>2, <2>1, RunningIsARun
    <3>2. /\ r.next <= Len(r.steps) /\ r.exp = Cardinality(Fights(r.steps, r.next))
          /\ shown[IsStory[q]] = Shown(r)
      BY <1>2, <2>1 DEF RunTables, WalksAreKept, ShownIsTheRun
    <3>3. runs' = [runs EXCEPT ![q] = s]
      <4> HIDE DEF q
      <4> QED BY <1>1, <1>3, <2>1, <3>1
    <3>4. \A x \in Running : IsStory[x] = IsStory[q] => x = q
      <4> HIDE DEF q
      <4> QED BY <1>2, <2>1 DEF RunTables, OneOfAClass
    <3>5. shown \in [BOOLEAN -> {NoRun} \union Progress] BY <1>2 DEF RunTables
    <3>6. IsStory[q] \in BOOLEAN BY <3>1, ClassesAreBoolean
    <3> HIDE DEF q, r
    <3>7. s \in Run BY <3>1 DEF Run
    <3>8. /\ s.quest = r.quest /\ s.steps = r.steps /\ s.exp = r.exp
          /\ s.next = r.next /\ s.pending = FALSE
      BY <3>1 DEF Run
    <3>9. Shown(s) = Shown(r) BY <3>1 DEF Shown, Run
    <3> HIDE DEF s
    <3>10. progress(s)
      <4>1. shown = [shown EXCEPT ![IsStory[q]] = Shown(r)] BY <3>2, <3>5, <3>6
      <4>2. s.quest = q BY <3>1, <3>8
      <4>3. shown' = shown BY <1>1
      <4> QED BY <3>9, <4>1, <4>2, <4>3, Zenon DEF progress
    <3>11. /\ s.quest = q /\ s.next <= Len(s.steps)
           /\ s.exp = Cardinality(Fights(s.steps, s.next))
      BY <3>1, <3>2, <3>8, Zenon
    <3>12. /\ RunTables'
           /\ Running' = Running \union {q}
           /\ runs'[q] = s
           /\ \A x \in Quests : x # q => runs'[x] = runs[x]
      BY <1>2, <3>1, <3>3, <3>4, <3>7, <3>10, <3>11, RunIsPut
    <3> QED BY <1>4, <2>1, <3>8, <3>12 DEF Running
  <2>2. CASE q \notin Running
    <3>1. runs' = runs
      <4> HIDE DEF q
      <4> QED BY <1>1, <1>3, <2>2
    <3>2. Running' = Running BY <3>1 DEF Running
    <3>3. RunTables'
      BY <1>1, <1>2, <3>1, <3>2
      DEF RunTables, WalksAreKept, OneOfAClass, ShownIsTheRun, ShownIsNoMore
    <3>4. \A x \in Running' : runs'[x].pending = FALSE
      <4> HIDE DEF q
      <4> QED BY <1>4, <2>2, <3>1, <3>2
    <3> QED BY <3>2, <3>3, <3>4
  <2> QED BY <2>1, <2>2
<1>6. Outside' BY <1>1 DEF Outside
<1>7. PendingIsTheBattle' BY <1>5, <1>6, PendingStaysOff
<1> QED BY <1>1, <1>5, <1>7, RunsMove

-----------------------------------------------------------------------------
(* The theorems. *)

LEMMA ExplorationBegins == ExplorationInit => ExplorationInv
<1> SUFFICES ASSUME ExplorationInit PROVE ExplorationInv OBVIOUS
<1>1. /\ runs = [q \in Quests |-> NoRun] /\ battle = NoBattle
      /\ shown = [story \in BOOLEAN |-> NoRun] /\ clears = [q \in Quests |-> 0]
      /\ party \in [PartyNumbers -> Parties]
      /\ stamina = InitialStamina /\ now = 0 /\ paid = [q \in Quests |-> 0]
  BY DEF ExplorationInit
<1>2. Running = {} BY <1>1 DEF Running
<1>3. ExplorationTypeOK BY <1>1, <1>2, ExplorationAssumption DEF ExplorationTypeOK
<1>4. WalksAreKept /\ PendingIsTheBattle /\ OneOfAClass /\ ShownIsTheRun
      /\ RunStaysFinishable
  BY <1>2
  DEF WalksAreKept, PendingIsTheBattle, OneOfAClass, ShownIsTheRun, RunStaysFinishable
<1>5. ShownIsNoMore BY <1>1 DEF ShownIsNoMore
<1>6. PaidBefore BY <1>1, <1>2 DEF PaidBefore
<1> QED BY <1>3, <1>4, <1>5, <1>6 DEF ExplorationInv

LEMMA ExplorationStep ==
    ExplorationInv /\ [ExplorationNext]_explorationVars => ExplorationInv'
<1> SUFFICES ASSUME ExplorationInv, [ExplorationNext]_explorationVars
             PROVE  ExplorationInv'
  OBVIOUS
<1>1. ASSUME NEW q \in Quests, NEW number \in PartyNumbers, exploration_start(q, number)
      PROVE  ExplorationInv'
  BY <1>1, ExplorationStarts
<1>2. ASSUME NEW q \in Quests, NEW point \in Points, exploration_explore(q, point)
      PROVE  ExplorationInv'
  BY <1>2, PointIsExplored
<1>3. ASSUME NEW q \in Quests, exploration_finish(q) PROVE ExplorationInv'
  BY <1>3, ExplorationFinishes
<1>4. ASSUME NEW q \in Quests, NEW number \in PartyNumbers,
             exploration_update_party(q, number)
      PROVE  ExplorationInv'
  BY <1>4, PartyIsUpdated
<1>5. ASSUME NEW q \in Quests, NEW n \in 1..MaxRepeat, exploration_skip(q, n)
      PROVE  ExplorationInv'
  BY <1>5, QuestIsSkipped
<1>6. ASSUME NEW q \in Quests, story_skip(q) PROVE ExplorationInv'
  BY <1>6, StoryIsSkipped
<1>7. ASSUME NEW q \in Quests, exploration_battle_start(q) PROVE ExplorationInv'
  BY <1>7, ExplorationFights
<1>8. ASSUME NEW q \in Quests, exploration_battle_finish(q) PROVE ExplorationInv'
  BY <1>8, BattleIsWon
<1>9. ASSUME NEW story \in BOOLEAN, exploration_retire(story) PROVE ExplorationInv'
  BY <1>9, ExplorationRetires
<1>10. ASSUME NEW number \in PartyNumbers, NEW p \in Parties, reduce_party(number, p)
       PROVE  ExplorationInv'
  BY <1>10, PartyIsChanged
<1>11. ASSUME NEW q \in OtherQuests, NEW number \in PartyNumbers,
              other_battle_start(q, number)
       PROVE  ExplorationInv'
  BY <1>11, OtherBattleStarts
<1>12. ASSUME battle # NoBattle,
              NEW hps \in [1..Len(battle.hps) -> 0..MaxHp],
              NEW kit \in [1..Len(battle.tools) -> 0..ToolUses],
              NEW status \in {"fighting", "won", "lost"},
              battle_attack(hps, kit, status)
       PROVE  ExplorationInv'
  BY <1>12, BattleGoesOn
<1>13. CASE other_battle_finish BY <1>13, OtherBattleFinishes
<1>14. CASE battle_retire BY <1>14, BattleIsRetired
<1>15. CASE Tick BY <1>15, TimePasses
<1>16. CASE UNCHANGED explorationVars
  <2>1. UNCHANGED <<runs, battle, shown, clears, party, stamina, now, paid>>
    BY <1>16 DEF explorationVars
  <2>2. /\ RunTables' /\ PendingIsTheBattle' /\ Running' = Running
        /\ battle' \in {NoBattle} \union BattleRow
    BY <2>1, RunsStay
  <2> QED BY <2>1, <2>2, RunsMove
<1> QED
  BY <1>1, <1>2, <1>3, <1>4, <1>5, <1>6, <1>7, <1>8, <1>9, <1>10, <1>11, <1>12,
     <1>13, <1>14, <1>15, <1>16, Zenon
  DEF ExplorationNext

LEMMA ExplorationInvariant == ExplorationSpec => []ExplorationInv
<1> QED BY ExplorationBegins, ExplorationStep, PTL DEF ExplorationSpec

\* The saved runs, their battle and the progress records keep their types.
THEOREM ExplorationTypeCorrectness == ExplorationSpec => []ExplorationTypeOK
<1> QED BY ExplorationInvariant, InvIsRight, PTL

\* A run waits for the battle of its step exactly while that battle is active,
\* and the client is shown the one run of each class as it is.
THEOREM RunsAreShown == ExplorationSpec => []RunIsShown
<1> QED BY ExplorationInvariant, InvIsRight, PTL

\* Every fight of a run pays once, every clear is paid for, and a run that was
\* paid for can be finished within its period.
THEOREM RunsArePaid == ExplorationSpec => []RunIsPaid
<1> QED BY ExplorationInvariant, InvIsRight, PTL

-----------------------------------------------------------------------------
(* Side by side: a behaviour of the five is a behaviour of each of them,   *)
(* which stutters while another one moves.                                 *)

LEMMA SideBySide ==
    ActivitiesSpec =>
        /\ AuthSpec /\ ShopSpec /\ BelongingsSpec /\ ModesSpec /\ ExplorationSpec
<1>1. ActivitiesInit =>
          AuthInit /\ ShopInit /\ BelongingsInit /\ ModesInit /\ ExplorationInit
  BY DEF ActivitiesInit
<1>2. [ActivitiesNext]_activitiesVars =>
          /\ [AuthNext]_authVars /\ [ShopNext]_shopVars /\ [BelongingsNext]_belongingsVars
          /\ [ModesNext]_modesVars /\ [ExplorationNext]_explorationVars
  BY Zenon DEF ActivitiesNext, activitiesVars
<1> QED
  BY <1>1, <1>2, PTL DEF ActivitiesSpec, AuthSpec, ShopSpec, BelongingsSpec, ModesSpec,
                         ExplorationSpec

\* The tables of every part keep their types, whichever part moves.
THEOREM ActivitiesTypeCorrectness == ActivitiesSpec => []ActivitiesTypeOK
<1>1. AuthInv /\ ShopInv /\ BelongingsInv /\ ModesInv /\ ExplorationTypeOK
          => ActivitiesTypeOK
  BY Zenon DEF AuthInv, ShopInv, BelongingsInv, ModesInv, ActivitiesTypeOK
<1>2. ShopSpec => []ShopInv BY ShopIsSound
<1>3. AuthSpec => []AuthInv BY AuthInvariance
<1>4. BelongingsSpec => []BelongingsInv BY BelongingsStart, BelongingsStep, PTL DEF BelongingsSpec
<1>5. ModesSpec => []ModesInv BY ModesStart, ModesStep, PTL DEF ModesSpec
<1> QED
  BY <1>1, <1>2, <1>3, <1>4, <1>5, ExplorationTypeCorrectness, SideBySide, PTL
=============================================================================
