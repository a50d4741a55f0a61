-------------------------------- MODULE Auth --------------------------------
(***************************************************************************)
(* Accounts, login grants and sessions.  Account commands run in processes *)
(* of their own, next to the server and outside its storage gate: a login  *)
(* reads the account, verifies the password, issues a grant and leaves it  *)
(* in a handoff file, in separate steps between which the server may       *)
(* delete the account and the username may be taken again.  A client       *)
(* exchanges the grant for a session, once.                                *)
(***************************************************************************)
EXTENDS Integers, FiniteSets

CONSTANTS
    Usernames,
    Passwords,
    Logins,       \* account processes running at a time
    HandoffTtl,   \* account.handoff_ttl_seconds
    SessionTtl,   \* session.ttl_seconds
    PruneBatch,   \* the LIMIT of one maintenance statement
    MaxAccounts,  \* bound: accounts ever created
    MaxGrants,    \* bound: grants ever issued
    MaxAuthTime       \* bound: clock

\* The tables check expires_at > issued_at.
ASSUME AuthAssumption ==
    /\ HandoffTtl \in Nat \ {0}
    /\ SessionTtl \in Nat \ {0}
    /\ PruneBatch \in Nat \ {0}
    /\ MaxAccounts \in Nat
    /\ MaxGrants \in Nat
    /\ MaxAuthTime \in Nat

VARIABLES
    accounts,     \* rows of accounts
    nextAccount,  \* the next AUTOINCREMENT account_id
    players,      \* the accounts with a player_state row
    grants,       \* rows of auth_grants; the id stands for the token
    nextGrant,
    sessions,     \* rows of sessions; the token is made up by each sign-in
    login,        \* per account process: where it is and what it has read
    handoff,      \* the handoff file: absent, empty or the token in it
    held,         \* the tokens clients have taken from the file
    authTime,
    verified,     \* history: the credentials behind each grant
    opened        \* history: how many sessions each grant has opened

authVars == <<accounts, nextAccount, players, grants, nextGrant, sessions,
              login, handoff, held, authTime, verified, opened>>

Absent == -1
Empty == 0
GrantIds == 1..MaxGrants

Account == [id: Nat, user: Usernames, pw: Passwords]
Grant == [id: GrantIds, acct: Nat, expires: Nat, revoked: BOOLEAN]
Session == [grant: GrantIds, acct: Nat, expires: Nat]
Credentials == [grant: GrantIds, user: Usernames, pw: Passwords]

IdleLogin == [pc |-> "idle", account |-> {}, grant |-> 0]

AuthTypeOK ==
    /\ accounts \subseteq Account
    /\ nextAccount \in Nat
    /\ players \subseteq {a.id : a \in accounts}
    /\ grants \subseteq Grant
    /\ nextGrant \in Nat \ {0}
    /\ sessions \subseteq Session
    /\ login \in [Logins -> [pc: {"idle", "read", "issued"},
                             account: SUBSET Account, grant: 0..MaxGrants]]
    /\ handoff \in {Absent, Empty} \union GrantIds
    /\ held \subseteq GrantIds
    /\ authTime \in Nat
    /\ verified \subseteq Credentials
    /\ opened \in [GrantIds -> Nat]

AuthInit ==
    /\ accounts = {}
    /\ nextAccount = 1
    /\ players = {}
    /\ grants = {}
    /\ nextGrant = 1
    /\ sessions = {}
    /\ login = [l \in Logins |-> IdleLogin]
    /\ handoff = Absent
    /\ held = {}
    /\ authTime = 0
    /\ verified = {}
    /\ opened = [g \in GrantIds |-> 0]

-----------------------------------------------------------------------------
(* The account commands *)

\* Mutant of NewAccountId: a plain rowid, which reuses the id of the newest
\* account once that is deleted.
ReusedRowId == 1 + Cardinality(accounts)

NewAccountId == nextAccount

\* Usernames are UNIQUE.
create_account(u, p) ==
    /\ nextAccount <= MaxAccounts
    /\ \A a \in accounts : a.user # u
    /\ accounts' = accounts \union {[id |-> NewAccountId, user |-> u, pw |-> p]}
    /\ nextAccount' = nextAccount + 1
    /\ UNCHANGED <<players, grants, nextGrant, sessions, login, handoff, held,
                   authTime, verified, opened>>

\* The login command reads the row and verifies the password against it.
account_by_username(l, u, p) ==
    /\ login[l].pc = "idle"
    /\ \E a \in accounts :
        /\ a.user = u /\ a.pw = p
        /\ login' = [login EXCEPT ![l] = [pc |-> "read", account |-> {a},
                                          grant |-> 0]]
    /\ UNCHANGED <<accounts, nextAccount, players, grants, nextGrant, sessions,
                   handoff, held, authTime, verified, opened>>

\* The foreign key refuses a grant for an account that is gone.
issue_grant(l) ==
    /\ login[l].pc = "read"
    /\ nextGrant <= MaxGrants
    /\ \E a \in login[l].account :
        IF \E b \in accounts : b.id = a.id
        THEN /\ grants' = grants \union {[id |-> nextGrant, acct |-> a.id,
                                          expires |-> authTime + HandoffTtl,
                                          revoked |-> FALSE]}
             /\ nextGrant' = nextGrant + 1
             /\ verified' = verified \union {[grant |-> nextGrant,
                                              user |-> a.user, pw |-> a.pw]}
             /\ login' = [login EXCEPT ![l] = [pc |-> "issued", account |-> {},
                                               grant |-> nextGrant]]
        ELSE /\ login' = [login EXCEPT ![l] = IdleLogin]
             /\ UNCHANGED <<grants, nextGrant, verified>>
    /\ UNCHANGED <<accounts, nextAccount, players, sessions, handoff, held,
                   authTime, opened>>

\* create_new: a file that is there already is never overwritten; the grant
\* just issued then reaches nobody.
write_handoff(l) ==
    /\ login[l].pc = "issued"
    /\ handoff' = IF handoff = Absent THEN login[l].grant ELSE handoff
    /\ login' = [login EXCEPT ![l] = IdleLogin]
    /\ UNCHANGED <<accounts, nextAccount, players, grants, nextGrant, sessions,
                   held, authTime, verified, opened>>

\* The process is killed, possibly between creating the file and writing it.
LoginDies(l) ==
    /\ login[l].pc # "idle"
    /\ \/ UNCHANGED handoff
       \/ login[l].pc = "issued" /\ handoff = Absent /\ handoff' = Empty
    /\ login' = [login EXCEPT ![l] = IdleLogin]
    /\ UNCHANGED <<accounts, nextAccount, players, grants, nextGrant, sessions,
                   held, authTime, verified, opened>>

\* The launcher takes the file away and keeps its token.
TakeHandoff ==
    /\ handoff # Absent
    /\ held' = held \union ({handoff} \ {Empty})
    /\ handoff' = Absent
    /\ UNCHANGED <<accounts, nextAccount, players, grants, nextGrant, sessions,
                   login, authTime, verified, opened>>

-----------------------------------------------------------------------------
(* The server *)

\* Mutant of resolve_grant: a revoked grant still opens sessions.
RevokedGrantAccepted(t) == {g \in grants : g.id = t /\ g.expires > authTime}

\* The rows the UPDATE of a sign-in finds.
resolve_grant(t) == {g \in grants : g.id = t /\ ~g.revoked /\ g.expires > authTime}

\* One transaction: revoke the grant, initialize the player, open the session.
\* The client may repeat it as often as it likes.
consume_grant_and_initialize(t) ==
    /\ t \in held
    /\ \E g \in resolve_grant(t) :
        /\ grants' = (grants \ {g}) \union {[g EXCEPT !.revoked = TRUE]}
        /\ players' = players \union {g.acct}
        /\ sessions' = sessions \union {[grant |-> t, acct |-> g.acct,
                                         expires |-> authTime + SessionTtl]}
        /\ opened' = [opened EXCEPT ![t] = @ + 1]
    /\ UNCHANGED <<accounts, nextAccount, nextGrant, login, handoff, held, authTime,
                   verified>>

\* The account a session token resolves to.
resolve_session(s) ==
    {a \in accounts : s \in sessions /\ a.id = s.acct /\ s.expires > authTime}

\* Mutant of delete_account: the player state is not cascaded.
DeleteKeepsPlayer(s) ==
    /\ resolve_session(s) # {}
    /\ accounts' = {a \in accounts : a.id # s.acct}
    /\ grants' = {g \in grants : g.acct # s.acct}
    /\ sessions' = {t \in sessions : t.acct # s.acct}
    /\ UNCHANGED <<nextAccount, players, nextGrant, login, handoff, held, authTime,
                   verified, opened>>

\* A client deletes its account; everything the account owns cascades.
delete_account(s) ==
    /\ resolve_session(s) # {}
    /\ accounts' = {a \in accounts : a.id # s.acct}
    /\ players' = players \ {s.acct}
    /\ grants' = {g \in grants : g.acct # s.acct}
    /\ sessions' = {t \in sessions : t.acct # s.acct}
    /\ UNCHANGED <<nextAccount, nextGrant, login, handoff, held, authTime, verified,
                   opened>>

\* Mutant of Expired: rows go in the last second of their validity.
ExpiredTooEarly(row) == row.expires <= authTime + 1

Expired(row) == row.expires <= authTime

\* A DELETE with a LIMIT removes that many of the rows, or all of them.
Batch(rows) ==
    {D \in SUBSET rows : \/ Cardinality(D) = PruneBatch
                         \/ D = rows /\ Cardinality(D) < PruneBatch}

prune_expired ==
    /\ \E G \in Batch({g \in grants : Expired(g)}) : grants' = grants \ G
    /\ \E S \in Batch({s \in sessions : Expired(s)}) : sessions' = sessions \ S
    /\ UNCHANGED <<accounts, nextAccount, players, nextGrant, login, handoff,
                   held, authTime, verified, opened>>

AuthTick ==
    /\ authTime < MaxAuthTime
    /\ authTime' = authTime + 1
    /\ UNCHANGED <<accounts, nextAccount, players, grants, nextGrant, sessions,
                   login, handoff, held, verified, opened>>

-----------------------------------------------------------------------------
AuthNext ==
    \/ \E u \in Usernames, p \in Passwords : create_account(u, p)
    \/ \E l \in Logins, u \in Usernames, p \in Passwords :
           account_by_username(l, u, p)
    \/ \E l \in Logins : issue_grant(l) \/ write_handoff(l) \/ LoginDies(l)
    \/ TakeHandoff
    \/ \E t \in GrantIds : consume_grant_and_initialize(t)
    \/ \E s \in sessions : delete_account(s)
    \/ prune_expired
    \/ AuthTick

AuthSpec == AuthInit /\ [][AuthNext]_authVars

-----------------------------------------------------------------------------
(* Properties *)

\* A session opens the account whose password its login verified, and that
\* account has its player state, although the account may be deleted and its
\* username taken by somebody else while a login is between its steps, a grant
\* waits in the handoff file, or a session is still open.
OwnersOnly ==
    \A s \in sessions :
        \E a \in accounts :
            /\ a.id = s.acct
            /\ s.acct \in players
            /\ [grant |-> s.grant, user |-> a.user, pw |-> a.pw] \in verified

\* A grant opens at most one session, however often the client repeats the
\* sign-in because its answer was lost, and whatever maintenance removes.
GrantOpensOnce == \A t \in GrantIds : opened[t] <= 1

\* Maintenance is invisible: a grant or a session that would still have been
\* accepted leaves its table only when the grant is consumed or together with
\* its account.
MaintenanceInvisible ==
    [][ \A row \in (grants \ grants') \union (sessions \ sessions') :
            \/ row.expires <= authTime
            \/ row \in grants /\ \E g \in grants' : g.id = row.id
            \/ \A a \in accounts' : a.id # row.acct ]_authVars

(* A session belongs to whoever logged in for it, and to one login.        *)
SignInsAreOwned == OwnersOnly /\ GrantOpensOnce
=============================================================================
