----------------------------- MODULE MCDispatch -----------------------------
(* Dispatch on small instances. *)
EXTENDS Dispatch, TLC

MCRequest(i, rt) == [acct |-> CHOOSE a \in Accounts : TRUE, id |-> i,
                     route |-> rt, body |-> CHOOSE b \in Bodies : TRUE]

\* Noncombat mutations of each kind against the life of a battle.
MCBattleRequests ==
    {MCRequest(NoId, rt) : rt \in {"gameplay", "home_write", "standard", "retire"}}

\* Retries of one id with two bodies, and on another route.
MCRetryRequests ==
    {[MCRequest(i, "gacha") EXCEPT !.body = b] : i \in RequestIds, b \in Bodies}
    \union {MCRequest(i, "home_read") : i \in RequestIds}

\* One journalled route is enough to fill the journal.
MCGrowthRequests == {MCRequest(NoId, "home_read")}

Symmetry == Permutations(Workers)
=============================================================================
