----------------------------- MODULE MCJournal -----------------------------
(* Journal on small instances. *)
EXTENDS Journal

MCRequest(i, rt, b) == [acct |-> CHOOSE a \in Accounts : TRUE,
                        id |-> i, route |-> rt, body |-> b]

\* A body the requests do not differ in.
MCBody == CHOOSE b \in Bodies : TRUE

\* Every route, under ids nobody repeats.
MCBattleRequests ==
    {MCRequest(NoId, rt, MCBody) :
        rt \in StartRoutes \union {"home_read", "attack", "finish", "retire"}}

\* Retries of chosen ids, also with another body or on another route.
MCRetryRequests ==
    {MCRequest(i, "gameplay", b) : i \in RequestIds, b \in Bodies}
    \union {MCRequest(i, rt, MCBody) :
               i \in RequestIds,
               rt \in {"gacha", "home_guarded", "special", "retire"}}
    \union {MCRequest(NoId, "home_write", MCBody)}

\* Both, so that retries happen in the middle of a battle.
MCAllRequests == MCBattleRequests \union MCRetryRequests
=============================================================================
