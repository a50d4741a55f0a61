------------------------------ MODULE MCModes ------------------------------
(* Two panels: the centre is a line of its own and part of a longer one. *)
EXTENDS Modes

LinesValue == {{2}, {1, 2}}
RankScoreValue == [r \in 1..2 |-> r]

\* TLC evaluates a definition once, but what a CONSTANT stands for at every use.
MCLines == LinesValue
MCRankScore == RankScoreValue
=============================================================================
