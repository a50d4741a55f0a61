------------------------------- MODULE MCTown -------------------------------
(* Two phases of a street, three tools that pass one or two thresholds, dishes
   twice a day, and two stories of which one branches. *)
EXTENDS Town

PhasesValue == <<{1, 2}, {2}>>
GiftPointsValue == [g \in 1..3 |-> g]
ClosenessValue == <<[closeness |-> 2, cost |-> 2], [closeness |-> 3, cost |-> 1]>>
StoryKeysValue == [s \in 1..2 |-> [k \in {1} \ {s} |-> 1]]

\* TLC evaluates a definition once, but what a CONSTANT stands for at every use.
MCCloseness == ClosenessValue
MCGiftPoints == GiftPointsValue
MCPhases == PhasesValue
MCStoryKeys == StoryKeysValue
=============================================================================
