------------------------------ MODULE MCCombat ------------------------------
(* Small battles for TLC: waits of a few ticks instead of hundreds. *)
EXTENDS Combat

\* Two waves; the enemies of the second take over id 11.
TwoWaves == <<{11}, {11, 12}>>
SecondBoss == <<{}, {11}>>

\* One wave without a boss.
OneEnemy == <<{11}>>
NoBoss == <<{}>>

\* Effects on the speed of ally 1; enemies that act
\* several times for one turn of an ally.
SomeSpeeds == [m \in Members |-> IF m = 1 THEN {2, 3} ELSE {2}]
SlowAllies == [m \in Members |-> IF m \in Allies THEN {2} ELSE IF m = 11 THEN {6} ELSE {3}]

\* Skills that cost no time beyond the least.
ShortSkills == {-3, 0}

MixedTools == [t \in Tools |-> <<"single", "all", "heal">>[t]]
=============================================================================
