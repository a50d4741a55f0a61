---------------------------- MODULE MCExpeditions ---------------------------
(* Two slots, two characters, a destination that closes and one that does not;
   an hour of three seconds that is no multiple of the interval. *)
EXTENDS Expeditions

DestinationEndValue == [d \in 1..2 |-> IF d = 1 THEN 5 ELSE 100]

\* TLC evaluates a definition once, but what a CONSTANT stands for at every use.
MCDestinationEnd == DestinationEndValue
=============================================================================
