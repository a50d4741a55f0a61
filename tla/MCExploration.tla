---------------------------- MODULE MCExploration ----------------------------
(* Two story explorations that compete and another that closes early. *)
EXTENDS Exploration

gather(n) == [kind |-> Gather, points |-> n, battle_id |-> 0]
fight(id) == [kind |-> Battle, points |-> 0, battle_id |-> id]
talk == [kind |-> Talk, points |-> 0, battle_id |-> 0]

IsStoryValue == <<TRUE, TRUE, FALSE>>
AreasValue == << << {fight(1)}, {talk} >>,
              << {gather(1)} >>,
              << {talk}, {fight(1), gather(2)}, {talk}, {fight(2)} >> >>
PredecessorValue == <<0, 0, 1>>
MaxClearCountValue == <<1, 1, 3>>
EndAtValue == <<9, 9, 1>>
StaminaValue == <<1, 1, 1>>
PartiesValue == { [members |-> <<1>>, tools |-> 1],
               [members |-> <<1, 2>>, tools |-> 1],
               [members |-> <<2, 1>>, tools |-> 0] }

\* TLC evaluates a definition once, but what a CONSTANT stands for at every use.
MCAreas == AreasValue
MCEndAt == EndAtValue
MCIsStory == IsStoryValue
MCMaxClearCount == MaxClearCountValue
MCParties == PartiesValue
MCPredecessor == PredecessorValue
MCStamina == StaminaValue
=============================================================================
