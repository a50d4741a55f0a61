----------------------------- MODULE MCHousing ------------------------------
(* Two laps; an investigation listed before the one it needs. *)
EXTENDS Housing

Plain == [p \in {} |-> 0]
LevelRuleValue ==
    << << [cost |-> 0, rental |-> 0, options |-> Plain],
          [cost |-> 1, rental |-> 1, options |-> [p \in {1, 2} |-> 1]],
          [cost |-> 1, rental |-> 2, options |-> [p \in {2} |-> 2]] >>,
       << [cost |-> 0, rental |-> 1, options |-> Plain],
          [cost |-> 2, rental |-> 1, options |-> [p \in {1} |-> 1]] >> >>

Investigation(id, product, missions, requires) ==
    [id |-> id, key_product |-> product, missions |-> missions, requires |-> requires]
InvestigationsValue ==
    << Investigation(3, 0, {}, {2}), Investigation(2, 0, {[type |-> 1, count |-> 1]}, {1}),
       Investigation(1, 2, {}, {}) >>

\* TLC evaluates a definition once, but what a CONSTANT stands for at every use.
MCInvestigations == InvestigationsValue
MCLevelRule == LevelRuleValue
=============================================================================
