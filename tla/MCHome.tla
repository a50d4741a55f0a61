------------------------------- MODULE MCHome -------------------------------
(* A daily mission and a chain behind it, a counter of the resources that an
   account may have been stored with, an event tab that ends, and a week that
   begins on day 4. *)
EXTENDS Home

Rule == [cycle |-> None, task |-> None, counters |-> {}, maximum |-> FALSE, steps |-> <<1>>,
         prev |-> None, category |-> None, tab |-> None, guide |-> None, nav |-> FALSE,
         until |-> None]

MissionOfValue ==
    <<[Rule EXCEPT !.cycle = 1, !.counters = {<<"quest_clear", 1>>}, !.steps = <<1, 2>>,
                   !.category = 1],
      [Rule EXCEPT !.task = 1, !.steps = <<4>>, !.guide = 1],
      [Rule EXCEPT !.cycle = 2, !.counters = {<<"battle_win", 1>>, <<"quest_attempt", 1>>},
                   !.prev = 1, !.category = 1, !.steps = <<1, 3>>],
      [Rule EXCEPT !.counters = {<<"memoria_collection", 0>>}, !.maximum = TRUE, !.tab = 1,
                   !.steps = <<1, 2>>],
      [Rule EXCEPT !.cycle = 1, !.nav = TRUE, !.guide = 1, !.prev = 2],
      [Rule EXCEPT !.counters = {<<"login", 0>>}, !.steps = <<1, 2>>, !.category = 2]>>
TaskOfValue == <<[counters |-> {<<"quest_clear", 1>>, <<"item_received", 1>>}, maximum |-> FALSE],
              [counters |-> {}, maximum |-> FALSE]>>
CountStepsValue == <<[cycle |-> 1, steps |-> <<1, 2>>], [cycle |-> None, steps |-> <<1>>]>>
TabStepsValue == <<[until |-> 5, steps |-> <<1, 2>>]>>
BattleStepsValue == [q \in {1} |-> [missions |-> {1, 3}, steps |-> <<1, 2>>]]
MultiStepsValue == <<1, 2>>
DropsOfValue == <<[i \in {1} |-> 1]>>
MaxClearsValue == <<3>>
BonusOfValue == <<[days |-> 1, cyclic |-> FALSE, limit |-> None],
               [days |-> 1, cyclic |-> TRUE, limit |-> 2]>>
RecipeOfValue == <<[t \in {1} |-> 4]>>
RecipeCountsValue == <<1>>
AdditionCostsValue == <<1, 2>>
InitialClearsValue == <<1>>
InitialTasksValue == {<<2, 0>>, <<4, 0>>}

\* TLC evaluates a definition once, but what a CONSTANT stands for at every use.
MCAdditionCosts == AdditionCostsValue
MCBattleSteps == BattleStepsValue
MCBonusOf == BonusOfValue
MCCountSteps == CountStepsValue
MCDropsOf == DropsOfValue
MCInitialClears == InitialClearsValue
MCInitialTasks == InitialTasksValue
MCMaxClears == MaxClearsValue
MCMissionOf == MissionOfValue
MCMultiSteps == MultiStepsValue
MCRecipeCounts == RecipeCountsValue
MCRecipeOf == RecipeOfValue
MCTabSteps == TabStepsValue
MCTaskOf == TaskOfValue
=============================================================================
