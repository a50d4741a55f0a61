------------------------------- MODULE MCShop -------------------------------
(* A product with a price that rises, one of the store with a pass, and a random
   shop that shows two of three products. *)
EXTENDS Shop

PriceStep(price, store, tokens, pass) ==
    [price |-> price, store |-> store, tokens |-> tokens, pass |-> pass]

ProductOfValue == <<[steps |-> <<PriceStep(0, 0, 1, FALSE), PriceStep(1, 0, 0, FALSE)>>, limit |-> 3],
                 [steps |-> <<PriceStep(1, 0, 0, FALSE)>>, limit |-> 0],
                 [steps |-> <<PriceStep(0, 2, 0, TRUE)>>, limit |-> 2]>>
RandomProductsValue == <<1, 2, 2>>
RefreshCostsValue == <<[count |-> 1, gems |-> 0], [count |-> 1, gems |-> 1]>>
PieceTableValue == <<[until |-> 1, price |-> 0], [until |-> 0, price |-> 1]>>
BoxesValue == <<[a |-> 1, b |-> 1], [a |-> 0, b |-> 1]>>
GrowthStepsValue == <<0, 1>>

\* TLC evaluates a definition once, but what a CONSTANT stands for at every use.
MCBoxes == BoxesValue
MCGrowthSteps == GrowthStepsValue
MCPieceTable == PieceTableValue
MCProductOf == ProductOfValue
MCRandomProducts == RandomProductsValue
MCRefreshCosts == RefreshCostsValue
=============================================================================
