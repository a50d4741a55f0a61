------------------------------ MODULE MCEnergy ------------------------------
(* Energy with a day of a few seconds. *)
EXTENDS Energy

MCStaminaLimit == <<2, 3>>
MCPrices == <<1, 2>>
MCDailyFree == <<1>>
MCPassEnd == <<7>>
=============================================================================
