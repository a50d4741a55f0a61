---------------------------- MODULE MCActivities ----------------------------
(* Who signs in, what they buy, what they fight with, and where.  The five share
   no state: a behaviour is one of one of them. *)
EXTENDS MCAuth, MCShop, MCBelongings, MCModes, MCExploration

VARIABLE part

ActivitiesInit ==
    /\ part \in {"auth", "shop", "belongings", "modes", "exploration"}
    /\ AuthInit
    /\ ShopInit
    /\ BelongingsInit
    /\ ModesInit
    /\ ExplorationInit
    /\ part # "exploration" => party = [n \in PartyNumbers |-> CHOOSE p \in Parties : TRUE]

ActivitiesNext ==
    \/ part = "auth" /\ AuthNext
       /\ UNCHANGED <<part, shopVars, belongingsVars, modesVars, explorationVars>>
    \/ part = "shop" /\ ShopNext
       /\ UNCHANGED <<part, authVars, belongingsVars, modesVars, explorationVars>>
    \/ part = "belongings" /\ BelongingsNext
       /\ UNCHANGED <<part, authVars, shopVars, modesVars, explorationVars>>
    \/ part = "modes" /\ ModesNext
       /\ UNCHANGED <<part, authVars, shopVars, belongingsVars, explorationVars>>
    \/ part = "exploration" /\ ExplorationNext
       /\ UNCHANGED <<part, authVars, shopVars, belongingsVars, modesVars>>

activitiesVars == <<part, authVars, shopVars, belongingsVars, modesVars, explorationVars>>
ActivitiesSpec == ActivitiesInit /\ [][ActivitiesNext]_activitiesVars

(* The tables of the part that moves keep their types. *)
ActivitiesTypeOK ==
    /\ part = "auth" => AuthTypeOK
    /\ part = "shop" => ShopTypeOK
    /\ part = "belongings" => BelongingsTypeOK
    /\ part = "modes" => ModesTypeOK
    /\ part = "exploration" => ExplorationTypeOK
=============================================================================
