----------------------------- MODULE MCAccount ------------------------------
(* What an account is rewarded for, draws, raises, sends out, builds and visits, and
   the database that is opened for it.  The seven share no state: a
   behaviour is one of one of them. *)
EXTENDS MCHome, MCGacha, MCGrowth, MCMigrations, MCExpeditions, MCHousing, MCTown

VARIABLE part

AccountInit ==
    /\ part \in {"home", "gacha", "growth", "migrations", "expeditions", "housing", "town"}
    /\ HomeInit
    /\ GachaInit
    /\ GrowthInit
    /\ ExpeditionsInit
    /\ HousingInit
    /\ TownInit
    /\ MigrationsInit
    /\ part # "migrations" => history = {} /\ ~metadata
    /\ part # "home" => acct.tasks = CHOOSE t \in InitialTasks : TRUE

AccountNext ==
    \/ part = "home" /\ HomeNext
       /\ UNCHANGED <<part, gachaVars, growthVars, migrationsVars, expeditionsVars, housingVars, townVars>>
    \/ part = "gacha" /\ GachaNext
       /\ UNCHANGED <<part, homeVars, growthVars, migrationsVars, expeditionsVars, housingVars, townVars>>
    \/ part = "growth" /\ GrowthNext
       /\ UNCHANGED <<part, homeVars, gachaVars, migrationsVars, expeditionsVars, housingVars, townVars>>
    \/ part = "migrations" /\ MigrationsNext
       /\ UNCHANGED <<part, homeVars, gachaVars, growthVars, expeditionsVars, housingVars, townVars>>
    \/ part = "expeditions" /\ ExpeditionsNext
       /\ UNCHANGED <<part, homeVars, gachaVars, growthVars, migrationsVars, housingVars, townVars>>
    \/ part = "housing" /\ HousingNext
       /\ UNCHANGED <<part, homeVars, gachaVars, growthVars, migrationsVars, expeditionsVars, townVars>>
    \/ part = "town" /\ TownNext
       /\ UNCHANGED <<part, homeVars, gachaVars, growthVars, migrationsVars, expeditionsVars, housingVars>>

accountVars == <<part, homeVars, gachaVars, growthVars, migrationsVars, expeditionsVars, housingVars, townVars>>
AccountSpec == AccountInit /\ [][AccountNext]_accountVars

(* The tables of the part that moves keep their types. *)
AccountTypeOK ==
    /\ part = "home" => HomeTypeOK
    /\ part = "gacha" => GachaTypeOK
    /\ part = "growth" => GrowthTypeOK
    /\ part = "migrations" => MigrationsTypeOK
    /\ part = "expeditions" => ExpeditionsTypeOK
    /\ part = "housing" => HousingTypeOK
    /\ part = "town" => TownTypeOK

(* What an account sends out, builds and visits pays for time, levels, points and
   triggers as often as they came about. *)
OutingsPay ==
    /\ part = "expeditions" => ExpeditionsPay
    /\ part = "housing" => HousePays
    /\ part = "town" => TownPays

(* Rewards of missions are paid once and for what happened in their cycle. *)
PaysWhatIsEarned == part = "home" => PaymentsEarned

(* Nothing that happened is lost to a mission, whichever request comes first. *)
KeepsProgress == part = "home" => ProgressKept

(* What went away again is remembered, and no id is given twice. *)
RemembersRemovals == part = "home" => RemovalsRemembered

(* Skips keep to the limit of the day and the additions paid for. *)
SkipsKeepToTheDay == part = "home" => SkipsWithinDay

(* Copies, steps and shares of a gacha add up. *)
DrawsAreCounted == part = "gacha" => DrawsKeepCount

(* Raising and resetting characters gains and loses nothing. *)
LevelsAddUp == part = "growth" => RaisingAddsUp
=============================================================================
