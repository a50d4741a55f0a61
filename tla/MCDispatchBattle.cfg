CONSTANTS
    Accounts = {a1}
    RequestIds = {}
    NoId = noid
    Bodies = {b1}
    RetentionSeconds = 1
    RetentionCount = 1
    Quests = {q1}
    NoQuest = noquest
    Requests <- MCBattleRequests
    PruneBatch = 2
    MaxMutations = 3
    MaxTime = 0
    Workers = {w1, w2}
    MaintenanceEvery = 2
    Faults = {"panic"}
SPECIFICATION DispatchSpec
SYMMETRY Symmetry
INVARIANTS DispatchTypeOK SecondReadSucceeds
PROPERTIES NoncombatOutsideBattle
