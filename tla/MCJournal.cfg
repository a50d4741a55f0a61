CONSTANTS
    Accounts = {a1}
    RequestIds = {r1}
    NoId = noid
    Bodies = {b1, b2}
    RetentionSeconds = 1
    RetentionCount = 1
    Quests = {q1}
    NoQuest = noquest
    Requests <- MCAllRequests
    PruneBatch = 1
    MaxMutations = 4
    MaxTime = 2
SPECIFICATION Spec
INVARIANTS TypeOK RecoveryContext BattleTagsAgree
PROPERTIES ImplementsLedger
