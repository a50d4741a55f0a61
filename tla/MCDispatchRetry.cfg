CONSTANTS
    Accounts = {a1}
    RequestIds = {r1}
    NoId = noid
    Bodies = {b1, b2}
    RetentionSeconds = 1
    RetentionCount = 1
    Quests = {q1}
    NoQuest = noquest
    Requests <- MCRetryRequests
    PruneBatch = 2
    MaxMutations = 3
    MaxTime = 2
    Workers = {w1, w2}
    MaintenanceEvery = 2
    Faults = {"panic", "crash", "prune_error"}
SPECIFICATION DispatchSpec
SYMMETRY Symmetry
INVARIANTS AnswersAreExecutions RetryWindow
