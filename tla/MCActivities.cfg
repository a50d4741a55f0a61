CONSTANTS
    \* Auth
    Usernames = {u1}
    Passwords = {p1, p2}
    Logins = {l1, l2}
    HandoffTtl = 1
    SessionTtl = 2
    PruneBatch = 1
    MaxAccounts = 3
    MaxGrants = 3
    MaxAuthTime = 3
    \* Shop
    ProductOf <- MCProductOf
    RandomProducts <- MCRandomProducts
    LineupSlots = 2
    LineupInterval = 1
    RefreshCosts <- MCRefreshCosts
    PieceTable <- MCPieceTable
    Boxes <- MCBoxes
    BoxPrice = 1
    PassDays = 2
    GrowthSteps <- MCGrowthSteps
    GrowthPrice = 1
    LotPoints = 1
    LotPrice = 1
    OfferPrice = 1
    OfferDays = 1
    BundleTokens = {1}
    WheelLimit = 1
    ChallengeScores = {1, 2}
    Quantities = {1, 2}
    DaySeconds = 2
    InitialGems = 2
    InitialTokens = 2
    InitialBundles = 1
    MaxSessions = 2
    MaxRequests = 4
    MaxShopTime = 2
    \* Belongings
    Slots = {1}
    MemoriaIds = {1}
    Holders = {"character", "member", "preset"}
    MaxConverted = 2
    MaxPartyTools = 1
    MaxShipMemorias = 1
    MaxBreaks = 1
    MaxExp = 1
    MaxThings = 2
    MaxAcquired = 3
    \* Modes
    Panels = {1, 2}
    Lines <- MCLines
    Center = 2
    LineRewards = {1, 2}
    Fighters = {"a", "b"}
    RankScore <- MCRankScore
    Scores = {0, 2}
    RaidLimit = 1
    MaxRaidDay = 2
    MaxWins = 3
    \* Exploration
    Quests = {1, 2, 3}
    IsStory <- MCIsStory
    Areas <- MCAreas
    Predecessor <- MCPredecessor
    MaxClearCount <- MCMaxClearCount
    EndAt <- MCEndAt
    Stamina <- MCStamina
    Skippable = {3}
    OtherQuests = {9}
    PartyNumbers = {1}
    Parties <- MCParties
    MaxHp = 1
    ToolUses = 1
    MaxRepeat = 2
    InitialStamina = 5
    MaxTime = 1
SPECIFICATION ActivitiesSpec
CHECK_DEADLOCK FALSE
INVARIANTS
    ActivitiesTypeOK
    SignInsAreOwned
    ShopPaysOnce
    ShopKeepsCount
    BelongingsKept
    ModesPayOnce
    RunIsShown
    RunIsPaid
PROPERTIES MaintenanceInvisible
