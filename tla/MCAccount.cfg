CONSTANTS
    \* Home
    MissionOf <- MCMissionOf
    TaskOf <- MCTaskOf
    CountSteps <- MCCountSteps
    TabSteps <- MCTabSteps
    Guides = {1}
    BattleSteps <- MCBattleSteps
    MultiItem = 1
    MultiSteps <- MCMultiSteps
    DropsOf <- MCDropsOf
    MaxClears <- MCMaxClears
    BattleEvents = {1}
    Memorias = {1}
    BonusOf <- MCBonusOf
    MailDays = 1
    RecipeOf <- MCRecipeOf
    RecipeCounts <- MCRecipeCounts
    RecipeTask = 2
    MaxDailyClear = 1
    AdditionCosts <- MCAdditionCosts
    InitialGems = 1
    SkipCounts = {1, 2}
    InitialClears <- MCInitialClears
    InitialTasks <- MCInitialTasks
    MaxIds = 2
    FirstDay = 3
    MaxDay = 4
    MaxRequests = 5
    \* Gacha
    GachaOf <- MCGachaOf
    ButtonOf <- MCButtonOf
    RatesOf <- MCRatesOf
    TutorialGacha = 2
    WishLists <- MCWishLists
    OwnedAtStart = {13}
    InitialWallet <- MCWallet
    Units = 20
    Selected = 5
    Unselected = 3
    Stone = 126
    MaxTalkClears = 2
    MaxGachaTime = 1
    \* Growth
    Raised = {1, 2}
    RoleOf <- MCRoleOf
    BoardPages <- MCBoardPages
    LevelExp <- MCLevelExp
    FirstLimit = 1
    LimitReleases <- MCLimitReleases
    FirstRarity = 1
    LastRarity = 2
    NeoPages <- MCNeoPages
    NeoLevel = 2
    BoardMaxPage = 2
    ExpValue <- MCExpValue
    ExpOrder <- MCExpOrder
    ColeRate = 50
    ResetLevel = 3
    QuestExp = 3
    Stock <- MCStock
    MaxSkips = 1
    MaxEarned = 3
    MaxResets = 1
    \* Migrations
    Processes = {server, command}
    EXPECTED_SCHEMA_VERSION = 3
    \* Expeditions
    Travellers = {1, 2}
    ExpeditionSlots = {1, 2}
    Destinations = {1, 2}
    DestinationEnd <- MCDestinationEnd
    Interval = 2
    Hour = 3
    SupplyHours = 2
    MaxHours = 2
    MaxExpeditionTime = 7
    \* Housing
    LevelRule <- MCLevelRule
    FirstLap = 1
    Investigations <- MCInvestigations
    CountRewards = {1, 3}
    BuildingMaterial = 4
    ProductionInterval = 2
    ProductionDay = 5
    LoanSeconds = 2
    OwnedTools = 2
    EventEnd = 7
    RewardEnd = 9
    MaxHouseTime = 9
    MaxEnhance = 2
    \* Town
    Phases <- MCPhases
    GiftPoints <- MCGiftPoints
    Closeness <- MCCloseness
    ServingTimes = {1, 2}
    TownDay = 3
    FirstDishes = 1
    MaxIdleness = 2
    StoryKeys <- MCStoryKeys
    Branching = {1}
    MaxTownTime = 7
    MaxPlays = 1
SPECIFICATION AccountSpec
CHECK_DEADLOCK FALSE
INVARIANTS
    AccountTypeOK
    PaysWhatIsEarned
    KeepsProgress
    RemembersRemovals
    SkipsKeepToTheDay
    DrawsAreCounted
    LevelsAddUp
    DatabaseOpens
    OutingsPay
PROPERTIES ListStaysAvailable
