CONSTANTS
    DaySeconds = 4
    DayStart = 1
    StaminaInterval = 2
    ManaInterval = 3
    StaminaLimit <- MCStaminaLimit
    ManaLimit = 1
    MaxStamina = 3
    MaxMana = 2
    SpareInterval = 2
    MaxSpare = 1
    StaminaPerPurchase = 1
    ManaPerPurchase = 1
    Prices <- MCPrices
    ManaPrice = 1
    DailyFree <- MCDailyFree
    PassEnd <- MCPassEnd
    RankBonus = 1
    Counts = {1}
    EnergyGems = 4
    MaxTime = 7
SPECIFICATION EnergySpec
PROPERTIES PriceListRestarts
