CONSTANTS
    GachaOf <- MCGachaOf
    ButtonOf <- MCButtonOf
    RatesOf <- MCRatesOf
    TutorialGacha = 2
    WishLists <- MCWishLists
    OwnedAtStart = {13}
    InitialWallet <- MCWallet
    Units = 20
    Selected = 5
    Unselected = 3
    Stone = 126
    MaxTalkClears = 2
    MaxGachaTime = 1
SPECIFICATION GachaSpec
CHECK_DEADLOCK FALSE
INVARIANT ListedIsPlayable
