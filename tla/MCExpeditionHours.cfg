CONSTANTS
    Travellers = {1}
    ExpeditionSlots = {1}
    Destinations = {1, 2}
    DestinationEnd <- MCDestinationEnd
    Interval = 2
    Hour = 4
    SupplyHours = 2
    MaxHours = 2
    MaxExpeditionTime = 8
SPECIFICATION ExpeditionsSpec
INVARIANT HoursPaidOnce
CHECK_DEADLOCK FALSE
