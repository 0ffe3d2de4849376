CONSTANTS
    a1 = a1
    a2 = a2
    a3 = a3
    Accounts = {a1, a2, a3}
    Region <- MCRegion
    Address <- MCAddress
    BasePriority <- MCBasePriority
    MaxPriority = 2
    Percentage <- MCPercentage
    Skipping = {}
    PriorityModes = {TRUE, FALSE}
    PlayerLimit = 0
    PlayerHardLimit = 2
    LoginPerTick = 1
    PriorityReduction = 1
    MaxSessions = 3
SPECIFICATION LiveSpec
INVARIANTS TypeOK CountersMatch QueueHoldsTheWaiting QueueSorted  AddressesCounted
PROPERTIES PlacesAreGiven
