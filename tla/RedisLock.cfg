CONSTANTS
    c1 = c1
    c2 = c2
    Call <- MCCall
    Waiter <- MCWaiter
    NoCall = NoCall
    TTL = 3
    Period = 1
    MaxLag = 0
    MaxFaults = 2
SPECIFICATION FairSpec
INVARIANTS
    HiccupSurvived
PROPERTIES
    OnlyTheHolderTouchesTheKey
    ImplementsLease
    DeadHolderGivesWay
    OvertakenIsTold
