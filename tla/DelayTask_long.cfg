CONSTANTS
    short1 = short1
    short2 = short2
    short3 = short3
    long1 = long1
    r1 = r1
    r2 = r2
    k1 = k1
    Task <- OneShort
    Long <- NoLong
    Key <- OneKey
    KeyOf <- SameKey
    Replica <- TwoReplicas
    NoTask = NoTask
    NoReplica = NoReplica
    Batch = 3
    LongWorkers = 1
    MaxAttempts = 2
    Heartbeat = 1
    Timeout = 3
    Bookkeeping = 2
    Minute = 1
    Hour = 2
    Timely = TRUE
    MaxRows = 1
    MaxErrors = 0
    MaxStops = 0
    MaxCrashes = 0
SPECIFICATION FairSpec
PROPERTY SettledInTheEnd
