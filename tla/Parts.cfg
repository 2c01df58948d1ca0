CONSTANTS
    c1 = c1
    c2 = c2
    c3 = c3
    c4 = c4
    r1 = r1
    r2 = r2
    r3 = r3
    w1 = w1
    w2 = w2
    p1 = p1
    p2 = p2
    g1 = g1
    g2 = g2
    g3 = g3
    d1 = d1
    d2 = d2
    d3 = d3
    d4 = d4
    j1 = j1
    j2 = j2
    j3 = j3
    v1 = v1
    v2 = v2
    l1 = l1
    l2 = l2
    u1 = u1
    u2 = u2
    s1 = s1
    s2 = s2
    NoReader = NoReader
    NoReplica = NoReplica
    NoRun = NoRun
    Nobody = Nobody
    Call <- MCCall
    Reader <- MCReader
    Writer <- MCWriter
    Process <- MCProcess
    Home <- MCHome
    Replica <- MCReplica
    Delivery <- MCDelivery
    Run <- MCRun
    Caller <- MCCaller
    Lookup <- MCLookup
    Subscriber <- MCSubscriber
    Service <- MCService
    MaxErrors = 2
    MaxCrashes = 1
    MaxExpiries = 1
    MaxCacheFaults = 1
    MaxInstance = 1
    MaxSeq = 1
    MaxMs = 2
    MaxIds = 3
    MaxIdFaults = 1
    MaxCallbackFaults = 3
    Timeout = 1
    Slack = 1
    MaxJobTime = 4
    MaxJobFaults = 2
    MaxVersion = 3
    MaxReadErrors = 1
    MaxListChanges = 2
    MaxNamingFaults = 1
    MaxComings = 3
    MaxWatchFaults = 2
SPECIFICATION PartsSpec
SYMMETRY Symmetry
INVARIANTS
    RunsAtMostOnce
    CacheReadsAreFresh
    CacheWaitersAreServed
    IdsAreUnique
    IdsGrow
    CallbackOkMeansHandled
    JobRunsAlone
    Current
    OnlyTheEmbraceBlocks
    SubscribersHearTheList
    LastRecordSaysHowThingsAre
    NothingClosedUnderneath
    OrderlyStop
PROPERTIES
    OnlyForward
