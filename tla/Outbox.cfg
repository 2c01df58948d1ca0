CONSTANTS
    r1 = r1
    r2 = r2
    Event <- MCEvent
    Relay <- MCRelay
    Batch = 2
    MaxFailures = 1
    MaxRollbacks = 2
SPECIFICATION FairSpec
INVARIANTS
    SentIsPublished
    CopiesAreRetries
    RelayedInIdOrder
PROPERTY ImplementsStream
