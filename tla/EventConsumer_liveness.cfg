CONSTANTS
    e1 = e1
    g1 = g1
    c1 = c1
    c2 = c2
    t1 = t1
    t2 = t2
    Event <- MCEvent
    Garbled <- MCGarbled
    Consumer <- MCConsumer
    Tool <- MCTool
    Nobody = Nobody
    MaxLog = 2
    MaxForeign = 0
    MaxCommands = 0
    MaxFaults = 2
SPECIFICATION FairSpec
PROPERTY EveryEventIsSettled
