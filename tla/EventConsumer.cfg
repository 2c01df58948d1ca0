CONSTANTS
    e1 = e1
    g1 = g1
    c1 = c1
    c2 = c2
    t1 = t1
    t2 = t2
    Event <- MCEvent
    Garbled <- MCGarbled
    Consumer <- MCConsumer
    Tool <- MCTool
    Nobody = Nobody
    MaxLog = 2
    MaxForeign = 1
    MaxCommands = 2
    MaxFaults = 1
SPECIFICATION Spec
SYMMETRY Symmetry
INVARIANTS
    CommittedIsDone
    PositionIsEarned
    HandledOnce
