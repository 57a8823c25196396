SPECIFICATION FairSpec
CONSTANTS
    sA = sA
    sB = sB
    fact = fact
    event = event
    Sources = {sA, sB}
    DerivedKeys = {fact, event}
    Keys = {sA, sB, fact, event, Meta}
    TornSizes = {0, 1}
    OthersKeys = {sB}
    MaxOthers = 1
    Meta = Meta
    NoSource = NoSource
    Rows <- MixedRows
    InitialRows = 2
    BatchSize = 2
    MaxFacts = 1
    MaxEvents = 1
    MaxBlockRows = 1
    Faults = {"crash", "store", "batch", "save", "scanner"}
    MaxStarts = 2
    MaxFaults = 2
INVARIANTS
    
    DoneIsInStore
    
PROPERTY WorkerEnds
CHECK_DEADLOCK FALSE
