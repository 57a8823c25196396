SPECIFICATION ReadSpec
CONSTANTS
    k1 = k1
    k2 = k2
    w1 = w1
    w2 = w2
    t1 = t1
    t2 = t2
    t3 = t3
    r1 = r1
    r2 = r2
    Keys = {k1, k2}
    Procs = {w1, w2}
    ReadOnly = {}
    Threads = {t1, t2, t3}
    Proc <- TwoWriters
    TornSizes = {0, 1}
    MaxSegments = 4
    NoThread = NoThread
    Readers = {r1, r2}
SYMMETRY Symmetry
CONSTRAINT WritersThenReaders
INVARIANTS
    IndexPointsAtHeader
    AckedSurvivesRestart
PROPERTIES
    LoneReadsSucceed
    ReadsAreTheirBlocks
