SPECIFICATION FairSpec
CONSTANTS
    a = a
    b = b
    c = c
    d = d
    e = e
    Requests = {a, b, c, d, e}
    Bundles <- TwoLists
    MAX_BATCH_SIZE = 2
INVARIANTS
    TimerWhenQueued
PROPERTY ServiceSpec
CHECK_DEADLOCK FALSE
