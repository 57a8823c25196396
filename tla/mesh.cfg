SPECIFICATION Spec
CONSTANTS
    self = self
    pa = pa
    pb = pb
    Nodes = {self, pa, pb}
    Self = self
    Hits <- Found
    Finds <- Lists
    TopK = 2
    PeerTimeout = 2
    RequestTimeout = 1
    Machines <- Measured
    MaxTime = 5
    Nobody = Nobody
INVARIANTS
    NearestOfTheSent
    AskedWereHeard
    GoneAreForgotten
PROPERTY
    SearchReturns
CHECK_DEADLOCK FALSE
