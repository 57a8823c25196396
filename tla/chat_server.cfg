SPECIFICATION Spec
CONSTANTS
    r1 = r1
    r2 = r2
    r3 = r3
    qa = qa
    qb = qb
    qc = qc
    long = long
    odd = odd
    spelt = spelt
    Requests = {r1, r2, r3}
    IPs = {"lan"}
    Questions = {qa, qb, qc, long, odd, spelt}
    Asks <- AskedInOrder
    About <- Texts
    Alike <- Similar
    MaxConcurrent = 2
    MaxWorkers = 2
    RateMax = 2
    RateWindow = 2
    MaxTime = 2
    Nothing = Nothing
INVARIANTS
    PlacesGivenBack
    RateKept
    AnswersTellTheirOrigin
PROPERTY
    EveryRequestEnds
CHECK_DEADLOCK FALSE
