SPECIFICATION Spec
CONSTANTS
    c1 = c1
    c2 = c2
    qa = qa
    qb = qb
    da = da
    db = db
    t = t
    u = u
    Callers = {c1, c2}
    Terms = {t, u}
    TermLists <- Lists
    MaxTerms = 5
    MaxQueue = 2
    Queries = {qa, qb}
    Docs = {da, db}
    Relevant <- About
    TermsOf <- TermsIn
    Pages <- BothWikis
    Suggested <- Suggestions
    Meshed = FALSE
    MaxEntries = 2
    TTL = 0
    Similarity <- Close
    Threshold = 5
    MaxTime = 1
    Nothing = Nothing
SYMMETRY Symmetry
INVARIANTS
    OneWorker
    QueueAttended
    CachedForItsQuery
