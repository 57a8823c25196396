SPECIFICATION Spec
CONSTANTS
    qa = qa
    qb = qb
    qc = qc
    r1 = r1
    t1 = t1
    t2 = t2
    Threads = {t1, t2}
    Queries = {qa, qb, qc}
    Results = {r1}
    MaxEntries = 2
    TTL = 1
    Similarity <- Closeness
    Threshold = 5
    MaxTime = 2
    Nothing = Nothing
SYMMETRY Symmetry
INVARIANTS
    CleanMatrix
    AnswersAreBest
    MissesAreReal
