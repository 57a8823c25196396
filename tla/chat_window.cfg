SPECIFICATION Spec
CONSTANTS
    ta = ta
    tb = tb
    Tables = {ta, tb}
    Preferred <- JustA
    NoTable = NoTable
    NoData = NoData
    MaxQuestions = 3
    MaxLoads = 2
    MaxStops = 1
    MaxTokens = 1
INVARIANTS
    WorkersCounted
    TextInItsTurn
    AnsweredFromItsTable
PROPERTY
    BecomesFree
CHECK_DEADLOCK FALSE
