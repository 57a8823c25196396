SPECIFICATION Spec
CONSTANTS
    old = old
    new = new
    other = other
    readme = readme
    note = note
    Docs = {old, new, other}
    Name <- Names3
    Imported = {new}
    Threads = {t1, t2}
    MaxStarts = 2
CHECK_DEADLOCK FALSE
INVARIANTS
    
    OneWorkerAtATime
PROPERTIES
    BecomesFree
