SPECIFICATION Spec
CONSTANTS
  Threads = {t1, t2}
  EarlyDocs = {}
  LateDocs = {doc}
  Sites = {site}
  Remote = {dump}
  Local = {own}
  Faults = TRUE
  NoSource = NoSource
  MaxStarts = 2
INVARIANTS
  ProcessedWasIngested
  LocalDumpsKept
  OneCompilationPerBuild
  ButtonTellsRunning
