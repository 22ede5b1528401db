SPECIFICATION Spec
CONSTANTS
  NoOne = NoOne
  file = file
  probe = probe
  section = section
  llm = llm
  gpu = w2
  extract = extract
  facts = facts
  summarize = summarize
  render = render
  structure = structure
  Workers = {w1, w2}
  Tasks <- OwnTasks
  Nodes <- OneNode
  Parent <- NoParent
  Path <- NoPath
  Scope <- OnFile
  Mode <- OwnModes
  Deps <- NoDeps
  Advisory = {}
  MaxRetries = 1
  Queued = {probe}
  Spawner <- OwnSpawner
  Rung = {summarize}
  MaxFaults = 1
SYMMETRY Symmetry
INVARIANTS
  TypeOK
  LogMatchesRow
  OneEntryPerAttempt
PROPERTIES
  HistoryKept
CHECK_DEADLOCK FALSE
