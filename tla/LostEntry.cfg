SPECIFICATION Spec
CONSTANTS
  NoOne = NoOne
  file = file
  probe = probe
  section = section
  llm = llm
  gpu = w2
  extract = extract
  facts = facts
  summarize = summarize
  render = render
  structure = structure
  Workers = {w1, w2}
  Tasks <- BesideTasks
  Nodes <- OneNode
  Parent <- NoParent
  Path <- NoPath
  Scope <- OnFile
  Mode <- BesideModes
  Deps <- NoDeps
  Advisory = {}
  MaxRetries = 1
  Queued = {render, structure}
  Spawner <- BesideSpawner
  Rung = {}
  MaxFaults = 1
PROPERTIES
  HistoryKept
CHECK_DEADLOCK FALSE
