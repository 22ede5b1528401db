SPECIFICATION FairSpec
CONSTANTS
  NoOne = NoOne
  section = section
  sibling = sibling
  summarize = summarize
  summarize2 = summarize2
  probe = probe
  section = section
  llm = llm
  gpu = w2
  Workers = {w1, w2}
  Tasks = {summarize, summarize2}
  Nodes <- SectionNodes
  Parent <- SectionParent
  Path <- SectionPath
  Scope <- SectionScope
  Mode <- SectionMode
  Deps <- SectionDeps
  Advisory = {}
  MaxRetries = 1
  Batches = {1, 2}
  GatherSize = 2
  Other = {}
  Shrinks = {summarize2}
  Replies = {"text", "refused", "missing"}
  Deletable = {summarize2}
  MaxFaults = 1
INVARIANTS
  TypeOK
  ParkedInItsBatch
  StoredOnce
  BoughtOncePerTry
  OneWastePerFault
  WalksKept
PROPERTIES
  BatchLifecycle
  ParkedIsReleased
CHECK_DEADLOCK FALSE
