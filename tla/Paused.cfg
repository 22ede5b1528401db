SPECIFICATION Spec
CONSTANTS
  NoOne = NoOne
  file = file
  chunk = chunk
  extract = extract
  render = render
  structure = structure
  embed = embed
  library = library
  chunk2 = chunk2
  late = late
  summarize = summarize
  resummarize = resummarize
  hang = hang
  probe = probe
  section = section
  llm = llm
  gpu = w2
  sheet = sheet
  profile = profile
  links = links
  Workers = {w1, w2}
  Clients = {c1}
  Loopers = {w1, w2}
  Tasks <- BookTasks
  Nodes <- BookNodes
  Parent <- BookParent
  Path <- BookPath
  Scope <- BookScope
  Mode <- BookMode
  Deps <- BookDeps
  Spawner <- BookSpawner
  Maker <- BookMaker
  Advisory = {}
  Existing <- BookNodes
  Queued <- BookTasks
  Rungs <- NoRungs
  DrainRoot <- FileRoot
  Eligible <- AllEligible
  MaxRetries = 1
  Uploads = {}
  Deletable = {sheet}
  StableIds = FALSE
  Pauses = TRUE
  MaxFaults = 1
INVARIANTS
  DependenciesFirst
  CrashLoopBounded
CHECK_DEADLOCK FALSE
