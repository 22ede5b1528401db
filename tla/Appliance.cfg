SPECIFICATION FairSpec
CONSTANTS
  NoOne = NoOne
  file = file
  chunk = chunk
  extract = extract
  render = render
  structure = structure
  embed = embed
  library = library
  chunk2 = chunk2
  late = late
  summarize = summarize
  resummarize = resummarize
  hang = hang
  probe = probe
  section = section
  llm = llm
  gpu = w2
  sheet = sheet
  profile = profile
  links = links
  Workers = {w1, w2}
  Clients = {c1}
  Loopers = {w1}
  Tasks <- PairTasks
  Nodes <- FileNodes
  Parent <- FileParent
  Path <- FilePath
  Scope <- PairScope
  Mode <- PairMode
  Deps <- PairDeps
  Spawner <- PairSpawner
  Maker <- FileMaker
  Advisory = {}
  Existing <- FileExisting
  Queued <- TreeQueued
  Rungs <- PairRungs
  DrainRoot <- FileRoot
  Eligible <- AllEligible
  MaxRetries = 1
  Uploads = {}
  Deletable = {chunk}
  StableIds = TRUE
  Pauses = FALSE
  MaxFaults = 1
PROPERTIES
  LifecycleSpec
  ClaimsAreReleased
  QueueRunsDry
  TreeSettles
CHECK_DEADLOCK FALSE
