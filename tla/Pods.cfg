SPECIFICATION Spec
CONSTANTS
  NoOne = NoOne
  file = file
  chunk = chunk
  extract = extract
  render = render
  structure = structure
  embed = embed
  library = library
  chunk2 = chunk2
  late = late
  summarize = summarize
  resummarize = resummarize
  hang = hang
  probe = probe
  section = section
  llm = llm
  gpu = w2
  sheet = sheet
  profile = profile
  links = links
  Workers = {w1, w2}
  Clients = {}
  Loopers = {w1, w2}
  Tasks <- FileTasks
  Nodes <- FileNodes
  Parent <- FileParent
  Path <- FilePath
  Scope <- FileScope
  Mode <- FileMode
  Deps <- FileDeps
  Spawner <- FileSpawner
  Maker <- FileMaker
  Advisory <- FileAdvisory
  Existing <- FileExisting
  Queued <- FileQueued
  Rungs <- NoRungs
  DrainRoot <- FileRoot
  Eligible <- AllEligible
  MaxRetries = 1
  Uploads = {}
  Deletable = {}
  StableIds = TRUE
  Pauses = FALSE
  MaxFaults = 1
PROPERTIES
  CompletedIsFinal
CHECK_DEADLOCK FALSE
