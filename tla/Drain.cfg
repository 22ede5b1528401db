SPECIFICATION Spec
CONSTANTS
  NoOne = NoOne
  file = file
  chunk = chunk
  extract = extract
  render = render
  structure = structure
  embed = embed
  library = library
  chunk2 = chunk2
  late = late
  summarize = summarize
  resummarize = resummarize
  hang = hang
  probe = probe
  section = section
  llm = llm
  gpu = w2
  sheet = sheet
  profile = profile
  links = links
  Workers = {w1, w2}
  Clients = {}
  Loopers = {w1}
  Tasks <- TreeTasks
  Nodes <- TreeNodes
  Parent <- TreeParent
  Path <- TreePath
  Scope <- TreeScope
  Mode <- TreeMode
  Deps <- TreeDeps
  Spawner <- TreeSpawner
  Maker <- TreeMaker
  Advisory = {}
  Existing <- TreeExisting
  Queued <- TreeQueued
  Rungs <- TreeRungs
  DrainRoot <- FileRoot
  Eligible <- AllEligible
  MaxRetries = 1
  Uploads = {}
  Deletable = {}
  StableIds = FALSE
  Pauses = FALSE
  MaxFaults = 0
INVARIANTS
  DrainedOwesNothing
CHECK_DEADLOCK FALSE
