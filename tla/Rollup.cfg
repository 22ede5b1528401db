SPECIFICATION Spec
CONSTANTS
  NoOne = NoOne
  file = file
  chunk = chunk
  extract = extract
  render = render
  structure = structure
  embed = embed
  library = library
  chunk2 = chunk2
  late = late
  summarize = summarize
  resummarize = resummarize
  hang = hang
  probe = probe
  section = section
  llm = llm
  gpu = w2
  sheet = sheet
  profile = profile
  links = links
  Workers = {w1, w2}
  Clients = {c1}
  Loopers = {w1, w2}
  Tasks <- DeepTasks
  Nodes <- DeepNodes
  Parent <- DeepParent
  Path <- DeepPath
  Scope <- DeepScope
  Mode <- DeepMode
  Deps <- DeepDeps
  Spawner <- DeepSpawner
  Maker <- DeepMaker
  Advisory = {}
  Existing <- TreeExisting
  Queued <- TreeQueued
  Rungs <- DeepRungs
  DrainRoot <- FileRoot
  Eligible <- DeepEligible
  MaxRetries = 1
  Uploads = {late}
  Deletable = {late, file}
  StableIds = FALSE
  Pauses = FALSE
  MaxFaults = 0
INVARIANTS
  RollupOnce
  PublishedOwesNothing
  PublishedIsRolledUp
PROPERTIES
  RollupAfterInputs
  SettlesOverFinished
CHECK_DEADLOCK FALSE
