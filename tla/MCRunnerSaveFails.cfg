\* run_config's documentation of a run that ends with an error.
SPECIFICATION Spec
CONSTANTS
  NRows = 1
  GroupRows = 1
  ChunkSizes = {1}
  Configs <- RunConfigs
  MaxRuns = 1
  Capacity = 1
INVARIANT ErrorKeepsOutput
