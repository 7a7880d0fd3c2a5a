SPECIFICATION BoundarySpec
CONSTANTS
  None = None
  Nil = Nil
  Profiles = {1, 2}
  MaxFaults = 2
  MaxMutations = 4
  Providers = {"discord", "threads", "openai", "ftp"}
  Calls = {a, b}
  Lookups <- MCLookups
  Policy <- MCPolicy
  MaxGrants = 2
  MaxVersion = 3
SYMMETRY Symmetry
CHECK_DEADLOCK FALSE
INVARIANTS RegistryFollowsStore DialsWhatItJudged 
PROPERTIES DeletedHasNoDependants
