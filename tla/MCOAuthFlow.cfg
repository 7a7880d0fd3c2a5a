SPECIFICATION Spec
CONSTANTS
  None = None
  f1 = f1
  f2 = f2
  c1 = c1
  c2 = c2
  ann = ann
  Flows = {f1, f2}
  Actors = {ann}
  Starter <- StarterDef
  Profiles = {1, 2}
  Accounts = {"acc"}
  MaxContexts = 2
  MaxPerActor = 1
  Callbacks = {c1, c2}
  MaxChanges = 1
SYMMETRY Same2
CHECK_DEADLOCK FALSE
INVARIANTS ConfigurationKept
PROPERTIES  ImportedForStarter
