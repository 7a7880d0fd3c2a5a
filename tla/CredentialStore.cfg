\* Two identities, two keys, two bindings: every failed write, rollback and crash.
SPECIFICATION Spec
CONSTANTS
  Ids = {c1, c2}
  Keys = {k1, k2}
  Bindings = {b1, b2}
  Secrets = {s1}
  Versions = {1}
  NoKey = NoKey
  None = None
  NoFile = NoFile
INVARIANTS CleanOutcomeInSync LookupNeverMisroutes
PROPERTIES BatchAllOrNothing ImplementsRegistry
