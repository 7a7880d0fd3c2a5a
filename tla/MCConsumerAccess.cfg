\* One consumer request among three changes of anything.
SPECIFICATION Spec
CONSTANTS
  Tokens = {t1, t2}
  Users = {u1}
  u1 = u1
  Owner <- MCOwner
  Requests = {r1}
  MaxChanges = 3
  Stored = {"key"}
  Derived = {"session"}
  Inputs = {"key"}
  Profiles = {"p1", "p2"}
  MaxVersion = 3
  Faults = {"audit", "crash"}
  None = None
CHECK_DEADLOCK FALSE
INVARIANTS  CleanedStaysClean 
PROPERTIES DeliveredWhileEntitled
