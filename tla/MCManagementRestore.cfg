\* Restores among changing users, with failing writes and restarts.
SPECIFICATION Spec
CONSTANTS
  UserIds = {u1, u2}
  admin = admin
  viewer = viewer
  r1 = r1
  r2 = r2
  Roles <- MCRoles
  Restores <- MCRestores
  Scenarios <- MCScenarios
  MaxGenerations = 2
  None = None
INVARIANTS RemovedIsBarred BootstrapStaysClosed
PROPERTIES ImplementsLines 
