SPECIFICATION Spec
CONSTANTS
  N = 2
  Clients = {x}
  Traits <- MCTraits
  MaxStarts = 2
  MaxIssued = 3
  MaxEvents = 3
 
PROPERTIES  DueIsRenewed
CHECK_DEADLOCK FALSE
