SPECIFICATION PagesSpec
CONSTANTS
  k1 = k1
  k2 = k2
  n1 = n1
  n2 = n2
  Consumers = {c1, c2}
  Grantees = {c1}
  Credentials = {k1, k2}
  Names = {n1, n2}
  Secrets <- MCSecrets
  Payloads = {p1, p2}
  MaxCreated = 2
  MaxTokens = 3
  MaxCalls = 2
  MaxActs = 6
  MaxPanels = 2
  Nil = Nil
CHECK_DEADLOCK FALSE
INVARIANTS CompleteWasVerified 
