\* One request at a time pays from the buckets; requests for four leases, one of
\* them kept for each reserve, whose handlers may never return.
SPECIFICATION AdmissionSpec
CONSTANTS
  Requests = {r}
  Sources = {s}
  Users = {u}
  Routes = {"containToken", "credentials", "bootstrap"}
  Roles <- MCRoles
  Costs = {1}
  Capacity <- MCCapacity
  RefillEvery <- MCRefillEvery
  Quota <- MCQuota
  MaxKeys = 6
  IdleTtl = 1
  CleanupEvery = 1
  MaxClock = 2
  MaxForward = 2
  Overflow = Overflow
  Unknown = Unknown
  LeaseIds = {l1, l2, l3, l4}
  Policies = {"MANAGEMENT_MUTATION", "MANAGEMENT_AUTHENTICATED"}
  MutationLimit = 1
  ContainmentLimit = 1
  BootstrapLimit = 1
  GlobalLimit = 4
  Concurrency <- Limits
  MaxLeases = 4
  LeaseDuration = 2
  None = None
INVARIANTS RateBounded ContainmentStaysOpen ReservesAreKept
PROPERTIES LeaseComesBack
