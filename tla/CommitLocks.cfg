SPECIFICATION LocksSpec
CONSTANTS
  Actors = {1, 2}
  Requests = {"register", "update", "importBatch", "delete", "updateUser",
    "deleteUser", "revokeTokens", "authenticate", "restore", "restoreToken",
    "grant", "resolve", "deleteProvider", "removeConfiguration", "oauth", "rollback"}
INVARIANTS CirclesAreOutOfOrder
PROPERTIES EveryOperationFinishes
CHECK_DEADLOCK FALSE
