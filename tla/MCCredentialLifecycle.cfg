\* Up to three operations of one Credential in five scenarios.
SPECIFICATION Spec
CONSTANTS
  Ops = {o1, o2, o3}
  InitialSecret = s0
  Secrets <- MCSecrets
  MaxRetained = 3
  Free = Free
  None = None
  Scenarios <- MCScenarios
  WithHistoryFaults = {{"update", "edit", "rollback", "revoke"}, {"update", "import"}}
  WithAllFaults = {{"register", "update", "refresh", "import", "revoke", "delete"}, {"rollback", "delete"}}
  WithoutFaults = {{"register", "update", "edit", "refresh", "rollback"}}
SYMMETRY Symmetry
INVARIANTS CurrentSecretRecorded
PROPERTIES RemovedSecretsStayRemoved RevokedIsFinal RollbackTakesRetainedVersion ImportReplacesPreviewed
