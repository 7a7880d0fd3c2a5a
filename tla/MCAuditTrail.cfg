\* Three disturbances: starts, failing writes, jumps of the clock.
SPECIFICATION AuditSpec
CONSTANTS
  Listed <- MCListed
  Unlisted = {"custom-provider-definitions.json"}
  Disks <- MCDisks
  Confs <- MCConfs
  Earlier <- MCEarlier
  Nil = Nil
  RetentionAge = 2
  MaxEvents = 2
  MaxClock = 3
  MaxEntries = 4
  MaxDisturbances = 3
INVARIANTS ServedUnderActiveKey AnsweredStaysLogged
CHECK_DEADLOCK FALSE
CONSTRAINT Apart
