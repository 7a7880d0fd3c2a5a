\* Two requests beside two changes and a fault.
SPECIFICATION TransferSpec
CONSTANTS
  TransferRequests = {x, y}
  Initial <- MCInitial
  Transfers <- MCTransfers
  Sheets <- MCSheets
  Strategies = {"skip", "overwrite", "rename"}
  Providers <- MCProviders
  SecretColumn <- MCSecretColumn
  Blank = Blank
  Unnamed = Unnamed
  Nil = Nil
  Foreign = 2
  MaxRecords = 2
  MaxKdf = 1
  MaxCreated = 8
  MaxChanges = 2
  MaxFaults = 1
INVARIANTS CsvSecretsStaySecret AnsweredHoldsNothing
PROPERTIES AccountsStayDistinct
SYMMETRY Symmetry
CHECK_DEADLOCK FALSE
