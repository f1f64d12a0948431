\* All pairs of recipients, the variable set while Encrypt runs.
SPECIFICATION EnvSpec
CONSTANTS
  DESBlock = 2
  AESBlock = 3
  GarbleBytes = {1, 9}
  Settings <- MCSettings
  Racing = TRUE
  Contents <- MCContents
  RecipientLists <- AllLists
  PSKs <- MCPSKs
  Readers <- MCReaders
  ForeignInfos <- MCForeignInfos
  MaxChanges = 0
INVARIANTS
  LabelMatchesKey
PROPERTIES
  ImplementsSealedBox
  CallsReturn
CHECK_DEADLOCK FALSE
