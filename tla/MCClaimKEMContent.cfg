SPECIFICATION EnvSpec
CONSTANTS
  DESBlock = 2
  AESBlock = 3
  GarbleBytes = {1, 9}
  Settings <- MCSettings
  Racing = TRUE
  Contents <- OneContent
  RecipientLists <- ShortLists
  PSKs <- MCPSKs
  Readers <- FewReaders
  ForeignInfos <- MCForeignInfos
  MaxChanges = 0
INVARIANTS
  KEMRequiresCBC
CHECK_DEADLOCK FALSE
