\* Messages that are encoded differently, addressed to more recipients or damaged.
SPECIFICATION EnvSpec
CONSTANTS
  DESBlock = 2
  AESBlock = 3
  GarbleBytes = {1, 9}
  Settings <- MCSettings
  Racing = FALSE
  Contents <- OneContent
  RecipientLists <- ShortLists
  PSKs <- MCPSKs
  Readers <- FewReaders
  ForeignInfos <- MCForeignInfos
  MaxChanges = 2
INVARIANTS
  KEMAcceptable
PROPERTIES
  ImplementsSealedBox
  CallsReturn
CHECK_DEADLOCK FALSE
