SPECIFICATION SBSpec
CONSTANTS
  c1 = c1
  c2 = c2
  Calls = {c1, c2}
  Layouts <- ChunkLayouts
  Arrays <- MCArrays
INVARIANTS
  ClaimRecovered
CHECK_DEADLOCK FALSE
