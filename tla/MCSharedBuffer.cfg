SPECIFICATION SBSpec
CONSTANTS
  c1 = c1
  c2 = c2
  Calls = {c1, c2}
  Layouts <- MCLayouts
  Arrays <- MCArrays
SYMMETRY CallSymmetry
INVARIANTS
  RecoversContent
CHECK_DEADLOCK FALSE
