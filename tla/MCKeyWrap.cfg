SPECIFICATION KWSpec
CONSTANTS
  Half <- MCHalf
  IV = 2
  BlockEncrypt <- MCEncrypt
  BlockDecrypt <- MCDecrypt
  XorCounter <- MCXor
  MaxHalves = 4
  Inputs <- MCInputs
INVARIANTS
  UnwrapInvertsWrap
  AcceptsOnlyWraps
  MatchesRFC3394
CHECK_DEADLOCK FALSE
