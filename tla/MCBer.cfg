\* Every header form, and nesting deep enough to pass the limit.
CONSTANTS
  MaxNestingDepth = 2
  Inputs <- MCInputs
SPECIFICATION FairSpec
INVARIANTS
  TypeOK
  Containment
  BoundedWork
  MatchesGrammar
  Idempotent
PROPERTY
  Terminates
