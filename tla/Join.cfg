\* Three joins, two of them with one token, both tokens canceled at any moment.
SPECIFICATION Spec
CONSTANTS
  j1 = j1
  j2 = j2
  j3 = j3
  k1 = k1
  k2 = k2
  Joiners = {j1, j2, j3}
  Tokens = {k1, k2}
  TokenOf <- BatchTokens
  Cancelable = {k1, k2}
  Owner = owner
  None = none
INVARIANTS NoLostWakeup WaitersReturned
PROPERTIES EndedJoinsReturn CanceledJoinsReturnOrCross
CHECK_DEADLOCK FALSE
