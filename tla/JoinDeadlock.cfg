\* A join canceled while it registers, beside another join.
SPECIFICATION Spec
CONSTANTS
  j1 = j1
  j2 = j2
  j3 = j3
  k1 = k1
  k2 = k2
  Joiners = {j1, j2}
  Tokens = {k1, k2}
  TokenOf <- OwnTokens
  Cancelable = {k1}
  Owner = owner
  None = none
PROPERTIES CanceledJoinsReturn
CHECK_DEADLOCK FALSE
