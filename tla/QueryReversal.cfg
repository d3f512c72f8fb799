\* An edge that is reversed and then removed, in one sequential session.
SPECIFICATION Spec
CONSTANTS
  t1 = t1
  t2 = t2
  Tasks = {t1}
  KeyOrder <- FlipKeys
  Inputs <- FlipInputs
  Revisions <- FlipRevisions
  Step <- FlipStep
  Scenarios <- ReversalScenarios
INVARIANT ValidationPathIsSimple
