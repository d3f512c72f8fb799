\* Two requests that meet on a real cycle from both ends.
SPECIFICATION Spec
CONSTANTS
  t1 = t1
  t2 = t2
  Tasks = {t1, t2}
  KeyOrder <- FlipKeys
  Inputs <- FlipInputs
  Revisions <- FlipRevisions
  Step <- FlipStep
  Scenarios <- CycleScenarios
INVARIANT AnswersAreFromScratch
PROPERTIES RequestsTerminate
