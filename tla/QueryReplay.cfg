\* A dependency replayed from an aborted body comes back as an edge.
SPECIFICATION Spec
CONSTANTS
  t1 = t1
  t2 = t2
  Tasks = {t1}
  KeyOrder <- ReplayKeys
  Inputs <- ReplayInputs
  Revisions <- ReplayRevisions
  Step <- ReplayStep
  Scenarios <- ReplayScenarios
INVARIANT CacheAgrees
