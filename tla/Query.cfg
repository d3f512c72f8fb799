\* Two requests at a time over a chain with an optional leaf; evictions and a
\* cancellation while two requests share one dependency.
SPECIFICATION Spec
CONSTANTS
  t1 = t1
  t2 = t2
  Tasks = {t1, t2}
  KeyOrder <- ChainKeys
  Inputs <- ChainInputs
  Revisions <- ChainRevisions
  Step <- ChainStep
  Scenarios <- ChainScenarios
SYMMETRY TaskSymmetry
INVARIANTS AnswersAreFromScratch CertificatesAreSound StampsNameValues WaitersCounted NoOrphans ProtectedStayRetained
