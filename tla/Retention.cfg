\* Two workers over two families; what the families may keep exceeds the budget.
SPECIFICATION Spec
CONSTANTS
  w1 = w1
  w2 = w2
  w3 = w3
  Workers = {w1, w2}
  FamilyCount = 2
  Limit <- TwoLimits
  Budget = 1
  Quantum = 2
  MaxPublished = 3
  MaxHeld = 1
  Never = 7
SYMMETRY WorkerSymmetry
INVARIANTS SweepExclusive BudgetConverges CountsAreExact FamiliesConverge
CHECK_DEADLOCK FALSE
