\* Three workers: the sweep handed from one to another.
SPECIFICATION Spec
CONSTANTS
  w1 = w1
  w2 = w2
  w3 = w3
  Workers = {w1, w2, w3}
  FamilyCount = 1
  Limit <- OneLimit
  Budget = 0
  Quantum = 2
  MaxPublished = 2
  MaxHeld = 1
  Never = 6
SYMMETRY WorkerSymmetry
INVARIANT BudgetConverges
CHECK_DEADLOCK FALSE
