\* Two requests whose batches share their items, two permits and one worker.
SPECIFICATION Spec
CONSTANTS
  r = r
  s = s
  a = a
  b = b
  c = c
  Roots = {r, s}
  Queries = {r, s, a, b, c}
  Demands <- Overlapping
  Adaptive = {s, a}
  Budgets = {1, 2}
  MaxFaults = 1
INVARIANTS BodiesHavePermits JobsHaveThreads BatchesAreScopes AnswersAreComplete NoFalseCycle
PROPERTY EveryoneReturns
CHECK_DEADLOCK FALSE
