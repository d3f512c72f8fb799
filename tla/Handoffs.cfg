\* Two root requests over a shared chain of lifecycles, one cancelable, with an
\* eviction.
SPECIFICATION Spec
CONSTANTS
  t1 = t1
  t2 = t2
  Tasks = {t1, t2}
  Queries = {"r", "s", "a", "c"}
  DependsOn <- ChainOf
  Root <- RootOf
  Lifecycles = {1, 2, 3, 4, 5, 6}
  QueryOf <- IdsOf
  Address <- AddressOf
  Callbacks <- CallbacksOf
  Cancelable = {t1}
  MaxEvictions = 1
  None = none
INVARIANTS EffectsMatchState AnswersRestOnCommitted BodiesRunOnce
PROPERTIES CommitsAtomically RequestsEnd
CHECK_DEADLOCK FALSE
