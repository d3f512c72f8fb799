\* Two builds and a stop race for an endpoint where two services may be launched.
SPECIFICATION Spec
CONSTANTS
  b1 = b1
  b2 = b2
  s1 = s1
  p1 = p1
  p2 = p2
  Builds = {b1, b2}
  Stops = {s1}
  Services = {p1, p2}
  MaxQueued = 1
  Scenarios <- Races
  Slow = {b2, s1}
  None = none
INVARIANTS OneService ReachableUnlessAbandoned DirectMeansNoWork AdmittedIsAnswered StoppedMeansGone QueueExact
PROPERTY EverythingEnds
CHECK_DEADLOCK FALSE
