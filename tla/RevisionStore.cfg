\* Two namespaces, one leaf, two stamps: epochs, siblings, compaction, retirement.
SPECIFICATION Spec
CONSTANTS
  c1 = c1
  c2 = c2
  a = a
  MaxId = 3
  Compats = {c1, c2}
  Inputs = {a}
  Stamps = {1, 2}
  RetentionLimit = 2
  CompactionDepth = 1
  MaxActive = 1
SYMMETRY CompatSymmetry
INVARIANTS TypeOK EpochChainAdditive EntryServesPublished StoreBounded
PROPERTIES NoResurrection AcceptedIsHeld
