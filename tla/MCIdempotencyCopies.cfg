SPECIFICATION Spec
CONSTANTS
  k1 = k1
  b1 = b1
  b2 = b2
  Requests = {1, 2, 3}
  Keys = {k1}
  Bodies = {b1, b2}
  Faults = 1
INVARIANTS
  AppliedOnce
  ReplayIsGenuine
  RetriesGetThrough
SYMMETRY Symmetry
