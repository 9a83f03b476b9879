SPECIFICATION Spec
CONSTANTS
  d1 = d1
  d2 = d2
  e1 = e1
  e2 = e2
  w1 = w1
  w2 = w2
  u1 = u1
  Deliveries = {d1}
  Endpoints = {e1}
  Workers = {w1, w2}
  Editors = {u1}
  BatchSize = 1
  MaxRetries = 1
  Delays <- MCMoreDelays
  MaxAborts = 1
  MaxTime = 3
INVARIANTS
  TypeOK
  SettledIsExplained
  BackoffKept
