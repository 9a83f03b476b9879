SPECIFICATION Spec
CONSTANTS
  d1 = d1
  d2 = d2
  e1 = e1
  e2 = e2
  w1 = w1
  w2 = w2
  u1 = u1
  Deliveries = {d1, d2}
  Endpoints = {e1, e2}
  Workers = {w1}
  Editors = {u1}
  BatchSize = 1
  MaxRetries = 2
  Delays <- MCDelays
  MaxAborts = 1
  MaxTime = 1
PROPERTIES
  DueIsAttempted
  MailKept
