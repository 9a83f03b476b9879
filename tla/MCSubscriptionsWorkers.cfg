SPECIFICATION Spec
CONSTANTS
  c1 = c1
  c2 = c2
  c3 = c3
  w1 = w1
  w2 = w2
  alice = alice
  bob = bob
  pBilled = pBilled
  pTrial = pTrial
  pMinus = pMinus
  Calls = {c1, c2}
  Workers = {w1, w2}
  Customers = {alice}
  Plans = {pBilled, pTrial}
  Terms <- MCTerms
  BatchSize = 1
  Dunning = TRUE
  Aborts = FALSE
  MaxInFlight = 4
  MaxTime = 2
INVARIANTS
  RowsCoherent
  NoPeriodAhead
PROPERTIES
  PeriodsContiguous
  PastDueIsRenewed
