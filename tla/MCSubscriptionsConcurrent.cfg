SPECIFICATION Spec
CONSTANTS
  c1 = c1
  c2 = c2
  c3 = c3
  w1 = w1
  w2 = w2
  alice = alice
  bob = bob
  pBilled = pBilled
  pTrial = pTrial
  pMinus = pMinus
  Calls = {c1, c2, c3}
  Workers = {w1}
  Customers = {alice, bob}
  Plans = {pBilled, pMinus}
  Terms <- MCTerms
  BatchSize = 2
  Dunning = TRUE
  Aborts = TRUE
  MaxInFlight = 4
  MaxTime = 1
SYMMETRY Symmetry
INVARIANTS
  TypeOK
  BilledAtCreation
  DeletedHasNoSubscriptions
PROPERTIES
  DeletedIsFrozen
  CanceledIsFinal
