SPECIFICATION Spec
CONSTANTS
  c1 = c1
  c2 = c2
  c3 = c3
  c4 = c4
  k1 = k1
  k2 = k2
  i1 = i1
  i2 = i2
  alice = alice
  bob = bob
  Calls = {c1, c2, c3}
  Invoices = {i1}
  Keys = {k1, k2}
  Customers = {alice, bob}
  CustomerOf <- MCCustomerOf
  Totals = {2}
  InvoiceOps = {"void", "mark_paid", "mark_uncollectible", "record_payment"}
  Amounts <- MCAmounts
  Answers = {"succeeded", "declined", "error"}
  ReadFaults = FALSE
  Aborts = FALSE
  MaxInFlight = 3
PROPERTIES
  CallsEnd
  ChargesRecorded
