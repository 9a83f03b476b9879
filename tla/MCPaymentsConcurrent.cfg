SPECIFICATION Spec
CONSTANTS
  c1 = c1
  c2 = c2
  c3 = c3
  c4 = c4
  k1 = k1
  k2 = k2
  i1 = i1
  i2 = i2
  alice = alice
  bob = bob
  Calls = {c1, c2, c3, c4}
  Invoices = {i1, i2}
  Keys = {k1, k2}
  Customers = {alice, bob}
  CustomerOf <- MCCustomerOf
  Totals = {0, 2}
  InvoiceOps = {"void", "mark_uncollectible", "record_payment"}
  Amounts <- MCCorrections
  Answers = {"succeeded", "declined", "error"}
  ReadFaults = TRUE
  Aborts = TRUE
  MaxInFlight = 4
SYMMETRY Symmetry
INVARIANTS
  TypeOK
  InvoicesBalanced
  LedgerMatchesRows
  BalanceExplained
  RecordedWasAnswered
  OneChargePerKey
  RefundedHasRefund
  PaidHasPayment
  PaymentsAreCounted
  SecondRefundCollides
PROPERTIES
  BookKept
  TerminalIsFinal
