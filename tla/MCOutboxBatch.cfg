SPECIFICATION Spec
CONSTANTS
  Events = {1, 2}
  Workers = {1}
  BatchSize = 1
  MaxRetries = 1
  Delay <- MCDelay
  Statuses <- MCStatuses
  MaxTime = 3
  Aborts = FALSE
PROPERTIES
  EveryEventDispatched
CHECK_DEADLOCK FALSE
