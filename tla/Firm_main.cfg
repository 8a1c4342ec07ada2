SPECIFICATION Spec
CONSTANTS
  w1 = w1
  w2 = w2
  Workers = {w1, w2}
  Clients = {1, 2}
  Seeded = {2}
  Periods = {1}
  MaxClock = 1
  MaxRequests = 3
  MaxFaults = 1
INVARIANTS
  OneExecutor
  RunsAreWhole
  OneResultPerClient
PROPERTIES
  EveryRequestEnds
CHECK_DEADLOCK FALSE
