SPECIFICATION Spec
CONSTANTS
  Processes = {p1, p2}
  MaxAttempts = 2
  MaxRequests = 2
  MaxFaults = 1
  MaxSlow = 1
INVARIANTS RunsAreCapped GivenUpAfterAllRuns FindingsOnce ClosedIsTold
PROPERTIES RequestEnds
CHECK_DEADLOCK FALSE
