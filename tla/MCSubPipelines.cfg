SPECIFICATION Spec
CONSTANTS
  alone = alone
  outer = outer
  inner = inner
  firing = firing
  Pipelines = {outer, inner, firing, alone}
  Calls <- Nested
  NoCall = none
  Gated = {inner, firing}
  Triggered = {outer, firing, alone}
  Delivery = outer
  Candidates = {}
  NoCandidate = nobody
  Handlers = {h1}
  Executors = {e1, e2}
  MaxTriggers = 1
  MaxDepth = 2
  MaxFaults = 1
INVARIANTS
  ChildrenAreCounted
  ChildrenEndFirst
PROPERTIES
  RunsEnd
CHECK_DEADLOCK FALSE
