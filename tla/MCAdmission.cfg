SPECIFICATION Spec
CONSTANTS
  alone = alone
  outer = outer
  inner = inner
  firing = firing
  Pipelines = {alone}
  Calls <- Single
  NoCall = none
  Gated = {}
  Triggered = {alone}
  Delivery = alone
  Candidates = {c1}
  NoCandidate = nobody
  Handlers = {h1, h2}
  Executors = {e1, e2}
  MaxTriggers = 2
  MaxDepth = 1
  MaxFaults = 1
INVARIANTS
  
  StrandedOnlyByCrash
SYMMETRY Symmetry
CHECK_DEADLOCK FALSE
