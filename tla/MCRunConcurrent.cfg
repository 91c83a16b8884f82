SPECIFICATION Spec
CONSTANTS
  Nodes <- ForkNodes
  Edges <- ForkEdges
  Order <- ForkOrder
  Gates <- ForkGates
  Optional = {"a"}
  AnyUpstream = {"g"}
  Outcomes <- ForkOutcomes
  Executors = {e1, e2}
  Handlers = {h1, h2}
  Channels = {"api", "resume", "slack", "cancel"}
  MaxRequests = 2
  Faults = {"kill", "raise", "spawn", "restart", "web_restart"}
  MaxFaults = 1
INVARIANTS TypeOK WorkIsApproved   RunIsAttended
SYMMETRY MCSymmetry
CHECK_DEADLOCK FALSE
