SPECIFICATION FairSpec
CONSTANTS
  Nodes <- SideNodes
  Edges <- SideEdges
  Order <- SideOrder
  Gates <- SideGates
  Optional = {"a"}
  AnyUpstream = {"g"}
  Outcomes <- SideOutcomes
  Executors = {e1, e2}
  Handlers = {h1}
  Channels = {"api", "cancel"}
  MaxRequests = 2
  Faults = {"kill", "raise", "restart", "web_restart"}
  MaxFaults = 1
PROPERTIES RunSettles
CHECK_DEADLOCK FALSE
