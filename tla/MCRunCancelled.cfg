SPECIFICATION Spec
CONSTANTS
  Nodes <- TwinNodes
  Edges <- TwinEdges
  Order <- TwinOrder
  Gates <- TwinGates
  Optional = {}
  AnyUpstream = {}
  Outcomes <- TwinOutcomes
  Executors = {e1, e2}
  Handlers = {h1}
  Channels = {"cancel"}
  MaxRequests = 1
  Faults = {}
  MaxFaults = 0
PROPERTIES CancelStopsDispatch
CHECK_DEADLOCK FALSE
