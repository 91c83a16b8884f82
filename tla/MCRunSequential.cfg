SPECIFICATION FairSpec
CONSTANTS
  Nodes <- LineNodes
  Edges <- LineEdges
  Order <- LineOrder
  Gates <- LineGates
  Optional = {"a", "b"}
  AnyUpstream = {}
  Outcomes <- LineOutcomes
  Executors = {e1, e2}
  Handlers = {h1}
  Channels = {"api"}
  MaxRequests = 4
  Faults = {"kill", "raise", "spawn"}
  MaxFaults = 2
INVARIANTS SingleExecutor WaitingCanBeDecided
PROPERTIES DecisionIsKept RunSettles RunKeepsPromise
CHECK_DEADLOCK FALSE
