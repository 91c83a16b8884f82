SPECIFICATION Spec
CONSTANTS
  NodeLists <- MCNodeLists
  EdgeIds <- MCEdgeIds
  MaxEdges = 4
INVARIANTS  SortedIsTopological RaisesOnlyIfUnsortable
CHECK_DEADLOCK FALSE
