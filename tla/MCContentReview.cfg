SPECIFICATION Spec
CONSTANTS
  NumDrafts = 2
  Handlers = {h1, h2}
  SendsEnabled = TRUE
  Edits = {"approved", "sent"}
  MaxRequests = 3
  MaxFaults = 1
INVARIANTS
  TrailBreaksByOverlap
  QueuedOnce
  HandedOnce
  RejectionGoesThrough
PROPERTIES
  MailedIsQueued
CHECK_DEADLOCK FALSE
SYMMETRY Symmetry
