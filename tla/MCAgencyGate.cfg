SPECIFICATION Spec
CONSTANTS
  Proposals = {a1, a2}
  Handlers = {h1, h2}
  MaxReplies = 3
  MaxFaults = 1
INVARIANTS TypeOK CarriedOutOnce RecordAgrees NothingIsStranded
PROPERTIES ClosedIsFinal SkippedIsOver ReplyEnds
CHECK_DEADLOCK FALSE
