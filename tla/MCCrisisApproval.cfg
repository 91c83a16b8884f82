SPECIFICATION Spec
CONSTANTS
  c1 = c1
  c2 = c2
  x1 = x1
  x2 = x2
  Cards = {c1, c2}
  Hashes = {x1, x2}
  Clickers = {k1, k2}
  Absent = Absent
  FirstDocs <- JustDraft
  MaxEdits = 2
  MaxDecisions = 2
  MaxFaults = 1
INVARIANTS ReadyRowWasAsked RepeatedOnlyAfterFault ApprovalSettles
PROPERTIES  RevisionIsAsked
