SPECIFICATION Spec
CONSTANTS
  Sessions = {s1, s2, s3}
  MaxIds = 4
INVARIANTS
  LinksLeadBack
  BreaksOnlyByOverlap
CHECK_DEADLOCK FALSE
