-------------------------- MODULE MCCrisisApproval --------------------------
EXTENDS CrisisApproval

CONSTANTS c1, c2, x1, x2

\* One card in draft, its visual attached; the other identity is what a rename gives it.
Draft == [status |-> [r \in Routes |-> "Draft"], visual |-> TRUE, hash |-> x1]
JustDraft == {[c \in Cards |-> IF c = c1 THEN Draft ELSE Absent]}
=============================================================================
