-------------------------- MODULE MCContentReview --------------------------
EXTENDS ContentReview
\* Requests differ in nothing but their names.
Symmetry == Permutations(Handlers)
=============================================================================
