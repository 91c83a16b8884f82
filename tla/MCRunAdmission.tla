--------------------------- MODULE MCRunAdmission ---------------------------
EXTENDS RunAdmission, TLC
CONSTANTS alone, outer, inner, firing
Single == [p \in {alone} |-> NoCall]
Nested == [p \in {outer, inner, firing, alone} |->
             CASE p = outer -> [to |-> inner, mode |-> "inline"]
               [] p = firing -> [to |-> inner, mode |-> "async"]
               [] p = alone -> [to |-> alone, mode |-> "inline"]
               [] p = inner -> NoCall]
Symmetry == Permutations(Handlers) \cup Permutations(Executors)
=============================================================================
