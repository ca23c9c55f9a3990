--------------------------- MODULE MCKnowledgeBase ---------------------------
EXTENDS KnowledgeBase, TLC
CONSTANTS f1, f2, u1, s1
Owner == [d \in Docs |-> IF d = u1 THEN Upload ELSE s1]
Symmetry == Permutations(Requests) \cup Permutations(Contents) \cup Permutations({f1, f2})
=============================================================================
