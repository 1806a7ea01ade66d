------------------------------ MODULE MCEditor ------------------------------
\* Two records, two objects per record, gestures and commits of every shape.
EXTENDS Editor, TLC

Symmetry == Permutations(Ids) \cup Permutations(Vals)
=============================================================================
