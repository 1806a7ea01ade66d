---------------------------- MODULE MCBoardSync ----------------------------
EXTENDS BoardSync

Symmetry == Permutations(EventIds) \cup Permutations(Ids)
=============================================================================
