--------------------------- MODULE MCBoardService ---------------------------
\* One record with one object: present and absent already tell the order of two writes apart.
EXTENDS BoardService

Symmetry == Permutations(EventIds)

\* For the run whose properties do not read what was committed or restated, and no guard does.
View == <<engineVars, clients, recorded>>
=============================================================================
