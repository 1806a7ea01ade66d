----------------------------- MODULE MCRollBack -----------------------------
EXTENDS RollBack

Symmetry == Permutations(Ids) \cup Permutations(Vals)

\* emitted and event are outputs of a step: no guard and no update reads them.
View == <<atoms, buffer, version, owner, lastSeq, mirror, inbound,
          undos, redos, initial, foreign, outbox, rejected>>
=============================================================================
