------------------------------ MODULE LogLines ------------------------------
(***************************************************************************)
(* Line files read whole and filtered, as every JSON-lines log here is.    *)
(* Written with a recursive function, so that it can be reasoned about.    *)
(***************************************************************************)
EXTENDS Naturals, Sequences

\* The lines at a set of positions, in their order.
LinesAt(lines, at) ==
    LET upTo[n \in 0..Len(lines)] ==
            IF n = 0 THEN <<>>
            ELSE IF n \in at THEN Append(upTo[n - 1], lines[n]) ELSE upTo[n - 1]
    IN  upTo[Len(lines)]

\* The newest of a set of positions or seqs.
Newest(seqs) == CHOOSE n \in seqs : \A m \in seqs : m <= n
=============================================================================
