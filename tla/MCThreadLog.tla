----------------------------- MODULE MCThreadLog ----------------------------
(***************************************************************************)
(* ThreadLog on one session and posts by the person at the card.           *)
(***************************************************************************)
EXTENDS ThreadLog

CONSTANTS human, s1, p1, p2, p3, p4

SendAuthor == [p \in Sends |-> human]
SendTagged == [p \in Sends |-> {s1}]
=============================================================================
