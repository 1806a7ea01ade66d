----------------------------- MODULE BoardState -----------------------------
(***************************************************************************)
(* What a board promises its clients, with no files, caches or restarts:   *)
(* one copy of the records and one counter, moved by whole commits         *)
(* (app/board-engine.ts:16-21, 196-203), and the last saved snapshot.      *)
(***************************************************************************)
EXTENDS RecordsDiff, Naturals

CONSTANTS MaxSeq, NoSnapshot

VARIABLES
    content,  \* the board's records
    seq,      \* the seq of its newest commit
    saved     \* the newest snapshot a client saved, or NoSnapshot

boardVars == <<content, seq, saved>>

NoRecords == [id \in Ids |-> Absent]
Snapshot == [records : Records, seq : 0..MaxSeq]

BoardInit == content = NoRecords /\ seq = 0 /\ saved = NoSnapshot

\* A commit, by a bus command or a tab's gesture, is the next seq and its whole diff.
CommitNext ==
    /\ seq < MaxSeq
    /\ seq' = seq + 1
    /\ \E d \in Diffs : content' = applyDiff(content, d)
    /\ UNCHANGED saved

\* A snapshot as of a committed seq, never an older one than before: a record is as the save says,
\* or as it was, and it is as the save says if nothing was committed since.
Save(s) ==
    /\ saved # NoSnapshot => saved.seq <= s.seq
    /\ s.seq <= seq
    /\ saved' = s /\ UNCHANGED seq
    /\ content' \in Records
    /\ \A id \in Ids : content'[id] \in {s.records[id], content[id]}
    /\ s.seq = seq => content' = s.records

\* A snapshot ahead of every event replaces the records and moves the counter up to its own.
Adopt(s) ==
    /\ s.seq > seq
    /\ saved' = s /\ seq' = s.seq /\ content' = s.records

\* A board with nothing committed or saved takes over a browser's copy, whole or without its snapshot.
Import ==
    /\ seq = 0 /\ saved = NoSnapshot
    /\ seq' \in 0..MaxSeq
    /\ content' \in Records
    /\ saved' \in Snapshot \cup {NoSnapshot}

Clear == seq' = 0 /\ content' = NoRecords /\ saved' = NoSnapshot

BoardNext ==
    \/ CommitNext
    \/ \E s \in Snapshot : Save(s) \/ Adopt(s)
    \/ Import
    \/ Clear

BoardSpec == BoardInit /\ [][BoardNext]_boardVars
=============================================================================
