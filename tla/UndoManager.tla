---------------------------- MODULE UndoManager ----------------------------
(***************************************************************************)
(* Selective undo (core/src/undo.ts) over one Editor's channel 2.          *)
(* Listeners run inside emit, so what the listener does is part of the     *)
(* step that emitted.                                                      *)
(***************************************************************************)
EXTENDS Editor, Sequences, SequencesExt

VARIABLES
    undos,    \* UndoManager.undos: [diff, of], the inverse diffs; `of` names the event undone
    redos,    \* UndoManager.redos
    initial,  \* the records when the manager was attached
    foreign   \* ids whose history the stack does not own: written by others, or undone mid-gesture

undoVars == <<undos, redos, initial, foreign>>
allVars == <<vars, undoVars>>

Entry == [diff : Diffs, of : Nat]

UndoTypeOK ==
    /\ TypeOK
    /\ undos \in Seq(Entry)
    /\ redos \in Seq(Entry)
    /\ initial \in Records
    /\ foreign \subseteq Ids

UndoInit ==
    /\ Init
    /\ undos = <<>>
    /\ redos = <<>>
    /\ initial = atoms
    /\ foreign = {}

\* keyOf: the ids a diff adds, removes and updates.
keyOf(d) ==
    <<{id \in DOMAIN d : d[id].from = Absent},
      {id \in DOMAIN d : d[id].to = Absent},
      {id \in DOMAIN d : d[id].from # Absent /\ d[id].to # Absent}>>

-----------------------------------------------------------------------------
\* Faulty variant of Listener: a new edit of mine leaves the redo stack standing.
ListenerKeepsRedos ==
    IF emitted' = Nothing
    THEN UNCHANGED <<undos, redos, foreign>>
    ELSE IF emitted'.source = "user"
    THEN /\ undos' = Append(undos, [diff |-> invertDiff(emitted'.diff), of |-> lastSeq'])
         /\ UNCHANGED <<redos, foreign>>
    ELSE /\ foreign' = foreign \cup DOMAIN emitted'.diff
         /\ UNCHANGED <<undos, redos>>

\* The constructor's store.listen callback: push the inverse of every diff of our own source.
Listener ==
    IF emitted' = Nothing
    THEN UNCHANGED <<undos, redos, foreign>>
    ELSE IF emitted'.source = "user"
    THEN /\ undos' = Append(undos, [diff |-> invertDiff(emitted'.diff), of |-> lastSeq'])
         /\ redos' = <<>>
         /\ UNCHANGED foreign
    ELSE /\ foreign' = foreign \cup DOMAIN emitted'.diff
         /\ UNCHANGED <<undos, redos>>

EditorStep ==
    /\ EditorNext
    /\ Listener
    /\ UNCHANGED initial

\* UndoManager.apply: the diff as a change of our own source; `applying` keeps the listener out,
\* and inside an open gesture the change joins the gesture's buffer like any other transaction.
Apply(entry) ==
    /\ Transact(targets(entry.diff), "user")
    /\ NoRecord
    /\ inbound' = inbound \ DOMAIN entry.diff
    /\ foreign' = IF Idle THEN foreign ELSE foreign \cup DOMAIN entry.diff
    /\ UNCHANGED <<owner, initial>>

Flip(entry) == [diff |-> invertDiff(entry.diff), of |-> entry.of]

Undo ==
    /\ undos # <<>>
    /\ Apply(Last(undos))
    /\ undos' = Front(undos)
    /\ redos' = Append(redos, Flip(Last(undos)))

Redo ==
    /\ redos # <<>>
    /\ Apply(Last(redos))
    /\ redos' = Front(redos)
    /\ undos' = Append(undos, Flip(Last(redos)))

-----------------------------------------------------------------------------
\* forget: the topmost undo entry with the same key as the refused diff's inverse.
forget(committed) ==
    LET hits == {i \in DOMAIN undos : keyOf(undos[i].diff) = keyOf(invertDiff(committed))}
    IN  IF hits = {} THEN undos ELSE RemoveAt(undos, Max(hits))

UndoNext == EditorStep \/ Undo \/ Redo

UndoSpec == UndoInit /\ [][UndoNext]_allVars

-----------------------------------------------------------------------------
\* What undoing (redoing) the whole stack from the top would leave in one id.
Unwound(stack, id) ==
    LET touching == {i \in DOMAIN stack : id \in DOMAIN stack[i].diff}
    IN  IF touching = {} THEN mirror[id] ELSE stack[Min(touching)].diff[id].to

\* The entries of a stack that touch an id fit together, and the top one fits the committed store.
Chained(stack, id) ==
    LET touching == {i \in DOMAIN stack : id \in DOMAIN stack[i].diff}
    IN  \A i \in touching :
            stack[i].diff[id].from =
                IF \E j \in touching : j > i
                THEN stack[Min({j \in touching : j > i})].diff[id].to
                ELSE mirror[id]

(***************************************************************************)
(* "The inverse still applies record-wise, so it composes with the         *)
(* interleaved foreign changes" (undo.ts:9-13): on every record only I     *)
(* have written, the undo stack is an unbroken path from what is on the    *)
(* board back to what was there when I started, and the redo stack a path  *)
(* forward, whatever other sources did to other records in between.        *)
(***************************************************************************)
OwnHistoryUndoable ==
    \A id \in Ids \ foreign :
        /\ Chained(undos, id)
        /\ Chained(redos, id)
        /\ Unwound(undos, id) = initial[id]

(***************************************************************************)
(* undo.ts:12-14: a foreign removal wins over my undo - "the inverse       *)
(* update is a no-op rather than a resurrection".                          *)
(***************************************************************************)
UndoNeverResurrects ==
    [][Undo => \A id \in keyOf(Last(undos).diff)[3] :
                   atoms[id] = Absent => atoms'[id] = Absent]_allVars
=============================================================================
