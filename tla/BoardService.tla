---------------------------- MODULE BoardService ----------------------------
(***************************************************************************)
(* The board engine under every client its HTTP surface admits: agents     *)
(* post commands, tabs resend gestures until answered and save snapshots,  *)
(* pages load, a browser imports its old board, someone resets it, writes  *)
(* fail and the server restarts, in any order.                             *)
(***************************************************************************)
EXTENDS BoardEngine

CONSTANT Faults  \* what may throw: "append", "fold", "import"

VARIABLES
    posted,    \* what the tabs have sent and got no answer to yet: id -> diff
    settled,   \* ids whose tab has its answer: never sent again
    recorded,  \* ids of the tab events appended since the entry was hydrated, in order
    truth,     \* the records after every commit since the last wholesale change (import, clear, ahead save)
    restated   \* records a save stated otherwise than the commit at its seq, and no commit touched since

clients == <<posted, settled>>
boardHistory == <<truth, restated>>
vars == <<engineVars, posted, settled, recorded, truth, restated>>

TypeOK ==
    /\ EngineTypeOK
    /\ DOMAIN posted \subseteq EventIds /\ \A id \in DOMAIN posted : posted[id] \in Diffs
    /\ settled \subseteq EventIds
    /\ recorded \in Seq(EventIds)
    /\ DOMAIN truth \subseteq 0..MaxSeq /\ \A n \in DOMAIN truth : truth[n] \in Records
    /\ restated \subseteq Ids

Init ==
    /\ EngineInit
    /\ posted = [id \in {} |-> emptyDiff]
    /\ settled = {}
    /\ recorded = <<>>
    /\ truth = [n \in {0} |-> NoRecords]
    /\ restated = {}

-----------------------------------------------------------------------------
Committed(seq, records, d) ==
    /\ truth' = [n \in DOMAIN truth \cup {seq} |-> IF n = seq THEN records ELSE truth[n]]
    /\ restated' = restated \ DOMAIN d

\* The records and seq of the files become the only known state.
Replaced ==
    /\ truth' = [n \in {FoldWatermark(log', snap')} |-> FoldRecords(log', snap')]
    /\ restated' = {}

\* What a save says otherwise than the commit at its seq; everything, where no such commit is known.
Restates(s) == {id \in Ids : s.seq \in DOMAIN truth => s.records[id] # truth[s.seq][id]}

\* recorded follows the entry: a dropped or rehydrated entry starts it over.
Kept == recorded' = IF entry = NoEntry \/ entry' = NoEntry THEN <<>> ELSE recorded

\* A tab sends an event until it is answered, always the same one under one id.
MaySend(id, d) == id \notin settled /\ (id \in DOMAIN posted => posted[id] = d)

\* No answer (5xx, a lost response, a dead server): the tab will send again.
Unanswered(id, d) ==
    /\ posted' = [i \in DOMAIN posted \cup {id} |-> IF i = id THEN d ELSE posted[i]]
    /\ UNCHANGED settled

Answered(id) ==
    /\ posted' = [i \in DOMAIN posted \ {id} |-> posted[i]]
    /\ settled' = settled \cup {id}

PostCommand(w) ==
    /\ CommitCommand(w)
    /\ Committed(entry'.watermark, entry'.store, build(touch(emptyDiff, Engine.store, w)))
    /\ Kept
    /\ UNCHANGED clients

PostCommandFails ==
    /\ "append" \in Faults
    /\ CommandFails
    /\ Kept
    /\ UNCHANGED <<clients, boardHistory>>

PostEvent(id, d) ==
    /\ MaySend(id, d)
    /\ \E foldThrows \in {t \in BOOLEAN : t => "fold" \in Faults} :
          /\ AppendTabEvent(id, d, foldThrows)
          /\ recorded' = IF foldThrows THEN <<>>
                         ELSE Append(IF entry = NoEntry THEN <<>> ELSE recorded, id)
    /\ Committed(Engine.watermark + 1, applyDiff(Engine.store, d), d)
    /\ Answered(id) \/ Unanswered(id, d)

PostEventAgain(id) ==
    /\ id \in DOMAIN posted
    /\ ResendTabEvent(id)
    /\ Answered(id)
    /\ UNCHANGED <<recorded, boardHistory>>

PostEventFails(id, d) ==
    /\ "append" \in Faults
    /\ MaySend(id, d)
    /\ TabEventFails(id)
    /\ Unanswered(id, d)
    /\ Kept
    /\ UNCHANGED boardHistory

\* The handler compares seqs only: a save may say anything as of a committed seq (a tab that raced a
\* command, or has undone), and one ahead of every event is the board from then on.
PostSnapshot(s) ==
    /\ SaveSnapshot(s)
    /\ IF s.seq <= FoldWatermark(log, snap)
       THEN restated' = restated \cup Restates(s) /\ UNCHANGED truth
       ELSE restated' = {} /\ truth' = [n \in {s.seq} |-> s.records]
    /\ recorded' = IF entry' # NoEntry /\ entry # entry' THEN <<>> ELSE recorded
    /\ UNCHANGED clients

LoadPage == Boot /\ UNCHANGED <<clients, recorded, boardHistory>>

PostImport(lines, s) == ImportBoard(lines, s) /\ Replaced /\ Kept /\ UNCHANGED clients

PostImportFails(lines) ==
    /\ "import" \in Faults
    /\ ImportFails(lines)
    /\ Replaced
    /\ UNCHANGED <<clients, recorded>>

Delete == ClearBoard /\ Replaced /\ Kept /\ UNCHANGED clients

GetCanvas == Read /\ Kept /\ UNCHANGED <<clients, boardHistory>>

ServerRestarts == Restart /\ Kept /\ UNCHANGED <<clients, boardHistory>>

\* The old browser copies an import may carry: one event, with or without a snapshot of it.
Browser == {<<[id |-> NoId, seq |-> 1, diff |-> d]>> : d \in Diffs}

ServiceNext ==
    \/ \E w \in Writes : PostCommand(w)
    \/ PostCommandFails
    \/ \E id \in EventIds, d \in Diffs : PostEvent(id, d)
    \/ \E id \in EventIds : PostEventAgain(id)
    \/ \E id \in EventIds, d \in Diffs : PostEventFails(id, d)
    \/ \E s \in Snapshot : PostSnapshot(s)
    \/ LoadPage
    \/ \E lines \in Browser :
          \E s \in {NoSnapshot, [records |-> FoldRecords(lines, NoSnapshot), seq |-> 1]} :
             PostImport(lines, s)
    \/ \E lines \in Browser : PostImportFails(lines)
    \/ Delete
    \/ GetCanvas
    \/ ServerRestarts

Spec == Init /\ [][ServiceNext]_vars

-----------------------------------------------------------------------------
(***************************************************************************)
(* A lost answer costs nothing while the event is among the last RingCap   *)
(* the resident store recorded: no id is appended twice within that window *)
(* (board-engine.ts:46-56).                                                *)
(***************************************************************************)
DedupWindow ==
    \A i, j \in DOMAIN recorded : i < j /\ j - i <= RingCap => recorded[i] # recorded[j]

(***************************************************************************)
(* Short of a reset, a stored snapshot only moves forward, and the files   *)
(* never forget a committed seq (routes/board-persist.ts:63-66).           *)
(***************************************************************************)
WatermarksAdvance ==
    [][Delete \/ /\ SnapSeq(snap') >= SnapSeq(snap)
                 /\ FoldWatermark(log', snap') >= FoldWatermark(log, snap)]_vars

(***************************************************************************)
(* A resident live store is what a rehydrate would build from the files,   *)
(* "bit-identical", whatever failed in between (board-engine.ts:23-25) -   *)
(* but for a record that a saved snapshot states otherwise than it was     *)
(* committed and no commit has touched since: the save's content is not    *)
(* compared (routes/board-persist.ts:56-86), and the store keeps its own.  *)
(***************************************************************************)
LiveIsFold ==
    entry # NoEntry =>
        /\ entry.watermark = FoldWatermark(log, snap)
        /\ \A id \in Ids : entry.store[id] = FoldRecords(log, snap)[id] \/ id \in restated

(***************************************************************************)
(* The catch-up read since(w) of a tab that is no further behind the       *)
(* snapshot than the kept tail gets every event it missed: applying them   *)
(* to the records as of w gives the board (board-persist.js:203-208,       *)
(* routes/board-persist.ts:160-169), short of a record restated by a save, *)
(* which no event tells of.                                                *)
(***************************************************************************)
CatchUpComplete ==
    \A w \in DOMAIN truth :
        w + KeepTail >= SnapSeq(snap) =>
            \A id \in Ids \ restated :
                FoldRecords(EventsSince(w), [records |-> truth[w], seq |-> w])[id] =
                    FoldRecords(log, snap)[id]

(***************************************************************************)
(* The files, folded, are the abstract board: failed appends, lost         *)
(* answers, resends, refused saves, compactions and restarts are           *)
(* invisible, every commit is one whole step, and a save changes nothing   *)
(* that was committed after its seq (board-engine.ts:196-203).             *)
(***************************************************************************)
Board == INSTANCE BoardState WITH
    content <- FoldRecords(log, snap),
    seq <- FoldWatermark(log, snap),
    saved <- snap

ImplementsBoard == Board!BoardSpec
=============================================================================
