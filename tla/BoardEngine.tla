---------------------------- MODULE BoardEngine ----------------------------
(***************************************************************************)
(* The server's half of one board: the live store of app/board-engine.ts   *)
(* over the files of app/board-persist.js, one action per request the      *)
(* routes of app/routes/board-persist.ts and the bus of                    *)
(* app/server-delivery.ts pass on.  Every file operation is synchronous,   *)
(* so a request is one step; a write can fail, and the process can die in  *)
(* the middle of one.  BoardService and BoardSync say who sends what.      *)
(***************************************************************************)
EXTENDS RecordsDiff, LogLines, FiniteSets, SequencesExt

CONSTANTS
    EventIds,    \* ids minted by tabs for their gesture events
    NoId,        \* the id field of a bus command's event: minted by the server, never resent
    Torn,        \* a line of events.jsonl that does not parse
    NoEntry,     \* no live store is resident
    NoSnapshot,  \* there is no snapshot.json
    NoCut,       \* this process has not compacted the board
    RingCap,     \* MAX_RECENT_TAB_EVENT_IDS
    KeepTail,    \* COMPACT_KEEP_TAIL
    MinDrop,     \* COMPACT_MIN_DROP
    MaxSeq,      \* bound on seqs
    MaxLines     \* bound on the lines of events.jsonl

ASSUME BoundAssumption ==
    /\ RingCap \in Nat \ {0}
    /\ KeepTail \in Nat /\ MinDrop \in Nat
    /\ MaxSeq \in Nat \ {0} /\ MaxLines \in Nat

ASSUME NoIdAssumption == NoId \notin EventIds

Event == [id : EventIds \cup {NoId}, seq : 1..MaxSeq, diff : Diffs]
Snapshot == [records : Records, seq : 0..MaxSeq]
Recorded == [id : EventIds, seq : 1..MaxSeq]
Entry == [store : Records, watermark : 0..MaxSeq, ring : Seq(Recorded)]

ASSUME MarkerAssumption == Torn \notin Event /\ NoEntry \notin Entry /\ NoSnapshot \notin Snapshot

VARIABLES
    log,     \* events.jsonl: its lines; a torn last line has no newline
    snap,    \* snapshot.json
    entry,   \* the board's BoardEngineEntry, or NoEntry
    lastCut  \* lastCompactWatermark of this process, or NoCut

files == <<log, snap>>
engineVars == <<log, snap, entry, lastCut>>

NoRecords == [id \in Ids |-> Absent]

EngineTypeOK ==
    /\ log \in Seq(Event \cup {Torn})
    /\ snap \in Snapshot \cup {NoSnapshot}
    /\ entry \in Entry \cup {NoEntry}
    /\ lastCut \in 0..MaxSeq \cup {NoCut}

EngineInit == log = <<>> /\ snap = NoSnapshot /\ entry = NoEntry /\ lastCut = NoCut

-----------------------------------------------------------------------------
(***************************************************************************)
(* Reading the files.                                                      *)
(***************************************************************************)
SnapSeq(s) == IF s = NoSnapshot THEN 0 ELSE s.seq

\* readBoardEvents: every line that parses.
Readable(lines) == {i \in DOMAIN lines : lines[i] # Torn}

\* foldSnapshotAndEvents, watermark: the snapshot's seq or the newest event's.
FoldWatermark(lines, s) == Newest({SnapSeq(s)} \cup {lines[i].seq : i \in Readable(lines)})

\* foldSnapshotAndEvents, records: the snapshot with the tail (seq > its watermark) applied in
\* order, i.e. every id as the last tail event that touches it left it.
FoldRecords(lines, s) ==
    LET tail == {i \in Readable(lines) : lines[i].seq > SnapSeq(s)}
        touching(id) == {i \in tail : id \in DOMAIN lines[i].diff}
    IN  [id \in Ids |->
            IF touching(id) # {} THEN lines[Newest(touching(id))].diff[id].to
            ELSE IF s = NoSnapshot THEN Absent ELSE s.records[id]]

\* Faulty variant of hydrateEntry: the watermark is the seq to assign next, not the newest assigned.
hydrateEntryAhead(lines, s) ==
    [store |-> FoldRecords(lines, s), watermark |-> FoldWatermark(lines, s) + 1, ring |-> <<>>]

hydrateEntry(lines, s) ==
    [store |-> FoldRecords(lines, s), watermark |-> FoldWatermark(lines, s), ring |-> <<>>]

\* getBoardEngine: the resident entry, hydrated on first touch.
Engine == IF entry = NoEntry THEN hydrateEntry(log, snap) ELSE entry

hasBoardPersist == Readable(log) # {} \/ snap # NoSnapshot

\* Faulty variant of EventsSince: lines that do not parse are served too.
EventsSinceRaw(w) == LinesAt(log, {i \in DOMAIN log : log[i] = Torn \/ log[i].seq > w})

\* GET /log?since=w: the readable events past w.
EventsSince(w) == LinesAt(log, {i \in Readable(log) : log[i].seq > w})

-----------------------------------------------------------------------------
(***************************************************************************)
(* Appending to events.jsonl.                                              *)
(***************************************************************************)
\* appendBoardEvent opens a fresh line after a torn tail, so no append ever joins a partial line.
appendBoardEvent(line) == Len(log) < MaxLines /\ log' = Append(log, line)

\* A write that fails or is cut short leaves nothing, or the first bytes of the line.
AppendInterrupted == log' = log \/ appendBoardEvent(Torn)

\* commitBoardCommand: one transaction on the live store, then the durable append at the next
\* seq - a command that changes nothing appends too.
CommitCommand(w) ==
    LET next == Engine.watermark + 1
    IN  /\ next <= MaxSeq
        /\ appendBoardEvent([id |-> NoId, seq |-> next,
                             diff |-> build(touch(emptyDiff, Engine.store, w))])
        /\ entry' = [store |-> write(Engine.store, w), watermark |-> next,
                     ring |-> Engine.ring]
    /\ UNCHANGED <<snap, lastCut>>

\* Faulty variant of CommandFails: the transaction's store is kept when its append threw.
CommandFailsKeepsStore ==
    /\ AppendInterrupted
    /\ \E w \in Writes : entry' = [Engine EXCEPT !.store = write(@, w)]
    /\ UNCHANGED <<snap, lastCut>>

\* The append threw: the store is ahead of the files, so it is dropped, and the caller answers 500.
CommandFails ==
    /\ AppendInterrupted
    /\ entry' = NoEntry
    /\ UNCHANGED <<snap, lastCut>>

InRing(id) == \E i \in DOMAIN Engine.ring : Engine.ring[i].id = id

\* Faulty variant of Remember: off by one at the cap.
RememberBelowCap(ring, id, seq) ==
    LET longer == Append(ring, [id |-> id, seq |-> seq])
    IN  IF Len(longer) >= RingCap THEN Tail(longer) ELSE longer

\* The dedup ring: a new id goes in last, and past the cap the oldest goes out.
Remember(ring, id, seq) ==
    LET longer == Append(ring, [id |-> id, seq |-> seq])
    IN  IF Len(longer) > RingCap THEN Tail(longer) ELSE longer

\* Faulty variants of AppendTabEvent: a store whose fold threw is kept; the fold is left out.
AppendTabEventKeepsEntry(id, d, foldThrows) ==
    LET next == Engine.watermark + 1
    IN  /\ ~InRing(id)
        /\ next <= MaxSeq
        /\ appendBoardEvent([id |-> id, seq |-> next, diff |-> d])
        /\ entry' = IF foldThrows THEN Engine
                    ELSE [store |-> applyDiff(Engine.store, d), watermark |-> next,
                          ring |-> Remember(Engine.ring, id, next)]
    /\ UNCHANGED <<snap, lastCut>>

AppendTabEventUnfolded(id, d, foldThrows) ==
    LET next == Engine.watermark + 1
    IN  /\ ~InRing(id)
        /\ next <= MaxSeq
        /\ appendBoardEvent([id |-> id, seq |-> next, diff |-> d])
        /\ entry' = [Engine EXCEPT !.watermark = next, !.ring = Remember(@, id, next)]
    /\ UNCHANGED <<snap, lastCut>>

\* appendTabEvent: stamp the next seq, append, remember the id, fold; a fold that throws drops the store.
AppendTabEvent(id, d, foldThrows) ==
    LET next == Engine.watermark + 1
    IN  /\ ~InRing(id)
        /\ next <= MaxSeq
        /\ appendBoardEvent([id |-> id, seq |-> next, diff |-> d])
        /\ entry' = IF foldThrows THEN NoEntry
                    ELSE [store |-> applyDiff(Engine.store, d), watermark |-> next,
                          ring |-> Remember(Engine.ring, id, next)]
    /\ UNCHANGED <<snap, lastCut>>

\* appendTabEvent of an id in the ring: the seq it was given the first time, and nothing else.
PriorSeq(id) == Engine.ring[CHOOSE i \in DOMAIN Engine.ring : Engine.ring[i].id = id].seq

ResendTabEvent(id) == InRing(id) /\ UNCHANGED engineVars

\* The append threw: nothing is folded or remembered, and the caller answers 500.
TabEventFails(id) ==
    /\ ~InRing(id)
    /\ AppendInterrupted
    /\ entry' = Engine
    /\ UNCHANGED <<snap, lastCut>>

-----------------------------------------------------------------------------
(***************************************************************************)
(* Snapshots, boots, imports, resets, restarts.                            *)
(***************************************************************************)
\* Faulty variant of Stale: no save is refused.
NeverStale(s) == s.seq < 0

\* A save older than the stored snapshot is refused with a 409.
Stale(s) == s.seq < SnapSeq(snap)

\* writeBoardSnapshot (tmp + rename), then reconcileBoardEngineOnSnapshot: a save ahead of the
\* live store rehydrates it.
SaveSnapshot(s) ==
    /\ ~Stale(s)
    /\ snap' = s
    /\ entry' = IF entry # NoEntry /\ s.seq > entry.watermark THEN hydrateEntry(log, s) ELSE entry
    /\ UNCHANGED <<log, lastCut>>

\* Faulty variants of Droppable: one event too many; the snapshot's watermark is not looked at.
DroppableOneMore(e) == e # Torn /\ e.seq + KeepTail <= SnapSeq(snap) + 1

DroppableAlways(e) == e # Torn

\* compactBoardEvents: what the snapshot absorbed beyond the kept tail goes, with every line that
\* does not parse; nothing is rewritten for fewer than MinDrop events or twice for one watermark.
Droppable(e) == e # Torn /\ e.seq + KeepTail <= SnapSeq(snap)

compactBoardEvents ==
    IF snap = NoSnapshot \/ lastCut = SnapSeq(snap)
    THEN UNCHANGED <<log, lastCut>>
    ELSE /\ lastCut' = snap.seq
         /\ log' = IF Cardinality({i \in DOMAIN log : Droppable(log[i])}) < MinDrop THEN log
                   ELSE LinesAt(log, {i \in Readable(log) : ~Droppable(log[i])})

\* readBoardBoot, once per page load.
Boot == compactBoardEvents /\ UNCHANGED <<snap, entry>>

\* importBoardPersist: refused once there is any state; then the live store is dropped.
ImportBoard(lines, s) ==
    /\ ~hasBoardPersist
    /\ log' = lines
    /\ snap' = s
    /\ entry' = NoEntry
    /\ UNCHANGED lastCut

\* The log is written and the snapshot's write throws: 500, and the live store is not dropped.
ImportFails(lines) ==
    /\ ~hasBoardPersist
    /\ log' = lines
    /\ UNCHANGED <<snap, entry, lastCut>>

\* DELETE: clearBoardPersist, and the live store is dropped.
ClearBoard == log' = <<>> /\ snap' = NoSnapshot /\ entry' = NoEntry /\ UNCHANGED lastCut

\* Any read (GET /canvas, the resolvers): hydrates the live store on first touch.
Read == entry = NoEntry /\ entry' = Engine /\ UNCHANGED <<files, lastCut>>

\* The process dies, perhaps in the middle of an append, and comes back with the files alone.
Restart == AppendInterrupted /\ entry' = NoEntry /\ lastCut' = NoCut /\ UNCHANGED snap

-----------------------------------------------------------------------------
(***************************************************************************)
(* Seqs are positions in one total order: the readable log never holds two *)
(* events at one seq or a later event at a smaller one, so since(), tails  *)
(* and watermarks mean something (board-engine.ts:246-252).                *)
(***************************************************************************)
SeqsIncrease ==
    \A i, j \in Readable(log) : i < j => log[i].seq < log[j].seq

(***************************************************************************)
(* board-engine.ts:260-262: a resent event is returned its first seq "so   *)
(* this is exactly-once at the durable log even though the transport       *)
(* delivered it twice".                                                    *)
(***************************************************************************)
ExactlyOnce ==
    \A i, j \in Readable(log) : i # j /\ log[i].id # NoId => log[i].id # log[j].id
=============================================================================
