----------------------------- MODULE BoardSync -----------------------------
(***************************************************************************)
(* A board open in several browser tabs: each tab edits its own store at   *)
(* once, sends its events and snapshots down one serialized retry queue    *)
(* (core/src/persist.ts, app/src/remote-store.ts), and folds what the      *)
(* server broadcasts over its socket (app/src/feeds.ts, agentBus.ts,       *)
(* bus-convergence.ts), fetching what it missed.  The server is            *)
(* BoardEngine; agents post commands to it (app/server-delivery.ts).       *)
(***************************************************************************)
EXTENDS BoardEngine

CONSTANTS
    Tabs,
    Writers,      \* the tabs whose user edits
    Hazards,      \* what the environment may do: "command", "drop", "lateReply", "lostAck",
                  \* "restart", "reload", "undo", "compact"
    Nil,          \* no catch-up, no answer in flight, nothing to wait for
    MaxQueue,     \* bound on a tab's queue
    MaxFrames     \* bound on the frames on their way to a tab

ASSUME TabsAssumption == Writers \subseteq Tabs

VARIABLES
    tstore,    \* each tab's Store
    lastSeq,   \* each tab's MemoryIntentLog._lastSeq: its watermark
    queue,     \* each tab's write chain, oldest first: event and snapshot writes
    answer,    \* the answer to the head of the queue, on its way back: a seq, or Nil
    dirty,     \* the tab's debounce timer is armed
    undos,     \* each tab's undo stack
    conn,      \* each tab's socket: "boot" (never opened), "up", "down"
    bus,       \* frames on their way to each tab
    catchUp,   \* each tab's running catch-up, or Nil
    minted,    \* ids minted so far, in order, by each tab
    acked,     \* the events whose answer reached their tab, with the seq it carried
    gone       \* ids of the events that were queued in a page when it was reloaded

ghosts == <<minted, acked, gone>>
tabVars == <<tstore, lastSeq, queue, answer, dirty, undos, conn, bus, catchUp, ghosts>>
vars == <<engineVars, tabVars>>

Job == [id : EventIds, diff : Diffs] \cup Snapshot
Frame == [diff : Diffs, seq : 1..MaxSeq]
CatchUp == [since : Nat, reply : Seq(Event) \cup {Nil}]

ASSUME NilAssumption == Nil \notin Nat /\ Nil \notin CatchUp /\ Nil \notin Seq(Event)

TypeOK ==
    /\ EngineTypeOK
    /\ tstore \in [Tabs -> Records]
    /\ lastSeq \in [Tabs -> Nat]
    /\ queue \in [Tabs -> Seq(Job)]
    /\ answer \in [Tabs -> 1..MaxSeq \cup {Nil}]
    /\ dirty \in [Tabs -> BOOLEAN]
    /\ undos \in [Tabs -> Seq(Diffs)]
    /\ conn \in [Tabs -> {"boot", "up", "down"}]
    /\ bus \in [Tabs -> Seq(Frame)]
    /\ catchUp \in [Tabs -> CatchUp \cup {Nil}]
    /\ minted \in [Tabs -> Seq(EventIds)]
    /\ acked \subseteq Recorded
    /\ gone \subseteq EventIds

\* Every tab has loaded the empty board and its boot flush is stored.
Init ==
    /\ log = <<>>
    /\ snap = [records |-> NoRecords, seq |-> 0]
    /\ entry = NoEntry
    /\ lastCut = NoCut
    /\ tstore = [t \in Tabs |-> NoRecords]
    /\ lastSeq = [t \in Tabs |-> 0]
    /\ queue = [t \in Tabs |-> <<>>]
    /\ answer = [t \in Tabs |-> Nil]
    /\ dirty = [t \in Tabs |-> FALSE]
    /\ undos = [t \in Tabs |-> <<>>]
    /\ conn = [t \in Tabs |-> "up"]
    /\ bus = [t \in Tabs |-> <<>>]
    /\ catchUp = [t \in Tabs |-> Nil]
    /\ minted = [t \in Tabs |-> <<>>]
    /\ acked = {}
    /\ gone = {}

Max2(m, n) == IF m > n THEN m ELSE n

-----------------------------------------------------------------------------
(***************************************************************************)
(* The tab: local edits and its write queue.                               *)
(***************************************************************************)
\* Faulty variant of Enqueue: a new write overtakes those not sent yet.
EnqueueFirst(t, job) ==
    /\ Len(queue[t]) < MaxQueue
    /\ queue' = [queue EXCEPT ![t] = IF answer[t] = Nil THEN <<job>> \o @ ELSE Append(@, job)]

\* The bound on the queue keeps room for the snapshots of the edits already in it.
Enqueue(t, job) == Len(queue[t]) < MaxQueue /\ queue' = [queue EXCEPT ![t] = Append(@, job)]

QueuedIds(t) == {queue[t][i].id : i \in {j \in DOMAIN queue[t] : "id" \in DOMAIN queue[t][j]}}

\* Editor.commit through Persistence.append: the store changes, the event takes the tab's next
\* provisional seq and its write is queued, the undo stack gets the inverse, the timer is armed.
Edit(t, w) ==
    LET diff == build(touch(emptyDiff, tstore[t], w))
    IN  /\ diff # emptyDiff
        /\ lastSeq[t] < MaxSeq
        /\ \E id \in EventIds \ UNION {Range(minted[u]) : u \in Tabs} :
              /\ minted' = [minted EXCEPT ![t] = Append(@, id)]
              /\ Enqueue(t, [id |-> id, diff |-> diff])
        /\ tstore' = [tstore EXCEPT ![t] = write(@, w)]
        /\ lastSeq' = [lastSeq EXCEPT ![t] = @ + 1]
        /\ dirty' = [dirty EXCEPT ![t] = TRUE]
        /\ undos' = [undos EXCEPT ![t] = Append(@, invertDiff(diff))]
    /\ UNCHANGED <<engineVars, answer, conn, bus, catchUp, acked, gone>>

\* UndoManager.undo: a change of the store with no event, so nothing but a snapshot carries it.
Undo(t) ==
    /\ "undo" \in Hazards
    /\ undos[t] # <<>>
    /\ tstore' = [tstore EXCEPT ![t] = applyDiff(@, Last(undos[t]))]
    /\ undos' = [undos EXCEPT ![t] = Front(@)]
    /\ dirty' = [dirty EXCEPT ![t] = TRUE]
    /\ UNCHANGED <<engineVars, lastSeq, queue, answer, conn, bus, catchUp, ghosts>>

\* saveSnapshotNow, when the debounce timer fires: the store as it is, stamped with lastSeq.
SnapshotTimer(t) ==
    /\ dirty[t]
    /\ Enqueue(t, [records |-> tstore[t], seq |-> lastSeq[t]])
    /\ dirty' = [dirty EXCEPT ![t] = FALSE]
    /\ UNCHANGED <<engineVars, tstore, lastSeq, answer, undos, conn, bus, catchUp, ghosts>>

\* The write at the head of the queue, when no answer to it is on its way.
HeadIs(t, kind) ==
    /\ queue[t] # <<>>
    /\ answer[t] = Nil
    /\ kind = IF "id" \in DOMAIN Head(queue[t]) THEN "event" ELSE "snapshot"

\* broadcastBusDiff: to every tab whose socket is open, except the origin.
Broadcast(diff, seq, except) ==
    /\ \A t \in Tabs : Len(bus[t]) < MaxFrames
    /\ bus' = [t \in Tabs |-> IF conn[t] = "up" /\ t # except
                              THEN Append(bus[t], [diff |-> diff, seq |-> seq]) ELSE bus[t]]

\* POST /event reaches the server (commitTabEvent): appended, or found in the dedup ring, and
\* broadcast either way; the answer carries its seq.
PostEvent(t) ==
    /\ HeadIs(t, "event")
    /\ LET job == Head(queue[t])
           seq == IF InRing(job.id) THEN PriorSeq(job.id) ELSE Engine.watermark + 1
       IN  /\ AppendTabEvent(job.id, job.diff, FALSE) \/ ResendTabEvent(job.id)
           /\ Broadcast(job.diff, seq, t)
           /\ answer' = [answer EXCEPT ![t] = seq]
    /\ UNCHANGED <<tstore, lastSeq, queue, dirty, undos, conn, catchUp, ghosts>>

\* Faulty variant of Ack: the answer counts as one more event instead of being adopted.
AckCountsAgain(t) ==
    /\ answer[t] # Nil
    /\ lastSeq' = [lastSeq EXCEPT ![t] = @ + 1]
    /\ acked' = acked \cup {[id |-> Head(queue[t]).id, seq |-> answer[t]]}
    /\ queue' = [queue EXCEPT ![t] = Tail(@)]
    /\ answer' = [answer EXCEPT ![t] = Nil]
    /\ UNCHANGED <<engineVars, tstore, dirty, undos, conn, bus, catchUp, minted, gone>>

\* The answer arrives: onServerSeq adopts the seq, and the next queued write may go.
Ack(t) ==
    /\ answer[t] # Nil
    /\ lastSeq' = [lastSeq EXCEPT ![t] = Max2(@, answer[t])]
    /\ acked' = acked \cup {[id |-> Head(queue[t]).id, seq |-> answer[t]]}
    /\ queue' = [queue EXCEPT ![t] = Tail(@)]
    /\ answer' = [answer EXCEPT ![t] = Nil]
    /\ UNCHANGED <<engineVars, tstore, dirty, undos, conn, bus, catchUp, minted, gone>>

\* Faulty variant of LoseAck: an event whose answer is lost is not sent again.
LoseAckGivesUp(t) ==
    /\ "lostAck" \in Hazards
    /\ answer[t] # Nil
    /\ answer' = [answer EXCEPT ![t] = Nil]
    /\ queue' = [queue EXCEPT ![t] = Tail(@)]
    /\ UNCHANGED <<engineVars, tstore, lastSeq, dirty, undos, conn, bus, catchUp, ghosts>>

\* The answer is lost on the way: requestRetry sends the same event again.
LoseAck(t) ==
    /\ "lostAck" \in Hazards
    /\ answer[t] # Nil
    /\ answer' = [answer EXCEPT ![t] = Nil]
    /\ UNCHANGED <<engineVars, tstore, lastSeq, queue, dirty, undos, conn, bus, catchUp, ghosts>>

\* POST /snapshot: stored, or refused as stale - a 409 is not retried.
PostSnapshot(t) ==
    /\ HeadIs(t, "snapshot")
    /\ IF Stale(Head(queue[t])) THEN UNCHANGED engineVars ELSE SaveSnapshot(Head(queue[t]))
    /\ queue' = [queue EXCEPT ![t] = Tail(@)]
    /\ UNCHANGED <<tstore, lastSeq, answer, dirty, undos, conn, bus, catchUp, ghosts>>

-----------------------------------------------------------------------------
(***************************************************************************)
(* The tab: frames, gaps and catch-up.                                     *)
(***************************************************************************)
\* Faulty variant of classifyInbound: a frame past a gap is folded as if it were the next.
classifyGapAsNext(seq, watermark) == IF seq <= watermark THEN "have" ELSE "next"

classifyInbound(seq, watermark) ==
    IF seq <= watermark THEN "have" ELSE IF seq > watermark + 1 THEN "gap" ELSE "next"

\* catchUp(): one at a time - a trigger during a run is ignored.
StartCatchUp(t) ==
    catchUp' = [catchUp EXCEPT ![t] = IF @ = Nil THEN [since |-> lastSeq[t], reply |-> Nil] ELSE @]

\* The bus consumer of agentBus.ts.
Receive(t) ==
    /\ bus[t] # <<>>
    /\ bus' = [bus EXCEPT ![t] = Tail(@)]
    /\ LET frame == Head(bus[t])
           class == classifyInbound(frame.seq, lastSeq[t])
       IN  /\ IF class = "next"
              THEN /\ tstore' = [tstore EXCEPT ![t] = applyDiff(@, frame.diff)]
                   /\ lastSeq' = [lastSeq EXCEPT ![t] = frame.seq]
                   /\ dirty' = [dirty EXCEPT ![t] = @ \/ frame.diff # emptyDiff]
              ELSE UNCHANGED <<tstore, lastSeq, dirty>>
           /\ IF class = "gap" THEN StartCatchUp(t) ELSE UNCHANGED catchUp
    /\ UNCHANGED <<engineVars, queue, answer, undos, conn, ghosts>>

\* The server answers GET /log?since=.
ServeCatchUp(t) ==
    /\ catchUp[t] # Nil
    /\ catchUp[t].reply = Nil
    /\ catchUp' = [catchUp EXCEPT ![t] = [since |-> @.since, reply |-> EventsSince(@.since)]]
    /\ UNCHANGED <<engineVars, tstore, lastSeq, queue, answer, dirty, undos, conn, bus, ghosts>>

ReplyOnItsWay(t) == catchUp[t] # Nil /\ catchUp[t].reply # Nil

\* foldCatchUp: what is past the watermark is applied in order; a pass that applies nothing ends
\* the run, any other asks again.
FoldCatchUp(t) ==
    /\ ReplyOnItsWay(t)
    /\ LET missed == LinesAt(catchUp[t].reply,
                             {i \in DOMAIN catchUp[t].reply : catchUp[t].reply[i].seq > lastSeq[t]})
       IN  IF missed = <<>>
           THEN /\ catchUp' = [catchUp EXCEPT ![t] = Nil]
                /\ UNCHANGED <<tstore, lastSeq, dirty>>
           ELSE /\ tstore' = [tstore EXCEPT ![t] =
                                 FoldRecords(missed, [records |-> @, seq |-> lastSeq[t]])]
                /\ lastSeq' = [lastSeq EXCEPT ![t] = Last(missed).seq]
                /\ dirty' = [dirty EXCEPT ![t] = TRUE]
                /\ catchUp' = [catchUp EXCEPT ![t] = [since |-> Last(missed).seq, reply |-> Nil]]
    /\ UNCHANGED <<engineVars, queue, answer, undos, conn, bus, ghosts>>

\* The socket closes; the frames on it are lost.
Drop(t) ==
    /\ "drop" \in Hazards
    /\ conn[t] = "up"
    /\ conn' = [conn EXCEPT ![t] = "down"]
    /\ bus' = [bus EXCEPT ![t] = <<>>]
    /\ UNCHANGED <<engineVars, tstore, lastSeq, queue, answer, dirty, undos, catchUp, ghosts>>

\* Faulty variant of Connect: a reconnection fetches nothing.
ConnectOnly(t) ==
    /\ conn[t] # "up"
    /\ conn' = [conn EXCEPT ![t] = "up"]
    /\ UNCHANGED <<engineVars, tstore, lastSeq, queue, answer, dirty, undos, bus, catchUp, ghosts>>

\* onopen, two seconds after a close: a reconnection starts a catch-up, the first connection of a
\* page does not.  Unless "lateReply", an answer to an earlier catch-up has arrived by then.
Connect(t) ==
    /\ conn[t] # "up"
    /\ ~ReplyOnItsWay(t) \/ "lateReply" \in Hazards
    /\ conn' = [conn EXCEPT ![t] = "up"]
    /\ IF conn[t] = "down" THEN StartCatchUp(t) ELSE UNCHANGED catchUp
    /\ UNCHANGED <<engineVars, tstore, lastSeq, queue, answer, dirty, undos, bus, ghosts>>

\* Persistence.hydrate: the boot snapshot with its tail folded in.
hydrate == [records |-> FoldRecords(log, snap), seq |-> FoldWatermark(log, snap)]

\* The page is loaded anew: boot fetch (which compacts), hydrate, and a flush that saves what was
\* just read; what was queued is gone, a request on its way having arrived or been lost by then.
Reload(t) ==
    /\ "reload" \in Hazards
    /\ Boot
    /\ tstore' = [tstore EXCEPT ![t] = hydrate.records]
    /\ lastSeq' = [lastSeq EXCEPT ![t] = hydrate.seq]
    /\ queue' = [queue EXCEPT ![t] = <<hydrate>>]
    /\ answer' = [answer EXCEPT ![t] = Nil]
    /\ dirty' = [dirty EXCEPT ![t] = FALSE]
    /\ undos' = [undos EXCEPT ![t] = <<>>]
    /\ conn' = [conn EXCEPT ![t] = "boot"]
    /\ bus' = [bus EXCEPT ![t] = <<>>]
    /\ catchUp' = [catchUp EXCEPT ![t] = Nil]
    /\ gone' = gone \cup QueuedIds(t)
    /\ UNCHANGED <<minted, acked>>

-----------------------------------------------------------------------------
(***************************************************************************)
(* The rest of the world.                                                  *)
(***************************************************************************)
\* dispatchBusCommand: an agent's command, broadcast to every tab.
Command(w) ==
    /\ "command" \in Hazards
    /\ CommitCommand(w)
    /\ Broadcast(Last(log').diff, Last(log').seq, Nil)
    /\ UNCHANGED <<tstore, lastSeq, queue, answer, dirty, undos, conn, catchUp, ghosts>>

\* A page load elsewhere compacts the log.
OtherBoot == "compact" \in Hazards /\ Boot /\ UNCHANGED tabVars

\* The server restarts: every socket closes.
ServerRestarts ==
    /\ "restart" \in Hazards
    /\ Restart
    /\ conn' = [t \in Tabs |-> IF conn[t] = "up" THEN "down" ELSE conn[t]]
    /\ bus' = [t \in Tabs |-> <<>>]
    /\ UNCHANGED <<tstore, lastSeq, queue, answer, dirty, undos, catchUp, ghosts>>

OneWrite == {w \in Writes : Cardinality(DOMAIN w) = 1}

SyncNext ==
    \/ \E t \in Writers, w \in OneWrite : Edit(t, w)
    \/ \E t \in Tabs :
          \/ Undo(t) \/ SnapshotTimer(t)
          \/ PostEvent(t) \/ Ack(t) \/ LoseAck(t) \/ PostSnapshot(t)
          \/ Receive(t) \/ ServeCatchUp(t) \/ FoldCatchUp(t)
          \/ Drop(t) \/ Connect(t) \/ Reload(t)
    \/ \E w \in OneWrite : Command(w)
    \/ OtherBoot
    \/ ServerRestarts

Spec == Init /\ [][SyncNext]_vars

\* What the browser's event loop and timers do on their own, and that requestRetry, which never
\* gives up, gets an answer through in the end: not every answer is lost.
Fairness ==
    \A t \in Tabs :
        /\ WF_vars(PostEvent(t)) /\ SF_vars(Ack(t)) /\ WF_vars(PostSnapshot(t))
        /\ WF_vars(Receive(t)) /\ WF_vars(ServeCatchUp(t)) /\ WF_vars(FoldCatchUp(t))
        /\ WF_vars(Connect(t))

FairSpec == Spec /\ Fairness

-----------------------------------------------------------------------------
\* Nothing is on its way anywhere and no timer is armed.
Quiet ==
    \A t \in Tabs :
        /\ conn[t] = "up" /\ bus[t] = <<>> /\ catchUp[t] = Nil
        /\ queue[t] = <<>> /\ answer[t] = Nil /\ ~dirty[t]

(***************************************************************************)
(* "Each tab folds inbound diffs in seq order. This is the whole           *)
(* convergence guarantee: same events, same order, same fold code"         *)
(* (docs/board-engine-stage3-commit-over-the-wire.md:255-258): when        *)
(* everything sent has arrived, every tab shows the server's board.        *)
(***************************************************************************)
Converges == Quiet => \A t \in Tabs : tstore[t] = Engine.store

(***************************************************************************)
(* The queue is first in, first out across retries, lost answers and       *)
(* restarts: the log holds a tab's events in the order its user made them  *)
(* (remote-store.ts:13-15, persist.ts:112-114).                            *)
(***************************************************************************)
FirstAt(id) == CHOOSE i \in Readable(log) : log[i].id = id /\ \A j \in 1..(i - 1) : log[j] = Torn \/ log[j].id # id

Logged == {log[i].id : i \in Readable(log)}

OrderKept ==
    \A t \in Tabs : \A i, j \in DOMAIN minted[t] :
        i < j /\ minted[t][i] \in Logged /\ minted[t][j] \in Logged =>
            FirstAt(minted[t][i]) < FirstAt(minted[t][j])

(***************************************************************************)
(* "Never silently drop a queued edit": an edit the tab was told is saved  *)
(* is in the durable log at the seq it was told, whatever crashed or was   *)
(* resent since, until a stored snapshot is KeepTail past it; one it was   *)
(* not told of is still queued, unless its page is gone                    *)
(* (docs/board-engine-stage3-commit-over-the-wire.md:191-192).             *)
(***************************************************************************)
AckedIds == {r.id : r \in acked}

NoEditLost ==
    /\ \A r \in acked :
          \/ \E i \in Readable(log) : log[i].id = r.id /\ log[i].seq = r.seq
          \/ r.seq + KeepTail <= SnapSeq(snap)
    /\ \A t \in Tabs : Range(minted[t]) \subseteq AckedIds \cup QueuedIds(t) \cup gone

(***************************************************************************)
(* A tab's watermark is ahead of the server's by no more than the events   *)
(* it still has to send, so the snapshots behind them in its queue never   *)
(* claim a seq the server has not assigned (persist.ts:233-235).           *)
(***************************************************************************)
WatermarkEarned ==
    \A t \in Tabs : lastSeq[t] <= FoldWatermark(log, snap) + Cardinality(QueuedIds(t))

(***************************************************************************)
(* A tab that only reads shows, at every moment and not only when all is   *)
(* quiet, the board exactly as of its watermark: no frame, gap, reconnect  *)
(* or catch-up ever makes it skip or repeat a change                       *)
(* (agentBus.ts:55-71, bus-convergence.ts:16-33).                          *)
(***************************************************************************)
AsOf(n) == FoldRecords(LinesAt(log, {i \in Readable(log) : log[i].seq <= n}), NoSnapshot)

ReadersFollow == \A t \in Tabs \ Writers : tstore[t] = AsOf(lastSeq[t])

(***************************************************************************)
(* Every edit of a page that stays is acknowledged in the end, through any *)
(* number of lost answers and dropped sockets (remote-store.ts:13-19).     *)
(***************************************************************************)
EditsLand == \A id \in EventIds : (\E t \in Tabs : id \in QueuedIds(t)) ~> id \in AckedIds

(***************************************************************************)
(* Every tab gets to every commit in the end: a frame lost with its socket *)
(* is made up for by the catch-up of the reconnection or of the gap the    *)
(* next frame leaves (agentBus.ts:28-33).                                  *)
(***************************************************************************)
TabsCatchUp ==
    \A t \in Tabs, n \in 1..MaxSeq : (FoldWatermark(log, snap) >= n) ~> (lastSeq[t] >= n)
=============================================================================
