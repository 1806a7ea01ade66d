-------------------------- MODULE BoardSyncProofs --------------------------
(***************************************************************************)
(* A board in several tabs, for every number of tabs, writers, events and  *)
(* frames and every combination of hazards: no edit is lost or overtaken,  *)
(* and no watermark runs ahead.  And what the tabs show: one that only     *)
(* reads shows the log as of its watermark, and when all is quiet every    *)
(* tab shows the server's board.                                           *)
(***************************************************************************)
EXTENDS BoardSync, BoardEngineProofs, FiniteSetTheorems

EventJob == [id : EventIds, diff : Diffs]

TabTypes ==
    /\ tstore \in [Tabs -> Records]
    /\ lastSeq \in [Tabs -> 0..MaxSeq]
    /\ queue \in [Tabs -> Seq(Job)]
    /\ answer \in [Tabs -> 1..MaxSeq \cup {Nil}]
    /\ dirty \in [Tabs -> BOOLEAN]
    /\ undos \in [Tabs -> Seq(Diffs)]
    /\ conn \in [Tabs -> {"boot", "up", "down"}]
    /\ bus \in [Tabs -> Seq(Frame)]
    /\ catchUp \in [Tabs -> CatchUp \cup {Nil}]
    /\ minted \in [Tabs -> Seq(EventIds)]
    /\ acked \subseteq Recorded
    /\ gone \subseteq EventIds

\* An answer is to an event, the head of its tab's queue.
Answering == \A t \in Tabs : answer[t] # Nil => queue[t] # <<>> /\ Head(queue[t]) \in EventJob

Types == EngineParts /\ TabTypes /\ Answering

LEMMA TypesPrime == (EngineTypeOK <=> EngineParts) /\ (EngineTypeOK' <=> EngineParts')
BY EngineTypesAreParts

\* A write is an event with its id, or a snapshot.
LEMMA JobKind ==
    ASSUME NEW job \in Job
    PROVE  /\ "id" \in DOMAIN job <=> job \in EventJob
           /\ "id" \notin DOMAIN job <=> job \in Snapshot
<1>1. CASE job \in EventJob
    BY <1>1 DEF EventJob, Snapshot
<1>2. CASE job \in Snapshot
    BY <1>2 DEF EventJob, Snapshot
<1> QED
    BY <1>1, <1>2 DEF Job, EventJob

\* The head of a tab's queue, and what is left without it.
LEMMA HeadOfQueue ==
    ASSUME Types, NEW t \in Tabs, queue[t] # <<>>
    PROVE  /\ Head(queue[t]) \in Job /\ Tail(queue[t]) \in Seq(Job)
           /\ Head(queue[t]) = queue[t][1] /\ 1 \in DOMAIN queue[t]
           /\ Len(queue[t]) \in Nat /\ Len(queue[t]) >= 1
           /\ DOMAIN Tail(queue[t]) = 1..(Len(queue[t]) - 1) /\ DOMAIN queue[t] = 1..Len(queue[t])
           /\ \A k \in DOMAIN Tail(queue[t]) :
                k + 1 \in DOMAIN queue[t] /\ Tail(queue[t])[k] = queue[t][k + 1]
<1>1. queue[t] \in Seq(Job)
    BY DEF Types, TabTypes
<1> QED
    BY <1>1, HeadTailProperties, LenProperties

LEMMA PriorType ==
    ASSUME Types, NEW id \in EventIds, InRing(id)
    PROVE  /\ PriorSeq(id) \in 1..MaxSeq
           /\ \E i \in DOMAIN Engine.ring : Engine.ring[i].id = id /\ Engine.ring[i].seq = PriorSeq(id)
<1>1. Engine.ring \in Seq(Recorded)
    BY TypesPrime, EngineType DEF Types
<1> DEFINE p == CHOOSE i \in DOMAIN Engine.ring : Engine.ring[i].id = id
<1>2. p \in DOMAIN Engine.ring /\ Engine.ring[p].id = id
    BY DEF InRing
<1>3. PriorSeq(id) = Engine.ring[p].seq
    BY DEF PriorSeq
<1> HIDE DEF p
<1>4. p \in 1..Len(Engine.ring)
    BY <1>1, <1>2
<1>5. Engine.ring[p] \in Recorded
    BY <1>1, <1>4, ElementOfSeq
<1> QED
    BY <1>2, <1>3, <1>5 DEF Recorded

\* Every action on a board is one of the engine's.
LEMMA SyncEngineStep ==
    ASSUME Types, [SyncNext]_vars
    PROVE  EngineStep
<1>1. ASSUME NEW t \in Tabs, PostEvent(t) PROVE EngineStep
  <2>1. Head(queue[t]) \in EventJob
    BY <1>1, HeadOfQueue, JobKind DEF PostEvent, HeadIs
  <2>2. Head(queue[t]).id \in EventIds /\ Head(queue[t]).diff \in Diffs
    BY <2>1 DEF EventJob
  <2> QED
    BY <1>1, <2>2 DEF PostEvent, EngineStep, ResendTabEvent
<1>2. ASSUME NEW t \in Tabs, PostSnapshot(t) PROVE EngineStep
  <2>1. Head(queue[t]) \in Snapshot
    BY <1>2, HeadOfQueue, JobKind DEF PostSnapshot, HeadIs
  <2> QED
    BY <1>2, <2>1 DEF PostSnapshot, EngineStep
<1>3. ASSUME NEW t \in Writers, NEW w \in OneWrite, Edit(t, w) PROVE EngineStep
    BY <1>3 DEF Edit, EngineStep
<1>4. ASSUME NEW t \in Tabs,
             \/ Undo(t) \/ SnapshotTimer(t) \/ Ack(t) \/ LoseAck(t) \/ Receive(t) \/ ServeCatchUp(t)
             \/ FoldCatchUp(t) \/ Drop(t) \/ Connect(t)
      PROVE  EngineStep
    BY <1>4 DEF Undo, SnapshotTimer, Ack, LoseAck, Receive, ServeCatchUp, FoldCatchUp, Drop, Connect,
                EngineStep
<1>5. ASSUME NEW t \in Tabs, Reload(t) PROVE EngineStep
    BY <1>5 DEF Reload, EngineStep
<1>6. ASSUME NEW w \in OneWrite, Command(w) PROVE EngineStep
    BY <1>6 DEF Command, EngineStep, OneWrite
<1>7. CASE OtherBoot \/ ServerRestarts
    BY <1>7 DEF OtherBoot, ServerRestarts, EngineStep
<1>8. CASE UNCHANGED vars
    BY <1>8 DEF vars, EngineStep
<1> QED
    BY <1>1, <1>2, <1>3, <1>4, <1>5, <1>6, <1>7, <1>8 DEF SyncNext

LEMMA EngineTyped ==
    ASSUME Types, [SyncNext]_vars
    PROVE  EngineParts'
BY TypesPrime, SyncEngineStep, EngineStepTyped DEF Types

-----------------------------------------------------------------------------
(***************************************************************************)
(* Types of the tabs.                                                      *)
(***************************************************************************)
LEMMA SeqOfEvents ==
    ASSUME NEW out \in Seq(LogLine), \A k \in 1..Len(out) : out[k] \in Event
    PROVE  out \in Seq(Event)
<1>1. out \in [1..Len(out) -> Event] /\ Len(out) \in Nat
    BY LenProperties
<1> QED
    BY <1>1, SeqDef

LEMMA ServedType ==
    ASSUME Types, NEW w
    PROVE  EventsSince(w) \in Seq(Event)
<1>1. log \in Seq(LogLine) /\ {i \in Readable(log) : log[i].seq > w} \in SUBSET Readable(log)
    BY DEF Types, EngineParts
<1> QED
    BY <1>1, PickedReadable, SeqOfEvents DEF EventsSince

Missed(t) ==
    LinesAt(catchUp[t].reply, {i \in DOMAIN catchUp[t].reply : catchUp[t].reply[i].seq > lastSeq[t]})

LEMMA ReplyType ==
    ASSUME Types, NEW t \in Tabs, ReplyOnItsWay(t)
    PROVE  catchUp[t] \in CatchUp /\ catchUp[t].reply \in Seq(Event) /\ catchUp[t].since \in Nat
BY DEF Types, TabTypes, ReplyOnItsWay, CatchUp

LEMMA MissedType ==
    ASSUME Types, NEW t \in Tabs, ReplyOnItsWay(t)
    PROVE  /\ Missed(t) \in Seq(Event) /\ Missed(t) \in Seq(LogLine)
           /\ Len(Missed(t)) \in Nat
           /\ Missed(t) # <<>> => /\ Len(Missed(t)) \in 1..Len(Missed(t))
                                  /\ Last(Missed(t)) = Missed(t)[Len(Missed(t))]
                                  /\ Last(Missed(t)) \in Event
                                  /\ Last(Missed(t)).seq \in 1..MaxSeq
<1> DEFINE at == {i \in DOMAIN catchUp[t].reply : catchUp[t].reply[i].seq > lastSeq[t]}
<1>1. catchUp[t].reply \in Seq(Event) /\ at \in SUBSET (1..Len(catchUp[t].reply))
    BY ReplyType
<1>2. Missed(t) \in Seq(Event)
    BY <1>1, LinesAtPicks DEF Missed
<1>3. Missed(t) \in Seq(LogLine) /\ Len(Missed(t)) \in Nat
    BY <1>2, SeqMonotonic, LenProperties DEF LogLine
<1>4. ASSUME Missed(t) # <<>>
      PROVE  Len(Missed(t)) \in 1..Len(Missed(t)) /\ Last(Missed(t)) \in Event
  <2>1. Len(Missed(t)) # 0
    BY <1>2, <1>4, EmptySeq
  <2>2. Len(Missed(t)) \in 1..Len(Missed(t))
    BY <1>3, <2>1
  <2> QED
    BY <1>2, <2>2, ElementOfSeq DEF Last
<1> QED
    BY <1>2, <1>3, <1>4, EventShape DEF Last

LEMMA HydrateType ==
    ASSUME Types
    PROVE  /\ hydrate \in Snapshot /\ hydrate \in Job
           /\ hydrate.records = FoldRecords(log, snap) /\ hydrate.seq = FoldWatermark(log, snap)
           /\ hydrate.records \in Records /\ hydrate.seq \in 0..MaxSeq
<1>1. FoldRecords(log, snap) \in Records /\ FoldWatermark(log, snap) \in 0..MaxSeq
    BY FoldType, WatermarkIs DEF Types, EngineParts
<1> QED
    BY <1>1 DEF hydrate, Snapshot, Job

\* A gesture's diff is what the tab's store then holds.
LEMMA EditType ==
    ASSUME Types, NEW t \in Tabs, NEW w \in OneWrite
    PROVE  LET diff == build(touch(emptyDiff, tstore[t], w))
           IN  /\ diff \in Diffs /\ invertDiff(diff) \in Diffs
               /\ applyDiff(tstore[t], diff) = write(tstore[t], w)
               /\ write(tstore[t], w) \in Records
<1>1. tstore[t] \in Records /\ w \in Writes
    BY DEF Types, TabTypes, OneWrite
<1> QED
    BY <1>1, TransactionDiffExact, InvertType, RecordsType

LEMMA TabStepTyped ==
    ASSUME Types, [SyncNext]_vars
    PROVE  TabTypes'
<1> USE DEF TabTypes
<1>t. TabTypes
    BY DEF Types
<1>1. ASSUME NEW t \in Writers, NEW w \in OneWrite, Edit(t, w) PROVE TabTypes'
  <2> DEFINE diff == build(touch(emptyDiff, tstore[t], w))
             after == write(tstore[t], w)
             back == invertDiff(diff)
  <2>1. t \in Tabs
    BY TabsAssumption
  <2>2. diff \in Diffs /\ back \in Diffs /\ after \in Records
    BY <2>1, EditType
  <2>3. PICK id \in EventIds :
          /\ minted' = [minted EXCEPT ![t] = Append(@, id)]
          /\ Enqueue(t, [id |-> id, diff |-> diff])
    BY <1>1 DEF Edit
  <2>4. /\ tstore' = [tstore EXCEPT ![t] = after]
        /\ lastSeq[t] < MaxSeq
        /\ lastSeq' = [lastSeq EXCEPT ![t] = @ + 1]
        /\ dirty' = [dirty EXCEPT ![t] = TRUE]
        /\ undos' = [undos EXCEPT ![t] = Append(@, back)]
        /\ UNCHANGED <<engineVars, answer, conn, bus, catchUp, acked, gone>>
    BY <1>1 DEF Edit, write
  <2> HIDE DEF diff, after, back
  <2>5. [id |-> id, diff |-> diff] \in Job
    BY <2>2 DEF Job
  <2>6. queue' \in [Tabs -> Seq(Job)]
    BY <1>t, <2>1, <2>3, <2>5 DEF Enqueue
  <2>7. lastSeq' \in [Tabs -> 0..MaxSeq]
    BY <1>t, <2>1, <2>4, BoundAssumption
  <2>8. minted' \in [Tabs -> Seq(EventIds)] /\ undos' \in [Tabs -> Seq(Diffs)]
    BY <1>t, <2>1, <2>2, <2>3, <2>4
  <2> QED
    BY <1>t, <2>1, <2>2, <2>4, <2>6, <2>7, <2>8
<1>2. ASSUME NEW t \in Tabs, Undo(t) PROVE TabTypes'
  <2>1. undos[t] \in Seq(Diffs) /\ undos[t] # <<>> /\ Len(undos[t]) \in 1..Len(undos[t])
    BY <1>t, <1>2, EmptySeq DEF Undo
  <2>2. Last(undos[t]) \in Diffs
    BY <2>1, ElementOfSeq DEF Last
  <2>3. applyDiff(tstore[t], Last(undos[t])) \in Records
    BY <1>t, <2>2, RecordsType
  <2>4. Front(undos[t]) \in Seq(Diffs)
    BY <2>1 DEF Front
  <2>5. tstore' \in [Tabs -> Records] /\ undos' \in [Tabs -> Seq(Diffs)]
    BY <1>t, <1>2, <2>3, <2>4 DEF Undo
  <2> QED
    BY <1>t, <1>2, <2>5 DEF Undo, ghosts
<1>3. ASSUME NEW t \in Tabs, SnapshotTimer(t) PROVE TabTypes'
  <2> DEFINE job == [records |-> tstore[t], seq |-> lastSeq[t]]
  <2>1. job \in Job
    BY <1>t DEF Job, Snapshot
  <2>2. queue' = [queue EXCEPT ![t] = Append(@, job)]
    BY <1>3 DEF SnapshotTimer, Enqueue
  <2> HIDE DEF job
  <2>3. queue' \in [Tabs -> Seq(Job)]
    BY <1>t, <2>1, <2>2
  <2> QED
    BY <1>t, <1>3, <2>3 DEF SnapshotTimer, ghosts
<1>4. ASSUME NEW t \in Tabs, PostEvent(t) PROVE TabTypes'
  <2> DEFINE job == Head(queue[t])
             seq == IF InRing(job.id) THEN PriorSeq(job.id) ELSE Engine.watermark + 1
  <2>1. job \in EventJob
    BY <1>4, HeadOfQueue, JobKind DEF PostEvent, HeadIs
  <2>2. job.id \in EventIds /\ job.diff \in Diffs
    BY <2>1 DEF EventJob
  <2>3. /\ AppendTabEvent(job.id, job.diff, FALSE) \/ ResendTabEvent(job.id)
        /\ Broadcast(job.diff, seq, t)
        /\ answer' = [answer EXCEPT ![t] = seq]
    BY <1>4 DEF PostEvent
  <2>4. seq \in 1..MaxSeq
    <3>1. CASE InRing(job.id)
      BY <2>2, <3>1, PriorType
    <3>2. CASE ~InRing(job.id)
      <4>1. Engine.watermark + 1 <= MaxSeq
        BY <2>3, <3>2 DEF AppendTabEvent, ResendTabEvent
      <4>2. EngineTypeOK
        BY TypesPrime DEF Types
      <4> QED
        BY <2>2, <3>2, <4>1, <4>2, TabEvent
    <3> QED
      BY <3>1, <3>2
  <2> HIDE DEF seq
  <2>5. [diff |-> job.diff, seq |-> seq] \in Frame
    BY <2>2, <2>4 DEF Frame
  <2>6. bus' \in [Tabs -> Seq(Frame)]
    BY <1>t, <2>3, <2>5 DEF Broadcast
  <2>7. answer' \in [Tabs -> 1..MaxSeq \cup {Nil}]
    BY <1>t, <2>3, <2>4
  <2> QED
    BY <1>t, <1>4, <2>6, <2>7 DEF PostEvent, ghosts
<1>5. ASSUME NEW t \in Tabs, Ack(t) PROVE TabTypes'
  <2>1. answer[t] \in 1..MaxSeq
    BY <1>t, <1>5 DEF Ack
  <2>2. lastSeq' \in [Tabs -> 0..MaxSeq]
    <3>1. Max2(lastSeq[t], answer[t]) \in 0..MaxSeq
      BY <1>t, <2>1, BoundAssumption DEF Max2
    <3> QED
      BY <1>t, <1>5, <3>1 DEF Ack
  <2>3. queue[t] # <<>> /\ Head(queue[t]).id \in EventIds
    BY <1>5 DEF Ack, Types, Answering, EventJob
  <2>4. Tail(queue[t]) \in Seq(Job)
    BY <2>3, HeadOfQueue
  <2>5. acked' \subseteq Recorded
    <3>1. [id |-> Head(queue[t]).id, seq |-> answer[t]] \in Recorded
      BY <2>1, <2>3 DEF Recorded
    <3>2. acked' = acked \cup {[id |-> Head(queue[t]).id, seq |-> answer[t]]}
      BY <1>5 DEF Ack
    <3> QED
      BY <1>t, <3>1, <3>2
  <2>6. queue' \in [Tabs -> Seq(Job)]
    BY <1>t, <1>5, <2>4 DEF Ack
  <2> QED
    BY <1>t, <1>5, <2>2, <2>5, <2>6 DEF Ack
<1>6. ASSUME NEW t \in Tabs, LoseAck(t) PROVE TabTypes'
    BY <1>t, <1>6 DEF LoseAck, ghosts
<1>7. ASSUME NEW t \in Tabs, PostSnapshot(t) PROVE TabTypes'
  <2>1. Tail(queue[t]) \in Seq(Job)
    BY <1>7, HeadOfQueue DEF PostSnapshot, HeadIs
  <2>2. queue' \in [Tabs -> Seq(Job)]
    BY <1>t, <1>7, <2>1 DEF PostSnapshot
  <2> QED
    BY <1>t, <1>7, <2>2 DEF PostSnapshot, ghosts
<1>8. ASSUME NEW t \in Tabs, Receive(t) PROVE TabTypes'
  <2> DEFINE frame == Head(bus[t])
             next == classifyInbound(frame.seq, lastSeq[t]) = "next"
             gap == classifyInbound(frame.seq, lastSeq[t]) = "gap"
  <2>1. bus[t] \in Seq(Frame) /\ bus[t] # <<>>
    BY <1>t, <1>8 DEF Receive
  <2>2. frame \in Frame /\ Tail(bus[t]) \in Seq(Frame)
    BY <2>1, HeadTailProperties
  <2>3. frame.diff \in Diffs /\ frame.seq \in 0..MaxSeq
    BY <2>2, BoundAssumption DEF Frame
  <2>4. applyDiff(tstore[t], frame.diff) \in Records
    BY <1>t, <2>3, RecordsType
  <2>5. /\ bus' = [bus EXCEPT ![t] = Tail(@)]
        /\ IF next
           THEN /\ tstore' = [tstore EXCEPT ![t] = applyDiff(@, frame.diff)]
                /\ lastSeq' = [lastSeq EXCEPT ![t] = frame.seq]
                /\ dirty' = [dirty EXCEPT ![t] = @ \/ frame.diff # emptyDiff]
           ELSE UNCHANGED <<tstore, lastSeq, dirty>>
        /\ IF gap THEN StartCatchUp(t) ELSE UNCHANGED catchUp
        /\ UNCHANGED <<engineVars, queue, answer, undos, conn, ghosts>>
    BY <1>8 DEF Receive
  <2> HIDE DEF frame, next, gap
  <2>6. tstore' \in [Tabs -> Records] /\ lastSeq' \in [Tabs -> 0..MaxSeq]
    <3>1. CASE next
      <4>1. /\ tstore' = [tstore EXCEPT ![t] = applyDiff(@, frame.diff)]
            /\ lastSeq' = [lastSeq EXCEPT ![t] = frame.seq]
        BY <2>5, <3>1
      <4> QED
        BY <1>t, <2>3, <2>4, <4>1
    <3>2. CASE ~next
      BY <1>t, <2>5, <3>2
    <3> QED
      BY <3>1, <3>2
  <2>9. dirty' \in [Tabs -> BOOLEAN]
    <3>1. (dirty[t] \/ frame.diff # emptyDiff) \in BOOLEAN
      OBVIOUS
    <3>2. CASE next
      BY <1>t, <2>5, <3>1, <3>2, Zenon
    <3>3. CASE ~next
      BY <1>t, <2>5, <3>3
    <3> QED
      BY <3>2, <3>3
  <2>7. bus' \in [Tabs -> Seq(Frame)]
    BY <1>t, <2>2, <2>5
  <2>8. catchUp' \in [Tabs -> CatchUp \cup {Nil}]
    <3>1. [since |-> lastSeq[t], reply |-> Nil] \in CatchUp
      BY <1>t, BoundAssumption DEF CatchUp
    <3> QED
      BY <1>t, <2>5, <3>1 DEF StartCatchUp
  <2> QED
    BY <1>t, <2>5, <2>6, <2>7, <2>8, <2>9 DEF ghosts
<1>9. ASSUME NEW t \in Tabs, ServeCatchUp(t) PROVE TabTypes'
  <2>1. catchUp[t] \in CatchUp
    BY <1>t, <1>9 DEF ServeCatchUp
  <2>2. [since |-> catchUp[t].since, reply |-> EventsSince(catchUp[t].since)] \in CatchUp
    BY <2>1, ServedType DEF CatchUp
  <2>3. catchUp' \in [Tabs -> CatchUp \cup {Nil}]
    BY <1>t, <1>9, <2>2 DEF ServeCatchUp
  <2> QED
    BY <1>t, <1>9, <2>3 DEF ServeCatchUp, ghosts
<1>10. ASSUME NEW t \in Tabs, FoldCatchUp(t) PROVE TabTypes'
  <2> DEFINE missed == Missed(t)
             base == [records |-> tstore[t], seq |-> lastSeq[t]]
  <2>1. ReplyOnItsWay(t)
    BY <1>10 DEF FoldCatchUp
  <2>2. missed \in Seq(LogLine)
    BY <2>1, MissedType
  <2>3. base \in Stored
    BY <1>t DEF Stored, Snapshot
  <2>4. FoldRecords(missed, base) \in Records
    BY <2>2, <2>3, FoldType
  <2>5. missed # <<>> => Last(missed).seq \in 0..MaxSeq /\ Last(missed).seq \in Nat
    BY <2>1, MissedType, BoundAssumption
  <2>6. /\ IF missed = <<>>
           THEN /\ catchUp' = [catchUp EXCEPT ![t] = Nil]
                /\ UNCHANGED <<tstore, lastSeq, dirty>>
           ELSE /\ tstore' = [tstore EXCEPT ![t] = FoldRecords(missed, base)]
                /\ lastSeq' = [lastSeq EXCEPT ![t] = Last(missed).seq]
                /\ dirty' = [dirty EXCEPT ![t] = TRUE]
                /\ catchUp' = [catchUp EXCEPT ![t] = [since |-> Last(missed).seq, reply |-> Nil]]
        /\ UNCHANGED <<engineVars, queue, answer, undos, conn, bus, ghosts>>
    BY <1>10 DEF FoldCatchUp, Missed
  <2> HIDE DEF missed, base
  <2>7. /\ tstore' \in [Tabs -> Records] /\ lastSeq' \in [Tabs -> 0..MaxSeq]
        /\ dirty' \in [Tabs -> BOOLEAN]
    BY <1>t, <2>4, <2>5, <2>6
  <2>8. catchUp' \in [Tabs -> CatchUp \cup {Nil}]
    <3> DEFINE asked == [since |-> Last(missed).seq, reply |-> Nil]
    <3>1. missed # <<>> => asked \in CatchUp
      BY <2>5 DEF CatchUp
    <3>2. catchUp \in [Tabs -> CatchUp \cup {Nil}]
      BY <1>t
    <3>3. IF missed = <<>> THEN catchUp' = [catchUp EXCEPT ![t] = Nil]
                           ELSE catchUp' = [catchUp EXCEPT ![t] = asked]
      BY <2>6
    <3> HIDE DEF asked
    <3> QED
      BY <3>1, <3>2, <3>3
  <2> QED
    BY <1>t, <2>6, <2>7, <2>8 DEF ghosts
<1>11. ASSUME NEW t \in Tabs, Drop(t) PROVE TabTypes'
  <2>1. <<>> \in Seq(Frame)
    OBVIOUS
  <2> QED
    BY <1>t, <1>11, <2>1 DEF Drop, ghosts
<1>12. ASSUME NEW t \in Tabs, Connect(t) PROVE TabTypes'
  <2>1. [since |-> lastSeq[t], reply |-> Nil] \in CatchUp
    BY <1>t, BoundAssumption DEF CatchUp
  <2>2. catchUp' \in [Tabs -> CatchUp \cup {Nil}]
    BY <1>t, <1>12, <2>1 DEF Connect, StartCatchUp
  <2> QED
    BY <1>t, <1>12, <2>2 DEF Connect, ghosts
<1>13. ASSUME NEW t \in Tabs, Reload(t) PROVE TabTypes'
  <2>1. /\ hydrate \in Job /\ hydrate.records \in Records /\ hydrate.seq \in 0..MaxSeq
        /\ <<hydrate>> \in Seq(Job) /\ <<>> \in Seq(Diffs) /\ <<>> \in Seq(Frame)
    BY HydrateType
  <2>2. QueuedIds(t) \subseteq EventIds
    <3> SUFFICES ASSUME NEW i \in DOMAIN queue[t], "id" \in DOMAIN queue[t][i]
                 PROVE  queue[t][i].id \in EventIds
      BY DEF QueuedIds
    <3>1. queue[t] \in Seq(Job)
      BY <1>t
    <3>2. queue[t][i] \in Job
      BY <3>1, LenProperties, ElementOfSeq
    <3> QED
      BY <3>2, JobKind DEF EventJob
  <2>3. gone' \subseteq EventIds
    BY <1>t, <1>13, <2>2 DEF Reload
  <2> QED
    BY <1>t, <1>13, <2>1, <2>3 DEF Reload
<1>14. ASSUME NEW w \in OneWrite, Command(w) PROVE TabTypes'
  <2> DEFINE e == [id |-> NoId, seq |-> Engine.watermark + 1,
                   diff |-> build(touch(emptyDiff, Engine.store, w))]
  <2>1. w \in Writes /\ Engine.watermark + 1 <= MaxSeq /\ log' = Append(log, e)
    BY <1>14 DEF Command, CommitCommand, appendBoardEvent, OneWrite
  <2>2. e \in Event /\ e \in LogLine
    BY <2>1, TypesPrime, CommandEvent DEF Types
  <2> HIDE DEF e
  <2>3. Last(log') = e
    <3>1. log \in Seq(LogLine)
      BY DEF Types, EngineParts
    <3> QED
      BY <2>1, <2>2, <3>1, AppendedLine DEF Last
  <2>4. [diff |-> e.diff, seq |-> e.seq] \in Frame
    BY <2>2, EventShape DEF Frame
  <2>5. Broadcast(e.diff, e.seq, Nil)
    BY <1>14, <2>3 DEF Command
  <2>6. bus' \in [Tabs -> Seq(Frame)]
    BY <1>t, <2>4, <2>5 DEF Broadcast
  <2> QED
    BY <1>t, <1>14, <2>6 DEF Command, ghosts
<1>15. CASE OtherBoot
    BY <1>t, <1>15 DEF OtherBoot, tabVars, ghosts
<1>16. CASE ServerRestarts
  <2>1. <<>> \in Seq(Frame)
    OBVIOUS
  <2> QED
    BY <1>t, <1>16, <2>1 DEF ServerRestarts, ghosts
<1>17. CASE UNCHANGED vars
    BY <1>t, <1>17 DEF vars, tabVars, ghosts
<1> HIDE DEF TabTypes
<1> QED
    BY <1>1, <1>2, <1>3, <1>4, <1>5, <1>6, <1>7, <1>8, <1>9, <1>10, <1>11, <1>12, <1>13, <1>14,
       <1>15, <1>16, <1>17 DEF SyncNext

\* What Enqueue does to a queue: one more write at its end, the others where they were.
LEMMA Enqueued ==
    ASSUME Types, NEW t \in Tabs, NEW job \in Job, Enqueue(t, job)
    PROVE  /\ queue' = [queue EXCEPT ![t] = Append(@, job)]
           /\ queue'[t] = Append(queue[t], job) /\ queue'[t] # <<>>
           /\ \A u \in Tabs \ {t} : queue'[u] = queue[u]
           /\ Len(queue[t]) \in Nat
           /\ DOMAIN queue'[t] = 1..(Len(queue[t]) + 1) /\ DOMAIN queue[t] = 1..Len(queue[t])
           /\ \A k \in DOMAIN queue[t] : queue'[t][k] = queue[t][k] /\ queue[t][k] \in Job
           /\ queue'[t][Len(queue[t]) + 1] = job
           /\ queue[t] # <<>> => Head(queue'[t]) = Head(queue[t])
<1>1. queue[t] \in Seq(Job) /\ queue \in [Tabs -> Seq(Job)]
    BY DEF Types, TabTypes
<1>2. /\ queue' = [queue EXCEPT ![t] = Append(@, job)]
      /\ queue'[t] = Append(queue[t], job) /\ \A u \in Tabs \ {t} : queue'[u] = queue[u]
    BY <1>1 DEF Enqueue
<1>3. /\ Append(queue[t], job) \in Seq(Job) /\ Append(queue[t], job) # <<>>
      /\ Len(Append(queue[t], job)) = Len(queue[t]) + 1 /\ Len(queue[t]) \in Nat
      /\ \A k \in 1..Len(queue[t]) : Append(queue[t], job)[k] = queue[t][k]
      /\ Append(queue[t], job)[Len(queue[t]) + 1] = job
      /\ DOMAIN Append(queue[t], job) = 1..(Len(queue[t]) + 1) /\ DOMAIN queue[t] = 1..Len(queue[t])
    BY <1>1, AppendProperties, LenProperties
<1>4. \A k \in 1..Len(queue[t]) : queue[t][k] \in Job
    BY <1>1, ElementOfSeq
<1>5. queue[t] # <<>> => Head(Append(queue[t], job)) = Head(queue[t])
  <2> SUFFICES ASSUME queue[t] # <<>> PROVE Head(Append(queue[t], job)) = Head(queue[t])
    OBVIOUS
  <2>1. 1 \in 1..Len(queue[t])
    BY <1>1, <1>3, EmptySeq
  <2>2. Head(Append(queue[t], job)) = Append(queue[t], job)[1] /\ Head(queue[t]) = queue[t][1]
    BY <1>1, <1>3, HeadTailProperties
  <2> QED
    BY <1>3, <2>1, <2>2
<1> QED
    BY <1>2, <1>3, <1>4, <1>5

\* What one edit does to its tab.
LEMMA Edited ==
    ASSUME Types, NEW t \in Writers, NEW w \in OneWrite, Edit(t, w)
    PROVE  \E id \in EventIds :
              LET job == [id |-> id, diff |-> build(touch(emptyDiff, tstore[t], w))]
              IN  /\ t \in Tabs /\ job \in EventJob /\ job \in Job
                  /\ id \notin UNION {Range(minted[u]) : u \in Tabs}
                  /\ minted' = [minted EXCEPT ![t] = Append(@, id)]
                  /\ Enqueue(t, job)
                  /\ lastSeq' = [lastSeq EXCEPT ![t] = @ + 1]
                  /\ UNCHANGED <<engineVars, answer, conn, bus, catchUp, acked, gone>>
<1>1. t \in Tabs
    BY TabsAssumption
<1>2. build(touch(emptyDiff, tstore[t], w)) \in Diffs
    BY <1>1, EditType
<1> QED
    BY <1>1, <1>2 DEF Edit, EventJob, Job

\* What one snapshot of a tab queues.
LEMMA SnapshotJob ==
    ASSUME Types, NEW t \in Tabs
    PROVE  LET job == [records |-> tstore[t], seq |-> lastSeq[t]]
           IN  job \in Snapshot /\ job \in Job /\ "id" \notin DOMAIN job
BY DEF Types, TabTypes, Snapshot, Job

LEMMA AnsweringStep ==
    ASSUME Types, [SyncNext]_vars
    PROVE  Answering'
<1>a. Answering
    BY DEF Types
<1>u. ASSUME UNCHANGED <<queue, answer>> PROVE Answering'
    BY <1>a, <1>u DEF Answering
<1>q. ASSUME NEW t \in Tabs, NEW job \in Job, Enqueue(t, job), answer' = answer PROVE Answering'
    BY <1>a, <1>q, Enqueued DEF Answering
<1>o. ASSUME NEW t \in Tabs, answer'[t] # Nil => queue'[t] # <<>> /\ Head(queue'[t]) \in EventJob,
             \A u \in Tabs \ {t} : queue'[u] = queue[u] /\ answer'[u] = answer[u]
      PROVE  Answering'
    BY <1>a, <1>o DEF Answering
<1>f. queue \in [Tabs -> Seq(Job)] /\ answer \in [Tabs -> 1..MaxSeq \cup {Nil}]
    BY DEF Types, TabTypes
<1>1. ASSUME NEW t \in Writers, NEW w \in OneWrite, Edit(t, w) PROVE Answering'
  <2>1. t \in Tabs
    BY TabsAssumption
  <2>2. PICK job \in Job : Enqueue(t, job) /\ answer' = answer
    BY <1>1, Edited
  <2> QED
    BY <1>q, <2>1, <2>2
<1>2. ASSUME NEW t \in Tabs, SnapshotTimer(t) PROVE Answering'
    BY <1>2, <1>q, SnapshotJob DEF SnapshotTimer
<1>3. ASSUME NEW t \in Tabs, PostEvent(t) PROVE Answering'
  <2>1. queue[t] # <<>> /\ Head(queue[t]) \in EventJob /\ queue' = queue
    BY <1>3, HeadOfQueue, JobKind DEF PostEvent, HeadIs
  <2>2. \A u \in Tabs \ {t} : answer'[u] = answer[u]
    BY <1>3, <1>f DEF PostEvent
  <2> QED
    BY <1>o, <2>1, <2>2
<1>4. ASSUME NEW t \in Tabs, Ack(t) \/ LoseAck(t) PROVE Answering'
    BY <1>4, <1>f, <1>o DEF Ack, LoseAck
<1>5. ASSUME NEW t \in Tabs, PostSnapshot(t) PROVE Answering'
    BY <1>5, <1>f, <1>o DEF PostSnapshot, HeadIs
<1>6. ASSUME NEW t \in Tabs, Reload(t) PROVE Answering'
    BY <1>6, <1>f, <1>o DEF Reload
<1>7. ASSUME NEW t \in Tabs,
             \/ Undo(t) \/ Receive(t) \/ ServeCatchUp(t) \/ FoldCatchUp(t) \/ Drop(t) \/ Connect(t)
      PROVE  Answering'
    BY <1>7, <1>u DEF Undo, Receive, ServeCatchUp, FoldCatchUp, Drop, Connect
<1>8. ASSUME NEW w \in OneWrite, Command(w) PROVE Answering'
    BY <1>8, <1>u DEF Command
<1>9. CASE OtherBoot \/ ServerRestarts \/ UNCHANGED vars
    BY <1>9, <1>u DEF OtherBoot, ServerRestarts, vars, tabVars
<1> QED
    BY <1>1, <1>2, <1>3, <1>4, <1>5, <1>6, <1>7, <1>8, <1>9 DEF SyncNext

LEMMA SyncInitTypes == Init => Types
<1> SUFFICES ASSUME Init PROVE Types
    OBVIOUS
<1>1. /\ NoRecords \in Records /\ 0 \in 0..MaxSeq /\ [records |-> NoRecords, seq |-> 0] \in Snapshot
      /\ <<>> \in Seq(LogLine) /\ <<>> \in Seq(Job) /\ <<>> \in Seq(Diffs) /\ <<>> \in Seq(Frame)
      /\ <<>> \in Seq(EventIds)
    BY BoundAssumption DEF NoRecords, Records, Slot, Snapshot
<1>2. EngineParts
    BY <1>1 DEF Init, EngineParts, Stored
<1>3. TabTypes
    BY <1>1 DEF Init, TabTypes
<1>4. Answering
    BY DEF Init, Answering
<1> QED
    BY <1>2, <1>3, <1>4 DEF Types

LEMMA TypesStep == Types /\ [SyncNext]_vars => Types'
BY EngineTyped, TabStepTyped, AnsweringStep DEF Types

-----------------------------------------------------------------------------
(***************************************************************************)
(* What a step does to the log: it commits one event at the next seq, or   *)
(* brings in nothing new.                                                  *)
(***************************************************************************)
Top == FoldWatermark(log, snap)

\* An event is in a log at its seq, or the snapshot is KeepTail past it.
Durable(lines, s, id, n) ==
    \/ \E i \in Readable(lines) : lines[i].id = id /\ lines[i].seq = n
    \/ n + KeepTail <= SnapSeq(s)

LiveWatermark == entry # NoEntry => entry.watermark = Top

RingDurable ==
    entry # NoEntry =>
        \A k \in DOMAIN entry.ring : Durable(log, snap, entry.ring[k].id, entry.ring[k].seq)

EngineInv == LiveWatermark /\ RingDurable /\ SeqsIncrease

\* Every event of the new log was in the old one, in the same order.
NothingNew ==
    \E f : \A q \in Readable(log') :
              /\ f[q] \in Readable(log) /\ log'[q] = log[f[q]]
              /\ \A p \in Readable(log') : p < q => f[p] < f[q]

Committing(e) ==
    e \in Event /\ e.seq = Top + 1 /\ log' = Append(log, e) /\ snap' = snap

\* What was durable stays so.
StaysDurable == \A id, n : n \in Nat /\ Durable(log, snap, id, n) => Durable(log', snap', id, n)

Quietly == NothingNew /\ Top <= Top' /\ StaysDurable

LEMMA TopType ==
    ASSUME EngineParts
    PROVE  /\ Top \in Nat /\ Top \in 0..MaxSeq /\ SnapSeq(snap) <= Top /\ SnapSeq(snap) \in Nat
           /\ \A i \in Readable(log) : log[i].seq <= Top /\ log[i].seq \in Nat /\ log[i] \in Event
BY WatermarkIs, SnapSeqType, ReadableShape, EventShape DEF EngineParts, Top

LEMMA RingSeqs ==
    ASSUME EngineParts, entry # NoEntry
    PROVE  \A k \in DOMAIN entry.ring : entry.ring[k] \in Recorded /\ entry.ring[k].seq \in Nat
<1>1. entry.ring \in Seq(Recorded)
    BY DEF EngineParts, Entry
<1>2. ASSUME NEW k \in DOMAIN entry.ring PROVE entry.ring[k] \in Recorded
    BY <1>1, LenProperties, ElementOfSeq
<1> QED
    BY <1>2, BoundAssumption DEF Recorded

LEMMA EngineAtTop ==
    ASSUME EngineParts, LiveWatermark
    PROVE  Engine.watermark = Top
BY HydratedType DEF Engine, LiveWatermark, EngineParts, Top

LEMMA SameLog ==
    ASSUME log' = log
    PROVE  NothingNew
<1> DEFINE f == [q \in Readable(log) |-> q]
<1>1. \A q \in Readable(log') :
        /\ f[q] \in Readable(log) /\ log'[q] = log[f[q]]
        /\ \A p \in Readable(log') : p < q => f[p] < f[q]
    OBVIOUS
<1> QED
    BY <1>1 DEF NothingNew

LEMMA TornQuietly ==
    ASSUME EngineParts, EngineInv, AppendInterrupted, snap' = snap
    PROVE  Quietly /\ Top' = Top /\ SeqsIncrease'
<1>1. log \in Seq(LogLine) /\ Top \in Nat
    BY TopType DEF EngineParts
<1>2. CASE log' = log
    BY <1>1, <1>2, SameLog DEF Quietly, Top, StaysDurable, Durable, EngineInv, SeqsIncrease
<1>3. CASE log' = Append(log, Torn)
  <2>1. Readable(log') = Readable(log) /\ \A i \in Readable(log) : log'[i] = log[i]
    BY <1>1, <1>3, AppendedReadable DEF LogLine
  <2>2. NothingNew
    <3> DEFINE f == [q \in Readable(log) |-> q]
    <3>1. \A q \in Readable(log') :
            /\ f[q] \in Readable(log) /\ log'[q] = log[f[q]]
            /\ \A p \in Readable(log') : p < q => f[p] < f[q]
      BY <2>1
    <3> QED
      BY <3>1 DEF NothingNew
  <2>3. Top' = Top
    BY <1>1, <1>3, FoldOfTorn DEF Top
  <2>4. StaysDurable
    BY <2>1 DEF StaysDurable, Durable
  <2>5. SeqsIncrease'
    BY <2>1 DEF EngineInv, SeqsIncrease
  <2> QED
    BY <1>1, <2>2, <2>3, <2>4, <2>5 DEF Quietly
<1> QED
    BY <1>2, <1>3 DEF AppendInterrupted, appendBoardEvent

LEMMA SavedQuietly ==
    ASSUME EngineParts, EngineInv, NEW s \in Snapshot, SaveSnapshot(s)
    PROVE  /\ Quietly /\ EngineInv'
           /\ entry' # NoEntry => entry'.ring = <<>> \/ (entry # NoEntry /\ entry'.ring = entry.ring)
<1>1. /\ log \in Seq(LogLine) /\ snap \in Stored /\ s \in Stored /\ SnapSeq(s) = s.seq
      /\ s.seq \in Nat /\ Top \in Nat /\ SnapSeq(snap) \in Nat /\ SnapSeq(snap) <= Top
    BY TopType, SnapSeqType, MarkerAssumption DEF EngineParts, Stored, SnapSeq
<1>2. /\ SnapSeq(snap) <= s.seq /\ log' = log /\ snap' = s
      /\ entry' = IF entry # NoEntry /\ s.seq > entry.watermark THEN hydrateEntry(log, s) ELSE entry
    BY <1>1 DEF SaveSnapshot, Stale
<1>3. NothingNew /\ SeqsIncrease'
    BY <1>2, SameLog DEF EngineInv, SeqsIncrease
<1>4. StaysDurable
  <2> SUFFICES ASSUME NEW id, NEW n \in Nat, Durable(log, snap, id, n) PROVE Durable(log', snap', id, n)
    BY DEF StaysDurable
  <2>1. CASE \E i \in Readable(log) : log[i].id = id /\ log[i].seq = n
    BY <1>2, <2>1 DEF Durable
  <2>2. CASE n + KeepTail <= SnapSeq(snap)
    <3>1. n + KeepTail <= SnapSeq(s)
      BY <1>1, <1>2, <2>2, BoundAssumption
    <3> QED
      BY <1>2, <3>1 DEF Durable
  <2> QED
    BY <2>1, <2>2 DEF Durable
<1>5. CASE s.seq <= Top
  <2>1. Top' = Top
    BY <1>1, <1>2, <1>5, WatermarkOfBehind DEF Top
  <2>2. entry' = entry
    BY <1>1, <1>2, <1>5 DEF EngineInv, LiveWatermark
  <2>3. LiveWatermark' /\ RingDurable'
    BY <1>4, <2>1, <2>2, RingSeqs DEF EngineInv, LiveWatermark, RingDurable, StaysDurable
  <2> QED
    BY <1>1, <1>3, <1>4, <2>1, <2>2, <2>3 DEF Quietly, EngineInv
<1>6. CASE ~(s.seq <= Top)
  <2>1. Top' = s.seq /\ Top <= Top'
    <3>1. SnapSeq(s) >= FoldWatermark(log, snap)
      BY <1>1, <1>6 DEF Top
    <3>2. FoldWatermark(log, s) = SnapSeq(s)
      BY <1>1, <3>1, WatermarkOfAhead
    <3> QED
      BY <1>1, <1>2, <1>6, <3>2 DEF Top
  <2>2. entry' = NoEntry \/ (entry' = hydrateEntry(log, s) /\ entry'.ring = <<>>)
    BY <1>1, <1>2, <1>6 DEF EngineInv, LiveWatermark, hydrateEntry
  <2>3. LiveWatermark'
    BY <1>1, <1>2, <2>2, HydratedType DEF LiveWatermark, Top
  <2>4. RingDurable'
    BY <2>2 DEF RingDurable
  <2> QED
    BY <1>3, <1>4, <2>1, <2>2, <2>3, <2>4 DEF Quietly, EngineInv
<1> QED
    BY <1>5, <1>6

LEMMA CompactedQuietly ==
    ASSUME EngineParts, EngineInv, Boot
    PROVE  Quietly /\ EngineInv' /\ Top' = Top /\ entry' = entry
<1> DEFINE at == {i \in Readable(log) : ~Droppable(log[i])}
<1>1. /\ log \in Seq(LogLine) /\ snap \in Stored /\ Top \in Nat /\ snap' = snap /\ entry' = entry
      /\ at \in SUBSET Readable(log)
    BY TopType DEF EngineParts, Boot
<1>2. log' = log \/ log' = LinesAt(log, at)
    BY DEF Boot, compactBoardEvents
<1>3. CASE log' = log
    BY <1>1, <1>3, SameLog DEF Quietly, Top, StaysDurable, Durable, EngineInv, SeqsIncrease,
       LiveWatermark, RingDurable
<1>4. CASE log' = LinesAt(log, at)
  <2>1. TailOf(log, snap) \subseteq at
    <3> SUFFICES ASSUME NEW i \in TailOf(log, snap) PROVE i \in at
      OBVIOUS
    <3>1. i \in Readable(log) /\ log[i].seq > SnapSeq(snap)
      BY DEF TailOf
    <3>2. ~(log[i].seq + KeepTail <= SnapSeq(snap))
      BY <3>1, TopType, BoundAssumption
    <3> QED
      BY <3>1, <3>2 DEF Droppable
  <2>2. Top' = Top
    BY <1>1, <1>4, <2>1, WatermarkOfSome DEF Top
  <2>3. PICK f : Picks(f, log', log, at) /\ Readable(log') = 1..Len(log')
    BY <1>1, <1>4, PickedReadable
  <2>4. NothingNew
    <3>1. \A q \in Readable(log') :
            /\ f[q] \in Readable(log) /\ log'[q] = log[f[q]]
            /\ \A p \in Readable(log') : p < q => f[p] < f[q]
      BY <2>3 DEF Picks
    <3> QED
      BY <3>1 DEF NothingNew
  <2>5. StaysDurable
    <3> SUFFICES ASSUME NEW id, NEW n \in Nat, Durable(log, snap, id, n) PROVE Durable(log', snap', id, n)
      BY DEF StaysDurable
    <3>1. ASSUME NEW i \in Readable(log), log[i].id = id, log[i].seq = n PROVE Durable(log', snap', id, n)
      <4>1. CASE i \in at
        <5>1. PICK k \in 1..Len(log') : f[k] = i /\ log'[k] = log[i]
          BY <2>3, <4>1 DEF Picks
        <5> QED
          BY <2>3, <3>1, <5>1 DEF Durable
      <4>2. CASE i \notin at
        BY <1>1, <3>1, <4>2 DEF Durable, Droppable
      <4> QED
        BY <4>1, <4>2
    <3>2. CASE n + KeepTail <= SnapSeq(snap)
      BY <1>1, <3>2 DEF Durable
    <3> QED
      BY <3>1, <3>2 DEF Durable
  <2>6. SeqsIncrease'
    <3>1. Increasing(LinesAt(log, at))
      BY <1>1, SomeIncrease DEF EngineInv, SeqsIncrease, Increasing
    <3> QED
      BY <1>4, <3>1 DEF SeqsIncrease, Increasing
  <2>7. LiveWatermark' /\ RingDurable'
    BY <1>1, <2>2, <2>5, RingSeqs DEF EngineInv, LiveWatermark, RingDurable, StaysDurable
  <2> QED
    BY <1>1, <2>2, <2>4, <2>5, <2>6, <2>7 DEF Quietly, EngineInv
<1> QED
    BY <1>2, <1>3, <1>4

LEMMA CommittedTop ==
    ASSUME EngineParts, EngineInv, NEW e, Committing(e)
    PROVE  /\ Top' = Top + 1 /\ StaysDurable /\ SeqsIncrease' /\ Durable(log', snap', e.id, e.seq)
           /\ Readable(log') = Readable(log) \cup {Len(log) + 1}
           /\ log'[Len(log) + 1] = e /\ Len(log) + 1 \notin Readable(log)
           /\ \A i \in Readable(log) : log'[i] = log[i] /\ i < Len(log) + 1
<1>1. /\ log \in Seq(LogLine) /\ snap \in Stored /\ e \in Event /\ e \in LogLine /\ e # Torn
      /\ log' = Append(log, e) /\ snap' = snap /\ e.seq = Top + 1 /\ Top \in Nat
    BY TopType, MarkerAssumption DEF EngineParts, Committing, LogLine
<1>2. /\ Readable(log') = Readable(log) \cup {Len(log) + 1}
      /\ log'[Len(log) + 1] = e /\ Len(log) + 1 \notin Readable(log)
      /\ \A i \in Readable(log) : log'[i] = log[i] /\ i < Len(log) + 1
    BY <1>1, AppendedReadable, AppendedLine, ReadableShape
<1>3. Top' = Top + 1
  <2>1. e.seq >= FoldWatermark(log, snap)
    BY <1>1 DEF Top
  <2> QED
    BY <1>1, <2>1, WatermarkOfAppend DEF Top
<1>4. StaysDurable /\ Durable(log', snap', e.id, e.seq)
    BY <1>1, <1>2 DEF StaysDurable, Durable
<1>5. SeqsIncrease'
  <2>1. \A i \in Readable(log) : log[i].seq < e.seq
    BY <1>1, TopType
  <2>2. Increasing(Append(log, e))
    BY <1>1, <2>1, AppendIncreases DEF EngineInv, SeqsIncrease, Increasing
  <2> QED
    BY <1>1, <2>2 DEF SeqsIncrease, Increasing
<1> QED
    BY <1>2, <1>3, <1>4, <1>5

RingIds == IF entry = NoEntry THEN {} ELSE {entry.ring[k].id : k \in DOMAIN entry.ring}

LEMMA Remembered ==
    ASSUME NEW ring \in Seq(Recorded), NEW id \in EventIds, NEW n \in 1..MaxSeq
    PROVE  \A k \in DOMAIN Remember(ring, id, n) :
              \/ Remember(ring, id, n)[k] = [id |-> id, seq |-> n]
              \/ \E l \in DOMAIN ring : Remember(ring, id, n)[k] = ring[l]
<1> DEFINE new == [id |-> id, seq |-> n]
           longer == Append(ring, new)
<1>1. new \in Recorded
    BY DEF Recorded
<1>2. /\ longer \in Seq(Recorded) /\ longer # <<>> /\ Len(longer) = Len(ring) + 1
      /\ \A k \in 1..Len(ring) : longer[k] = ring[k]
      /\ longer[Len(ring) + 1] = new
      /\ Len(ring) \in Nat /\ DOMAIN ring = 1..Len(ring) /\ DOMAIN longer = 1..(Len(ring) + 1)
    BY <1>1, AppendProperties, LenProperties
<1> HIDE DEF new, longer
<1>3. \A k \in DOMAIN longer : longer[k] = new \/ \E l \in DOMAIN ring : longer[k] = ring[l]
  <2> SUFFICES ASSUME NEW k \in DOMAIN longer
               PROVE  longer[k] = new \/ \E l \in DOMAIN ring : longer[k] = ring[l]
    OBVIOUS
  <2>1. k \in 1..Len(ring) \/ k = Len(ring) + 1
    BY <1>2
  <2> QED
    BY <1>2, <2>1
<1>4. \A k \in DOMAIN Tail(longer) : k + 1 \in DOMAIN longer /\ Tail(longer)[k] = longer[k + 1]
    BY <1>2, HeadTailProperties, LenProperties
<1>5. CASE Remember(ring, id, n) = longer
    BY <1>3, <1>5 DEF new
<1>6. CASE Remember(ring, id, n) = Tail(longer)
    BY <1>3, <1>4, <1>6 DEF new
<1> QED
    BY <1>5, <1>6 DEF Remember, longer, new

LEMMA QuietStep ==
    ASSUME EngineParts, EngineInv,
           \/ Boot \/ Restart \/ UNCHANGED engineVars
           \/ \E s \in Snapshot : SaveSnapshot(s)
    PROVE  Quietly /\ EngineInv' /\ RingIds' \subseteq RingIds
<1>1. CASE Boot
    BY <1>1, CompactedQuietly DEF RingIds
<1>2. CASE Restart
    BY <1>2, TornQuietly DEF Restart, EngineInv, LiveWatermark, RingDurable, RingIds
<1>3. CASE UNCHANGED engineVars
  <2>1. log' = log /\ snap' = snap /\ entry' = entry /\ Top \in Nat
    BY <1>3, TopType DEF engineVars
  <2> QED
    BY <2>1, SameLog DEF Quietly, Top, StaysDurable, Durable, EngineInv, LiveWatermark, RingDurable,
       SeqsIncrease, RingIds
<1>4. ASSUME NEW s \in Snapshot, SaveSnapshot(s) PROVE Quietly /\ EngineInv' /\ RingIds' \subseteq RingIds
  <2>1. /\ Quietly /\ EngineInv'
        /\ entry' # NoEntry => entry'.ring = <<>> \/ (entry # NoEntry /\ entry'.ring = entry.ring)
    BY <1>4, SavedQuietly
  <2> QED
    BY <2>1 DEF RingIds
<1> QED
    BY <1>1, <1>2, <1>3, <1>4

\* The ring a request finds.
LEMMA EngineRingIs ==
    ASSUME EngineParts
    PROVE  /\ Engine.ring \in Seq(Recorded)
           /\ \A k \in DOMAIN Engine.ring : entry # NoEntry /\ Engine.ring = entry.ring
<1>1. CASE entry = NoEntry
  <2>1. Engine.ring = <<>>
    BY <1>1 DEF Engine, hydrateEntry
  <2> QED
    BY <2>1
<1>2. CASE entry # NoEntry
    BY <1>2 DEF Engine, EngineParts, Entry
<1> QED
    BY <1>1, <1>2

LEMMA CommandCommits ==
    ASSUME EngineParts, EngineInv, NEW w \in Writes, CommitCommand(w)
    PROVE  \E e : /\ Committing(e) /\ e.id = NoId /\ Last(log') = e
                  /\ EngineInv' /\ RingIds' \subseteq RingIds
<1> DEFINE d == build(touch(emptyDiff, Engine.store, w))
           n == Engine.watermark + 1
           e == [id |-> NoId, seq |-> n, diff |-> d]
<1>1. /\ n <= MaxSeq /\ log' = Append(log, e) /\ snap' = snap
      /\ entry' = [store |-> write(Engine.store, w), watermark |-> n, ring |-> Engine.ring]
    BY DEF CommitCommand, appendBoardEvent
<1>2. e \in Event /\ e \in LogLine
    BY <1>1, EngineTypesAreParts, CommandEvent
<1>3. n = Top + 1 /\ e.seq = n /\ e.id = NoId
    BY EngineAtTop DEF EngineInv
<1> HIDE DEF d, n, e
<1>4. Committing(e)
    BY <1>1, <1>2, <1>3 DEF Committing
<1>5. Top' = Top + 1 /\ StaysDurable /\ SeqsIncrease'
    BY <1>4, CommittedTop
<1>6. entry' # NoEntry => entry'.watermark = n /\ entry'.ring = Engine.ring
    BY <1>1
<1>7. \A k \in DOMAIN Engine.ring : Durable(log', snap', Engine.ring[k].id, Engine.ring[k].seq)
  <2> SUFFICES ASSUME NEW k \in DOMAIN Engine.ring
               PROVE  Durable(log', snap', Engine.ring[k].id, Engine.ring[k].seq)
    OBVIOUS
  <2>1. entry # NoEntry /\ Engine.ring = entry.ring
    BY EngineRingIs
  <2>2. Durable(log, snap, entry.ring[k].id, entry.ring[k].seq) /\ entry.ring[k].seq \in Nat
    BY <2>1, RingSeqs DEF EngineInv, RingDurable
  <2> QED
    BY <1>1, <1>5, <2>1, <2>2 DEF StaysDurable
<1>8. LiveWatermark' /\ RingDurable'
    BY <1>3, <1>5, <1>6, <1>7 DEF LiveWatermark, RingDurable
<1>9. RingIds' \subseteq RingIds
    BY <1>6, EngineRingIs DEF RingIds
<1>10. Last(log') = e
    BY <1>1, <1>2, AppendedLine DEF Last, EngineParts
<1> QED
    BY <1>3, <1>4, <1>5, <1>8, <1>9, <1>10 DEF EngineInv

LEMMA EventCommits ==
    ASSUME EngineParts, EngineInv, NEW id \in EventIds, NEW d \in Diffs, AppendTabEvent(id, d, FALSE)
    PROVE  \E e : /\ Committing(e) /\ e.id = id /\ e.diff = d /\ e.seq = Engine.watermark + 1
                  /\ EngineInv' /\ RingIds' \subseteq RingIds \cup {id}
<1> DEFINE n == Engine.watermark + 1
           e == [id |-> id, seq |-> n, diff |-> d]
           ring == Remember(Engine.ring, id, n)
<1>1. /\ n <= MaxSeq /\ log' = Append(log, e) /\ snap' = snap
      /\ entry' = [store |-> applyDiff(Engine.store, d), watermark |-> n, ring |-> ring]
    BY DEF AppendTabEvent, appendBoardEvent
<1>2. e \in Event /\ e \in LogLine /\ n \in 1..MaxSeq
    BY <1>1, EngineTypesAreParts, TabEvent
<1>3. n = Top + 1 /\ e.seq = n /\ e.id = id /\ e.diff = d
    BY EngineAtTop DEF EngineInv
<1>a. \A k \in DOMAIN ring : ring[k] = [id |-> id, seq |-> n] \/ \E l \in DOMAIN Engine.ring : ring[k] = Engine.ring[l]
    BY <1>2, EngineRingIs, Remembered
<1>n. n = Engine.watermark + 1
    OBVIOUS
<1> HIDE DEF n, e, ring
<1>4. Committing(e)
    BY <1>1, <1>2, <1>3 DEF Committing
<1>5. Top' = Top + 1 /\ StaysDurable /\ SeqsIncrease' /\ Durable(log', snap', id, n)
    BY <1>3, <1>4, CommittedTop DEF Durable
<1>6. entry' # NoEntry => entry'.watermark = n /\ entry'.ring = ring
    BY <1>1
<1>8. ASSUME entry' # NoEntry, NEW k \in DOMAIN entry'.ring
      PROVE  Durable(log', snap', entry'.ring[k].id, entry'.ring[k].seq)
  <2>1. CASE ring[k] = [id |-> id, seq |-> n]
    <3>1. entry'.ring[k].id = id /\ entry'.ring[k].seq = n
      BY <1>6, <1>8, <2>1
    <3> QED
      BY <1>5, <3>1 DEF Durable
  <2>2. ASSUME NEW l \in DOMAIN Engine.ring, ring[k] = Engine.ring[l]
        PROVE  Durable(log', snap', entry'.ring[k].id, entry'.ring[k].seq)
    <3>1. entry # NoEntry /\ Engine.ring = entry.ring
      BY EngineRingIs
    <3>2. Durable(log, snap, entry.ring[l].id, entry.ring[l].seq) /\ entry.ring[l].seq \in Nat
      BY <3>1, RingSeqs DEF EngineInv, RingDurable
    <3>3. entry'.ring[k] = entry.ring[l]
      BY <1>6, <1>8, <2>2, <3>1
    <3> QED
      BY <1>5, <3>2, <3>3 DEF StaysDurable, Durable
  <2> QED
    BY <1>6, <1>8, <1>a, <2>1, <2>2
<1>9. LiveWatermark' /\ RingDurable'
    BY <1>3, <1>5, <1>6, <1>8 DEF LiveWatermark, RingDurable
<1>10. RingIds' \subseteq RingIds \cup {id}
    BY <1>6, <1>a, EngineRingIs DEF RingIds
<1> QED
    BY <1>3, <1>4, <1>5, <1>9, <1>10, <1>n DEF EngineInv

\* An event sent: found in the ring and left alone, or committed under its id.
LEMMA EventPosted ==
    ASSUME Types, EngineInv, NEW t \in Tabs, PostEvent(t)
    PROVE  \E seq \in 1..MaxSeq :
              LET job == Head(queue[t])
              IN  /\ job \in EventJob /\ queue[t] # <<>>
                  /\ answer' = [answer EXCEPT ![t] = seq]
                  /\ Broadcast(job.diff, seq, t)
                  /\ EngineInv' /\ StaysDurable /\ Top <= Top'
                  /\ Durable(log', snap', job.id, seq)
                  /\ \/ /\ UNCHANGED engineVars /\ job.id \in RingIds
                        /\ entry # NoEntry
                        /\ \E i \in DOMAIN entry.ring : entry.ring[i].id = job.id /\ entry.ring[i].seq = seq
                     \/ \E e : /\ Committing(e) /\ e.id = job.id /\ e.diff = job.diff /\ e.seq = seq
                               /\ RingIds' \subseteq RingIds \cup {job.id}
<1> DEFINE job == Head(queue[t])
           seq == IF InRing(job.id) THEN PriorSeq(job.id) ELSE Engine.watermark + 1
<1>1. job \in EventJob /\ queue[t] # <<>>
    BY HeadOfQueue, JobKind DEF PostEvent, HeadIs
<1>2. job.id \in EventIds /\ job.diff \in Diffs /\ EngineParts
    BY <1>1 DEF EventJob, Types
<1>3. /\ AppendTabEvent(job.id, job.diff, FALSE) \/ ResendTabEvent(job.id)
      /\ Broadcast(job.diff, seq, t)
      /\ answer' = [answer EXCEPT ![t] = seq]
    BY DEF PostEvent
<1>s. InRing(job.id) => seq = PriorSeq(job.id)
    OBVIOUS
<1>w. ~InRing(job.id) => seq = Engine.watermark + 1
    OBVIOUS
<1> HIDE DEF job, seq
<1>4. CASE InRing(job.id)
  <2>1. UNCHANGED engineVars
    BY <1>3, <1>4 DEF AppendTabEvent, ResendTabEvent
  <2>2. PICK i \in DOMAIN Engine.ring : Engine.ring[i].id = job.id /\ Engine.ring[i].seq = seq
    BY <1>2, <1>4, <1>s, PriorType
  <2>3. seq \in 1..MaxSeq
    BY <1>2, <1>4, <1>s, PriorType
  <2>4. entry # NoEntry /\ Engine.ring = entry.ring
    BY <1>2, EngineRingIs
  <2>5. job.id \in RingIds
    BY <2>2, <2>4 DEF RingIds
  <2>6. Quietly /\ EngineInv'
    BY <1>2, <2>1, QuietStep
  <2>7. Durable(log, snap, job.id, seq)
    BY <2>2, <2>4 DEF EngineInv, RingDurable
  <2>8. log' = log /\ snap' = snap
    BY <2>1 DEF engineVars
  <2>9. EngineInv' /\ StaysDurable /\ Top <= Top' /\ Durable(log', snap', job.id, seq)
    BY <2>6, <2>7, <2>8 DEF Quietly
  <2>10. \E k \in DOMAIN entry.ring : entry.ring[k].id = job.id /\ entry.ring[k].seq = seq
    BY <2>2, <2>4
  <2> QED
    BY <1>1, <1>3, <2>1, <2>3, <2>4, <2>5, <2>9, <2>10 DEF job
<1>5. CASE ~InRing(job.id)
  <2>1. AppendTabEvent(job.id, job.diff, FALSE)
    BY <1>3, <1>5 DEF ResendTabEvent
  <2>2. PICK e : /\ Committing(e) /\ e.id = job.id /\ e.diff = job.diff
                 /\ e.seq = Engine.watermark + 1
                 /\ EngineInv' /\ RingIds' \subseteq RingIds \cup {job.id}
    <3>1. PICK id \in EventIds, d \in Diffs : id = job.id /\ d = job.diff
      BY <1>2
    <3>2. AppendTabEvent(id, d, FALSE)
      BY <2>1, <3>1 DEF AppendTabEvent
    <3>3. PICK e : /\ Committing(e) /\ e.id = id /\ e.diff = d /\ e.seq = Engine.watermark + 1
                   /\ EngineInv' /\ RingIds' \subseteq RingIds \cup {id}
      BY <1>2, <3>2, EventCommits
    <3> QED
      BY <3>1, <3>3
  <2>w. e.seq = seq
    BY <1>5, <1>w, <2>2
  <2>3. /\ Top' = Top + 1 /\ StaysDurable /\ Durable(log', snap', job.id, seq)
        /\ Top \in Nat /\ e.seq \in 1..MaxSeq
    BY <1>2, <2>2, <2>w, CommittedTop, TopType, EventShape DEF Committing
  <2>4. Top <= Top' /\ seq \in 1..MaxSeq
    BY <2>2, <2>w, <2>3
  <2> QED
    BY <1>1, <1>3, <2>2, <2>w, <2>3, <2>4 DEF job
<1> QED
    BY <1>4, <1>5

\* Every other action of a tab leaves the board alone, saves a snapshot or compacts.
LEMMA OtherwiseQuiet ==
    ASSUME Types, EngineInv, [SyncNext]_vars,
           ~(\E t \in Tabs : PostEvent(t)), ~(\E w \in OneWrite : Command(w))
    PROVE  Quietly /\ EngineInv' /\ RingIds' \subseteq RingIds
<1>e. EngineParts
    BY DEF Types
<1>1. ASSUME NEW t \in Tabs, PostSnapshot(t)
      PROVE  UNCHANGED engineVars \/ \E s \in Snapshot : SaveSnapshot(s)
  <2>1. Head(queue[t]) \in Snapshot
    BY <1>1, HeadOfQueue, JobKind DEF PostSnapshot, HeadIs
  <2> QED
    BY <1>1, <2>1 DEF PostSnapshot
<1>2. ASSUME NEW t \in Writers, NEW w \in OneWrite, Edit(t, w) PROVE UNCHANGED engineVars
    BY <1>2 DEF Edit
<1>3. ASSUME NEW t \in Tabs,
             \/ Undo(t) \/ SnapshotTimer(t) \/ Ack(t) \/ LoseAck(t) \/ Receive(t) \/ ServeCatchUp(t)
             \/ FoldCatchUp(t) \/ Drop(t) \/ Connect(t)
      PROVE  UNCHANGED engineVars
    BY <1>3 DEF Undo, SnapshotTimer, Ack, LoseAck, Receive, ServeCatchUp, FoldCatchUp, Drop, Connect
<1>4. ASSUME NEW t \in Tabs, Reload(t) PROVE Boot
    BY <1>4 DEF Reload
<1>5. CASE OtherBoot \/ ServerRestarts \/ UNCHANGED vars
    BY <1>5, <1>e, QuietStep DEF OtherBoot, ServerRestarts, vars
<1> QED
    BY <1>1, <1>2, <1>3, <1>4, <1>5, <1>e, QuietStep DEF SyncNext

LEMMA BoardKept ==
    ASSUME Types, EngineInv, [SyncNext]_vars
    PROVE  EngineInv' /\ StaysDurable /\ Top <= Top'
<1>1. ASSUME NEW t \in Tabs, PostEvent(t) PROVE EngineInv' /\ StaysDurable /\ Top <= Top'
    BY <1>1, EventPosted
<1>2. ASSUME NEW w \in OneWrite, Command(w) PROVE EngineInv' /\ StaysDurable /\ Top <= Top'
  <2>1. EngineParts /\ w \in Writes /\ CommitCommand(w)
    BY <1>2 DEF Types, Command, OneWrite
  <2>2. PICK e : Committing(e) /\ EngineInv'
    BY <2>1, CommandCommits
  <2> QED
    BY <2>1, <2>2, CommittedTop, TopType
<1> QED
    BY <1>1, <1>2, OtherwiseQuiet DEF Quietly

LEMMA EngineInvInit == Init => EngineInv
BY DEF Init, EngineInv, LiveWatermark, RingDurable, SeqsIncrease, Readable

-----------------------------------------------------------------------------
(***************************************************************************)
(* No edit is lost.                                                        *)
(***************************************************************************)
AnswerTrue ==
    \A t \in Tabs : answer[t] # Nil => Durable(log, snap, Head(queue[t]).id, answer[t])

AckedDurable == \A r \in acked : Durable(log, snap, r.id, r.seq)

Accounted == \A t \in Tabs : Range(minted[t]) \subseteq AckedIds \cup QueuedIds(t) \cup gone

SavedInv == Types /\ EngineInv /\ AnswerTrue /\ AckedDurable /\ Accounted

LEMMA AnswerTrueStep ==
    ASSUME SavedInv, [SyncNext]_vars
    PROVE  AnswerTrue'
<1>i. Types /\ EngineInv /\ AnswerTrue
    BY DEF SavedInv
<1>d. StaysDurable
    BY <1>i, BoardKept
<1>f. /\ queue \in [Tabs -> Seq(Job)] /\ answer \in [Tabs -> 1..MaxSeq \cup {Nil}]
      /\ \A t \in Tabs : answer[t] # Nil => answer[t] \in Nat /\ queue[t] # <<>>
    BY <1>i, BoundAssumption DEF Types, TabTypes, Answering
<1>k. \A t \in Tabs : answer[t] # Nil => Durable(log', snap', Head(queue[t]).id, answer[t])
    BY <1>i, <1>d, <1>f DEF AnswerTrue, StaysDurable
<1>o. ASSUME NEW t \in Tabs,
             \A u \in Tabs \ {t} : answer'[u] = answer[u] /\ queue'[u] = queue[u],
             answer'[t] # Nil => Durable(log', snap', Head(queue'[t]).id, answer'[t])
      PROVE  AnswerTrue'
    BY <1>k, <1>o DEF AnswerTrue
<1>u. ASSUME UNCHANGED <<queue, answer>> PROVE AnswerTrue'
    BY <1>k, <1>u DEF AnswerTrue
<1>q. ASSUME NEW t \in Tabs, NEW job \in Job, Enqueue(t, job), answer' = answer PROVE AnswerTrue'
    BY <1>i, <1>k, <1>f, <1>q, <1>o, Enqueued
<1>1. ASSUME NEW t \in Writers, NEW w \in OneWrite, Edit(t, w) PROVE AnswerTrue'
    BY <1>1, <1>i, <1>q, Edited
<1>2. ASSUME NEW t \in Tabs, SnapshotTimer(t) PROVE AnswerTrue'
    BY <1>2, <1>i, <1>q, SnapshotJob DEF SnapshotTimer
<1>3. ASSUME NEW t \in Tabs, PostEvent(t) PROVE AnswerTrue'
  <2>1. PICK seq : answer' = [answer EXCEPT ![t] = seq] /\ Durable(log', snap', Head(queue[t]).id, seq)
    BY <1>3, <1>i, EventPosted
  <2>2. queue' = queue
    BY <1>3 DEF PostEvent
  <2> QED
    BY <1>f, <1>o, <2>1, <2>2
<1>4. ASSUME NEW t \in Tabs, Ack(t) \/ LoseAck(t) PROVE AnswerTrue'
    BY <1>4, <1>f, <1>o DEF Ack, LoseAck
<1>5. ASSUME NEW t \in Tabs, PostSnapshot(t) PROVE AnswerTrue'
    BY <1>5, <1>f, <1>o DEF PostSnapshot, HeadIs
<1>6. ASSUME NEW t \in Tabs, Reload(t) PROVE AnswerTrue'
    BY <1>6, <1>f, <1>o DEF Reload
<1>7. ASSUME NEW t \in Tabs,
             \/ Undo(t) \/ Receive(t) \/ ServeCatchUp(t) \/ FoldCatchUp(t) \/ Drop(t) \/ Connect(t)
      PROVE  AnswerTrue'
    BY <1>7, <1>u DEF Undo, Receive, ServeCatchUp, FoldCatchUp, Drop, Connect
<1>8. ASSUME NEW w \in OneWrite, Command(w) PROVE AnswerTrue'
    BY <1>8, <1>u DEF Command
<1>9. CASE OtherBoot \/ ServerRestarts \/ UNCHANGED vars
    BY <1>9, <1>u DEF OtherBoot, ServerRestarts, vars, tabVars
<1> QED
    BY <1>1, <1>2, <1>3, <1>4, <1>5, <1>6, <1>7, <1>8, <1>9 DEF SyncNext


\* The ids queued, after a write goes in at the end and after the head goes out.
LEMMA QueuedMore ==
    ASSUME Types, NEW t \in Tabs, NEW job \in Job, Enqueue(t, job)
    PROVE  /\ \A u \in Tabs \ {t} : QueuedIds(u)' = QueuedIds(u)
           /\ job \in EventJob => QueuedIds(t)' = QueuedIds(t) \cup {job.id}
           /\ job \in Snapshot => QueuedIds(t)' = QueuedIds(t)
<1>1. /\ \A u \in Tabs \ {t} : queue'[u] = queue[u]
      /\ Len(queue[t]) \in Nat
      /\ DOMAIN queue'[t] = 1..(Len(queue[t]) + 1) /\ DOMAIN queue[t] = 1..Len(queue[t])
      /\ \A k \in DOMAIN queue[t] : queue'[t][k] = queue[t][k]
      /\ queue'[t][Len(queue[t]) + 1] = job
    BY Enqueued
<1>2. DOMAIN queue'[t] = DOMAIN queue[t] \cup {Len(queue[t]) + 1}
    BY <1>1
<1>3. \A u \in Tabs \ {t} : QueuedIds(u)' = QueuedIds(u)
    BY <1>1 DEF QueuedIds
<1>4. ASSUME job \in EventJob PROVE QueuedIds(t)' = QueuedIds(t) \cup {job.id}
    BY <1>1, <1>2, <1>4, JobKind DEF QueuedIds
<1>5. ASSUME job \in Snapshot PROVE QueuedIds(t)' = QueuedIds(t)
    BY <1>1, <1>2, <1>5, JobKind DEF QueuedIds
<1> QED
    BY <1>3, <1>4, <1>5

LEMMA QueuedLess ==
    ASSUME Types, NEW t \in Tabs, queue[t] # <<>>, queue' = [queue EXCEPT ![t] = Tail(@)]
    PROVE  /\ \A u \in Tabs \ {t} : queue'[u] = queue[u] /\ QueuedIds(u)' = QueuedIds(u)
           /\ queue'[t] = Tail(queue[t])
           /\ QueuedIds(t)' \subseteq QueuedIds(t)
           /\ Head(queue[t]) \in EventJob =>
                 Head(queue[t]).id \in QueuedIds(t) /\ QueuedIds(t) \subseteq QueuedIds(t)' \cup {Head(queue[t]).id}
           /\ Head(queue[t]) \in Snapshot => QueuedIds(t)' = QueuedIds(t)
<1> DEFINE n == Len(queue[t])
<1>1. /\ Head(queue[t]) \in Job
      /\ Head(queue[t]) = queue[t][1] /\ 1 \in DOMAIN queue[t]
      /\ n \in Nat /\ n >= 1
      /\ DOMAIN Tail(queue[t]) = 1..(n - 1) /\ DOMAIN queue[t] = 1..n
      /\ \A k \in DOMAIN Tail(queue[t]) : k + 1 \in DOMAIN queue[t] /\ Tail(queue[t])[k] = queue[t][k + 1]
    BY HeadOfQueue
<1>2. queue'[t] = Tail(queue[t]) /\ \A u \in Tabs \ {t} : queue'[u] = queue[u]
    BY DEF Types, TabTypes
<1>3. \A u \in Tabs \ {t} : QueuedIds(u)' = QueuedIds(u)
    BY <1>2 DEF QueuedIds
<1>4. QueuedIds(t)' \subseteq QueuedIds(t)
    BY <1>1, <1>2 DEF QueuedIds
<1>5. ASSUME NEW k \in DOMAIN queue[t], k # 1
      PROVE  k - 1 \in DOMAIN queue'[t] /\ queue'[t][k - 1] = queue[t][k]
  <2>1. k - 1 \in 1..(n - 1) /\ (k - 1) + 1 = k
    BY <1>1, <1>5
  <2> QED
    BY <1>1, <1>2, <2>1
<1>6. ASSUME NEW id \in QueuedIds(t)
      PROVE  id \in QueuedIds(t)' \/ ("id" \in DOMAIN Head(queue[t]) /\ id = Head(queue[t]).id)
  <2>1. PICK k \in DOMAIN queue[t] : "id" \in DOMAIN queue[t][k] /\ id = queue[t][k].id
    BY <1>6 DEF QueuedIds
  <2>2. CASE k = 1
    BY <1>1, <2>1, <2>2
  <2>3. CASE k # 1
    BY <1>5, <2>1, <2>3 DEF QueuedIds
  <2> QED
    BY <2>2, <2>3
<1>7. "id" \in DOMAIN Head(queue[t]) => Head(queue[t]).id \in QueuedIds(t)
    BY <1>1 DEF QueuedIds
<1> HIDE DEF n
<1>8. "id" \in DOMAIN Head(queue[t]) <=> Head(queue[t]) \in EventJob
    BY <1>1, JobKind
<1>9. Head(queue[t]) \in Snapshot => "id" \notin DOMAIN Head(queue[t])
    BY <1>1, JobKind
<1> QED
    BY <1>2, <1>3, <1>4, <1>6, <1>7, <1>8, <1>9

LEMMA AckedDurableStep ==
    ASSUME SavedInv, [SyncNext]_vars
    PROVE  AckedDurable'
<1>i. Types /\ EngineInv /\ AnswerTrue /\ AckedDurable
    BY DEF SavedInv
<1>d. StaysDurable
    BY <1>i, BoardKept
<1>f. acked \subseteq Recorded /\ \A r \in acked : r.seq \in Nat
    BY <1>i, BoundAssumption DEF Types, TabTypes, Recorded
<1>k. \A r \in acked : Durable(log', snap', r.id, r.seq)
    BY <1>i, <1>d, <1>f DEF AckedDurable, StaysDurable
<1>1. ASSUME NEW t \in Tabs, Ack(t) PROVE AckedDurable'
  <2>1. answer[t] \in Nat
    BY <1>1, <1>i, BoundAssumption DEF Ack, Types, TabTypes
  <2>2. Durable(log', snap', Head(queue[t]).id, answer[t])
    BY <1>1, <1>i, <1>d, <2>1 DEF Ack, AnswerTrue, StaysDurable
  <2> QED
    BY <1>1, <1>k, <2>2 DEF Ack, AckedDurable
<1>2. ASSUME acked' = acked PROVE AckedDurable'
    BY <1>k, <1>2 DEF AckedDurable
<1>3. (\A t \in Tabs : ~Ack(t)) => acked' = acked
    BY DEF SyncNext, Edit, Undo, SnapshotTimer, PostEvent, LoseAck, PostSnapshot, Receive, ServeCatchUp,
           FoldCatchUp, Drop, Connect, Reload, Command, OtherBoot, ServerRestarts, vars, tabVars, ghosts
<1> QED
    BY <1>1, <1>2, <1>3

LEMMA AccountedStep ==
    ASSUME SavedInv, [SyncNext]_vars
    PROVE  Accounted'
<1>i. Types /\ Accounted
    BY DEF SavedInv
<1>f. minted \in [Tabs -> Seq(EventIds)] /\ queue \in [Tabs -> Seq(Job)]
    BY <1>i DEF Types, TabTypes
<1>u. ASSUME minted' = minted, AckedIds \subseteq AckedIds', gone \subseteq gone',
             \A u \in Tabs : QueuedIds(u) \subseteq QueuedIds(u)' \cup AckedIds' \cup gone'
      PROVE  Accounted'
    BY <1>i, <1>u DEF Accounted
<1>s. queue' = queue => \A u \in Tabs : QueuedIds(u)' = QueuedIds(u)
    BY DEF QueuedIds
<1>1. ASSUME NEW t \in Writers, NEW w \in OneWrite, Edit(t, w) PROVE Accounted'
  <2> DEFINE d == build(touch(emptyDiff, tstore[t], w))
  <2>a. PICK id \in EventIds :
              /\ t \in Tabs /\ [id |-> id, diff |-> d] \in EventJob /\ [id |-> id, diff |-> d] \in Job
              /\ minted' = [minted EXCEPT ![t] = Append(@, id)]
              /\ Enqueue(t, [id |-> id, diff |-> d]) /\ UNCHANGED <<acked, gone>>
    BY <1>1, <1>i, Edited
  <2> HIDE DEF d
  <2>b. PICK job : job = [id |-> id, diff |-> d]
    OBVIOUS
  <2>1. /\ t \in Tabs /\ job \in EventJob /\ job \in Job /\ job.id = id
        /\ minted' = [minted EXCEPT ![t] = Append(@, id)]
        /\ Enqueue(t, job) /\ UNCHANGED <<acked, gone>>
    BY <2>a, <2>b DEF Enqueue
  <2>2. /\ \A u \in Tabs \ {t} : QueuedIds(u)' = QueuedIds(u)
        /\ QueuedIds(t)' = QueuedIds(t) \cup {id}
    BY <1>i, <2>1, QueuedMore
  <2>3. minted'[t] = Append(minted[t], id) /\ \A u \in Tabs \ {t} : minted'[u] = minted[u]
    BY <1>f, <2>1
  <2>4. Range(Append(minted[t], id)) \subseteq Range(minted[t]) \cup {id}
    BY <1>f, <2>1 DEF Range
  <2>5. AckedIds' = AckedIds
    BY <2>1 DEF AckedIds
  <2> QED
    BY <1>i, <2>1, <2>2, <2>3, <2>4, <2>5 DEF Accounted
<1>2. ASSUME NEW t \in Tabs, SnapshotTimer(t) PROVE Accounted'
  <2>1. PICK job \in Snapshot : job \in Job /\ Enqueue(t, job)
    BY <1>2, <1>i, SnapshotJob DEF SnapshotTimer
  <2> QED
    BY <1>2, <1>i, <1>u, <2>1, QueuedMore DEF SnapshotTimer, ghosts, AckedIds
<1>3. ASSUME NEW t \in Tabs, Ack(t) PROVE Accounted'
  <2>1. queue[t] # <<>> /\ Head(queue[t]) \in EventJob /\ queue' = [queue EXCEPT ![t] = Tail(@)]
    BY <1>3, <1>i DEF Types, Answering, Ack
  <2>2. AckedIds' = AckedIds \cup {Head(queue[t]).id}
    <3>1. PICK r : r = [id |-> Head(queue[t]).id, seq |-> answer[t]] /\ acked' = acked \cup {r}
      BY <1>3 DEF Ack
    <3>2. AckedIds' = AckedIds \cup {r.id}
      BY <3>1 DEF AckedIds
    <3> QED
      BY <3>1, <3>2
  <2>3. \A u \in Tabs : QueuedIds(u) \subseteq QueuedIds(u)' \cup AckedIds'
    BY <1>i, <2>1, <2>2, QueuedLess
  <2> QED
    BY <1>3, <1>u, <2>2, <2>3 DEF Ack
<1>4. ASSUME NEW t \in Tabs, PostSnapshot(t) PROVE Accounted'
  <2>1. queue[t] # <<>> /\ Head(queue[t]) \in Snapshot /\ queue' = [queue EXCEPT ![t] = Tail(@)]
    BY <1>4, <1>i, HeadOfQueue, JobKind DEF PostSnapshot, HeadIs
  <2> QED
    BY <1>4, <1>i, <1>u, <2>1, QueuedLess DEF PostSnapshot, ghosts, AckedIds
<1>5. ASSUME NEW t \in Tabs, Reload(t) PROVE Accounted'
  <2>1. \A u \in Tabs \ {t} : QueuedIds(u)' = QueuedIds(u)
    BY <1>5, <1>f DEF Reload, QueuedIds
  <2> QED
    BY <1>5, <1>u, <2>1 DEF Reload, AckedIds
<1>6. ASSUME UNCHANGED <<queue, minted, acked, gone>> PROVE Accounted'
    BY <1>6, <1>s, <1>u DEF AckedIds
<1>7. \/ \E t \in Tabs : SnapshotTimer(t) \/ Ack(t) \/ PostSnapshot(t) \/ Reload(t)
      \/ \E t \in Writers, w \in OneWrite : Edit(t, w)
      \/ UNCHANGED <<queue, minted, acked, gone>>
    BY DEF SyncNext, Undo, PostEvent, LoseAck, Receive, ServeCatchUp,
           FoldCatchUp, Drop, Connect, Command, OtherBoot, ServerRestarts, vars, tabVars, ghosts
<1> QED
    BY <1>1, <1>2, <1>3, <1>4, <1>5, <1>6, <1>7

LEMMA SavedInit == Init => SavedInv
<1>1. Init => AnswerTrue /\ AckedDurable /\ Accounted
    BY DEF Init, AnswerTrue, AckedDurable, Accounted, Range
<1> QED
    BY <1>1, SyncInitTypes, EngineInvInit DEF SavedInv

LEMMA SavedStep == SavedInv /\ [SyncNext]_vars => SavedInv'
BY TypesStep, BoardKept, AnswerTrueStep, AckedDurableStep, AccountedStep DEF SavedInv

\* Every variable keeps its type in every behaviour.
THEOREM SyncTyped == Spec => []TypeOK
<1>1. Types => TypeOK
    BY EngineTypesAreParts DEF Types, TabTypes, TypeOK, EngineTypeOK
<1> QED
    BY <1>1, SyncInitTypes, TypesStep, PTL DEF Spec

(***************************************************************************)
(* Whatever is lost, resent, reloaded, compacted or restarted, an edit a   *)
(* tab was told is saved is in the log at that seq until a snapshot is far *)
(* past it, and every other edit is still queued or its page is gone       *)
(* (appendTabEvent, requestRetry, compactBoardEvents).                     *)
(***************************************************************************)
THEOREM NothingLost == Spec => []NoEditLost
<1>1. SavedInv => NoEditLost
    BY DEF SavedInv, AckedDurable, Accounted, Durable, NoEditLost
<1> QED
    BY <1>1, SavedInit, SavedStep, PTL DEF Spec


-----------------------------------------------------------------------------
(***************************************************************************)
(* The order of a tab's edits.                                             *)
(***************************************************************************)
Minted == UNION {Range(minted[t]) : t \in Tabs}

\* Positions of the events in a tab's queue.
EventsAt(t) == {k \in DOMAIN queue[t] : "id" \in DOMAIN queue[t][k]}

\* Every id in a queue, in the log and in the ring was minted by a tab.
Fresh ==
    /\ \A t \in Tabs : QueuedIds(t) \subseteq Range(minted[t])
    /\ Logged \subseteq Minted \cup {NoId}
    /\ RingIds \subseteq Minted

MintedOnce ==
    \A t, u \in Tabs : \A i \in DOMAIN minted[t], j \in DOMAIN minted[u] :
        minted[t][i] = minted[u][j] => t = u /\ i = j

QueuedOnce == \A t \in Tabs : \A k, l \in EventsAt(t) : queue[t][k].id = queue[t][l].id => k = l

\* What was minted after a queued event is queued behind it.
BehindIt ==
    \A t \in Tabs : \A k \in EventsAt(t), i, j \in DOMAIN minted[t] :
        queue[t][k].id = minted[t][i] /\ i < j =>
            \E l \in EventsAt(t) : k < l /\ queue[t][l].id = minted[t][j]

\* Nothing but the head of a queue has been sent.
NotYetLogged == \A t \in Tabs : \A k \in EventsAt(t) : k > 1 => queue[t][k].id \notin Logged

LogOrder ==
    \A t \in Tabs : \A i, j \in DOMAIN minted[t] : i < j =>
        \A p, q \in Readable(log) : log[p].id = minted[t][i] /\ log[q].id = minted[t][j] => p < q

OrderInv ==
    Types /\ EngineInv /\ Fresh /\ MintedOnce /\ QueuedOnce /\ BehindIt /\ NotYetLogged /\ LogOrder

LEMMA CommandPosted ==
    ASSUME Types, EngineInv, NEW w \in OneWrite, Command(w)
    PROVE  \E e : /\ Committing(e) /\ e.id = NoId
                  /\ EngineInv' /\ RingIds' \subseteq RingIds /\ Broadcast(e.diff, e.seq, Nil)
<1>1. EngineParts /\ w \in Writes /\ CommitCommand(w)
    BY DEF Types, Command, OneWrite
<1>2. PICK e : Committing(e) /\ e.id = NoId /\ Last(log') = e /\ EngineInv' /\ RingIds' \subseteq RingIds
    BY <1>1, CommandCommits
<1>3. Broadcast(e.diff, e.seq, Nil)
    BY <1>2 DEF Command, Broadcast
<1> QED
    BY <1>2, <1>3

LEMMA QuietIds ==
    ASSUME NothingNew
    PROVE  Logged' \subseteq Logged
BY DEF NothingNew, Logged

LEMMA CommittedIds ==
    ASSUME EngineParts, EngineInv, NEW e, Committing(e)
    PROVE  Logged' = Logged \cup {e.id}
<1>1. /\ Readable(log') = Readable(log) \cup {Len(log) + 1}
      /\ log'[Len(log) + 1] = e
      /\ \A i \in Readable(log) : log'[i] = log[i]
    BY CommittedTop
<1> QED
    BY <1>1 DEF Logged

\* What a step does to the board: nothing new, a command's event, or the head of one queue.
Unsent == Quietly /\ Logged' \subseteq Logged /\ RingIds' \subseteq RingIds

CommandSent ==
    \E e : /\ Committing(e) /\ e.id = NoId /\ Logged' = Logged \cup {NoId}
           /\ RingIds' \subseteq RingIds /\ UNCHANGED <<queue, answer, minted, lastSeq, catchUp>>
           /\ Broadcast(e.diff, e.seq, Nil)

EventSent(t) ==
    \E e : /\ queue[t] # <<>> /\ Head(queue[t]) \in EventJob
           /\ e.id = Head(queue[t]).id /\ e.diff = Head(queue[t]).diff
           /\ Committing(e) /\ Logged' = Logged \cup {e.id} /\ RingIds' \subseteq RingIds \cup {e.id}
           /\ UNCHANGED <<queue, minted, lastSeq, catchUp>> /\ answer' = [answer EXCEPT ![t] = e.seq]
           /\ Broadcast(e.diff, e.seq, t)

LEMMA BoardMoves ==
    ASSUME Types, EngineInv, [SyncNext]_vars
    PROVE  Unsent \/ CommandSent \/ \E t \in Tabs : EventSent(t)
<1>e. EngineParts
    BY DEF Types
<1>1. ASSUME NEW w \in OneWrite, Command(w) PROVE CommandSent
  <2>1. PICK e : Committing(e) /\ e.id = NoId /\ RingIds' \subseteq RingIds /\ Broadcast(e.diff, e.seq, Nil)
    BY <1>1, CommandPosted
  <2>2. UNCHANGED <<queue, answer, minted, lastSeq, catchUp>>
    BY <1>1 DEF Command, ghosts
  <2> QED
    BY <1>e, <2>1, <2>2, CommittedIds DEF CommandSent
<1>2. ASSUME NEW t \in Tabs, PostEvent(t) PROVE Unsent \/ EventSent(t)
  <2>1. UNCHANGED <<queue, minted, lastSeq, catchUp>>
    BY <1>2 DEF PostEvent, ghosts
  <2> DEFINE job == Head(queue[t])
  <2>2. PICK seq \in 1..MaxSeq :
           /\ job \in EventJob /\ queue[t] # <<>>
           /\ answer' = [answer EXCEPT ![t] = seq]
           /\ Broadcast(job.diff, seq, t)
           /\ \/ UNCHANGED engineVars
              \/ \E e : /\ Committing(e) /\ e.id = job.id /\ e.diff = job.diff /\ e.seq = seq
                        /\ RingIds' \subseteq RingIds \cup {job.id}
    BY <1>2, EventPosted
  <2> HIDE DEF job
  <2>3. ASSUME UNCHANGED engineVars PROVE Unsent
    BY <1>e, <2>3, QuietStep, QuietIds DEF Unsent, Quietly
  <2>4. ASSUME NEW e, Committing(e), e.id = job.id, e.diff = job.diff, e.seq = seq,
               RingIds' \subseteq RingIds \cup {job.id}
        PROVE  EventSent(t)
    <3>1. Broadcast(e.diff, e.seq, t)
      BY <2>2, <2>4 DEF Broadcast
    <3>2. Logged' = Logged \cup {e.id}
      BY <1>e, <2>4, CommittedIds
    <3> QED
      BY <2>1, <2>2, <2>4, <3>1, <3>2 DEF EventSent, job
  <2> QED
    BY <2>2, <2>3, <2>4
<1>3. ASSUME ~(\E t \in Tabs : PostEvent(t)), ~(\E w \in OneWrite : Command(w)) PROVE Unsent
    BY <1>3, OtherwiseQuiet, QuietIds DEF Unsent, Quietly
<1> QED
    BY <1>1, <1>2, <1>3

\* The events of a queue after a write goes in at its end and after its head goes out.
LEMMA EventsMore ==
    ASSUME Types, NEW t \in Tabs, NEW job \in Job, Enqueue(t, job)
    PROVE  /\ \A u \in Tabs \ {t} : queue'[u] = queue[u] /\ EventsAt(u)' = EventsAt(u)
           /\ Len(queue[t]) \in Nat /\ EventsAt(t) \subseteq 1..Len(queue[t])
           /\ job \in EventJob => EventsAt(t)' = EventsAt(t) \cup {Len(queue[t]) + 1}
           /\ job \in Snapshot => EventsAt(t)' = EventsAt(t)
           /\ \A k \in EventsAt(t) : queue'[t][k] = queue[t][k]
           /\ queue'[t][Len(queue[t]) + 1] = job
<1>1. /\ \A u \in Tabs \ {t} : queue'[u] = queue[u]
      /\ Len(queue[t]) \in Nat
      /\ DOMAIN queue'[t] = 1..(Len(queue[t]) + 1) /\ DOMAIN queue[t] = 1..Len(queue[t])
      /\ \A k \in DOMAIN queue[t] : queue'[t][k] = queue[t][k]
      /\ queue'[t][Len(queue[t]) + 1] = job
    BY Enqueued
<1>2. DOMAIN queue'[t] = DOMAIN queue[t] \cup {Len(queue[t]) + 1}
    BY <1>1
<1>3. ("id" \in DOMAIN job <=> job \in EventJob) /\ ("id" \notin DOMAIN job <=> job \in Snapshot)
    BY JobKind
<1> QED
    BY <1>1, <1>2, <1>3 DEF EventsAt

LEMMA EventsLess ==
    ASSUME Types, NEW t \in Tabs, queue[t] # <<>>, queue' = [queue EXCEPT ![t] = Tail(@)]
    PROVE  /\ \A u \in Tabs \ {t} : queue'[u] = queue[u] /\ EventsAt(u)' = EventsAt(u)
           /\ EventsAt(t) \subseteq Nat /\ EventsAt(t)' \subseteq Nat
           /\ \A k \in EventsAt(t)' : k + 1 \in EventsAt(t) /\ k >= 1 /\ queue'[t][k] = queue[t][k + 1]
           /\ \A k \in EventsAt(t) : k > 1 => k - 1 \in EventsAt(t)' /\ queue'[t][k - 1] = queue[t][k]
<1> DEFINE n == Len(queue[t])
<1>1. /\ n \in Nat /\ n >= 1
      /\ DOMAIN Tail(queue[t]) = 1..(n - 1) /\ DOMAIN queue[t] = 1..n
      /\ \A k \in DOMAIN Tail(queue[t]) : k + 1 \in DOMAIN queue[t] /\ Tail(queue[t])[k] = queue[t][k + 1]
    BY HeadOfQueue
<1> HIDE DEF n
<1>2. queue'[t] = Tail(queue[t]) /\ \A u \in Tabs \ {t} : queue'[u] = queue[u]
    BY DEF Types, TabTypes
<1>3. \A u \in Tabs \ {t} : EventsAt(u)' = EventsAt(u)
    BY <1>2 DEF EventsAt
<1>4. ASSUME NEW k \in EventsAt(t)' PROVE k + 1 \in EventsAt(t) /\ k >= 1 /\ k \in Nat /\ queue'[t][k] = queue[t][k + 1]
  <2>1. k \in DOMAIN Tail(queue[t]) /\ "id" \in DOMAIN queue'[t][k]
    BY <1>2, <1>4 DEF EventsAt
  <2>2. k \in Nat /\ k >= 1 /\ k + 1 \in DOMAIN queue[t] /\ queue'[t][k] = queue[t][k + 1]
    <3>1. k \in 1..(n - 1)
      BY <1>1, <2>1
    <3>2. k + 1 \in DOMAIN queue[t] /\ Tail(queue[t])[k] = queue[t][k + 1]
      BY <1>1, <2>1
    <3>3. n \in Nat /\ queue'[t] = Tail(queue[t])
      BY <1>1, <1>2
    <3>4. k \in Nat /\ k >= 1
      BY <3>1, <3>3
    <3>5. queue'[t][k] = queue[t][k + 1]
      BY <3>2, <3>3
    <3> QED
      BY <3>2, <3>4, <3>5
  <2>3. k + 1 \in EventsAt(t)
    BY <2>1, <2>2 DEF EventsAt
  <2> QED
    BY <2>2, <2>3
<1>5. ASSUME NEW k \in EventsAt(t), k > 1 PROVE k - 1 \in EventsAt(t)' /\ queue'[t][k - 1] = queue[t][k]
  <2>1. k \in 1..n
    BY <1>1, <1>5 DEF EventsAt
  <2>2. k - 1 \in 1..(n - 1) /\ (k - 1) + 1 = k
    BY <1>1, <1>5, <2>1
  <2> QED
    BY <1>1, <1>2, <1>5, <2>2 DEF EventsAt
<1>6. EventsAt(t) \subseteq Nat
    BY <1>1 DEF EventsAt
<1> QED
    BY <1>2, <1>3, <1>4, <1>5, <1>6

LEMMA QueuedIdsAre == \A t : QueuedIds(t) = {queue[t][k].id : k \in EventsAt(t)}
BY DEF QueuedIds, EventsAt

\* What a step does to the queues and the ids minted.
EditMove(t) ==
    \E id, job : /\ t \in Writers /\ id \in EventIds \ Minted /\ job \in EventJob /\ job \in Job /\ job.id = id
                 /\ minted' = [minted EXCEPT ![t] = Append(@, id)] /\ Enqueue(t, job)
                 /\ lastSeq' = [lastSeq EXCEPT ![t] = @ + 1] /\ UNCHANGED <<engineVars, answer>>

SnapshotMove(t) ==
    \E job \in Snapshot : job \in Job /\ Enqueue(t, job) /\ UNCHANGED <<engineVars, answer, minted, lastSeq>>

DoneMove(t) ==
    /\ queue[t] # <<>> /\ queue' = [queue EXCEPT ![t] = Tail(@)] /\ minted' = minted
    /\ Unsent
    /\ \/ Ack(t) /\ Head(queue[t]) \in EventJob
       \/ Head(queue[t]) \in Snapshot /\ UNCHANGED <<answer, lastSeq>>

ReloadMove(t) ==
    /\ queue' = [queue EXCEPT ![t] = <<hydrate>>] /\ answer' = [answer EXCEPT ![t] = Nil]
    /\ lastSeq' = [lastSeq EXCEPT ![t] = hydrate.seq] /\ minted' = minted
    /\ Unsent /\ Boot

LEMMA EditMoves ==
    ASSUME Types, NEW t \in Writers, NEW w \in OneWrite, Edit(t, w)
    PROVE  t \in Tabs /\ EditMove(t)
<1> DEFINE d == build(touch(emptyDiff, tstore[t], w))
<1>a. PICK id \in EventIds :
            /\ t \in Tabs /\ [id |-> id, diff |-> d] \in EventJob /\ [id |-> id, diff |-> d] \in Job
            /\ id \notin UNION {Range(minted[u]) : u \in Tabs}
            /\ minted' = [minted EXCEPT ![t] = Append(@, id)]
            /\ Enqueue(t, [id |-> id, diff |-> d])
            /\ lastSeq' = [lastSeq EXCEPT ![t] = @ + 1] /\ UNCHANGED <<engineVars, answer>>
  BY Edited
<1> HIDE DEF d
<1>b. PICK job : job = [id |-> id, diff |-> d]
  OBVIOUS
<1>1. job \in EventJob /\ job \in Job /\ job.id = id /\ Enqueue(t, job)
  BY <1>a, <1>b DEF Enqueue
<1> QED
  BY <1>a, <1>1 DEF EditMove, Minted

LEMMA TabMoves ==
    ASSUME Types, EngineInv, [SyncNext]_vars
    PROVE  \/ \E t \in Tabs : EditMove(t) \/ SnapshotMove(t) \/ DoneMove(t) \/ ReloadMove(t)
           \/ UNCHANGED <<queue, minted>>
<1>e. EngineParts
    BY DEF Types
<1>1. ASSUME NEW t \in Writers, NEW w \in OneWrite, Edit(t, w) PROVE t \in Tabs /\ EditMove(t)
    BY <1>1, EditMoves
<1>2. ASSUME NEW t \in Tabs, SnapshotTimer(t) PROVE SnapshotMove(t)
  <2>1. PICK job \in Snapshot : job \in Job /\ Enqueue(t, job)
    BY <1>2, SnapshotJob DEF SnapshotTimer
  <2> QED
    BY <1>2, <2>1 DEF SnapshotTimer, SnapshotMove, ghosts
<1>3. ASSUME NEW t \in Tabs, Ack(t) PROVE DoneMove(t)
  <2>1. queue[t] # <<>> /\ Head(queue[t]) \in EventJob
    BY <1>3 DEF Types, Answering, Ack
  <2>2. UNCHANGED engineVars
    BY <1>3 DEF Ack
  <2>3. Unsent
    BY <1>e, <2>2, QuietStep, QuietIds DEF Unsent, Quietly
  <2>4. queue' = [queue EXCEPT ![t] = Tail(@)] /\ minted' = minted
    BY <1>3 DEF Ack
  <2> QED
    BY <1>3, <2>1, <2>3, <2>4 DEF DoneMove
<1>4. ASSUME NEW t \in Tabs, PostSnapshot(t) PROVE DoneMove(t)
  <2>1. queue[t] # <<>> /\ Head(queue[t]) \in Snapshot
    BY <1>4, HeadOfQueue, JobKind DEF PostSnapshot, HeadIs
  <2>2. UNCHANGED engineVars \/ SaveSnapshot(Head(queue[t]))
    BY <1>4 DEF PostSnapshot
  <2>3. UNCHANGED engineVars \/ \E s \in Snapshot : SaveSnapshot(s)
    BY <2>1, <2>2
  <2>4. Unsent
    BY <1>e, <2>3, QuietStep, QuietIds DEF Unsent, Quietly
  <2> QED
    BY <1>4, <2>1, <2>4 DEF DoneMove, PostSnapshot, ghosts
<1>5. ASSUME NEW t \in Tabs, Reload(t) PROVE ReloadMove(t)
  <2>1. Boot
    BY <1>5 DEF Reload
  <2>2. Unsent
    BY <1>e, <2>1, QuietStep, QuietIds DEF Unsent, Quietly
  <2> QED
    BY <1>5, <2>1, <2>2 DEF Reload, ReloadMove
<1>6. \/ \E t \in Tabs : SnapshotTimer(t) \/ Ack(t) \/ PostSnapshot(t) \/ Reload(t)
      \/ \E t \in Writers, w \in OneWrite : Edit(t, w)
      \/ UNCHANGED <<queue, minted>>
    BY DEF SyncNext, Undo, PostEvent, LoseAck, Receive, ServeCatchUp,
           FoldCatchUp, Drop, Connect, Command, OtherBoot, ServerRestarts, vars, tabVars, ghosts
<1> QED
    BY <1>1, <1>2, <1>3, <1>4, <1>5, <1>6


\* The event at the head of a queue is one of those queued.
LEMMA HeadQueued ==
    ASSUME Types, NEW t \in Tabs, queue[t] # <<>>, Head(queue[t]) \in EventJob
    PROVE  1 \in EventsAt(t) /\ queue[t][1] = Head(queue[t]) /\ Head(queue[t]).id \in QueuedIds(t)
<1>1. Head(queue[t]) \in Job /\ Head(queue[t]) = queue[t][1] /\ 1 \in DOMAIN queue[t]
    BY HeadOfQueue
<1>2. 1 \in EventsAt(t)
    BY <1>1, JobKind DEF EventsAt
<1> QED
    BY <1>1, <1>2, QueuedIdsAre

\* A page that has just loaded has no event queued.
LEMMA ReloadedIds ==
    ASSUME Types, NEW t \in Tabs, queue' = [queue EXCEPT ![t] = <<hydrate>>]
    PROVE  /\ \A u \in Tabs \ {t} : queue'[u] = queue[u] /\ EventsAt(u)' = EventsAt(u)
           /\ EventsAt(t)' = {} /\ QueuedIds(t)' = {}
           /\ \A u \in Tabs : QueuedIds(u)' \subseteq QueuedIds(u)
<1>1. queue'[t] = <<hydrate>> /\ \A u \in Tabs \ {t} : queue'[u] = queue[u]
    BY DEF Types, TabTypes
<1>2. hydrate \in Snapshot /\ hydrate \in Job
    BY HydrateType
<1>3. "id" \notin DOMAIN hydrate
    BY <1>2, JobKind
<1>4. EventsAt(t)' = {} /\ QueuedIds(t)' = {}
  <2>1. DOMAIN queue'[t] = {1} /\ queue'[t][1] = hydrate
    BY <1>1
  <2> QED
    BY <1>3, <2>1 DEF EventsAt, QueuedIds
<1>5. \A u \in Tabs \ {t} : EventsAt(u)' = EventsAt(u) /\ QueuedIds(u)' = QueuedIds(u)
    BY <1>1 DEF EventsAt, QueuedIds
<1> QED
    BY <1>1, <1>4, <1>5

\* A new id at the end of what a tab minted.
LEMMA OneMoreMinted ==
    ASSUME Types, NEW t \in Tabs, NEW id \in EventIds, minted' = [minted EXCEPT ![t] = Append(@, id)]
    PROVE  /\ \A u \in Tabs \ {t} : minted'[u] = minted[u]
           /\ Len(minted[t]) \in Nat /\ DOMAIN minted[t] = 1..Len(minted[t])
           /\ DOMAIN minted'[t] = DOMAIN minted[t] \cup {Len(minted[t]) + 1}
           /\ \A i \in DOMAIN minted[t] : minted'[t][i] = minted[t][i] /\ i \in Nat /\ i < Len(minted[t]) + 1
           /\ minted'[t][Len(minted[t]) + 1] = id
           /\ Range(minted[t])' = Range(minted[t]) \cup {id}
           /\ \A u \in Tabs : Range(minted[u]) \subseteq Range(minted[u])'
           /\ Minted' = Minted \cup {id}
<1> DEFINE n == Len(minted[t])
<1>1. minted \in [Tabs -> Seq(EventIds)] /\ minted[t] \in Seq(EventIds)
    BY DEF Types, TabTypes
<1>2. minted'[t] = Append(minted[t], id) /\ \A u \in Tabs \ {t} : minted'[u] = minted[u]
    BY <1>1
<1>3. /\ n \in Nat /\ DOMAIN minted[t] = 1..n /\ DOMAIN Append(minted[t], id) = 1..(n + 1)
      /\ \A i \in 1..n : Append(minted[t], id)[i] = minted[t][i]
      /\ Append(minted[t], id)[n + 1] = id
    BY <1>1
<1> HIDE DEF n
<1>4. 1..(n + 1) = 1..n \cup {n + 1} /\ \A i \in 1..n : i \in Nat /\ i < n + 1
    BY <1>3
<1>5. Range(minted[t])' = Range(minted[t]) \cup {id}
    BY <1>2, <1>3, <1>4 DEF Range
<1>6. \A u \in Tabs \ {t} : Range(minted[u])' = Range(minted[u])
    BY <1>2 DEF Range
<1>7. Minted' = Minted \cup {id} /\ \A u \in Tabs : Range(minted[u]) \subseteq Range(minted[u])'
    BY <1>5, <1>6 DEF Minted
<1>8. DOMAIN minted'[t] = DOMAIN minted[t] \cup {n + 1}
    BY <1>2, <1>3, <1>4
<1>9. \A i \in DOMAIN minted[t] : minted'[t][i] = minted[t][i] /\ i \in Nat /\ i < n + 1
    BY <1>2, <1>3, <1>4
<1> QED
    BY <1>2, <1>3, <1>5, <1>7, <1>8, <1>9 DEF n

LEMMA FreshStep ==
    ASSUME OrderInv, [SyncNext]_vars
    PROVE  Fresh'
<1>i. Types /\ EngineInv /\ Fresh /\ EngineParts
    BY DEF OrderInv, Types
<1>1. ASSUME NEW t \in Tabs, EditMove(t) PROVE Fresh'
  <2>1. PICK id, job : /\ id \in EventIds \ Minted /\ job \in EventJob /\ job \in Job /\ job.id = id
                       /\ minted' = [minted EXCEPT ![t] = Append(@, id)] /\ Enqueue(t, job)
                       /\ UNCHANGED engineVars
    BY <1>1 DEF EditMove
  <2>2. /\ Range(minted[t])' = Range(minted[t]) \cup {id} /\ Minted' = Minted \cup {id}
        /\ \A u \in Tabs : Range(minted[u]) \subseteq Range(minted[u])'
    BY <1>i, <2>1, OneMoreMinted
  <2>3. (\A u \in Tabs \ {t} : QueuedIds(u)' = QueuedIds(u)) /\ QueuedIds(t)' = QueuedIds(t) \cup {id}
    BY <1>i, <2>1, QueuedMore
  <2>4. Logged' = Logged /\ RingIds' = RingIds
    BY <2>1 DEF Logged, RingIds, Readable, engineVars
  <2> QED
    BY <1>i, <2>2, <2>3, <2>4 DEF Fresh
<1>2. ASSUME Unsent, minted' = minted, \A u \in Tabs : QueuedIds(u)' \subseteq QueuedIds(u) PROVE Fresh'
  <2>1. Minted' = Minted
    BY <1>2 DEF Minted
  <2> QED
    BY <1>2, <1>i, <2>1 DEF Fresh, Unsent
<1>u. ASSUME UNCHANGED engineVars PROVE Unsent
    BY <1>i, <1>u, QuietStep, QuietIds DEF Unsent, Quietly
<1>3. ASSUME NEW t \in Tabs, SnapshotMove(t) PROVE Fresh'
  <2>1. PICK job \in Snapshot : job \in Job /\ Enqueue(t, job) /\ UNCHANGED <<engineVars, minted>>
    BY <1>3 DEF SnapshotMove
  <2>2. \A u \in Tabs : QueuedIds(u)' = QueuedIds(u)
    BY <1>i, <2>1, QueuedMore
  <2> QED
    BY <1>2, <1>u, <2>1, <2>2
<1>4. ASSUME NEW t \in Tabs, DoneMove(t) PROVE Fresh'
    BY <1>4, <1>i, <1>2, QueuedLess DEF DoneMove
<1>5. ASSUME NEW t \in Tabs, ReloadMove(t) PROVE Fresh'
  <2>1. \A u \in Tabs : QueuedIds(u)' \subseteq QueuedIds(u)
    BY <1>5, <1>i, ReloadedIds DEF ReloadMove
  <2> QED
    BY <1>5, <1>2, <2>1 DEF ReloadMove
<1>6. ASSUME UNCHANGED <<queue, minted>> PROVE Fresh'
  <2>1. Minted' = Minted /\ \A u \in Tabs : QueuedIds(u)' = QueuedIds(u)
    BY <1>6 DEF QueuedIds, Minted
  <2>2. CASE Unsent
    BY <1>2, <1>6, <2>1, <2>2
  <2>3. CASE CommandSent
    BY <1>i, <1>6, <2>1, <2>3 DEF CommandSent, Fresh
  <2>4. ASSUME NEW t \in Tabs, EventSent(t) PROVE Fresh'
    <3>1. PICK e : /\ queue[t] # <<>> /\ Head(queue[t]) \in EventJob /\ e.id = Head(queue[t]).id
                   /\ Logged' = Logged \cup {e.id} /\ RingIds' \subseteq RingIds \cup {e.id}
      BY <2>4 DEF EventSent
    <3>2. e.id \in QueuedIds(t)
      BY <1>i, <3>1, HeadQueued
    <3>3. e.id \in Minted
      BY <1>i, <3>2 DEF Fresh, Minted
    <3> QED
      BY <1>6, <1>i, <2>1, <3>1, <3>3 DEF Fresh
  <2> QED
    BY <1>i, <2>2, <2>3, <2>4, BoardMoves
<1> QED
    BY <1>i, <1>1, <1>3, <1>4, <1>5, <1>6, TabMoves


LEMMA MintedOnceStep ==
    ASSUME OrderInv, [SyncNext]_vars
    PROVE  MintedOnce'
<1>i. Types /\ EngineInv /\ MintedOnce
    BY DEF OrderInv
<1>1. ASSUME NEW t \in Tabs, EditMove(t) PROVE MintedOnce'
  <2>1. PICK id : id \in EventIds \ Minted /\ minted' = [minted EXCEPT ![t] = Append(@, id)]
    BY <1>1 DEF EditMove
  <2> DEFINE n == Len(minted[t])
  <2>2. /\ \A u \in Tabs \ {t} : minted'[u] = minted[u]
        /\ DOMAIN minted'[t] = DOMAIN minted[t] \cup {n + 1}
        /\ \A i \in DOMAIN minted[t] : minted'[t][i] = minted[t][i]
        /\ minted'[t][n + 1] = id
    BY <1>i, <2>1, OneMoreMinted
  <2> HIDE DEF n
  <2>3. \A u \in Tabs : \A i \in DOMAIN minted[u] : minted[u][i] # id
    BY <2>1 DEF Minted, Range
  <2>4. ASSUME NEW u \in Tabs, NEW i \in DOMAIN minted'[u]
        PROVE  \/ u = t /\ i = n + 1 /\ minted'[u][i] = id
               \/ i \in DOMAIN minted[u] /\ minted'[u][i] = minted[u][i]
    BY <2>2, <2>4
  <2> QED
    BY <1>i, <2>3, <2>4 DEF MintedOnce
<1>2. ASSUME minted' = minted PROVE MintedOnce'
    BY <1>i, <1>2 DEF MintedOnce
<1>3. ASSUME NEW t \in Tabs, SnapshotMove(t) \/ DoneMove(t) \/ ReloadMove(t) PROVE minted' = minted
    BY <1>3 DEF SnapshotMove, DoneMove, ReloadMove
<1> QED
    BY <1>i, <1>1, <1>2, <1>3, TabMoves

\* An event queued now stands where an event with its id stood, or one place ahead of it, or is new.
LEMMA QueuedOnceStep ==
    ASSUME OrderInv, [SyncNext]_vars
    PROVE  QueuedOnce'
<1>i. Types /\ EngineInv /\ QueuedOnce /\ Fresh
    BY DEF OrderInv
<1>o. ASSUME NEW t \in Tabs,
             \A u \in Tabs \ {t} : queue'[u] = queue[u] /\ EventsAt(u)' = EventsAt(u),
             \A k, l \in EventsAt(t)' : queue'[t][k].id = queue'[t][l].id => k = l
      PROVE  QueuedOnce'
    BY <1>o, <1>i DEF QueuedOnce
<1>1. ASSUME NEW t \in Tabs, EditMove(t) PROVE QueuedOnce'
  <2>1. PICK id, job : /\ id \in EventIds \ Minted /\ job \in EventJob /\ job \in Job /\ job.id = id
                       /\ Enqueue(t, job)
    BY <1>1 DEF EditMove
  <2> DEFINE n == Len(queue[t])
  <2>2. /\ \A u \in Tabs \ {t} : queue'[u] = queue[u] /\ EventsAt(u)' = EventsAt(u)
        /\ EventsAt(t)' = EventsAt(t) \cup {n + 1}
        /\ \A k \in EventsAt(t) : queue'[t][k] = queue[t][k]
        /\ queue'[t][n + 1] = job
    BY <1>i, <2>1, EventsMore
  <2> HIDE DEF n
  <2>3. \A k \in EventsAt(t) : queue[t][k].id # id
    BY <1>i, <2>1, QueuedIdsAre DEF Fresh, Minted
  <2>4. \A k, l \in EventsAt(t)' : queue'[t][k].id = queue'[t][l].id => k = l
    BY <1>i, <2>1, <2>2, <2>3 DEF QueuedOnce
  <2> QED
    BY <1>o, <2>2, <2>4
<1>2. ASSUME NEW t \in Tabs, SnapshotMove(t) PROVE QueuedOnce'
  <2>1. PICK job \in Snapshot : job \in Job /\ Enqueue(t, job)
    BY <1>2 DEF SnapshotMove
  <2>2. /\ \A u \in Tabs \ {t} : queue'[u] = queue[u] /\ EventsAt(u)' = EventsAt(u)
        /\ EventsAt(t)' = EventsAt(t)
        /\ \A k \in EventsAt(t) : queue'[t][k] = queue[t][k]
    BY <1>i, <2>1, EventsMore
  <2>3. \A k, l \in EventsAt(t)' : queue'[t][k].id = queue'[t][l].id => k = l
    BY <1>i, <2>2 DEF QueuedOnce
  <2> QED
    BY <1>o, <2>2, <2>3
<1>3. ASSUME NEW t \in Tabs, DoneMove(t) PROVE QueuedOnce'
  <2>1. /\ \A u \in Tabs \ {t} : queue'[u] = queue[u] /\ EventsAt(u)' = EventsAt(u)
        /\ EventsAt(t)' \subseteq Nat
        /\ \A k \in EventsAt(t)' : k + 1 \in EventsAt(t) /\ queue'[t][k] = queue[t][k + 1]
    BY <1>3, <1>i, EventsLess DEF DoneMove
  <2>2. ASSUME NEW k \in EventsAt(t)', NEW l \in EventsAt(t)', queue'[t][k].id = queue'[t][l].id
        PROVE  k = l
    <3>1. k + 1 = l + 1
      BY <1>i, <2>1, <2>2 DEF QueuedOnce
    <3>2. k \in Nat /\ l \in Nat
      BY <2>1
    <3> QED
      BY <3>1, <3>2
  <2> QED
    BY <1>o, <2>1, <2>2
<1>4. ASSUME NEW t \in Tabs, ReloadMove(t) PROVE QueuedOnce'
  <2>1. EventsAt(t)' = {} /\ \A u \in Tabs \ {t} : queue'[u] = queue[u] /\ EventsAt(u)' = EventsAt(u)
    BY <1>4, <1>i, ReloadedIds DEF ReloadMove
  <2> QED
    BY <1>o, <2>1
<1>5. ASSUME queue' = queue PROVE QueuedOnce'
    BY <1>i, <1>5 DEF QueuedOnce, EventsAt
<1> QED
    BY <1>i, <1>1, <1>2, <1>3, <1>4, <1>5, TabMoves

LEMMA BehindItStep ==
    ASSUME OrderInv, [SyncNext]_vars
    PROVE  BehindIt'
<1>i. Types /\ EngineInv /\ BehindIt /\ Fresh
    BY DEF OrderInv
<1>o. ASSUME NEW t \in Tabs,
             \A u \in Tabs \ {t} : queue'[u] = queue[u] /\ EventsAt(u)' = EventsAt(u) /\ minted'[u] = minted[u],
             \A k \in EventsAt(t)', i, j \in DOMAIN minted'[t] :
                 queue'[t][k].id = minted'[t][i] /\ i < j =>
                     \E l \in EventsAt(t)' : k < l /\ queue'[t][l].id = minted'[t][j]
      PROVE  BehindIt'
    BY <1>o, <1>i DEF BehindIt
<1>1. ASSUME NEW t \in Tabs, EditMove(t) PROVE BehindIt'
  <2>1. PICK id, job : /\ id \in EventIds \ Minted /\ job \in EventJob /\ job \in Job /\ job.id = id
                       /\ Enqueue(t, job) /\ minted' = [minted EXCEPT ![t] = Append(@, id)]
    BY <1>1 DEF EditMove
  <2> DEFINE n == Len(queue[t])
             m == Len(minted[t])
  <2>2. /\ \A u \in Tabs \ {t} : queue'[u] = queue[u] /\ EventsAt(u)' = EventsAt(u)
        /\ EventsAt(t)' = EventsAt(t) \cup {n + 1} /\ EventsAt(t) \subseteq 1..n /\ n \in Nat
        /\ \A k \in EventsAt(t) : queue'[t][k] = queue[t][k]
        /\ queue'[t][n + 1] = job
    BY <1>i, <2>1, EventsMore
  <2>3. /\ \A u \in Tabs \ {t} : minted'[u] = minted[u]
        /\ DOMAIN minted'[t] = DOMAIN minted[t] \cup {m + 1}
        /\ \A i \in DOMAIN minted[t] : minted'[t][i] = minted[t][i] /\ i \in Nat /\ i < m + 1
        /\ minted'[t][m + 1] = id /\ m \in Nat
    BY <1>i, <2>1, OneMoreMinted
  <2> HIDE DEF n, m
  <2>4. /\ \A k \in EventsAt(t) : queue[t][k].id # id
        /\ \A i \in DOMAIN minted[t] : minted[t][i] # id
    <3>1. \A i \in DOMAIN minted[t] : minted[t][i] # id
      BY <2>1 DEF Minted, Range
    <3>2. id \notin QueuedIds(t)
      BY <1>i, <2>1 DEF Fresh, Minted
    <3> QED
      BY <3>1, <3>2, QueuedIdsAre
  <2>5. ASSUME NEW k \in EventsAt(t)', NEW i \in DOMAIN minted'[t], NEW j \in DOMAIN minted'[t],
               queue'[t][k].id = minted'[t][i], i < j
        PROVE  \E l \in EventsAt(t)' : k < l /\ queue'[t][l].id = minted'[t][j]
    <3>1. i \in DOMAIN minted[t] /\ i \in Nat
      <4>1. i # m + 1
        BY <2>3, <2>5
      <4> QED
        BY <2>3, <4>1
    <3>2. minted'[t][i] = minted[t][i] /\ minted'[t][i] # id
      BY <2>3, <2>4, <3>1
    <3>3. k \in EventsAt(t)
      BY <2>1, <2>2, <2>5, <3>2
    <3>4. queue[t][k].id = minted[t][i] /\ k < n + 1
      BY <2>2, <2>5, <3>2, <3>3
    <3>5. CASE j = m + 1
      BY <2>1, <2>2, <2>3, <3>4, <3>5
    <3>6. CASE j \in DOMAIN minted[t]
      <4>1. PICK l \in EventsAt(t) : k < l /\ queue[t][l].id = minted[t][j]
        BY <1>i, <2>5, <3>1, <3>3, <3>4, <3>6 DEF BehindIt
      <4> QED
        BY <2>2, <2>3, <3>6, <4>1
    <3> QED
      BY <2>3, <2>5, <3>5, <3>6
  <2> QED
    BY <1>o, <2>2, <2>3, <2>5
<1>2. ASSUME NEW t \in Tabs, SnapshotMove(t) PROVE BehindIt'
  <2>1. PICK job \in Snapshot : job \in Job /\ Enqueue(t, job) /\ minted' = minted
    BY <1>2 DEF SnapshotMove
  <2>2. /\ \A u \in Tabs \ {t} : queue'[u] = queue[u] /\ EventsAt(u)' = EventsAt(u)
        /\ EventsAt(t)' = EventsAt(t)
        /\ \A k \in EventsAt(t) : queue'[t][k] = queue[t][k]
    BY <1>i, <2>1, EventsMore
  <2>3. \A k \in EventsAt(t)', i, j \in DOMAIN minted'[t] :
            queue'[t][k].id = minted'[t][i] /\ i < j =>
                \E l \in EventsAt(t)' : k < l /\ queue'[t][l].id = minted'[t][j]
    BY <1>i, <2>1, <2>2 DEF BehindIt
  <2> QED
    BY <1>o, <2>1, <2>2, <2>3
<1>3. ASSUME NEW t \in Tabs, DoneMove(t) PROVE BehindIt'
  <2>1. /\ \A u \in Tabs \ {t} : queue'[u] = queue[u] /\ EventsAt(u)' = EventsAt(u)
        /\ EventsAt(t)' \subseteq Nat /\ EventsAt(t) \subseteq Nat
        /\ \A k \in EventsAt(t)' : k + 1 \in EventsAt(t) /\ k >= 1 /\ queue'[t][k] = queue[t][k + 1]
        /\ \A k \in EventsAt(t) : k > 1 => k - 1 \in EventsAt(t)' /\ queue'[t][k - 1] = queue[t][k]
    BY <1>3, <1>i, EventsLess DEF DoneMove
  <2>2. minted' = minted
    BY <1>3 DEF DoneMove
  <2>3. ASSUME NEW k \in EventsAt(t)', NEW i \in DOMAIN minted'[t], NEW j \in DOMAIN minted'[t],
               queue'[t][k].id = minted'[t][i], i < j
        PROVE  \E l \in EventsAt(t)' : k < l /\ queue'[t][l].id = minted'[t][j]
    <3>1. k + 1 \in EventsAt(t) /\ queue[t][k + 1].id = minted[t][i] /\ k \in Nat /\ k >= 1
      BY <2>1, <2>2, <2>3
    <3>2. PICK l \in EventsAt(t) : k + 1 < l /\ queue[t][l].id = minted[t][j]
      BY <1>i, <2>2, <2>3, <3>1 DEF BehindIt
    <3>3. l \in Nat /\ l > 1 /\ k < l - 1
      BY <2>1, <3>1, <3>2
    <3> QED
      BY <2>1, <2>2, <3>2, <3>3
  <2> QED
    BY <1>o, <2>1, <2>2, <2>3
<1>4. ASSUME NEW t \in Tabs, ReloadMove(t) PROVE BehindIt'
  <2>1. EventsAt(t)' = {} /\ \A u \in Tabs \ {t} : queue'[u] = queue[u] /\ EventsAt(u)' = EventsAt(u)
    BY <1>4, <1>i, ReloadedIds DEF ReloadMove
  <2>2. minted' = minted
    BY <1>4 DEF ReloadMove
  <2> QED
    BY <1>o, <2>1, <2>2
<1>5. ASSUME UNCHANGED <<queue, minted>> PROVE BehindIt'
    BY <1>i, <1>5 DEF BehindIt, EventsAt
<1> QED
    BY <1>i, <1>1, <1>2, <1>3, <1>4, <1>5, TabMoves

LEMMA QueuedTyped ==
    ASSUME Types
    PROVE  \A u \in Tabs : \A k \in EventsAt(u) : queue[u][k] \in EventJob /\ queue[u][k].id \in EventIds
<1> SUFFICES ASSUME NEW u \in Tabs, NEW k \in EventsAt(u)
             PROVE  queue[u][k] \in EventJob /\ queue[u][k].id \in EventIds
    OBVIOUS
<1>1. queue[u] \in Seq(Job) /\ k \in DOMAIN queue[u] /\ "id" \in DOMAIN queue[u][k]
    BY DEF Types, TabTypes, EventsAt
<1>2. queue[u][k] \in Job
    BY <1>1
<1>3. queue[u][k] \in EventJob
    BY <1>1, <1>2, JobKind
<1> QED
    BY <1>3 DEF EventJob

LEMMA NotYetLoggedStep ==
    ASSUME OrderInv, [SyncNext]_vars
    PROVE  NotYetLogged'
<1>i. Types /\ EngineInv /\ EngineParts /\ Fresh /\ MintedOnce /\ QueuedOnce /\ NotYetLogged
    BY DEF OrderInv, Types
<1>o. ASSUME NEW t \in Tabs, Logged' \subseteq Logged,
             \A u \in Tabs \ {t} : queue'[u] = queue[u] /\ EventsAt(u)' = EventsAt(u),
             \A k \in EventsAt(t)' : k > 1 => queue'[t][k].id \notin Logged
      PROVE  NotYetLogged'
    BY <1>o, <1>i DEF NotYetLogged
<1>l. engineVars' = engineVars => Logged' = Logged
    BY DEF Logged, Readable, engineVars
<1>1. ASSUME NEW t \in Tabs, EditMove(t) PROVE NotYetLogged'
  <2>1. PICK id, job : /\ id \in EventIds \ Minted /\ job \in EventJob /\ job \in Job /\ job.id = id
                       /\ Enqueue(t, job) /\ engineVars' = engineVars
    BY <1>1 DEF EditMove
  <2> DEFINE n == Len(queue[t])
  <2>2. /\ \A u \in Tabs \ {t} : queue'[u] = queue[u] /\ EventsAt(u)' = EventsAt(u)
        /\ EventsAt(t)' = EventsAt(t) \cup {n + 1}
        /\ \A k \in EventsAt(t) : queue'[t][k] = queue[t][k]
        /\ queue'[t][n + 1] = job
    BY <1>i, <2>1, EventsMore
  <2> HIDE DEF n
  <2>3. id \notin Logged
    BY <1>i, <2>1, NoIdAssumption DEF Fresh
  <2>4. \A k \in EventsAt(t)' : k > 1 => queue'[t][k].id \notin Logged
    BY <1>i, <2>1, <2>2, <2>3 DEF NotYetLogged
  <2>5. Logged' = Logged
    BY <1>l, <2>1
  <2> QED
    BY <1>o, <2>2, <2>4, <2>5
<1>2. ASSUME NEW t \in Tabs, SnapshotMove(t) PROVE NotYetLogged'
  <2>1. PICK job \in Snapshot : job \in Job /\ Enqueue(t, job) /\ engineVars' = engineVars
    BY <1>2 DEF SnapshotMove
  <2>2. /\ \A u \in Tabs \ {t} : queue'[u] = queue[u] /\ EventsAt(u)' = EventsAt(u)
        /\ EventsAt(t)' = EventsAt(t)
        /\ \A k \in EventsAt(t) : queue'[t][k] = queue[t][k]
    BY <1>i, <2>1, EventsMore
  <2>3. \A k \in EventsAt(t)' : k > 1 => queue'[t][k].id \notin Logged
    BY <1>i, <2>2 DEF NotYetLogged
  <2>4. Logged' = Logged
    BY <1>l, <2>1
  <2> QED
    BY <1>o, <2>2, <2>3, <2>4
<1>3. ASSUME NEW t \in Tabs, DoneMove(t) PROVE NotYetLogged'
  <2>1. /\ \A u \in Tabs \ {t} : queue'[u] = queue[u] /\ EventsAt(u)' = EventsAt(u)
        /\ EventsAt(t)' \subseteq Nat
        /\ \A k \in EventsAt(t)' : k + 1 \in EventsAt(t) /\ k >= 1 /\ queue'[t][k] = queue[t][k + 1]
    BY <1>3, <1>i, EventsLess DEF DoneMove
  <2>2. Logged' \subseteq Logged
    BY <1>3 DEF DoneMove, Unsent
  <2>3. ASSUME NEW k \in EventsAt(t)' PROVE queue'[t][k].id \notin Logged
    <3>1. k + 1 \in EventsAt(t) /\ k + 1 > 1 /\ queue'[t][k] = queue[t][k + 1]
      BY <2>1
    <3> QED
      BY <1>i, <3>1 DEF NotYetLogged
  <2> QED
    BY <1>o, <2>1, <2>2, <2>3
<1>4. ASSUME NEW t \in Tabs, ReloadMove(t) PROVE NotYetLogged'
  <2>1. EventsAt(t)' = {} /\ \A u \in Tabs \ {t} : queue'[u] = queue[u] /\ EventsAt(u)' = EventsAt(u)
    BY <1>4, <1>i, ReloadedIds DEF ReloadMove
  <2>2. Logged' \subseteq Logged
    BY <1>4 DEF ReloadMove, Unsent
  <2> QED
    BY <1>o, <2>1, <2>2
<1>5. ASSUME UNCHANGED <<queue, minted>> PROVE NotYetLogged'
  <2>1. \A u \in Tabs : EventsAt(u)' = EventsAt(u)
    BY <1>5 DEF EventsAt
  <2>2. CASE Unsent
    BY <1>i, <1>5, <2>1, <2>2 DEF NotYetLogged, Unsent
  <2>3. CASE CommandSent
    <3>1. \A u \in Tabs : \A k \in EventsAt(u) : queue[u][k].id # NoId
      BY <1>i, NoIdAssumption, QueuedTyped
    <3> QED
      BY <1>i, <1>5, <2>1, <2>3, <3>1 DEF CommandSent, NotYetLogged
  <2>4. ASSUME NEW t \in Tabs, EventSent(t) PROVE NotYetLogged'
    <3>1. PICK e : /\ queue[t] # <<>> /\ Head(queue[t]) \in EventJob /\ e.id = Head(queue[t]).id
                   /\ Logged' = Logged \cup {e.id}
      BY <2>4 DEF EventSent
    <3>2. 1 \in EventsAt(t) /\ queue[t][1].id = e.id /\ e.id \in Range(minted[t])
      BY <1>i, <3>1, HeadQueued DEF Fresh
    <3>3. ASSUME NEW u \in Tabs, NEW k \in EventsAt(u), k > 1 PROVE queue[u][k].id # e.id
      <4>1. CASE u = t
        BY <1>i, <3>2, <3>3, <4>1 DEF QueuedOnce
      <4>2. CASE u # t
        BY <1>i, <3>2, <4>2, QueuedIdsAre DEF Fresh, MintedOnce, Range
      <4> QED
        BY <4>1, <4>2
    <3> QED
      BY <1>i, <1>5, <2>1, <3>1, <3>3 DEF NotYetLogged
  <2> QED
    BY <1>i, <2>2, <2>3, <2>4, BoardMoves
<1> QED
    BY <1>i, <1>1, <1>2, <1>3, <1>4, <1>5, TabMoves


LEMMA ReadablePositions ==
    ASSUME EngineParts
    PROVE  Readable(log) \subseteq Nat
BY ReadableShape DEF EngineParts

LEMMA EventsPositions ==
    ASSUME Types
    PROVE  \A t \in Tabs : EventsAt(t) \subseteq Nat
BY DEF Types, TabTypes, EventsAt

LEMMA LogOrderStep ==
    ASSUME OrderInv, [SyncNext]_vars
    PROVE  LogOrder'
<1>i. /\ Types /\ EngineInv /\ EngineParts /\ Fresh /\ MintedOnce /\ BehindIt /\ NotYetLogged /\ LogOrder
      /\ minted \in [Tabs -> Seq(EventIds)]
    BY DEF OrderInv, Types, TabTypes
<1>q. ASSUME NothingNew, minted' = minted PROVE LogOrder'
  <2>1. PICK f : \A q \in Readable(log') :
                    /\ f[q] \in Readable(log) /\ log'[q] = log[f[q]]
                    /\ \A p \in Readable(log') : p < q => f[p] < f[q]
    BY <1>q DEF NothingNew
  <2>2. ASSUME NEW t \in Tabs, NEW i \in DOMAIN minted[t], NEW j \in DOMAIN minted[t], i < j,
               NEW p \in Readable(log'), NEW q \in Readable(log'),
               log'[p].id = minted[t][i], log'[q].id = minted[t][j]
        PROVE  p < q
    <3>1. f[p] < f[q] /\ f[p] \in Nat /\ f[q] \in Nat /\ p \in Nat /\ q \in Nat
      <4>1. f[p] < f[q]
        BY <1>i, <2>1, <2>2 DEF LogOrder
      <4>2. Readable(log) \subseteq Nat
        BY <1>i, ReadablePositions
      <4>3. log' \in Seq(LogLine)
        BY <1>i, EngineTyped DEF EngineParts
      <4>4. Readable(log') \subseteq Nat
        BY <4>3, ReadableShape
      <4> QED
        BY <2>1, <4>1, <4>2, <4>4
    <3>2. q < p => f[q] < f[p]
      BY <2>1
    <3>3. q # p
      BY <3>1
    <3> QED
      BY <3>1, <3>2, <3>3
  <2> QED
    BY <1>q, <2>2 DEF LogOrder
<1>1. ASSUME NEW t \in Tabs, EditMove(t) PROVE LogOrder'
  <2>1. PICK id : /\ id \in EventIds \ Minted /\ minted' = [minted EXCEPT ![t] = Append(@, id)]
                  /\ UNCHANGED engineVars
    BY <1>1 DEF EditMove
  <2> DEFINE m == Len(minted[t])
  <2>2. /\ \A u \in Tabs \ {t} : minted'[u] = minted[u]
        /\ DOMAIN minted'[t] = DOMAIN minted[t] \cup {m + 1}
        /\ \A i \in DOMAIN minted[t] : minted'[t][i] = minted[t][i] /\ i \in Nat /\ i < m + 1
        /\ minted'[t][m + 1] = id /\ m \in Nat
    BY <1>i, <2>1, OneMoreMinted
  <2> HIDE DEF m
  <2>3. log' = log
    BY <2>1 DEF engineVars
  <2>4. \A p \in Readable(log) : log[p].id # id
    BY <1>i, <2>1, NoIdAssumption DEF Fresh, Logged
  <2>5. ASSUME NEW i \in DOMAIN minted'[t], NEW j \in DOMAIN minted'[t], i < j,
               NEW p \in Readable(log), NEW q \in Readable(log),
               log[p].id = minted'[t][i], log[q].id = minted'[t][j]
        PROVE  p < q
    <3>1. i # m + 1 /\ j # m + 1
      BY <2>2, <2>4, <2>5
    <3>2. i \in DOMAIN minted[t] /\ j \in DOMAIN minted[t]
      BY <2>2, <3>1
    <3> QED
      BY <1>i, <2>2, <2>5, <3>2 DEF LogOrder
  <2>6. ASSUME NEW u \in Tabs \ {t}, NEW i \in DOMAIN minted'[u], NEW j \in DOMAIN minted'[u], i < j,
               NEW p \in Readable(log), NEW q \in Readable(log),
               log[p].id = minted'[u][i], log[q].id = minted'[u][j]
        PROVE  p < q
    BY <1>i, <2>2, <2>6 DEF LogOrder
  <2> QED
    BY <2>3, <2>5, <2>6 DEF LogOrder
<1>2. ASSUME Unsent, minted' = minted PROVE LogOrder'
    BY <1>2, <1>q DEF Unsent, Quietly
<1>3. ASSUME NEW e, Committing(e), minted' = minted,
             \A t \in Tabs : \A i, j \in DOMAIN minted[t] :
                 i < j /\ e.id = minted[t][i] => minted[t][j] \notin Logged \cup {e.id}
      PROVE  LogOrder'
  <2> DEFINE n == Len(log) + 1
  <2>1. /\ Readable(log') = Readable(log) \cup {n}
        /\ log'[n] = e
        /\ \A i \in Readable(log) : log'[i] = log[i] /\ i < n
    BY <1>i, <1>3, CommittedTop
  <2> HIDE DEF n
  <2>2. ASSUME NEW t \in Tabs, NEW i \in DOMAIN minted[t], NEW j \in DOMAIN minted[t], i < j,
               NEW p \in Readable(log'), NEW q \in Readable(log'),
               log'[p].id = minted[t][i], log'[q].id = minted[t][j]
        PROVE  p < q
    <3>1. CASE p = n
      <4>1. minted[t][j] \notin Logged /\ minted[t][j] # e.id
        BY <1>3, <2>1, <2>2, <3>1
      <4>2. q # n
        BY <2>1, <2>2, <4>1
      <4>3. q \in Readable(log) /\ log[q].id = minted[t][j]
        BY <2>1, <2>2, <4>2
      <4> QED
        BY <4>1, <4>3 DEF Logged
    <3>2. CASE p \in Readable(log) /\ q = n
      BY <2>1, <3>2
    <3>3. CASE p \in Readable(log) /\ q \in Readable(log)
      BY <1>i, <2>1, <2>2, <3>3 DEF LogOrder
    <3> QED
      BY <2>1, <3>1, <3>2, <3>3
  <2> QED
    BY <1>3, <2>2 DEF LogOrder
<1>4. CASE minted' = minted
  <2>1. CASE CommandSent
    <3>1. PICK e : Committing(e) /\ e.id = NoId
      BY <2>1 DEF CommandSent
    <3>2. \A t \in Tabs : \A i \in DOMAIN minted[t] : minted[t][i] # NoId
      BY <1>i, NoIdAssumption
    <3> QED
      BY <1>3, <1>4, <3>1, <3>2
  <2>2. ASSUME NEW t \in Tabs, EventSent(t) PROVE LogOrder'
    <3>1. PICK e : /\ queue[t] # <<>> /\ Head(queue[t]) \in EventJob /\ e.id = Head(queue[t]).id
                   /\ Committing(e)
      BY <2>2 DEF EventSent
    <3>2. 1 \in EventsAt(t) /\ queue[t][1].id = e.id /\ e.id \in Range(minted[t])
      BY <1>i, <3>1, HeadQueued DEF Fresh
    <3>3. PICK i0 \in DOMAIN minted[t] : minted[t][i0] = e.id
      BY <3>2 DEF Range
    <3>4. ASSUME NEW u \in Tabs, NEW i \in DOMAIN minted[u], NEW j \in DOMAIN minted[u],
                 i < j, e.id = minted[u][i]
          PROVE  minted[u][j] \notin Logged \cup {e.id}
      <4>1. u = t /\ i = i0
        BY <1>i, <3>3, <3>4 DEF MintedOnce
      <4>2. PICK l \in EventsAt(t) : 1 < l /\ queue[t][l].id = minted[t][j]
        BY <1>i, <3>2, <3>4, <4>1 DEF BehindIt
      <4>3. minted[t][j] \notin Logged
        BY <1>i, <4>2, EventsPositions DEF NotYetLogged
      <4>4. i # j
        <5>1. i \in Nat /\ j \in Nat
          BY <1>i, <3>4
        <5> QED
          BY <3>4, <5>1
      <4>5. minted[u][j] # e.id
        BY <1>i, <3>4, <4>4 DEF MintedOnce
      <4> QED
        BY <4>1, <4>3, <4>5
    <3> QED
      BY <1>3, <1>4, <3>1, <3>4
  <2>3. CASE Unsent
    BY <1>2, <1>4, <2>3
  <2> QED
    BY <1>i, <2>1, <2>2, <2>3, BoardMoves
<1>5. ASSUME NEW t \in Tabs, SnapshotMove(t) \/ DoneMove(t) \/ ReloadMove(t) PROVE minted' = minted
    BY <1>5 DEF SnapshotMove, DoneMove, ReloadMove
<1> QED
    BY <1>i, <1>1, <1>4, <1>5, TabMoves

LEMMA OrderInit == Init => OrderInv
<1>1. Init => Fresh /\ MintedOnce /\ QueuedOnce /\ BehindIt /\ NotYetLogged /\ LogOrder
    BY DEF Init, Fresh, MintedOnce, QueuedOnce, BehindIt, NotYetLogged, LogOrder, EventsAt, QueuedIds,
           Logged, RingIds, Readable
<1> QED
    BY <1>1, SyncInitTypes, EngineInvInit DEF OrderInv

LEMMA OrderStep == OrderInv /\ [SyncNext]_vars => OrderInv'
<1> SUFFICES ASSUME OrderInv, [SyncNext]_vars PROVE OrderInv'
    OBVIOUS
<1>1. Types' /\ EngineInv'
    BY TypesStep, BoardKept DEF OrderInv
<1> QED
    BY <1>1, FreshStep, MintedOnceStep, QueuedOnceStep, BehindItStep, NotYetLoggedStep, LogOrderStep
    DEF OrderInv

\* The first line with an id.
LEMMA FirstAtIs ==
    ASSUME EngineParts, NEW id \in Logged
    PROVE  FirstAt(id) \in Readable(log) /\ log[FirstAt(id)].id = id
<1> DEFINE T == {i \in Readable(log) : log[i].id = id}
<1>1. Readable(log) \subseteq Nat
    BY ReadablePositions
<1>2. PICK x \in T : \A y \in T : x <= y
    BY <1>1, LeastNatural DEF Logged
<1>3. ASSUME NEW j \in 1..(x - 1) PROVE log[j] = Torn \/ log[j].id # id
  <2>1. x \in DOMAIN log /\ x \in Nat /\ x <= Len(log) /\ Len(log) \in Nat
    BY <1>1, <1>2, ReadableShape DEF EngineParts, Readable
  <2>2. j \in DOMAIN log /\ j < x
    BY <2>1 DEF EngineParts
  <2>3. j \notin T
    BY <1>2, <2>1, <2>2
  <2> QED
    BY <2>2, <2>3 DEF Readable
<1>4. \E i \in Readable(log) : log[i].id = id /\ \A j \in 1..(i - 1) : log[j] = Torn \/ log[j].id # id
    BY <1>2, <1>3
<1> QED
    BY <1>4 DEF FirstAt

(***************************************************************************)
(* However often an event is sent again, the log first holds a tab's       *)
(* events in the order their user made them (enqueue, requestRetry).       *)
(***************************************************************************)
THEOREM EditsStayInOrder == Spec => []OrderKept
<1>1. OrderInv => OrderKept
  <2> SUFFICES ASSUME OrderInv, NEW t \in Tabs, NEW i \in DOMAIN minted[t], NEW j \in DOMAIN minted[t],
                      i < j, minted[t][i] \in Logged, minted[t][j] \in Logged
               PROVE  FirstAt(minted[t][i]) < FirstAt(minted[t][j])
    BY DEF OrderKept
  <2>1. EngineParts /\ LogOrder
    BY DEF OrderInv, Types
  <2>2. /\ FirstAt(minted[t][i]) \in Readable(log) /\ log[FirstAt(minted[t][i])].id = minted[t][i]
        /\ FirstAt(minted[t][j]) \in Readable(log) /\ log[FirstAt(minted[t][j])].id = minted[t][j]
    BY <2>1, FirstAtIs
  <2> QED
    BY <2>1, <2>2 DEF LogOrder
<1> QED
    BY <1>1, OrderInit, OrderStep, PTL DEF Spec


-----------------------------------------------------------------------------
(***************************************************************************)
(* No watermark runs ahead.                                                *)
(***************************************************************************)
\* No frame and no reply is ahead of the log.
SeqsSeen ==
    \A t \in Tabs :
        /\ \A k \in DOMAIN bus[t] : bus[t][k].seq <= Top
        /\ ReplyOnItsWay(t) => \A k \in DOMAIN catchUp[t].reply : catchUp[t].reply[k].seq <= Top

\* The events a tab has queued that no server has taken yet.
Pending(t) ==
    (QueuedIds(t) \ (Logged \cup RingIds)) \ (IF answer[t] = Nil THEN {} ELSE {Head(queue[t]).id})

Earned == \A t \in Tabs : IsFiniteSet(QueuedIds(t)) /\ lastSeq[t] <= Top + Cardinality(Pending(t))

EarnedInv == OrderInv /\ AnswerTrue /\ SeqsSeen /\ Earned

LEMMA TopTypeNext ==
    ASSUME EngineParts'
    PROVE  /\ Top' \in Nat /\ SnapSeq(snap') <= Top' /\ SnapSeq(snap') \in Nat
           /\ \A i \in Readable(log') : log'[i].seq <= Top' /\ log'[i].seq \in Nat
BY WatermarkIs, SnapSeqType, ReadableShape, EventShape DEF Top, EngineParts

\* Whatever is durable is not ahead of the log.
LEMMA DurableSeen ==
    ASSUME EngineParts, NEW id, NEW n \in Nat, Durable(log, snap, id, n)
    PROVE  n <= Top
BY TopType, BoundAssumption DEF Durable

LEMMA DurableSeenNext ==
    ASSUME EngineParts', NEW id, NEW n \in Nat, Durable(log', snap', id, n)
    PROVE  n <= Top'
BY TopTypeNext, BoundAssumption DEF Durable

\* What is served is in the log.
LEMMA ServedIs ==
    ASSUME EngineParts, NEW w
    PROVE  \A k \in DOMAIN EventsSince(w) : \E i \in Readable(log) : EventsSince(w)[k] = log[i]
<1> DEFINE at == {i \in Readable(log) : log[i].seq > w}
<1>1. PICK f : Picks(f, LinesAt(log, at), log, at) /\ LinesAt(log, at) \in Seq(LogLine)
  <2>1. log \in Seq(LogLine) /\ at \in SUBSET Readable(log)
    BY DEF EngineParts
  <2> QED
    BY <2>1, PickedReadable
<1>2. EventsSince(w) = LinesAt(log, at)
    BY DEF EventsSince
<1> DEFINE out == LinesAt(log, at)
<1>3. DOMAIN out = 1..Len(out) /\ at \subseteq Readable(log)
    BY <1>1
<1> HIDE DEF at
<1> QED
    BY <1>1, <1>2, <1>3 DEF Picks

LEMMA BroadcastSeqs ==
    ASSUME Types, EngineInv, SeqsSeen, [SyncNext]_vars, NEW d, NEW n, NEW except,
           Broadcast(d, n, except), n <= Top'
    PROVE  \A t \in Tabs : \A k \in DOMAIN bus'[t] : bus'[t][k].seq <= Top'
<1> SUFFICES ASSUME NEW t \in Tabs, NEW k \in DOMAIN bus'[t] PROVE bus'[t][k].seq <= Top'
    OBVIOUS
<1>1. Top \in Nat /\ Top' \in Nat /\ Top <= Top'
  <2>1. EngineParts /\ EngineParts'
    BY EngineTyped DEF Types
  <2> QED
    BY <2>1, BoardKept, TopType, TopTypeNext
<1>2. bus[t] \in Seq(Frame) /\ \A l \in DOMAIN bus[t] : bus[t][l].seq <= Top
    BY DEF Types, TabTypes, SeqsSeen
<1>3. bus'[t] = bus[t] \/ bus'[t] = Append(bus[t], [diff |-> d, seq |-> n])
    BY DEF Broadcast
<1>4. CASE bus'[t] = bus[t]
  <2>1. bus[t][k].seq <= Top /\ bus[t][k] \in Frame
    BY <1>2, <1>4
  <2> QED
    BY <1>1, <1>4, <2>1, BoundAssumption DEF Frame
<1>5. CASE bus'[t] = Append(bus[t], [diff |-> d, seq |-> n])
  <2>1. Len(bus[t]) \in Nat /\ DOMAIN bus[t] = 1..Len(bus[t]) /\ DOMAIN bus'[t] = 1..(Len(bus[t]) + 1)
    BY <1>2, <1>5
  <2>2. CASE k = Len(bus[t]) + 1
    BY <1>2, <1>5, <2>2
  <2>3. CASE k # Len(bus[t]) + 1
    <3>1. k \in DOMAIN bus[t]
      BY <2>1, <2>3
    <3>2. bus'[t][k] = bus[t][k]
      BY <1>2, <1>5, <2>1, <3>1
    <3>3. bus[t][k].seq <= Top /\ bus[t][k] \in Frame
      BY <1>2, <3>1
    <3> QED
      BY <1>1, <3>2, <3>3, BoundAssumption DEF Frame
  <2> QED
    BY <2>2, <2>3
<1> QED
    BY <1>3, <1>4, <1>5

LEMMA SeqsSeenStep ==
    ASSUME Types, EngineInv, SeqsSeen, [SyncNext]_vars
    PROVE  SeqsSeen'
<1>t. /\ EngineParts /\ EngineParts' /\ Types'
      /\ Top \in Nat /\ Top' \in Nat /\ Top <= Top'
  <2>1. EngineParts /\ EngineParts' /\ Types'
    BY TypesStep DEF Types
  <2> QED
    BY <2>1, BoardKept, TopType, TopTypeNext
<1> DEFINE BusSeen == \A t \in Tabs : \A k \in DOMAIN bus'[t] : bus'[t][k].seq <= Top'
           ReplySeen == \A t \in Tabs : ReplyOnItsWay(t)' =>
                           \A k \in DOMAIN catchUp'[t].reply : catchUp'[t].reply[k].seq <= Top'
<1>k. \A t \in Tabs : \A k \in DOMAIN bus[t] : bus[t][k].seq <= Top' /\ bus[t][k] \in Frame
  <2> SUFFICES ASSUME NEW t \in Tabs, NEW k \in DOMAIN bus[t]
               PROVE  bus[t][k].seq <= Top' /\ bus[t][k] \in Frame
    OBVIOUS
  <2>1. bus[t][k] \in Frame /\ bus[t][k].seq <= Top
    BY DEF Types, TabTypes, SeqsSeen
  <2> QED
    BY <1>t, <2>1, BoundAssumption DEF Frame
<1>r. \A t \in Tabs : ReplyOnItsWay(t) => \A k \in DOMAIN catchUp[t].reply : catchUp[t].reply[k].seq <= Top'
  <2> SUFFICES ASSUME NEW t \in Tabs, ReplyOnItsWay(t), NEW k \in DOMAIN catchUp[t].reply
               PROVE  catchUp[t].reply[k].seq <= Top'
    OBVIOUS
  <2>1. catchUp[t].reply \in Seq(Event) /\ catchUp[t].reply[k].seq <= Top
    BY ReplyType DEF SeqsSeen
  <2>2. catchUp[t].reply[k] \in Event
    BY <2>1
  <2> QED
    BY <1>t, <2>1, <2>2, EventShape
<1>b. BusSeen
  <2>1. ASSUME bus' = bus PROVE BusSeen
    BY <1>k, <2>1
  <2>2. ASSUME NEW t \in Tabs, bus' = [bus EXCEPT ![t] = Tail(@)], bus[t] # <<>> PROVE BusSeen
    <3>1. bus[t] \in Seq(Frame) /\ bus'[t] = Tail(bus[t]) /\ \A u \in Tabs \ {t} : bus'[u] = bus[u]
      BY <2>2 DEF Types, TabTypes
    <3>2. \A k \in DOMAIN Tail(bus[t]) : k + 1 \in DOMAIN bus[t] /\ Tail(bus[t])[k] = bus[t][k + 1]
      BY <2>2, <3>1
    <3>3. ASSUME NEW u \in Tabs, NEW k \in DOMAIN bus'[u] PROVE bus'[u][k].seq <= Top'
      <4>1. CASE u = t
        BY <1>k, <3>1, <3>2, <3>3, <4>1
      <4>2. CASE u # t
        BY <1>k, <3>1, <3>3, <4>2
      <4> QED
        BY <4>1, <4>2
    <3> QED
      BY <3>3
  <2>3. ASSUME NEW t \in Tabs, bus' = [bus EXCEPT ![t] = <<>>] PROVE BusSeen
    BY <1>k, <2>3 DEF Types, TabTypes
  <2>4. ASSUME bus' = [t \in Tabs |-> <<>>] PROVE BusSeen
    BY <2>4
  <2>5. ASSUME NEW w \in OneWrite, Command(w) PROVE BusSeen
    <3>1. PICK e : Committing(e) /\ Broadcast(e.diff, e.seq, Nil)
      BY <2>5, CommandPosted
    <3>2. e.seq <= Top'
      BY <1>t, <3>1, CommittedTop DEF Committing
    <3>3. PICK d, n : d = e.diff /\ n = e.seq
      OBVIOUS
    <3>4. Broadcast(d, n, Nil)
      BY <3>1, <3>3
    <3> QED
      BY <3>2, <3>3, <3>4, BroadcastSeqs
  <2>6. ASSUME NEW t \in Tabs, PostEvent(t) PROVE BusSeen
    <3>1. PICK seq \in 1..MaxSeq : Broadcast(Head(queue[t]).diff, seq, t) /\ Durable(log', snap', Head(queue[t]).id, seq)
      BY <2>6, EventPosted
    <3>2. seq <= Top'
      BY <1>t, <3>1, DurableSeenNext, BoundAssumption
    <3>3. PICK d : d = Head(queue[t]).diff
      OBVIOUS
    <3>4. Broadcast(d, seq, t)
      BY <3>1, <3>3 DEF Broadcast
    <3> QED
      BY <3>2, <3>4, BroadcastSeqs
  <2>7. \/ bus' = bus
        \/ \E t \in Tabs : bus' = [bus EXCEPT ![t] = Tail(@)] /\ bus[t] # <<>>
        \/ \E t \in Tabs : bus' = [bus EXCEPT ![t] = <<>>]
        \/ bus' = [t \in Tabs |-> <<>>]
        \/ \E t \in Tabs : PostEvent(t)
        \/ \E w \in OneWrite : Command(w)
    BY DEF SyncNext, Edit, Undo, SnapshotTimer, Ack, LoseAck, PostSnapshot, Receive, ServeCatchUp,
           FoldCatchUp, Drop, Connect, Reload, OtherBoot, ServerRestarts, vars, tabVars
  <2> HIDE DEF BusSeen
  <2> QED
    BY <2>1, <2>2, <2>3, <2>4, <2>5, <2>6, <2>7
<1>c. ReplySeen
  <2>o. ASSUME NEW t \in Tabs, \A u \in Tabs \ {t} : catchUp'[u] = catchUp[u],
               \/ catchUp'[t] = catchUp[t] \/ catchUp'[t] = Nil
               \/ catchUp'[t].reply = Nil
               \/ /\ catchUp'[t].reply = EventsSince(catchUp[t].since) /\ log' = log
        PROVE  ReplySeen
    <3>1. ASSUME catchUp'[t].reply = EventsSince(catchUp[t].since), log' = log,
                 NEW k \in DOMAIN catchUp'[t].reply
          PROVE  catchUp'[t].reply[k].seq <= Top'
      <4>1. PICK i \in Readable(log) : EventsSince(catchUp[t].since)[k] = log[i]
        BY <1>t, <3>1, ServedIs
      <4>2. log[i].seq <= Top /\ log[i].seq \in Nat
        BY <1>t, TopType
      <4> QED
        BY <1>t, <3>1, <4>1, <4>2
    <3>2. ASSUME NEW u \in Tabs, ReplyOnItsWay(u)' PROVE \A k \in DOMAIN catchUp'[u].reply : catchUp'[u].reply[k].seq <= Top'
      BY <1>r, <2>o, <3>1, <3>2 DEF ReplyOnItsWay
    <3> QED
      BY <3>2
  <2>1. ASSUME catchUp' = catchUp PROVE ReplySeen
    BY <1>r, <2>1 DEF ReplyOnItsWay
  <2>f. catchUp \in [Tabs -> CatchUp \cup {Nil}]
    BY DEF Types, TabTypes
  <2>2. ASSUME NEW t \in Tabs, StartCatchUp(t) PROVE ReplySeen
    BY <2>2, <2>f, <2>o DEF StartCatchUp
  <2>3. ASSUME NEW t \in Tabs, ServeCatchUp(t) PROVE ReplySeen
    <3>1. catchUp'[t] = [since |-> catchUp[t].since, reply |-> EventsSince(catchUp[t].since)] /\ log' = log
      BY <2>3, <2>f DEF ServeCatchUp, engineVars
    <3>2. \A u \in Tabs \ {t} : catchUp'[u] = catchUp[u]
      BY <2>3, <2>f DEF ServeCatchUp
    <3>3. catchUp'[t].reply = EventsSince(catchUp[t].since)
      BY <3>1
    <3> QED
      BY <2>o, <3>1, <3>2, <3>3
  <2>4. ASSUME NEW t \in Tabs, FoldCatchUp(t) PROVE ReplySeen
    <3>1. (\A u \in Tabs \ {t} : catchUp'[u] = catchUp[u]) /\ (catchUp'[t] = Nil \/ catchUp'[t].reply = Nil)
      BY <2>4, <2>f DEF FoldCatchUp
    <3> QED
      BY <2>o, <3>1
  <2>5. ASSUME NEW t \in Tabs, Reload(t) PROVE ReplySeen
    BY <2>5, <2>f, <2>o DEF Reload
  <2>6. \/ catchUp' = catchUp
        \/ \E t \in Tabs : StartCatchUp(t) \/ ServeCatchUp(t) \/ FoldCatchUp(t) \/ Reload(t)
    BY DEF SyncNext, Edit, Undo, SnapshotTimer, PostEvent, Ack, LoseAck, PostSnapshot, Receive,
           Drop, Connect, Command, OtherBoot, ServerRestarts, vars, tabVars
  <2> HIDE DEF ReplySeen
  <2> QED
    BY <2>1, <2>2, <2>3, <2>4, <2>5, <2>6
<1> QED
    BY <1>b, <1>c DEF SeqsSeen


\* A set that loses at most one element.
LEMMA OneLess ==
    ASSUME NEW S, NEW T, NEW x, IsFiniteSet(S), IsFiniteSet(T), S \subseteq T \cup {x}
    PROVE  Cardinality(S) \in Nat /\ Cardinality(T) \in Nat /\ Cardinality(S) <= Cardinality(T) + 1
<1>1. IsFiniteSet(T \cup {x}) /\ Cardinality(T \cup {x}) <= Cardinality(T) + 1
  <2>1. Cardinality(T) \in Nat
    BY FS_CardinalityType
  <2>2. IsFiniteSet(T \cup {x})
        /\ Cardinality(T \cup {x}) = IF x \in T THEN Cardinality(T) ELSE Cardinality(T) + 1
    BY FS_AddElement
  <2> QED
    BY <2>1, <2>2
<1>2. Cardinality(S) <= Cardinality(T \cup {x})
    BY <1>1, FS_Subset
<1>3. Cardinality(S) \in Nat /\ Cardinality(T) \in Nat /\ Cardinality(T \cup {x}) \in Nat
    BY <1>1, FS_CardinalityType
<1> QED
    BY <1>1, <1>2, <1>3

LEMMA PendingFinite ==
    ASSUME NEW t \in Tabs
    PROVE  /\ IsFiniteSet(QueuedIds(t)) => IsFiniteSet(Pending(t))
           /\ IsFiniteSet(QueuedIds(t)') => IsFiniteSet(Pending(t)')
<1>1. Pending(t) \subseteq QueuedIds(t) /\ Pending(t)' \subseteq QueuedIds(t)'
    BY DEF Pending
<1> QED
    BY <1>1, FS_Subset

\* A watermark stays earned while the log grows by what the pending events lose.
LEMMA StillEarned ==
    ASSUME NEW n \in Nat, NEW m \in Nat, NEW top \in Nat, NEW after \in Nat, NEW S, NEW T,
           IsFiniteSet(S), IsFiniteSet(T), n <= top + Cardinality(S),
           m = n \/ m <= after,
           \/ top <= after /\ S \subseteq T
           \/ after = top + 1 /\ \E x : S \subseteq T \cup {x}
    PROVE  m <= after + Cardinality(T)
<1>1. Cardinality(S) \in Nat /\ Cardinality(T) \in Nat
    BY FS_CardinalityType
<1>2. CASE m <= after
    BY <1>1, <1>2
<1>3. CASE m = n /\ top <= after /\ S \subseteq T
  <2>1. Cardinality(S) <= Cardinality(T)
    BY <1>3, FS_Subset
  <2> QED
    BY <1>1, <1>3, <2>1
<1>4. CASE m = n /\ after = top + 1 /\ \E x : S \subseteq T \cup {x}
  <2>1. Cardinality(S) <= Cardinality(T) + 1
    BY <1>4, OneLess
  <2> QED
    BY <1>1, <1>4, <2>1
<1> QED
    BY <1>2, <1>3, <1>4

\* What a tab missed is in the reply, past its watermark, and in the reply's order.
LEMMA MissedIs ==
    ASSUME Types, NEW t \in Tabs, ReplyOnItsWay(t)
    PROVE  /\ \A k \in 1..Len(Missed(t)) : \E i \in DOMAIN catchUp[t].reply : Missed(t)[k] = catchUp[t].reply[i]
           /\ \E f : Picks(f, Missed(t), catchUp[t].reply,
                            {i \in DOMAIN catchUp[t].reply : catchUp[t].reply[i].seq > lastSeq[t]})
<1> DEFINE reply == catchUp[t].reply
           at == {i \in DOMAIN reply : reply[i].seq > lastSeq[t]}
<1>1. reply \in Seq(Event) /\ DOMAIN reply = 1..Len(reply)
    BY ReplyType
<1>2. Missed(t) = LinesAt(reply, at)
    BY DEF Missed
<1>3. at \in SUBSET (1..Len(reply)) /\ at \subseteq DOMAIN reply
    BY <1>1
<1> HIDE DEF reply, at
<1>4. PICK f : Picks(f, Missed(t), reply, at)
    BY <1>1, <1>2, <1>3, LinesAtPicks
<1>5. \A k \in 1..Len(Missed(t)) : \E i \in DOMAIN reply : Missed(t)[k] = reply[i]
    BY <1>3, <1>4 DEF Picks
<1> QED
    BY <1>4, <1>5 DEF reply, at

\* A snapshot is no event.
LEMMA EventIsNoSnapshot == \A job \in Snapshot : job \notin EventJob
BY JobKind DEF Job

\* Without an edit, a tab's watermark moves only to seqs of the log.
LEMMA SeqsAdopted ==
    ASSUME Types, EngineInv, AnswerTrue, SeqsSeen, [SyncNext]_vars,
           ~(\E t \in Writers, w \in OneWrite : Edit(t, w))
    PROVE  \A u \in Tabs : lastSeq'[u] = lastSeq[u] \/ lastSeq'[u] <= Top'
<1>p. /\ EngineParts /\ TabTypes /\ EngineParts' /\ Top \in Nat /\ Top' \in Nat /\ Top <= Top'
  <2>1. TabTypes /\ EngineParts /\ EngineParts'
    BY EngineTyped DEF Types
  <2> QED
    BY <2>1, BoardKept, TopType, TopTypeNext
<1>o. ASSUME NEW t \in Tabs, NEW n, lastSeq' = [lastSeq EXCEPT ![t] = n], n = lastSeq[t] \/ (n \in Nat /\ n <= Top)
      PROVE  \A u \in Tabs : lastSeq'[u] = lastSeq[u] \/ lastSeq'[u] <= Top'
    BY <1>p, <1>o DEF TabTypes
<1>1. ASSUME NEW t \in Tabs, Ack(t) PROVE \A u \in Tabs : lastSeq'[u] = lastSeq[u] \/ lastSeq'[u] <= Top'
  <2>1. answer[t] # Nil /\ lastSeq' = [lastSeq EXCEPT ![t] = Max2(lastSeq[t], answer[t])]
    BY <1>1 DEF Ack
  <2>2. answer[t] \in Nat /\ Durable(log, snap, Head(queue[t]).id, answer[t])
    BY <1>p, <2>1, BoundAssumption DEF TabTypes, AnswerTrue
  <2>3. answer[t] <= Top
    BY <1>p, <2>2, DurableSeen
  <2> QED
    BY <1>o, <2>1, <2>2, <2>3 DEF Max2
<1>2. ASSUME NEW t \in Tabs, Receive(t) PROVE \A u \in Tabs : lastSeq'[u] = lastSeq[u] \/ lastSeq'[u] <= Top'
  <2>1. bus[t] \in Seq(Frame) /\ bus[t] # <<>>
    BY <1>2, <1>p DEF Receive, TabTypes
  <2>2. Head(bus[t]) = bus[t][1] /\ 1 \in DOMAIN bus[t]
    BY <2>1
  <2>3. Head(bus[t]).seq <= Top /\ Head(bus[t]) \in Frame
    BY <2>1, <2>2 DEF SeqsSeen
  <2>4. Head(bus[t]).seq \in Nat
    BY <2>3, BoundAssumption DEF Frame
  <2>5. lastSeq' = lastSeq \/ lastSeq' = [lastSeq EXCEPT ![t] = Head(bus[t]).seq]
    BY <1>2 DEF Receive
  <2> QED
    BY <1>o, <2>3, <2>4, <2>5
<1>3. ASSUME NEW t \in Tabs, FoldCatchUp(t) PROVE \A u \in Tabs : lastSeq'[u] = lastSeq[u] \/ lastSeq'[u] <= Top'
  <2>1. /\ ReplyOnItsWay(t)
        /\ \/ lastSeq' = lastSeq
           \/ Missed(t) # <<>> /\ lastSeq' = [lastSeq EXCEPT ![t] = Last(Missed(t)).seq]
    BY <1>3 DEF FoldCatchUp, Missed
  <2>2. ASSUME Missed(t) # <<>> PROVE Last(Missed(t)).seq \in Nat /\ Last(Missed(t)).seq <= Top
    <3>1. /\ Last(Missed(t)) = Missed(t)[Len(Missed(t))] /\ Len(Missed(t)) \in 1..Len(Missed(t))
          /\ Last(Missed(t)).seq \in 1..MaxSeq
      BY <2>1, <2>2, MissedType
    <3>2. \A k \in 1..Len(Missed(t)) : \E i \in DOMAIN catchUp[t].reply : Missed(t)[k] = catchUp[t].reply[i]
      BY <2>1, MissedIs
    <3> QED
      BY <2>1, <3>1, <3>2, BoundAssumption DEF SeqsSeen
  <2> QED
    BY <1>o, <2>1, <2>2
<1>4. ASSUME NEW t \in Tabs, Reload(t) PROVE \A u \in Tabs : lastSeq'[u] = lastSeq[u] \/ lastSeq'[u] <= Top'
  <2>1. lastSeq' = [lastSeq EXCEPT ![t] = Top]
    BY <1>4, HydrateType DEF Reload, Top
  <2> QED
    BY <1>o, <1>p, <2>1
<1>5. \/ lastSeq' = lastSeq
      \/ \E t \in Tabs : Ack(t) \/ Receive(t) \/ FoldCatchUp(t) \/ Reload(t)
    BY DEF SyncNext, Undo, SnapshotTimer, LoseAck, PostEvent, PostSnapshot, ServeCatchUp, Drop, Connect,
           Command, OtherBoot, ServerRestarts, vars, tabVars
<1> QED
    BY <1>1, <1>2, <1>3, <1>4, <1>5

LEMMA EarnedStep ==
    ASSUME EarnedInv, [SyncNext]_vars
    PROVE  Earned'
<1>i. /\ OrderInv /\ Types /\ EngineInv /\ EngineParts /\ Fresh /\ QueuedOnce /\ AnswerTrue /\ SeqsSeen /\ Earned
      /\ TabTypes /\ Answering
    BY DEF EarnedInv, OrderInv, Types
<1>p. /\ Types' /\ EngineParts' /\ Top \in Nat /\ Top' \in Nat /\ Top <= Top'
      /\ Fresh'
  <2>1. Types' /\ EngineParts'
    BY <1>i, TypesStep DEF Types
  <2> QED
    BY <1>i, <2>1, BoardKept, TopType, TopTypeNext, FreshStep
<1>n. \A t \in Tabs : lastSeq[t] \in Nat /\ lastSeq'[t] \in Nat
    BY <1>i, <1>p, BoundAssumption DEF TabTypes, Types
<1>f. \A t \in Tabs : IsFiniteSet(QueuedIds(t)) /\ IsFiniteSet(Pending(t)) /\ lastSeq[t] <= Top + Cardinality(Pending(t))
    BY <1>i, PendingFinite DEF Earned
<1>o. ASSUME NEW t \in Tabs, IsFiniteSet(QueuedIds(t)'),
             lastSeq'[t] = lastSeq[t] \/ lastSeq'[t] <= Top',
             \/ Pending(t) \subseteq Pending(t)'
             \/ Top' = Top + 1 /\ \E x : Pending(t) \subseteq Pending(t)' \cup {x}
      PROVE  lastSeq'[t] <= Top' + Cardinality(Pending(t)')
  <2>1. IsFiniteSet(Pending(t)')
    BY <1>o, PendingFinite
  <2>2. PICK S, T : S = Pending(t) /\ T = Pending(t)'
    OBVIOUS
  <2>3. /\ IsFiniteSet(S) /\ IsFiniteSet(T) /\ lastSeq[t] <= Top + Cardinality(S)
        /\ (Top <= Top' /\ S \subseteq T) \/ (Top' = Top + 1 /\ \E x : S \subseteq T \cup {x})
    BY <1>f, <1>p, <1>o, <2>1, <2>2
  <2>4. lastSeq'[t] <= Top' + Cardinality(T)
    BY <1>n, <1>p, <1>o, <2>3, StillEarned
  <2> QED
    BY <2>2, <2>4
<1>q. ASSUME NEW u \in Tabs, QueuedIds(u)' = QueuedIds(u), lastSeq'[u] = lastSeq[u] \/ lastSeq'[u] <= Top',
             Unsent, answer'[u] = answer[u] \/ answer'[u] = Nil, answer[u] # Nil => Head(queue'[u]) = Head(queue[u])
      PROVE  IsFiniteSet(QueuedIds(u)') /\ lastSeq'[u] <= Top' + Cardinality(Pending(u)')
  <2>1. Pending(u) \subseteq Pending(u)'
    BY <1>q DEF Pending, Unsent
  <2> QED
    BY <1>f, <1>q, <1>o, <2>1
<1>u. ASSUME UNCHANGED engineVars PROVE Unsent
    BY <1>i, <1>u, QuietStep, QuietIds DEF Unsent, Quietly
<1>1. ASSUME NEW t \in Tabs, EditMove(t) PROVE Earned'
  <2>1. PICK id, job : /\ id \in EventIds \ Minted /\ job \in EventJob /\ job \in Job /\ job.id = id
                       /\ Enqueue(t, job) /\ UNCHANGED <<engineVars, answer>>
                       /\ lastSeq' = [lastSeq EXCEPT ![t] = @ + 1]
    BY <1>1 DEF EditMove
  <2>2. (\A u \in Tabs \ {t} : QueuedIds(u)' = QueuedIds(u)) /\ QueuedIds(t)' = QueuedIds(t) \cup {id}
    BY <1>i, <2>1, QueuedMore
  <2>3. (\A u \in Tabs \ {t} : queue'[u] = queue[u]) /\ (queue[t] # <<>> => Head(queue'[t]) = Head(queue[t]))
    BY <1>i, <2>1, Enqueued
  <2>4. Unsent
    BY <1>u, <2>1
  <2>5. ASSUME NEW u \in Tabs \ {t}
        PROVE  IsFiniteSet(QueuedIds(u)') /\ lastSeq'[u] <= Top' + Cardinality(Pending(u)')
    <3>1. lastSeq'[u] = lastSeq[u]
      BY <1>i, <2>1 DEF TabTypes
    <3> QED
      BY <1>q, <2>1, <2>2, <2>3, <2>4, <3>1
  <2>6. IsFiniteSet(QueuedIds(t)') /\ lastSeq'[t] <= Top' + Cardinality(Pending(t)')
    <3>1. Logged' = Logged /\ RingIds' = RingIds
      BY <2>1 DEF Logged, RingIds, Readable, engineVars
    <3>2. id \notin Logged /\ id \notin RingIds /\ id \notin QueuedIds(t)
      BY <1>i, <2>1, NoIdAssumption DEF Fresh, Minted
    <3>3. answer[t] # Nil => queue[t] # <<>> /\ Head(queue[t]).id \in QueuedIds(t)
      BY <1>i, HeadQueued DEF Answering
    <3>4. Pending(t)' = Pending(t) \cup {id} /\ id \notin Pending(t)
      BY <2>1, <2>2, <2>3, <3>1, <3>2, <3>3 DEF Pending
    <3>5. Cardinality(Pending(t)') = Cardinality(Pending(t)) + 1 /\ Cardinality(Pending(t)) \in Nat
      BY <1>f, <3>4, FS_AddElement, FS_CardinalityType
    <3>6. IsFiniteSet(QueuedIds(t)')
      BY <1>f, <2>2, FS_AddElement
    <3>7. lastSeq'[t] = lastSeq[t] + 1
      BY <1>i, <2>1 DEF TabTypes
    <3> QED
      BY <1>n, <1>f, <1>p, <3>5, <3>6, <3>7
  <2> QED
    BY <2>5, <2>6 DEF Earned
<1>2. ASSUME NEW t \in Tabs, SnapshotMove(t) PROVE Earned'
  <2>1. PICK job \in Snapshot : job \in Job /\ Enqueue(t, job) /\ UNCHANGED <<engineVars, answer, lastSeq>>
    BY <1>2 DEF SnapshotMove
  <2>2. \A u \in Tabs : QueuedIds(u)' = QueuedIds(u)
    BY <1>i, <2>1, QueuedMore
  <2>3. (\A u \in Tabs \ {t} : queue'[u] = queue[u]) /\ (queue[t] # <<>> => Head(queue'[t]) = Head(queue[t]))
    BY <1>i, <2>1, Enqueued
  <2> QED
    BY <1>i, <1>q, <1>u, <2>1, <2>2, <2>3 DEF Earned, Answering
<1>3. ASSUME NEW t \in Tabs, DoneMove(t) PROVE Earned'
  <2>1. /\ queue[t] # <<>> /\ queue' = [queue EXCEPT ![t] = Tail(@)] /\ Unsent
        /\ \/ Ack(t) /\ Head(queue[t]) \in EventJob
           \/ Head(queue[t]) \in Snapshot /\ UNCHANGED <<answer, lastSeq>>
    BY <1>3 DEF DoneMove
  <2>2. /\ \A u \in Tabs \ {t} : queue'[u] = queue[u] /\ QueuedIds(u)' = QueuedIds(u)
        /\ QueuedIds(t)' \subseteq QueuedIds(t)
        /\ Head(queue[t]) \in EventJob => QueuedIds(t) \subseteq QueuedIds(t)' \cup {Head(queue[t]).id}
        /\ Head(queue[t]) \in Snapshot => QueuedIds(t)' = QueuedIds(t)
    BY <1>i, <2>1, QueuedLess
  <2>3. CASE Head(queue[t]) \in Snapshot /\ UNCHANGED <<answer, lastSeq>>
    <3>1. answer[t] = Nil
      BY <1>i, <2>3, EventIsNoSnapshot DEF Answering
    <3> QED
      BY <1>q, <2>1, <2>2, <2>3, <3>1 DEF Earned
  <2>4. CASE Ack(t) /\ Head(queue[t]) \in EventJob
    <3>1. /\ answer[t] # Nil /\ answer' = [answer EXCEPT ![t] = Nil]
          /\ lastSeq' = [lastSeq EXCEPT ![t] = Max2(@, answer[t])]
          /\ UNCHANGED engineVars
      BY <2>4 DEF Ack
    <3>2. answer'[t] = Nil /\ lastSeq'[t] = Max2(lastSeq[t], answer[t])
          /\ \A u \in Tabs \ {t} : answer'[u] = answer[u] /\ lastSeq'[u] = lastSeq[u]
      BY <1>i, <3>1 DEF TabTypes
    <3>3. answer[t] \in Nat /\ answer[t] <= Top
      <4>1. answer[t] \in Nat
        BY <1>i, <3>1, BoundAssumption DEF TabTypes
      <4>2. Durable(log, snap, Head(queue[t]).id, answer[t])
        BY <1>i, <3>1 DEF AnswerTrue
      <4> QED
        BY <1>i, <4>1, <4>2, DurableSeen
    <3>4. lastSeq'[t] = lastSeq[t] \/ lastSeq'[t] <= Top'
      BY <1>p, <1>n, <3>2, <3>3 DEF Max2
    <3>5. Pending(t) \subseteq Pending(t)'
      <4>1. Logged' \subseteq Logged /\ RingIds' \subseteq RingIds
        BY <2>1 DEF Unsent
      <4> QED
        BY <2>2, <2>4, <3>1, <3>2, <4>1 DEF Pending
    <3>6. IsFiniteSet(QueuedIds(t)')
      BY <1>f, <2>2, FS_Subset
    <3>7. IsFiniteSet(QueuedIds(t)') /\ lastSeq'[t] <= Top' + Cardinality(Pending(t)')
      BY <1>o, <3>4, <3>5, <3>6
    <3>8. \A u \in Tabs \ {t} : IsFiniteSet(QueuedIds(u)') /\ lastSeq'[u] <= Top' + Cardinality(Pending(u)')
      BY <1>q, <2>1, <2>2, <3>2
    <3> QED
      BY <3>7, <3>8 DEF Earned
  <2> QED
    BY <2>1, <2>3, <2>4
<1>4. ASSUME NEW t \in Tabs, ReloadMove(t) PROVE Earned'
  <2>1. /\ queue' = [queue EXCEPT ![t] = <<hydrate>>] /\ answer' = [answer EXCEPT ![t] = Nil]
        /\ lastSeq' = [lastSeq EXCEPT ![t] = hydrate.seq] /\ Unsent
    BY <1>4 DEF ReloadMove
  <2>2. QueuedIds(t)' = {} /\ \A u \in Tabs \ {t} : queue'[u] = queue[u] /\ QueuedIds(u)' = QueuedIds(u)
    <3>1. QueuedIds(t)' = {} /\ \A u \in Tabs \ {t} : queue'[u] = queue[u]
      BY <1>i, <2>1, ReloadedIds
    <3> QED
      BY <3>1 DEF QueuedIds
  <2>3. /\ answer'[t] = Nil /\ lastSeq'[t] = hydrate.seq
        /\ \A u \in Tabs \ {t} : answer'[u] = answer[u] /\ lastSeq'[u] = lastSeq[u]
    BY <1>i, <2>1 DEF TabTypes
  <2>4. lastSeq'[t] <= Top'
    BY <1>i, <1>p, <2>3, HydrateType DEF Top
  <2>5. IsFiniteSet(QueuedIds(t)') /\ Pending(t)' = {} /\ Cardinality(Pending(t)') = 0
    BY <2>2, FS_EmptySet DEF Pending
  <2>6. lastSeq'[t] <= Top' + Cardinality(Pending(t)')
    BY <1>n, <1>p, <2>4, <2>5
  <2>7. \A u \in Tabs \ {t} : IsFiniteSet(QueuedIds(u)') /\ lastSeq'[u] <= Top' + Cardinality(Pending(u)')
    BY <1>q, <2>1, <2>2, <2>3
  <2> QED
    BY <2>5, <2>6, <2>7 DEF Earned
<1>5. ASSUME UNCHANGED <<queue, minted>>, ~(\E t \in Writers, w \in OneWrite : Edit(t, w)) PROVE Earned'
  <2>1. \A u \in Tabs : QueuedIds(u)' = QueuedIds(u)
    BY <1>5 DEF QueuedIds
  <2>2. CASE CommandSent
    <3>1. PICK e : /\ Committing(e) /\ Logged' = Logged \cup {NoId}
                   /\ RingIds' \subseteq RingIds /\ UNCHANGED <<queue, answer, lastSeq>>
      BY <2>2 DEF CommandSent
    <3>2. Top' = Top + 1
      BY <1>i, <3>1, CommittedTop
    <3>3. \A u \in Tabs : Pending(u) \subseteq Pending(u)' \cup {NoId}
      BY <2>1, <3>1 DEF Pending
    <3>4. \A u \in Tabs : lastSeq'[u] <= Top' + Cardinality(Pending(u)')
      BY <1>o, <1>f, <2>1, <3>1, <3>2, <3>3
    <3> QED
      BY <1>f, <2>1, <3>4 DEF Earned
  <2>3. ASSUME NEW t \in Tabs, EventSent(t) PROVE Earned'
    <3>1. PICK e : /\ queue[t] # <<>> /\ e.id = Head(queue[t]).id /\ Committing(e)
                   /\ Logged' = Logged \cup {e.id} /\ RingIds' \subseteq RingIds \cup {e.id}
                   /\ UNCHANGED <<queue, lastSeq>> /\ answer' = [answer EXCEPT ![t] = e.seq]
      BY <2>3 DEF EventSent
    <3>2. Top' = Top + 1
      BY <1>i, <3>1, CommittedTop
    <3>3. ASSUME NEW u \in Tabs PROVE Pending(u) \subseteq Pending(u)' \cup {e.id}
      <4>1. u # t => answer'[u] = answer[u]
        BY <1>i, <3>1 DEF TabTypes
      <4> QED
        BY <2>1, <3>1, <4>1 DEF Pending
    <3>4. \A u \in Tabs : lastSeq'[u] <= Top' + Cardinality(Pending(u)')
      BY <1>o, <1>f, <2>1, <3>1, <3>2, <3>3
    <3> QED
      BY <1>f, <2>1, <3>4 DEF Earned
  <2>4. CASE Unsent
    <3>1. \A u \in Tabs : answer'[u] = answer[u] \/ answer'[u] = Nil \/ PostEvent(u)
      <4>1. \/ answer' = answer \/ \E t \in Tabs : answer' = [answer EXCEPT ![t] = Nil]
            \/ \E t \in Tabs : PostEvent(t)
        BY DEF SyncNext, Edit, Undo, SnapshotTimer, Ack, LoseAck, PostSnapshot, Receive, ServeCatchUp,
               FoldCatchUp, Drop, Connect, Reload, Command, OtherBoot, ServerRestarts, vars, tabVars
      <4>2. ASSUME NEW t \in Tabs, NEW u \in Tabs, PostEvent(t), u # t PROVE answer'[u] = answer[u]
        BY <1>i, <4>2 DEF PostEvent, TabTypes
      <4> QED
        BY <1>i, <4>1, <4>2 DEF TabTypes
    <3>2. \A u \in Tabs : lastSeq'[u] = lastSeq[u] \/ lastSeq'[u] <= Top'
      BY <1>i, <1>5, SeqsAdopted
    <3>3. ASSUME NEW u \in Tabs, PostEvent(u)
          PROVE  IsFiniteSet(QueuedIds(u)') /\ lastSeq'[u] <= Top' + Cardinality(Pending(u)')
      <4> DEFINE id == Head(queue[u]).id
      <4>1. answer[u] = Nil /\ queue' = queue
        BY <3>3, <1>5 DEF PostEvent, HeadIs
      <4>2. \/ UNCHANGED engineVars /\ id \in RingIds
            \/ \E e : Committing(e) /\ e.id = id /\ RingIds' \subseteq RingIds \cup {id}
        BY <1>i, <3>3, EventPosted
      <4> HIDE DEF id
      <4>3. CASE UNCHANGED engineVars /\ id \in RingIds
        <5>1. Logged' = Logged /\ RingIds' = RingIds
          BY <4>3 DEF Logged, RingIds, Readable, engineVars
        <5>2. Pending(u) \subseteq Pending(u)'
          BY <2>1, <4>1, <4>3, <5>1 DEF Pending, id
        <5> QED
          BY <1>o, <1>f, <2>1, <3>2, <5>2
      <4>4. ASSUME NEW e, Committing(e), e.id = id, RingIds' \subseteq RingIds \cup {id}
            PROVE  IsFiniteSet(QueuedIds(u)') /\ lastSeq'[u] <= Top' + Cardinality(Pending(u)')
        <5>1. Logged' = Logged \cup {id} /\ Top' = Top + 1
          BY <1>i, <4>4, CommittedIds, CommittedTop
        <5>2. Pending(u) \subseteq Pending(u)' \cup {id}
          BY <2>1, <4>1, <4>4, <5>1 DEF Pending, id
        <5> QED
          BY <1>o, <1>f, <2>1, <3>2, <5>1, <5>2
      <4> QED
        BY <4>2, <4>3, <4>4
    <3> QED
      BY <1>q, <1>5, <2>1, <2>4, <3>1, <3>2, <3>3 DEF Earned
  <2> QED
    BY <1>i, <2>2, <2>3, <2>4, BoardMoves
<1>6. ASSUME NEW t \in Writers, NEW w \in OneWrite, Edit(t, w) PROVE Earned'
    BY <1>1, <1>6, <1>i, EditMoves
<1> QED
    BY <1>i, <1>1, <1>2, <1>3, <1>4, <1>5, <1>6, TabMoves


LEMMA EarnedInit == Init => EarnedInv
<1> SUFFICES ASSUME Init PROVE EarnedInv
    OBVIOUS
<1>1. OrderInv /\ AnswerTrue /\ EngineParts
    BY OrderInit, SavedInit DEF OrderInv, SavedInv, Types
<1>2. SeqsSeen
    BY DEF Init, SeqsSeen, ReplyOnItsWay
<1>3. \A t \in Tabs : QueuedIds(t) = {} /\ Pending(t) = {} /\ lastSeq[t] = 0
    BY DEF Init, QueuedIds, Pending
<1>4. IsFiniteSet({}) /\ Cardinality({}) = 0
    BY FS_EmptySet
<1>5. \A t \in Tabs : 0 <= Top + Cardinality(Pending(t))
    BY <1>1, <1>3, <1>4, TopType
<1> QED
    BY <1>1, <1>2, <1>3, <1>4, <1>5 DEF EarnedInv, Earned

LEMMA EarnedInvStep == SavedInv /\ EarnedInv /\ [SyncNext]_vars => EarnedInv'
BY OrderStep, AnswerTrueStep, SeqsSeenStep, EarnedStep DEF EarnedInv, OrderInv

(***************************************************************************)
(* A tab's provisional watermark stays within the events it still has to   *)
(* send of the server's, so no snapshot of it claims a seq nobody assigned *)
(* (onServerSeq, saveSnapshotNow).                                         *)
(***************************************************************************)
THEOREM WatermarksAreEarned == Spec => []WatermarkEarned
<1>1. EarnedInv => WatermarkEarned
  <2> SUFFICES ASSUME EarnedInv, NEW t \in Tabs
               PROVE  lastSeq[t] <= FoldWatermark(log, snap) + Cardinality(QueuedIds(t))
    BY DEF WatermarkEarned
  <2>1. IsFiniteSet(QueuedIds(t)) /\ lastSeq[t] <= Top + Cardinality(Pending(t))
    BY DEF EarnedInv, Earned
  <2>2. Pending(t) \subseteq QueuedIds(t)
    BY DEF Pending
  <2>3. Cardinality(Pending(t)) <= Cardinality(QueuedIds(t))
    BY <2>1, <2>2, FS_Subset
  <2>4. Cardinality(Pending(t)) \in Nat /\ Cardinality(QueuedIds(t)) \in Nat
    BY <2>1, <2>2, FS_Subset, FS_CardinalityType
  <2>5. Top \in Nat /\ lastSeq[t] \in Nat
    BY TopType, BoundAssumption DEF EarnedInv, OrderInv, Types, TabTypes
  <2> QED
    BY <2>1, <2>3, <2>4, <2>5 DEF Top
<1> QED
    BY <1>1, SavedInit, SavedStep, EarnedInit, EarnedInvStep, PTL DEF Spec

-----------------------------------------------------------------------------
(***************************************************************************)
(* What a store shows of the log.                                          *)
(***************************************************************************)
Events == {log[i] : i \in Readable(log)}

\* A store shows a set of events up to a seq: every id is as the newest of them to touch it left it.
Shows(store, events, n) ==
    /\ store \in Records
    /\ \A id \in Ids :
          \/ \E e \in events : /\ e.seq <= n /\ id \in DOMAIN e.diff /\ store[id] = e.diff[id].to
                               /\ \A g \in events : g.seq <= n /\ id \in DOMAIN g.diff => g.seq <= e.seq
          \/ store[id] = Absent /\ \A e \in events : e.seq <= n => id \notin DOMAIN e.diff

\* Two stores that show the same are the same.
LEMMA ShowsOnce ==
    ASSUME NEW events \in SUBSET Event, \A e, g \in events : e.seq = g.seq => e = g,
           NEW n \in Nat, NEW s1, NEW s2, Shows(s1, events, n), Shows(s2, events, n)
    PROVE  s1 = s2
<1>1. ASSUME NEW id \in Ids PROVE s1[id] = s2[id]
  <2>1. CASE \A e \in events : e.seq <= n => id \notin DOMAIN e.diff
    BY <2>1 DEF Shows
  <2>2. CASE ~(\A e \in events : e.seq <= n => id \notin DOMAIN e.diff)
    <3>1. PICK e \in events : /\ e.seq <= n /\ id \in DOMAIN e.diff /\ s1[id] = e.diff[id].to
                              /\ \A g \in events : g.seq <= n /\ id \in DOMAIN g.diff => g.seq <= e.seq
      BY <2>2 DEF Shows
    <3>2. PICK g \in events : /\ g.seq <= n /\ id \in DOMAIN g.diff /\ s2[id] = g.diff[id].to
                              /\ \A h \in events : h.seq <= n /\ id \in DOMAIN h.diff => h.seq <= g.seq
      BY <2>2 DEF Shows
    <3>3. e.seq \in Nat /\ g.seq \in Nat /\ e.seq <= g.seq /\ g.seq <= e.seq
      BY <3>1, <3>2, EventShape
    <3>4. e = g
      BY <3>3
    <3> QED
      BY <3>1, <3>2, <3>4
  <2> QED
    BY <2>1, <2>2
<1>2. s1 \in [Ids -> Slot] /\ s2 \in [Ids -> Slot]
    BY DEF Shows, Records
<1> QED
    BY <1>1, <1>2

\* Folding lines that hold every event past the store's seq and no other.
LEMMA ShowsFold ==
    ASSUME NEW events \in SUBSET Event, NEW lines \in Seq(LogLine), NEW s \in Stored, Increasing(lines),
           NEW base, Shows(base, events, SnapSeq(s)), \A id \in Ids : Below(s, id) = base[id],
           NEW n \in Nat, SnapSeq(s) <= n,
           \A i \in Readable(lines) : lines[i] \in events /\ lines[i].seq <= n,
           \A e \in events : SnapSeq(s) < e.seq /\ e.seq <= n => \E i \in Readable(lines) : lines[i] = e
    PROVE  Shows(FoldRecords(lines, s), events, n)
<1> DEFINE base0 == SnapSeq(s)
           fold == FoldRecords(lines, s)
<1>0. base0 \in Nat /\ fold \in Records /\ \A e \in events : e.seq \in Nat
    BY SnapSeqType, FoldType, EventShape
<1>p. Readable(lines) \subseteq Nat
    BY ReadableShape
<1> SUFFICES ASSUME NEW id \in Ids
             PROVE  \/ \E e \in events :
                          /\ e.seq <= n /\ id \in DOMAIN e.diff /\ fold[id] = e.diff[id].to
                          /\ \A g \in events : g.seq <= n /\ id \in DOMAIN g.diff => g.seq <= e.seq
                    \/ fold[id] = Absent /\ \A e \in events : e.seq <= n => id \notin DOMAIN e.diff
    BY <1>0 DEF Shows
<1>1. CASE Touching(lines, s, id) = {}
  <2>1. fold[id] = base[id]
    BY <1>1, FoldUntouched
  <2>2. ASSUME NEW e \in events, e.seq <= n, id \in DOMAIN e.diff PROVE e.seq <= base0
    <3>1. SUFFICES ASSUME base0 < e.seq PROVE FALSE
      BY <1>0
    <3>2. PICK i \in Readable(lines) : lines[i] = e
      BY <2>2, <3>1
    <3>3. i \in Touching(lines, s, id)
      BY <1>0, <2>2, <3>1, <3>2 DEF Touching, TailOf
    <3> QED
      BY <1>1, <3>3
  <2>3. \A e \in events : e.seq <= base0 => e.seq <= n
    BY <1>0
  <2> HIDE DEF fold, base0
  <2>4. CASE base[id] = Absent /\ \A e \in events : e.seq <= base0 => id \notin DOMAIN e.diff
    BY <2>1, <2>2, <2>4
  <2>5. ASSUME NEW e \in events, e.seq <= base0, id \in DOMAIN e.diff, base[id] = e.diff[id].to,
               \A g \in events : g.seq <= base0 /\ id \in DOMAIN g.diff => g.seq <= e.seq
        PROVE  \E f \in events : /\ f.seq <= n /\ id \in DOMAIN f.diff /\ fold[id] = f.diff[id].to
                                 /\ \A g \in events : g.seq <= n /\ id \in DOMAIN g.diff => g.seq <= f.seq
    <3>1. e.seq <= n /\ id \in DOMAIN e.diff /\ fold[id] = e.diff[id].to
      BY <2>1, <2>3, <2>5
    <3>2. \A g \in events : g.seq <= n /\ id \in DOMAIN g.diff => g.seq <= e.seq
      BY <2>2, <2>5
    <3> QED
      BY <3>1, <3>2
  <2> QED
    BY <2>4, <2>5 DEF Shows, base0
<1>2. CASE Touching(lines, s, id) # {}
  <2>1. PICK k \in Touching(lines, s, id) :
           /\ \A i \in Touching(lines, s, id) : i <= k
           /\ fold[id] = lines[k].diff[id].to
    BY <1>2, LastTouch
  <2> DEFINE e == lines[k]
  <2>2. /\ k \in Readable(lines) /\ e \in events /\ e.seq <= n /\ id \in DOMAIN e.diff
        /\ fold[id] = e.diff[id].to /\ e.seq > base0
    BY <2>1 DEF Touching, TailOf
  <2>3. ASSUME NEW g \in events, g.seq <= n, id \in DOMAIN g.diff PROVE g.seq <= e.seq
    <3>1. CASE g.seq <= base0
      BY <1>0, <2>2, <3>1
    <3>2. CASE ~(g.seq <= base0)
      <4>1. base0 < g.seq
        BY <1>0, <3>2
      <4>2. PICK i \in Readable(lines) : lines[i] = g
        BY <2>3, <4>1
      <4>3. i \in Touching(lines, s, id)
        BY <1>0, <2>3, <4>1, <4>2 DEF Touching, TailOf
      <4>4. i <= k /\ i \in Nat /\ k \in Nat
        BY <1>p, <2>1, <2>2, <4>2, <4>3
      <4>5. CASE i = k
        BY <1>0, <2>2, <4>2, <4>5
      <4>6. CASE i < k
        <5>1. lines[i].seq < lines[k].seq
          BY <2>2, <4>2, <4>6 DEF Increasing
        <5> QED
          BY <1>0, <2>2, <4>2, <5>1
      <4> QED
        BY <4>4, <4>5, <4>6
    <3> QED
      BY <3>1, <3>2
  <2> HIDE DEF e, fold
  <2> QED
    BY <2>2, <2>3
<1> QED
    BY <1>1, <1>2

\* One event more, the next one past the store's seq.
LEMMA ShowsNext ==
    ASSUME NEW events \in SUBSET Event, NEW n \in Nat, NEW store, Shows(store, events, n),
           NEW e \in events, n < e.seq, \A g \in events : g.seq <= e.seq => g.seq <= n \/ g = e
    PROVE  Shows(applyDiff(store, e.diff), events, e.seq)
<1> DEFINE after == applyDiff(store, e.diff)
<1>0. /\ \A g \in events : g.seq \in Nat
      /\ DOMAIN e.diff \subseteq Ids /\ \A id \in DOMAIN e.diff : e.diff[id].to \in Slot
    BY EventShape
<1>1. \A id \in Ids : after[id] = IF id \in DOMAIN e.diff THEN e.diff[id].to ELSE store[id]
    BY DEF applyDiff
<1>2. after \in Records
    BY <1>0 DEF applyDiff, Records, Slot, Shows
<1> HIDE DEF after
<1> SUFFICES ASSUME NEW id \in Ids
             PROVE  \/ \E f \in events :
                          /\ f.seq <= e.seq /\ id \in DOMAIN f.diff /\ after[id] = f.diff[id].to
                          /\ \A g \in events : g.seq <= e.seq /\ id \in DOMAIN g.diff => g.seq <= f.seq
                    \/ after[id] = Absent /\ \A f \in events : f.seq <= e.seq => id \notin DOMAIN f.diff
    BY <1>2 DEF Shows, after
<1>3. CASE id \in DOMAIN e.diff
  <2>1. e.seq <= e.seq
    BY <1>0
  <2> QED
    BY <1>1, <1>3, <2>1
<1>4. CASE id \notin DOMAIN e.diff
  <2>1. after[id] = store[id]
    BY <1>1, <1>4
  <2>2. \A g \in events : g.seq <= n => g.seq <= e.seq
    BY <1>0
  <2>3. \A g \in events : g.seq <= e.seq /\ id \in DOMAIN g.diff => g.seq <= n
    BY <1>4
  <2>4. CASE store[id] = Absent /\ \A f \in events : f.seq <= n => id \notin DOMAIN f.diff
    BY <2>1, <2>3, <2>4
  <2>5. ASSUME NEW f \in events, f.seq <= n, id \in DOMAIN f.diff, store[id] = f.diff[id].to,
               \A g \in events : g.seq <= n /\ id \in DOMAIN g.diff => g.seq <= f.seq
        PROVE  /\ f.seq <= e.seq /\ id \in DOMAIN f.diff /\ after[id] = f.diff[id].to
               /\ \A g \in events : g.seq <= e.seq /\ id \in DOMAIN g.diff => g.seq <= f.seq
    BY <2>1, <2>2, <2>3, <2>5
  <2> QED
    BY <2>4, <2>5 DEF Shows
<1> QED
    BY <1>3, <1>4

\* An event past what a store shows changes nothing of it.
LEMMA ShowsMore ==
    ASSUME NEW events, NEW n, NEW store, Shows(store, events, n), NEW e, ~(e.seq <= n)
    PROVE  Shows(store, events \cup {e}, n)
<1> SUFFICES ASSUME NEW id \in Ids
             PROVE  \/ \E f \in events \cup {e} :
                          /\ f.seq <= n /\ id \in DOMAIN f.diff /\ store[id] = f.diff[id].to
                          /\ \A g \in events \cup {e} : g.seq <= n /\ id \in DOMAIN g.diff => g.seq <= f.seq
                    \/ store[id] = Absent /\ \A f \in events \cup {e} : f.seq <= n => id \notin DOMAIN f.diff
    BY DEF Shows
<1>1. CASE store[id] = Absent /\ \A f \in events : f.seq <= n => id \notin DOMAIN f.diff
    BY <1>1
<1>2. ASSUME NEW f \in events, f.seq <= n, id \in DOMAIN f.diff, store[id] = f.diff[id].to,
             \A g \in events : g.seq <= n /\ id \in DOMAIN g.diff => g.seq <= f.seq
      PROVE  \A g \in events \cup {e} : g.seq <= n /\ id \in DOMAIN g.diff => g.seq <= f.seq
    BY <1>2
<1> QED
    BY <1>1, <1>2 DEF Shows

LEMMA EventsAre ==
    ASSUME EngineParts, SeqsIncrease
    PROVE  /\ Events \in SUBSET Event /\ \A e \in Events : e.seq \in 1..MaxSeq /\ e.seq \in Nat /\ e.seq <= Top
           /\ \A e, g \in Events : e.seq = g.seq => e = g
<1>1. \A i \in Readable(log) : log[i] \in Event /\ log[i].seq <= Top /\ i \in Nat
    BY TopType, ReadablePositions
<1>2. ASSUME NEW i \in Readable(log), NEW j \in Readable(log), log[i].seq = log[j].seq PROVE i = j
  <2>1. i \in Nat /\ j \in Nat /\ log[i].seq \in Nat /\ log[j].seq \in Nat
    BY <1>1, TopType
  <2>2. ~(i < j) /\ ~(j < i)
    BY <1>2, <2>1 DEF SeqsIncrease
  <2> QED
    BY <2>1, <2>2
<1>3. Events \in SUBSET Event /\ \A e \in Events : e.seq <= Top
    BY <1>1 DEF Events
<1>4. \A e \in Events : e.seq \in 1..MaxSeq /\ e.seq \in Nat
    BY <1>3, EventShape
<1>5. \A e, g \in Events : e.seq = g.seq => e = g
    BY <1>2 DEF Events
<1> QED
    BY <1>3, <1>4, <1>5

\* The board as of a seq is what the log's events up to there show.
LEMMA AsOfShows ==
    ASSUME EngineParts, SeqsIncrease, NEW n \in Nat
    PROVE  Shows(AsOf(n), Events, n)
<1> DEFINE at == {i \in Readable(log) : log[i].seq <= n}
           lines == LinesAt(log, at)
<1>1. log \in Seq(LogLine) /\ at \in SUBSET Readable(log) /\ Increasing(log) /\ NoSnapshot \in Stored
    BY DEF EngineParts, SeqsIncrease, Increasing, Stored
<1>2. PICK f : Picks(f, lines, log, at) /\ lines \in Seq(LogLine) /\ Readable(lines) = 1..Len(lines)
    BY <1>1, PickedReadable
<1>3. Increasing(lines)
    BY <1>1, SomeIncrease
<1>4. Events \in SUBSET Event /\ \A e \in Events : e.seq \in Nat /\ e.seq >= 1
    BY EventsAre, BoundAssumption
<1>5. SnapSeq(NoSnapshot) = 0 /\ \A id \in Ids : Below(NoSnapshot, id) = NoRecords[id]
    BY DEF SnapSeq, Below, NoRecords
<1>6. Shows(NoRecords, Events, SnapSeq(NoSnapshot))
  <2>1. NoRecords \in Records /\ \A id \in Ids : NoRecords[id] = Absent
    BY DEF NoRecords, Records, Slot
  <2>2. \A e \in Events : ~(e.seq <= 0)
    BY <1>4
  <2> QED
    BY <1>5, <2>1, <2>2 DEF Shows
<1>7. ASSUME NEW i \in Readable(lines) PROVE lines[i] \in Events /\ lines[i].seq <= n
    BY <1>2 DEF Picks, Events
<1>8. ASSUME NEW e \in Events, e.seq <= n PROVE \E i \in Readable(lines) : lines[i] = e
  <2>1. PICK i \in at : log[i] = e
    BY <1>8 DEF Events
  <2>2. PICK k \in 1..Len(lines) : f[k] = i /\ lines[k] = log[f[k]]
    BY <1>2, <2>1 DEF Picks
  <2> QED
    BY <1>2, <2>1, <2>2
<1>9. AsOf(n) = FoldRecords(lines, NoSnapshot)
    BY DEF AsOf
<1> HIDE DEF lines, at
<1>10. Shows(FoldRecords(lines, NoSnapshot), Events, n)
  <2>1. SnapSeq(NoSnapshot) <= n
    BY <1>5
  <2> QED
    BY <1>1, <1>2, <1>3, <1>4, <1>5, <1>6, <1>7, <1>8, <2>1, ShowsFold
<1> QED
    BY <1>9, <1>10

-----------------------------------------------------------------------------
(***************************************************************************)
(* A tab that only reads follows the log, until a compaction cuts it: no   *)
(* page is loaded anew, and KeepTail covers every seq.                     *)
(***************************************************************************)
\* The events in the log change by the one that is committed, or not at all.
LEMMA EventsKept ==
    ASSUME EngineParts, EngineInv, EngineParts', Quietly, KeepTail >= MaxSeq
    PROVE  Events' = Events
<1>1. Events' \subseteq Events
    BY DEF Quietly, NothingNew, Events
<1>2. ASSUME NEW i \in Readable(log) PROVE log[i] \in Events'
  <2>1. log[i] \in Events /\ log[i].seq \in 1..MaxSeq /\ log[i].seq \in Nat
    BY EventsAre DEF Events, EngineInv
  <2>2. Durable(log', snap', log[i].id, log[i].seq)
    BY <2>1 DEF Durable, Quietly, StaysDurable
  <2>3. ~(log[i].seq + KeepTail <= SnapSeq(snap'))
    <3>1. SnapSeq(snap') \in 0..MaxSeq
      BY SnapSeqType DEF EngineParts
    <3> QED
      BY <2>1, <3>1, BoundAssumption
  <2>4. PICK j \in Readable(log') : log'[j].seq = log[i].seq
    BY <2>2, <2>3 DEF Durable
  <2>5. log'[j] \in Events'
    BY DEF Events
  <2>6. log'[j] = log[i]
    BY <1>1, <2>1, <2>4, <2>5, EventsAre DEF EngineInv
  <2> QED
    BY <2>5, <2>6
<1> QED
    BY <1>1, <1>2 DEF Events

LEMMA EventsCommitted ==
    ASSUME EngineParts, EngineInv, NEW e, Committing(e)
    PROVE  Events' = Events \cup {e} /\ e.seq = Top + 1 /\ e \in Event
<1>1. /\ Readable(log') = Readable(log) \cup {Len(log) + 1}
      /\ log'[Len(log) + 1] = e
      /\ \A i \in Readable(log) : log'[i] = log[i]
    BY CommittedTop
<1> QED
    BY <1>1 DEF Events, Committing

LEMMA EventsMove ==
    ASSUME Types, EngineInv, [SyncNext]_vars, KeepTail >= MaxSeq
    PROVE  /\ Unsent => Events' = Events
           /\ CommandSent => \E e : /\ Events' = Events \cup {e} /\ e.seq = Top + 1 /\ e.id = NoId
                                    /\ UNCHANGED <<queue, lastSeq, catchUp>>
                                    /\ Broadcast(e.diff, e.seq, Nil)
           /\ \A t \in Tabs : EventSent(t) =>
                \E e : /\ Events' = Events \cup {e} /\ e.seq = Top + 1
                       /\ queue[t] # <<>> /\ Head(queue[t]) \in EventJob
                       /\ e.id = Head(queue[t]).id /\ e.diff = Head(queue[t]).diff
                       /\ UNCHANGED <<queue, lastSeq, catchUp>>
                       /\ Broadcast(e.diff, e.seq, t)
<1>1. EngineParts /\ EngineParts'
    BY EngineTyped DEF Types
<1>2. Unsent => Events' = Events
    BY <1>1, EventsKept DEF Unsent
<1>3. ASSUME CommandSent
      PROVE  \E e : /\ Events' = Events \cup {e} /\ e.seq = Top + 1 /\ e.id = NoId
                    /\ UNCHANGED <<queue, lastSeq, catchUp>> /\ Broadcast(e.diff, e.seq, Nil)
  <2>1. PICK e : /\ Committing(e) /\ e.id = NoId /\ UNCHANGED <<queue, lastSeq, catchUp>>
                 /\ Broadcast(e.diff, e.seq, Nil)
    BY <1>3 DEF CommandSent
  <2> QED
    BY <1>1, <2>1, EventsCommitted
<1>4. ASSUME NEW t \in Tabs, EventSent(t)
      PROVE  \E e : /\ Events' = Events \cup {e} /\ e.seq = Top + 1
                    /\ queue[t] # <<>> /\ Head(queue[t]) \in EventJob
                    /\ e.id = Head(queue[t]).id /\ e.diff = Head(queue[t]).diff
                    /\ UNCHANGED <<queue, lastSeq, catchUp>>
                    /\ Broadcast(e.diff, e.seq, t)
  <2>1. PICK e : /\ Committing(e) /\ queue[t] # <<>> /\ Head(queue[t]) \in EventJob
                 /\ e.id = Head(queue[t]).id /\ e.diff = Head(queue[t]).diff
                 /\ UNCHANGED <<queue, lastSeq, catchUp>> /\ Broadcast(e.diff, e.seq, t)
    BY <1>4 DEF EventSent
  <2> QED
    BY <1>1, <2>1, EventsCommitted
<1> QED
    BY <1>2, <1>3, <1>4

Readers == Tabs \ Writers

ReadersShow ==
    \A t \in Readers :
        /\ Shows(tstore[t], Events, lastSeq[t]) /\ lastSeq[t] <= Top
        /\ undos[t] = <<>> /\ EventsAt(t) = {}

\* Every frame is of an event of the log.
FramesTrue ==
    \A t \in Tabs : \A k \in DOMAIN bus[t] :
        \E e \in Events : e.seq = bus[t][k].seq /\ e.diff = bus[t][k].diff

\* An event that is sent again is the one the log has under its id.
ResendsTrue ==
    \A t \in Tabs : \A k \in EventsAt(t) : \A e \in Events :
        e.id = queue[t][k].id => e.diff = queue[t][k].diff

\* A reply is in order, and from where it was asked for to its end it holds all there is.
ReplyTrue(reply, since, events) ==
    /\ \A k, l \in DOMAIN reply : k < l => reply[k].seq < reply[l].seq
    /\ \A k \in DOMAIN reply : reply[k] \in events
    /\ \A k \in DOMAIN reply : \A e \in events :
          since < e.seq /\ e.seq <= reply[k].seq => \E j \in DOMAIN reply : reply[j] = e

RepliesTrue ==
    \A t \in Tabs : catchUp[t] # Nil =>
        /\ catchUp[t].since <= lastSeq[t]
        /\ ReplyOnItsWay(t) => ReplyTrue(catchUp[t].reply, catchUp[t].since, Events)

ReadInv == EarnedInv /\ ReadersShow /\ FramesTrue /\ ResendsTrue /\ RepliesTrue

\* Sending again what the ring holds sends what the log holds.
LEMMA ResentIs ==
    ASSUME ReadInv, KeepTail >= MaxSeq, NEW t \in Tabs, NEW k \in EventsAt(t), entry # NoEntry,
           NEW i \in DOMAIN entry.ring, entry.ring[i].id = queue[t][k].id
    PROVE  \E e \in Events : e.seq = entry.ring[i].seq /\ e.diff = queue[t][k].diff
<1>1. EngineParts /\ EngineInv /\ ResendsTrue
    BY DEF ReadInv, EarnedInv, OrderInv, Types
<1>2. Durable(log, snap, entry.ring[i].id, entry.ring[i].seq) /\ entry.ring[i] \in Recorded
    BY <1>1, RingSeqs DEF EngineInv, RingDurable
<1>3. ~(entry.ring[i].seq + KeepTail <= SnapSeq(snap))
  <2>1. SnapSeq(snap) \in 0..MaxSeq /\ entry.ring[i].seq \in 1..MaxSeq
    BY <1>1, <1>2, SnapSeqType DEF EngineParts, Recorded
  <2> QED
    BY <2>1, BoundAssumption
<1>4. PICK j \in Readable(log) : log[j].id = entry.ring[i].id /\ log[j].seq = entry.ring[i].seq
    BY <1>2, <1>3 DEF Durable
<1> QED
    BY <1>1, <1>4 DEF ResendsTrue, Events

\* A broadcast reaches a tab as one more frame, or not at all.
LEMMA FrameSent ==
    ASSUME Types, NEW d, NEW n, NEW except, Broadcast(d, n, except), NEW t \in Tabs, NEW k \in DOMAIN bus'[t]
    PROVE  \/ k \in DOMAIN bus[t] /\ bus'[t][k] = bus[t][k]
           \/ bus'[t][k].diff = d /\ bus'[t][k].seq = n
<1>1. bus[t] \in Seq(Frame)
    BY DEF Types, TabTypes
<1>2. bus'[t] = bus[t] \/ bus'[t] = Append(bus[t], [diff |-> d, seq |-> n])
    BY DEF Broadcast
<1>3. CASE bus'[t] = Append(bus[t], [diff |-> d, seq |-> n])
  <2>1. Len(bus[t]) \in Nat /\ DOMAIN bus[t] = 1..Len(bus[t]) /\ DOMAIN bus'[t] = 1..(Len(bus[t]) + 1)
    BY <1>1, <1>3
  <2>2. CASE k = Len(bus[t]) + 1
    BY <1>1, <1>3, <2>2
  <2>3. CASE k # Len(bus[t]) + 1
    <3>1. k \in DOMAIN bus[t]
      BY <2>1, <2>3
    <3> QED
      BY <1>1, <1>3, <2>1, <3>1
  <2> QED
    BY <2>2, <2>3
<1> QED
    BY <1>2, <1>3

LEMMA EventsGrow ==
    ASSUME Types, EngineInv, [SyncNext]_vars, KeepTail >= MaxSeq
    PROVE  Events \subseteq Events'
BY BoardMoves, EventsMove

LEMMA FramesStep ==
    ASSUME ReadInv, [SyncNext]_vars, KeepTail >= MaxSeq
    PROVE  FramesTrue'
<1>i. Types /\ EngineInv /\ EngineParts /\ FramesTrue /\ TabTypes
    BY DEF ReadInv, EarnedInv, OrderInv, Types
<1>g. Events \subseteq Events'
    BY <1>i, EventsGrow
<1>s. ASSUME NEW d, NEW n, NEW except, Broadcast(d, n, except), \E e \in Events' : e.seq = n /\ e.diff = d
      PROVE  FramesTrue'
  <2> SUFFICES ASSUME NEW t \in Tabs, NEW k \in DOMAIN bus'[t]
               PROVE  \E e \in Events' : e.seq = bus'[t][k].seq /\ e.diff = bus'[t][k].diff
    BY DEF FramesTrue
  <2>1. \/ k \in DOMAIN bus[t] /\ bus'[t][k] = bus[t][k]
        \/ bus'[t][k].diff = d /\ bus'[t][k].seq = n
    BY <1>i, <1>s, FrameSent
  <2> QED
    BY <1>i, <1>g, <1>s, <2>1 DEF FramesTrue
<1>1. ASSUME NEW w \in OneWrite, Command(w) PROVE FramesTrue'
  <2>1. PICK e : Committing(e) /\ Broadcast(e.diff, e.seq, Nil)
    BY <1>1, <1>i, CommandPosted
  <2>2. e \in Events'
    BY <1>i, <2>1, EventsCommitted
  <2> QED
    BY <1>s, <2>1, <2>2
<1>2. ASSUME NEW t \in Tabs, PostEvent(t) PROVE FramesTrue'
  <2> DEFINE job == Head(queue[t])
  <2>1. PICK seq \in 1..MaxSeq :
           /\ job \in EventJob /\ queue[t] # <<>>
           /\ Broadcast(job.diff, seq, t)
           /\ \/ /\ UNCHANGED engineVars /\ entry # NoEntry
                 /\ \E i \in DOMAIN entry.ring : entry.ring[i].id = job.id /\ entry.ring[i].seq = seq
              \/ \E e : Committing(e) /\ e.id = job.id /\ e.diff = job.diff /\ e.seq = seq
    BY <1>2, <1>i, EventPosted
  <2>2. 1 \in EventsAt(t) /\ queue[t][1] = job
    BY <1>i, <2>1, HeadQueued
  <2> HIDE DEF job
  <2>3. \E e \in Events' : e.seq = seq /\ e.diff = job.diff
    <3>1. ASSUME NEW e, Committing(e), e.diff = job.diff, e.seq = seq
          PROVE  \E f \in Events' : f.seq = seq /\ f.diff = job.diff
      BY <1>i, <3>1, EventsCommitted
    <3>2. ASSUME entry # NoEntry, NEW i \in DOMAIN entry.ring, entry.ring[i].id = job.id, entry.ring[i].seq = seq
          PROVE  \E f \in Events' : f.seq = seq /\ f.diff = job.diff
      <4>1. \E f \in Events : f.seq = entry.ring[i].seq /\ f.diff = queue[t][1].diff
        BY <2>2, <3>2, ResentIs
      <4> QED
        BY <1>g, <2>2, <3>2, <4>1
    <3> QED
      BY <2>1, <3>1, <3>2
  <2>4. \A d : d = job.diff => Broadcast(d, seq, t)
    BY <2>1 DEF Broadcast
  <2> QED
    BY <1>s, <2>3, <2>4
<1>3. ASSUME NEW t \in Tabs, bus[t] # <<>>, bus' = [bus EXCEPT ![t] = Tail(@)] PROVE FramesTrue'
  <2>1. bus[t] \in Seq(Frame) /\ bus'[t] = Tail(bus[t]) /\ \A u \in Tabs \ {t} : bus'[u] = bus[u]
    BY <1>3, <1>i DEF TabTypes
  <2>2. \A k \in DOMAIN Tail(bus[t]) : k + 1 \in DOMAIN bus[t] /\ Tail(bus[t])[k] = bus[t][k + 1]
    BY <1>3, <2>1
  <2>3. ASSUME NEW u \in Tabs, NEW k \in DOMAIN bus'[u]
        PROVE  \E l \in DOMAIN bus[u] : bus'[u][k] = bus[u][l]
    BY <2>1, <2>2
  <2> QED
    BY <1>i, <1>g, <2>3 DEF FramesTrue
<1>4. ASSUME \A t \in Tabs : bus'[t] = bus[t] \/ bus'[t] = <<>> PROVE FramesTrue'
    BY <1>4, <1>i, <1>g DEF FramesTrue
<1>5. \/ \E w \in OneWrite : Command(w)
      \/ \E t \in Tabs : PostEvent(t)
      \/ \E t \in Tabs : bus[t] # <<>> /\ bus' = [bus EXCEPT ![t] = Tail(@)]
      \/ \A t \in Tabs : bus'[t] = bus[t] \/ bus'[t] = <<>>
    BY <1>i DEF SyncNext, Edit, Undo, SnapshotTimer, Ack, LoseAck, PostSnapshot, Receive, ServeCatchUp,
       FoldCatchUp, Drop, Connect, Reload, OtherBoot, ServerRestarts, vars, tabVars, TabTypes
<1> QED
    BY <1>1, <1>2, <1>3, <1>4, <1>5

LEMMA ResendsStep ==
    ASSUME ReadInv, [SyncNext]_vars, KeepTail >= MaxSeq
    PROVE  ResendsTrue'
<1>i. Types /\ EngineInv /\ EngineParts /\ Fresh /\ MintedOnce /\ QueuedOnce /\ ResendsTrue
    BY DEF ReadInv, EarnedInv, OrderInv, Types
<1>o. ASSUME Events' \subseteq Events,
             \A u \in Tabs : \A k \in EventsAt(u)' :
                (\E l \in EventsAt(u) : queue'[u][k] = queue[u][l]) \/ queue'[u][k].id \notin Logged
      PROVE  ResendsTrue'
  <2> SUFFICES ASSUME NEW u \in Tabs, NEW k \in EventsAt(u)', NEW e \in Events', e.id = queue'[u][k].id
               PROVE  e.diff = queue'[u][k].diff
    BY DEF ResendsTrue
  <2>1. e \in Events /\ e.id \in Logged
    BY <1>o DEF Events, Logged
  <2>2. PICK l \in EventsAt(u) : queue'[u][k] = queue[u][l]
    BY <1>o, <2>1
  <2> QED
    BY <1>i, <2>1, <2>2 DEF ResendsTrue
<1>u. Unsent => Events' \subseteq Events
    BY <1>i, EventsMove
<1>e. engineVars' = engineVars => Events' = Events
    BY DEF engineVars, Events, Readable
<1>1. ASSUME NEW t \in Tabs, EditMove(t) PROVE ResendsTrue'
  <2>1. PICK id, job : /\ id \in EventIds \ Minted /\ job \in EventJob /\ job \in Job /\ job.id = id
                       /\ Enqueue(t, job) /\ engineVars' = engineVars
    BY <1>1 DEF EditMove
  <2> DEFINE n == Len(queue[t])
  <2>2. /\ \A u \in Tabs \ {t} : queue'[u] = queue[u] /\ EventsAt(u)' = EventsAt(u)
        /\ EventsAt(t)' = EventsAt(t) \cup {n + 1}
        /\ \A k \in EventsAt(t) : queue'[t][k] = queue[t][k]
        /\ queue'[t][n + 1] = job
    BY <1>i, <2>1, EventsMore
  <2> HIDE DEF n
  <2>3. id \notin Logged
    BY <1>i, <2>1, NoIdAssumption DEF Fresh
  <2>4. ASSUME NEW u \in Tabs, NEW k \in EventsAt(u)'
        PROVE  (\E l \in EventsAt(u) : queue'[u][k] = queue[u][l]) \/ queue'[u][k].id \notin Logged
    <3>1. CASE u = t /\ k = n + 1
      BY <2>1, <2>2, <2>3, <3>1
    <3>2. CASE ~(u = t /\ k = n + 1)
      BY <2>2, <2>4, <3>2
    <3> QED
      BY <3>1, <3>2
  <2> QED
    BY <1>o, <1>e, <2>1, <2>4
<1>2. ASSUME NEW t \in Tabs, SnapshotMove(t) PROVE ResendsTrue'
  <2>1. PICK job \in Snapshot : job \in Job /\ Enqueue(t, job) /\ engineVars' = engineVars
    BY <1>2 DEF SnapshotMove
  <2>2. /\ \A u \in Tabs \ {t} : queue'[u] = queue[u] /\ EventsAt(u)' = EventsAt(u)
        /\ EventsAt(t)' = EventsAt(t)
        /\ \A k \in EventsAt(t) : queue'[t][k] = queue[t][k]
    BY <1>i, <2>1, EventsMore
  <2>3. \A u \in Tabs : \A k \in EventsAt(u)' : \E l \in EventsAt(u) : queue'[u][k] = queue[u][l]
    BY <2>2
  <2> QED
    BY <1>o, <1>e, <2>1, <2>3
<1>3. ASSUME NEW t \in Tabs, DoneMove(t) PROVE ResendsTrue'
  <2>1. /\ \A u \in Tabs \ {t} : queue'[u] = queue[u] /\ EventsAt(u)' = EventsAt(u)
        /\ \A k \in EventsAt(t)' : k + 1 \in EventsAt(t) /\ queue'[t][k] = queue[t][k + 1]
    BY <1>3, <1>i, EventsLess DEF DoneMove
  <2>2. \A u \in Tabs : \A k \in EventsAt(u)' : \E l \in EventsAt(u) : queue'[u][k] = queue[u][l]
    BY <2>1
  <2> QED
    BY <1>o, <1>u, <1>3, <2>2 DEF DoneMove
<1>4. ASSUME NEW t \in Tabs, ReloadMove(t) PROVE ResendsTrue'
  <2>1. EventsAt(t)' = {} /\ \A u \in Tabs \ {t} : queue'[u] = queue[u] /\ EventsAt(u)' = EventsAt(u)
    BY <1>4, <1>i, ReloadedIds DEF ReloadMove
  <2> QED
    BY <1>o, <1>u, <1>4, <2>1 DEF ReloadMove
<1>5. ASSUME UNCHANGED <<queue, minted>> PROVE ResendsTrue'
  <2>1. \A u \in Tabs : EventsAt(u)' = EventsAt(u) /\ queue'[u] = queue[u]
    BY <1>5 DEF EventsAt
  <2>2. CASE Unsent
    BY <1>o, <1>u, <2>1, <2>2
  <2>n. ASSUME NEW e, Events' = Events \cup {e},
               \A u \in Tabs : \A k \in EventsAt(u) : e.id = queue[u][k].id => e.diff = queue[u][k].diff
        PROVE  ResendsTrue'
    BY <1>i, <2>1, <2>n DEF ResendsTrue
  <2>3. CASE CommandSent
    <3>1. \A u \in Tabs : \A k \in EventsAt(u) : queue[u][k].id # NoId
      BY <1>i, NoIdAssumption, QueuedTyped
    <3>2. PICK e : Events' = Events \cup {e} /\ e.id = NoId
      BY <1>i, <2>3, EventsMove
    <3> QED
      BY <2>n, <3>1, <3>2
  <2>4. ASSUME NEW t \in Tabs, EventSent(t) PROVE ResendsTrue'
    <3>1. PICK e : /\ Events' = Events \cup {e} /\ queue[t] # <<>> /\ Head(queue[t]) \in EventJob
                   /\ e.id = Head(queue[t]).id /\ e.diff = Head(queue[t]).diff
      BY <1>i, <2>4, EventsMove
    <3>2. 1 \in EventsAt(t) /\ queue[t][1] = Head(queue[t]) /\ Head(queue[t]).id \in Range(minted[t])
      BY <1>i, <3>1, HeadQueued DEF Fresh
    <3>3. ASSUME NEW u \in Tabs, NEW k \in EventsAt(u), queue[u][k].id = e.id PROVE e.diff = queue[u][k].diff
      <4>1. CASE u = t
        <5>1. k = 1
          BY <1>i, <3>1, <3>2, <3>3, <4>1 DEF QueuedOnce
        <5> QED
          BY <3>1, <3>2, <4>1, <5>1
      <4>2. CASE u # t
        <5>1. queue[u][k].id \in Range(minted[u])
          BY <1>i, QueuedIdsAre DEF Fresh
        <5>2. PICK i \in DOMAIN minted[u], j \in DOMAIN minted[t] : minted[u][i] = e.id /\ minted[t][j] = e.id
          BY <3>1, <3>2, <3>3, <5>1 DEF Range
        <5> QED
          BY <1>i, <4>2, <5>2 DEF MintedOnce
      <4> QED
        BY <4>1, <4>2
    <3> QED
      BY <2>n, <3>1, <3>3
  <2> QED
    BY <1>i, <2>2, <2>3, <2>4, BoardMoves
<1> QED
    BY <1>i, <1>1, <1>2, <1>3, <1>4, <1>5, TabMoves

\* What a server answers to a catch-up.
LEMMA ServedTrue ==
    ASSUME EngineParts, SeqsIncrease, NEW w \in Nat
    PROVE  /\ ReplyTrue(EventsSince(w), w, Events)
           /\ \A e \in Events : w < e.seq => \E k \in DOMAIN EventsSince(w) : EventsSince(w)[k] = e
<1> DEFINE at == {i \in Readable(log) : log[i].seq > w}
           out == LinesAt(log, at)
<1>1. log \in Seq(LogLine) /\ at \in SUBSET Readable(log) /\ Increasing(log)
    BY DEF EngineParts, SeqsIncrease, Increasing
<1>2. PICK f : Picks(f, out, log, at) /\ out \in Seq(LogLine) /\ Readable(out) = 1..Len(out)
    BY <1>1, PickedReadable
<1>3. Increasing(out) /\ DOMAIN out = 1..Len(out)
    BY <1>1, <1>2, SomeIncrease
<1>4. \A k \in DOMAIN out : out[k] \in Events
    BY <1>2, <1>3 DEF Picks, Events
<1>5. ASSUME NEW e \in Events, w < e.seq PROVE \E j \in DOMAIN out : out[j] = e
  <2>1. PICK i \in Readable(log) : log[i] = e
    BY DEF Events
  <2>2. e.seq \in Nat
    BY EventsAre
  <2>3. i \in at
    BY <1>5, <2>1, <2>2
  <2>4. PICK k \in 1..Len(out) : f[k] = i /\ out[k] = log[f[k]]
    BY <1>2, <2>3 DEF Picks
  <2> QED
    BY <1>3, <2>1, <2>4
<1>6. EventsSince(w) = out
    BY DEF EventsSince
<1> HIDE DEF out
<1> QED
    BY <1>2, <1>3, <1>4, <1>5, <1>6 DEF ReplyTrue, Increasing

\* A reply stays true of a log that grows past it.
LEMMA ReplyStays ==
    ASSUME NEW reply, NEW since, NEW top \in Nat, NEW events,
           \A e \in events : e.seq \in Nat /\ e.seq <= top,
           ReplyTrue(reply, since, events), NEW e, e.seq = top + 1
    PROVE  ReplyTrue(reply, since, events \cup {e})
<1>1. \A k \in DOMAIN reply : reply[k] \in events /\ ~(e.seq <= reply[k].seq)
    BY DEF ReplyTrue
<1> QED
    BY <1>1 DEF ReplyTrue

\* What a tab missed, of a reply that is true: every event past its watermark, up to the last.
LEMMA MissedTrue ==
    ASSUME Types, NEW t \in Tabs, ReplyOnItsWay(t), catchUp[t].since <= lastSeq[t], NEW events \in SUBSET Event,
           ReplyTrue(catchUp[t].reply, catchUp[t].since, events), Missed(t) # <<>>
    PROVE  /\ Readable(Missed(t)) = 1..Len(Missed(t)) /\ Increasing(Missed(t))
           /\ Last(Missed(t)).seq \in Nat /\ lastSeq[t] < Last(Missed(t)).seq
           /\ \A i \in Readable(Missed(t)) : Missed(t)[i] \in events /\ Missed(t)[i].seq <= Last(Missed(t)).seq
           /\ \A e \in events : lastSeq[t] < e.seq /\ e.seq <= Last(Missed(t)).seq =>
                 \E i \in Readable(Missed(t)) : Missed(t)[i] = e
<1> DEFINE reply == catchUp[t].reply
           at == {i \in DOMAIN reply : reply[i].seq > lastSeq[t]}
           out == Missed(t)
           n == Len(out)
<1>1. /\ out \in Seq(Event) /\ n \in 1..n /\ n \in Nat /\ Last(out) = out[n] /\ Last(out).seq \in 1..MaxSeq
      /\ DOMAIN out = 1..n
    BY MissedType, LenProperties
<1>2. PICK f : Picks(f, out, reply, at)
    BY MissedIs
<1>3. /\ catchUp[t].since \in Nat /\ lastSeq[t] \in Nat /\ reply \in Seq(Event) /\ at \subseteq DOMAIN reply
      /\ DOMAIN reply = 1..Len(reply) /\ Last(out).seq \in Nat /\ \A e \in events : e.seq \in Nat
    BY <1>1, ReplyType, EventShape, BoundAssumption DEF Types, TabTypes
<1>w. catchUp[t].since <= lastSeq[t] /\ ReplyTrue(reply, catchUp[t].since, events)
    OBVIOUS
<1>a. \A i \in at : i \in DOMAIN reply /\ reply[i].seq > lastSeq[t]
    OBVIOUS
<1>b. \A i \in DOMAIN reply : reply[i].seq > lastSeq[t] => i \in at
    OBVIOUS
<1> HIDE DEF out, n, at, reply
<1>4. Readable(out) = 1..n
  <2>1. ASSUME NEW k \in 1..n PROVE out[k] \in Event
    BY <1>1, ElementOfSeq DEF n
  <2> QED
    BY <1>1, <2>1, MarkerAssumption DEF Readable
<1>5. \A k \in 1..n : out[k] = reply[f[k]] /\ f[k] \in at /\ out[k] \in events /\ out[k].seq > lastSeq[t]
    BY <1>2, <1>a, <1>w DEF Picks, ReplyTrue, n
<1>6. \A k, l \in 1..n : k < l => out[k].seq < out[l].seq
    BY <1>2, <1>5, <1>a, <1>w DEF Picks, ReplyTrue, n
<1>7. ASSUME NEW k \in 1..n PROVE out[k].seq <= Last(out).seq
  <2>1. out[k].seq \in Nat /\ k <= n /\ k \in Nat
    BY <1>1, <1>3, <1>5
  <2>2. CASE k = n
    BY <1>1, <2>1, <2>2
  <2>3. CASE k < n
    BY <1>1, <1>3, <1>6, <2>1, <2>3
  <2> QED
    BY <1>1, <2>1, <2>2, <2>3
<1>8. ASSUME NEW e \in events, lastSeq[t] < e.seq, e.seq <= Last(out).seq PROVE \E i \in 1..n : out[i] = e
  <2>1. f[n] \in DOMAIN reply /\ reply[f[n]] = Last(out)
    BY <1>1, <1>5, <1>a
  <2>2. catchUp[t].since < e.seq
    BY <1>3, <1>8, <1>w
  <2>3. PICK j \in DOMAIN reply : reply[j] = e
    BY <1>8, <1>w, <2>1, <2>2 DEF ReplyTrue
  <2>4. j \in at
    BY <1>3, <1>8, <1>b, <2>3
  <2>5. PICK i \in 1..n : f[i] = j
    BY <1>2, <2>4 DEF Picks, n
  <2> QED
    BY <1>5, <2>3, <2>5
<1>9. lastSeq[t] < Last(out).seq
    BY <1>1, <1>3, <1>5
<1> QED
    BY <1>1, <1>3, <1>4, <1>5, <1>6, <1>7, <1>8, <1>9 DEF Increasing, out, n

LEMMA WatermarksRise ==
    ASSUME ReadInv, [SyncNext]_vars, "reload" \notin Hazards
    PROVE  \A t \in Tabs : lastSeq[t] <= lastSeq'[t]
<1>i. Types /\ EngineParts /\ SeqsIncrease /\ RepliesTrue /\ TabTypes
    BY DEF ReadInv, EarnedInv, OrderInv, EngineInv, Types
<1>n. \A t \in Tabs : lastSeq[t] \in Nat
    BY <1>i, BoundAssumption DEF TabTypes
<1>o. ASSUME NEW t \in Tabs, NEW n, lastSeq' = [lastSeq EXCEPT ![t] = n], lastSeq[t] <= n
      PROVE  \A u \in Tabs : lastSeq[u] <= lastSeq'[u]
    BY <1>i, <1>n, <1>o DEF TabTypes
<1>1. ASSUME NEW t \in Writers, NEW w \in OneWrite, Edit(t, w) PROVE \A u \in Tabs : lastSeq[u] <= lastSeq'[u]
  <2>1. t \in Tabs /\ lastSeq' = [lastSeq EXCEPT ![t] = lastSeq[t] + 1]
    BY <1>1, TabsAssumption DEF Edit
  <2> QED
    BY <1>o, <1>n, <2>1
<1>2. ASSUME NEW t \in Tabs, Ack(t) PROVE \A u \in Tabs : lastSeq[u] <= lastSeq'[u]
  <2>1. lastSeq' = [lastSeq EXCEPT ![t] = Max2(lastSeq[t], answer[t])] /\ answer[t] \in Nat
    BY <1>2, <1>i, BoundAssumption DEF Ack, TabTypes
  <2> QED
    BY <1>o, <1>n, <2>1 DEF Max2
<1>3. ASSUME NEW t \in Tabs, Receive(t) PROVE \A u \in Tabs : lastSeq[u] <= lastSeq'[u]
  <2>1. bus[t] # <<>> /\ bus[t] \in Seq(Frame)
    BY <1>3, <1>i DEF Receive, TabTypes
  <2>2. Head(bus[t]) \in Frame
    BY <2>1
  <2>3. Head(bus[t]).seq \in Nat
    BY <2>2, BoundAssumption DEF Frame
  <2>4. CASE classifyInbound(Head(bus[t]).seq, lastSeq[t]) = "next"
    <3>1. lastSeq' = [lastSeq EXCEPT ![t] = Head(bus[t]).seq]
      BY <1>3, <2>4 DEF Receive
    <3>2. lastSeq[t] <= Head(bus[t]).seq
      BY <1>n, <2>3, <2>4 DEF classifyInbound
    <3> QED
      BY <1>o, <3>1, <3>2
  <2>5. CASE classifyInbound(Head(bus[t]).seq, lastSeq[t]) # "next"
    BY <1>3, <1>n, <2>5 DEF Receive
  <2> QED
    BY <2>4, <2>5
<1>4. ASSUME NEW t \in Tabs, FoldCatchUp(t) PROVE \A u \in Tabs : lastSeq[u] <= lastSeq'[u]
  <2>1. /\ ReplyOnItsWay(t)
        /\ \/ lastSeq' = lastSeq
           \/ Missed(t) # <<>> /\ lastSeq' = [lastSeq EXCEPT ![t] = Last(Missed(t)).seq]
    BY <1>4 DEF FoldCatchUp, Missed
  <2>2. catchUp[t].since <= lastSeq[t] /\ ReplyTrue(catchUp[t].reply, catchUp[t].since, Events)
    BY <1>i, <2>1 DEF RepliesTrue, ReplyOnItsWay
  <2>3. Events \in SUBSET Event
    BY <1>i, EventsAre
  <2>4. ASSUME Missed(t) # <<>> PROVE lastSeq[t] <= Last(Missed(t)).seq
    <3>1. lastSeq[t] < Last(Missed(t)).seq /\ Last(Missed(t)).seq \in Nat
      BY <1>i, <2>1, <2>2, <2>3, <2>4, MissedTrue
    <3> QED
      BY <1>n, <3>1
  <2> QED
    BY <1>o, <1>n, <2>1, <2>4
<1>5. \/ lastSeq' = lastSeq
      \/ \E t \in Tabs : Ack(t) \/ Receive(t) \/ FoldCatchUp(t)
      \/ \E t \in Writers, w \in OneWrite : Edit(t, w)
    BY DEF SyncNext, Undo, SnapshotTimer, LoseAck, PostEvent, PostSnapshot, ServeCatchUp, Drop, Connect, Reload,
           Command, OtherBoot, ServerRestarts, vars, tabVars
<1> QED
    BY <1>1, <1>2, <1>3, <1>4, <1>5, <1>n

LEMMA RepliesStep ==
    ASSUME ReadInv, [SyncNext]_vars, "reload" \notin Hazards, KeepTail >= MaxSeq
    PROVE  RepliesTrue'
<1>i. Types /\ EngineInv /\ EngineParts /\ SeqsIncrease /\ RepliesTrue /\ TabTypes
    BY DEF ReadInv, EarnedInv, OrderInv, EngineInv, Types
<1>n. \A t \in Tabs : lastSeq[t] \in Nat /\ lastSeq'[t] \in Nat /\ lastSeq[t] <= lastSeq'[t]
  <2>1. Types' /\ \A t \in Tabs : lastSeq[t] <= lastSeq'[t]
    BY <1>i, TypesStep, WatermarksRise
  <2> QED
    BY <1>i, <2>1, BoundAssumption DEF Types, TabTypes
<1>e. Events \in SUBSET Event /\ \A e \in Events : e.seq \in Nat /\ e.seq <= Top
    BY <1>i, EventsAre
<1>v. engineVars' = engineVars => Events' = Events
    BY DEF engineVars, Events, Readable
\* What was true of a tab's catch-up and is left alone stays true.
<1>k. ASSUME NEW t \in Tabs, catchUp'[t] = catchUp[t], catchUp[t] # Nil
      PROVE  /\ catchUp'[t].since <= lastSeq'[t]
             /\ ReplyOnItsWay(t)' => ReplyTrue(catchUp'[t].reply, catchUp'[t].since, Events')
  <2>1. catchUp[t] \in CatchUp /\ catchUp[t].since \in Nat /\ catchUp[t].since <= lastSeq[t]
    BY <1>i, <1>k DEF TabTypes, CatchUp, RepliesTrue
  <2>2. catchUp'[t].since <= lastSeq'[t]
    BY <1>k, <1>n, <2>1
  <2>3. ASSUME ReplyOnItsWay(t)' PROVE ReplyTrue(catchUp[t].reply, catchUp[t].since, Events')
    <3>1. ReplyTrue(catchUp[t].reply, catchUp[t].since, Events)
      BY <1>i, <1>k, <2>3 DEF RepliesTrue, ReplyOnItsWay
    <3>2. CASE Events' = Events
      BY <3>1, <3>2
    <3>3. ASSUME NEW e, Events' = Events \cup {e}, e.seq = Top + 1
          PROVE  ReplyTrue(catchUp[t].reply, catchUp[t].since, Events')
      <4>1. ReplyTrue(catchUp[t].reply, catchUp[t].since, Events \cup {e})
        BY <1>e, <1>i, <3>1, <3>3, TopType, ReplyStays
      <4> QED
        BY <3>3, <4>1
    <3>4. Events' = Events \/ \E e : Events' = Events \cup {e} /\ e.seq = Top + 1
      BY <1>i, BoardMoves, EventsMove
    <3> QED
      BY <3>2, <3>3, <3>4
  <2> QED
    BY <1>k, <2>2, <2>3
\* A catch-up that asks has no answer yet.
<1>a. ASSUME NEW t \in Tabs, NEW n \in Nat, catchUp'[t] = [since |-> n, reply |-> Nil], n <= lastSeq'[t]
      PROVE  catchUp'[t].since <= lastSeq'[t] /\ ~ReplyOnItsWay(t)'
    BY <1>a DEF ReplyOnItsWay
<1>o. ASSUME NEW t \in Tabs, \A u \in Tabs \ {t} : catchUp'[u] = catchUp[u],
             catchUp'[t] # Nil => /\ catchUp'[t].since <= lastSeq'[t]
                                  /\ ReplyOnItsWay(t)' => ReplyTrue(catchUp'[t].reply, catchUp'[t].since, Events')
      PROVE  RepliesTrue'
    BY <1>k, <1>o DEF RepliesTrue
<1>1. ASSUME NEW t \in Tabs, StartCatchUp(t) PROVE RepliesTrue'
  <2>1. /\ \A u \in Tabs \ {t} : catchUp'[u] = catchUp[u]
        /\ catchUp'[t] = IF catchUp[t] = Nil THEN [since |-> lastSeq[t], reply |-> Nil] ELSE catchUp[t]
    BY <1>1, <1>i DEF StartCatchUp, TabTypes
  <2>2. CASE catchUp[t] = Nil
    BY <1>a, <1>n, <1>o, <2>1, <2>2
  <2>3. CASE catchUp[t] # Nil
    BY <1>k, <1>o, <2>1, <2>3
  <2> QED
    BY <2>2, <2>3
<1>2. ASSUME NEW t \in Tabs, ServeCatchUp(t) PROVE RepliesTrue'
  <2>1. /\ \A u \in Tabs \ {t} : catchUp'[u] = catchUp[u]
        /\ catchUp'[t] = [since |-> catchUp[t].since, reply |-> EventsSince(catchUp[t].since)]
        /\ engineVars' = engineVars /\ lastSeq' = lastSeq /\ catchUp[t] # Nil
    BY <1>2, <1>i DEF ServeCatchUp, TabTypes
  <2>2. catchUp[t].since \in Nat /\ catchUp[t].since <= lastSeq[t]
    BY <1>i, <2>1 DEF TabTypes, CatchUp, RepliesTrue
  <2>3. ReplyTrue(EventsSince(catchUp[t].since), catchUp[t].since, Events)
    BY <1>i, <2>2, ServedTrue
  <2>4. ReplyTrue(catchUp'[t].reply, catchUp'[t].since, Events')
    BY <1>v, <2>1, <2>3
  <2> QED
    BY <1>o, <2>1, <2>2, <2>4
<1>3. ASSUME NEW t \in Tabs, FoldCatchUp(t) PROVE RepliesTrue'
  <2>1. ReplyOnItsWay(t)
    BY <1>3 DEF FoldCatchUp
  <2>2. CASE Missed(t) = <<>>
    <3>1. catchUp' = [catchUp EXCEPT ![t] = Nil]
      BY <1>3, <2>2 DEF FoldCatchUp, Missed
    <3>2. catchUp'[t] = Nil /\ \A u \in Tabs \ {t} : catchUp'[u] = catchUp[u]
      BY <1>i, <3>1 DEF TabTypes
    <3> QED
      BY <1>o, <3>2
  <2>3. CASE Missed(t) # <<>>
    <3> DEFINE n == Last(Missed(t)).seq
    <3>1. lastSeq' = [lastSeq EXCEPT ![t] = n] /\ catchUp' = [catchUp EXCEPT ![t] = [since |-> n, reply |-> Nil]]
      BY <1>3, <2>3 DEF FoldCatchUp, Missed
    <3>2. n \in Nat
      BY <1>i, <2>1, <2>3, MissedType, BoundAssumption
    <3> HIDE DEF n
    <3>3. /\ catchUp'[t] = [since |-> n, reply |-> Nil] /\ lastSeq'[t] = n
          /\ \A u \in Tabs \ {t} : catchUp'[u] = catchUp[u]
      BY <1>i, <3>1 DEF TabTypes
    <3>4. n <= lastSeq'[t]
      BY <3>2, <3>3
    <3> QED
      BY <1>a, <1>o, <3>2, <3>3, <3>4
  <2> QED
    BY <2>2, <2>3
<1>4. ASSUME catchUp' = catchUp PROVE RepliesTrue'
    BY <1>4, <1>k DEF RepliesTrue
<1>5. \/ catchUp' = catchUp
      \/ \E t \in Tabs : StartCatchUp(t) \/ ServeCatchUp(t) \/ FoldCatchUp(t)
    BY DEF SyncNext, Edit, Undo, SnapshotTimer, PostEvent, Ack, LoseAck, PostSnapshot, Receive, Drop, Connect, Reload,
           Command, OtherBoot, ServerRestarts, vars, tabVars
<1> QED
    BY <1>1, <1>2, <1>3, <1>4, <1>5

\* What a step does to a tab that only reads: a frame that is next, a catch-up, or nothing to its store.
LEMMA ReaderMoves ==
    ASSUME ReadInv, [SyncNext]_vars, "reload" \notin Hazards, NEW t \in Readers
    PROVE  /\ undos'[t] = <<>> /\ EventsAt(t)' = {}
           /\ \/ tstore'[t] = tstore[t] /\ lastSeq'[t] = lastSeq[t]
              \/ /\ engineVars' = engineVars
                 /\ bus[t] # <<>> /\ classifyInbound(Head(bus[t]).seq, lastSeq[t]) = "next"
                 /\ tstore'[t] = applyDiff(tstore[t], Head(bus[t]).diff) /\ lastSeq'[t] = Head(bus[t]).seq
              \/ /\ engineVars' = engineVars
                 /\ ReplyOnItsWay(t) /\ Missed(t) # <<>>
                 /\ tstore'[t] = FoldRecords(Missed(t), [records |-> tstore[t], seq |-> lastSeq[t]])
                 /\ lastSeq'[t] = Last(Missed(t)).seq
<1>i. Types /\ TabTypes /\ EngineInv /\ ReadersShow
    BY DEF ReadInv, EarnedInv, OrderInv, Types
<1>t. t \in Tabs /\ t \notin Writers /\ undos[t] = <<>> /\ EventsAt(t) = {}
    BY <1>i DEF Readers, ReadersShow
<1>a. answer[t] = Nil
    BY <1>i, <1>t, HeadQueued DEF Types, Answering
<1>1. undos'[t] = <<>>
    BY <1>i, <1>t DEF SyncNext, Edit, Undo, SnapshotTimer, PostEvent, Ack, LoseAck, PostSnapshot, Receive, ServeCatchUp,
       FoldCatchUp, Drop, Connect, Reload, Command, OtherBoot, ServerRestarts, vars, tabVars, TabTypes
<1>2. EventsAt(t)' = {}
  <2>1. ASSUME NEW u \in Tabs, EditMove(u) PROVE EventsAt(t)' = {}
    <3>1. EventsAt(t)' = EventsAt(t)
      BY <1>i, <1>t, <2>1, EventsMore DEF EditMove
    <3> QED
      BY <1>t, <3>1
  <2>2. ASSUME NEW u \in Tabs, SnapshotMove(u) PROVE EventsAt(t)' = {}
    <3>1. EventsAt(t)' = EventsAt(t)
      BY <1>i, <1>t, <2>2, EventsMore DEF SnapshotMove
    <3> QED
      BY <1>t, <3>1
  <2>3. ASSUME NEW u \in Tabs, DoneMove(u) PROVE EventsAt(t)' = {}
    <3>1. CASE u = t
      <4>1. \A k \in EventsAt(t)' : k + 1 \in EventsAt(t)
        BY <1>i, <2>3, <3>1, EventsLess DEF DoneMove
      <4> QED
        BY <1>t, <4>1
    <3>2. CASE u # t
      <4>1. EventsAt(t)' = EventsAt(t)
        BY <1>i, <1>t, <2>3, <3>2, EventsLess DEF DoneMove
      <4> QED
        BY <1>t, <4>1
    <3> QED
      BY <3>1, <3>2
  <2>4. ASSUME NEW u \in Tabs, ReloadMove(u) PROVE EventsAt(t)' = {}
    <3>1. EventsAt(t)' = {} \/ EventsAt(t)' = EventsAt(t)
      BY <1>i, <1>t, <2>4, ReloadedIds DEF ReloadMove
    <3> QED
      BY <1>t, <3>1
  <2>5. ASSUME UNCHANGED queue PROVE EventsAt(t)' = {}
    BY <1>t, <2>5 DEF EventsAt
  <2> QED
    BY <1>i, <2>1, <2>2, <2>3, <2>4, <2>5, TabMoves
<1> DEFINE Kept == tstore'[t] = tstore[t] /\ lastSeq'[t] = lastSeq[t]
           Moved == \/ Kept
                    \/ /\ engineVars' = engineVars
                       /\ bus[t] # <<>> /\ classifyInbound(Head(bus[t]).seq, lastSeq[t]) = "next"
                       /\ tstore'[t] = applyDiff(tstore[t], Head(bus[t]).diff) /\ lastSeq'[t] = Head(bus[t]).seq
                    \/ /\ engineVars' = engineVars
                       /\ ReplyOnItsWay(t) /\ Missed(t) # <<>>
                       /\ tstore'[t] = FoldRecords(Missed(t), [records |-> tstore[t], seq |-> lastSeq[t]])
                       /\ lastSeq'[t] = Last(Missed(t)).seq
<1>3. ASSUME NEW u \in Tabs, u # t, NEW s, NEW n,
             tstore' = [tstore EXCEPT ![u] = s] \/ tstore' = tstore,
             lastSeq' = [lastSeq EXCEPT ![u] = n] \/ lastSeq' = lastSeq
      PROVE  Kept
    BY <1>3, <1>i, <1>t DEF TabTypes
<1>4. ASSUME NEW u \in Writers, NEW w \in OneWrite, Edit(u, w) PROVE Kept
  <2>1. u \in Tabs /\ u # t
    BY <1>4, <1>t, TabsAssumption
  <2> QED
    BY <1>3, <1>4, <2>1 DEF Edit
<1>5. ASSUME NEW u \in Tabs, Undo(u) \/ Ack(u) PROVE Kept
  <2>1. u # t
    BY <1>5, <1>a, <1>t DEF Undo, Ack
  <2> QED
    BY <1>3, <1>5, <2>1 DEF Undo, Ack
<1>6. ASSUME NEW u \in Tabs, Receive(u) PROVE Moved
  <2>1. CASE u # t
    BY <1>3, <1>6, <2>1 DEF Receive
  <2>2. CASE u = t /\ classifyInbound(Head(bus[t]).seq, lastSeq[t]) = "next"
    <3>1. /\ tstore' = [tstore EXCEPT ![t] = applyDiff(tstore[t], Head(bus[t]).diff)]
          /\ lastSeq' = [lastSeq EXCEPT ![t] = Head(bus[t]).seq]
          /\ bus[t] # <<>> /\ engineVars' = engineVars
      BY <1>6, <2>2 DEF Receive
    <3>2. tstore'[t] = applyDiff(tstore[t], Head(bus[t]).diff) /\ lastSeq'[t] = Head(bus[t]).seq
      BY <1>i, <1>t, <3>1 DEF TabTypes
    <3> QED
      BY <2>2, <3>1, <3>2
  <2>3. CASE u = t /\ classifyInbound(Head(bus[t]).seq, lastSeq[t]) # "next"
    BY <1>6, <2>3 DEF Receive
  <2> QED
    BY <2>1, <2>2, <2>3
<1>7. ASSUME NEW u \in Tabs, FoldCatchUp(u) PROVE Moved
  <2>1. CASE u # t
    BY <1>3, <1>7, <2>1 DEF FoldCatchUp
  <2>2. CASE u = t /\ Missed(t) # <<>>
    <3>1. /\ tstore' = [tstore EXCEPT ![t] = FoldRecords(Missed(t), [records |-> tstore[t], seq |-> lastSeq[t]])]
          /\ lastSeq' = [lastSeq EXCEPT ![t] = Last(Missed(t)).seq]
          /\ ReplyOnItsWay(t) /\ engineVars' = engineVars
      BY <1>7, <2>2 DEF FoldCatchUp, Missed
    <3>2. /\ tstore'[t] = FoldRecords(Missed(t), [records |-> tstore[t], seq |-> lastSeq[t]])
          /\ lastSeq'[t] = Last(Missed(t)).seq
      BY <1>i, <1>t, <3>1 DEF TabTypes
    <3> QED
      BY <2>2, <3>1, <3>2
  <2>3. CASE u = t /\ Missed(t) = <<>>
    BY <1>7, <2>3 DEF FoldCatchUp, Missed
  <2> QED
    BY <2>1, <2>2, <2>3
<1>8. \/ tstore' = tstore /\ lastSeq' = lastSeq
      \/ \E u \in Tabs : Undo(u) \/ Ack(u) \/ Receive(u) \/ FoldCatchUp(u)
      \/ \E u \in Writers, w \in OneWrite : Edit(u, w)
    BY DEF SyncNext, SnapshotTimer, PostEvent, LoseAck, PostSnapshot, ServeCatchUp,
       Drop, Connect, Reload, Command, OtherBoot, ServerRestarts, vars, tabVars
<1>9. Moved
    BY <1>4, <1>5, <1>6, <1>7, <1>8
<1> QED
    BY <1>1, <1>2, <1>9

LEMMA ReadersStep ==
    ASSUME ReadInv, [SyncNext]_vars, "reload" \notin Hazards, KeepTail >= MaxSeq
    PROVE  ReadersShow'
<1>i. Types /\ TabTypes /\ EngineInv /\ EngineParts /\ SeqsIncrease /\ ReadersShow /\ FramesTrue /\ RepliesTrue
    BY DEF ReadInv, EarnedInv, OrderInv, EngineInv, Types
<1>p. /\ EngineParts' /\ SeqsIncrease' /\ TabTypes' /\ Top \in Nat /\ Top' \in Nat /\ Top <= Top'
      /\ \A t \in Tabs : lastSeq[t] \in Nat /\ lastSeq'[t] \in Nat
  <2>1. Types' /\ EngineInv'
    BY <1>i, TypesStep, BoardKept
  <2>2. EngineParts' /\ TabTypes'
    BY <2>1 DEF Types
  <2>3. \A t \in Tabs : lastSeq[t] \in Nat /\ lastSeq'[t] \in Nat
    BY <1>i, <2>2, BoundAssumption DEF TabTypes
  <2> QED
    BY <1>i, <2>1, <2>2, <2>3, BoardKept, TopType, TopTypeNext DEF EngineInv
<1>e. /\ Events \in SUBSET Event /\ \A e \in Events : e.seq \in Nat /\ e.seq <= Top
      /\ \A e, g \in Events : e.seq = g.seq => e = g
    BY <1>i, EventsAre
<1>v. engineVars' = engineVars => Events' = Events /\ Top' = Top
    BY DEF engineVars, Events, Readable, Top
<1> SUFFICES ASSUME NEW t \in Readers
             PROVE  /\ Shows(tstore'[t], Events', lastSeq'[t]) /\ lastSeq'[t] <= Top'
                    /\ undos'[t] = <<>> /\ EventsAt(t)' = {}
    BY DEF ReadersShow
<1>t. t \in Tabs /\ Shows(tstore[t], Events, lastSeq[t]) /\ lastSeq[t] <= Top
    BY <1>i DEF Readers, ReadersShow
<1>1. undos'[t] = <<>> /\ EventsAt(t)' = {}
    BY ReaderMoves
<1>2. ASSUME tstore'[t] = tstore[t], lastSeq'[t] = lastSeq[t]
      PROVE  Shows(tstore'[t], Events', lastSeq'[t]) /\ lastSeq'[t] <= Top'
  <2>1. lastSeq'[t] <= Top'
    BY <1>2, <1>p, <1>t
  <2>2. CASE Events' = Events
    BY <1>2, <1>t, <2>1, <2>2
  <2>3. ASSUME NEW e, Events' = Events \cup {e}, e.seq = Top + 1
        PROVE  Shows(tstore'[t], Events', lastSeq'[t])
    <3>1. ~(e.seq <= lastSeq[t])
      BY <1>p, <1>t, <2>3
    <3>2. Shows(tstore[t], Events \cup {e}, lastSeq[t])
      BY <1>t, <3>1, ShowsMore
    <3> QED
      BY <1>2, <2>3, <3>2
  <2>4. Events' = Events \/ \E e : Events' = Events \cup {e} /\ e.seq = Top + 1
    BY <1>i, BoardMoves, EventsMove
  <2> QED
    BY <2>1, <2>2, <2>3, <2>4
<1>3. ASSUME engineVars' = engineVars, bus[t] # <<>>, classifyInbound(Head(bus[t]).seq, lastSeq[t]) = "next",
             tstore'[t] = applyDiff(tstore[t], Head(bus[t]).diff), lastSeq'[t] = Head(bus[t]).seq
      PROVE  Shows(tstore'[t], Events', lastSeq'[t]) /\ lastSeq'[t] <= Top'
  <2>1. bus[t] \in Seq(Frame)
    BY <1>i, <1>t DEF TabTypes
  <2>2. Head(bus[t]) = bus[t][1] /\ 1 \in DOMAIN bus[t]
    BY <1>3, <2>1
  <2>3. PICK e \in Events : e.seq = Head(bus[t]).seq /\ e.diff = Head(bus[t]).diff
    BY <1>i, <1>t, <2>2 DEF FramesTrue
  <2>4. e.seq = lastSeq[t] + 1 /\ e.seq <= Top
    BY <1>3, <1>e, <1>p, <1>t, <2>3 DEF classifyInbound
  <2>5. \A g \in Events : g.seq <= e.seq => g.seq <= lastSeq[t] \/ g = e
    <3> SUFFICES ASSUME NEW g \in Events, g.seq <= e.seq, ~(g.seq <= lastSeq[t]) PROVE g = e
      OBVIOUS
    <3>1. g.seq = e.seq
      BY <1>e, <1>p, <1>t, <2>4
    <3> QED
      BY <1>e, <3>1
  <2>6. lastSeq[t] < e.seq /\ lastSeq[t] \in Nat
    BY <1>p, <1>t, <2>4
  <2>7. Shows(applyDiff(tstore[t], e.diff), Events, e.seq)
    BY <1>e, <1>t, <2>5, <2>6, ShowsNext
  <2> QED
    BY <1>3, <1>v, <2>3, <2>4, <2>7
<1>4. ASSUME engineVars' = engineVars, ReplyOnItsWay(t), Missed(t) # <<>>,
             tstore'[t] = FoldRecords(Missed(t), [records |-> tstore[t], seq |-> lastSeq[t]]),
             lastSeq'[t] = Last(Missed(t)).seq
      PROVE  Shows(tstore'[t], Events', lastSeq'[t]) /\ lastSeq'[t] <= Top'
  <2> DEFINE s == [records |-> tstore[t], seq |-> lastSeq[t]]
             n == Last(Missed(t)).seq
             lines == Missed(t)
  <2>1. lines \in Seq(LogLine) /\ Len(lines) \in 1..Len(lines) /\ Last(lines) = lines[Len(lines)]
    BY <1>4, <1>i, <1>t, MissedType
  <2>2. catchUp[t].since <= lastSeq[t] /\ ReplyTrue(catchUp[t].reply, catchUp[t].since, Events)
    BY <1>4, <1>i, <1>t DEF RepliesTrue, ReplyOnItsWay
  <2>3. /\ Readable(lines) = 1..Len(lines) /\ Increasing(lines)
        /\ n \in Nat /\ lastSeq[t] < n
        /\ \A i \in Readable(lines) : lines[i] \in Events /\ lines[i].seq <= n
        /\ \A e \in Events : lastSeq[t] < e.seq /\ e.seq <= n => \E i \in Readable(lines) : lines[i] = e
    BY <1>4, <1>i, <1>e, <1>t, <2>2, MissedTrue
  <2>4. s \in Snapshot /\ s.records = tstore[t] /\ s.seq = lastSeq[t]
    BY <1>i, <1>t DEF TabTypes, Snapshot
  <2>5. s \in Stored /\ SnapSeq(s) = lastSeq[t] /\ \A id \in Ids : Below(s, id) = tstore[t][id]
    BY <2>4, MarkerAssumption DEF Stored, SnapSeq, Below
  <2>6. n <= Top
    BY <1>e, <2>1, <2>3
  <2>g. tstore'[t] = FoldRecords(lines, s) /\ lastSeq'[t] = n
    BY <1>4
  <2> HIDE DEF s, n, lines
  <2>7. Shows(tstore[t], Events, SnapSeq(s)) /\ SnapSeq(s) <= n
    BY <1>p, <1>t, <2>3, <2>5
  <2>8. \A e \in Events : SnapSeq(s) < e.seq /\ e.seq <= n => \E i \in Readable(lines) : lines[i] = e
    BY <2>3, <2>5
  <2>9. Shows(FoldRecords(lines, s), Events, n)
    BY <1>e, <2>1, <2>3, <2>5, <2>7, <2>8, ShowsFold
  <2> QED
    BY <1>4, <1>v, <2>6, <2>9, <2>g
<1> QED
    BY <1>1, <1>2, <1>3, <1>4, ReaderMoves

LEMMA ReadInit == Init => ReadInv
<1> SUFFICES ASSUME Init PROVE ReadInv
    OBVIOUS
<1>1. EarnedInv
    BY EarnedInit
<1>2. Events = {} /\ \A t \in Tabs : EventsAt(t) = {}
    BY DEF Init, Events, Readable, EventsAt
<1>3. FramesTrue /\ ResendsTrue /\ RepliesTrue
    BY <1>2 DEF Init, FramesTrue, ResendsTrue, RepliesTrue
<1>4. ReadersShow
  <2>1. NoRecords \in Records /\ \A id \in Ids : NoRecords[id] = Absent
    BY DEF NoRecords, Records, Slot
  <2>2. Shows(NoRecords, Events, 0)
    BY <1>2, <2>1 DEF Shows
  <2>3. 0 <= Top
    BY <1>1, TopType DEF EarnedInv, OrderInv, Types
  <2>4. \A t \in Readers : tstore[t] = NoRecords /\ lastSeq[t] = 0 /\ undos[t] = <<>> /\ t \in Tabs
    BY DEF Init, Readers
  <2> QED
    BY <1>2, <2>2, <2>3, <2>4 DEF ReadersShow
<1> QED
    BY <1>1, <1>3, <1>4 DEF ReadInv

LEMMA ReadStep ==
    ASSUME SavedInv, ReadInv, [SyncNext]_vars, "reload" \notin Hazards, KeepTail >= MaxSeq
    PROVE  ReadInv'
<1>1. EarnedInv'
  BY EarnedInvStep DEF ReadInv
<1> QED
    BY <1>1, ReadersStep, FramesStep, ResendsStep, RepliesStep DEF ReadInv

(***************************************************************************)
(* A tab that only reads shows the log as of its watermark at every        *)
(* moment: no drop, restart, resend, late reply or overlapping catch-up    *)
(* makes it skip or repeat a change, as long as nothing it needs has been  *)
(* compacted away and it is not loaded anew (agentBus.ts, foldCatchUp).    *)
(***************************************************************************)
THEOREM ReadersFollowTheLog ==
    ASSUME "reload" \notin Hazards, KeepTail >= MaxSeq
    PROVE  Spec => []ReadersFollow
<1>1. ReadInv => ReadersFollow
  <2> SUFFICES ASSUME ReadInv, NEW t \in Tabs \ Writers PROVE tstore[t] = AsOf(lastSeq[t])
    BY DEF ReadersFollow
  <2>1. EngineParts /\ SeqsIncrease /\ TabTypes
    BY DEF ReadInv, EarnedInv, OrderInv, EngineInv, Types
  <2>2. lastSeq[t] \in Nat
    BY <2>1, BoundAssumption DEF TabTypes
  <2>3. Shows(tstore[t], Events, lastSeq[t])
    BY DEF ReadInv, ReadersShow, Readers
  <2>4. Shows(AsOf(lastSeq[t]), Events, lastSeq[t])
    BY <2>1, <2>2, AsOfShows
  <2>5. Events \in SUBSET Event /\ \A e, g \in Events : e.seq = g.seq => e = g
    BY <2>1, EventsAre
  <2> QED
    BY <2>2, <2>3, <2>4, <2>5, ShowsOnce
<1> QED
    BY <1>1, SavedInit, SavedStep, ReadInit, ReadStep, PTL DEF Spec

-----------------------------------------------------------------------------
(***************************************************************************)
(* One tab edits, the others read, and every tab shows the server's board  *)
(* when all is quiet: no command of an agent, no lost answer, no reload    *)
(* and no undo, each of which breaks it in the code.                       *)
(***************************************************************************)
Alone(w) ==
    /\ w \in Tabs /\ Writers = {w}
    /\ Hazards \subseteq {"drop", "restart", "compact"} /\ KeepTail >= MaxSeq

\* The edits of the writer: the log's, and those still queued, at the place they were minted.
Plan(w) ==
    Events \cup {e \in Event : /\ e.seq \in DOMAIN minted[w] /\ e.id = minted[w][e.seq]
                               /\ \E k \in EventsAt(w) : queue[w][k].id = e.id /\ queue[w][k].diff = e.diff}

Contiguous == \A n \in 1..Top : \E e \in Events : e.seq = n

\* The writer numbers its edits as the server will.
InStep(w) ==
    /\ lastSeq[w] = Len(minted[w])
    /\ \A e \in Events : e.seq \in DOMAIN minted[w] /\ e.id = minted[w][e.seq]

\* What waits for no answer has not been sent.
HeadUnsent(w) == answer[w] = Nil => \A k \in EventsAt(w) : queue[w][k].id \notin Logged

WriterShows(w) == Shows(tstore[w], Plan(w), lastSeq[w])

\* A snapshot under way shows what its seq says, and the edits it contains are before it.
SnapshotFits(w, t, k) ==
    /\ Shows(queue[t][k].records, Plan(w), queue[t][k].seq)
    /\ queue[t][k].seq <= lastSeq[w]
    /\ t # w => queue[t][k].seq <= Top
    /\ t = w => \A l \in EventsAt(w), i \in DOMAIN minted[w] :
                   k < l /\ minted[w][i] = queue[w][l].id => queue[t][k].seq < i

SnapshotsShow(w) == \A t \in Tabs : \A k \in DOMAIN queue[t] \ EventsAt(t) : SnapshotFits(w, t, k)

FilesShow == snap # NoSnapshot => Shows(snap.records, Events, snap.seq)

LiveShows == entry # NoEntry => Shows(entry.store, Events, Top)

InOrder == \A t \in Tabs : \A k, l \in DOMAIN bus[t] : k < l => bus[t][k].seq < bus[t][l].seq

\* A tab past whose watermark there is an event will hear of it: in a frame, from a catch-up that asks,
\* or from one whose reply has it or will leave a gap that asks again.
OnItsWay(n, last, frames, run) ==
    \/ run # Nil /\ run.reply = Nil
    \/ \E k \in DOMAIN frames : frames[k].seq = n
    \/ /\ run # Nil /\ run.reply # Nil
       /\ \E k \in DOMAIN run.reply : run.reply[k].seq > last
       /\ \/ \E k \in DOMAIN run.reply : run.reply[k].seq = n
          \/ \A k \in DOMAIN frames : frames[k].seq > last + 1

HearsOf(t) ==
    /\ conn[t] # "boot"
    /\ conn[t] = "up" => \A n \in 1..Top : lastSeq[t] < n => OnItsWay(n, lastSeq[t], bus[t], catchUp[t])

Covered == \A t \in Readers : HearsOf(t)

ConvergeInv(w) ==
    /\ SavedInv /\ ReadInv /\ gone = {}
    /\ Contiguous /\ InStep(w) /\ HeadUnsent(w)
    /\ WriterShows(w) /\ SnapshotsShow(w) /\ FilesShow /\ LiveShows /\ InOrder /\ Covered

LEMMA AloneMeans ==
    ASSUME NEW w, Alone(w)
    PROVE  /\ w \in Tabs /\ Readers = Tabs \ {w} /\ KeepTail >= MaxSeq
           /\ "reload" \notin Hazards /\ "undo" \notin Hazards /\ "command" \notin Hazards
           /\ "lostAck" \notin Hazards /\ "lateReply" \notin Hazards
BY DEF Alone, Readers

\* What is durable is in the log: nothing is compacted.
LEMMA DurableLogged ==
    ASSUME EngineParts, KeepTail >= MaxSeq, NEW id, NEW n \in 1..MaxSeq, Durable(log, snap, id, n)
    PROVE  \E e \in Events : e.id = id /\ e.seq = n
<1>1. ~(n + KeepTail <= SnapSeq(snap))
  <2>1. SnapSeq(snap) \in 0..MaxSeq
    BY SnapSeqType DEF EngineParts
  <2> QED
    BY <2>1, BoundAssumption
<1> QED
    BY <1>1 DEF Durable, Events

LEMMA LoggedIs == Logged = {e.id : e \in Events}
BY DEF Logged, Events

\* The parts of the invariants that the steps below rest on.
LEMMA ConvergeParts ==
    ASSUME NEW w, Alone(w), ConvergeInv(w)
    PROVE  /\ Types /\ TabTypes /\ EngineParts /\ EngineInv /\ SeqsIncrease
           /\ Fresh /\ MintedOnce /\ QueuedOnce /\ BehindIt /\ NotYetLogged
           /\ AnswerTrue /\ AckedDurable /\ Accounted
           /\ ReadersShow /\ FramesTrue /\ ResendsTrue /\ RepliesTrue
           /\ Events \in SUBSET Event /\ Top \in Nat /\ lastSeq[w] \in Nat
           /\ \A e \in Events : e.seq \in Nat /\ 1 <= e.seq /\ e.seq <= Top
           /\ \A e, g \in Events : e.seq = g.seq => e = g
           /\ minted[w] \in Seq(EventIds) /\ DOMAIN minted[w] = 1..Len(minted[w]) /\ Len(minted[w]) \in Nat
<1>1. /\ Types /\ TabTypes /\ EngineParts /\ EngineInv /\ SeqsIncrease
      /\ Fresh /\ MintedOnce /\ QueuedOnce /\ BehindIt /\ NotYetLogged
      /\ AnswerTrue /\ AckedDurable /\ Accounted
      /\ ReadersShow /\ FramesTrue /\ ResendsTrue /\ RepliesTrue
    BY DEF ConvergeInv, SavedInv, ReadInv, EarnedInv, OrderInv, EngineInv, Types
<1>2. /\ Events \in SUBSET Event /\ Top \in Nat
      /\ \A e \in Events : e.seq \in Nat /\ 1 <= e.seq /\ e.seq <= Top
      /\ \A e, g \in Events : e.seq = g.seq => e = g
    BY <1>1, EventsAre, TopType, BoundAssumption
<1>3. w \in Tabs /\ minted[w] \in Seq(EventIds) /\ lastSeq[w] \in Nat
    BY <1>1, BoundAssumption DEF Alone, TabTypes
<1>4. DOMAIN minted[w] = 1..Len(minted[w]) /\ Len(minted[w]) \in Nat
    BY <1>3
<1> QED
    BY <1>1, <1>2, <1>3, <1>4

\* The log has the writer's first edits, up to the server's watermark; the rest are queued.
LEMMA WriterAhead ==
    ASSUME NEW w, Alone(w), ConvergeInv(w)
    PROVE  /\ Top <= lastSeq[w]
           /\ \A i \in DOMAIN minted[w] :
                /\ minted[w][i] \in Logged <=> i <= Top
                /\ Top < i => \E k \in EventsAt(w) : queue[w][k].id = minted[w][i]
<1>p. /\ Types /\ EngineParts /\ MintedOnce /\ AckedDurable /\ Accounted /\ w \in Tabs /\ KeepTail >= MaxSeq
      /\ Contiguous /\ InStep(w) /\ gone = {} /\ Top \in Nat
      /\ \A e \in Events : e.seq \in Nat /\ 1 <= e.seq /\ e.seq <= Top
      /\ DOMAIN minted[w] = 1..Len(minted[w]) /\ Len(minted[w]) \in Nat
    BY ConvergeParts, AloneMeans DEF ConvergeInv
<1>1. Top <= lastSeq[w]
  <2>1. CASE Top = 0
    BY <1>p, <2>1 DEF InStep
  <2>2. CASE Top # 0
    <3>1. Top \in 1..Top
      BY <1>p, <2>2
    <3>2. PICK e \in Events : e.seq = Top
      BY <1>p, <3>1 DEF Contiguous
    <3>3. Top \in DOMAIN minted[w] /\ lastSeq[w] = Len(minted[w])
      BY <1>p, <3>2 DEF InStep
    <3> QED
      BY <1>p, <3>3
  <2> QED
    BY <2>1, <2>2
<1>2. ASSUME NEW i \in DOMAIN minted[w], minted[w][i] \in Logged PROVE i <= Top
  <2>1. PICK e \in Events : e.id = minted[w][i]
    BY <1>2, LoggedIs
  <2>2. e.seq \in DOMAIN minted[w] /\ minted[w][e.seq] = minted[w][i] /\ e.seq <= Top
    BY <1>p, <2>1 DEF InStep
  <2>3. e.seq = i
    BY <1>p, <2>2 DEF MintedOnce
  <2> QED
    BY <2>2, <2>3
<1>3. ASSUME NEW i \in DOMAIN minted[w], i <= Top PROVE minted[w][i] \in Logged
  <2>1. i \in 1..Top
    BY <1>p, <1>3
  <2>2. PICK e \in Events : e.seq = i
    BY <1>p, <2>1 DEF Contiguous
  <2>3. e.id = minted[w][i]
    BY <1>p, <2>2 DEF InStep
  <2> QED
    BY <2>3, LoggedIs
<1>4. ASSUME NEW i \in DOMAIN minted[w], Top < i
      PROVE  \E k \in EventsAt(w) : queue[w][k].id = minted[w][i]
  <2>1. minted[w][i] \notin Logged
    BY <1>p, <1>2, <1>4
  <2>2. minted[w][i] \in AckedIds \cup QueuedIds(w)
    BY <1>p DEF Accounted, Range
  <2>3. minted[w][i] \notin AckedIds
    <3>1. SUFFICES ASSUME NEW r \in acked, r.id = minted[w][i] PROVE minted[w][i] \in Logged
      BY <2>1 DEF AckedIds
    <3>2. Durable(log, snap, r.id, r.seq) /\ r.seq \in 1..MaxSeq
      BY <1>p DEF AckedDurable, Types, TabTypes, Recorded
    <3>3. \E e \in Events : e.id = r.id
      BY <1>p, <3>2, DurableLogged
    <3> QED
      BY <3>1, <3>3, LoggedIs
  <2> QED
    BY <2>2, <2>3, QueuedIdsAre
<1> QED
    BY <1>1, <1>2, <1>3, <1>4

\* An event at the head of the queue that has not been sent is the server's next.
LEMMA NextIsHead ==
    ASSUME NEW w, Alone(w), ConvergeInv(w), answer[w] = Nil, 1 \in EventsAt(w)
    PROVE  Top + 1 \in DOMAIN minted[w] /\ minted[w][Top + 1] = queue[w][1].id /\ queue[w][1].id \notin Logged
<1>p. /\ Fresh /\ QueuedOnce /\ BehindIt /\ w \in Tabs /\ HeadUnsent(w) /\ Top \in Nat /\ Types
      /\ DOMAIN minted[w] = 1..Len(minted[w]) /\ Len(minted[w]) \in Nat
    BY ConvergeParts, AloneMeans DEF ConvergeInv
<1>1. queue[w][1].id \in QueuedIds(w) /\ queue[w][1].id \notin Logged
    BY <1>p, QueuedIdsAre DEF HeadUnsent
<1>2. PICK i \in DOMAIN minted[w] : minted[w][i] = queue[w][1].id
    BY <1>1, <1>p DEF Fresh, Range
<1>3. ~(i <= Top) /\ i \in Nat
    BY <1>1, <1>2, <1>p, WriterAhead
<1>4. CASE i = Top + 1
    BY <1>1, <1>2, <1>4
<1>5. CASE i # Top + 1
  <2>1. Top + 1 < i /\ Top + 1 \in DOMAIN minted[w] /\ Top < Top + 1
    BY <1>2, <1>3, <1>5, <1>p
  <2>2. PICK k \in EventsAt(w) : queue[w][k].id = minted[w][Top + 1]
    BY <2>1, WriterAhead
  <2>3. PICK l \in EventsAt(w) : k < l /\ queue[w][l].id = minted[w][i]
    BY <1>p, <2>1, <2>2 DEF BehindIt
  <2>4. l = 1
    BY <1>2, <1>p, <2>3 DEF QueuedOnce
  <2>5. k \in Nat /\ k >= 1
    BY <1>p DEF EventsAt, Types, TabTypes
  <2> QED
    BY <2>3, <2>4, <2>5
<1> QED
    BY <1>4, <1>5

\* A snapshot at the head of a queue claims no more than the server has.
LEMMA SnapshotEarned ==
    ASSUME NEW w, Alone(w), ConvergeInv(w), NEW t \in Tabs, 1 \in DOMAIN queue[t] \ EventsAt(t)
    PROVE  queue[t][1].seq <= Top
<1>p. /\ SnapshotsShow(w) /\ InStep(w) /\ Types /\ w \in Tabs /\ Top \in Nat
      /\ DOMAIN minted[w] = 1..Len(minted[w]) /\ Len(minted[w]) \in Nat
    BY ConvergeParts, AloneMeans DEF ConvergeInv
<1>s. queue[t][1].seq \in Nat
  <2>1. queue[t][1] \in Job /\ "id" \notin DOMAIN queue[t][1]
    BY <1>p DEF Types, TabTypes, EventsAt
  <2> QED
    BY <2>1, JobKind, BoundAssumption DEF Snapshot
<1>1. CASE t # w
    BY <1>1, <1>p DEF SnapshotsShow, SnapshotFits
<1>2. CASE t = w /\ ~(queue[w][1].seq <= Top)
  <2> DEFINE n == queue[w][1].seq
  <2>1. n \in DOMAIN minted[w] /\ Top < n
    <3>1. n <= Len(minted[w])
      BY <1>2, <1>p DEF SnapshotsShow, SnapshotFits, InStep
    <3> QED
      BY <1>2, <1>p, <1>s, <3>1
  <2>2. PICK k \in EventsAt(w) : queue[w][k].id = minted[w][n]
    BY <2>1, WriterAhead
  <2>3. k \in Nat /\ k >= 1 /\ k # 1
    BY <1>2, <1>p DEF EventsAt, Types, TabTypes
  <2>4. n < n
    <3>1. 1 < k
      BY <2>3
    <3> QED
      BY <1>2, <1>p, <2>1, <2>2, <3>1 DEF SnapshotsShow, SnapshotFits
  <2> QED
    BY <1>2, <1>s, <2>4
<1> QED
    BY <1>1, <1>2

LEMMA PlanIs ==
    ASSUME NEW w, Alone(w), ConvergeInv(w)
    PROVE  /\ Plan(w) \in SUBSET Event /\ Events \subseteq Plan(w)
           /\ \A e \in Plan(w) : e.seq \in DOMAIN minted[w] /\ e.seq \in Nat /\ e.seq <= lastSeq[w]
           /\ \A e, g \in Plan(w) : e.seq = g.seq => e = g
           /\ \A e \in Plan(w) : e.seq <= Top => e \in Events
<1>p. /\ Types /\ ResendsTrue /\ QueuedOnce /\ InStep(w) /\ Contiguous /\ w \in Tabs /\ Top \in Nat
      /\ Events \in SUBSET Event /\ \A e, g \in Events : e.seq = g.seq => e = g
      /\ DOMAIN minted[w] = 1..Len(minted[w]) /\ Len(minted[w]) \in Nat
      /\ \A e \in Events : e.seq \in Nat /\ 1 <= e.seq /\ e.seq <= Top
    BY ConvergeParts, AloneMeans DEF ConvergeInv
<1>1. Plan(w) \in SUBSET Event /\ Events \subseteq Plan(w)
    BY <1>p DEF Plan
<1>2. \A e \in Plan(w) : e.seq \in DOMAIN minted[w] /\ e.id = minted[w][e.seq]
    BY <1>p DEF Plan, InStep
<1>3. \A e \in Plan(w) : e.seq \in Nat /\ e.seq <= lastSeq[w]
    BY <1>2, <1>p DEF InStep
<1>4. ASSUME NEW e \in Plan(w), NEW g \in Plan(w), e.seq = g.seq PROVE e = g
  <2>1. e.id = g.id
    BY <1>2, <1>4
  <2>2. e.diff = g.diff
    <3>1. CASE e \in Events /\ g \in Events
      BY <1>4, <1>p, <3>1
    <3>2. ASSUME NEW k \in EventsAt(w), queue[w][k].id = e.id, queue[w][k].diff = e.diff, g \in Events
          PROVE  e.diff = g.diff
      BY <1>p, <2>1, <3>2 DEF ResendsTrue
    <3>3. ASSUME NEW k \in EventsAt(w), queue[w][k].id = g.id, queue[w][k].diff = g.diff, e \in Events
          PROVE  e.diff = g.diff
      BY <1>p, <2>1, <3>3 DEF ResendsTrue
    <3>4. ASSUME NEW k \in EventsAt(w), queue[w][k].id = e.id, queue[w][k].diff = e.diff,
                 NEW l \in EventsAt(w), queue[w][l].id = g.id, queue[w][l].diff = g.diff
          PROVE  e.diff = g.diff
      BY <1>p, <2>1, <3>4 DEF QueuedOnce
    <3> QED
      BY <3>1, <3>2, <3>3, <3>4 DEF Plan
  <2>3. e \in Event /\ g \in Event
    BY <1>1
  <2> QED
    BY <1>4, <2>1, <2>2, <2>3 DEF Event
<1>5. ASSUME NEW e \in Plan(w), e.seq <= Top PROVE e \in Events
  <2>1. e.seq \in 1..Top
    BY <1>2, <1>5, <1>p
  <2>2. PICK g \in Events : g.seq = e.seq
    BY <1>p, <2>1 DEF Contiguous
  <2>3. g \in Plan(w)
    BY <1>1
  <2> QED
    BY <1>4, <2>2, <2>3
<1> QED
    BY <1>1, <1>2, <1>3, <1>4, <1>5

\* Two sets of events that are the same up to a seq show the same up to there.
LEMMA ShowsAlike ==
    ASSUME NEW events, NEW others, NEW n, NEW store, Shows(store, events, n),
           \A e \in events : e.seq <= n => e \in others, \A e \in others : e.seq <= n => e \in events
    PROVE  Shows(store, others, n)
BY DEF Shows

\* Up to the server's watermark the log and the writer's edits are the same.
LEMMA PlanAlike ==
    ASSUME NEW w, Alone(w), ConvergeInv(w), NEW n \in Nat, n <= Top, NEW store
    PROVE  Shows(store, Events, n) <=> Shows(store, Plan(w), n)
<1>1. /\ Events \subseteq Plan(w) /\ Top \in Nat
      /\ \A e \in Plan(w) : e.seq \in Nat /\ (e.seq <= Top => e \in Events)
    BY PlanIs, ConvergeParts
<1>2. \A e \in Plan(w) : e.seq <= n => e \in Events
    BY <1>1
<1> QED
    BY <1>1, <1>2, ShowsAlike

-----------------------------------------------------------------------------
(***************************************************************************)
(* What a step does to the board and to the writer's edits.                *)
(***************************************************************************)
LEMMA QuietTop ==
    ASSUME EngineParts, EngineInv, EngineParts', Quietly, KeepTail >= MaxSeq, SnapSeq(snap') <= Top
    PROVE  Events' = Events /\ Top' = Top
<1>1. Events' = Events
    BY EventsKept
<1>2. Top' \in SeqsOf(log', snap') /\ Top' \in Nat /\ Top \in Nat /\ Top <= Top'
    BY WatermarkIs, TopType DEF EngineParts, Top, Quietly
<1>3. \A i \in Readable(log') : log'[i].seq <= Top
  <2>1. \A e \in Events : e.seq <= Top
    BY EventsAre DEF EngineInv
  <2> QED
    BY <1>1, <2>1 DEF Events
<1>4. Top' <= Top
    BY <1>2, <1>3 DEF SeqsOf
<1> QED
    BY <1>1, <1>2, <1>4

\* The one event a step may commit is the writer's next.
LEMMA WriterPosts ==
    ASSUME NEW w, Alone(w), ConvergeInv(w), NEW t \in Tabs, PostEvent(t)
    PROVE  /\ t = w /\ answer[w] = Nil /\ 1 \in EventsAt(w)
           /\ \E e \in Plan(w) :
                /\ e.seq = Top + 1 /\ Events' = Events \cup {e} /\ Top' = Top + 1 /\ snap' = snap
                /\ e.id = queue[w][1].id /\ Logged' = Logged \cup {e.id}
                /\ entry' # NoEntry /\ entry'.store = applyDiff(Engine.store, e.diff)
                /\ answer' = [answer EXCEPT ![w] = e.seq] /\ Broadcast(e.diff, e.seq, w)
<1> DEFINE job == Head(queue[t])
<1>p. /\ Types /\ TabTypes /\ EngineParts /\ EngineInv /\ w \in Tabs /\ KeepTail >= MaxSeq
      /\ Readers = Tabs \ {w} /\ ReadersShow
    BY ConvergeParts, AloneMeans
<1>1. queue[t] # <<>> /\ answer[t] = Nil /\ job \in EventJob
    BY <1>p, HeadOfQueue, JobKind DEF PostEvent, HeadIs
<1>2. 1 \in EventsAt(t) /\ queue[t][1] = job
    BY <1>1, <1>p, HeadQueued
<1>3. t = w
    BY <1>2, <1>p DEF ReadersShow
<1>4. Top + 1 \in DOMAIN minted[w] /\ minted[w][Top + 1] = job.id /\ job.id \notin Logged
    BY <1>1, <1>2, <1>3, NextIsHead
<1>5. job.id \in EventIds /\ job.diff \in Diffs
    BY <1>1 DEF EventJob
<1>6. ~InRing(job.id)
  <2>1. SUFFICES ASSUME NEW i \in DOMAIN Engine.ring, Engine.ring[i].id = job.id PROVE FALSE
    BY DEF InRing
  <2>2. entry # NoEntry /\ Engine.ring = entry.ring
    BY <1>p, EngineRingIs
  <2>3. Durable(log, snap, job.id, entry.ring[i].seq) /\ entry.ring[i].seq \in 1..MaxSeq
    <3>1. entry.ring[i] \in Recorded /\ Durable(log, snap, entry.ring[i].id, entry.ring[i].seq)
      BY <1>p, <2>2, RingSeqs DEF EngineInv, RingDurable
    <3> QED
      BY <2>1, <2>2, <3>1 DEF Recorded
  <2>4. \E e \in Events : e.id = job.id
    BY <1>p, <2>3, DurableLogged
  <2> QED
    BY <1>4, <2>4, LoggedIs
<1>7. /\ AppendTabEvent(job.id, job.diff, FALSE)
      /\ answer' = [answer EXCEPT ![t] = Engine.watermark + 1]
      /\ Broadcast(job.diff, Engine.watermark + 1, t)
    BY <1>6 DEF PostEvent, ResendTabEvent
<1>8. entry' = [store |-> applyDiff(Engine.store, job.diff), watermark |-> Engine.watermark + 1,
                ring |-> Remember(Engine.ring, job.id, Engine.watermark + 1)]
    BY <1>7 DEF AppendTabEvent
<1>9. entry' # NoEntry /\ entry'.store = applyDiff(Engine.store, job.diff)
  <2>1. Engine.watermark + 1 <= MaxSeq
    BY <1>7 DEF AppendTabEvent
  <2>2. /\ applyDiff(Engine.store, job.diff) \in Records /\ Engine.watermark + 1 \in 1..MaxSeq
        /\ Engine.ring \in Seq(Recorded)
    BY <1>5, <1>p, <2>1, TabEvent, EngineTypesAreParts, EngineRingIs
  <2>3. Remember(Engine.ring, job.id, Engine.watermark + 1) \in Seq(Recorded)
    BY <1>5, <2>2, RingType
  <2>4. Engine.watermark + 1 \in 0..MaxSeq
    BY <2>2
  <2>5. entry' \in Entry
    BY <1>8, <2>2, <2>3, <2>4, EntryType
  <2> QED
    BY <1>8, <2>5, MarkerAssumption
<1>n. Engine.watermark = Top
    BY <1>p, EngineAtTop DEF EngineInv
<1>10. PICK e : Committing(e) /\ e.id = job.id /\ e.diff = job.diff
  <2>1. PICK id \in EventIds, d \in Diffs : id = job.id /\ d = job.diff
    BY <1>5
  <2>2. AppendTabEvent(id, d, FALSE)
    BY <1>7, <2>1 DEF AppendTabEvent
  <2>3. PICK e : /\ Committing(e) /\ e.id = id /\ e.diff = d /\ e.seq = Engine.watermark + 1
                 /\ EngineInv' /\ RingIds' \subseteq RingIds \cup {id}
    BY <1>p, <2>2, EventCommits
  <2> HIDE DEF job
  <2> QED
    BY <2>1, <2>3
<1>11. Events' = Events \cup {e} /\ e.seq = Top + 1 /\ e \in Event
    BY <1>10, <1>p, EventsCommitted
<1>12. Top' = Top + 1 /\ snap' = snap /\ Logged' = Logged \cup {e.id}
    BY <1>10, <1>p, CommittedTop, CommittedIds DEF Committing
<1>13. e \in Plan(w)
    BY <1>2, <1>3, <1>4, <1>10, <1>11 DEF Plan
<1>14. answer' = [answer EXCEPT ![w] = e.seq] /\ Broadcast(e.diff, e.seq, w)
    BY <1>3, <1>7, <1>n, <1>10, <1>11 DEF Broadcast
<1> HIDE DEF job
<1> QED
    BY <1>1, <1>2, <1>3, <1>9, <1>10, <1>11, <1>12, <1>13, <1>14

\* A step commits the writer's next event, stores a snapshot of what the log has, or changes nothing.
Still == Events' = Events /\ Top' = Top

SnapshotKept(t) ==
    Still /\ 1 \in DOMAIN queue[t] \ EventsAt(t) /\ snap' = queue[t][1] /\ entry' = entry

LEMMA ServerMoves ==
    ASSUME NEW w, Alone(w), ConvergeInv(w), [SyncNext]_vars
    PROVE  \/ Still /\ snap' = snap /\ (entry' = entry \/ entry' = NoEntry)
           \/ \E t \in Tabs : SnapshotKept(t)
           \/ PostEvent(w)
<1>p. Types /\ EngineParts /\ EngineInv /\ KeepTail >= MaxSeq /\ Top \in Nat /\ SnapSeq(snap) <= Top /\ EngineParts'
    BY ConvergeParts, AloneMeans, TopType, EngineTyped
<1>u. ASSUME UNCHANGED engineVars PROVE Still /\ snap' = snap /\ entry' = entry
    BY <1>u DEF engineVars, Still, Events, Readable, Top
<1>1. ASSUME NEW t \in Tabs, PostSnapshot(t)
      PROVE  (Still /\ snap' = snap /\ entry' = entry) \/ SnapshotKept(t)
  <2>1. queue[t] # <<>> /\ Head(queue[t]) \in Snapshot /\ Head(queue[t]) = queue[t][1]
        /\ 1 \in DOMAIN queue[t] \ EventsAt(t)
    BY <1>1, <1>p, HeadOfQueue, JobKind DEF PostSnapshot, HeadIs, EventsAt
  <2>2. queue[t][1].seq <= Top /\ queue[t][1].seq \in Nat
    BY <2>1, SnapshotEarned, BoundAssumption DEF Snapshot
  <2>3. CASE UNCHANGED engineVars
    BY <1>u, <2>3
  <2>4. CASE SaveSnapshot(Head(queue[t]))
    <3>1. PICK s \in Snapshot : s = queue[t][1]
      BY <2>1
    <3>2. SaveSnapshot(s)
      BY <2>1, <2>4, <3>1
    <3>3. snap' = s /\ SnapSeq(s) = s.seq /\ s.seq <= Top
      BY <2>2, <3>1, <3>2, MarkerAssumption DEF SaveSnapshot, SnapSeq
    <3>4. Quietly
      BY <1>p, <3>2, QuietStep
    <3>5. Still
      BY <1>p, <3>3, <3>4, QuietTop DEF Still
    <3>6. entry # NoEntry => ~(s.seq > entry.watermark)
      BY <1>p, <2>2, <3>1 DEF EngineInv, LiveWatermark
    <3>7. entry' = entry
      BY <3>2, <3>6 DEF SaveSnapshot
    <3> QED
      BY <2>1, <3>1, <3>3, <3>5, <3>7 DEF SnapshotKept
  <2> QED
    BY <1>1, <2>3, <2>4 DEF PostSnapshot
<1>2. ASSUME Boot \/ Restart PROVE Still /\ snap' = snap /\ (entry' = entry \/ entry' = NoEntry)
  <2>1. snap' = snap /\ (entry' = entry \/ entry' = NoEntry)
    BY <1>2 DEF Boot, Restart
  <2>2. Quietly
    BY <1>2, <1>p, QuietStep
  <2> QED
    BY <1>p, <2>1, <2>2, QuietTop DEF Still
<1>3. ASSUME NEW t \in Tabs, PostEvent(t) PROVE PostEvent(w)
    BY <1>3, WriterPosts
<1>4. \/ UNCHANGED engineVars \/ Boot \/ Restart
      \/ \E t \in Tabs : PostSnapshot(t) \/ PostEvent(t)
    BY AloneMeans DEF SyncNext, Edit, Undo, SnapshotTimer, Ack, LoseAck, Receive, ServeCatchUp,
       FoldCatchUp, Drop, Connect, Reload, Command, OtherBoot, ServerRestarts, vars
<1> QED
    BY <1>1, <1>2, <1>3, <1>4, <1>u

\* A step leaves the writer's edits as they are, or adds the one it makes.
Planning(w) ==
    \E v \in OneWrite, e \in Event :
        /\ Edit(w, v) /\ Plan(w)' = Plan(w) \cup {e}
        /\ e.seq = lastSeq[w] + 1 /\ e.diff = build(touch(emptyDiff, tstore[w], v))

LEMMA EditPlans ==
    ASSUME NEW w, Alone(w), ConvergeInv(w), NEW t \in Writers, NEW v \in OneWrite, Edit(t, v)
    PROVE  t = w /\ Planning(w)
<1>p. /\ Types /\ TabTypes /\ Fresh /\ InStep(w) /\ w \in Tabs
      /\ DOMAIN minted[w] = 1..Len(minted[w]) /\ Len(minted[w]) \in Nat
    BY ConvergeParts, AloneMeans DEF ConvergeInv
<1>1. t = w
    BY DEF Alone
<1> DEFINE d == build(touch(emptyDiff, tstore[w], v))
           n == Len(queue[w])
           m == Len(minted[w])
<1>2. PICK id \in EventIds, job \in EventJob :
         /\ job = [id |-> id, diff |-> d] /\ job \in Job
         /\ id \notin UNION {Range(minted[u]) : u \in Tabs}
         /\ minted' = [minted EXCEPT ![w] = Append(@, id)]
         /\ Enqueue(w, job) /\ UNCHANGED engineVars
    BY <1>1, <1>p, Edited
<1>3. lastSeq[w] < MaxSeq /\ lastSeq[w] = m
    BY <1>1, <1>p DEF Edit, InStep
<1>d. d \in Diffs /\ job.id = id /\ job.diff = d
    BY <1>2 DEF EventJob
<1> HIDE DEF d
<1>4. /\ EventsAt(w)' = EventsAt(w) \cup {n + 1} /\ n \in Nat
      /\ \A k \in EventsAt(w) : queue'[w][k] = queue[w][k]
      /\ queue'[w][n + 1] = job
    BY <1>2, <1>p, EventsMore
<1>5. /\ DOMAIN minted'[w] = DOMAIN minted[w] \cup {m + 1} /\ m + 1 \notin DOMAIN minted[w]
      /\ minted'[w][m + 1] = id /\ \A i \in DOMAIN minted[w] : minted'[w][i] = minted[w][i]
  <2>1. m + 1 \notin DOMAIN minted[w]
    BY <1>p
  <2>2. /\ DOMAIN minted'[w] = DOMAIN minted[w] \cup {m + 1}
        /\ minted'[w][m + 1] = id /\ \A i \in DOMAIN minted[w] : minted'[w][i] = minted[w][i]
    BY <1>2, <1>p, OneMoreMinted
  <2> QED
    BY <2>1, <2>2
<1>6. \A k \in EventsAt(w) : queue[w][k].id # id
  <2>1. QueuedIds(w) \subseteq Range(minted[w])
    BY <1>p DEF Fresh
  <2> QED
    BY <1>2, <1>p, <2>1, QueuedIdsAre
<1>7. \A i \in DOMAIN minted[w] : minted[w][i] # id
    BY <1>2, <1>p DEF Range
<1>8. Events' = Events
    BY <1>2 DEF engineVars, Events, Readable
<1> DEFINE e == [id |-> id, seq |-> m + 1, diff |-> d]
<1>9. e \in Event /\ e.id = id /\ e.seq = m + 1 /\ e.diff = d
    BY <1>3, <1>d, <1>p, BoundAssumption DEF Event
<1>10. \A x \in Event : x.id = id /\ x.seq = m + 1 /\ x.diff = d => x = e
    BY DEF Event
<1> HIDE DEF e, m, n
<1> DEFINE Queued(x) == /\ x.seq \in DOMAIN minted[w] /\ x.id = minted[w][x.seq]
                        /\ \E k \in EventsAt(w) : queue[w][k].id = x.id /\ queue[w][k].diff = x.diff
           QueuedNext(x) == /\ x.seq \in DOMAIN minted'[w] /\ x.id = minted'[w][x.seq]
                            /\ \E k \in EventsAt(w)' : queue'[w][k].id = x.id /\ queue'[w][k].diff = x.diff
<1>11. ASSUME NEW x \in Event, Queued(x) PROVE QueuedNext(x)
    BY <1>4, <1>5, <1>11
<1>12. QueuedNext(e)
    BY <1>2, <1>4, <1>5, <1>9, <1>d
<1>13. ASSUME NEW x \in Event, QueuedNext(x) PROVE Queued(x) \/ x = e
  <2>1. PICK k \in EventsAt(w)' : queue'[w][k].id = x.id /\ queue'[w][k].diff = x.diff
    BY <1>13
  <2>2. CASE x.seq = m + 1
    <3>1. x.id = id
      BY <1>5, <1>13, <2>2
    <3>2. k = n + 1
      BY <1>4, <1>6, <2>1, <3>1
    <3>3. x.diff = d
      BY <1>2, <1>4, <1>d, <2>1, <3>2
    <3> QED
      BY <1>10, <2>2, <3>1, <3>3
  <2>3. CASE x.seq # m + 1
    <3>1. x.seq \in DOMAIN minted[w] /\ x.id = minted[w][x.seq]
      BY <1>5, <1>13, <2>3
    <3>2. k \in EventsAt(w)
      BY <1>4, <1>7, <1>d, <2>1, <3>1
    <3>3. queue[w][k].id = x.id /\ queue[w][k].diff = x.diff
      BY <1>4, <2>1, <3>2
    <3> QED
      BY <3>1, <3>2, <3>3
  <2> QED
    BY <2>2, <2>3
<1>14. Plan(w) = Events \cup {x \in Event : Queued(x)} /\ Plan(w)' = Events' \cup {x \in Event : QueuedNext(x)}
    BY DEF Plan
<1> HIDE DEF Queued, QueuedNext
<1>15. Plan(w)' = Plan(w) \cup {e}
    BY <1>8, <1>9, <1>11, <1>12, <1>13, <1>14
<1>16. e.seq = lastSeq[w] + 1 /\ e.diff = build(touch(emptyDiff, tstore[w], v)) /\ Edit(w, v)
    BY <1>1, <1>3, <1>9 DEF d
<1> QED
    BY <1>1, <1>9, <1>15, <1>16 DEF Planning

\* What can happen while one tab edits and the others read.
LEMMA OneWriterSteps ==
    ASSUME NEW w, Alone(w), ConvergeInv(w), [SyncNext]_vars
    PROVE  \/ \E v \in OneWrite : Edit(w, v)
           \/ PostEvent(w) \/ Ack(w)
           \/ \E t \in Tabs : \/ SnapshotTimer(t) \/ PostSnapshot(t) \/ Receive(t) \/ ServeCatchUp(t)
                              \/ FoldCatchUp(t) \/ Drop(t) \/ Connect(t)
           \/ OtherBoot \/ ServerRestarts \/ UNCHANGED vars
<1>p. /\ Types /\ ReadersShow /\ w \in Tabs /\ Writers = {w} /\ Readers = Tabs \ {w}
      /\ "reload" \notin Hazards /\ "undo" \notin Hazards /\ "command" \notin Hazards /\ "lostAck" \notin Hazards
    BY ConvergeParts, AloneMeans DEF Alone
<1>1. ASSUME NEW t \in Tabs, PostEvent(t) PROVE PostEvent(w)
    BY <1>1, WriterPosts
<1>2. ASSUME NEW t \in Tabs, Ack(t) PROVE Ack(w)
  <2>1. queue[t] # <<>> /\ Head(queue[t]) \in EventJob
    BY <1>p, <1>2 DEF Types, Answering, Ack
  <2>2. 1 \in EventsAt(t)
    BY <1>p, <2>1, HeadQueued
  <2>3. t = w
    BY <1>p, <2>2 DEF ReadersShow
  <2> QED
    BY <1>2, <2>3
<1> QED
    BY <1>p, <1>1, <1>2 DEF SyncNext, Undo, LoseAck, Reload, Command

\* Nothing but the writer's post commits, and it sets an answer on its way.
LEMMA OnlyPostsCommit ==
    ASSUME NEW w, Alone(w), ConvergeInv(w), [SyncNext]_vars, answer[w] # Nil \/ answer'[w] = answer[w]
    PROVE  Still /\ ~PostEvent(w)
<1>p. w \in Tabs /\ TabTypes /\ Top \in Nat
    BY ConvergeParts, AloneMeans
<1>1. ~PostEvent(w)
  <2>1. SUFFICES ASSUME PostEvent(w) PROVE FALSE
    OBVIOUS
  <2>2. PICK e \in Plan(w) : e.seq = Top + 1 /\ answer' = [answer EXCEPT ![w] = e.seq]
    BY <1>p, <2>1, WriterPosts
  <2>3. answer[w] = Nil
    BY <1>p, <2>1, WriterPosts
  <2>4. answer'[w] # Nil
    BY <1>p, <2>2, NilAssumption DEF TabTypes
  <2> QED
    BY <2>3, <2>4
<1> QED
    BY <1>1, ServerMoves DEF SnapshotKept

\* The event whose answer is on its way is in the log.
LEMMA AnsweredLogged ==
    ASSUME NEW w, Alone(w), ConvergeInv(w), answer[w] # Nil
    PROVE  /\ queue[w] # <<>> /\ 1 \in EventsAt(w)
           /\ \E e \in Events : e.id = queue[w][1].id /\ e.seq = answer[w]
<1>p. Types /\ EngineParts /\ AnswerTrue /\ w \in Tabs /\ KeepTail >= MaxSeq
    BY ConvergeParts, AloneMeans
<1>1. queue[w] # <<>> /\ Head(queue[w]) \in EventJob
    BY <1>p DEF Types, Answering
<1>2. 1 \in EventsAt(w) /\ queue[w][1] = Head(queue[w])
    BY <1>p, <1>1, HeadQueued
<1>3. Durable(log, snap, queue[w][1].id, answer[w]) /\ answer[w] \in 1..MaxSeq
    BY <1>p, <1>2 DEF AnswerTrue, Types, TabTypes
<1> QED
    BY <1>p, <1>1, <1>2, <1>3, DurableLogged

LEMMA PlanMoves ==
    ASSUME NEW w, Alone(w), ConvergeInv(w), [SyncNext]_vars
    PROVE  Plan(w)' = Plan(w) \/ Planning(w)
<1>p. /\ Types /\ w \in Tabs /\ InStep(w) /\ MintedOnce /\ Events \subseteq Plan(w) /\ Plan(w) \in SUBSET Event
      /\ \A e, g \in Plan(w) : e.seq = g.seq => e = g
    BY ConvergeParts, AloneMeans, PlanIs DEF ConvergeInv
<1>1. ASSUME queue'[w] = queue[w], minted' = minted, Still PROVE Plan(w)' = Plan(w)
    BY <1>1 DEF Plan, EventsAt, Still
<1>2. ASSUME PostEvent(w) PROVE Plan(w)' = Plan(w)
  <2>1. PICK e \in Plan(w) : Events' = Events \cup {e}
    BY <1>p, <1>2, WriterPosts
  <2>2. queue' = queue /\ minted' = minted
    BY <1>2 DEF PostEvent, ghosts
  <2>3. EventsAt(w)' = EventsAt(w)
    BY <2>2 DEF EventsAt
  <2> DEFINE Queued == {e1 \in Event : /\ e1.seq \in DOMAIN minted[w] /\ e1.id = minted[w][e1.seq]
                               /\ \E k \in EventsAt(w) : queue[w][k].id = e1.id /\ queue[w][k].diff = e1.diff}
  <2>4. Plan(w) = Events \cup Queued /\ Plan(w)' = Events' \cup Queued
    BY <2>2, <2>3 DEF Plan
  <2> HIDE DEF Queued
  <2> QED
    BY <2>1, <2>4
<1>3. ASSUME NEW t \in Tabs, SnapshotTimer(t) PROVE Plan(w)' = Plan(w)
  <2>1. PICK job \in Snapshot : job \in Job /\ Enqueue(t, job)
    BY <1>p, <1>3, SnapshotJob DEF SnapshotTimer
  <2>2. minted' = minted /\ answer' = answer
    BY <1>3 DEF SnapshotTimer, ghosts
  <2>3. Still
    BY <2>2, OnlyPostsCommit
  <2>4. EventsAt(w)' = EventsAt(w) /\ \A k \in EventsAt(w) : queue'[w][k] = queue[w][k]
    BY <1>p, <2>1, EventsMore
  <2> QED
    BY <2>2, <2>3, <2>4 DEF Plan, Still
<1>4. ASSUME NEW t \in Tabs, PostSnapshot(t) PROVE Plan(w)' = Plan(w)
  <2>1. queue[t] # <<>> /\ Head(queue[t]) \in Snapshot /\ queue' = [queue EXCEPT ![t] = Tail(@)]
    BY <1>4, <1>p, HeadOfQueue, JobKind DEF PostSnapshot, HeadIs
  <2>2. minted' = minted /\ answer' = answer
    BY <1>4 DEF PostSnapshot, ghosts
  <2>3. Still
    BY <2>2, OnlyPostsCommit
  <2>4. 1 \notin EventsAt(t)
    BY <1>p, <2>1, HeadOfQueue, JobKind DEF EventsAt
  <2>5. CASE t = w
    <3>1. /\ EventsAt(w) \subseteq Nat
          /\ \A k \in EventsAt(w)' : k + 1 \in EventsAt(w) /\ queue'[w][k] = queue[w][k + 1]
          /\ \A k \in EventsAt(w) : k > 1 => k - 1 \in EventsAt(w)' /\ queue'[w][k - 1] = queue[w][k]
      BY <1>p, <2>1, <2>5, EventsLess
    <3>2. \A k \in EventsAt(w) : k > 1
      BY <2>4, <2>5, <3>1, <1>p DEF EventsAt, Types, TabTypes
    <3>3. \A x \in Event : (\E k \in EventsAt(w)' : queue'[w][k].id = x.id /\ queue'[w][k].diff = x.diff)
                       <=> (\E k \in EventsAt(w) : queue[w][k].id = x.id /\ queue[w][k].diff = x.diff)
      BY <3>1, <3>2
    <3> QED
      BY <2>2, <2>3, <3>3 DEF Plan, Still
  <2>6. CASE t # w
    BY <1>1, <1>p, <2>1, <2>2, <2>3, <2>6, EventsLess
  <2> QED
    BY <2>5, <2>6
<1>5. ASSUME Ack(w) PROVE Plan(w)' = Plan(w)
  <2>1. queue[w] # <<>> /\ queue' = [queue EXCEPT ![w] = Tail(@)] /\ minted' = minted /\ answer[w] # Nil
    BY <1>5, AnsweredLogged DEF Ack
  <2>2. Still
    BY <2>1, OnlyPostsCommit
  <2>3. PICK g \in Events : g.id = queue[w][1].id
    BY <2>1, AnsweredLogged
  <2>4. /\ EventsAt(w) \subseteq Nat
        /\ \A k \in EventsAt(w)' : k + 1 \in EventsAt(w) /\ queue'[w][k] = queue[w][k + 1]
        /\ \A k \in EventsAt(w) : k > 1 => k - 1 \in EventsAt(w)' /\ queue'[w][k - 1] = queue[w][k]
    BY <1>p, <2>1, EventsLess
  <2>5. \A k \in EventsAt(w) : k > 1 \/ k = 1
    BY <2>4, <1>p DEF EventsAt, Types, TabTypes
  <2>6. ASSUME NEW x \in Plan(w), x.id = queue[w][1].id PROVE x \in Events
    <3>1. x.seq \in DOMAIN minted[w] /\ x.id = minted[w][x.seq]
      BY <1>p DEF Plan, InStep
    <3>2. g.seq \in DOMAIN minted[w] /\ g.id = minted[w][g.seq]
      BY <1>p DEF InStep
    <3>3. x.seq = g.seq
      BY <1>p, <2>3, <2>6, <3>1, <3>2 DEF MintedOnce
    <3>4. x = g
      BY <1>p, <3>3
    <3> QED
      BY <3>4
  <2>7. ASSUME NEW x \in Plan(w), x \notin Events PROVE x \in Plan(w)'
    <3>1. /\ x \in Event /\ x.seq \in DOMAIN minted[w] /\ x.id = minted[w][x.seq]
          /\ \E k \in EventsAt(w) : queue[w][k].id = x.id /\ queue[w][k].diff = x.diff
      BY <2>7 DEF Plan
    <3>2. PICK k \in EventsAt(w) : queue[w][k].id = x.id /\ queue[w][k].diff = x.diff
      BY <3>1
    <3>3. k # 1
      BY <2>6, <2>7, <3>2
    <3>4. k - 1 \in EventsAt(w)' /\ queue'[w][k - 1] = queue[w][k]
      BY <2>4, <2>5, <3>3
    <3> QED
      BY <2>1, <3>1, <3>2, <3>4 DEF Plan
  <2>8. ASSUME NEW x \in Plan(w)', x \notin Events' PROVE x \in Plan(w)
    <3>1. /\ x \in Event /\ x.seq \in DOMAIN minted[w] /\ x.id = minted[w][x.seq]
          /\ \E k \in EventsAt(w)' : queue'[w][k].id = x.id /\ queue'[w][k].diff = x.diff
      BY <2>1, <2>8 DEF Plan
    <3> QED
      BY <2>4, <3>1 DEF Plan
  <2>9. Events' = Events /\ Events' \subseteq Plan(w)'
    BY <2>2 DEF Still, Plan
  <2> QED
    BY <1>p, <2>7, <2>8, <2>9
<1>6. ASSUME NEW v \in OneWrite, Edit(w, v) PROVE Planning(w)
    BY <1>6, EditPlans DEF Alone
<1>7. ASSUME UNCHANGED <<queue, minted, answer>> PROVE Plan(w)' = Plan(w)
    BY <1>1, <1>7, OnlyPostsCommit
<1>8. ASSUME \/ \E t \in Tabs : Receive(t) \/ ServeCatchUp(t) \/ FoldCatchUp(t) \/ Drop(t) \/ Connect(t)
             \/ OtherBoot \/ ServerRestarts \/ UNCHANGED vars
      PROVE  UNCHANGED <<queue, minted, answer>>
    BY <1>8 DEF Receive, ServeCatchUp, FoldCatchUp, Drop, Connect, OtherBoot, ServerRestarts, vars, tabVars, ghosts
<1> QED
    BY <1>2, <1>3, <1>4, <1>5, <1>6, <1>7, <1>8, OneWriterSteps

\* The events of the log keep their place among the ids minted.
LEMMA PlanMinted ==
    ASSUME NEW w, Alone(w), ConvergeInv(w)
    PROVE  \A e \in Plan(w) : e.seq \in DOMAIN minted[w] /\ e.id = minted[w][e.seq]
BY DEF Plan, ConvergeInv, InStep

\* Nothing but an edit moves the writer's store and watermark: it has all the log holds.
LEMMA WriterMoves ==
    ASSUME NEW w, Alone(w), ConvergeInv(w), [SyncNext]_vars
    PROVE  \/ Planning(w)
           \/ /\ tstore'[w] = tstore[w] /\ lastSeq'[w] = lastSeq[w]
              /\ minted' = minted /\ Plan(w)' = Plan(w)
<1>p. /\ Types /\ FramesTrue /\ RepliesTrue /\ w \in Tabs /\ Top \in Nat /\ lastSeq[w] \in Nat /\ Top <= lastSeq[w]
      /\ \A e \in Events : e.seq \in Nat /\ 1 <= e.seq /\ e.seq <= Top
    BY ConvergeParts, AloneMeans, WriterAhead
<1>1. ASSUME NEW v \in OneWrite, Edit(w, v) PROVE Planning(w)
    BY <1>1, EditPlans DEF Alone
<1>2. ASSUME Ack(w) PROVE tstore' = tstore /\ lastSeq'[w] = lastSeq[w] /\ minted' = minted
  <2>1. answer[w] # Nil /\ lastSeq' = [lastSeq EXCEPT ![w] = Max2(@, answer[w])] /\ lastSeq \in [Tabs -> Nat]
    BY <1>2, <1>p, BoundAssumption DEF Ack, Types, TabTypes
  <2>2. PICK e \in Events : e.seq = answer[w]
    BY <2>1, AnsweredLogged
  <2>3. Max2(lastSeq[w], answer[w]) = lastSeq[w]
    BY <1>p, <2>2 DEF Max2
  <2> QED
    BY <1>2, <1>p, <2>1, <2>3 DEF Ack
<1>3. ASSUME NEW t \in Tabs, Receive(t) PROVE tstore'[w] = tstore[w] /\ lastSeq'[w] = lastSeq[w] /\ minted' = minted
  <2>1. CASE t # w
    BY <1>3, <1>p, <2>1 DEF Receive, Types, TabTypes, ghosts
  <2>2. CASE t = w
    <3>1. bus[w] # <<>> /\ 1 \in DOMAIN bus[w] /\ Head(bus[w]) = bus[w][1]
      BY <1>3, <1>p, <2>2 DEF Receive, Types, TabTypes
    <3>2. PICK e \in Events : e.seq = Head(bus[w]).seq
      BY <1>p, <3>1 DEF FramesTrue
    <3>3. Head(bus[w]).seq <= lastSeq[w]
      BY <1>p, <3>2
    <3>4. classifyInbound(Head(bus[w]).seq, lastSeq[w]) = "have"
      BY <3>3 DEF classifyInbound
    <3> QED
      BY <1>3, <2>2, <3>4 DEF Receive, ghosts
  <2> QED
    BY <2>1, <2>2
<1>4. ASSUME NEW t \in Tabs, FoldCatchUp(t) PROVE tstore'[w] = tstore[w] /\ lastSeq'[w] = lastSeq[w] /\ minted' = minted
  <2>1. CASE t # w
    BY <1>4, <1>p, <2>1 DEF FoldCatchUp, Types, TabTypes, ghosts
  <2>2. CASE t = w
    <3>1. ReplyOnItsWay(w)
      BY <1>4, <2>2 DEF FoldCatchUp
    <3>2. ReplyTrue(catchUp[w].reply, catchUp[w].since, Events)
      BY <1>p, <3>1 DEF RepliesTrue, ReplyOnItsWay
    <3>3. \A k \in DOMAIN catchUp[w].reply : catchUp[w].reply[k].seq <= lastSeq[w]
      BY <1>p, <3>2 DEF ReplyTrue
    <3>4. {i \in DOMAIN catchUp[w].reply : catchUp[w].reply[i].seq > lastSeq[w]} = {}
      <4>1. \A k \in DOMAIN catchUp[w].reply : catchUp[w].reply[k].seq \in Nat
        BY <1>p, <3>2 DEF ReplyTrue
      <4> QED
        BY <1>p, <3>3, <4>1
    <3>5. Missed(w) = <<>>
      <4>1. Missed(w) # <<>> => 1 \in 1..Len(Missed(w))
        BY <1>p, <3>1, MissedType
      <4>2. \A k \in 1..Len(Missed(w)) : FALSE
        <5>1. PICK f : Picks(f, Missed(w), catchUp[w].reply,
                                {i \in DOMAIN catchUp[w].reply : catchUp[w].reply[i].seq > lastSeq[w]})
          BY <1>p, <3>1, MissedIs
        <5> QED
          BY <3>4, <5>1 DEF Picks
      <4> QED
        BY <4>1, <4>2
    <3> QED
      BY <1>4, <2>2, <3>5 DEF FoldCatchUp, Missed, ghosts
  <2> QED
    BY <2>1, <2>2
<1>5. ASSUME \/ PostEvent(w)
             \/ \E t \in Tabs : SnapshotTimer(t) \/ PostSnapshot(t) \/ ServeCatchUp(t) \/ Drop(t) \/ Connect(t)
             \/ OtherBoot \/ ServerRestarts \/ UNCHANGED vars
      PROVE  tstore' = tstore /\ lastSeq' = lastSeq /\ minted' = minted
    BY <1>5 DEF PostEvent, SnapshotTimer, PostSnapshot, ServeCatchUp, Drop, Connect, OtherBoot, ServerRestarts, vars, tabVars, ghosts
<1> QED
    BY <1>1, <1>2, <1>3, <1>4, <1>5, OneWriterSteps, PlanMoves

LEMMA ContiguousStep ==
    ASSUME NEW w, Alone(w), ConvergeInv(w), [SyncNext]_vars
    PROVE  Contiguous'
<1>p. Contiguous /\ w \in Tabs /\ Top \in Nat
    BY ConvergeParts, AloneMeans DEF ConvergeInv
<1>1. CASE Still
    BY <1>1, <1>p DEF Still, Contiguous
<1>2. CASE PostEvent(w)
  <2>1. PICK e : e.seq = Top + 1 /\ Events' = Events \cup {e} /\ Top' = Top + 1
    BY <1>p, <1>2, WriterPosts
  <2>2. ASSUME NEW n \in 1..(Top + 1) PROVE \E g \in Events \cup {e} : g.seq = n
    <3>1. CASE n = Top + 1
      BY <2>1, <3>1
    <3>2. CASE n # Top + 1
      <4>1. n \in 1..Top
        BY <1>p, <3>2
      <4> QED
        BY <1>p, <4>1 DEF Contiguous
    <3> QED
      BY <3>1, <3>2
  <2> QED
    BY <2>1, <2>2 DEF Contiguous
<1> QED
    BY <1>1, <1>2, ServerMoves DEF SnapshotKept

LEMMA InStepStep ==
    ASSUME NEW w, Alone(w), ConvergeInv(w), [SyncNext]_vars
    PROVE  InStep(w)'
<1>p. /\ Types /\ TabTypes /\ InStep(w) /\ w \in Tabs /\ Events \subseteq Plan(w)
      /\ lastSeq[w] = Len(minted[w]) /\ Writers = {w}
    BY ConvergeParts, AloneMeans, PlanIs DEF ConvergeInv, InStep, Alone
<1>1. CASE Planning(w)
  <2>1. PICK v \in OneWrite : Edit(w, v)
    BY <1>1 DEF Planning
  <2>2. PICK id \in EventIds : /\ minted' = [minted EXCEPT ![w] = Append(@, id)]
                               /\ lastSeq' = [lastSeq EXCEPT ![w] = @ + 1] /\ answer' = answer
    BY <1>p, <2>1, Edited
  <2>3. Still
    BY <2>2, OnlyPostsCommit
  <2>4. lastSeq'[w] = lastSeq[w] + 1 /\ Len(minted'[w]) = Len(minted[w]) + 1
    BY <1>p, <2>2 DEF TabTypes
  <2>5. /\ DOMAIN minted[w] \subseteq DOMAIN minted'[w]
        /\ \A i \in DOMAIN minted[w] : minted'[w][i] = minted[w][i]
    BY <1>p, <2>2, OneMoreMinted
  <2> QED
    BY <1>p, <2>3, <2>4, <2>5 DEF InStep, Still
<1>2. CASE lastSeq'[w] = lastSeq[w] /\ minted' = minted /\ Plan(w)' = Plan(w)
  <2>1. Events' \subseteq Plan(w)
    BY <1>2 DEF Plan
  <2>2. \A e \in Plan(w) : e.seq \in DOMAIN minted[w] /\ e.id = minted[w][e.seq]
    BY PlanMinted
  <2> QED
    BY <1>p, <1>2, <2>1, <2>2 DEF InStep
<1> QED
    BY <1>1, <1>2, WriterMoves

LEMMA WriterShowsStep ==
    ASSUME NEW w, Alone(w), ConvergeInv(w), [SyncNext]_vars
    PROVE  WriterShows(w)'
<1>p. /\ Types /\ TabTypes /\ WriterShows(w) /\ w \in Tabs /\ Writers = {w} /\ lastSeq[w] \in Nat
      /\ Plan(w) \in SUBSET Event /\ \A e \in Plan(w) : e.seq \in Nat /\ e.seq <= lastSeq[w]
    BY ConvergeParts, AloneMeans, PlanIs DEF ConvergeInv, Alone
<1>1. CASE Planning(w)
  <2>1. PICK v \in OneWrite, e \in Event :
           /\ Edit(w, v) /\ Plan(w)' = Plan(w) \cup {e} /\ e.seq = lastSeq[w] + 1
           /\ e.diff = build(touch(emptyDiff, tstore[w], v))
    BY <1>1 DEF Planning
  <2>2. tstore'[w] = write(tstore[w], v) /\ lastSeq'[w] = lastSeq[w] + 1
    BY <1>p, <2>1 DEF Edit, TabTypes
  <2>3. tstore'[w] = applyDiff(tstore[w], e.diff)
    BY <1>p, <2>1, <2>2, EditType
  <2>4. ~(e.seq <= lastSeq[w]) /\ lastSeq[w] < e.seq
    BY <1>p, <2>1
  <2> DEFINE plan == Plan(w) \cup {e}
  <2>5. Shows(tstore[w], plan, lastSeq[w])
    BY <1>p, <2>4, ShowsMore DEF WriterShows
  <2>6. plan \in SUBSET Event /\ e \in plan /\ \A g \in plan : g.seq <= e.seq => g.seq <= lastSeq[w] \/ g = e
    BY <1>p
  <2> HIDE DEF plan
  <2>7. Shows(applyDiff(tstore[w], e.diff), plan, e.seq)
    BY <1>p, <2>4, <2>5, <2>6, ShowsNext
  <2>8. Plan(w)' = plan
    BY <2>1 DEF plan
  <2> QED
    BY <2>1, <2>2, <2>3, <2>7, <2>8 DEF WriterShows
<1>2. CASE tstore'[w] = tstore[w] /\ lastSeq'[w] = lastSeq[w] /\ Plan(w)' = Plan(w)
    BY <1>p, <1>2 DEF WriterShows
<1> QED
    BY <1>1, <1>2, WriterMoves

LEMMA HeadUnsentStep ==
    ASSUME NEW w, Alone(w), ConvergeInv(w), [SyncNext]_vars
    PROVE  HeadUnsent(w)'
<1>p. /\ Types /\ TabTypes /\ HeadUnsent(w) /\ Fresh /\ NotYetLogged /\ w \in Tabs /\ Writers = {w}
      /\ EventsAt(w) \subseteq Nat
    BY ConvergeParts, AloneMeans, EventsPositions DEF ConvergeInv, Alone
<1>l. Still => Logged' = Logged
  <2>1. Logged' = {e.id : e \in Events'}
    BY DEF Logged, Events
  <2> QED
    BY <2>1, LoggedIs DEF Still
<1>1. ASSUME PostEvent(w) PROVE HeadUnsent(w)'
  <2>1. answer[w] = Nil /\ (answer[w] # Nil \/ answer'[w] = answer[w] => ~PostEvent(w))
    BY <1>p, <1>1, WriterPosts, OnlyPostsCommit
  <2> QED
    BY <1>1, <2>1 DEF HeadUnsent
<1>2. ASSUME NEW v \in OneWrite, Edit(w, v) PROVE HeadUnsent(w)'
  <2>1. PICK id \in EventIds, job \in Job :
           /\ job \in EventJob /\ job.id = id
           /\ id \notin Minted /\ Enqueue(w, job) /\ answer' = answer
    BY <1>p, <1>2, EditMoves DEF EditMove
  <2>2. Still
    BY <2>1, OnlyPostsCommit
  <2>3. id \notin Logged
    BY <1>p, <2>1, NoIdAssumption DEF Fresh
  <2>4. /\ EventsAt(w)' = EventsAt(w) \cup {Len(queue[w]) + 1}
        /\ \A k \in EventsAt(w) : queue'[w][k] = queue[w][k]
        /\ queue'[w][Len(queue[w]) + 1] = job
    BY <1>p, <2>1, EventsMore
  <2> QED
    BY <1>p, <1>l, <2>1, <2>2, <2>3, <2>4 DEF HeadUnsent
<1>3. ASSUME Ack(w) PROVE HeadUnsent(w)'
  <2>1. queue[w] # <<>> /\ queue' = [queue EXCEPT ![w] = Tail(@)] /\ answer[w] # Nil
    BY <1>3, AnsweredLogged DEF Ack
  <2>2. Still
    BY <2>1, OnlyPostsCommit
  <2>3. /\ EventsAt(w)' \subseteq Nat
        /\ \A k \in EventsAt(w)' : k + 1 \in EventsAt(w) /\ k >= 1 /\ queue'[w][k] = queue[w][k + 1]
    BY <1>p, <2>1, EventsLess
  <2>4. \A k \in EventsAt(w)' : k + 1 > 1
    BY <2>3
  <2> QED
    BY <1>p, <1>l, <2>2, <2>3, <2>4 DEF HeadUnsent, NotYetLogged
<1>4. ASSUME NEW t \in Tabs, SnapshotTimer(t) PROVE HeadUnsent(w)'
  <2>1. PICK job \in Snapshot : job \in Job /\ Enqueue(t, job)
    BY <1>p, <1>4, SnapshotJob DEF SnapshotTimer
  <2>2. answer' = answer
    BY <1>4 DEF SnapshotTimer
  <2>3. Still
    BY <2>2, OnlyPostsCommit
  <2>4. EventsAt(w)' = EventsAt(w) /\ \A k \in EventsAt(w) : queue'[w][k] = queue[w][k]
    BY <1>p, <2>1, EventsMore
  <2> QED
    BY <1>p, <1>l, <2>2, <2>3, <2>4 DEF HeadUnsent
<1>5. ASSUME NEW t \in Tabs, PostSnapshot(t) PROVE HeadUnsent(w)'
  <2>1. queue[t] # <<>> /\ queue' = [queue EXCEPT ![t] = Tail(@)] /\ answer' = answer
    BY <1>5 DEF PostSnapshot, HeadIs
  <2>2. Still
    BY <2>1, OnlyPostsCommit
  <2>3. \A k \in EventsAt(w)' : \E l \in EventsAt(w) : queue'[w][k] = queue[w][l]
    <3>1. CASE t = w
      <4>1. \A k \in EventsAt(w)' : k + 1 \in EventsAt(w) /\ queue'[w][k] = queue[w][k + 1]
        BY <1>p, <2>1, <3>1, EventsLess
      <4> QED
        BY <4>1
    <3>2. CASE t # w
      <4>1. queue'[w] = queue[w] /\ EventsAt(w)' = EventsAt(w)
        BY <1>p, <2>1, <3>2, EventsLess
      <4> QED
        BY <4>1
    <3> QED
      BY <3>1, <3>2
  <2> QED
    BY <1>p, <1>l, <2>1, <2>2, <2>3 DEF HeadUnsent
<1>6. ASSUME \/ \E t \in Tabs : Receive(t) \/ ServeCatchUp(t) \/ FoldCatchUp(t) \/ Drop(t) \/ Connect(t)
             \/ OtherBoot \/ ServerRestarts \/ UNCHANGED vars
      PROVE  HeadUnsent(w)'
  <2>1. UNCHANGED <<queue, answer>>
    BY <1>6 DEF Receive, ServeCatchUp, FoldCatchUp, Drop, Connect, OtherBoot, ServerRestarts, vars, tabVars
  <2>2. Still
    BY <2>1, OnlyPostsCommit
  <2> QED
    BY <1>p, <1>l, <2>1, <2>2 DEF HeadUnsent, EventsAt
<1> QED
    BY <1>1, <1>2, <1>3, <1>4, <1>5, <1>6, OneWriterSteps

\* The server's board shows the log.
LEMMA EngineShows ==
    ASSUME NEW w, Alone(w), ConvergeInv(w)
    PROVE  Shows(Engine.store, Events, Top)
<1>p. /\ EngineParts /\ SeqsIncrease /\ FilesShow /\ LiveShows /\ Events \in SUBSET Event /\ Top \in Nat
      /\ \A e \in Events : e.seq \in Nat /\ 1 <= e.seq /\ e.seq <= Top
      /\ SnapSeq(snap) <= Top
    BY ConvergeParts, TopType DEF ConvergeInv
<1>1. CASE entry # NoEntry
    BY <1>p, <1>1 DEF Engine, LiveShows
<1>2. CASE entry = NoEntry
  <2> DEFINE base == IF snap = NoSnapshot THEN NoRecords ELSE snap.records
  <2>1. Engine.store = FoldRecords(log, snap)
    BY <1>2 DEF Engine, hydrateEntry
  <2>2. log \in Seq(LogLine) /\ snap \in Stored
    BY <1>p DEF EngineParts, Stored
  <2>3. Increasing(log)
    BY <1>p DEF SeqsIncrease, Increasing
  <2>4. Shows(base, Events, SnapSeq(snap))
    <3>1. CASE snap = NoSnapshot
      <4>1. \A e \in Events : ~(e.seq <= 0)
        BY <1>p
      <4>2. NoRecords \in Records /\ \A id \in Ids : NoRecords[id] = Absent
        BY DEF NoRecords, Records, Slot
      <4>3. SnapSeq(snap) = 0 /\ base = NoRecords
        BY <3>1 DEF SnapSeq
      <4> HIDE DEF base
      <4> QED
        BY <4>1, <4>2, <4>3 DEF Shows
    <3>2. CASE snap # NoSnapshot
      BY <1>p, <3>2 DEF FilesShow, SnapSeq
    <3> QED
      BY <3>1, <3>2
  <2>5. \A id \in Ids : Below(snap, id) = base[id]
    BY DEF Below, NoRecords
  <2>6. \A i \in Readable(log) : log[i] \in Events /\ log[i].seq <= Top
    BY <1>p DEF Events
  <2>7. \A e \in Events : SnapSeq(snap) < e.seq /\ e.seq <= Top => \E i \in Readable(log) : log[i] = e
    BY DEF Events
  <2> HIDE DEF base
  <2>8. Shows(FoldRecords(log, snap), Events, Top)
    BY <1>p, <2>2, <2>3, <2>4, <2>5, <2>6, <2>7, ShowsFold
  <2> QED
    BY <2>1, <2>8
<1> QED
    BY <1>1, <1>2

LEMMA FilesShowStep ==
    ASSUME NEW w, Alone(w), ConvergeInv(w), [SyncNext]_vars
    PROVE  FilesShow'
<1>p. /\ FilesShow /\ EngineParts /\ w \in Tabs /\ Top \in Nat /\ SnapSeq(snap) <= Top /\ Types
    BY ConvergeParts, AloneMeans, TopType DEF ConvergeInv
<1>1. CASE Still /\ snap' = snap
    BY <1>1, <1>p DEF Still, FilesShow
<1>2. ASSUME NEW t \in Tabs, SnapshotKept(t) PROVE FilesShow'
  <2>1. 1 \in DOMAIN queue[t] \ EventsAt(t) /\ Events' = Events /\ snap' = queue[t][1]
    BY <1>2 DEF SnapshotKept, Still
  <2>2. queue[t][1].seq <= Top /\ Shows(queue[t][1].records, Plan(w), queue[t][1].seq)
    BY <2>1, SnapshotEarned DEF ConvergeInv, SnapshotsShow, SnapshotFits
  <2>3. queue[t][1].seq \in Nat
    <3>1. queue[t][1] \in Job /\ "id" \notin DOMAIN queue[t][1]
      BY <1>p, <2>1 DEF Types, TabTypes, EventsAt
    <3> QED
      BY <3>1, JobKind, BoundAssumption DEF Snapshot
  <2>4. Shows(queue[t][1].records, Events, queue[t][1].seq)
    BY <2>2, <2>3, PlanAlike
  <2> QED
    BY <2>1, <2>4 DEF FilesShow
<1>3. CASE PostEvent(w)
  <2>1. PICK e : e.seq = Top + 1 /\ Events' = Events \cup {e} /\ snap' = snap
    BY <1>p, <1>3, WriterPosts
  <2>2. ASSUME snap # NoSnapshot PROVE Shows(snap.records, Events \cup {e}, snap.seq)
    <3>1. SnapSeq(snap) = snap.seq /\ snap.seq \in Nat
      BY <1>p, <2>2, BoundAssumption DEF SnapSeq, EngineParts, Snapshot, Stored
    <3>2. ~(e.seq <= snap.seq)
      BY <1>p, <2>1, <3>1
    <3> QED
      BY <1>p, <2>2, <3>2, ShowsMore DEF FilesShow
  <2> QED
    BY <2>1, <2>2 DEF FilesShow
<1> QED
    BY <1>1, <1>2, <1>3, ServerMoves

LEMMA LiveShowsStep ==
    ASSUME NEW w, Alone(w), ConvergeInv(w), [SyncNext]_vars
    PROVE  LiveShows'
<1>p. /\ LiveShows /\ w \in Tabs /\ Top \in Nat /\ Events \in SUBSET Event
      /\ Plan(w) \in SUBSET Event /\ \A e \in Events : e.seq \in Nat /\ e.seq <= Top
    BY ConvergeParts, AloneMeans, PlanIs DEF ConvergeInv
<1>1. CASE Still /\ (entry' = entry \/ entry' = NoEntry)
    BY <1>1, <1>p DEF Still, LiveShows
<1>2. CASE PostEvent(w)
  <2>1. PICK e \in Plan(w) : /\ e.seq = Top + 1 /\ Events' = Events \cup {e} /\ Top' = Top + 1
                             /\ entry'.store = applyDiff(Engine.store, e.diff)
    BY <1>p, <1>2, WriterPosts
  <2> DEFINE events == Events \cup {e}
  <2>2. Shows(Engine.store, events, Top)
    BY <1>p, <2>1, EngineShows, ShowsMore
  <2>3. /\ events \in SUBSET Event /\ e \in events /\ Top < e.seq
        /\ \A g \in events : g.seq <= e.seq => g.seq <= Top \/ g = e
    BY <1>p, <2>1
  <2>e. Events' = events
    BY <2>1
  <2> HIDE DEF events
  <2>4. Shows(applyDiff(Engine.store, e.diff), events, e.seq)
    BY <1>p, <2>2, <2>3, ShowsNext
  <2> QED
    BY <2>1, <2>e, <2>4 DEF LiveShows
<1> QED
    BY <1>1, <1>2, ServerMoves DEF SnapshotKept

LEMMA InOrderStep ==
    ASSUME NEW w, Alone(w), ConvergeInv(w), [SyncNext]_vars
    PROVE  InOrder'
<1>p. /\ InOrder /\ Types /\ TabTypes /\ FramesTrue /\ w \in Tabs /\ Top \in Nat
      /\ \A e \in Events : e.seq \in Nat /\ e.seq <= Top
    BY ConvergeParts, AloneMeans DEF ConvergeInv
<1>1. ASSUME PostEvent(w) PROVE InOrder'
  <2>1. PICK e : e.seq = Top + 1 /\ Broadcast(e.diff, e.seq, w)
    BY <1>p, <1>1, WriterPosts
  <2>2. SUFFICES ASSUME NEW t \in Tabs, NEW k \in DOMAIN bus'[t], NEW l \in DOMAIN bus'[t], k < l
                 PROVE  bus'[t][k].seq < bus'[t][l].seq
    BY DEF InOrder
  <2> DEFINE frame == [diff |-> e.diff, seq |-> e.seq]
  <2>3. bus'[t] = bus[t] \/ bus'[t] = Append(bus[t], frame)
    BY <2>1 DEF Broadcast
  <2>4. bus[t] \in Seq(Frame) /\ DOMAIN bus[t] = 1..Len(bus[t]) /\ Len(bus[t]) \in Nat
    BY <1>p DEF TabTypes
  <2>5. \A j \in DOMAIN bus[t] : bus[t][j].seq \in Nat /\ bus[t][j].seq < e.seq
    BY <1>p, <2>1 DEF FramesTrue
  <2>f. frame.seq = e.seq
    OBVIOUS
  <2> HIDE DEF frame
  <2>6. CASE bus'[t] = bus[t]
    BY <1>p, <2>2, <2>6 DEF InOrder
  <2>7. CASE bus'[t] = Append(bus[t], frame)
    <3>1. /\ DOMAIN bus'[t] = 1..(Len(bus[t]) + 1) /\ bus'[t][Len(bus[t]) + 1] = frame
          /\ \A j \in DOMAIN bus[t] : bus'[t][j] = bus[t][j]
      BY <2>4, <2>7
    <3>2. k \in DOMAIN bus[t]
      BY <2>2, <2>4, <3>1
    <3>3. CASE l \in DOMAIN bus[t]
      BY <1>p, <2>2, <3>1, <3>2, <3>3 DEF InOrder
    <3>4. CASE l \notin DOMAIN bus[t]
      <4>1. l = Len(bus[t]) + 1
        BY <2>4, <3>1, <3>4
      <4> QED
        BY <2>5, <2>f, <3>1, <3>2, <4>1
    <3> QED
      BY <3>3, <3>4
  <2> QED
    BY <2>3, <2>6, <2>7
<1>2. ASSUME NEW t \in Tabs, Receive(t) PROVE InOrder'
  <2>1. bus[t] \in Seq(Frame) /\ bus[t] # <<>> /\ bus' = [bus EXCEPT ![t] = Tail(@)] /\ bus \in [Tabs -> Seq(Frame)]
    BY <1>p, <1>2 DEF Receive, TabTypes
  <2>2. /\ bus'[t] = Tail(bus[t])
        /\ \A u \in Tabs \ {t} : bus'[u] = bus[u]
    BY <2>1
  <2>3. \A k \in DOMAIN Tail(bus[t]) : k \in Nat /\ k + 1 \in DOMAIN bus[t] /\ Tail(bus[t])[k] = bus[t][k + 1]
    BY <2>1
  <2>4. \A k, l \in DOMAIN bus'[t] : k < l => bus'[t][k].seq < bus'[t][l].seq
    <3>1. SUFFICES ASSUME NEW k \in DOMAIN bus'[t], NEW l \in DOMAIN bus'[t], k < l
                   PROVE  bus'[t][k].seq < bus'[t][l].seq
      OBVIOUS
    <3>2. k + 1 < l + 1
      BY <2>2, <2>3, <3>1
    <3> QED
      BY <1>p, <2>2, <2>3, <3>2 DEF InOrder
  <2> QED
    BY <1>p, <2>2, <2>4 DEF InOrder
<1>3. ASSUME NEW t \in Tabs, Drop(t) PROVE InOrder'
    BY <1>p, <1>3 DEF Drop, InOrder, TabTypes
<1>4. ASSUME ServerRestarts PROVE InOrder'
    BY <1>p, <1>4 DEF ServerRestarts, InOrder
<1>5. ASSUME \/ \E v \in OneWrite : Edit(w, v)
             \/ Ack(w) \/ OtherBoot \/ UNCHANGED vars
             \/ \E t \in Tabs : SnapshotTimer(t) \/ PostSnapshot(t) \/ ServeCatchUp(t) \/ FoldCatchUp(t) \/ Connect(t)
      PROVE  InOrder'
  <2>1. bus' = bus
    BY <1>5 DEF Edit, Ack, OtherBoot, vars, tabVars, SnapshotTimer, PostSnapshot, ServeCatchUp, FoldCatchUp, Connect
  <2> QED
    BY <1>p, <2>1 DEF InOrder
<1> QED
    BY <1>1, <1>2, <1>3, <1>4, <1>5, OneWriterSteps

LEMMA NoPageGoes ==
    ASSUME NEW w, Alone(w), ConvergeInv(w), [SyncNext]_vars
    PROVE  gone' = {}
<1>1. gone' = gone
    BY OneWriterSteps DEF Edit, PostEvent, Ack, SnapshotTimer, PostSnapshot, Receive, ServeCatchUp, FoldCatchUp, Drop,
       Connect, OtherBoot, ServerRestarts, vars, tabVars, ghosts
<1> QED
    BY <1>1 DEF ConvergeInv

\* SnapshotsShow before and after a step.
LEMMA SnapshotsFit ==
    ASSUME NEW w
    PROVE  /\ SnapshotsShow(w) <=> \A t \in Tabs : \A k \in DOMAIN queue[t] \ EventsAt(t) : SnapshotFits(w, t, k)
           /\ SnapshotsShow(w)' <=> \A t \in Tabs : \A k \in DOMAIN queue'[t] \ EventsAt(t)' : SnapshotFits(w, t, k)'
BY DEF SnapshotsShow

\* A snapshot that stays where it is while nothing else changes.
LEMMA SnapshotsStay ==
    ASSUME NEW w, Alone(w), ConvergeInv(w), UNCHANGED <<queue, minted>>, lastSeq'[w] = lastSeq[w], Plan(w)' = Plan(w),
           Top' = Top \/ Top' = Top + 1
    PROVE  SnapshotsShow(w)'
<1>p. SnapshotsShow(w) /\ Types /\ Top \in Nat
    BY ConvergeParts DEF ConvergeInv
<1>1. SUFFICES ASSUME NEW t \in Tabs, NEW k \in DOMAIN queue[t] \ EventsAt(t) PROVE SnapshotFits(w, t, k)'
    BY SnapshotsFit DEF EventsAt
<1>2. SnapshotFits(w, t, k)
    BY <1>p, SnapshotsFit
<1>3. queue[t][k].seq \in Nat
  <2>1. queue[t][k] \in Job /\ "id" \notin DOMAIN queue[t][k]
    BY <1>p DEF Types, TabTypes, EventsAt
  <2> QED
    BY <2>1, JobKind, BoundAssumption DEF Snapshot
<1>4. queue[t][k].seq <= Top => queue[t][k].seq <= Top'
    BY <1>p, <1>3
<1> QED
    BY <1>2, <1>4 DEF SnapshotFits, EventsAt

\* The snapshots of a queue whose head went out.
LEMMA SnapshotsPop ==
    ASSUME NEW w, Alone(w), ConvergeInv(w), NEW u \in Tabs, queue[u] # <<>>, queue' = [queue EXCEPT ![u] = Tail(@)],
           minted' = minted, lastSeq'[w] = lastSeq[w], Plan(w)' = Plan(w), Top' = Top
    PROVE  SnapshotsShow(w)'
<1>p. SnapshotsShow(w) /\ Types /\ w \in Tabs
    BY ConvergeParts, AloneMeans DEF ConvergeInv
<1>q. /\ \A t \in Tabs \ {u} : queue'[t] = queue[t] /\ EventsAt(t)' = EventsAt(t)
      /\ \A k \in EventsAt(u)' : k + 1 \in EventsAt(u) /\ k >= 1 /\ queue'[u][k] = queue[u][k + 1]
      /\ EventsAt(u)' \subseteq Nat
    BY <1>p, EventsLess
<1>r. /\ queue'[u] = Tail(queue[u])
      /\ \A k \in DOMAIN queue'[u] : k \in Nat /\ k + 1 \in DOMAIN queue[u] /\ queue'[u][k] = queue[u][k + 1]
  <2>1. queue'[u] = Tail(queue[u])
    BY <1>p DEF Types, TabTypes
  <2>2. \A k \in DOMAIN Tail(queue[u]) : k \in Nat /\ k + 1 \in DOMAIN queue[u] /\ Tail(queue[u])[k] = queue[u][k + 1]
    BY <1>p, HeadOfQueue
  <2> QED
    BY <2>1, <2>2
<1>1. SUFFICES ASSUME NEW t \in Tabs, NEW k \in DOMAIN queue'[t] \ EventsAt(t)' PROVE SnapshotFits(w, t, k)'
    BY SnapshotsFit
<1>2. CASE t # u
  <2>1. queue'[t] = queue[t] /\ k \in DOMAIN queue[t] \ EventsAt(t)
    BY <1>1, <1>2, <1>q
  <2>2. SnapshotFits(w, t, k)
    BY <1>p, <2>1, SnapshotsFit
  <2>3. t = w => EventsAt(w)' = EventsAt(w) /\ queue'[w] = queue[w]
    BY <1>2, <1>q
  <2> QED
    BY <2>1, <2>2, <2>3 DEF SnapshotFits
<1>3. CASE t = u
  <2>1. k + 1 \in DOMAIN queue[u] \ EventsAt(u) /\ queue'[u][k] = queue[u][k + 1] /\ k \in Nat
    BY <1>1, <1>3, <1>r DEF EventsAt
  <2>2. SnapshotFits(w, u, k + 1)
    BY <1>p, <2>1, SnapshotsFit
  <2>3. ASSUME u = w, NEW l \in EventsAt(w)', NEW i \in DOMAIN minted[w], k < l, minted[w][i] = queue'[w][l].id
        PROVE  queue'[u][k].seq < i
    <3>1. l + 1 \in EventsAt(w) /\ queue'[w][l] = queue[w][l + 1] /\ l \in Nat
      BY <1>q, <2>3
    <3>2. k + 1 < l + 1
      BY <2>1, <2>3, <3>1
    <3> QED
      BY <2>1, <2>2, <2>3, <3>1, <3>2 DEF SnapshotFits
  <2> QED
    BY <1>3, <2>1, <2>2, <2>3 DEF SnapshotFits
<1> QED
    BY <1>2, <1>3

LEMMA SnapshotsShowStep ==
    ASSUME NEW w, Alone(w), ConvergeInv(w), [SyncNext]_vars
    PROVE  SnapshotsShow(w)'
<1>p. /\ SnapshotsShow(w) /\ WriterShows(w) /\ Types /\ TabTypes /\ ReadersShow /\ Fresh /\ MintedOnce
      /\ w \in Tabs /\ Writers = {w} /\ Readers = Tabs \ {w}
      /\ Top \in Nat /\ lastSeq[w] \in Nat /\ Top <= lastSeq[w] /\ lastSeq[w] = Len(minted[w])
      /\ DOMAIN minted[w] = 1..Len(minted[w]) /\ \A e \in Plan(w) : e.seq \in Nat /\ e.seq <= lastSeq[w]
    BY ConvergeParts, AloneMeans, WriterAhead, PlanIs DEF ConvergeInv, InStep, Alone
<1>s. \A t \in Tabs : \A k \in DOMAIN queue[t] \ EventsAt(t) : queue[t][k].seq \in Nat
  <2> SUFFICES ASSUME NEW t \in Tabs, NEW k \in DOMAIN queue[t] \ EventsAt(t) PROVE queue[t][k].seq \in Nat
    OBVIOUS
  <2>1. queue[t][k] \in Job /\ "id" \notin DOMAIN queue[t][k]
    BY <1>p DEF TabTypes, EventsAt
  <2> QED
    BY <2>1, JobKind, BoundAssumption DEF Snapshot
<1>m. \/ Planning(w)
      \/ /\ tstore'[w] = tstore[w] /\ lastSeq'[w] = lastSeq[w]
         /\ minted' = minted /\ Plan(w)' = Plan(w)
    BY WriterMoves
<1>n. (\E v \in OneWrite : Edit(w, v)) \/ ~Planning(w)
    BY DEF Planning
<1>1. ASSUME NEW v \in OneWrite, Edit(w, v) PROVE SnapshotsShow(w)'
  <2>1. PICK e \in Event : Plan(w)' = Plan(w) \cup {e} /\ e.seq = lastSeq[w] + 1
    BY <1>p, <1>1, EditPlans DEF Planning
  <2>2. PICK id \in EventIds, job \in Job :
           /\ job \in EventJob /\ job.id = id /\ id \notin Minted
           /\ minted' = [minted EXCEPT ![w] = Append(@, id)] /\ Enqueue(w, job)
           /\ lastSeq' = [lastSeq EXCEPT ![w] = @ + 1] /\ answer' = answer
    BY <1>p, <1>1, EditMoves DEF EditMove
  <2>3. Still /\ lastSeq'[w] = lastSeq[w] + 1
    BY <1>p, <2>2, OnlyPostsCommit DEF TabTypes
  <2>4. /\ \A u \in Tabs \ {w} : queue'[u] = queue[u] /\ EventsAt(u)' = EventsAt(u)
        /\ EventsAt(w)' = EventsAt(w) \cup {Len(queue[w]) + 1}
        /\ \A k \in EventsAt(w) : queue'[w][k] = queue[w][k]
        /\ queue'[w][Len(queue[w]) + 1] = job
    BY <1>p, <2>2, EventsMore
  <2>5. /\ DOMAIN queue'[w] = DOMAIN queue[w] \cup {Len(queue[w]) + 1}
        /\ \A k \in DOMAIN queue[w] : queue'[w][k] = queue[w][k]
    <3>1. /\ Len(queue[w]) \in Nat
          /\ DOMAIN queue'[w] = 1..(Len(queue[w]) + 1) /\ DOMAIN queue[w] = 1..Len(queue[w])
          /\ \A k \in DOMAIN queue[w] : queue'[w][k] = queue[w][k]
      BY <1>p, <2>2, Enqueued
    <3> QED
      BY <3>1
  <2>6. /\ DOMAIN minted'[w] = DOMAIN minted[w] \cup {Len(minted[w]) + 1}
        /\ \A i \in DOMAIN minted[w] : minted'[w][i] = minted[w][i]
        /\ minted'[w][Len(minted[w]) + 1] = id
    BY <1>p, <2>2, OneMoreMinted
  <2>7. SUFFICES ASSUME NEW t \in Tabs, NEW k \in DOMAIN queue'[t] \ EventsAt(t)' PROVE SnapshotFits(w, t, k)'
    BY SnapshotsFit
  <2>8. k \in DOMAIN queue[t] \ EventsAt(t) /\ queue'[t][k] = queue[t][k]
    BY <1>p, <2>4, <2>5, <2>7
  <2>9. SnapshotFits(w, t, k) /\ queue[t][k].seq \in Nat
    BY <1>p, <1>s, <2>8, SnapshotsFit
  <2>10. Shows(queue[t][k].records, Plan(w) \cup {e}, queue[t][k].seq)
    <3>1. ~(e.seq <= queue[t][k].seq)
      BY <1>p, <2>1, <2>9 DEF SnapshotFits
    <3> QED
      BY <2>9, <3>1, ShowsMore DEF SnapshotFits
  <2>11. queue[t][k].seq <= lastSeq'[w]
    BY <1>p, <2>3, <2>9 DEF SnapshotFits
  <2>12. ASSUME t = w, NEW l \in EventsAt(w)', NEW i \in DOMAIN minted'[w], k < l, minted'[w][i] = queue'[w][l].id
         PROVE  queue[t][k].seq < i
    <3>1. CASE i = Len(minted[w]) + 1
      BY <1>p, <2>9, <3>1 DEF SnapshotFits
    <3>2. CASE i \in DOMAIN minted[w]
      <4>1. minted'[w][i] = minted[w][i] /\ minted[w][i] # id
        BY <1>p, <2>2, <2>6, <3>2 DEF Minted, Range
      <4>2. l \in EventsAt(w) /\ queue'[w][l] = queue[w][l]
        BY <2>2, <2>4, <2>12, <4>1
      <4> QED
        BY <2>9, <2>12, <3>2, <4>1, <4>2 DEF SnapshotFits
    <3> QED
      BY <2>6, <2>12, <3>1, <3>2
  <2>13. Top' = Top /\ (t # w => queue[t][k].seq <= Top)
    BY <2>3, <2>9 DEF Still, SnapshotFits
  <2> QED
    BY <2>1, <2>8, <2>10, <2>11, <2>12, <2>13 DEF SnapshotFits
<1>2. ASSUME NEW u \in Tabs, SnapshotTimer(u) PROVE SnapshotsShow(w)'
  <2>1. PICK job \in Snapshot : /\ job \in Job /\ Enqueue(u, job) /\ job = [records |-> tstore[u], seq |-> lastSeq[u]]
    BY <1>p, <1>2, SnapshotJob DEF SnapshotTimer
  <2>2. answer' = answer /\ minted' = minted /\ lastSeq' = lastSeq
    BY <1>2 DEF SnapshotTimer, ghosts
  <2>3. Still
    BY <2>2, OnlyPostsCommit
  <2>p. Plan(w)' = Plan(w)
    <3>1. CASE Planning(w)
      BY <1>p, <2>2, <3>1 DEF Planning, Edit, TabTypes
    <3> QED
      BY <1>m, <3>1
  <2>4. /\ \A t \in Tabs \ {u} : queue'[t] = queue[t] /\ EventsAt(t)' = EventsAt(t)
        /\ EventsAt(u)' = EventsAt(u) /\ EventsAt(u) \subseteq 1..Len(queue[u])
        /\ \A k \in EventsAt(u) : queue'[u][k] = queue[u][k]
        /\ queue'[u][Len(queue[u]) + 1] = job
    BY <1>p, <2>1, EventsMore
  <2>5. /\ DOMAIN queue'[u] = DOMAIN queue[u] \cup {Len(queue[u]) + 1} /\ Len(queue[u]) \in Nat
        /\ \A k \in DOMAIN queue[u] : queue'[u][k] = queue[u][k]
    <3>1. /\ Len(queue[u]) \in Nat
          /\ DOMAIN queue'[u] = 1..(Len(queue[u]) + 1) /\ DOMAIN queue[u] = 1..Len(queue[u])
          /\ \A k \in DOMAIN queue[u] : queue'[u][k] = queue[u][k]
      BY <1>p, <2>1, Enqueued
    <3> QED
      BY <3>1
  <2>6. SUFFICES ASSUME NEW t \in Tabs, NEW k \in DOMAIN queue'[t] \ EventsAt(t)' PROVE SnapshotFits(w, t, k)'
    BY SnapshotsFit
  <2>e. EventsAt(w)' = EventsAt(w) /\ \A l \in EventsAt(w) : queue'[w][l] = queue[w][l]
    BY <1>p, <2>4
  <2>7. CASE k \in DOMAIN queue[t]
    <3>1. k \in DOMAIN queue[t] \ EventsAt(t) /\ queue'[t][k] = queue[t][k]
      BY <1>p, <2>4, <2>5, <2>6, <2>7
    <3>2. SnapshotFits(w, t, k)
      BY <1>p, <3>1, SnapshotsFit
    <3> QED
      BY <2>2, <2>3, <2>p, <2>e, <3>1, <3>2 DEF SnapshotFits, Still
  <2>8. CASE k \notin DOMAIN queue[t]
    <3>1. t = u /\ k = Len(queue[u]) + 1 /\ queue'[t][k] = job
      BY <2>4, <2>5, <2>6, <2>8
    <3>2. job.records = tstore[u] /\ job.seq = lastSeq[u]
      BY <2>1
    <3>3. CASE u = w
      <4>1. \A l \in EventsAt(w) : ~(k < l)
        BY <2>4, <2>5, <3>1, <3>3
      <4> QED
        BY <1>p, <2>2, <2>p, <2>e, <3>1, <3>2, <3>3, <4>1 DEF SnapshotFits, WriterShows
    <3>4. CASE u # w
      <4>1. Shows(tstore[u], Events, lastSeq[u]) /\ lastSeq[u] <= Top /\ lastSeq[u] \in Nat
        BY <1>p, <3>4, BoundAssumption DEF ReadersShow, TabTypes
      <4>2. Shows(tstore[u], Plan(w), lastSeq[u]) /\ lastSeq[u] <= lastSeq[w]
        BY <1>p, <4>1, PlanAlike
      <4> QED
        BY <2>2, <2>3, <2>p, <3>1, <3>2, <3>4, <4>1, <4>2 DEF SnapshotFits, Still
    <3> QED
      BY <3>3, <3>4
  <2> QED
    BY <2>7, <2>8
<1>3. ASSUME ~(\E v \in OneWrite : Edit(w, v)) PROVE minted' = minted /\ lastSeq'[w] = lastSeq[w] /\ Plan(w)' = Plan(w)
    BY <1>3, <1>m, <1>n
<1>4. ASSUME NEW u \in Tabs, PostSnapshot(u), ~(\E v \in OneWrite : Edit(w, v)) PROVE SnapshotsShow(w)'
  <2>1. queue[u] # <<>> /\ queue' = [queue EXCEPT ![u] = Tail(@)] /\ answer' = answer
    BY <1>4 DEF PostSnapshot, HeadIs
  <2>2. Top' = Top
    BY <2>1, OnlyPostsCommit DEF Still
  <2> QED
    BY <1>3, <1>4, <2>1, <2>2, SnapshotsPop
<1>5. ASSUME Ack(w), ~(\E v \in OneWrite : Edit(w, v)) PROVE SnapshotsShow(w)'
  <2>1. queue[w] # <<>> /\ queue' = [queue EXCEPT ![w] = Tail(@)] /\ answer[w] # Nil
    BY <1>5, AnsweredLogged DEF Ack
  <2>2. Top' = Top
    BY <2>1, OnlyPostsCommit DEF Still
  <2> QED
    BY <1>p, <1>3, <1>5, <2>1, <2>2, SnapshotsPop
<1>6. ASSUME \/ PostEvent(w) \/ OtherBoot \/ ServerRestarts \/ UNCHANGED vars
             \/ \E t \in Tabs : Receive(t) \/ ServeCatchUp(t) \/ FoldCatchUp(t) \/ Drop(t) \/ Connect(t),
             ~(\E v \in OneWrite : Edit(w, v))
      PROVE  SnapshotsShow(w)'
  <2>1. queue' = queue
    BY <1>6 DEF PostEvent, OtherBoot, ServerRestarts, vars, tabVars, Receive, ServeCatchUp, FoldCatchUp, Drop, Connect
  <2>2. Top' = Top \/ Top' = Top + 1
    <3>1. CASE PostEvent(w)
      BY <1>p, <3>1, WriterPosts
    <3> QED
      BY <3>1, ServerMoves DEF Still, SnapshotKept
  <2> QED
    BY <1>3, <1>6, <2>1, <2>2, SnapshotsStay
<1> QED
    BY <1>1, <1>2, <1>4, <1>5, <1>6, OneWriterSteps

\* Covered before and after a step.
LEMMA CoveredIs == (Covered <=> \A t \in Readers : HearsOf(t)) /\ (Covered' <=> \A t \in Readers : HearsOf(t)')
BY DEF Covered, Readers

\* A frame on its way in front of an empty tail of what is to come.
LEMMA FrameNext ==
    ASSUME NEW frames \in Seq(Frame), NEW frame \in Frame
    PROVE  /\ DOMAIN Append(frames, frame) = DOMAIN frames \cup {Len(frames) + 1}
           /\ Append(frames, frame)[Len(frames) + 1] = frame
           /\ \A k \in DOMAIN frames : Append(frames, frame)[k] = frames[k]
<1>1. Len(frames) \in Nat /\ DOMAIN frames = 1..Len(frames) /\ DOMAIN Append(frames, frame) = 1..(Len(frames) + 1)
    OBVIOUS
<1>2. 1..(Len(frames) + 1) = 1..Len(frames) \cup {Len(frames) + 1}
    BY <1>1
<1> QED
    BY <1>1, <1>2

LEMMA ReaderHas ==
    ASSUME NEW w, Alone(w), ConvergeInv(w), NEW t \in Readers
    PROVE  /\ HearsOf(t) /\ t \in Tabs /\ t # w /\ w \in Tabs /\ Top \in Nat /\ lastSeq[t] \in Nat
           /\ bus \in [Tabs -> Seq(Frame)] /\ bus[t] \in Seq(Frame)
<1>1. w \in Tabs /\ Readers = Tabs \ {w} /\ TabTypes /\ Top \in Nat /\ Covered
    BY ConvergeParts, AloneMeans DEF ConvergeInv
<1>2. t \in Tabs /\ t # w /\ HearsOf(t)
    BY <1>1, CoveredIs
<1>3. bus \in [Tabs -> Seq(Frame)] /\ lastSeq \in [Tabs -> 0..MaxSeq]
    BY <1>1 DEF TabTypes
<1>4. lastSeq[t] \in Nat
    BY <1>2, <1>3, BoundAssumption
<1> QED
    BY <1>1, <1>2, <1>3, <1>4

\* A post sends a frame to every tab whose socket is open.
LEMMA HeardPosted ==
    ASSUME NEW w, Alone(w), ConvergeInv(w), NEW t \in Readers, PostEvent(w)
    PROVE  HearsOf(t)'
<1>p. /\ HearsOf(t) /\ Types /\ TabTypes /\ w \in Tabs /\ t \in Tabs /\ t # w /\ Top \in Nat /\ lastSeq[t] \in Nat
      /\ bus[t] \in Seq(Frame) /\ Plan(w) \in SUBSET Event
    BY ConvergeParts, ReaderHas, PlanIs
<1>1. PICK e \in Plan(w) : e.seq = Top + 1 /\ Top' = Top + 1 /\ Broadcast(e.diff, e.seq, w)
    BY <1>p, WriterPosts
<1>2. UNCHANGED <<lastSeq, conn, catchUp>>
    BY DEF PostEvent
<1> DEFINE frame == [diff |-> e.diff, seq |-> e.seq]
<1>3. frame \in Frame /\ frame.seq = Top + 1
    BY <1>p, <1>1 DEF Frame, Event
<1>4. conn[t] = "up" => bus'[t] = Append(bus[t], frame)
    BY <1>p, <1>1 DEF Broadcast
<1> HIDE DEF frame
<1>5. SUFFICES ASSUME conn[t] = "up", NEW n \in 1..(Top + 1), lastSeq[t] < n
               PROVE  OnItsWay(n, lastSeq[t], bus'[t], catchUp[t])
    BY <1>p, <1>1, <1>2 DEF HearsOf
<1> DEFINE last == lastSeq[t]
           frames == bus[t]
           run == catchUp[t]
<1>6. /\ bus'[t] = Append(frames, frame) /\ DOMAIN Append(frames, frame) = DOMAIN frames \cup {Len(frames) + 1}
      /\ Append(frames, frame)[Len(frames) + 1] = frame
      /\ \A k \in DOMAIN frames : Append(frames, frame)[k] = frames[k]
    BY <1>p, <1>3, <1>4, <1>5, FrameNext
<1>7. CASE n = Top + 1
    BY <1>3, <1>6, <1>7 DEF OnItsWay
<1>8. CASE n # Top + 1
  <2>1. n \in 1..Top /\ frame.seq > last + 1
    BY <1>p, <1>3, <1>5, <1>8
  <2>2. OnItsWay(n, last, frames, run)
    BY <1>p, <1>5, <2>1 DEF HearsOf
  <2> HIDE DEF last, frames, run
  <2>3. OnItsWay(n, last, Append(frames, frame), run)
    BY <1>6, <2>1, <2>2 DEF OnItsWay
  <2> QED
    BY <1>6, <2>3 DEF last, frames, run
<1> QED
    BY <1>7, <1>8

\* A tab that takes a frame still hears of all that is past its watermark.
LEMMA HeardReceived ==
    ASSUME NEW w, Alone(w), ConvergeInv(w), NEW t \in Readers, Receive(t), Still
    PROVE  HearsOf(t)'
<1>p. /\ HearsOf(t) /\ InOrder /\ Types /\ TabTypes /\ t \in Tabs /\ Top \in Nat /\ lastSeq[t] \in Nat
      /\ bus[t] \in Seq(Frame) /\ bus \in [Tabs -> Seq(Frame)] /\ FramesTrue
      /\ \A e \in Events : e.seq \in Nat /\ 1 <= e.seq /\ e.seq <= Top
    BY ConvergeParts, ReaderHas DEF ConvergeInv
<1> DEFINE last == lastSeq[t]
           frames == bus[t]
           run == catchUp[t]
           frame == Head(bus[t])
<1>1. /\ frames # <<>> /\ bus'[t] = Tail(frames) /\ conn' = conn /\ Top' = Top
      /\ 1 \in DOMAIN frames /\ frames[1] = frame
    BY <1>p DEF Receive, Still
<1>2. /\ \A k \in DOMAIN Tail(frames) : k \in Nat /\ k + 1 \in DOMAIN frames /\ Tail(frames)[k] = frames[k + 1]
      /\ \A k \in DOMAIN frames : k # 1 => k - 1 \in DOMAIN Tail(frames) /\ Tail(frames)[k - 1] = frames[k]
  <2>1. /\ Len(frames) \in Nat /\ DOMAIN frames = 1..Len(frames) /\ DOMAIN Tail(frames) = 1..(Len(frames) - 1)
        /\ \A k \in 1..(Len(frames) - 1) : Tail(frames)[k] = frames[k + 1]
    BY <1>p, <1>1
  <2>2. \A k \in DOMAIN frames : k # 1 => k - 1 \in 1..(Len(frames) - 1) /\ (k - 1) + 1 = k
    BY <2>1
  <2>3. \A k \in 1..(Len(frames) - 1) : k \in Nat /\ k + 1 \in 1..Len(frames)
    BY <2>1
  <2> HIDE DEF frames
  <2> QED
    BY <2>1, <2>2, <2>3
<1>3. /\ frame.seq \in Nat
      /\ \A k \in DOMAIN frames : frames[k].seq \in Nat /\ frames[k].seq >= frame.seq
  <2>1. \A k \in DOMAIN frames : frames[k].seq \in Nat
    BY <1>p DEF FramesTrue
  <2>2. ASSUME NEW k \in DOMAIN frames PROVE frames[k].seq >= frame.seq
    <3>1. k = 1 \/ 1 < k
      BY <1>p
    <3>2. 1 < k => frames[1].seq < frames[k].seq
      BY <1>p, <1>1 DEF InOrder
    <3> QED
      BY <1>1, <2>1, <3>1, <3>2
  <2> QED
    BY <1>1, <2>1, <2>2
<1>c. classifyInbound(frame.seq, last) =
         IF frame.seq <= last THEN "have" ELSE IF frame.seq > last + 1 THEN "gap" ELSE "next"
    BY DEF classifyInbound
<1>r. /\ classifyInbound(frame.seq, last) = "next" => lastSeq'[t] = frame.seq
      /\ classifyInbound(frame.seq, last) # "next" => lastSeq'[t] = last
      /\ classifyInbound(frame.seq, last) = "gap" => catchUp'[t] = IF run = Nil THEN [since |-> last, reply |-> Nil] ELSE run
      /\ classifyInbound(frame.seq, last) # "gap" => catchUp'[t] = run
    BY <1>p DEF Receive, StartCatchUp, TabTypes
<1>o. conn[t] = "up" => \A n \in 1..Top : last < n => OnItsWay(n, last, frames, run)
    BY <1>p DEF HearsOf
<1>b. conn[t] # "boot" /\ last \in Nat
    BY <1>p DEF HearsOf
<1> HIDE DEF last, frames, run, frame
<1>4. SUFFICES ASSUME conn[t] = "up", NEW n \in 1..Top, lastSeq'[t] < n
               PROVE  OnItsWay(n, lastSeq'[t], Tail(frames), catchUp'[t])
    BY <1>1, <1>b DEF HearsOf
<1>n. Nil # [since |-> last, reply |-> Nil]
  <2>1. [since |-> last, reply |-> Nil] \in CatchUp
    BY <1>b DEF CatchUp
  <2> QED
    BY <2>1, NilAssumption
<1>5. CASE frame.seq <= last
  <2>1. lastSeq'[t] = last /\ catchUp'[t] = run
    BY <1>c, <1>r, <1>5
  <2>2. OnItsWay(n, last, frames, run) /\ last < n
    BY <1>4, <1>o, <2>1
  <2>3. \A k \in DOMAIN frames : frames[k].seq = n => k # 1
    BY <1>1, <1>b, <1>3, <1>5, <2>2
  <2>4. OnItsWay(n, last, Tail(frames), run)
    BY <1>2, <2>2, <2>3 DEF OnItsWay
  <2> QED
    BY <2>1, <2>4
<1>6. CASE ~(frame.seq <= last) /\ frame.seq > last + 1
  <2>1. /\ lastSeq'[t] = last /\ catchUp'[t] = IF run = Nil THEN [since |-> last, reply |-> Nil] ELSE run
    BY <1>c, <1>r, <1>6
  <2>2. last < n /\ last + 1 \in 1..Top /\ last < last + 1
    BY <1>p, <1>4, <1>b, <2>1
  <2>3. CASE run = Nil
    BY <1>n, <2>1, <2>3 DEF OnItsWay
  <2>4. CASE run # Nil /\ run.reply = Nil
    BY <2>1, <2>4 DEF OnItsWay
  <2>5. CASE run # Nil /\ run.reply # Nil
    <3>1. OnItsWay(last + 1, last, frames, run)
      BY <1>4, <1>o, <2>2
    <3>2. \A k \in DOMAIN frames : frames[k].seq > last + 1
      BY <1>3, <1>6, <1>b
    <3>3. \A k \in DOMAIN frames : frames[k].seq # last + 1
      BY <1>3, <1>b, <3>2
    <3>4. \E k \in DOMAIN run.reply : run.reply[k].seq > last
      BY <2>5, <3>1, <3>3 DEF OnItsWay
    <3>5. \A k \in DOMAIN Tail(frames) : Tail(frames)[k].seq > last + 1
      BY <1>2, <3>2
    <3> QED
      BY <2>1, <2>5, <3>4, <3>5 DEF OnItsWay
  <2> QED
    BY <2>3, <2>4, <2>5
<1>7. CASE ~(frame.seq <= last) /\ ~(frame.seq > last + 1)
  <2>1. frame.seq = last + 1
    BY <1>3, <1>b, <1>7
  <2>2. lastSeq'[t] = last + 1 /\ catchUp'[t] = run
    BY <1>c, <1>r, <1>7, <2>1
  <2>3. last < n /\ last + 1 < n
    BY <1>4, <1>b, <2>2
  <2>4. OnItsWay(n, last, frames, run)
    BY <1>4, <1>o, <2>3
  <2>5. \A k \in DOMAIN frames : frames[k].seq = n => k # 1
    BY <1>1, <1>b, <2>1, <2>3
  <2>6. ~(\A k \in DOMAIN frames : frames[k].seq > last + 1)
    BY <1>1, <1>b, <2>1
  <2>7. \A m : m = n => m > last + 1
    BY <2>3, <1>b
  <2>8. OnItsWay(n, last + 1, Tail(frames), run)
    BY <1>2, <2>4, <2>5, <2>6, <2>7 DEF OnItsWay
  <2> QED
    BY <2>2, <2>8
<1> QED
    BY <1>5, <1>6, <1>7

\* A reply has all there is past the watermark it was asked for.
LEMMA HeardServed ==
    ASSUME NEW w, Alone(w), ConvergeInv(w), NEW t \in Readers, ServeCatchUp(t), Still
    PROVE  HearsOf(t)'
<1>p. /\ HearsOf(t) /\ Contiguous /\ RepliesTrue /\ Types /\ TabTypes /\ EngineParts /\ SeqsIncrease
      /\ t \in Tabs /\ Top \in Nat /\ lastSeq[t] \in Nat
      /\ \A e \in Events : e.seq \in Nat
    BY ConvergeParts, ReaderHas DEF ConvergeInv
<1> DEFINE since == catchUp[t].since
           reply == EventsSince(since)
<1>1. /\ catchUp[t] # Nil /\ UNCHANGED <<conn, lastSeq, bus>> /\ Top' = Top
      /\ catchUp'[t] = [since |-> since, reply |-> reply]
    BY <1>p DEF ServeCatchUp, TabTypes, Still
<1>2. since \in Nat /\ since <= lastSeq[t]
    BY <1>p, <1>1 DEF RepliesTrue, TabTypes, CatchUp
<1>3. reply \in Seq(Event) /\ reply # Nil /\ catchUp'[t] # Nil
  <2>1. reply \in Seq(Event)
    BY <1>p, ServedType
  <2>2. [since |-> since, reply |-> reply] \in CatchUp
    BY <1>2, <2>1 DEF CatchUp
  <2> QED
    BY <1>1, <2>1, <2>2, NilAssumption
<1>4. \A e \in Events : since < e.seq => \E k \in DOMAIN reply : reply[k] = e
    BY <1>p, <1>2, ServedTrue
<1> HIDE DEF since, reply
<1>5. ASSUME NEW n \in 1..Top, lastSeq[t] < n PROVE OnItsWay(n, lastSeq[t], bus[t], catchUp'[t])
  <2>1. PICK e \in Events : e.seq = n
    BY <1>p DEF Contiguous
  <2>2. since < e.seq
    BY <1>p, <1>2, <1>5, <2>1
  <2>3. PICK k \in DOMAIN reply : reply[k] = e
    BY <1>4, <2>2
  <2>4. reply[k].seq = n /\ reply[k].seq > lastSeq[t]
    BY <1>p, <1>5, <2>1, <2>3
  <2>5. catchUp'[t].reply = reply
    BY <1>1
  <2> QED
    BY <1>3, <2>4, <2>5 DEF OnItsWay
<1> QED
    BY <1>p, <1>1, <1>5 DEF HearsOf

\* A run ends when its reply has nothing past the watermark; any other asks again.
LEMMA HeardFolded ==
    ASSUME NEW w, Alone(w), ConvergeInv(w), NEW t \in Readers, FoldCatchUp(t), Still
    PROVE  HearsOf(t)'
<1>p. /\ HearsOf(t) /\ Types /\ TabTypes /\ t \in Tabs /\ ReplyOnItsWay(t)
    BY ConvergeParts, AloneMeans, CoveredIs DEF ConvergeInv, FoldCatchUp
<1>1. UNCHANGED <<conn, bus>> /\ Top' = Top
    BY DEF FoldCatchUp, Still
<1>2. CASE Missed(t) = <<>>
  <2>1. lastSeq' = lastSeq
    BY <1>2 DEF FoldCatchUp, Missed
  <2>2. ~(\E k \in DOMAIN catchUp[t].reply : catchUp[t].reply[k].seq > lastSeq[t])
    <3>1. PICK f : Picks(f, Missed(t), catchUp[t].reply,
                         {i \in DOMAIN catchUp[t].reply : catchUp[t].reply[i].seq > lastSeq[t]})
      BY <1>p, MissedIs
    <3>2. 1..Len(Missed(t)) = {}
      BY <1>2
    <3> QED
      BY <3>1, <3>2 DEF Picks
  <2>3. ASSUME NEW n, OnItsWay(n, lastSeq[t], bus[t], catchUp[t])
        PROVE  OnItsWay(n, lastSeq[t], bus[t], catchUp'[t])
    BY <1>p, <2>2, <2>3 DEF OnItsWay, ReplyOnItsWay
  <2> QED
    BY <1>p, <1>1, <2>1, <2>3 DEF HearsOf
<1>3. CASE Missed(t) # <<>>
  <2>1. catchUp'[t] = [since |-> Last(Missed(t)).seq, reply |-> Nil]
    BY <1>p, <1>3 DEF FoldCatchUp, Missed, TabTypes
  <2>2. catchUp'[t] # Nil /\ catchUp'[t].reply = Nil
    <3>1. Last(Missed(t)).seq \in Nat
      BY <1>p, <1>3, MissedType, BoundAssumption
    <3>2. catchUp'[t] \in CatchUp
      BY <2>1, <3>1 DEF CatchUp
    <3> QED
      BY <2>1, <3>2, NilAssumption
  <2> QED
    BY <1>p, <1>1, <2>2 DEF HearsOf, OnItsWay
<1> QED
    BY <1>2, <1>3

LEMMA CoveredStep ==
    ASSUME NEW w, Alone(w), ConvergeInv(w), [SyncNext]_vars
    PROVE  Covered'
<1>p. /\ Types /\ TabTypes /\ Readers = Tabs \ {w} /\ w \in Tabs /\ "lateReply" \notin Hazards
      /\ \A t \in Readers : HearsOf(t) /\ lastSeq[t] \in Nat
    BY ConvergeParts, AloneMeans, CoveredIs, BoundAssumption DEF ConvergeInv, TabTypes
<1>0. SUFFICES ASSUME NEW t \in Readers PROVE HearsOf(t)'
    BY CoveredIs
<1>t. t \in Tabs /\ t # w
    BY <1>p
<1>1. ASSUME lastSeq'[t] = lastSeq[t], bus'[t] = bus[t], catchUp'[t] = catchUp[t], conn'[t] = conn[t], Still
      PROVE  HearsOf(t)'
    BY <1>p, <1>1 DEF HearsOf, Still
<1>2. ASSUME NEW v \in OneWrite, Edit(w, v) PROVE HearsOf(t)'
  <2>1. answer' = answer /\ UNCHANGED <<bus, catchUp, conn>> /\ lastSeq'[t] = lastSeq[t]
    BY <1>p, <1>t, <1>2 DEF Edit, TabTypes
  <2> QED
    BY <1>1, <2>1, OnlyPostsCommit
<1>3. ASSUME PostEvent(w) PROVE HearsOf(t)'
    BY <1>3, HeardPosted
<1>4. ASSUME Ack(w) PROVE HearsOf(t)'
  <2>1. answer[w] # Nil /\ UNCHANGED <<bus, catchUp, conn>> /\ lastSeq'[t] = lastSeq[t]
    BY <1>p, <1>t, <1>4 DEF Ack, TabTypes
  <2> QED
    BY <1>1, <2>1, OnlyPostsCommit
<1>5. ASSUME \/ \E u \in Tabs : SnapshotTimer(u) \/ PostSnapshot(u)
             \/ OtherBoot \/ UNCHANGED vars
      PROVE  HearsOf(t)'
  <2>1. UNCHANGED <<answer, bus, catchUp, conn, lastSeq>>
    BY <1>5 DEF SnapshotTimer, PostSnapshot, OtherBoot, vars, tabVars
  <2> QED
    BY <1>1, <2>1, OnlyPostsCommit
<1>6. ASSUME NEW u \in Tabs, Receive(u) \/ ServeCatchUp(u) \/ FoldCatchUp(u) \/ Drop(u) \/ Connect(u), u # t
      PROVE  HearsOf(t)'
  <2>1. answer' = answer /\ lastSeq'[t] = lastSeq[t] /\ bus'[t] = bus[t] /\ catchUp'[t] = catchUp[t] /\ conn'[t] = conn[t]
    BY <1>p, <1>t, <1>6 DEF Receive, ServeCatchUp, FoldCatchUp, Drop, Connect, StartCatchUp, TabTypes
  <2> QED
    BY <1>1, <2>1, OnlyPostsCommit
<1>7. ASSUME Receive(t) \/ ServeCatchUp(t) \/ FoldCatchUp(t) PROVE HearsOf(t)'
  <2>1. answer' = answer
    BY <1>7 DEF Receive, ServeCatchUp, FoldCatchUp
  <2>2. Still
    BY <2>1, OnlyPostsCommit
  <2> QED
    BY <1>7, <2>2, HeardReceived, HeardServed, HeardFolded
<1>8. ASSUME Drop(t) PROVE HearsOf(t)'
    BY <1>p, <1>t, <1>8 DEF Drop, HearsOf, TabTypes
<1>9. ASSUME Connect(t) PROVE HearsOf(t)'
  <2>1. /\ conn[t] # "up" /\ conn[t] # "boot" /\ ~ReplyOnItsWay(t) /\ conn'[t] = "up"
        /\ conn[t] \in {"boot", "up", "down"}
    BY <1>p, <1>t, <1>9 DEF Connect, HearsOf, TabTypes
  <2>2. catchUp'[t] = IF catchUp[t] = Nil THEN [since |-> lastSeq[t], reply |-> Nil] ELSE catchUp[t]
    BY <1>p, <1>t, <1>9, <2>1 DEF Connect, StartCatchUp, TabTypes
  <2>3. [since |-> lastSeq[t], reply |-> Nil] \in CatchUp
    BY <1>p DEF CatchUp
  <2>4. catchUp'[t] # Nil /\ catchUp'[t].reply = Nil
    BY <2>1, <2>2, <2>3, NilAssumption DEF ReplyOnItsWay
  <2> QED
    BY <2>1, <2>4 DEF HearsOf, OnItsWay
<1>10. ASSUME ServerRestarts PROVE HearsOf(t)'
    BY <1>p, <1>t, <1>10 DEF ServerRestarts, HearsOf
<1> QED
    BY <1>2, <1>3, <1>4, <1>5, <1>6, <1>7, <1>8, <1>9, <1>10, OneWriterSteps

LEMMA ConvergeStep ==
    ASSUME NEW w, Alone(w), ConvergeInv(w), [SyncNext]_vars
    PROVE  ConvergeInv(w)'
<1>1. SavedInv' /\ ReadInv'
    BY AloneMeans, SavedStep, ReadStep DEF ConvergeInv
<1> QED
    BY <1>1, NoPageGoes, ContiguousStep, InStepStep, HeadUnsentStep, WriterShowsStep, SnapshotsShowStep, FilesShowStep,
       LiveShowsStep, InOrderStep, CoveredStep DEF ConvergeInv

LEMMA ConvergeInit ==
    ASSUME NEW w, Alone(w), Init
    PROVE  ConvergeInv(w)
<1>p. w \in Tabs /\ Readers = Tabs \ {w}
    BY AloneMeans
<1>1. SavedInv /\ ReadInv /\ gone = {} /\ Types
    BY SavedInit, ReadInit DEF Init, SavedInv
<1>2. /\ log = <<>> /\ snap = [records |-> NoRecords, seq |-> 0] /\ entry = NoEntry
      /\ \A t \in Tabs : /\ tstore[t] = NoRecords /\ lastSeq[t] = 0 /\ queue[t] = <<>> /\ conn[t] = "up"
                         /\ bus[t] = <<>> /\ minted[t] = <<>>
    BY DEF Init
<1>3. Events = {} /\ Top = 0
  <2>1. Readable(log) = {}
    BY <1>2 DEF Readable
  <2>2. SnapSeq(snap) = 0
    BY <1>2, MarkerAssumption DEF SnapSeq, Snapshot, Records
  <2>3. Top = Newest({0})
    BY <2>1, <2>2 DEF Top, FoldWatermark
  <2>4. Newest({0}) = 0
    BY NewestIs
  <2> QED
    BY <2>1, <2>3, <2>4 DEF Events
<1>4. EventsAt(w) = {} /\ Plan(w) = {}
    BY <1>p, <1>2, <1>3 DEF EventsAt, Plan
<1>5. Shows(NoRecords, {}, 0)
  <2>1. NoRecords \in Records /\ \A id \in Ids : NoRecords[id] = Absent
    BY DEF NoRecords, Records, Slot
  <2> QED
    BY <2>1 DEF Shows
<1>6. Contiguous /\ FilesShow /\ LiveShows
    BY <1>2, <1>3, <1>5 DEF Contiguous, FilesShow, LiveShows
<1>7. InStep(w) /\ HeadUnsent(w) /\ WriterShows(w)
    BY <1>p, <1>2, <1>3, <1>4, <1>5 DEF InStep, HeadUnsent, WriterShows
<1>8. SnapshotsShow(w) /\ InOrder
    BY <1>2 DEF SnapshotsShow, InOrder
<1>9. Covered
    BY <1>p, <1>2, <1>3 DEF Covered, HearsOf
<1> QED
    BY <1>1, <1>6, <1>7, <1>8, <1>9 DEF ConvergeInv

LEMMA QuietConverged ==
    ASSUME NEW w, Alone(w), ConvergeInv(w), Quiet, NEW t \in Tabs
    PROVE  tstore[t] = Engine.store
<1>p. /\ Types /\ ReadersShow /\ w \in Tabs /\ Readers = Tabs \ {w} /\ WriterShows(w) /\ Contiguous /\ InStep(w)
      /\ Events \in SUBSET Event /\ Top \in Nat /\ lastSeq[w] \in Nat
      /\ \A e, g \in Events : e.seq = g.seq => e = g
      /\ DOMAIN minted[w] = 1..Len(minted[w])
    BY ConvergeParts, AloneMeans DEF ConvergeInv
<1>1. Shows(Engine.store, Events, Top)
    BY EngineShows
<1>2. /\ queue[t] = <<>> /\ conn[t] = "up" /\ bus[t] = <<>> /\ catchUp[t] = Nil /\ queue[w] = <<>>
    BY <1>p DEF Quiet
<1>3. CASE t = w
  <2>1. EventsAt(w) = {}
    BY <1>2 DEF EventsAt
  <2>2. Plan(w) = Events
    BY <2>1 DEF Plan
  <2>3. lastSeq[w] = Top
    <3>1. Top <= lastSeq[w] /\ lastSeq[w] = Len(minted[w])
      BY <1>p, WriterAhead DEF InStep
    <3>2. CASE Top < lastSeq[w]
      <4>1. lastSeq[w] \in DOMAIN minted[w]
        BY <1>p, <3>1, <3>2
      <4> QED
        BY <2>1, <3>2, <4>1, WriterAhead
    <3> QED
      BY <1>p, <3>1, <3>2
  <2>4. Shows(tstore[w], Events, Top)
    BY <1>p, <2>2, <2>3 DEF WriterShows
  <2> QED
    BY <1>p, <1>1, <1>3, <2>4, ShowsOnce
<1>4. CASE t # w
  <2>1. t \in Readers /\ lastSeq[t] \in Nat /\ HearsOf(t)
    BY <1>p, <1>4, ReaderHas
  <2>2. Shows(tstore[t], Events, lastSeq[t]) /\ lastSeq[t] <= Top
    BY <1>p, <2>1 DEF ReadersShow
  <2>3. ~(lastSeq[t] < Top)
    <3>1. SUFFICES ASSUME lastSeq[t] < Top PROVE FALSE
      OBVIOUS
    <3>2. Top \in 1..Top
      BY <1>p, <2>1, <3>1
    <3>3. OnItsWay(Top, lastSeq[t], bus[t], catchUp[t])
      BY <1>2, <2>1, <3>1, <3>2 DEF HearsOf
    <3> QED
      BY <1>2, <3>3 DEF OnItsWay
  <2>4. lastSeq[t] = Top
    BY <1>p, <2>1, <2>2, <2>3
  <2> QED
    BY <1>p, <1>1, <2>2, <2>4, ShowsOnce
<1> QED
    BY <1>3, <1>4

(***************************************************************************)
(* When one tab edits and all is quiet, every tab shows the server's       *)
(* board, whatever sockets dropped and however often the server restarted  *)
(* and compacted meanwhile (enqueue, onServerSeq, agentBus.ts).            *)
(***************************************************************************)
THEOREM OneWriterConverges ==
    ASSUME NEW w, Alone(w)
    PROVE  Spec => []Converges
<1>1. Init => ConvergeInv(w)
    BY ConvergeInit
<1>2. ConvergeInv(w) /\ [SyncNext]_vars => ConvergeInv(w)'
    BY ConvergeStep
<1>3. ConvergeInv(w) => Converges
    BY QuietConverged DEF Converges
<1> QED
    BY <1>1, <1>2, <1>3, PTL DEF Spec
=============================================================================
