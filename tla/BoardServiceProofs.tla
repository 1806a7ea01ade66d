------------------------ MODULE BoardServiceProofs ------------------------
(***************************************************************************)
(* The dedup window of the board engine, for every cap of the ring, every  *)
(* set of events and every order of requests, failures and restarts.       *)
(*                                                                         *)
(* DedupWindow speaks of the events recorded since the live store was      *)
(* hydrated; the code only has the ring.  The invariant says the ring is   *)
(* the end of that history, as long as the cap lets it be.                 *)
(***************************************************************************)
EXTENDS BoardService, BoardEngineProofs

\* The dedup ring read against what was recorded: the last RingCap ids, or all of them.
Window(ring, ids) ==
    /\ \E S : ring \in Seq(S)
    /\ Len(ring) <= RingCap /\ Len(ring) <= Len(ids)
    /\ Len(ring) = RingCap \/ Len(ring) = Len(ids)
    /\ \A k \in 1..Len(ring) : ring[k].id = ids[Len(ids) - Len(ring) + k]

\* No id twice within RingCap of one another.
Apart(ids) == \A i, j \in DOMAIN ids : i < j /\ j - i <= RingCap => ids[i] # ids[j]

EntryOf(store, watermark, ring) == [store |-> store, watermark |-> watermark, ring |-> ring]

\* A resident store is a record of its three fields, and its ring a window of what was recorded.
RingIsWindow ==
    entry # NoEntry =>
        /\ entry = EntryOf(entry.store, entry.watermark, entry.ring)
        /\ Window(entry.ring, recorded)

WindowInv == recorded \in Seq(EventIds) /\ Apart(recorded) /\ RingIsWindow

\* The ring the request finds: the resident store's, or the empty one of a fresh hydrate.
RingBefore == IF entry = NoEntry THEN <<>> ELSE entry.ring

\* A freshly hydrated store remembers nothing, and nothing was recorded since.
LEMMA EmptyWindow == Window(<<>>, <<>>) /\ Apart(<<>>) /\ <<>> \in Seq(EventIds)
<1>1. <<>> \in Seq(EventIds) /\ Len(<<>>) = 0 /\ DOMAIN <<>> = {}
    OBVIOUS
<1> QED
    BY <1>1, BoundAssumption DEF Window, Apart

\* Reading through getBoardEngine never changes the ring.
LEMMA EngineRing ==
    ASSUME RingIsWindow
    PROVE  Engine = EntryOf(Engine.store, Engine.watermark, RingBefore)
BY DEF RingIsWindow, Engine, hydrateEntry, EntryOf, RingBefore

\* Remembering one more id keeps the ring a window, dropping the oldest past the cap.
LEMMA RememberKeepsWindow ==
    ASSUME NEW ring, NEW ids \in Seq(EventIds), NEW id \in EventIds, NEW seq, Window(ring, ids)
    PROVE  Window(Remember(ring, id, seq), Append(ids, id))
<1> DEFINE new == [id |-> id, seq |-> seq]
           longer == Append(ring, new)
<1>1. PICK S : ring \in Seq(S)
    BY DEF Window
<1>2. PICK T : ring \in Seq(T) /\ new \in T
  <2>1. ring \in Seq(S \cup {new}) /\ new \in S \cup {new}
    BY <1>1, SeqMonotonic
  <2> QED
    BY <2>1
<1>3. /\ longer \in Seq(T) /\ Len(longer) = Len(ring) + 1 /\ Len(ring) \in Nat
      /\ \A k \in 1..Len(ring) : longer[k] = ring[k]
      /\ longer[Len(ring) + 1] = new
    BY <1>2, AppendProperties, LenProperties
<1>4. /\ Append(ids, id) \in Seq(EventIds) /\ Len(Append(ids, id)) = Len(ids) + 1
      /\ Len(ids) \in Nat
      /\ \A k \in 1..Len(ids) : Append(ids, id)[k] = ids[k]
      /\ Append(ids, id)[Len(ids) + 1] = id
    BY AppendProperties, LenProperties
<1>5. \A k \in 1..(Len(ring) + 1) :
        longer[k].id = Append(ids, id)[Len(ids) - Len(ring) + k]
  <2> SUFFICES ASSUME NEW k \in 1..(Len(ring) + 1)
               PROVE  longer[k].id = Append(ids, id)[Len(ids) - Len(ring) + k]
    OBVIOUS
  <2>1. CASE k = Len(ring) + 1
    <3>1. Len(ids) - Len(ring) + k = Len(ids) + 1
      BY <2>1, <1>3, <1>4
    <3> QED
      BY <2>1, <3>1, <1>3, <1>4
  <2>2. CASE k # Len(ring) + 1
    <3>1. k \in 1..Len(ring) /\ Len(ids) - Len(ring) + k \in 1..Len(ids)
      BY <2>2, <1>3, <1>4 DEF Window
    <3> QED
      BY <3>1, <1>3, <1>4 DEF Window
  <2> QED
    BY <2>1, <2>2
<1> HIDE DEF new, longer
<1>6. CASE Len(longer) > RingCap
  <2>1. Remember(ring, id, seq) = Tail(longer)
    BY <1>6 DEF Remember, longer, new
  <2>2. Len(ring) = RingCap
    BY <1>6, <1>3, BoundAssumption DEF Window
  <2>3. /\ Tail(longer) \in Seq(T) /\ Len(Tail(longer)) = Len(ring)
        /\ \A k \in 1..Len(ring) : Tail(longer)[k] = longer[k + 1]
    <3>1. longer # <<>>
      BY <1>3
    <3> QED
      BY <3>1, <1>3, HeadTailProperties
  <2>4. ASSUME NEW k \in 1..Len(ring)
        PROVE  Tail(longer)[k].id = Append(ids, id)[Len(Append(ids, id)) - Len(ring) + k]
    <3>1. k + 1 \in 1..(Len(ring) + 1)
      BY <1>3
    <3>2. Len(Append(ids, id)) - Len(ring) + k = Len(ids) - Len(ring) + (k + 1)
      BY <1>3, <1>4
    <3> QED
      BY <3>1, <3>2, <2>3, <1>5
  <2>5. Len(ring) <= Len(Append(ids, id))
    BY <1>3, <1>4 DEF Window
  <2> QED
    BY <2>1, <2>2, <2>3, <2>4, <2>5, BoundAssumption DEF Window
<1>7. CASE ~(Len(longer) > RingCap)
  <2>1. Remember(ring, id, seq) = longer
    BY <1>7 DEF Remember, longer, new
  <2>2. Len(ring) = Len(ids) /\ Len(longer) <= RingCap
    BY <1>7, <1>3, BoundAssumption DEF Window
  <2>3. Len(longer) = Len(Append(ids, id))
    BY <2>2, <1>3, <1>4
  <2>4. ASSUME NEW k \in 1..Len(longer)
        PROVE  longer[k].id = Append(ids, id)[Len(Append(ids, id)) - Len(longer) + k]
    <3>1. Len(Append(ids, id)) - Len(longer) + k = Len(ids) - Len(ring) + k
      BY <2>2, <2>3, <1>3, <1>4
    <3> QED
      BY <3>1, <1>3, <1>5
  <2> QED
    BY <2>1, <2>2, <2>3, <2>4, <1>3, <1>4 DEF Window
<1> QED
    BY <1>6, <1>7

\* An id outside the window may be recorded next.
LEMMA AppendKeepsApart ==
    ASSUME NEW ring, NEW ids \in Seq(EventIds), NEW id \in EventIds, Window(ring, ids), Apart(ids),
           \A i \in DOMAIN ring : ring[i].id # id
    PROVE  Apart(Append(ids, id))
<1>1. /\ DOMAIN Append(ids, id) = 1..(Len(ids) + 1) /\ DOMAIN ids = 1..Len(ids) /\ Len(ids) \in Nat
      /\ \A k \in 1..Len(ids) : Append(ids, id)[k] = ids[k]
      /\ Append(ids, id)[Len(ids) + 1] = id
    BY AppendProperties, LenProperties
<1>2. Len(ring) \in Nat /\ DOMAIN ring = 1..Len(ring)
    BY LenProperties DEF Window
<1> SUFFICES ASSUME NEW i \in 1..(Len(ids) + 1), NEW j \in 1..(Len(ids) + 1),
                    i < j, j - i <= RingCap
             PROVE  Append(ids, id)[i] # Append(ids, id)[j]
    BY <1>1 DEF Apart
<1>3. i \in 1..Len(ids)
    BY <1>1
<1>4. CASE j \in 1..Len(ids)
    BY <1>1, <1>3, <1>4 DEF Apart
<1>5. CASE j = Len(ids) + 1
  <2> DEFINE k == i - Len(ids) + Len(ring)
  <2>a. Len(ring) <= Len(ids) /\ (Len(ring) = RingCap \/ Len(ring) = Len(ids))
    BY DEF Window
  <2>b. i >= Len(ids) + 1 - RingCap /\ RingCap \in Nat
    BY <1>1, <1>5, BoundAssumption
  <2>c. \A n, l, c \in Nat : \A m \in 1..n :
          l <= n /\ (l = c \/ l = n) /\ m >= n + 1 - c => m - n + l \in 1..l
    OBVIOUS
  <2>1. k \in 1..Len(ring)
    BY <1>1, <1>2, <1>3, <2>a, <2>b, <2>c
  <2>2. Len(ids) - Len(ring) + k = i
    BY <1>1, <1>2
  <2>3. ring[k].id = ids[i] /\ ring[k].id # id
    BY <2>1, <2>2, <1>2 DEF Window
  <2> QED
    BY <2>3, <1>1, <1>3, <1>5
<1> QED
    BY <1>1, <1>4, <1>5

\* A request that records nothing: it drops the store, or leaves the ring as it found it.
LEMMA KeptStep ==
    ASSUME WindowInv, Kept,
           entry' # NoEntry => entry' = EntryOf(entry'.store, entry'.watermark, RingBefore)
    PROVE  WindowInv'
<1>1. CASE entry = NoEntry \/ entry' = NoEntry
  <2>1. recorded' = <<>>
    BY <1>1 DEF Kept
  <2>2. entry' # NoEntry => entry'.ring = <<>>
    BY <1>1 DEF EntryOf, RingBefore
  <2> QED
    BY <2>1, <2>2, EmptyWindow DEF WindowInv, RingIsWindow, RingBefore, EntryOf
<1>2. CASE entry # NoEntry /\ entry' # NoEntry
  <2>1. recorded' = recorded
    BY <1>2 DEF Kept
  <2>2. entry'.ring = entry.ring
    BY <1>2 DEF EntryOf, RingBefore
  <2> QED
    BY <1>2, <2>1, <2>2 DEF WindowInv, RingIsWindow, RingBefore, EntryOf
<1> QED
    BY <1>1, <1>2

\* A new event: it was not in the ring, so it is not among the last RingCap recorded.
LEMMA PostEventStep ==
    ASSUME WindowInv, NEW id \in EventIds, NEW d \in Diffs, PostEvent(id, d)
    PROVE  WindowInv'
<1> DEFINE ids == IF entry = NoEntry THEN <<>> ELSE recorded
<1>1. ids \in Seq(EventIds) /\ Apart(ids) /\ Window(RingBefore, ids)
    BY EmptyWindow DEF WindowInv, RingIsWindow, RingBefore
<1>2. Engine.ring = RingBefore
    BY EngineRing DEF WindowInv, EntryOf
<1>3. PICK foldThrows \in BOOLEAN :
        /\ AppendTabEvent(id, d, foldThrows)
        /\ recorded' = IF foldThrows THEN <<>> ELSE Append(ids, id)
    BY DEF PostEvent
<1>4. CASE foldThrows
    BY <1>3, <1>4, EmptyWindow DEF AppendTabEvent, WindowInv, RingIsWindow
<1>5. CASE ~foldThrows
  <2> DEFINE seq == Engine.watermark + 1
  <2>1. entry' = EntryOf(applyDiff(Engine.store, d), seq, Remember(RingBefore, id, seq))
    BY <1>2, <1>3, <1>5 DEF AppendTabEvent, EntryOf
  <2>2. \A i \in DOMAIN RingBefore : RingBefore[i].id # id
    BY <1>2, <1>3 DEF AppendTabEvent, InRing
  <2>3. Apart(Append(ids, id))
    BY <1>1, <2>2, AppendKeepsApart
  <2>4. Window(Remember(RingBefore, id, seq), Append(ids, id))
    BY <1>1, RememberKeepsWindow
  <2>5. Append(ids, id) \in Seq(EventIds)
    BY <1>1, AppendProperties
  <2>6. recorded' = Append(ids, id)
    BY <1>3, <1>5
  <2> HIDE DEF ids, seq
  <2> QED
    BY <2>1, <2>3, <2>4, <2>5, <2>6 DEF WindowInv, RingIsWindow, EntryOf
<1> QED
    BY <1>4, <1>5

\* A stored snapshot: the live store is left, or hydrated afresh and the history starts over.
LEMMA PostSnapshotStep ==
    ASSUME WindowInv, NEW s, PostSnapshot(s)
    PROVE  WindowInv'
<1>1. entry' = hydrateEntry(log, s) \/ entry' = entry
    BY DEF PostSnapshot, SaveSnapshot
<1>2. recorded' = IF entry' # NoEntry /\ entry # entry' THEN <<>> ELSE recorded
    BY DEF PostSnapshot
<1>3. CASE entry' = entry \/ entry' = NoEntry
    BY <1>2, <1>3 DEF WindowInv, RingIsWindow
<1>4. CASE entry' # NoEntry /\ entry' # entry
  <2>1. recorded' = <<>> /\ entry' = EntryOf(entry'.store, entry'.watermark, <<>>)
    BY <1>1, <1>2, <1>4 DEF hydrateEntry, EntryOf
  <2> QED
    BY <2>1, EmptyWindow DEF WindowInv, RingIsWindow, EntryOf
<1> QED
    BY <1>3, <1>4

\* Every request, failure and restart keeps the ring a window of what was recorded.
LEMMA WindowStep == WindowInv /\ [ServiceNext]_vars => WindowInv'
<1> SUFFICES ASSUME WindowInv, [ServiceNext]_vars PROVE WindowInv'
    OBVIOUS
<1>e. Engine = EntryOf(Engine.store, Engine.watermark, RingBefore)
    BY EngineRing DEF WindowInv
<1>1. ASSUME NEW w \in Writes, PostCommand(w) PROVE WindowInv'
  <2>1. entry' = EntryOf(write(Engine.store, w), Engine.watermark + 1, Engine.ring) /\ Kept
    BY <1>1 DEF PostCommand, CommitCommand, EntryOf
  <2>2. Engine.ring = RingBefore
    BY <1>e DEF EntryOf
  <2>3. entry' = EntryOf(entry'.store, entry'.watermark, RingBefore)
    BY <2>1, <2>2 DEF EntryOf
  <2> QED
    BY <2>1, <2>3, KeptStep
<1>2. CASE PostCommandFails
    BY <1>2, KeptStep DEF PostCommandFails, CommandFails
<1>3. ASSUME NEW id \in EventIds, NEW d \in Diffs, PostEvent(id, d) PROVE WindowInv'
    BY <1>3, PostEventStep
<1>4. ASSUME NEW id \in EventIds, PostEventAgain(id) PROVE WindowInv'
    BY <1>4 DEF PostEventAgain, ResendTabEvent, engineVars, WindowInv, RingIsWindow
<1>5. ASSUME NEW id \in EventIds, NEW d \in Diffs, PostEventFails(id, d) PROVE WindowInv'
  <2>1. entry' = Engine /\ Kept
    BY <1>5 DEF PostEventFails, TabEventFails
  <2> QED
    BY <2>1, <1>e, KeptStep
<1>6. ASSUME NEW s \in Snapshot, PostSnapshot(s) PROVE WindowInv'
    BY <1>6, PostSnapshotStep
<1>7. CASE LoadPage
    BY <1>7 DEF LoadPage, Boot, WindowInv, RingIsWindow
<1>8. ASSUME NEW lines, NEW s, PostImport(lines, s) PROVE WindowInv'
    BY <1>8, KeptStep DEF PostImport, ImportBoard
<1>9. ASSUME NEW lines, PostImportFails(lines) PROVE WindowInv'
    BY <1>9 DEF PostImportFails, ImportFails, WindowInv, RingIsWindow
<1>10. CASE Delete
    BY <1>10, KeptStep DEF Delete, ClearBoard
<1>11. CASE GetCanvas
  <2>1. entry' = Engine /\ Kept
    BY <1>11 DEF GetCanvas, Read
  <2> QED
    BY <2>1, <1>e, KeptStep
<1>12. CASE ServerRestarts
    BY <1>12, KeptStep DEF ServerRestarts, Restart
<1>13. CASE UNCHANGED vars
    BY <1>13 DEF vars, engineVars, WindowInv, RingIsWindow
<1> QED
    BY <1>1, <1>2, <1>3, <1>4, <1>5, <1>6, <1>7, <1>8, <1>9, <1>10, <1>11, <1>12, <1>13
       DEF ServiceNext

(***************************************************************************)
(* A tab that resends until answered is recorded once within the window,   *)
(* whatever fails in between: DedupWindow of run service_faults, for every *)
(* RingCap, set of ids and bound (appendTabEvent, board-engine.ts:232-278).*)
(***************************************************************************)
THEOREM WindowKept == Spec => []DedupWindow
<1>1. Init => WindowInv
    BY EmptyWindow DEF Init, EngineInit, WindowInv, RingIsWindow
<1>2. WindowInv => DedupWindow
    BY DEF WindowInv, Apart, DedupWindow
<1> QED
    BY <1>1, <1>2, WindowStep, PTL DEF Spec

-----------------------------------------------------------------------------
(***************************************************************************)
(* Types.                                                                  *)
(***************************************************************************)
\* An old browser copy is a log of one event, and the snapshot of it one of the snapshots.
LEMMA BrowserType ==
    ASSUME NEW lines \in Browser
    PROVE  /\ lines \in Seq(LogLine)
           /\ Len(lines) = 1 /\ lines[1] \in Event /\ lines[1].seq = 1
           /\ [records |-> FoldRecords(lines, NoSnapshot), seq |-> 1] \in Snapshot
<1>1. PICK d \in Diffs : lines = <<[id |-> NoId, seq |-> 1, diff |-> d]>>
    BY DEF Browser
<1>2. 1 \in 1..MaxSeq /\ 1 \in 0..MaxSeq
    BY BoundAssumption
<1>3. [id |-> NoId, seq |-> 1, diff |-> d] \in Event
    BY <1>2 DEF Event
<1>4. lines \in Seq(LogLine) /\ Len(lines) = 1 /\ lines[1] = [id |-> NoId, seq |-> 1, diff |-> d]
    BY <1>1, <1>3 DEF LogLine
<1>5. FoldRecords(lines, NoSnapshot) \in Records
    BY <1>4, FoldType DEF Stored
<1> QED
    BY <1>2, <1>3, <1>4, <1>5 DEF Snapshot

TruthOK ==
    /\ DOMAIN truth \subseteq 0..MaxSeq /\ \A n \in DOMAIN truth : truth[n] \in Records
    /\ restated \subseteq Ids

ClientsOK ==
    /\ DOMAIN posted \subseteq EventIds /\ \A id \in DOMAIN posted : posted[id] \in Diffs
    /\ settled \subseteq EventIds

LEMMA CommittedType ==
    ASSUME TruthOK, NEW n \in 0..MaxSeq, NEW records \in Records, NEW d, Committed(n, records, d)
    PROVE  TruthOK'
<1>1. DOMAIN truth' = DOMAIN truth \cup {n}
    BY DEF Committed
<1>2. \A m \in DOMAIN truth' : truth'[m] \in Records
    BY <1>1 DEF Committed, TruthOK
<1>3. restated' \subseteq Ids
    BY DEF Committed, TruthOK
<1> QED
    BY <1>1, <1>2, <1>3 DEF TruthOK

LEMMA ReplacedType ==
    ASSUME log' \in Seq(LogLine), snap' \in Stored, Replaced
    PROVE  TruthOK'
<1>1. FoldWatermark(log', snap') \in 0..MaxSeq /\ FoldRecords(log', snap') \in Records
    BY FoldType, WatermarkIs
<1> QED
    BY <1>1 DEF Replaced, TruthOK

LEMMA KeptType ==
    ASSUME recorded \in Seq(EventIds), Kept
    PROVE  recorded' \in Seq(EventIds)
<1>1. <<>> \in Seq(EventIds)
    OBVIOUS
<1> QED
    BY <1>1 DEF Kept

LEMMA ClientsStep ==
    ASSUME ClientsOK, NEW id \in EventIds, NEW d \in Diffs,
           Answered(id) \/ Unanswered(id, d) \/ UNCHANGED clients
    PROVE  ClientsOK'
<1>1. CASE Answered(id)
    BY <1>1 DEF Answered, ClientsOK
<1>2. CASE Unanswered(id, d)
  <2>1. DOMAIN posted' = DOMAIN posted \cup {id} /\ settled' = settled
    BY <1>2 DEF Unanswered
  <2>2. \A i \in DOMAIN posted' : posted'[i] \in Diffs
    BY <1>2, <2>1 DEF Unanswered, ClientsOK
  <2> QED
    BY <2>1, <2>2 DEF ClientsOK
<1>3. CASE UNCHANGED clients
    BY <1>3 DEF ClientsOK, clients
<1> QED
    BY <1>1, <1>2, <1>3

TypeParts ==
    EngineTypeOK /\ ClientsOK /\ recorded \in Seq(EventIds) /\ TruthOK

\* The type invariant, read with the names of this module, now and after a step.
LEMMA TypesAreParts == (TypeOK <=> TypeParts) /\ (TypeOK' <=> TypeParts')
BY DEF TypeOK, TypeParts, ClientsOK, TruthOK

LEMMA InitType == Init => TypeOK
<1> SUFFICES ASSUME Init PROVE TypeOK
    OBVIOUS
<1>1. EngineTypeOK
  <2>1. <<>> \in Seq(LogLine)
    OBVIOUS
  <2> QED
    BY <2>1, EngineTypesAreParts DEF Init, EngineInit, Stored, EngineParts
<1>2. ClientsOK /\ recorded \in Seq(EventIds)
    BY DEF Init, ClientsOK
<1>3. NoRecords \in Records
    BY DEF NoRecords, Records, Slot
<1>4. TruthOK
    BY <1>3, BoundAssumption DEF Init, TruthOK
<1> QED
    BY <1>1, <1>2, <1>4, TypesAreParts DEF TypeParts

\* The files and the entry stay what they are, whoever asks for what.
LEMMA EngineTypeStep ==
    ASSUME EngineTypeOK, [ServiceNext]_vars
    PROVE  EngineTypeOK'
<1>1. ASSUME EngineStep PROVE EngineTypeOK'
    BY <1>1, EngineStepTyped
<1>2. ASSUME NEW lines \in Browser,
             NEW s \in {NoSnapshot, [records |-> FoldRecords(lines, NoSnapshot), seq |-> 1]},
             ImportBoard(lines, s)
      PROVE  EngineTypeOK'
    BY <1>2, BrowserType, EngineTypesAreParts DEF ImportBoard, Stored, EngineParts
<1>3. ASSUME NEW lines \in Browser, ImportFails(lines) PROVE EngineTypeOK'
    BY <1>3, BrowserType, EngineTypesAreParts DEF ImportFails, EngineParts
<1>4. ASSUME ClearBoard PROVE EngineTypeOK'
    BY <1>4, EngineTypesAreParts DEF ClearBoard, Stored, EngineParts
<1>a. CASE \E w \in Writes : PostCommand(w)
    BY <1>a, <1>1 DEF PostCommand, EngineStep
<1>b. CASE PostCommandFails
    BY <1>b, <1>1 DEF PostCommandFails, EngineStep
<1>c. CASE \E id \in EventIds, d \in Diffs : PostEvent(id, d)
    BY <1>c, <1>1 DEF PostEvent, EngineStep
<1>d. CASE \E id \in EventIds : PostEventAgain(id)
    BY <1>d, <1>1 DEF PostEventAgain, ResendTabEvent, EngineStep
<1>e. CASE \E id \in EventIds, d \in Diffs : PostEventFails(id, d)
    BY <1>e, <1>1 DEF PostEventFails, EngineStep
<1>f. CASE \E s \in Snapshot : PostSnapshot(s)
    BY <1>f, <1>1 DEF PostSnapshot, EngineStep
<1>g. CASE LoadPage
    BY <1>g, <1>1 DEF LoadPage, EngineStep
<1>h. CASE \E lines \in Browser :
             \E s \in {NoSnapshot, [records |-> FoldRecords(lines, NoSnapshot), seq |-> 1]} :
                PostImport(lines, s)
    BY <1>h, <1>2 DEF PostImport
<1>i. CASE \E lines \in Browser : PostImportFails(lines)
    BY <1>i, <1>3 DEF PostImportFails
<1>j. CASE Delete
    BY <1>j, <1>4 DEF Delete
<1>k. CASE GetCanvas
    BY <1>k, <1>1 DEF GetCanvas, EngineStep
<1>l. CASE ServerRestarts
    BY <1>l, <1>1 DEF ServerRestarts, EngineStep
<1>m. CASE UNCHANGED vars
    BY <1>m, <1>1 DEF vars, EngineStep
<1> QED
    BY <1>a, <1>b, <1>c, <1>d, <1>e, <1>f, <1>g, <1>h, <1>i, <1>j, <1>k, <1>l, <1>m DEF ServiceNext

LEMMA TypeStep == TypeOK /\ [ServiceNext]_vars => TypeOK'
<1> SUFFICES ASSUME TypeOK, [ServiceNext]_vars PROVE TypeOK'
    OBVIOUS
<1>t. EngineTypeOK /\ ClientsOK /\ recorded \in Seq(EventIds) /\ TruthOK
    BY TypesAreParts DEF TypeParts
<1>e. EngineTypeOK'
    BY <1>t, EngineTypeStep
<1>f. log' \in Seq(LogLine) /\ snap' \in Stored
    BY <1>e, EngineTypesAreParts DEF EngineParts
<1>c. ASSUME UNCHANGED clients PROVE ClientsOK'
    BY <1>t, <1>c DEF ClientsOK, clients
<1>r. ASSUME UNCHANGED boardHistory PROVE TruthOK'
    BY <1>t, <1>r DEF TruthOK, boardHistory
<1>k. ASSUME Kept PROVE recorded' \in Seq(EventIds)
    BY <1>t, <1>k, KeptType
<1>q. ASSUME ClientsOK', recorded' \in Seq(EventIds), TruthOK' PROVE TypeOK'
    BY <1>e, <1>q, TypesAreParts DEF TypeParts
<1>1. ASSUME NEW w \in Writes, PostCommand(w) PROVE TypeOK'
  <2>1. /\ Engine.watermark + 1 <= MaxSeq
        /\ entry'.watermark = Engine.watermark + 1
        /\ entry'.store = write(Engine.store, w)
    BY <1>1 DEF PostCommand, CommitCommand
  <2>2. entry'.watermark \in 0..MaxSeq /\ entry'.store \in Records
    <3>1. Engine.watermark + 1 \in 0..MaxSeq
      BY <1>t, <2>1, EngineType, BoundAssumption
    <3>2. write(Engine.store, w) \in Records
      BY <1>t, <2>1, CommandEvent
    <3> QED
      BY <2>1, <3>1, <3>2
  <2>3. TruthOK'
    BY <1>1, <1>t, <2>2, CommittedType DEF PostCommand
  <2> QED
    BY <1>1, <1>c, <1>k, <1>q, <2>3 DEF PostCommand
<1>2. ASSUME PostCommandFails PROVE TypeOK'
    BY <1>2, <1>c, <1>k, <1>r, <1>q DEF PostCommandFails
<1>3. ASSUME NEW id \in EventIds, NEW d \in Diffs, PostEvent(id, d) PROVE TypeOK'
  <2>1. PICK foldThrows \in BOOLEAN :
          /\ AppendTabEvent(id, d, foldThrows)
          /\ recorded' = IF foldThrows THEN <<>>
                         ELSE Append(IF entry = NoEntry THEN <<>> ELSE recorded, id)
    BY <1>3 DEF PostEvent
  <2>2. recorded' \in Seq(EventIds)
    BY <1>t, <2>1, AppendProperties
  <2> DEFINE n == Engine.watermark + 1
             records == applyDiff(Engine.store, d)
  <2>3. n <= MaxSeq
    BY <2>1 DEF AppendTabEvent
  <2>4. n \in 1..MaxSeq /\ records \in Records
    BY <1>t, <2>3, TabEvent
  <2>5. n \in 0..MaxSeq
    BY <2>4, BoundAssumption
  <2>6. Committed(n, records, d)
    BY <1>3 DEF PostEvent
  <2> HIDE DEF n, records
  <2>7. TruthOK'
    BY <1>t, <2>4, <2>5, <2>6, CommittedType
  <2>8. ClientsOK'
    BY <1>3, <1>t, ClientsStep DEF PostEvent
  <2> QED
    BY <1>q, <2>2, <2>7, <2>8
<1>4. ASSUME NEW id \in EventIds, PostEventAgain(id) PROVE TypeOK'
  <2>1. ClientsOK'
    BY <1>4, <1>t, EmptyDiffType, ClientsStep DEF PostEventAgain
  <2> QED
    BY <1>4, <1>t, <1>r, <1>q, <2>1 DEF PostEventAgain
<1>5. ASSUME NEW id \in EventIds, NEW d \in Diffs, PostEventFails(id, d) PROVE TypeOK'
  <2>1. ClientsOK'
    BY <1>5, <1>t, ClientsStep DEF PostEventFails
  <2> QED
    BY <1>5, <1>k, <1>r, <1>q, <2>1 DEF PostEventFails
<1>6. ASSUME NEW s \in Snapshot, PostSnapshot(s) PROVE TypeOK'
  <2>1. recorded' \in Seq(EventIds)
    BY <1>6, <1>t DEF PostSnapshot
  <2>2. s.seq \in 0..MaxSeq /\ s.records \in Records
    BY DEF Snapshot
  <2>3. TruthOK'
    BY <1>6, <1>t, <2>2 DEF PostSnapshot, TruthOK, Restates
  <2> QED
    BY <1>6, <1>c, <1>q, <2>1, <2>3 DEF PostSnapshot
<1>7. ASSUME LoadPage PROVE TypeOK'
    BY <1>7, <1>t, <1>c, <1>r, <1>q DEF LoadPage
<1>8. ASSUME NEW lines, NEW s, PostImport(lines, s) PROVE TypeOK'
    BY <1>8, <1>f, <1>c, <1>k, <1>q, ReplacedType DEF PostImport
<1>9. ASSUME NEW lines, PostImportFails(lines) PROVE TypeOK'
    BY <1>9, <1>t, <1>f, <1>c, <1>q, ReplacedType DEF PostImportFails
<1>10. ASSUME Delete PROVE TypeOK'
    BY <1>10, <1>f, <1>c, <1>k, <1>q, ReplacedType DEF Delete
<1>11. ASSUME GetCanvas PROVE TypeOK'
    BY <1>11, <1>c, <1>k, <1>r, <1>q DEF GetCanvas
<1>12. ASSUME ServerRestarts PROVE TypeOK'
    BY <1>12, <1>c, <1>k, <1>r, <1>q DEF ServerRestarts
<1>13. ASSUME UNCHANGED vars PROVE TypeOK'
    BY <1>13, <1>t, <1>c, <1>r, <1>q DEF vars, clients, boardHistory
<1> QED
    BY <1>1, <1>2, <1>3, <1>4, <1>5, <1>6, <1>7, <1>8, <1>9, <1>10, <1>11, <1>12, <1>13
       DEF ServiceNext

(***************************************************************************)
(* Every request finds and leaves files, store, ring and answers of the    *)
(* shapes the code expects: TypeOK of run service, for every set of ids,   *)
(* values and faults and every bound.                                      *)
(***************************************************************************)
THEOREM ServiceTyped == Spec => []TypeOK
<1> QED
    BY InitType, TypeStep, PTL DEF Spec

-----------------------------------------------------------------------------
(***************************************************************************)
(* The live store, the log and the catch-up, unless an import may fail     *)
(* half-way: that leaves a resident store behind the files it was hydrated *)
(* from (ImportFails), and then none of what follows holds.                *)
(***************************************************************************)
AsOf(w) == [records |-> truth[w], seq |-> w]

\* No remembered position is ahead of the files.
Known == \A w \in DOMAIN truth : w <= FoldWatermark(log, snap)

\* The log, folded onto the records as of a position it still reaches back to, is the board, but for
\* what a save restated.
CaughtUp ==
    \A w \in DOMAIN truth :
        w + KeepTail >= SnapSeq(snap) =>
            \A id \in Ids \ restated : FoldRecords(log, AsOf(w))[id] = FoldRecords(log, snap)[id]

BoardInv == TypeOK /\ LiveIsFold /\ SeqsIncrease /\ Known /\ CaughtUp

\* What one step does to the board the files stand for.
BoardStep == [Board!BoardNext]_(Board!boardVars)

LEMMA SameBoard ==
    ASSUME FoldRecords(log', snap') = FoldRecords(log, snap),
           FoldWatermark(log', snap') = FoldWatermark(log, snap), snap' = snap
    PROVE  BoardStep
BY DEF BoardStep, Board!boardVars

LEMMA BoardTerms ==
    /\ Board!Diffs = Diffs /\ Board!Records = Records /\ Board!NoRecords = NoRecords
    /\ Board!Snapshot = Snapshot
    /\ \A records, d : Board!applyDiff(records, d) = applyDiff(records, d)
BY DEF Board!Diffs, Board!Change, Board!Touch, Board!Slot, Board!Records, Board!NoRecords,
       Board!applyDiff, Board!Snapshot, Snapshot, Diffs, Change, Touch, Slot, Records, NoRecords, applyDiff

LEMMA FilesTyped ==
    ASSUME TypeOK
    PROVE  EngineTypeOK /\ TruthOK /\ log \in Seq(LogLine) /\ snap \in Stored
BY TypesAreParts, EngineTypesAreParts DEF TypeParts, EngineParts

\* A store that agrees with the files' records, but for what a save restated.
Agrees(store) == \A id \in Ids : store[id] = FoldRecords(log, snap)[id] \/ id \in restated

\* getBoardEngine answers with what the files fold to, resident or not, but for what a save restated.
LEMMA EngineIsFold ==
    ASSUME TypeOK, LiveIsFold
    PROVE  /\ Agrees(Engine.store) /\ Engine.store \in Records
           /\ Engine.watermark = FoldWatermark(log, snap)
<1>1. EngineTypeOK /\ log \in Seq(LogLine) /\ snap \in Stored
    BY FilesTyped
<1> QED
    BY <1>1, HydratedType, EngineType DEF Engine, LiveIsFold, Agrees

LEMMA AsOfShape ==
    ASSUME TruthOK, NEW w \in DOMAIN truth
    PROVE  /\ AsOf(w) \in Snapshot /\ AsOf(w) \in Stored /\ SnapSeq(AsOf(w)) = w
           /\ w \in Nat /\ AsOf(w).records = truth[w] /\ AsOf(w).seq = w
<1>1. AsOf(w) \in Snapshot /\ w \in Nat
    BY BoundAssumption DEF AsOf, TruthOK, Snapshot
<1> QED
    BY <1>1, MarkerAssumption DEF SnapSeq, Stored, AsOf

\* A commit: the next seq, appended, with the records it leaves.  A record it touches is no longer
\* one that a save restated.
LEMMA CommitStep ==
    ASSUME BoardInv, NEW e \in Event, e.seq = FoldWatermark(log, snap) + 1,
           NEW store \in Records, Agrees(store),
           log' = Append(log, e), snap' = snap,
           Committed(e.seq, applyDiff(store, e.diff), e.diff)
    PROVE  /\ \A id \in Ids : applyDiff(store, e.diff)[id] = FoldRecords(log', snap')[id] \/ id \in restated'
           /\ FoldWatermark(log', snap') = e.seq
           /\ SeqsIncrease' /\ Known' /\ CaughtUp' /\ BoardStep
<1> DEFINE n == FoldWatermark(log, snap)
           after == applyDiff(FoldRecords(log, snap), e.diff)
           left == applyDiff(store, e.diff)
<1>1. EngineTypeOK /\ TruthOK /\ log \in Seq(LogLine) /\ snap \in Stored
    BY FilesTyped DEF BoardInv
<1>2. /\ n \in Nat /\ SnapSeq(snap) <= n /\ SnapSeq(snap) \in Nat
      /\ e.seq \in Nat /\ e.seq > n /\ e.seq > SnapSeq(snap)
    BY <1>1, WatermarkIs, SnapSeqType, EventShape
<1>3. \A i \in Readable(log) : log[i].seq \in Nat /\ log[i].seq < e.seq
    BY <1>1, <1>2, WatermarkIs, ReadableShape, EventShape
<1>4. /\ FoldRecords(log', snap') = after
      /\ FoldWatermark(log', snap') = e.seq
  <2>1. e.seq >= FoldWatermark(log, snap)
    BY <1>2
  <2> QED
    BY <1>1, <1>2, <2>1, FoldOfAppend, WatermarkOfAppend
<1>5. SeqsIncrease'
  <2>1. Increasing(Append(log, e))
    BY <1>1, <1>3, AppendIncreases DEF BoardInv, SeqsIncrease, Increasing
  <2> QED
    BY <2>1 DEF SeqsIncrease, Increasing
<1>6. /\ DOMAIN truth' = DOMAIN truth \cup {e.seq}
      /\ \A w \in DOMAIN truth' : truth'[w] = IF w = e.seq THEN left ELSE truth[w]
      /\ restated' = restated \ DOMAIN e.diff
    BY DEF Committed
<1>7. Known'
  <2>1. \A w \in DOMAIN truth : w <= n /\ w \in Nat
    BY <1>1, AsOfShape DEF BoardInv, Known
  <2> QED
    BY <1>2, <1>4, <1>6, <2>1 DEF Known
<1>8. after \in Records /\ left \in Records /\ e \in LogLine /\ log' \in Seq(LogLine)
    BY <1>1, FoldType, RecordsType, EventShape, AppendedLine DEF LogLine
<1>a. \A r : \A id \in Ids : applyDiff(r, e.diff)[id] = IF id \in DOMAIN e.diff THEN e.diff[id].to ELSE r[id]
    BY DEF applyDiff
<1>b. \A id \in Ids : left[id] = after[id] \/ id \in restated'
    BY <1>6, <1>a DEF Agrees
<1> HIDE DEF n, after, left
<1>9. CaughtUp'
  <2> SUFFICES ASSUME NEW w \in DOMAIN truth', w + KeepTail >= SnapSeq(snap), NEW id \in Ids \ restated'
               PROVE  FoldRecords(log', AsOf(w)')[id] = after[id]
    BY <1>4 DEF CaughtUp
  <2>1. CASE w = e.seq
    <3>1. AsOf(w)' = [records |-> left, seq |-> e.seq]
      BY <2>1, <1>6 DEF AsOf
    <3>2. AsOf(w)' \in Snapshot
      BY <3>1, <1>8, EventShape, BoundAssumption DEF Snapshot
    <3>3. \A i \in Readable(log') : log'[i].seq <= AsOf(w)'.seq
      <4>1. \A i \in Readable(log') : log'[i].seq <= e.seq
        BY <1>1, <1>3, AppendIsNewest
      <4>2. AsOf(w)'.seq = e.seq
        BY <3>1
      <4> QED
        BY <4>1, <4>2
    <3>4. FoldRecords(log', AsOf(w)') = left
      BY <1>8, <3>1, <3>2, <3>3, FoldOfNone
    <3> QED
      BY <3>4, <1>b
  <2>2. CASE w # e.seq
    <3>1. w \in DOMAIN truth /\ AsOf(w)' = AsOf(w)
      BY <2>2, <1>6 DEF AsOf
    <3>2. id \in DOMAIN e.diff \/ FoldRecords(log, AsOf(w))[id] = FoldRecords(log, snap)[id]
      BY <3>1, <1>6 DEF BoardInv, CaughtUp
    <3>3. AsOf(w) \in Stored /\ e.seq > SnapSeq(AsOf(w))
      BY <1>1, <1>2, <3>1, AsOfShape DEF BoardInv, Known, n
    <3>4. FoldRecords(Append(log, e), AsOf(w)) = applyDiff(FoldRecords(log, AsOf(w)), e.diff)
      BY <1>1, <3>3, FoldOfAppend
    <3> QED
      BY <1>a, <3>1, <3>2, <3>4 DEF after
  <2> QED
    BY <2>1, <2>2
<1>10. BoardStep
  <2>1. n < MaxSeq /\ e.diff \in Diffs
    BY <1>2, EventShape, BoundAssumption DEF n
  <2>2. Board!CommitNext
    BY <1>4, <2>1, BoardTerms DEF Board!CommitNext, n, after
  <2> QED
    BY <2>2 DEF BoardStep, Board!BoardNext
<1> QED
    BY <1>4, <1>5, <1>7, <1>9, <1>10, <1>b DEF left

\* A write that failed: the files fold to what they did.
LEMMA InterruptedStep ==
    ASSUME BoardInv, AppendInterrupted, UNCHANGED <<snap, boardHistory>>
    PROVE  /\ FoldRecords(log', snap') = FoldRecords(log, snap)
           /\ FoldWatermark(log', snap') = FoldWatermark(log, snap)
           /\ SeqsIncrease' /\ Known' /\ CaughtUp' /\ BoardStep
<1>1. log \in Seq(LogLine) /\ snap \in Stored
    BY FilesTyped DEF BoardInv
<1>2. log' = log \/ log' = Append(log, Torn)
    BY DEF AppendInterrupted, appendBoardEvent
<1>3. \A s : /\ FoldRecords(log', s) = FoldRecords(log, s)
             /\ FoldWatermark(log', s) = FoldWatermark(log, s)
    BY <1>1, <1>2, FoldOfTorn
<1>4. SeqsIncrease'
    BY <1>1, <1>2, TornIncreases DEF BoardInv, SeqsIncrease, Increasing
<1>5. Known' /\ CaughtUp'
    BY <1>3 DEF BoardInv, Known, CaughtUp, AsOf, boardHistory
<1> QED
    BY <1>3, <1>4, <1>5, SameBoard

\* Wholesale change: the files become the only known state.
LEMMA ReplacedStep ==
    ASSUME log' \in Seq(LogLine), snap' \in Stored, Increasing(log'), Replaced
    PROVE  SeqsIncrease' /\ Known' /\ CaughtUp'
<1> DEFINE n == FoldWatermark(log', snap')
           records == FoldRecords(log', snap')
<1>1. /\ n \in 0..MaxSeq /\ n \in Nat /\ records \in Records
      /\ \A i \in Readable(log') : log'[i].seq <= n
    BY WatermarkIs, FoldType
<1>2. truth' = [m \in {n} |-> records]
    BY DEF Replaced
<1> HIDE DEF n, records
<1>3. Known'
    BY <1>1, <1>2 DEF Known, n
<1>4. ASSUME NEW w \in DOMAIN truth' PROVE FoldRecords(log', AsOf(w)') = records
  <2>1. AsOf(w)' = [records |-> records, seq |-> n]
    BY <1>2 DEF AsOf
  <2>2. AsOf(w)' \in Snapshot
    BY <1>1, <2>1 DEF Snapshot
  <2> QED
    BY <1>1, <2>1, <2>2, FoldOfNone
<1>5. CaughtUp'
    BY <1>4 DEF CaughtUp, records
<1> QED
    BY <1>3, <1>5 DEF SeqsIncrease, Increasing

\* A stored snapshot: as of a committed seq it says what the files already said, but for what it
\* restates; ahead of every event it is the board from then on, and a resident store is hydrated from it.
LEMMA SnapshotStep ==
    ASSUME BoardInv, NEW s \in Snapshot, PostSnapshot(s)
    PROVE  LiveIsFold' /\ SeqsIncrease' /\ Known' /\ CaughtUp' /\ BoardStep
<1> DEFINE n == FoldWatermark(log, snap)
<1>1. EngineTypeOK /\ TruthOK /\ log \in Seq(LogLine) /\ snap \in Stored
    BY FilesTyped DEF BoardInv
<1>2. s \in Stored /\ SnapSeq(s) = s.seq /\ s.seq \in Nat /\ s.seq <= MaxSeq /\ MaxSeq \in Nat
    BY MarkerAssumption, BoundAssumption DEF Stored, SnapSeq, Snapshot
<1>3. n \in Nat /\ SnapSeq(snap) \in Nat /\ SnapSeq(snap) <= n
    BY <1>1, WatermarkIs, SnapSeqType
<1>4. /\ s.seq >= SnapSeq(snap)
      /\ log' = log /\ snap' = s
      /\ entry' = IF entry # NoEntry /\ s.seq > entry.watermark THEN hydrateEntry(log, s) ELSE entry
    BY <1>2, <1>3 DEF PostSnapshot, SaveSnapshot, Stale
<1>5. SeqsIncrease'
    BY <1>4 DEF BoardInv, SeqsIncrease
<1>6. entry # NoEntry => Agrees(entry.store) /\ entry.watermark = n
    BY DEF BoardInv, LiveIsFold, Agrees
<1>o. s.records \in Records /\ FoldRecords(log, s) \in Records
    BY <1>1, <1>2, FoldType DEF Snapshot
<1>a. \A i \in Readable(log) : log[i].seq <= n
    BY <1>1, WatermarkIs
<1> HIDE DEF n
<1>7. CASE s.seq <= n
  <2>1. restated' = restated \cup Restates(s) /\ truth' = truth
    BY <1>7 DEF PostSnapshot, n
  <2>2. ASSUME NEW id \in Ids \ restated'
        PROVE  FoldRecords(log, s)[id] = FoldRecords(log, snap)[id]
    <3>1. s.seq \in DOMAIN truth /\ s.records[id] = truth[s.seq][id] /\ id \notin restated
      BY <2>1, <2>2 DEF Restates
    <3>2. /\ AsOf(s.seq) \in Snapshot /\ AsOf(s.seq).seq = s.seq
          /\ AsOf(s.seq).records[id] = s.records[id]
      BY <1>1, <3>1, AsOfShape
    <3>3. FoldRecords(log, s)[id] = FoldRecords(log, AsOf(s.seq))[id]
      BY <3>2, FoldOfAgreeing
    <3>4. s.seq + KeepTail >= SnapSeq(snap)
      BY <1>2, <1>3, <1>4, BoundAssumption
    <3> QED
      BY <3>1, <3>3, <3>4 DEF BoardInv, CaughtUp
  <2>4. FoldWatermark(log, s) = n
    BY <1>1, <1>2, <1>4, <1>7, WatermarkOfBehind DEF n
  <2>5. entry' = entry
    BY <1>2, <1>3, <1>4, <1>6, <1>7
  <2>6. LiveIsFold'
    BY <1>4, <1>6, <2>1, <2>2, <2>4, <2>5 DEF LiveIsFold, Agrees
  <2>7. Known'
    BY <1>4, <2>1, <2>4 DEF BoardInv, Known, n
  <2>8. CaughtUp'
    <3> SUFFICES ASSUME NEW w \in DOMAIN truth, w + KeepTail >= s.seq, NEW id \in Ids \ restated'
                 PROVE  FoldRecords(log, AsOf(w))[id] = FoldRecords(log, s)[id]
      BY <1>2, <1>4, <2>1 DEF CaughtUp, AsOf
    <3>1. w \in Nat /\ KeepTail \in Nat
      BY <1>1, AsOfShape, BoundAssumption
    <3>2. w + KeepTail >= SnapSeq(snap)
      BY <1>2, <1>3, <1>4, <3>1
    <3> QED
      BY <2>1, <2>2, <3>2 DEF BoardInv, CaughtUp
  <2>9. Board!Save(s)
    <3>1. \A id \in Ids : FoldRecords(log, s)[id] \in {s.records[id], FoldRecords(log, snap)[id]}
      <4>1. Increasing(log) /\ SnapSeq(snap) <= s.seq
        BY <1>2, <1>3, <1>4 DEF BoardInv, SeqsIncrease, Increasing
      <4> QED
        BY <1>1, <4>1, FoldOfLater
    <3>2. s.seq = n => FoldRecords(log, s) = s.records
      BY <1>1, <1>a, FoldOfNone
    <3>3. snap # NoSnapshot => snap.seq <= s.seq
      BY <1>2, <1>3, <1>4 DEF SnapSeq
    <3> QED
      BY <1>4, <1>7, <1>o, <2>4, <3>1, <3>2, <3>3, BoardTerms DEF Board!Save, n
  <2> QED
    BY <1>5, <2>6, <2>7, <2>8, <2>9, BoardTerms DEF BoardStep, Board!BoardNext
<1>8. CASE ~(s.seq <= n)
  <2>1. s.seq > n /\ s.seq >= n
    BY <1>2, <1>3, <1>8
  <2>2. truth' = [m \in {s.seq} |-> s.records]
    BY <1>8 DEF PostSnapshot, n
  <2>3. FoldWatermark(log, s) = s.seq
    BY <1>1, <1>2, <2>1, WatermarkOfAhead DEF n
  <2>4. FoldRecords(log, s) = s.records
    <3>1. \A i \in Readable(log) : log[i].seq <= s.seq
      BY <1>1, <1>2, <2>3, WatermarkIs
    <3> QED
      BY <1>1, <3>1, FoldOfNone
  <2>5. entry' = NoEntry \/ entry' = hydrateEntry(log, s)
    BY <1>4, <1>6, <2>1
  <2>6. LiveIsFold'
    BY <1>1, <1>2, <1>4, <2>5, HydratedType DEF LiveIsFold
  <2>7. Known'
    BY <1>2, <1>4, <2>2, <2>3 DEF Known
  <2>8. CaughtUp'
    <3> SUFFICES ASSUME NEW w \in DOMAIN truth'
                 PROVE  FoldRecords(log, AsOf(w)') = FoldRecords(log, s)
      BY <1>4 DEF CaughtUp
    <3>1. AsOf(w)' = [records |-> s.records, seq |-> s.seq]
      BY <2>2 DEF AsOf
    <3>2. AsOf(w)' = s
      BY <3>1 DEF Snapshot
    <3> QED
      BY <3>2
  <2>9. Board!Adopt(s)
    BY <1>4, <2>1, <2>3, <2>4 DEF Board!Adopt, n
  <2> QED
    BY <1>5, <2>6, <2>7, <2>8, <2>9, BoardTerms DEF BoardStep, Board!BoardNext
<1> QED
    BY <1>7, <1>8

\* compactBoardEvents: nothing the fold or a catch-up within the kept tail needs is dropped.
LEMMA CompactStep ==
    ASSUME BoardInv, LoadPage
    PROVE  LiveIsFold' /\ SeqsIncrease' /\ Known' /\ CaughtUp' /\ BoardStep
<1> DEFINE at == {i \in Readable(log) : ~Droppable(log[i])}
<1>1. EngineTypeOK /\ TruthOK /\ log \in Seq(LogLine) /\ snap \in Stored
    BY FilesTyped DEF BoardInv
<1>2. UNCHANGED <<snap, entry, truth, restated>>
    BY DEF LoadPage, Boot, boardHistory
<1>3. log' = log \/ log' = LinesAt(log, at)
    BY DEF LoadPage, Boot, compactBoardEvents
<1>4. CASE log' = log
    BY <1>2, <1>4, SameBoard DEF BoardInv, LiveIsFold, SeqsIncrease, Known, CaughtUp, AsOf
<1>5. CASE log' = LinesAt(log, at)
  <2>1. ASSUME NEW s \in Stored, SnapSeq(s) + KeepTail >= SnapSeq(snap)
        PROVE  TailOf(log, s) \subseteq at
    <3>1. ASSUME NEW i \in TailOf(log, s) PROVE i \in at
      <4>1. i \in Readable(log) /\ log[i].seq > SnapSeq(s) /\ log[i].seq \in Nat
        BY <1>1, ReadableShape, EventShape DEF TailOf
      <4>2. SnapSeq(s) \in Nat /\ SnapSeq(snap) \in Nat /\ KeepTail \in Nat
        BY <1>1, SnapSeqType, BoundAssumption
      <4>3. ~(log[i].seq + KeepTail <= SnapSeq(snap))
        BY <2>1, <4>1, <4>2
      <4> QED
        BY <4>1, <4>3 DEF Droppable
    <3> QED
      BY <3>1
  <2>2. SnapSeq(snap) + KeepTail >= SnapSeq(snap)
    BY <1>1, SnapSeqType, BoundAssumption
  <2>3. at \in SUBSET Readable(log)
    OBVIOUS
  <2> HIDE DEF at
  <2>4. /\ FoldRecords(log', snap) = FoldRecords(log, snap)
        /\ FoldWatermark(log', snap) = FoldWatermark(log, snap)
    BY <1>1, <1>5, <2>1, <2>2, <2>3, FoldOfSome, WatermarkOfSome
  <2>5. SeqsIncrease'
    <3>1. Increasing(log)
      BY DEF BoardInv, SeqsIncrease, Increasing
    <3>2. Increasing(log')
      BY <1>1, <1>5, <2>3, <3>1, SomeIncrease
    <3> QED
      BY <3>2 DEF SeqsIncrease, Increasing
  <2>6. CaughtUp'
    <3> SUFFICES ASSUME NEW w \in DOMAIN truth, w + KeepTail >= SnapSeq(snap), NEW id \in Ids \ restated
                 PROVE  FoldRecords(log', AsOf(w))[id] = FoldRecords(log', snap)[id]
      BY <1>2 DEF CaughtUp, AsOf
    <3>1. AsOf(w) \in Stored /\ SnapSeq(AsOf(w)) = w
      BY <1>1, AsOfShape
    <3>2. FoldRecords(log', AsOf(w)) = FoldRecords(log, AsOf(w))
      BY <1>1, <1>5, <2>1, <2>3, <3>1, FoldOfSome
    <3> QED
      BY <2>4, <3>2 DEF BoardInv, CaughtUp
  <2>7. LiveIsFold' /\ Known' /\ BoardStep
    BY <1>2, <2>4, SameBoard DEF BoardInv, LiveIsFold, Known
  <2> QED
    BY <2>5, <2>6, <2>7
<1> QED
    BY <1>3, <1>4, <1>5

LEMMA BoardInit ==
    ASSUME Init
    PROVE  BoardInv /\ Board!BoardInit
<1>1. /\ log = <<>> /\ snap = NoSnapshot /\ entry = NoEntry
      /\ truth = [n \in {0} |-> NoRecords] /\ restated = {}
      /\ log \in Seq(LogLine) /\ snap \in Stored /\ Readable(log) = {}
    BY DEF Init, EngineInit, Readable, Stored
<1>2. FoldRecords(log, snap) = NoRecords
  <2>1. \A id \in Ids : FoldRecords(log, snap)[id] = Absent
    BY <1>1 DEF FoldRecords
  <2>2. FoldRecords(log, snap) = [id \in Ids |-> FoldRecords(log, snap)[id]]
    BY DEF FoldRecords
  <2> QED
    BY <2>1, <2>2 DEF NoRecords
<1>3. FoldWatermark(log, snap) = 0
    BY <1>1, WatermarkIs DEF SeqsOf, SnapSeq
<1>4. SeqsIncrease /\ LiveIsFold /\ Known
    BY <1>1, <1>3 DEF SeqsIncrease, LiveIsFold, Known
<1>5. CaughtUp
  <2>1. NoRecords \in Records /\ 0 \in 0..MaxSeq
    BY BoundAssumption DEF NoRecords, Records, Slot
  <2>2. [records |-> NoRecords, seq |-> 0] \in Snapshot
    BY <2>1 DEF Snapshot
  <2>3. FoldRecords(log, [records |-> NoRecords, seq |-> 0]) = NoRecords
    BY <1>1, <2>2, FoldOfNone
  <2> QED
    BY <1>1, <1>2, <2>3 DEF CaughtUp, AsOf
<1>6. Board!BoardInit
    BY <1>1, <1>2, <1>3, BoardTerms DEF Board!BoardInit
<1> QED
    BY <1>4, <1>5, <1>6, InitType DEF BoardInv

LEMMA BoardInvStep ==
    ASSUME "import" \notin Faults, BoardInv, [ServiceNext]_vars
    PROVE  BoardInv' /\ BoardStep
<1> DEFINE n == FoldWatermark(log, snap)
<1>t. TypeOK' /\ log' \in Seq(LogLine) /\ snap' \in Stored
    BY TypeStep, TypesAreParts, EngineTypesAreParts DEF BoardInv, TypeParts, EngineParts
<1>0. EngineTypeOK /\ log \in Seq(LogLine) /\ snap \in Stored
    BY FilesTyped DEF BoardInv
<1>e. Agrees(Engine.store) /\ Engine.store \in Records /\ Engine.watermark = n
    BY EngineIsFold DEF BoardInv
<1> SUFFICES LiveIsFold' /\ SeqsIncrease' /\ Known' /\ CaughtUp' /\ BoardStep
    BY <1>t DEF BoardInv
<1>i. ASSUME AppendInterrupted, UNCHANGED <<snap, boardHistory>>, entry' = NoEntry \/ entry' = Engine
      PROVE  LiveIsFold' /\ SeqsIncrease' /\ Known' /\ CaughtUp' /\ BoardStep
    BY <1>i, <1>e, InterruptedStep DEF LiveIsFold, Agrees, boardHistory
<1>r. ASSUME Increasing(log'), Replaced, entry' = NoEntry
      PROVE  LiveIsFold' /\ SeqsIncrease' /\ Known' /\ CaughtUp'
    BY <1>r, <1>t, ReplacedStep DEF LiveIsFold
<1>u. ASSUME UNCHANGED <<log, snap, boardHistory>>, entry' = entry \/ entry' = Engine
      PROVE  LiveIsFold' /\ SeqsIncrease' /\ Known' /\ CaughtUp' /\ BoardStep
    BY <1>u, <1>e, SameBoard DEF BoardInv, LiveIsFold, Agrees, SeqsIncrease, Known, CaughtUp, AsOf, boardHistory
<1>1. ASSUME NEW w \in Writes, PostCommand(w)
      PROVE  LiveIsFold' /\ SeqsIncrease' /\ Known' /\ CaughtUp' /\ BoardStep
  <2> DEFINE d == build(touch(emptyDiff, Engine.store, w))
             e == [id |-> NoId, seq |-> Engine.watermark + 1, diff |-> d]
  <2>1. /\ Engine.watermark + 1 <= MaxSeq
        /\ log' = Append(log, e) /\ snap' = snap
        /\ entry'.store = write(Engine.store, w) /\ entry'.watermark = Engine.watermark + 1
        /\ Committed(entry'.watermark, entry'.store, d)
    BY <1>1 DEF PostCommand, CommitCommand, appendBoardEvent
  <2>2. e \in Event /\ applyDiff(Engine.store, d) = write(Engine.store, w)
    BY <1>0, <2>1, CommandEvent
  <2>3. e.seq = n + 1 /\ e.diff = d /\ applyDiff(Engine.store, e.diff) = entry'.store /\ entry'.watermark = e.seq
    BY <1>e, <2>1, <2>2
  <2> HIDE DEF e, d
  <2>4. Committed(e.seq, applyDiff(Engine.store, e.diff), e.diff)
    BY <2>1, <2>3
  <2> QED
    BY <1>e, <2>1, <2>2, <2>3, <2>4, CommitStep DEF LiveIsFold
<1>2. ASSUME PostCommandFails
      PROVE  LiveIsFold' /\ SeqsIncrease' /\ Known' /\ CaughtUp' /\ BoardStep
    BY <1>2, <1>i DEF PostCommandFails, CommandFails
<1>3. ASSUME NEW id \in EventIds, NEW d \in Diffs, PostEvent(id, d)
      PROVE  LiveIsFold' /\ SeqsIncrease' /\ Known' /\ CaughtUp' /\ BoardStep
  <2> DEFINE e == [id |-> id, seq |-> Engine.watermark + 1, diff |-> d]
  <2>1. PICK foldThrows \in BOOLEAN : AppendTabEvent(id, d, foldThrows)
    BY <1>3 DEF PostEvent
  <2>2. /\ Engine.watermark + 1 <= MaxSeq
        /\ log' = Append(log, e) /\ snap' = snap
        /\ \/ entry' = NoEntry
           \/ /\ entry'.store = applyDiff(Engine.store, d)
              /\ entry'.watermark = Engine.watermark + 1
    BY <2>1 DEF AppendTabEvent, appendBoardEvent
  <2>3. Committed(Engine.watermark + 1, applyDiff(Engine.store, d), d)
    BY <1>3 DEF PostEvent
  <2>4. e \in Event
    BY <1>0, <2>2, TabEvent
  <2>5. /\ e.seq = n + 1 /\ Committed(e.seq, applyDiff(Engine.store, e.diff), e.diff)
        /\ \/ entry' = NoEntry
           \/ entry'.store = applyDiff(Engine.store, e.diff) /\ entry'.watermark = e.seq
    BY <1>e, <2>2, <2>3
  <2> HIDE DEF e
  <2> QED
    BY <1>e, <2>2, <2>4, <2>5, CommitStep DEF LiveIsFold
<1>4. ASSUME NEW id \in EventIds, PostEventAgain(id)
      PROVE  LiveIsFold' /\ SeqsIncrease' /\ Known' /\ CaughtUp' /\ BoardStep
    BY <1>4, <1>u DEF PostEventAgain, ResendTabEvent, engineVars
<1>5. ASSUME NEW id \in EventIds, NEW d \in Diffs, PostEventFails(id, d)
      PROVE  LiveIsFold' /\ SeqsIncrease' /\ Known' /\ CaughtUp' /\ BoardStep
    BY <1>5, <1>i DEF PostEventFails, TabEventFails
<1>6. ASSUME NEW s \in Snapshot, PostSnapshot(s)
      PROVE  LiveIsFold' /\ SeqsIncrease' /\ Known' /\ CaughtUp' /\ BoardStep
    BY <1>6, SnapshotStep
<1>7. ASSUME LoadPage
      PROVE  LiveIsFold' /\ SeqsIncrease' /\ Known' /\ CaughtUp' /\ BoardStep
    BY <1>7, CompactStep
<1>8. ASSUME NEW lines \in Browser, NEW s, PostImport(lines, s)
      PROVE  LiveIsFold' /\ SeqsIncrease' /\ Known' /\ CaughtUp' /\ BoardStep
  <2>1. log' = lines /\ Replaced /\ entry' = NoEntry /\ Readable(log) = {} /\ snap = NoSnapshot
    BY <1>8 DEF PostImport, ImportBoard, hasBoardPersist
  <2>2. Increasing(log')
    <3>1. Increasing(lines)
      <4>1. lines \in Seq(LogLine) /\ Len(lines) = 1
        BY BrowserType
      <4>2. Len(lines) <= 1
        BY <4>1
      <4> QED
        BY <4>1, <4>2, OneLineIncreases
    <3> QED
      BY <2>1, <3>1
  <2>3. n = 0
    BY <1>0, <2>1, WatermarkIs DEF SeqsOf, SnapSeq
  <2>4. FoldWatermark(log', snap') \in 0..MaxSeq /\ FoldRecords(log', snap') \in Records
    BY <1>t, WatermarkIs, FoldType
  <2>5. Board!Import
    BY <1>t, <2>1, <2>3, <2>4, BoardTerms DEF Board!Import, Stored
  <2> QED
    BY <1>r, <2>1, <2>2, <2>5 DEF BoardStep, Board!BoardNext
<1>9. CASE Delete
  <2>1. log' = <<>> /\ snap' = NoSnapshot /\ entry' = NoEntry /\ Replaced
    BY <1>9 DEF Delete, ClearBoard
  <2>2. Readable(log') = {} /\ Increasing(log')
    BY <2>1 DEF Readable, Increasing
  <2>3. FoldWatermark(log', snap') = 0
    BY <1>t, <2>1, <2>2, WatermarkIs DEF SeqsOf, SnapSeq
  <2>4. FoldRecords(log', snap') = NoRecords
    <3>1. \A id \in Ids : FoldRecords(log', snap')[id] = Absent
      BY <2>1, <2>2 DEF FoldRecords
    <3>2. FoldRecords(log', snap') = [id \in Ids |-> FoldRecords(log', snap')[id]]
      BY DEF FoldRecords
    <3> QED
      BY <3>1, <3>2 DEF NoRecords
  <2>5. Board!Clear
    BY <2>1, <2>3, <2>4, BoardTerms DEF Board!Clear
  <2> QED
    BY <1>r, <2>1, <2>2, <2>5 DEF BoardStep, Board!BoardNext
<1>10. CASE GetCanvas
    BY <1>10, <1>u DEF GetCanvas, Read, files
<1>11. CASE ServerRestarts
    BY <1>11, <1>i DEF ServerRestarts, Restart
<1>12. CASE UNCHANGED vars
    BY <1>12, <1>u DEF vars, engineVars, boardHistory
<1>13. ASSUME NEW lines, PostImportFails(lines) PROVE FALSE
    BY <1>13 DEF PostImportFails
<1> QED
    BY <1>1, <1>2, <1>3, <1>4, <1>5, <1>6, <1>7, <1>8, <1>9, <1>10, <1>11, <1>12, <1>13
       DEF ServiceNext

LEMMA BoardInvariant ==
    ASSUME "import" \notin Faults
    PROVE  Spec => []BoardInv
<1>1. Init => BoardInv
    BY BoardInit
<1>2. BoardInv /\ [ServiceNext]_vars => BoardInv'
    BY BoardInvStep
<1> QED
    BY <1>1, <1>2, PTL DEF Spec

(***************************************************************************)
(* Whatever fails, is resent or restarts, and whatever a save says, a      *)
(* resident store is what the files fold to but for records that a save    *)
(* restated and no commit touched since: LiveIsFold of run service, unless *)
(* an import may fail half-way (board-engine.ts:23-25,                     *)
(* routes/board-persist.ts:56-86).                                         *)
(***************************************************************************)
THEOREM StoreIsTheFiles ==
    ASSUME "import" \notin Faults
    PROVE  Spec => []LiveIsFold
<1>1. BoardInv => LiveIsFold
    BY DEF BoardInv
<1> QED
    BY <1>1, BoardInvariant, PTL

(***************************************************************************)
(* Every appended event takes a seq no readable line has: SeqsIncrease of  *)
(* run service (board-engine.ts:246-252).                                  *)
(***************************************************************************)
THEOREM LogStaysOrdered ==
    ASSUME "import" \notin Faults
    PROVE  Spec => []SeqsIncrease
<1>1. BoardInv => SeqsIncrease
    BY DEF BoardInv
<1> QED
    BY <1>1, BoardInvariant, PTL

(***************************************************************************)
(* Compaction, stale saves and torn lines never cost a tab within the kept *)
(* tail an event: CatchUpComplete of run service, for every KeepTail and   *)
(* MinDrop, with the records a save restated left out                      *)
(* (board-persist.js:203-208).                                             *)
(***************************************************************************)
THEOREM CatchUpsAreComplete ==
    ASSUME "import" \notin Faults
    PROVE  Spec => []CatchUpComplete
<1>1. BoardInv => CatchUpComplete
  <2> SUFFICES ASSUME BoardInv, NEW w \in DOMAIN truth, w + KeepTail >= SnapSeq(snap),
                      NEW id \in Ids \ restated
               PROVE  FoldRecords(EventsSince(w), AsOf(w))[id] = FoldRecords(log, snap)[id]
    BY DEF CatchUpComplete, AsOf
  <2>1. TruthOK /\ log \in Seq(LogLine)
    BY FilesTyped DEF BoardInv
  <2>2. AsOf(w) \in Stored /\ SnapSeq(AsOf(w)) = w
    BY <2>1, AsOfShape
  <2>3. EventsSince(w) = LinesAt(log, TailOf(log, AsOf(w)))
    BY <2>2 DEF EventsSince, TailOf
  <2>4. TailOf(log, AsOf(w)) \in SUBSET Readable(log)
    BY DEF TailOf
  <2>5. FoldRecords(EventsSince(w), AsOf(w)) = FoldRecords(log, AsOf(w))
    BY <2>1, <2>2, <2>3, <2>4, FoldOfSome
  <2> QED
    BY <2>5 DEF BoardInv, CaughtUp
<1> QED
    BY <1>1, BoardInvariant, PTL

(***************************************************************************)
(* The files are the abstract board, step by step: a step of the service   *)
(* is one whole commit, a save that leaves what was committed after it, an *)
(* adopted snapshot, an import, a reset, or nothing at all                 *)
(* (ImplementsBoard of run service).                                       *)
(***************************************************************************)
THEOREM ServiceImplementsBoard ==
    ASSUME "import" \notin Faults
    PROVE  Spec => ImplementsBoard
<1>1. Init => Board!BoardInit
    BY BoardInit
<1>2. BoardInv /\ [ServiceNext]_vars => [Board!BoardNext]_(Board!boardVars)
    BY BoardInvStep DEF BoardStep
<1> QED
    BY <1>1, <1>2, BoardInvariant, PTL DEF Spec, ImplementsBoard, Board!BoardSpec

-----------------------------------------------------------------------------
(***************************************************************************)
(* The watermarks, imports that fail included.                             *)
(***************************************************************************)
Advance ==
    /\ SnapSeq(snap') >= SnapSeq(snap)
    /\ FoldWatermark(log', snap') >= FoldWatermark(log, snap)

\* Nothing the files knew is lost, and the snapshot does not go back.
LEMMA FilesGrow ==
    ASSUME log \in Seq(LogLine), snap \in Stored, log' \in Seq(LogLine), snap' \in Stored,
           SnapSeq(snap) <= SnapSeq(snap'),
           \A i \in Readable(log) : \/ log[i].seq <= SnapSeq(snap')
                                    \/ \E j \in Readable(log') : log'[j].seq = log[i].seq
    PROVE  Advance
<1>1. /\ SnapSeq(snap) \in Nat /\ SnapSeq(snap') \in Nat
      /\ FoldWatermark(log, snap) \in Nat /\ FoldWatermark(log', snap') \in Nat
    BY SnapSeqType, WatermarkIs
<1>2. FoldWatermark(log, snap) <= FoldWatermark(log', snap')
    BY WatermarkGrows
<1> QED
    BY <1>1, <1>2 DEF Advance

LEMMA AppendAdvances ==
    ASSUME log \in Seq(LogLine), snap \in Stored, log' \in Seq(LogLine), snap' = snap,
           NEW e \in LogLine, log' = log \/ log' = Append(log, e)
    PROVE  Advance
<1>1. \A i \in Readable(log) : i \in Readable(Append(log, e)) /\ Append(log, e)[i] = log[i]
    BY AppendedReadable
<1>2. \A i \in Readable(log) : \E j \in Readable(log') : log'[j].seq = log[i].seq
    BY <1>1
<1>3. SnapSeq(snap) <= SnapSeq(snap') /\ snap' \in Stored
    BY SnapSeqType
<1> QED
    BY <1>2, <1>3, FilesGrow

LEMMA AdvanceStep ==
    ASSUME TypeOK, TypeOK', [ServiceNext]_vars
    PROVE  Delete \/ Advance
<1>1. /\ EngineTypeOK /\ log \in Seq(LogLine) /\ snap \in Stored
      /\ log' \in Seq(LogLine) /\ snap' \in Stored
    BY TypesAreParts, EngineTypesAreParts DEF TypeParts, EngineParts
<1>s. SnapSeq(snap) \in Nat /\ SnapSeq(snap') \in Nat /\ KeepTail \in Nat
    BY <1>1, SnapSeqType, BoundAssumption
<1>a. ASSUME NEW e, appendBoardEvent(e), snap' = snap PROVE Advance
  <2>1. log' = Append(log, e)
    BY <1>a DEF appendBoardEvent
  <2>2. e \in LogLine
    <3>1. Len(log) \in Nat /\ Len(log') = Len(log) + 1 /\ log'[Len(log) + 1] = e
      BY <1>1, <2>1, AppendProperties
    <3> QED
      BY <1>1, <3>1, ElementOfSeq
  <2> QED
    BY <1>1, <1>a, <2>1, <2>2, AppendAdvances
<1>i. ASSUME AppendInterrupted, snap' = snap PROVE Advance
    BY <1>1, <1>i, AppendAdvances DEF AppendInterrupted, appendBoardEvent, LogLine
<1>u. ASSUME UNCHANGED <<log, snap>> PROVE Advance
    BY <1>1, <1>u, AppendAdvances DEF LogLine
<1>f. ASSUME ~hasBoardPersist, snap' \in Stored PROVE Advance
  <2>1. Readable(log) = {} /\ SnapSeq(snap) = 0
    BY <1>f DEF hasBoardPersist, SnapSeq
  <2> QED
    BY <1>1, <1>s, <2>1, FilesGrow
<1>2. ASSUME NEW w \in Writes, PostCommand(w) PROVE Advance
    BY <1>2, <1>a DEF PostCommand, CommitCommand
<1>3. ASSUME PostCommandFails PROVE Advance
    BY <1>3, <1>i DEF PostCommandFails, CommandFails
<1>4. ASSUME NEW id, NEW d, PostEvent(id, d) PROVE Advance
    BY <1>4, <1>a DEF PostEvent, AppendTabEvent
<1>5. ASSUME NEW id, PostEventAgain(id) PROVE Advance
    BY <1>5, <1>u DEF PostEventAgain, ResendTabEvent, engineVars
<1>6. ASSUME NEW id, NEW d, PostEventFails(id, d) PROVE Advance
    BY <1>6, <1>i DEF PostEventFails, TabEventFails
<1>7. ASSUME NEW s \in Snapshot, PostSnapshot(s) PROVE Advance
  <2>1. log' = log /\ snap' = s /\ ~(s.seq < SnapSeq(snap))
    BY <1>7 DEF PostSnapshot, SaveSnapshot, Stale
  <2>2. SnapSeq(s) = s.seq
    BY MarkerAssumption DEF SnapSeq
  <2>3. SnapSeq(snap) <= SnapSeq(snap')
    BY <1>s, <2>1, <2>2
  <2> QED
    BY <1>1, <2>1, <2>3, FilesGrow
<1>8. ASSUME LoadPage PROVE Advance
  <2> DEFINE at == {i \in Readable(log) : ~Droppable(log[i])}
  <2>1. snap' = snap /\ (log' = log \/ log' = LinesAt(log, at))
    BY <1>8 DEF LoadPage, Boot, compactBoardEvents
  <2>2. CASE log' = LinesAt(log, at)
    <3>1. PICK f : Picks(f, log', log, at) /\ Readable(log') = 1..Len(log')
      BY <1>1, <2>2, PickedReadable
    <3>2. ASSUME NEW i \in Readable(log)
          PROVE  \/ log[i].seq <= SnapSeq(snap')
                 \/ \E j \in Readable(log') : log'[j].seq = log[i].seq
      <4>1. CASE i \in at
        <5> HIDE DEF at
        <5>1. PICK k \in 1..Len(log') : f[k] = i
          BY <3>1, <4>1 DEF Picks
        <5> QED
          BY <3>1, <5>1 DEF Picks
      <4>2. CASE i \notin at
        <5>1. log[i].seq + KeepTail <= SnapSeq(snap)
          BY <4>2 DEF Droppable
        <5>2. log[i].seq \in Nat
          BY <1>1, ReadableShape, EventShape
        <5> QED
          BY <1>s, <2>1, <5>1, <5>2
      <4> QED
        BY <4>1, <4>2
    <3>3. SnapSeq(snap) <= SnapSeq(snap')
      BY <1>s, <2>1
    <3> QED
      BY <1>1, <3>2, <3>3, FilesGrow
  <2> QED
    BY <2>1, <2>2, <1>u
<1>9. ASSUME NEW lines, NEW s, PostImport(lines, s) PROVE Advance
    BY <1>1, <1>9, <1>f DEF PostImport, ImportBoard
<1>10. ASSUME NEW lines, PostImportFails(lines) PROVE Advance
    BY <1>1, <1>10, <1>f DEF PostImportFails, ImportFails
<1>11. ASSUME GetCanvas PROVE Advance
    BY <1>11, <1>u DEF GetCanvas, Read, files
<1>12. ASSUME ServerRestarts PROVE Advance
    BY <1>12, <1>i DEF ServerRestarts, Restart
<1>13. ASSUME UNCHANGED vars PROVE Advance
    BY <1>13, <1>u DEF vars, engineVars
<1> QED
    BY <1>2, <1>3, <1>4, <1>5, <1>6, <1>7, <1>8, <1>9, <1>10, <1>11, <1>12, <1>13 DEF ServiceNext

(***************************************************************************)
(* No request but a reset makes the files forget a committed seq or the    *)
(* snapshot go back, a failing import included: WatermarksAdvance of run   *)
(* service_faults (routes/board-persist.ts:63-66).                         *)
(***************************************************************************)
THEOREM SeqsAreNeverForgotten == Spec => WatermarksAdvance
<1>1. TypeOK /\ TypeOK' /\ [ServiceNext]_vars
      => [Delete \/ /\ SnapSeq(snap') >= SnapSeq(snap)
                    /\ FoldWatermark(log', snap') >= FoldWatermark(log, snap)]_vars
    BY AdvanceStep DEF Advance
<1> QED
    BY <1>1, InitType, TypeStep, PTL DEF Spec, WatermarksAdvance
=============================================================================
