---------------------------- MODULE EditorProofs ----------------------------
(***************************************************************************)
(* Channel 2 mirrors the committed store, for every set of records and     *)
(* every interleaving of commits, gestures and inbound diffs.              *)
(*                                                                         *)
(* MirrorIsCommitted is not inductive alone: cancelGesture and endGesture  *)
(* read the buffer, so the invariant must say that the buffer's current    *)
(* values are the live ones (BufferIsLive) and that an open buffer has an  *)
(* owner to end it.  The second half is about the undo stacks.             *)
(***************************************************************************)
EXTENDS RollBack, DataProofs

OwnerWhileOpen == ~Idle => owner \in Gesture

EditorInv == TypeOK /\ OwnerWhileOpen /\ BufferIsLive /\ MirrorIsCommitted

\* The bounded inputs of a run are writes and diffs.
LEMMA BoundedTypes ==
    /\ BoundedWrites \subseteq Writes
    /\ BoundedDiffs \subseteq Diffs
BY DEF BoundedWrites, BoundedDiffs

\* The store a buffer says it started from.
Origin(buf, records) ==
    [id \in Ids |-> IF id \in DOMAIN buf THEN buf[id].from ELSE records[id]]

\* What a diff built from a live buffer says: based on the origin, and leading from it to the live records.
LEMMA LiveBuffer ==
    ASSUME NEW buf \in Buffers, NEW records \in Records,
           \A id \in DOMAIN buf : buf[id].to = records[id]
    PROVE  /\ BasedOn(build(buf), Origin(buf, records))
           /\ applyDiff(Origin(buf, records), build(buf)) = records
           /\ applyDiff(records, invertDiff(build(buf))) = Origin(buf, records)
<1> DEFINE d == build(buf)
           o == Origin(buf, records)
<1>1. /\ d \in Diffs
      /\ DOMAIN d = {id \in DOMAIN buf : buf[id].from # buf[id].to}
      /\ \A id \in DOMAIN d : d[id] = buf[id]
  BY BuildType
<1>2. DOMAIN buf \subseteq Ids
  BY BufferShape
<1>3. \A id \in Ids : o[id] = IF id \in DOMAIN buf THEN buf[id].from ELSE records[id]
  BY DEF Origin
<1> HIDE DEF d
<1>4. BasedOn(d, o)
  BY <1>1, <1>2, <1>3 DEF BasedOn
<1>5. applyDiff(o, d) = records
  <2>1. ASSUME NEW id \in Ids
        PROVE  (IF id \in DOMAIN d THEN d[id].to ELSE o[id]) = records[id]
    BY <1>1, <1>3
  <2> QED
    BY <2>1 DEF applyDiff, Records
<1>6. applyDiff(records, invertDiff(d)) = o
  <2>1. DOMAIN invertDiff(d) = DOMAIN d /\ \A id \in DOMAIN d : invertDiff(d)[id].to = d[id].from
    BY DEF invertDiff
  <2>2. ASSUME NEW id \in Ids
        PROVE  (IF id \in DOMAIN invertDiff(d) THEN invertDiff(d)[id].to ELSE records[id])
                 = (IF id \in DOMAIN buf THEN buf[id].from ELSE records[id])
    BY <1>1, <2>1
  <2> QED
    BY <2>2 DEF applyDiff, Origin
<1> QED
  BY <1>4, <1>5, <1>6 DEF d

\* Touching a live buffer while writing keeps it live and keeps its origin.
LEMMA TouchKeepsOrigin ==
    ASSUME NEW buf \in Buffers, NEW records \in Records, NEW w \in Writes,
           \A id \in DOMAIN buf : buf[id].to = records[id]
    PROVE  /\ \A id \in DOMAIN touch(buf, records, w) :
                 touch(buf, records, w)[id].to = write(records, w)[id]
           /\ Origin(touch(buf, records, w), write(records, w)) = Origin(buf, records)
<1> DEFINE t == touch(buf, records, w)
<1>1. DOMAIN t = DOMAIN buf \cup DOMAIN w
  BY DEF touch
<1>2. ASSUME NEW id \in DOMAIN t
      PROVE  /\ t[id].from = IF id \in DOMAIN buf THEN buf[id].from ELSE records[id]
             /\ t[id].to = IF id \in DOMAIN w THEN w[id] ELSE buf[id].to
  BY <1>1 DEF touch
<1> HIDE DEF t
<1>3. DOMAIN t \subseteq Ids
  BY <1>1, BufferShape, WriteShape
<1>4. ASSUME NEW id \in DOMAIN t
      PROVE  t[id].to = write(records, w)[id]
  BY <1>1, <1>2, <1>3 DEF write
<1>5. Origin(t, write(records, w)) = Origin(buf, records)
  <2>1. ASSUME NEW id \in Ids
        PROVE  (IF id \in DOMAIN t THEN t[id].from ELSE write(records, w)[id])
                 = (IF id \in DOMAIN buf THEN buf[id].from ELSE records[id])
    BY <1>1, <1>2 DEF write
  <2> QED
    BY <2>1 DEF Origin
<1> QED
  BY <1>4, <1>5 DEF t

-----------------------------------------------------------------------------
\* What the action properties say of one step.
ChainStep == emitted' # Nothing => BasedOn(emitted'.diff, mirror) /\ mirror' = Committed'
TokenStep == Committed' # Committed => version' = version + 1

\* A loaded board satisfies the invariant.
LEMMA InitInv == Init => EditorInv
BY DEF Init, EditorInv, TypeOK, OwnerWhileOpen, BufferIsLive, MirrorIsCommitted, Committed, Idle

\* A transaction, nested in an open gesture or not, keeps channel 2 honest.
LEMMA TransactStep ==
    ASSUME EditorInv, NEW w \in Writes, NEW source \in Sources, Transact(w, source)
    PROVE  /\ TransactDiff(w) \in Diffs
           /\ atoms' \in Records /\ buffer' \in Buffers \cup {NoBuffer}
           /\ version' \in Nat /\ mirror' \in Records
           /\ emitted' \in Emission \cup {Nothing}
           /\ Idle' <=> Idle
           /\ BufferIsLive' /\ MirrorIsCommitted' /\ ChainStep /\ TokenStep
<1> USE DEF EditorInv, TypeOK
<1>1. CASE Idle
  <2> DEFINE d == build(touch(emptyDiff, atoms, w))
  <2>1. d \in Diffs /\ BasedOn(d, atoms) /\ applyDiff(atoms, d) = write(atoms, w)
    BY TransactionDiffExact
  <2>2. TransactDiff(w) = d
    BY <1>1 DEF TransactDiff
  <2> HIDE DEF d
  <2>3. atoms' = write(atoms, w) /\ buffer' = NoBuffer /\ Emit(d, source)
    BY <1>1, <2>2 DEF Transact
  <2>4. atoms' \in Records /\ Idle'
    BY <2>3, RecordsType DEF Idle
  <2>5. mirror = atoms /\ Committed = atoms /\ Committed' = atoms'
    BY <1>1, <2>4 DEF MirrorIsCommitted, Committed
  <2>6. CASE isEmptyDiff(d)
    <3>1. emitted' = Nothing /\ version' = version /\ mirror' = mirror
      BY <2>3, <2>6 DEF Emit
    <3>2. applyDiff(atoms, d) = atoms
      BY <2>6 DEF applyDiff, isEmptyDiff, Records
    <3> QED
      BY <1>1, <2>1, <2>2, <2>3, <2>4, <2>5, <3>1, <3>2
         DEF BufferIsLive, MirrorIsCommitted, ChainStep, TokenStep
  <2>7. CASE ~isEmptyDiff(d)
    <3>1. /\ emitted' = [diff |-> d, source |-> source]
          /\ version' = version + 1
          /\ mirror' = applyDiff(mirror, d)
      BY <2>3, <2>7 DEF Emit
    <3>2. emitted' \in Emission
      BY <2>1, <3>1 DEF Emission
    <3>3. mirror' = atoms'
      BY <2>1, <2>3, <2>5, <3>1
    <3> QED
      BY <1>1, <2>1, <2>2, <2>3, <2>4, <2>5, <3>1, <3>2, <3>3
         DEF BufferIsLive, MirrorIsCommitted, ChainStep, TokenStep
  <2> QED
    BY <2>6, <2>7
<1>2. CASE ~Idle
  <2>1. buffer \in Buffers
    BY <1>2 DEF Idle
  <2>2. TransactDiff(w) = emptyDiff /\ isEmptyDiff(emptyDiff)
    BY <1>2 DEF TransactDiff, isEmptyDiff, emptyDiff
  <2>3. /\ atoms' = write(atoms, w) /\ buffer' = touch(buffer, atoms, w)
        /\ emitted' = Nothing /\ version' = version /\ mirror' = mirror
    BY <1>2, <2>2 DEF Transact, Emit
  <2>4. \A id \in DOMAIN buffer : buffer[id].to = atoms[id]
    BY <1>2 DEF BufferIsLive
  <2>5. buffer' \in Buffers /\ ~Idle'
    BY <2>1, <2>3, TouchType, NoBufferAssumption DEF Idle
  <2>6. /\ \A id \in DOMAIN buffer' : buffer'[id].to = atoms'[id]
        /\ Origin(buffer', atoms') = Origin(buffer, atoms)
    BY <2>1, <2>3, <2>4, TouchKeepsOrigin
  <2>7. Committed = Origin(buffer, atoms) /\ Committed' = Origin(buffer', atoms')
    BY <1>2, <2>5 DEF Committed, Origin
  <2> QED
    BY <1>2, <2>2, <2>3, <2>5, <2>6, <2>7, RecordsType, EmptyDiffType
       DEF BufferIsLive, MirrorIsCommitted, ChainStep, TokenStep
<1> QED
  BY <1>1, <1>2

\* Every action of the editor keeps the invariant and the two promises about a step.
LEMMA EditorStepKeeps ==
    ASSUME EditorInv, [EditorNext]_vars
    PROVE  EditorInv' /\ (EditorNext => ChainStep /\ TokenStep)
<1> USE DEF EditorInv, TypeOK
<1>1. ASSUME NEW w \in Writes, NEW source \in {"user", "agent"}, Commit(w, source)
      PROVE  EditorInv' /\ ChainStep /\ TokenStep
  <2>1. source \in Sources /\ Transact(w, source)
    BY <1>1 DEF Commit, Sources
  <2>2. event' \in Event /\ lastSeq' \in Nat
    BY <1>1, <2>1, TransactStep DEF Commit, Record, Event
  <2>3. owner' = owner /\ inbound' \subseteq Ids
    BY <1>1 DEF Commit
  <2> QED
    BY <2>1, <2>2, <2>3, TransactStep DEF OwnerWhileOpen
<1>2. ASSUME NEW d \in Diffs, ApplyRemote(d)
      PROVE  EditorInv' /\ ChainStep /\ TokenStep
  <2>1. targets(d) \in Writes /\ "remote" \in Sources /\ Transact(targets(d), "remote")
    BY <1>2, TargetsType DEF ApplyRemote, Sources
  <2>2. /\ owner' = owner /\ event' = Nothing /\ lastSeq' = lastSeq
        /\ inbound' \subseteq Ids
    BY <1>2, DiffShape DEF ApplyRemote, NoRecord
  <2> QED
    BY <2>1, <2>2, TransactStep DEF OwnerWhileOpen
<1>3. ASSUME NEW source \in GestureSources, BeginGesture(source)
      PROVE  EditorInv' /\ ChainStep /\ TokenStep
  <2>1. /\ Idle /\ buffer' = emptyDiff /\ atoms' = atoms /\ mirror' = mirror
        /\ version' = version /\ emitted' = Nothing /\ event' = Nothing
        /\ lastSeq' = lastSeq /\ inbound' = {} /\ owner' = [source |-> source, parent |-> version]
    BY <1>3 DEF BeginGesture, Silent, NoRecord
  <2>2. ~Idle' /\ buffer' \in Buffers /\ DOMAIN buffer' = {}
    BY <2>1, EmptyDiffType, NoBufferAssumption DEF Idle, emptyDiff
  <2>3. owner' \in Gesture
    BY <2>1, SourceAssumption DEF Gesture
  <2>4. Committed = atoms /\ Committed' = atoms
    BY <2>1, <2>2 DEF Committed, Records
  <2> QED
    BY <2>1, <2>2, <2>3, <2>4
       DEF OwnerWhileOpen, BufferIsLive, MirrorIsCommitted, ChainStep, TokenStep
<1>4. ASSUME NEW w \in Writes, GestureFrame(w)
      PROVE  EditorInv' /\ ChainStep /\ TokenStep
  <2>1. /\ ~Idle /\ atoms' = write(atoms, w) /\ buffer' = touch(buffer, atoms, w)
        /\ mirror' = mirror /\ version' = version /\ emitted' = Nothing /\ event' = Nothing
        /\ lastSeq' = lastSeq /\ owner' = owner /\ inbound' \subseteq Ids
    BY <1>4 DEF GestureFrame, Silent, NoRecord
  <2>2. buffer \in Buffers /\ \A id \in DOMAIN buffer : buffer[id].to = atoms[id]
    BY <2>1 DEF Idle, BufferIsLive
  <2>3. buffer' \in Buffers /\ ~Idle'
    BY <2>1, <2>2, TouchType, NoBufferAssumption DEF Idle
  <2>4. /\ \A id \in DOMAIN buffer' : buffer'[id].to = atoms'[id]
        /\ Origin(buffer', atoms') = Origin(buffer, atoms)
    BY <2>1, <2>2, TouchKeepsOrigin
  <2>5. Committed = Origin(buffer, atoms) /\ Committed' = Origin(buffer', atoms')
    BY <2>1, <2>3 DEF Committed, Origin
  <2> QED
    BY <2>1, <2>3, <2>4, <2>5, RecordsType
       DEF OwnerWhileOpen, BufferIsLive, MirrorIsCommitted, ChainStep, TokenStep
<1>5. ASSUME EndGesture
      PROVE  EditorInv' /\ ChainStep /\ TokenStep
  <2> DEFINE d == build(buffer)
  <2>1. /\ ~Idle /\ buffer' = NoBuffer /\ atoms' = atoms /\ Emit(d, owner.source)
        /\ Record(d, owner.source, owner.parent) /\ owner' = Nothing /\ inbound' = {}
    BY <1>5 DEF EndGesture
  <2>2. buffer \in Buffers /\ owner \in Gesture
    BY <2>1 DEF Idle, OwnerWhileOpen
  <2>3. /\ d \in Diffs /\ BasedOn(d, Origin(buffer, atoms))
        /\ applyDiff(Origin(buffer, atoms), d) = atoms
    BY <2>1, <2>2, BuildType, LiveBuffer DEF BufferIsLive
  <2>4. Idle' /\ Committed' = atoms /\ Committed = Origin(buffer, atoms)
    BY <2>1 DEF Idle, Committed, Origin
  <2> HIDE DEF d
  <2>5. event' \in Event /\ lastSeq' \in Nat
    BY <2>1, <2>2, <2>3 DEF Record, Event, Gesture
  <2>6. CASE isEmptyDiff(d)
    <3>1. emitted' = Nothing /\ version' = version /\ mirror' = mirror
      BY <2>1, <2>6 DEF Emit
    <3>2. applyDiff(Origin(buffer, atoms), d) = Origin(buffer, atoms)
      BY <2>6 DEF applyDiff, isEmptyDiff, Origin
    <3> QED
      BY <2>1, <2>3, <2>4, <2>5, <3>1, <3>2
         DEF OwnerWhileOpen, BufferIsLive, MirrorIsCommitted, ChainStep, TokenStep
  <2>7. CASE ~isEmptyDiff(d)
    <3>1. /\ emitted' = [diff |-> d, source |-> owner.source]
          /\ version' = version + 1
          /\ mirror' = applyDiff(mirror, d)
      BY <2>1, <2>7 DEF Emit
    <3>2. emitted' \in Emission
      BY <2>2, <2>3, <3>1 DEF Emission, Gesture
    <3>3. mirror' = atoms /\ mirror = Origin(buffer, atoms)
      BY <2>3, <2>4, <3>1 DEF MirrorIsCommitted
    <3> QED
      BY <2>1, <2>3, <2>4, <2>5, <3>1, <3>2, <3>3
         DEF OwnerWhileOpen, BufferIsLive, MirrorIsCommitted, ChainStep, TokenStep
  <2> QED
    BY <2>6, <2>7
<1>6. ASSUME CancelGesture
      PROVE  EditorInv' /\ ChainStep /\ TokenStep
  <2>1. /\ ~Idle /\ buffer' = NoBuffer /\ atoms' = applyDiff(atoms, invertDiff(build(buffer)))
        /\ mirror' = mirror /\ version' = version /\ emitted' = Nothing /\ event' = Nothing
        /\ lastSeq' = lastSeq /\ owner' = Nothing /\ inbound' = {}
    BY <1>6 DEF CancelGesture, Silent, NoRecord
  <2>2. buffer \in Buffers
    BY <2>1 DEF Idle
  <2>3. atoms' = Origin(buffer, atoms)
    BY <2>1, <2>2, LiveBuffer DEF BufferIsLive
  <2>4. atoms' \in Records
    BY <2>1, <2>2, BuildType, InvertType, RecordsType
  <2>5. Idle' /\ Committed' = atoms' /\ Committed = Origin(buffer, atoms)
    BY <2>1 DEF Idle, Committed, Origin
  <2> QED
    BY <2>1, <2>3, <2>4, <2>5
       DEF OwnerWhileOpen, BufferIsLive, MirrorIsCommitted, ChainStep, TokenStep
<1>7. ASSUME UNCHANGED vars
      PROVE  EditorInv'
  <2>1. Committed' = Committed /\ (Idle' <=> Idle)
    BY <1>7 DEF vars, Committed, Idle
  <2> QED
    BY <1>7, <2>1 DEF vars, OwnerWhileOpen, BufferIsLive, MirrorIsCommitted
<1> QED
  BY <1>1, <1>2, <1>3, <1>4, <1>5, <1>6, <1>7, BoundedTypes DEF EditorNext, TryCommit

-----------------------------------------------------------------------------
(***************************************************************************)
(* Type correctness of the editor (store.ts, editor.ts, log.ts).           *)
(***************************************************************************)
THEOREM TypeCorrect == Spec => []TypeOK
<1>1. EditorInv => TypeOK
  BY DEF EditorInv
<1> QED
  BY InitInv, EditorStepKeeps, <1>1, PTL DEF Spec

(***************************************************************************)
(* Whatever commits, drags, cancels and inbound diffs interleave, a        *)
(* consumer of channel 2 holds the committed store (store.ts:75-77,        *)
(* 143-170).                                                               *)
(***************************************************************************)
THEOREM MirrorCorrect == Spec => []MirrorIsCommitted
<1>1. EditorInv => MirrorIsCommitted
  BY DEF EditorInv
<1> QED
  BY InitInv, EditorStepKeeps, <1>1, PTL DEF Spec

(***************************************************************************)
(* An open gesture's buffer shows the live records (store.ts:143-163).     *)
(***************************************************************************)
THEOREM BufferCorrect == Spec => []BufferIsLive
<1>1. EditorInv => BufferIsLive
  BY DEF EditorInv
<1> QED
  BY InitInv, EditorStepKeeps, <1>1, PTL DEF Spec

(***************************************************************************)
(* Every diff on channel 2 is based on what its consumers hold and leads   *)
(* to the committed store, so inverting it is always meaningful            *)
(* (diff.ts:24-33, undo.ts:33-38).                                         *)
(***************************************************************************)
THEOREM EmissionsCorrect == Spec => EmissionsChain
<1>1. EditorInv /\ [EditorNext]_vars =>
        EditorInv' /\ [emitted' # Nothing => /\ BasedOn(emitted'.diff, mirror)
                                             /\ mirror' = Committed']_vars
  BY EditorStepKeeps DEF ChainStep
<1> QED
  BY InitInv, <1>1, PTL DEF Spec, EmissionsChain

(***************************************************************************)
(* The version moves whenever the committed store does: tryCommit's base   *)
(* cannot go stale unnoticed (editor.ts:45-50).                            *)
(***************************************************************************)
THEOREM VersionCorrect == Spec => VersionToken
<1>1. EditorInv /\ [EditorNext]_vars =>
        EditorInv' /\ [Committed' # Committed => version' = version + 1]_vars
  BY EditorStepKeeps DEF TokenStep
<1> QED
  BY InitInv, <1>1, PTL DEF Spec, VersionToken

-----------------------------------------------------------------------------
(***************************************************************************)
(* Undo.                                                                   *)
(*                                                                         *)
(* A stack is a path for a record: of the entries that touch it, each      *)
(* starts where the next one up ends, and the top one starts at what the   *)
(* committed store holds. The undo stack leads back to where the tab       *)
(* started, the redo stack anywhere. Stated with the neighbours of an      *)
(* entry in place of the least of those above it, the path survives a push *)
(* and a pop, and the loss of an entry that does not touch the record.     *)
(***************************************************************************)
Touching(stack, id) == {i \in DOMAIN stack : id \in DOMAIN stack[i].diff}

Linked(stack, id, now) ==
    LET T == Touching(stack, id)
    IN  /\ \A i \in T : (\A k \in T : k <= i) => stack[i].diff[id].from = now
        /\ \A i, j \in T : i < j /\ (\A k \in T : k <= i \/ j <= k)
                              => stack[i].diff[id].from = stack[j].diff[id].to

Bottoms(stack, id, now, start) ==
    LET T == Touching(stack, id)
    IN  /\ T = {} => now = start
        /\ \A i \in T : (\A k \in T : i <= k) => stack[i].diff[id].to = start

OwnPaths ==
    \A id \in Ids \ foreign :
        /\ Linked(undos, id, mirror[id])
        /\ Linked(redos, id, mirror[id])
        /\ Bottoms(undos, id, mirror[id], initial[id])

UndoInv ==
    /\ EditorInv
    /\ undos \in Seq(Entry) /\ redos \in Seq(Entry)
    /\ initial \in Records /\ foreign \subseteq Ids
    /\ OwnPaths

\* The least of a set of naturals, as Min picks it.
LEMMA MinIsLeast ==
    ASSUME NEW T \in SUBSET Nat, T # {}
    PROVE  Min(T) \in T /\ \A y \in T : Min(T) <= y
<1>1. \E x \in T : \A y \in T : x <= y
  BY LeastNatural
<1> QED
  BY <1>1 DEF Min

\* The greatest of the positions in a sequence, as Max picks it.
LEMMA MaxIsThere ==
    ASSUME NEW S, NEW s \in Seq(S), NEW T \in SUBSET DOMAIN s, T # {}
    PROVE  Max(T) \in T
<1>1. T \in SUBSET Nat /\ Len(s) \in Nat /\ \A x \in T : x <= Len(s)
  <2>1. DOMAIN s = 1..Len(s) /\ Len(s) \in Nat
    OBVIOUS
  <2> QED
    BY <2>1
<1>2. Newest(T) \in T /\ \A x \in T : x <= Newest(T)
  BY <1>1, NewestIsLast
<1>3. \E x \in T : \A y \in T : x >= y
  BY <1>1, <1>2
<1> QED
  BY <1>3 DEF Max

\* What the path says with the least of the entries above, as UndoManager has it.
LEMMA LinkedIsChained ==
    ASSUME NEW stack \in Seq(Entry), NEW id, Linked(stack, id, mirror[id])
    PROVE  Chained(stack, id)
<1> DEFINE T == Touching(stack, id)
<1>1. T \in SUBSET Nat
  BY DEF Touching
<1>2. T = {i \in DOMAIN stack : id \in DOMAIN stack[i].diff}
  BY DEF Touching
<1>3. /\ \A i \in T : (\A k \in T : k <= i) => stack[i].diff[id].from = mirror[id]
      /\ \A i, j \in T : i < j /\ (\A k \in T : k <= i \/ j <= k)
                            => stack[i].diff[id].from = stack[j].diff[id].to
  BY DEF Linked
<1> HIDE DEF T
<1>4. ASSUME NEW i \in T
      PROVE  stack[i].diff[id].from = IF \E j \in T : j > i THEN stack[Min({j \in T : j > i})].diff[id].to ELSE mirror[id]
  <2>1. CASE \E j \in T : j > i
    <3> DEFINE above == {j \in T : j > i}
    <3>1. above \in SUBSET Nat /\ above # {}
      BY <1>1, <2>1
    <3>2. Min(above) \in above /\ \A y \in above : Min(above) <= y
      BY <3>1, MinIsLeast
    <3>3. Min(above) \in T /\ i < Min(above) /\ \A k \in T : k <= i \/ Min(above) <= k
      <4>1. \A k \in T : k \in Nat /\ i \in Nat
        BY <1>1
      <4>2. Min(above) \in T /\ Min(above) > i
        BY <3>2
      <4>3. \A k \in T : k > i => Min(above) <= k
        BY <3>2
      <4> HIDE DEF above
      <4> QED
        BY <4>1, <4>2, <4>3
    <3>4. stack[i].diff[id].from = stack[Min(above)].diff[id].to
      <4> HIDE DEF above
      <4> QED
        BY <1>3, <1>4, <3>3
    <3> QED
      BY <2>1, <3>4
  <2>2. CASE ~\E j \in T : j > i
    <3>1. \A k \in T : k <= i
      BY <1>1, <2>2
    <3> QED
      BY <1>3, <2>2, <3>1
  <2> QED
    BY <2>1, <2>2
<1> QED
  BY <1>2, <1>4 DEF Chained

\* The path of the undo stack ends where it started.
LEMMA BottomIsUnwound ==
    ASSUME NEW stack \in Seq(Entry), NEW id, NEW start, Bottoms(stack, id, mirror[id], start)
    PROVE  Unwound(stack, id) = start
<1> DEFINE T == Touching(stack, id)
<1>1. T \in SUBSET Nat
  BY DEF Touching
<1>2. T = {i \in DOMAIN stack : id \in DOMAIN stack[i].diff}
  BY DEF Touching
<1>3. /\ T = {} => mirror[id] = start
      /\ \A i \in T : (\A k \in T : i <= k) => stack[i].diff[id].to = start
  BY DEF Bottoms
<1> HIDE DEF T
<1>4. T # {} => Min(T) \in T /\ \A y \in T : Min(T) <= y
  BY <1>1, MinIsLeast
<1>5. (IF T = {} THEN mirror[id] ELSE stack[Min(T)].diff[id].to) = start
  BY <1>3, <1>4
<1> QED
  BY <1>2, <1>5 DEF Unwound

\* Where the entries that touch a record are those of another stack, in their order, the path is too.
LEMMA SamePath ==
    ASSUME NEW s, NEW t, NEW id, NEW now, NEW start, NEW f,
           Touching(s, id) \subseteq Nat, Touching(t, id) \subseteq Nat,
           \A i \in Touching(t, id) : f[i] \in Touching(s, id) /\ t[i].diff[id] = s[f[i]].diff[id],
           \A i \in Touching(s, id) : \E j \in Touching(t, id) : f[j] = i,
           \A i, j \in Touching(t, id) : i < j => f[i] < f[j]
    PROVE  /\ Linked(s, id, now) => Linked(t, id, now)
           /\ Bottoms(s, id, now, start) => Bottoms(t, id, now, start)
<1> DEFINE S == Touching(s, id)
           T == Touching(t, id)
<1> HIDE DEF S, T
<1>0. /\ S \subseteq Nat /\ T \subseteq Nat
      /\ \A i \in T : f[i] \in S /\ t[i].diff[id] = s[f[i]].diff[id]
      /\ \A i \in S : \E j \in T : f[j] = i
      /\ \A i, j \in T : i < j => f[i] < f[j]
  BY DEF S, T
<1>1. \A i, j \in T : i <= j <=> f[i] <= f[j]
  <2>1. \A i, j \in T : i \in Nat /\ j \in Nat /\ f[i] \in Nat /\ f[j] \in Nat
    BY <1>0
  <2>2. \A i, j \in T : i < j \/ i = j \/ j < i
    BY <2>1
  <2>3. \A i, j \in T : i < j => f[i] < f[j]
    BY <1>0
  <2> QED
    BY <2>1, <2>2, <2>3
<1>2. ASSUME Linked(s, id, now) PROVE Linked(t, id, now)
  <2>1. /\ \A i \in S : (\A k \in S : k <= i) => s[i].diff[id].from = now
        /\ \A i, j \in S : i < j /\ (\A k \in S : k <= i \/ j <= k)
                              => s[i].diff[id].from = s[j].diff[id].to
    BY <1>2 DEF Linked, S
  <2>2. ASSUME NEW i \in T, \A k \in T : k <= i PROVE t[i].diff[id].from = now
    <3>1. f[i] \in S /\ \A k \in S : k <= f[i]
      BY <1>0, <1>1, <2>2
    <3>2. s[f[i]].diff[id].from = now
      BY <2>1, <3>1
    <3> QED
      BY <1>0, <3>2
  <2>3. ASSUME NEW i \in T, NEW j \in T, i < j, \A k \in T : k <= i \/ j <= k
        PROVE  t[i].diff[id].from = t[j].diff[id].to
    <3>1. f[i] \in S /\ f[j] \in S /\ f[i] < f[j]
      BY <1>0, <2>3
    <3>2. \A k \in S : k <= f[i] \/ f[j] <= k
      BY <1>0, <1>1, <2>3
    <3>3. s[f[i]].diff[id].from = s[f[j]].diff[id].to
      BY <2>1, <3>1, <3>2
    <3> QED
      BY <1>0, <3>3
  <2> QED
    BY <2>2, <2>3 DEF Linked, T
<1>3. ASSUME Bottoms(s, id, now, start) PROVE Bottoms(t, id, now, start)
  <2>1. /\ S = {} => now = start
        /\ \A i \in S : (\A k \in S : i <= k) => s[i].diff[id].to = start
    BY <1>3 DEF Bottoms, S
  <2>2. T = {} => S = {}
    BY <1>0
  <2>3. ASSUME NEW i \in T, \A k \in T : i <= k PROVE t[i].diff[id].to = start
    <3>1. f[i] \in S /\ \A k \in S : f[i] <= k
      BY <1>0, <1>1, <2>3
    <3>2. s[f[i]].diff[id].to = start
      BY <2>1, <3>1
    <3> QED
      BY <1>0, <3>2
  <2> QED
    BY <2>1, <2>2, <2>3 DEF Bottoms, T
<1> QED
  BY <1>2, <1>3

\* A push of an entry that leads from the new value to the old keeps the path.
LEMMA PushKeepsPath ==
    ASSUME NEW stack \in Seq(Entry), NEW e \in Entry, NEW id, NEW now, NEW before, NEW start,
           IF id \in DOMAIN e.diff THEN e.diff[id].from = now /\ e.diff[id].to = before ELSE now = before
    PROVE  /\ Append(stack, e) \in Seq(Entry)
           /\ Linked(stack, id, before) => Linked(Append(stack, e), id, now)
           /\ Bottoms(stack, id, before, start) => Bottoms(Append(stack, e), id, now, start)
<1> DEFINE up == Append(stack, e)
           S == Touching(stack, id)
           T == Touching(up, id)
           n == Len(stack) + 1
<1>1. /\ DOMAIN stack = 1..Len(stack) /\ DOMAIN up = 1..n /\ Len(stack) \in Nat /\ up \in Seq(Entry)
      /\ \A i \in 1..Len(stack) : up[i] = stack[i]
      /\ up[n] = e
  OBVIOUS
<1>2. S \subseteq 1..Len(stack) /\ T \subseteq 1..n /\ T \ {n} = S /\ (n \in T <=> id \in DOMAIN e.diff)
  <2>1. \A i \in 1..Len(stack) : i \in 1..n /\ i # n
    BY <1>1
  <2>2. \A i \in 1..n : i # n => i \in 1..Len(stack)
    BY <1>1
  <2>3. n \in 1..n
    BY <1>1
  <2> HIDE DEF up, n
  <2> QED
    BY <1>1, <2>1, <2>2, <2>3 DEF Touching
<1> HIDE DEF up, S, T, n
<1>3. CASE id \notin DOMAIN e.diff
  <2> DEFINE f == [i \in T |-> i]
  <2>1. T = S /\ now = before
    BY <1>2, <1>3
  <2>2. /\ S \subseteq Nat /\ T \subseteq Nat
        /\ \A i \in T : f[i] \in S /\ up[i].diff[id] = stack[f[i]].diff[id]
        /\ \A i \in S : \E j \in T : f[j] = i
        /\ \A i, j \in T : i < j => f[i] < f[j]
    BY <1>1, <1>2, <2>1
  <2> HIDE DEF f
  <2>3. /\ Linked(stack, id, before) => Linked(up, id, before)
        /\ Bottoms(stack, id, before, start) => Bottoms(up, id, before, start)
    BY <2>2, SamePath DEF S, T
  <2> QED
    BY <1>1, <2>1, <2>3 DEF up
<1>4. CASE id \in DOMAIN e.diff
  <2>0. n \in T /\ T = S \cup {n} /\ \A k \in S : k \in Nat /\ k < n /\ up[k] = stack[k]
    <3>1. \A k \in 1..Len(stack) : k \in Nat /\ k < n
      BY <1>1 DEF n
    <3> QED
      BY <1>1, <1>2, <1>4, <3>1
  <2>00. n \in Nat
    BY <1>1 DEF n
  <2>1. ASSUME Linked(stack, id, before) PROVE Linked(up, id, now)
    <3>1. /\ \A i \in S : (\A k \in S : k <= i) => stack[i].diff[id].from = before
          /\ \A i, j \in S : i < j /\ (\A k \in S : k <= i \/ j <= k)
                                => stack[i].diff[id].from = stack[j].diff[id].to
      BY <2>1 DEF Linked, S
    <3>2. ASSUME NEW i \in T, \A k \in T : k <= i PROVE up[i].diff[id].from = now
      <4>1. i = n
        BY <2>0, <2>00, <3>2
      <4> QED
        BY <1>1, <1>4, <4>1
    <3>3. ASSUME NEW i \in T, NEW j \in T, i < j, \A k \in T : k <= i \/ j <= k
          PROVE  up[i].diff[id].from = up[j].diff[id].to
      <4>1. i # n
        BY <2>0, <2>00, <3>3
      <4>2. i \in S /\ up[i] = stack[i]
        BY <2>0, <4>1
      <4>3. CASE j = n
        <5>1. \A k \in S : k <= i
          BY <2>0, <2>00, <3>3, <4>3
        <5>2. stack[i].diff[id].from = before
          BY <3>1, <4>2, <5>1
        <5> QED
          BY <1>1, <1>4, <4>2, <4>3, <5>2
      <4>4. CASE j # n
        <5>1. j \in S /\ up[j] = stack[j] /\ \A k \in S : k <= i \/ j <= k
          BY <2>0, <3>3, <4>4
        <5> QED
          BY <3>1, <3>3, <4>2, <5>1
      <4> QED
        BY <4>3, <4>4
    <3> QED
      BY <3>2, <3>3 DEF Linked, T
  <2>2. ASSUME Bottoms(stack, id, before, start) PROVE Bottoms(up, id, now, start)
    <3>1. /\ S = {} => before = start
          /\ \A i \in S : (\A k \in S : i <= k) => stack[i].diff[id].to = start
      BY <2>2 DEF Bottoms, S
    <3>2. ASSUME NEW i \in T, \A k \in T : i <= k PROVE up[i].diff[id].to = start
      <4>1. CASE i = n
        <5>1. S = {}
          BY <2>0, <2>00, <3>2, <4>1
        <5> QED
          BY <1>1, <1>4, <3>1, <4>1, <5>1
      <4>2. CASE i # n
        <5>1. i \in S /\ up[i] = stack[i] /\ \A k \in S : i <= k
          BY <2>0, <3>2, <4>2
        <5> QED
          BY <3>1, <5>1
      <4> QED
        BY <4>1, <4>2
    <3> QED
      BY <2>0, <3>2 DEF Bottoms, T
  <2> QED
    BY <1>1, <2>1, <2>2 DEF up
<1> QED
  BY <1>3, <1>4

\* A pop takes the first step of the path.
LEMMA PopKeepsPath ==
    ASSUME NEW stack \in Seq(Entry), stack # <<>>, NEW id, NEW now, NEW start, Linked(stack, id, now)
    PROVE  /\ Front(stack) \in Seq(Entry) /\ Last(stack) \in Entry
           /\ IF id \in DOMAIN Last(stack).diff
              THEN /\ Last(stack).diff[id].from = now
                   /\ Linked(Front(stack), id, Last(stack).diff[id].to)
                   /\ Bottoms(stack, id, now, start) => Bottoms(Front(stack), id, Last(stack).diff[id].to, start)
              ELSE /\ Linked(Front(stack), id, now)
                   /\ Bottoms(stack, id, now, start) => Bottoms(Front(stack), id, now, start)
<1> DEFINE down == Front(stack)
           e == Last(stack)
           S == Touching(stack, id)
           T == Touching(down, id)
           n == Len(stack)
<1>1. /\ n \in Nat \ {0} /\ DOMAIN stack = 1..n /\ DOMAIN down = 1..(n - 1) /\ down \in Seq(Entry)
      /\ \A i \in 1..(n - 1) : down[i] = stack[i]
      /\ e = stack[n] /\ e \in Entry
  BY DEF Front, Last
<1>2. T \subseteq 1..(n - 1) /\ S \subseteq 1..n /\ S \ {n} = T /\ (n \in S <=> id \in DOMAIN e.diff)
  <2> HIDE DEF down, n, e
  <2>0. n \in Nat \ {0}
    BY <1>1
  <2>1. \A i \in 1..(n - 1) : i \in 1..n /\ i # n
    BY <2>0
  <2>2. \A i \in 1..n : i # n => i \in 1..(n - 1)
    BY <2>0
  <2>3. n \in 1..n
    BY <2>0
  <2> QED
    BY <1>1, <2>1, <2>2, <2>3 DEF Touching
<1> HIDE DEF down, e, S, T, n
<1>3. CASE id \notin DOMAIN e.diff
  <2> DEFINE f == [i \in T |-> i]
  <2>1. T = S
    BY <1>2, <1>3
  <2>2. /\ S \subseteq Nat /\ T \subseteq Nat
        /\ \A i \in T : f[i] \in S /\ down[i].diff[id] = stack[f[i]].diff[id]
        /\ \A i \in S : \E j \in T : f[j] = i
        /\ \A i, j \in T : i < j => f[i] < f[j]
    BY <1>1, <1>2, <2>1
  <2> HIDE DEF f
  <2>3. /\ Linked(stack, id, now) => Linked(down, id, now)
        /\ Bottoms(stack, id, now, start) => Bottoms(down, id, now, start)
    BY <2>2, SamePath DEF S, T
  <2> QED
    BY <1>1, <1>3, <2>3 DEF down, e
<1>4. CASE id \in DOMAIN e.diff
  <2>0. n \in S /\ S = T \cup {n} /\ n \in Nat /\ \A k \in T : k \in Nat /\ k < n /\ down[k] = stack[k]
    <3>1. \A k \in 1..(n - 1) : k \in Nat /\ k < n
      BY <1>1
    <3> QED
      BY <1>1, <1>2, <1>4, <3>1
  <2>1. /\ \A i \in S : (\A k \in S : k <= i) => stack[i].diff[id].from = now
        /\ \A i, j \in S : i < j /\ (\A k \in S : k <= i \/ j <= k)
                              => stack[i].diff[id].from = stack[j].diff[id].to
    BY DEF Linked, S
  <2>2. e.diff[id].from = now
    <3>1. \A k \in S : k <= n
      BY <2>0
    <3> QED
      BY <1>1, <2>0, <2>1, <3>1
  <2>3. Linked(down, id, e.diff[id].to)
    <3>1. ASSUME NEW i \in T, \A k \in T : k <= i PROVE down[i].diff[id].from = e.diff[id].to
      <4>1. i \in S /\ i < n /\ \A k \in S : k <= i \/ n <= k
        BY <2>0, <3>1
      <4> QED
        BY <1>1, <2>0, <2>1, <4>1
    <3>2. ASSUME NEW i \in T, NEW j \in T, i < j, \A k \in T : k <= i \/ j <= k
          PROVE  down[i].diff[id].from = down[j].diff[id].to
      <4>1. i \in S /\ j \in S /\ j <= n /\ \A k \in S : k <= i \/ j <= k
        BY <2>0, <3>2
      <4>2. stack[i].diff[id].from = stack[j].diff[id].to
        BY <2>1, <3>2, <4>1
      <4>3. down[i] = stack[i] /\ down[j] = stack[j]
        BY <2>0
      <4> QED
        BY <4>2, <4>3
    <3> QED
      BY <3>1, <3>2 DEF Linked, T
  <2>4. ASSUME Bottoms(stack, id, now, start) PROVE Bottoms(down, id, e.diff[id].to, start)
    <3>1. \A i \in S : (\A k \in S : i <= k) => stack[i].diff[id].to = start
      BY <2>4 DEF Bottoms, S
    <3>2. T = {} => e.diff[id].to = start
      BY <1>1, <2>0, <3>1
    <3>3. ASSUME NEW i \in T, \A k \in T : i <= k PROVE down[i].diff[id].to = start
      <4>1. i \in S /\ \A k \in S : i <= k
        BY <2>0, <3>3
      <4> QED
        BY <2>0, <3>1, <4>1
    <3> QED
      BY <3>2, <3>3 DEF Bottoms, T
  <2> QED
    BY <1>1, <1>4, <2>2, <2>3, <2>4 DEF down, e
<1> QED
  BY <1>3, <1>4

\* The loss of an entry that does not touch a record leaves its path.
LEMMA RemovalKeepsPath ==
    ASSUME NEW stack \in Seq(Entry), NEW k \in DOMAIN stack, NEW id, NEW now, NEW start,
           id \notin DOMAIN stack[k].diff
    PROVE  /\ RemoveAt(stack, k) \in Seq(Entry)
           /\ Linked(stack, id, now) => Linked(RemoveAt(stack, k), id, now)
           /\ Bottoms(stack, id, now, start) => Bottoms(RemoveAt(stack, k), id, now, start)
<1> DEFINE less == RemoveAt(stack, k)
           n == Len(stack)
           S == Touching(stack, id)
           T == Touching(less, id)
           f == [i \in T |-> IF i < k THEN i ELSE i + 1]
<1>0. n \in Nat /\ DOMAIN stack = 1..n /\ k \in 1..n
  OBVIOUS
<1>1. /\ less \in Seq(Entry) /\ DOMAIN less = 1..(n - 1)
      /\ \A i \in 1..(n - 1) : less[i] = IF i < k THEN stack[i] ELSE stack[i + 1]
  <2> DEFINE a == SubSeq(stack, 1, k - 1)
             b == SubSeq(stack, k + 1, n)
  <2>1. /\ a \in Seq(Entry) /\ Len(a) = k - 1 /\ \A i \in 1..(k - 1) : a[i] = stack[i]
    BY <1>0
  <2>2. /\ b \in Seq(Entry) /\ Len(b) = n - k /\ \A i \in 1..(n - k) : b[i] = stack[k + i]
    BY <1>0
  <2>3. less = a \o b
    BY DEF RemoveAt
  <2> HIDE DEF a, b, less, n
  <2>4. /\ less \in Seq(Entry) /\ Len(less) = n - 1
        /\ \A i \in 1..(n - 1) : less[i] = IF i <= k - 1 THEN a[i] ELSE b[i - (k - 1)]
    <3>1. \A x, y \in Seq(Entry) :
              /\ x \o y \in Seq(Entry) /\ Len(x \o y) = Len(x) + Len(y)
              /\ \A i \in 1..(Len(x) + Len(y)) : (x \o y)[i] = IF i <= Len(x) THEN x[i] ELSE y[i - Len(x)]
      OBVIOUS
    <3>2. /\ less \in Seq(Entry) /\ Len(less) = Len(a) + Len(b)
          /\ \A i \in 1..(Len(a) + Len(b)) : less[i] = IF i <= Len(a) THEN a[i] ELSE b[i - Len(a)]
      BY <2>1, <2>2, <2>3, <3>1
    <3>3. Len(a) + Len(b) = n - 1 /\ Len(a) = k - 1
      BY <1>0, <2>1, <2>2
    <3> QED
      BY <3>2, <3>3
  <2>5. ASSUME NEW i \in 1..(n - 1) PROVE less[i] = IF i < k THEN stack[i] ELSE stack[i + 1]
    <3>1. CASE i < k
      <4>1. i \in 1..(k - 1)
        BY <1>0, <3>1
      <4> QED
        BY <1>0, <2>1, <2>4, <3>1, <4>1
    <3>2. CASE ~(i < k)
      <4>1. i - (k - 1) \in 1..(n - k) /\ k + (i - (k - 1)) = i + 1 /\ ~(i <= k - 1)
        BY <1>0, <3>2
      <4> QED
        BY <2>2, <2>4, <3>2, <4>1
    <3> QED
      BY <3>1, <3>2
  <2> QED
    BY <2>4, <2>5
<1>2. S \subseteq Nat /\ T \subseteq 1..(n - 1) /\ k \notin S
  <2> HIDE DEF less, n
  <2> QED
    BY <1>0, <1>1 DEF Touching
<1> HIDE DEF n
<1>3. ASSUME NEW i \in T PROVE f[i] \in S /\ less[i].diff[id] = stack[f[i]].diff[id]
  <2>1. i \in 1..(n - 1) /\ id \in DOMAIN less[i].diff
    BY <1>1, <1>3 DEF Touching
  <2>2. f[i] \in 1..n /\ less[i] = stack[f[i]]
    BY <1>0, <1>1, <2>1
  <2> HIDE DEF f, less
  <2> QED
    BY <1>0, <2>1, <2>2 DEF Touching
<1>4. ASSUME NEW i \in S PROVE \E j \in T : f[j] = i
  <2>1. i \in 1..n /\ id \in DOMAIN stack[i].diff /\ i # k
    BY <1>0, <1>2, <1>4 DEF Touching
  <2>2. CASE i < k
    <3>1. i \in 1..(n - 1) /\ less[i] = stack[i]
      BY <1>0, <1>1, <2>1, <2>2
    <3>2. i \in T
      <4> HIDE DEF less
      <4> QED
        BY <1>1, <2>1, <3>1 DEF Touching
    <3>3. f[i] = i
      BY <2>2, <3>2
    <3> QED
      BY <3>2, <3>3
  <2>3. CASE ~(i < k)
    <3>1. i - 1 \in 1..(n - 1) /\ less[i - 1] = stack[i] /\ ~(i - 1 < k) /\ (i - 1) + 1 = i
      BY <1>0, <1>1, <2>1, <2>3
    <3>2. i - 1 \in T
      <4> HIDE DEF less
      <4> QED
        BY <1>1, <2>1, <3>1 DEF Touching
    <3>3. f[i - 1] = i
      BY <3>1, <3>2
    <3> QED
      BY <3>2, <3>3
  <2> QED
    BY <2>2, <2>3
<1>5. ASSUME NEW i \in T, NEW j \in T, i < j PROVE f[i] < f[j]
  <2>1. i \in Nat /\ j \in Nat /\ k \in Nat
    BY <1>0, <1>2
  <2> QED
    BY <1>5, <2>1
<1>6. T \subseteq Nat
  BY <1>0, <1>2
<1> HIDE DEF f, less, S, T
<1>7. /\ Linked(stack, id, now) => Linked(less, id, now)
      /\ Bottoms(stack, id, now, start) => Bottoms(less, id, now, start)
  BY <1>2, <1>3, <1>4, <1>5, <1>6, SamePath DEF S, T
<1> QED
  BY <1>1, <1>7 DEF less

-----------------------------------------------------------------------------
\* What a step says on channel 2 is what it makes of the mirror.
LEMMA EmissionMoves ==
    ASSUME EditorInv, EditorNext
    PROVE  \/ emitted' = Nothing /\ mirror' = mirror
           \/ /\ emitted' \in Emission /\ emitted' # Nothing
              /\ BasedOn(emitted'.diff, mirror)
              /\ mirror' = applyDiff(mirror, emitted'.diff)
<1>1. EditorInv' /\ ChainStep
  BY EditorStepKeeps
<1>2. emitted' \in Emission \cup {Nothing}
  BY <1>1 DEF EditorInv, TypeOK
<1>3. ASSUME NEW d, NEW source, d \in Diffs, source \in Sources, Emit(d, source)
      PROVE  \/ emitted' = Nothing /\ mirror' = mirror
             \/ /\ emitted' \in Emission /\ emitted' # Nothing
                /\ mirror' = applyDiff(mirror, emitted'.diff)
  <2>1. CASE isEmptyDiff(d)
    BY <1>3, <2>1 DEF Emit
  <2>2. CASE ~isEmptyDiff(d)
    <3>1. emitted' = [diff |-> d, source |-> source] /\ mirror' = applyDiff(mirror, d)
      BY <1>3, <2>2 DEF Emit
    <3>2. emitted' \in Emission
      BY <1>3, <3>1 DEF Emission
    <3> QED
      BY <3>1, <3>2, NothingAssumption
  <2> QED
    BY <2>1, <2>2
<1>4. ASSUME NEW w \in Writes, NEW source \in Sources, Transact(w, source)
      PROVE  \E d \in Diffs : Emit(d, source)
  <2>1. TransactDiff(w) \in Diffs
    BY <1>4, TransactStep
  <2> QED
    BY <1>4, <2>1 DEF Transact
<1>5. ASSUME NEW w \in Writes, NEW source \in {"user", "agent"}, Commit(w, source)
      PROVE  \E d \in Diffs, s \in Sources : Emit(d, s)
  BY <1>4, <1>5 DEF Commit, Sources
<1>6. ASSUME NEW d \in Diffs, ApplyRemote(d)
      PROVE  \E e \in Diffs, s \in Sources : Emit(e, s)
  <2>1. targets(d) \in Writes /\ "remote" \in Sources
    BY TargetsType DEF Sources
  <2> QED
    BY <1>4, <1>6, <2>1 DEF ApplyRemote
<1>7. ASSUME EndGesture
      PROVE  \E d \in Diffs, s \in Sources : Emit(d, s)
  <2>1. buffer \in Buffers /\ owner \in Gesture /\ Emit(build(buffer), owner.source)
    BY <1>7 DEF EndGesture, Idle, EditorInv, OwnerWhileOpen, TypeOK
  <2>2. build(buffer) \in Diffs /\ owner.source \in Sources
    BY <2>1, BuildType DEF Gesture
  <2> QED
    BY <2>1, <2>2
<1>8. \/ \E d \in Diffs, s \in Sources : Emit(d, s)
      \/ emitted' = Nothing /\ mirror' = mirror
  BY <1>5, <1>6, <1>7, BoundedTypes
     DEF EditorNext, TryCommit, BeginGesture, GestureFrame, CancelGesture, Silent
<1>9. \/ emitted' = Nothing /\ mirror' = mirror
      \/ /\ emitted' \in Emission /\ emitted' # Nothing
         /\ mirror' = applyDiff(mirror, emitted'.diff)
  BY <1>3, <1>8
<1>10. emitted' # Nothing => BasedOn(emitted'.diff, mirror)
  BY <1>1 DEF ChainStep
<1> QED
  BY <1>9, <1>10

-----------------------------------------------------------------------------
\* A transaction reaches the mirror unless a gesture is open.
LEMMA MirrorMoves ==
    ASSUME EditorInv, NEW w \in Writes, NEW source \in Sources, Transact(w, source)
    PROVE  /\ Idle => mirror' = write(mirror, w)
           /\ ~Idle => mirror' = mirror
<1>1. (Idle' <=> Idle) /\ MirrorIsCommitted'
  BY TransactStep
<1>2. CASE Idle
  <2>1. Committed = atoms /\ Committed' = atoms' /\ atoms' = write(atoms, w)
    BY <1>1, <1>2 DEF Committed, Transact
  <2> QED
    BY <1>1, <1>2, <2>1 DEF MirrorIsCommitted, EditorInv
<1>3. CASE ~Idle
  <2>1. TransactDiff(w) = emptyDiff /\ isEmptyDiff(emptyDiff)
    BY <1>3 DEF TransactDiff, isEmptyDiff, emptyDiff
  <2> QED
    BY <1>3, <2>1 DEF Transact, Emit
<1> QED
  BY <1>2, <1>3

\* A change that is recorded nowhere keeps the editor's invariant.
LEMMA QuietChange ==
    ASSUME EditorInv, NEW d \in Diffs, NEW source \in Sources, Transact(targets(d), source), NoRecord,
           owner' = owner, inbound' \subseteq Ids
    PROVE  /\ EditorInv'
           /\ \A id \in Ids \ DOMAIN d : mirror'[id] = mirror[id]
           /\ \A id \in DOMAIN d : Idle => mirror'[id] = d[id].to
<1>1. targets(d) \in Writes /\ DOMAIN targets(d) = DOMAIN d /\ \A id \in DOMAIN d : targets(d)[id] = d[id].to
  BY TargetsType DEF targets
<1>2. EditorInv'
  <2>1. event' = Nothing /\ lastSeq' = lastSeq
    BY DEF NoRecord
  <2> QED
    BY <1>1, <2>1, TransactStep DEF EditorInv, TypeOK, OwnerWhileOpen
<1>3. DOMAIN d \subseteq Ids /\ mirror \in Records
  BY DiffShape DEF EditorInv, TypeOK
<1>4. CASE Idle
  <2>1. mirror' = write(mirror, targets(d))
    BY <1>1, <1>4, MirrorMoves
  <2>2. \A id \in Ids : mirror'[id] = IF id \in DOMAIN d THEN d[id].to ELSE mirror[id]
    BY <1>1, <2>1 DEF write
  <2> QED
    BY <1>2, <1>3, <2>2
<1>5. CASE ~Idle
  BY <1>1, <1>2, <1>5, MirrorMoves
<1> QED
  BY <1>4, <1>5

\* At the start both stacks are empty.
LEMMA UndoInvInit == UndoInit => UndoInv
<1> SUFFICES ASSUME UndoInit PROVE UndoInv
  OBVIOUS
<1>1. EditorInv /\ undos = <<>> /\ redos = <<>> /\ initial = atoms /\ foreign = {} /\ mirror = atoms /\ atoms \in Records
  BY InitInv DEF UndoInit, Init
<1>2. \A id : Touching(undos, id) = {} /\ Touching(redos, id) = {}
  BY <1>1 DEF Touching
<1>3. OwnPaths
  BY <1>1, <1>2 DEF OwnPaths, Linked, Bottoms
<1> QED
  BY <1>1, <1>3 DEF UndoInv

\* The editor makes a step, and the manager hears of it.
LEMMA ListenerKeeps ==
    ASSUME UndoInv, EditorStep
    PROVE  UndoInv'
<1>0. EditorInv /\ EditorNext /\ Listener /\ initial' = initial /\ EditorInv'
  BY EditorStepKeeps DEF UndoInv, EditorStep
<1>1. /\ undos \in Seq(Entry) /\ redos \in Seq(Entry) /\ initial \in Records /\ foreign \subseteq Ids /\ OwnPaths
      /\ mirror \in Records
  BY DEF UndoInv, EditorInv, TypeOK
<1>2. CASE emitted' = Nothing
  <2>1. mirror' = mirror
    BY <1>0, <1>2, EmissionMoves
  <2>2. UNCHANGED <<undos, redos, foreign>>
    BY <1>0, <1>2 DEF Listener
  <2> QED
    BY <1>0, <1>1, <2>1, <2>2 DEF UndoInv, OwnPaths, Linked, Bottoms, Touching
<1>3. CASE emitted' # Nothing
  <2> DEFINE d == emitted'.diff
  <2>1. /\ emitted' \in Emission /\ d \in Diffs /\ BasedOn(d, mirror) /\ mirror' = applyDiff(mirror, d)
    BY <1>0, <1>3, EmissionMoves DEF Emission
  <2>2. \A id \in Ids : mirror'[id] = IF id \in DOMAIN d THEN d[id].to ELSE mirror[id]
    BY <2>1 DEF applyDiff
  <2>3. DOMAIN d \subseteq Ids /\ invertDiff(d) \in Diffs
    BY <2>1, DiffShape, InvertType
  <2>4. CASE emitted'.source = "user"
    <3> DEFINE e == [diff |-> invertDiff(d), of |-> lastSeq']
    <3>1. undos' = Append(undos, e) /\ redos' = <<>> /\ foreign' = foreign
      BY <1>0, <1>3, <2>4 DEF Listener
    <3>2. e \in Entry
      BY <1>0, <2>3 DEF Entry, EditorInv, TypeOK
    <3>3. /\ DOMAIN e.diff = DOMAIN d
          /\ \A id \in DOMAIN d : e.diff[id].from = d[id].to /\ e.diff[id].to = d[id].from
      BY DEF invertDiff
    <3> HIDE DEF e
    <3>4. ASSUME NEW id \in Ids \ foreign
          PROVE  /\ Append(undos, e) \in Seq(Entry)
                 /\ Linked(Append(undos, e), id, mirror'[id])
                 /\ Bottoms(Append(undos, e), id, mirror'[id], initial[id])
      <4> DEFINE now == mirror'[id]
                 before == mirror[id]
                 start == initial[id]
      <4>1. IF id \in DOMAIN e.diff THEN e.diff[id].from = now /\ e.diff[id].to = before ELSE now = before
        BY <2>1, <2>2, <3>3 DEF BasedOn
      <4>2. Linked(undos, id, before) /\ Bottoms(undos, id, before, start)
        BY <1>1 DEF OwnPaths
      <4> HIDE DEF now, before, start
      <4>3. /\ Append(undos, e) \in Seq(Entry)
            /\ Linked(Append(undos, e), id, now) /\ Bottoms(Append(undos, e), id, now, start)
        BY <1>1, <3>2, <4>1, <4>2, PushKeepsPath
      <4> QED
        BY <4>3 DEF now, start
    <3>5. \A id : Linked(<<>>, id, mirror'[id])
      BY DEF Linked, Touching
    <3>6. undos' \in Seq(Entry) /\ redos' \in Seq(Entry)
      BY <1>1, <3>1, <3>2
    <3>7. \A id \in Ids \ foreign' :
             /\ Linked(undos', id, mirror'[id])
             /\ Linked(redos', id, mirror'[id])
             /\ Bottoms(undos', id, mirror'[id], initial'[id])
      BY <1>0, <3>1, <3>4, <3>5
    <3>8. OwnPaths'
      BY <3>7 DEF OwnPaths, Linked, Bottoms, Touching
    <3> QED
      BY <1>0, <1>1, <3>1, <3>6, <3>8 DEF UndoInv
  <2>5. CASE emitted'.source # "user"
    <3>1. undos' = undos /\ redos' = redos /\ foreign' = foreign \cup DOMAIN d
      BY <1>0, <1>3, <2>5 DEF Listener
    <3>2. \A id \in Ids \ foreign' : id \in Ids \ foreign /\ mirror'[id] = mirror[id]
      BY <2>2, <3>1
    <3>3. OwnPaths'
      BY <1>0, <1>1, <3>1, <3>2 DEF OwnPaths, Linked, Bottoms, Touching
    <3> QED
      BY <1>0, <1>1, <2>3, <3>1, <3>3 DEF UndoInv
  <2> QED
    BY <2>4, <2>5
<1> QED
  BY <1>2, <1>3

\* What an undo or a redo does, outside the stacks.
LEMMA ApplyMoves ==
    ASSUME UndoInv, NEW e \in Entry, Apply(e)
    PROVE  /\ EditorInv' /\ initial' = initial /\ foreign' \subseteq Ids /\ foreign \subseteq foreign'
           /\ Flip(e) \in Entry /\ DOMAIN Flip(e).diff = DOMAIN e.diff
           /\ \A id \in DOMAIN e.diff : Flip(e).diff[id].from = e.diff[id].to /\ Flip(e).diff[id].to = e.diff[id].from
           /\ \A id \in Ids \ foreign' : mirror'[id] = IF id \in DOMAIN e.diff THEN e.diff[id].to ELSE mirror[id]
<1> DEFINE d == e.diff
<1>1. d \in Diffs /\ DOMAIN d \subseteq Ids /\ invertDiff(d) \in Diffs /\ "user" \in Sources
  <2>1. d \in Diffs /\ "user" \in Sources
    BY DEF Entry, Sources
  <2> QED
    BY <2>1, DiffShape, InvertType
<1>2. /\ Transact(targets(d), "user") /\ NoRecord /\ owner' = owner /\ initial' = initial
      /\ inbound' = inbound \ DOMAIN d /\ foreign' = IF Idle THEN foreign ELSE foreign \cup DOMAIN d
  BY DEF Apply
<1>3. /\ EditorInv /\ inbound' \subseteq Ids /\ foreign \subseteq Ids
  BY <1>2 DEF UndoInv, EditorInv, TypeOK
<1> HIDE DEF d
<1>4. /\ EditorInv'
      /\ \A id \in Ids \ DOMAIN d : mirror'[id] = mirror[id]
      /\ \A id \in DOMAIN d : Idle => mirror'[id] = d[id].to
  BY <1>1, <1>2, <1>3, QuietChange
<1>5. /\ Flip(e) \in Entry /\ DOMAIN Flip(e).diff = DOMAIN d
      /\ \A id \in DOMAIN d : Flip(e).diff[id].from = d[id].to /\ Flip(e).diff[id].to = d[id].from
  BY <1>1 DEF Flip, Entry, invertDiff, d
<1>6. \A id \in Ids \ foreign' : mirror'[id] = IF id \in DOMAIN d THEN d[id].to ELSE mirror[id]
  BY <1>2, <1>4
<1> QED
  BY <1>1, <1>2, <1>3, <1>4, <1>5, <1>6 DEF d

\* An undo and a redo carry an entry from one path to the other.
LEMMA CarryKeeps ==
    ASSUME UndoInv, NEW from \in Seq(Entry), NEW onto \in Seq(Entry), from # <<>>, NEW id \in Ids \ foreign', NEW start,
           Apply(Last(from)), Linked(from, id, mirror[id]), Linked(onto, id, mirror[id])
    PROVE  /\ Linked(Front(from), id, mirror'[id])
           /\ Linked(Append(onto, Flip(Last(from))), id, mirror'[id])
           /\ Bottoms(from, id, mirror[id], start) => Bottoms(Front(from), id, mirror'[id], start)
           /\ Bottoms(onto, id, mirror[id], start) => Bottoms(Append(onto, Flip(Last(from))), id, mirror'[id], start)
<1> DEFINE e == Last(from)
           now == mirror[id]
           next == mirror'[id]
<1>1. /\ Front(from) \in Seq(Entry) /\ e \in Entry
      /\ IF id \in DOMAIN e.diff
         THEN /\ e.diff[id].from = now
              /\ Linked(Front(from), id, e.diff[id].to)
              /\ Bottoms(from, id, now, start) => Bottoms(Front(from), id, e.diff[id].to, start)
         ELSE /\ Linked(Front(from), id, now)
              /\ Bottoms(from, id, now, start) => Bottoms(Front(from), id, now, start)
  BY PopKeepsPath
<1>2. /\ Flip(e) \in Entry /\ DOMAIN Flip(e).diff = DOMAIN e.diff
      /\ \A i \in DOMAIN e.diff : Flip(e).diff[i].from = e.diff[i].to /\ Flip(e).diff[i].to = e.diff[i].from
      /\ next = IF id \in DOMAIN e.diff THEN e.diff[id].to ELSE now
  BY <1>1, ApplyMoves
<1> DEFINE g == Flip(e)
<1> HIDE DEF e, g, now, next
<1>3. g \in Entry /\ IF id \in DOMAIN g.diff THEN g.diff[id].from = next /\ g.diff[id].to = now ELSE next = now
  BY <1>1, <1>2 DEF g
<1>4. /\ Linked(onto, id, now) => Linked(Append(onto, g), id, next)
      /\ Bottoms(onto, id, now, start) => Bottoms(Append(onto, g), id, next, start)
  BY <1>3, PushKeepsPath
<1>5. /\ Linked(Front(from), id, next)
      /\ Bottoms(from, id, now, start) => Bottoms(Front(from), id, next, start)
  BY <1>1, <1>2
<1> QED
  BY <1>4, <1>5 DEF e, g, now, next

\* So undos and redos keep the paths.
LEMMA UndoRedoKeeps ==
    ASSUME UndoInv, Undo \/ Redo
    PROVE  UndoInv'
<1>0. /\ undos \in Seq(Entry) /\ redos \in Seq(Entry) /\ initial \in Records /\ foreign \subseteq Ids
      /\ \A id \in Ids \ foreign : /\ Linked(undos, id, mirror[id])
                                   /\ Linked(redos, id, mirror[id])
                                   /\ Bottoms(undos, id, mirror[id], initial[id])
  BY DEF UndoInv, OwnPaths
<1>1. ASSUME NEW s \in Seq(Entry), s # <<>> PROVE Last(s) \in Entry /\ Front(s) \in Seq(Entry)
  BY <1>1 DEF Last, Front
<1>2. CASE Undo
  <2>1. /\ undos # <<>> /\ Apply(Last(undos)) /\ undos' = Front(undos)
        /\ redos' = Append(redos, Flip(Last(undos)))
    BY <1>2 DEF Undo
  <2>2. /\ EditorInv' /\ initial' = initial /\ foreign' \subseteq Ids /\ foreign \subseteq foreign'
        /\ Flip(Last(undos)) \in Entry
    BY <1>0, <1>1, <2>1, ApplyMoves
  <2>3. undos' \in Seq(Entry) /\ redos' \in Seq(Entry)
    BY <1>0, <1>1, <2>1, <2>2
  <2>4. ASSUME NEW id \in Ids \ foreign'
        PROVE  /\ Linked(undos', id, mirror'[id])
               /\ Linked(redos', id, mirror'[id])
               /\ Bottoms(undos', id, mirror'[id], initial'[id])
    BY <1>0, <2>1, <2>2, <2>4, CarryKeeps
  <2>5. OwnPaths'
    BY <2>4 DEF OwnPaths, Linked, Bottoms, Touching
  <2> QED
    BY <1>0, <2>2, <2>3, <2>5 DEF UndoInv
<1>3. CASE Redo
  <2>1. /\ redos # <<>> /\ Apply(Last(redos)) /\ redos' = Front(redos)
        /\ undos' = Append(undos, Flip(Last(redos)))
    BY <1>3 DEF Redo
  <2>2. /\ EditorInv' /\ initial' = initial /\ foreign' \subseteq Ids /\ foreign \subseteq foreign'
        /\ Flip(Last(redos)) \in Entry
    BY <1>0, <1>1, <2>1, ApplyMoves
  <2>3. undos' \in Seq(Entry) /\ redos' \in Seq(Entry)
    BY <1>0, <1>1, <2>1, <2>2
  <2>4. ASSUME NEW id \in Ids \ foreign'
        PROVE  /\ Linked(undos', id, mirror'[id])
               /\ Linked(redos', id, mirror'[id])
               /\ Bottoms(undos', id, mirror'[id], initial'[id])
    BY <1>0, <2>1, <2>2, <2>4, CarryKeeps
  <2>5. OwnPaths'
    BY <2>4 DEF OwnPaths, Linked, Bottoms, Touching
  <2> QED
    BY <1>0, <2>2, <2>3, <2>5 DEF UndoInv
<1> QED
  BY <1>2, <1>3

\* The ids of a diff are those of its key.
LEMMA KeyIsIds ==
    ASSUME NEW d, NEW e, keyOf(d) = keyOf(e)
    PROVE  DOMAIN d = DOMAIN e
<1>1. \A id : id \in DOMAIN d <=> id \in keyOf(d)[1] \/ id \in keyOf(d)[2] \/ id \in keyOf(d)[3]
  BY DEF keyOf
<1>2. \A id : id \in DOMAIN e <=> id \in keyOf(e)[1] \/ id \in keyOf(e)[2] \/ id \in keyOf(e)[3]
  BY DEF keyOf
<1>3. \A id : id \in DOMAIN d <=> id \in DOMAIN e
  BY <1>1, <1>2
<1> QED
  BY <1>3

\* A refused edit is taken back, and one entry of its key is dropped.
LEMMA RejectKeeps ==
    ASSUME UndoInv, outbox \in Seq(Event), Reject
    PROVE  UndoInv'
<1> DEFINE refused == Head(outbox)
           d == invertDiff(refused.diff)
<1>1. outbox # <<>> /\ refused \in Event
  BY DEF Reject
<1>2. /\ refused.diff \in Diffs /\ d \in Diffs /\ DOMAIN d = DOMAIN refused.diff /\ DOMAIN d \subseteq Ids /\ "remote" \in Sources
  <2>1. refused.diff \in Diffs
    BY <1>1 DEF Event
  <2> QED
    BY <2>1, InvertType, DiffShape DEF Sources, invertDiff
<1>3. /\ Transact(targets(d), "remote") /\ NoRecord /\ owner' = owner /\ redos' = redos /\ initial' = initial
      /\ inbound' = (IF Idle THEN {} ELSE inbound \cup (DOMAIN refused.diff \ DOMAIN buffer))
      /\ undos' = forget(refused.diff) /\ foreign' = foreign \cup DOMAIN d
  BY DEF Reject, invertDiff
<1>4. EditorInv /\ inbound' \subseteq Ids
  BY <1>2, <1>3 DEF UndoInv, EditorInv, TypeOK
<1>5. /\ undos \in Seq(Entry) /\ redos \in Seq(Entry) /\ initial \in Records /\ foreign \subseteq Ids
      /\ \A id \in Ids \ foreign : /\ Linked(undos, id, mirror[id])
                                   /\ Linked(redos, id, mirror[id])
                                   /\ Bottoms(undos, id, mirror[id], initial[id])
  BY DEF UndoInv, OwnPaths
<1> HIDE DEF d
<1>6. EditorInv' /\ \A id \in Ids \ DOMAIN d : mirror'[id] = mirror[id]
  BY <1>2, <1>3, <1>4, QuietChange
<1>7. \/ undos' = undos
      \/ \E k \in DOMAIN undos : DOMAIN undos[k].diff = DOMAIN d /\ undos' = RemoveAt(undos, k)
  <2> DEFINE hits == {i \in DOMAIN undos : keyOf(undos[i].diff) = keyOf(d)}
  <2>1. undos' = IF hits = {} THEN undos ELSE RemoveAt(undos, Max(hits))
    BY <1>3 DEF forget, d
  <2>2. CASE hits = {}
    BY <2>1, <2>2
  <2>3. CASE hits # {}
    <3>1. Max(hits) \in hits
      BY <1>5, <2>3, MaxIsThere
    <3>2. PICK k \in hits : k = Max(hits)
      BY <3>1
    <3>3. DOMAIN undos[k].diff = DOMAIN d
      BY <3>2, KeyIsIds
    <3> QED
      BY <2>1, <2>3, <3>2, <3>3
  <2> QED
    BY <2>2, <2>3
<1>8. ASSUME NEW id \in Ids \ foreign'
      PROVE  /\ undos' \in Seq(Entry)
             /\ Linked(undos', id, mirror'[id])
             /\ Linked(redos', id, mirror'[id])
             /\ Bottoms(undos', id, mirror'[id], initial'[id])
  <2>1. id \in Ids \ foreign /\ id \notin DOMAIN d /\ mirror'[id] = mirror[id]
    BY <1>3, <1>6
  <2>2. Linked(undos, id, mirror[id]) /\ Bottoms(undos, id, mirror[id], initial[id]) /\ Linked(redos, id, mirror[id])
    BY <1>5, <2>1
  <2>3. CASE undos' = undos
    BY <1>3, <1>5, <2>1, <2>2, <2>3
  <2>4. ASSUME NEW k \in DOMAIN undos, DOMAIN undos[k].diff = DOMAIN d, undos' = RemoveAt(undos, k)
        PROVE  undos' \in Seq(Entry) /\ Linked(undos', id, mirror[id]) /\ Bottoms(undos', id, mirror[id], initial[id])
    <3> DEFINE now == mirror[id]
               start == initial[id]
    <3>1. id \notin DOMAIN undos[k].diff /\ Linked(undos, id, now) /\ Bottoms(undos, id, now, start)
      BY <2>1, <2>2, <2>4
    <3> HIDE DEF now, start
    <3>2. /\ RemoveAt(undos, k) \in Seq(Entry)
          /\ Linked(RemoveAt(undos, k), id, now)
          /\ Bottoms(RemoveAt(undos, k), id, now, start)
      BY <1>5, <3>1, RemovalKeepsPath
    <3> QED
      BY <2>4, <3>2 DEF now, start
  <2> QED
    BY <1>3, <1>7, <2>1, <2>2, <2>3, <2>4
<1>9. OwnPaths'
  BY <1>8 DEF OwnPaths, Linked, Bottoms, Touching
<1>10. undos' \in Seq(Entry)
  <2>1. ASSUME NEW k \in DOMAIN undos PROVE RemoveAt(undos, k) \in Seq(Entry)
    <3>1. k \in 1..Len(undos) /\ Len(undos) \in Nat
      BY <1>5
    <3>2. SubSeq(undos, 1, k - 1) \in Seq(Entry) /\ SubSeq(undos, k + 1, Len(undos)) \in Seq(Entry)
      BY <1>5, <3>1
    <3>3. \A x, y \in Seq(Entry) : x \o y \in Seq(Entry)
      OBVIOUS
    <3> QED
      BY <3>2, <3>3 DEF RemoveAt
  <2> QED
    BY <1>5, <1>7, <2>1
<1> QED
  BY <1>2, <1>3, <1>5, <1>6, <1>9, <1>10 DEF UndoInv

RollBackInv == UndoInv /\ outbox \in Seq(Event) /\ rejected \subseteq Nat

LEMMA RollBackInvInit == RollBackInit => RollBackInv
BY UndoInvInit DEF RollBackInit, RollBackInv

\* Every step of the tab, every answer of the server keeps the invariant.
LEMMA RollBackInvStep == RollBackInv /\ [RollBackNext]_rollVars => RollBackInv'
<1> SUFFICES ASSUME RollBackInv, [RollBackNext]_rollVars PROVE RollBackInv'
  OBVIOUS
<1>0. UndoInv /\ outbox \in Seq(Event) /\ rejected \subseteq Nat
  BY DEF RollBackInv
<1>1. CASE TabStep
  <2>1. UndoInv'
    BY <1>0, <1>1, ListenerKeeps, UndoRedoKeeps DEF TabStep, UndoNext
  <2>2. event' \in Event \cup {Nothing}
    BY <2>1 DEF UndoInv, EditorInv, TypeOK
  <2>3. outbox' \in Seq(Event) /\ rejected' \subseteq Nat
    BY <1>0, <1>1, <2>2 DEF TabStep
  <2> QED
    BY <2>1, <2>3 DEF RollBackInv
<1>2. ASSUME UNCHANGED allVars PROVE UndoInv'
  <2>1. /\ UNCHANGED <<atoms, buffer, version, owner, lastSeq, emitted, event, mirror, inbound>>
        /\ UNCHANGED <<undos, redos, initial, foreign>>
    BY <1>2 DEF allVars, vars, undoVars
  <2>2. EditorInv'
    <3>1. Committed' = Committed /\ (Idle' <=> Idle)
      BY <2>1 DEF Committed, Idle
    <3> QED
      BY <1>0, <2>1, <3>1 DEF UndoInv, EditorInv, TypeOK, OwnerWhileOpen, BufferIsLive, MirrorIsCommitted
  <2>3. OwnPaths'
    BY <1>0, <2>1 DEF UndoInv, OwnPaths, Linked, Bottoms, Touching
  <2> QED
    BY <1>0, <2>1, <2>2, <2>3 DEF UndoInv
<1>3. CASE UNCHANGED allVars /\ outbox' \in Seq(Event) /\ rejected' = rejected
  <2>1. UndoInv'
    BY <1>2, <1>3
  <2> QED
    BY <1>0, <1>3, <2>1 DEF RollBackInv
<1>4. CASE Reject
  <2>1. UndoInv'
    BY <1>0, <1>4, RejectKeeps
  <2>2. outbox # <<>> /\ outbox' = Tail(outbox) /\ rejected' = rejected \cup {Head(outbox).seq}
    BY <1>4 DEF Reject
  <2>3. Head(outbox) \in Event /\ Tail(outbox) \in Seq(Event)
    BY <1>0, <2>2
  <2> QED
    BY <1>0, <2>1, <2>2, <2>3 DEF RollBackInv, Event
<1> QED
  BY <1>0, <1>1, <1>3, <1>4 DEF RollBackNext, Ack, rollVars

(***************************************************************************)
(* "The inverse still applies record-wise, so it composes with the         *)
(* interleaved foreign changes" (undo.ts:9-13), for any number of records, *)
(* edits, gestures, inbound diffs, answers and refusals: on every record   *)
(* only this tab has written, undoing the whole stack leads back to where  *)
(* the tab started, and what was undone can be redone.                     *)
(***************************************************************************)
THEOREM OwnHistoryStaysUndoable == RollBackSpec => []OwnHistoryUndoable
<1>1. RollBackInv => OwnHistoryUndoable
  <2> SUFFICES ASSUME RollBackInv, NEW id \in Ids \ foreign
               PROVE  Chained(undos, id) /\ Chained(redos, id) /\ Unwound(undos, id) = initial[id]
    BY DEF OwnHistoryUndoable
  <2>1. /\ undos \in Seq(Entry) /\ redos \in Seq(Entry)
        /\ Linked(undos, id, mirror[id]) /\ Linked(redos, id, mirror[id])
        /\ Bottoms(undos, id, mirror[id], initial[id])
    BY DEF RollBackInv, UndoInv, OwnPaths
  <2> QED
    BY <2>1, LinkedIsChained, BottomIsUnwound
<1> QED
  BY <1>1, RollBackInvInit, RollBackInvStep, PTL DEF RollBackSpec
=============================================================================
