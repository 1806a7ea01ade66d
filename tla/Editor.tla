------------------------------- MODULE Editor -------------------------------
(***************************************************************************)
(* The write authority of one engine: the Store (core/src/store.ts), the   *)
(* Editor over it (core/src/editor.ts) and the sequence counter of its     *)
(* MemoryIntentLog (core/src/log.ts).  JavaScript runs a transaction to    *)
(* completion, so a transaction is one step; a GESTURE is open across many *)
(* steps, and commits and inbound remote diffs land between its frames.    *)
(***************************************************************************)
EXTENDS RecordsDiff, Naturals, FiniteSets

CONSTANTS
    NoBuffer,    \* the store's `buffer` is null
    Nothing,     \* nothing was emitted or appended by the last step
    MaxVersion,  \* bound on the number of emitted diffs
    MaxSeq,      \* bound on the number of appended events
    GestureSources,  \* who drags: the sources of beginGesture's callers
    MaxWrite     \* bound on the ids one handler, frame or inbound diff writes

ASSUME NoBufferAssumption == NoBuffer \notin Buffers
ASSUME BoundAssumption == MaxVersion \in Nat /\ MaxSeq \in Nat /\ MaxWrite \in Nat

Sources == {"user", "agent", "remote"}

ASSUME SourceAssumption == GestureSources \subseteq Sources

BoundedWrites == {w \in Writes : Cardinality(DOMAIN w) <= MaxWrite}
BoundedDiffs == {d \in Diffs : Cardinality(DOMAIN d) <= MaxWrite}

VARIABLES
    atoms,    \* Store.atoms: the live record of every id
    buffer,   \* Store.buffer: NoBuffer, or the open gesture's touches
    version,  \* Store._version
    owner,    \* the open gesture's source and base version, or Nothing
    lastSeq,  \* MemoryIntentLog._lastSeq
    emitted,  \* the [diff, source] channel 2 carried in the last step, or Nothing
    event,    \* the intent event the last step appended, or Nothing
    mirror,   \* a channel-2 consumer's own copy: every emitted diff applied in order
    inbound   \* ids of the open buffer that only remote diffs have touched

storeVars == <<atoms, buffer, version>>
vars == <<atoms, buffer, version, owner, lastSeq, emitted, event, mirror, inbound>>

Emission == [diff : Diffs, source : Sources]
Event == [diff : Diffs, source : Sources, parent : Nat, seq : Nat]
Gesture == [source : Sources, parent : Nat]

ASSUME NothingAssumption == Nothing \notin Emission /\ Nothing \notin Event

TypeOK ==
    /\ atoms \in Records
    /\ buffer \in Buffers \cup {NoBuffer}
    /\ version \in Nat
    /\ owner \in Gesture \cup {Nothing}
    /\ lastSeq \in Nat
    /\ emitted \in Emission \cup {Nothing}
    /\ event \in Event \cup {Nothing}
    /\ mirror \in Records
    /\ inbound \subseteq Ids

\* loadSnapshot sets the records and version of a hydrated board: any records, a consumer starting from them.
Init ==
    /\ atoms \in Records
    /\ buffer = NoBuffer
    /\ version = 0
    /\ owner = Nothing
    /\ lastSeq = 0
    /\ emitted = Nothing
    /\ event = Nothing
    /\ mirror = atoms
    /\ inbound = {}

Idle == buffer = NoBuffer

-----------------------------------------------------------------------------
(***************************************************************************)
(* Channel 2: a non-empty diff bumps the version and reaches every         *)
(* listener; an empty one does neither.                                    *)
(***************************************************************************)
\* Faulty variant of Emit: listeners are called, the version stays.
EmitUnversioned(diff, source) ==
    /\ IF isEmptyDiff(diff)
       THEN emitted' = Nothing /\ UNCHANGED mirror
       ELSE emitted' = [diff |-> diff, source |-> source] /\ mirror' = applyDiff(mirror, diff)
    /\ UNCHANGED version

Emit(diff, source) ==
    IF isEmptyDiff(diff)
    THEN emitted' = Nothing /\ UNCHANGED <<version, mirror>>
    ELSE /\ version < MaxVersion
         /\ emitted' = [diff |-> diff, source |-> source]
         /\ version' = version + 1
         /\ mirror' = applyDiff(mirror, diff)

Silent == emitted' = Nothing /\ UNCHANGED <<version, mirror>>

\* What Store.transact(fn, source) returns and does: nested in an open gesture it joins the
\* gesture's buffer and returns the empty diff, otherwise it builds, emits and returns its own.
TransactDiff(w) == IF Idle THEN build(touch(emptyDiff, atoms, w)) ELSE emptyDiff

Transact(w, source) ==
    /\ atoms' = write(atoms, w)
    /\ buffer' = IF Idle THEN NoBuffer ELSE touch(buffer, atoms, w)
    /\ Emit(TransactDiff(w), source)

\* Editor.record -> MemoryIntentLog.append: one event, at the next local seq.
Record(diff, source, parent) ==
    /\ lastSeq < MaxSeq
    /\ lastSeq' = lastSeq + 1
    /\ event' = [diff |-> diff, source |-> source, parent |-> parent, seq |-> lastSeq + 1]

NoRecord == event' = Nothing /\ UNCHANGED lastSeq

-----------------------------------------------------------------------------
\* Editor.commit: a handler's writes in one transaction, then one event carrying the diff
\* transact returned - also when that diff is empty.
Commit(w, source) ==
    /\ Transact(w, source)
    /\ Record(TransactDiff(w), source, version)
    /\ inbound' = inbound \ DOMAIN w
    /\ UNCHANGED owner

\* Editor.tryCommit: a stale base is refused (null, nothing happens), a current one commits.
TryCommit(w, source, base) ==
    /\ version = base
    /\ Commit(w, source)

\* Store.applyDiffAsChange(d, "remote"): an inbound diff is put and removed as a change of its
\* own; no event is appended.
ApplyRemote(d) ==
    /\ Transact(targets(d), "remote")
    /\ NoRecord
    /\ inbound' = IF Idle THEN {} ELSE inbound \cup (DOMAIN d \ DOMAIN buffer)
    /\ UNCHANGED owner

\* Editor.beginGesture; Store.beginGesture throws when a buffer is already open.
BeginGesture(source) ==
    /\ Idle
    /\ buffer' = emptyDiff
    /\ owner' = [source |-> source, parent |-> version]
    /\ inbound' = {}
    /\ Silent
    /\ NoRecord
    /\ UNCHANGED atoms

\* Gesture.update: the atoms are live, channel 2 stays silent.
GestureFrame(w) ==
    /\ ~Idle
    /\ atoms' = write(atoms, w)
    /\ buffer' = touch(buffer, atoms, w)
    /\ inbound' = inbound \ DOMAIN w
    /\ Silent
    /\ NoRecord
    /\ UNCHANGED owner

\* Gesture.end: one coalesced diff on channel 2, one event - appended even when nothing changed.
EndGesture ==
    /\ ~Idle
    /\ buffer' = NoBuffer
    /\ Emit(build(buffer), owner.source)
    /\ Record(build(buffer), owner.source, owner.parent)
    /\ owner' = Nothing
    /\ inbound' = {}
    /\ UNCHANGED atoms

\* Faulty variant of CancelGesture: the frames already painted stay.
CancelWithoutRevert ==
    /\ ~Idle
    /\ buffer' = NoBuffer
    /\ owner' = Nothing
    /\ inbound' = {}
    /\ Silent
    /\ NoRecord
    /\ UNCHANGED atoms

\* Gesture.cancel: revert the atoms by the inverse of the buffered diff; no emission, no event.
CancelGesture ==
    /\ ~Idle
    /\ buffer' = NoBuffer
    /\ atoms' = applyDiff(atoms, invertDiff(build(buffer)))
    /\ owner' = Nothing
    /\ inbound' = {}
    /\ Silent
    /\ NoRecord

EditorNext ==
    \/ \E w \in BoundedWrites, source \in {"user", "agent"} : Commit(w, source)
    \/ \E w \in BoundedWrites, source \in {"user", "agent"}, base \in 0..MaxVersion :
          TryCommit(w, source, base)
    \/ \E d \in BoundedDiffs : ApplyRemote(d)
    \/ \E source \in GestureSources : BeginGesture(source)
    \/ \E w \in BoundedWrites : GestureFrame(w)
    \/ EndGesture
    \/ CancelGesture

Spec == Init /\ [][EditorNext]_vars

-----------------------------------------------------------------------------
\* The store without the open gesture: what it was when the gesture's buffer opened.
Committed ==
    IF Idle THEN atoms
    ELSE [id \in Ids |-> IF id \in DOMAIN buffer THEN buffer[id].from ELSE atoms[id]]

(***************************************************************************)
(* A consumer that applies every diff of channel 2 (persistence's reader,  *)
(* the SQL read model, a peer) holds exactly the committed store, whatever *)
(* commits, gestures, cancels and remote diffs interleave (store.ts:75-77, *)
(* 143-170; diff.ts:43-45).                                                *)
(***************************************************************************)
MirrorIsCommitted == mirror = Committed

(***************************************************************************)
(* An open buffer's current values are the live atoms: what endGesture     *)
(* emits is what the renderer shows (store.ts:143-145).                    *)
(***************************************************************************)
BufferIsLive == ~Idle => \A id \in DOMAIN buffer : buffer[id].to = atoms[id]

(***************************************************************************)
(* Every emitted diff can be inverted: its left-hand sides are the values  *)
(* its consumers hold before it, and it leaves them the committed store.   *)
(* Undo, cancel and rollback all rest on this (diff.ts:24-33).             *)
(***************************************************************************)
EmissionsChain ==
    [][emitted' # Nothing => /\ BasedOn(emitted'.diff, mirror)
                             /\ mirror' = Committed']_vars

(***************************************************************************)
(* The version is a sound base token for tryCommit: the committed store    *)
(* never changes without the version moving by one - a cancelled gesture   *)
(* included, which must put everything back (store.ts:35-38, 164-170).     *)
(***************************************************************************)
VersionToken == [][Committed' # Committed => version' = version + 1]_vars

(***************************************************************************)
(* agentBus.ts:9-13 says of an inbound diff that "it is NOT re-committed,  *)
(* so it produces no second IntentEvent, isn't echoed back to the server": *)
(* no event this editor appends carries an id only a remote diff touched.  *)
(***************************************************************************)
RemoteNeverEchoed ==
    [][event' # Nothing => DOMAIN event'.diff \cap inbound = {}]_vars
=============================================================================
