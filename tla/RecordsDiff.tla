----------------------------- MODULE RecordsDiff -----------------------------
(***************************************************************************)
(* The record-level diff algebra of core/src/diff.ts: what a change to the *)
(* store IS, how changes within one transaction coalesce, how a change is  *)
(* inverted, applied and squashed.                                         *)
(*                                                                         *)
(* A value stands for one record OBJECT: DiffBuffer.build compares objects *)
(* with !== (reference inequality), so two values are equal exactly when   *)
(* they are the same object.  Absent stands for `undefined`, i.e. for an   *)
(* id with no record.  RecordsDiff's three maps are one function from the  *)
(* touched ids to a change: from = Absent is an entry of `added`, to =     *)
(* Absent one of `removed`, neither one of `updated`.                      *)
(***************************************************************************)
CONSTANTS Ids, Vals, Absent

ASSUME AbsentAssumption == Absent \notin Vals

Slot == Vals \cup {Absent}
Records == [Ids -> Slot]

Touch == [from : Slot, to : Slot]
Change == {c \in Touch : c.from # c.to}

\* A DiffBuffer pairs the first-seen origin of every touched id with its current value.
Buffers == UNION {[S -> Touch] : S \in SUBSET Ids}
Diffs == UNION {[S -> Change] : S \in SUBSET Ids}

\* The final value a transaction leaves in each id it writes.
Writes == UNION {[S -> Slot] : S \in SUBSET Ids}

emptyDiff == [id \in {} |-> [from |-> Absent, to |-> Absent]]

isEmptyDiff(d) == DOMAIN d = {}

invertDiff(d) == [id \in DOMAIN d |-> [from |-> d[id].to, to |-> d[id].from]]

applyDiff(records, d) ==
    [id \in Ids |-> IF id \in DOMAIN d THEN d[id].to ELSE records[id]]

\* Faulty variants of touch, each caught by a property of Editor: the origin is taken anew at every
\* touch; the first touch also fixes the current value.
touchForgetsOrigin(buf, records, w) ==
    [id \in DOMAIN buf \cup DOMAIN w |->
        [from |-> records[id],
         to   |-> IF id \in DOMAIN w THEN w[id] ELSE buf[id].to]]

touchOnce(buf, records, w) ==
    [id \in DOMAIN buf \cup DOMAIN w |->
        IF id \in DOMAIN buf THEN buf[id] ELSE [from |-> records[id], to |-> w[id]]]

\* DiffBuffer.touch for every id of w: the first touch fixes the origin, every touch the current value.
touch(buf, records, w) ==
    [id \in DOMAIN buf \cup DOMAIN w |->
        [from |-> IF id \in DOMAIN buf THEN buf[id].from ELSE records[id],
         to   |-> IF id \in DOMAIN w THEN w[id] ELSE buf[id].to]]

\* Faulty variant of build: touched-but-unchanged ids stay in the diff.
buildUnfiltered(buf) == buf

\* DiffBuffer.build: touched-but-unchanged and added-then-removed ids drop out.
build(buf) == [id \in {i \in DOMAIN buf : buf[i].from # buf[i].to} |-> buf[id]]

\* The values a set of writes leaves behind.
write(records, w) == [id \in Ids |-> IF id \in DOMAIN w THEN w[id] ELSE records[id]]

\* The values of a diff's right-hand sides: what applyDiffAsChange puts and removes.
targets(d) == [id \in DOMAIN d |-> d[id].to]

\* squashDiffs of two emitted diffs: re-touch both in order, then build.
squashDiffs(d1, d2) ==
    build([id \in DOMAIN d1 \cup DOMAIN d2 |->
        [from |-> IF id \in DOMAIN d1 THEN d1[id].from ELSE d2[id].from,
         to   |-> IF id \in DOMAIN d2 THEN d2[id].to ELSE d1[id].to]])

\* A diff describes a change of these records.
BasedOn(d, records) == \A id \in DOMAIN d : d[id].from = records[id]
=============================================================================
