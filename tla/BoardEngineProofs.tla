-------------------------- MODULE BoardEngineProofs --------------------------
(***************************************************************************)
(* What the files of a board fold to, for any log of events and torn lines *)
(* and any snapshot: the lemmas the proofs about BoardService and BoardSync *)
(* rest on.                                                                *)
(***************************************************************************)
EXTENDS BoardEngine, DataProofs

LogLine == Event \cup {Torn}
Stored == Snapshot \cup {NoSnapshot}

\* The events the fold applies on top of a snapshot, and those of them that touch one id.
TailOf(lines, s) == {i \in Readable(lines) : lines[i].seq > SnapSeq(s)}
Touching(lines, s, id) == {i \in TailOf(lines, s) : id \in DOMAIN lines[i].diff}
Below(s, id) == IF s = NoSnapshot THEN Absent ELSE s.records[id]

\* Every seq the watermark is the newest of.
SeqsOf(lines, s) == {SnapSeq(s)} \cup {lines[i].seq : i \in Readable(lines)}

LEMMA EventShape ==
    ASSUME NEW e \in Event
    PROVE  /\ e.seq \in 1..MaxSeq /\ e.seq \in Nat
           /\ e.diff \in Diffs /\ DOMAIN e.diff \subseteq Ids
           /\ \A id \in DOMAIN e.diff : e.diff[id].to \in Slot
<1>1. e.seq \in 1..MaxSeq /\ e.diff \in Diffs
    BY DEF Event
<1>2. e.seq \in Nat
    BY <1>1, BoundAssumption
<1> QED
    BY <1>1, <1>2, DiffShape

LEMMA ReadableShape ==
    ASSUME NEW lines \in Seq(LogLine)
    PROVE  /\ Len(lines) \in Nat
           /\ Readable(lines) \subseteq 1..Len(lines)
           /\ \A i \in Readable(lines) : lines[i] \in Event /\ i \in Nat /\ i <= Len(lines)
<1>1. Len(lines) \in Nat /\ DOMAIN lines = 1..Len(lines)
    OBVIOUS
<1>2. ASSUME NEW i \in Readable(lines) PROVE i \in 1..Len(lines) /\ lines[i] \in Event
  <2>1. i \in 1..Len(lines) /\ lines[i] # Torn
    BY <1>1 DEF Readable
  <2>2. lines[i] \in LogLine
    BY <2>1, ElementOfSeq
  <2> QED
    BY <2>1, <2>2 DEF LogLine
<1> QED
    BY <1>1, <1>2

LEMMA SnapSeqType ==
    ASSUME NEW s \in Stored
    PROVE  SnapSeq(s) \in 0..MaxSeq /\ SnapSeq(s) \in Nat
<1>1. SnapSeq(s) \in 0..MaxSeq
    BY BoundAssumption DEF Stored, Snapshot, SnapSeq
<1> QED
    BY <1>1, BoundAssumption

LEMMA TouchingShape ==
    ASSUME NEW lines \in Seq(LogLine), NEW s, NEW id
    PROVE  /\ Touching(lines, s, id) \in SUBSET Nat
           /\ \A i \in Touching(lines, s, id) :
                /\ i \in Readable(lines) /\ i \in 1..Len(lines) /\ i <= Len(lines)
                /\ lines[i] \in Event
<1>1. Touching(lines, s, id) \subseteq Readable(lines)
    BY DEF Touching, TailOf
<1> QED
    BY <1>1, ReadableShape

(***************************************************************************)
(* The records: an id is as the last tail event that touches it left it.   *)
(***************************************************************************)
LEMMA FoldUntouched ==
    ASSUME NEW lines, NEW s, NEW id \in Ids, Touching(lines, s, id) = {}
    PROVE  FoldRecords(lines, s)[id] = Below(s, id)
BY DEF FoldRecords, Touching, TailOf, Below

LEMMA FoldTouched ==
    ASSUME NEW lines \in Seq(LogLine), NEW s, NEW id \in Ids, NEW n \in Touching(lines, s, id),
           \A i \in Touching(lines, s, id) : i <= n
    PROVE  FoldRecords(lines, s)[id] = lines[n].diff[id].to
<1>1. Newest(Touching(lines, s, id)) = n
    BY TouchingShape, NewestIs
<1>2. FoldRecords(lines, s)[id] = lines[Newest(Touching(lines, s, id))].diff[id].to
    BY DEF FoldRecords, Touching, TailOf
<1> QED
    BY <1>1, <1>2

LEMMA LastTouch ==
    ASSUME NEW lines \in Seq(LogLine), NEW s, NEW id \in Ids, Touching(lines, s, id) # {}
    PROVE  \E n \in Touching(lines, s, id) :
              /\ \A i \in Touching(lines, s, id) : i <= n
              /\ FoldRecords(lines, s)[id] = lines[n].diff[id].to
<1>1. PICK n \in Touching(lines, s, id) : \A i \in Touching(lines, s, id) : i <= n
  <2>1. Len(lines) \in Nat
    OBVIOUS
  <2> QED
    BY <2>1, TouchingShape, NewestIsLast
<1> QED
    BY <1>1, FoldTouched

LEMMA FoldType ==
    ASSUME NEW lines \in Seq(LogLine), NEW s \in Stored
    PROVE  FoldRecords(lines, s) \in Records
<1>1. ASSUME NEW id \in Ids PROVE FoldRecords(lines, s)[id] \in Slot
  <2>1. CASE Touching(lines, s, id) = {}
    <3>1. Below(s, id) \in Slot
      BY DEF Below, Stored, Snapshot, Records, Slot
    <3> QED
      BY <2>1, <3>1, FoldUntouched
  <2>2. CASE Touching(lines, s, id) # {}
    <3>1. PICK n \in Touching(lines, s, id) : FoldRecords(lines, s)[id] = lines[n].diff[id].to
      BY <2>2, LastTouch
    <3>2. lines[n] \in Event /\ id \in DOMAIN lines[n].diff
      BY TouchingShape DEF Touching
    <3> QED
      BY <3>1, <3>2, EventShape
  <2> QED
    BY <2>1, <2>2
<1>2. FoldRecords(lines, s) = [id \in Ids |-> FoldRecords(lines, s)[id]]
    BY DEF FoldRecords
<1> QED
    BY <1>1, <1>2 DEF Records

-----------------------------------------------------------------------------
(***************************************************************************)
(* Appending a line.                                                       *)
(***************************************************************************)
LEMMA AppendedLine ==
    ASSUME NEW lines \in Seq(LogLine), NEW e \in LogLine
    PROVE  /\ Append(lines, e) \in Seq(LogLine)
           /\ Len(lines) \in Nat /\ Len(Append(lines, e)) = Len(lines) + 1
           /\ \A i \in 1..Len(lines) : Append(lines, e)[i] = lines[i]
           /\ Append(lines, e)[Len(lines) + 1] = e
           /\ DOMAIN Append(lines, e) = 1..(Len(lines) + 1) /\ DOMAIN lines = 1..Len(lines)
BY AppendProperties, LenProperties

LEMMA AppendedReadable ==
    ASSUME NEW lines \in Seq(LogLine), NEW e \in LogLine
    PROVE  /\ Readable(Append(lines, e)) =
                Readable(lines) \cup (IF e = Torn THEN {} ELSE {Len(lines) + 1})
           /\ \A i \in Readable(lines) : Append(lines, e)[i] = lines[i]
           /\ Len(lines) + 1 \notin Readable(lines)
<1>1. \A i \in Readable(lines) : i \in 1..Len(lines) /\ i # Len(lines) + 1 /\ i \in 1..(Len(lines) + 1)
    BY ReadableShape
<1>2. ASSUME NEW i \in Readable(Append(lines, e)), i # Len(lines) + 1
      PROVE  i \in Readable(lines)
  <2>1. i \in 1..Len(lines)
    BY <1>2, AppendedLine DEF Readable
  <2> QED
    BY <1>2, <2>1, AppendedLine DEF Readable
<1>3. ASSUME NEW i \in Readable(lines)
      PROVE  i \in Readable(Append(lines, e)) /\ Append(lines, e)[i] = lines[i]
    BY <1>1, AppendedLine DEF Readable
<1>4. Len(lines) + 1 \in Readable(Append(lines, e)) <=> e # Torn
  <2>1. Len(lines) + 1 \in 1..(Len(lines) + 1)
    BY AppendedLine
  <2> QED
    BY <2>1, AppendedLine DEF Readable
<1> QED
    BY <1>1, <1>2, <1>3, <1>4

\* A torn line changes nothing of what is read.
LEMMA FoldOfTorn ==
    ASSUME NEW lines \in Seq(LogLine), NEW s
    PROVE  /\ FoldRecords(Append(lines, Torn), s) = FoldRecords(lines, s)
           /\ FoldWatermark(Append(lines, Torn), s) = FoldWatermark(lines, s)
<1> DEFINE longer == Append(lines, Torn)
<1>1. Readable(longer) = Readable(lines) /\ \A i \in Readable(lines) : longer[i] = lines[i]
    BY AppendedReadable DEF LogLine
<1>2. longer \in Seq(LogLine)
    BY AppendedLine DEF LogLine
<1> HIDE DEF longer
<1>3. \A id : Touching(longer, s, id) = Touching(lines, s, id)
    BY <1>1 DEF Touching, TailOf
<1>4. ASSUME NEW id \in Ids PROVE FoldRecords(longer, s)[id] = FoldRecords(lines, s)[id]
  <2>1. CASE Touching(lines, s, id) = {}
    BY <2>1, <1>3, FoldUntouched
  <2>2. CASE Touching(lines, s, id) # {}
    <3>1. PICK n \in Touching(lines, s, id) :
             /\ \A i \in Touching(lines, s, id) : i <= n
             /\ FoldRecords(lines, s)[id] = lines[n].diff[id].to
      BY <2>2, LastTouch
    <3>2. FoldRecords(longer, s)[id] = longer[n].diff[id].to
      BY <1>2, <1>3, <3>1, FoldTouched
    <3>3. longer[n] = lines[n]
      BY <1>1, TouchingShape
    <3> QED
      BY <3>1, <3>2, <3>3
  <2> QED
    BY <2>1, <2>2
<1>5. FoldRecords(longer, s) = FoldRecords(lines, s)
  <2>1. /\ FoldRecords(longer, s) = [id \in Ids |-> FoldRecords(longer, s)[id]]
        /\ FoldRecords(lines, s) = [id \in Ids |-> FoldRecords(lines, s)[id]]
    BY DEF FoldRecords
  <2> QED
    BY <1>4, <2>1
<1>6. FoldWatermark(longer, s) = FoldWatermark(lines, s)
  <2>1. {longer[i].seq : i \in Readable(longer)} = {lines[i].seq : i \in Readable(lines)}
    BY <1>1
  <2> QED
    BY <2>1 DEF FoldWatermark
<1> QED
    BY <1>5, <1>6 DEF longer

\* An event past the snapshot folds to its diff, applied.
LEMMA FoldOfAppend ==
    ASSUME NEW lines \in Seq(LogLine), NEW s \in Stored, NEW e \in Event, e.seq > SnapSeq(s)
    PROVE  FoldRecords(Append(lines, e), s) = applyDiff(FoldRecords(lines, s), e.diff)
<1> DEFINE longer == Append(lines, e)
           last == Len(lines) + 1
<1>1. /\ e \in LogLine /\ e # Torn /\ longer \in Seq(LogLine) /\ longer[last] = e
      /\ last \in Nat
    BY AppendedLine, MarkerAssumption DEF LogLine
<1>2. /\ Readable(longer) = Readable(lines) \cup {last}
      /\ \A i \in Readable(lines) : longer[i] = lines[i]
      /\ last \notin Readable(lines)
    BY <1>1, AppendedReadable
<1>3. \A i \in Readable(lines) : i <= last
    BY ReadableShape
<1> HIDE DEF longer, last
<1>4. ASSUME NEW id \in Ids
      PROVE  FoldRecords(longer, s)[id] =
                IF id \in DOMAIN e.diff THEN e.diff[id].to ELSE FoldRecords(lines, s)[id]
  <2>1. Touching(longer, s, id) =
           Touching(lines, s, id) \cup (IF id \in DOMAIN e.diff THEN {last} ELSE {})
    BY <1>1, <1>2 DEF Touching, TailOf
  <2>2. CASE id \in DOMAIN e.diff
    <3>1. last \in Touching(longer, s, id) /\ \A i \in Touching(longer, s, id) : i <= last
      BY <2>1, <2>2, <1>1, <1>3, TouchingShape
    <3> QED
      BY <2>2, <3>1, <1>1, FoldTouched
  <2>3. CASE id \notin DOMAIN e.diff /\ Touching(lines, s, id) = {}
    BY <2>1, <2>3, FoldUntouched
  <2>4. CASE id \notin DOMAIN e.diff /\ Touching(lines, s, id) # {}
    <3>1. PICK n \in Touching(lines, s, id) :
             /\ \A i \in Touching(lines, s, id) : i <= n
             /\ FoldRecords(lines, s)[id] = lines[n].diff[id].to
      BY <2>4, LastTouch
    <3>2. FoldRecords(longer, s)[id] = longer[n].diff[id].to
      BY <1>1, <2>1, <2>4, <3>1, FoldTouched
    <3>3. longer[n] = lines[n]
      BY <1>2, TouchingShape
    <3> QED
      BY <2>4, <3>1, <3>2, <3>3
  <2> QED
    BY <2>2, <2>3, <2>4
<1>5. FoldRecords(longer, s) = [id \in Ids |-> FoldRecords(longer, s)[id]]
    BY DEF FoldRecords
<1> QED
    BY <1>4, <1>5 DEF longer, applyDiff

(***************************************************************************)
(* The watermark.                                                          *)
(***************************************************************************)
LEMMA SeqsBounded ==
    ASSUME NEW lines \in Seq(LogLine), NEW s \in Stored
    PROVE  /\ SeqsOf(lines, s) \in SUBSET Nat /\ SeqsOf(lines, s) # {}
           /\ \A n \in SeqsOf(lines, s) : n <= MaxSeq
           /\ MaxSeq \in Nat
<1>1. \A i \in Readable(lines) : lines[i].seq \in Nat /\ lines[i].seq <= MaxSeq
    BY ReadableShape, EventShape, BoundAssumption
<1>2. SnapSeq(s) \in Nat /\ SnapSeq(s) <= MaxSeq
    BY SnapSeqType, BoundAssumption
<1> QED
    BY <1>1, <1>2, BoundAssumption DEF SeqsOf

LEMMA WatermarkIs ==
    ASSUME NEW lines \in Seq(LogLine), NEW s \in Stored
    PROVE  /\ FoldWatermark(lines, s) \in 0..MaxSeq /\ FoldWatermark(lines, s) \in Nat
           /\ FoldWatermark(lines, s) \in SeqsOf(lines, s)
           /\ SnapSeq(s) <= FoldWatermark(lines, s)
           /\ \A i \in Readable(lines) : lines[i].seq <= FoldWatermark(lines, s)
<1>1. FoldWatermark(lines, s) = Newest(SeqsOf(lines, s))
    BY DEF FoldWatermark, SeqsOf
<1>2. /\ FoldWatermark(lines, s) \in SeqsOf(lines, s)
      /\ \A n \in SeqsOf(lines, s) : n <= FoldWatermark(lines, s)
    BY <1>1, SeqsBounded, NewestIsLast
<1>3. FoldWatermark(lines, s) \in Nat /\ FoldWatermark(lines, s) <= MaxSeq /\ MaxSeq \in Nat
    BY <1>2, SeqsBounded
<1>4. SnapSeq(s) \in SeqsOf(lines, s) /\ \A i \in Readable(lines) : lines[i].seq \in SeqsOf(lines, s)
    BY DEF SeqsOf
<1> QED
    BY <1>2, <1>3, <1>4

LEMMA WatermarkOf ==
    ASSUME NEW lines \in Seq(LogLine), NEW s \in Stored, NEW n \in SeqsOf(lines, s),
           SnapSeq(s) <= n, \A i \in Readable(lines) : lines[i].seq <= n
    PROVE  FoldWatermark(lines, s) = n
<1>1. \A m \in SeqsOf(lines, s) : m <= n
    BY DEF SeqsOf
<1> QED
    BY <1>1, SeqsBounded, NewestIs DEF FoldWatermark, SeqsOf

LEMMA WatermarkOfAppend ==
    ASSUME NEW lines \in Seq(LogLine), NEW s \in Stored, NEW e \in Event,
           e.seq >= FoldWatermark(lines, s)
    PROVE  FoldWatermark(Append(lines, e), s) = e.seq
<1> DEFINE longer == Append(lines, e)
           last == Len(lines) + 1
<1>1. e \in LogLine /\ e # Torn /\ longer \in Seq(LogLine) /\ longer[last] = e
    BY AppendedLine, MarkerAssumption DEF LogLine
<1>2. /\ Readable(longer) = Readable(lines) \cup {last}
      /\ \A i \in Readable(lines) : longer[i] = lines[i]
    BY <1>1, AppendedReadable
<1> HIDE DEF longer, last
<1>3. e.seq \in Nat /\ FoldWatermark(lines, s) \in Nat /\ SnapSeq(s) \in Nat
    BY EventShape, WatermarkIs, SnapSeqType
<1>4. \A i \in Readable(lines) : lines[i].seq \in Nat /\ lines[i].seq <= e.seq
    BY <1>3, WatermarkIs, ReadableShape, EventShape
<1>5. e.seq \in SeqsOf(longer, s) /\ SnapSeq(s) <= e.seq
    BY <1>1, <1>2, <1>3, WatermarkIs DEF SeqsOf
<1>6. \A i \in Readable(longer) : longer[i].seq <= e.seq
    BY <1>1, <1>2, <1>3, <1>4
<1> QED
    BY <1>1, <1>5, <1>6, WatermarkOf DEF longer

-----------------------------------------------------------------------------
(***************************************************************************)
(* Leaving lines out.                                                      *)
(***************************************************************************)
Increasing(lines) == \A i, j \in Readable(lines) : i < j => lines[i].seq < lines[j].seq

LEMMA PickedReadable ==
    ASSUME NEW lines \in Seq(LogLine), NEW at \in SUBSET Readable(lines)
    PROVE  \E f : /\ Picks(f, LinesAt(lines, at), lines, at)
                  /\ LinesAt(lines, at) \in Seq(LogLine)
                  /\ Readable(LinesAt(lines, at)) = 1..Len(LinesAt(lines, at))
                  /\ \A k \in 1..Len(LinesAt(lines, at)) : LinesAt(lines, at)[k] \in Event
<1> DEFINE out == LinesAt(lines, at)
<1>1. at \in SUBSET (1..Len(lines))
    BY ReadableShape
<1>2. PICK f : Picks(f, out, lines, at) /\ out \in Seq(LogLine)
    BY <1>1, LinesAtPicks
<1> HIDE DEF out
<1>3. Len(out) \in Nat /\ DOMAIN out = 1..Len(out)
    BY <1>2
<1>4. ASSUME NEW k \in 1..Len(out) PROVE out[k] = lines[f[k]] /\ f[k] \in at /\ out[k] \in Event
  <2>1. out[k] = lines[f[k]] /\ f[k] \in at
    BY <1>2 DEF Picks
  <2> QED
    BY <2>1, ReadableShape
<1>5. Readable(out) = 1..Len(out)
    BY <1>3, <1>4, MarkerAssumption DEF Readable
<1> QED
    BY <1>2, <1>4, <1>5 DEF out

\* What a snapshot holds already may be left out, and lines that do not parse.
LEMMA FoldOfSome ==
    ASSUME NEW lines \in Seq(LogLine), NEW s \in Stored, NEW at \in SUBSET Readable(lines),
           TailOf(lines, s) \subseteq at
    PROVE  FoldRecords(LinesAt(lines, at), s) = FoldRecords(lines, s)
<1> DEFINE out == LinesAt(lines, at)
<1>1. PICK f : /\ Picks(f, out, lines, at)
               /\ out \in Seq(LogLine) /\ Readable(out) = 1..Len(out)
    BY PickedReadable
<1> HIDE DEF out
<1>2. \A k \in Readable(out) : f[k] \in at /\ out[k] = lines[f[k]] /\ f[k] \in Readable(lines)
    BY <1>1 DEF Picks
<1>3. ASSUME NEW id, NEW k \in Readable(out)
      PROVE  k \in Touching(out, s, id) <=> f[k] \in Touching(lines, s, id)
    BY <1>2 DEF Touching, TailOf
<1>4. ASSUME NEW id, NEW i \in Touching(lines, s, id)
      PROVE  \E k \in Touching(out, s, id) : f[k] = i
  <2>1. i \in at
    BY DEF Touching
  <2>2. PICK k \in 1..Len(out) : f[k] = i
    BY <1>1, <2>1 DEF Picks
  <2> QED
    BY <1>1, <1>3, <2>2
<1>5. ASSUME NEW id \in Ids PROVE FoldRecords(out, s)[id] = FoldRecords(lines, s)[id]
  <2>1. CASE Touching(lines, s, id) = {}
    <3>1. Touching(out, s, id) = {}
      BY <2>1, <1>3 DEF Touching, TailOf
    <3> QED
      BY <2>1, <3>1, FoldUntouched
  <2>2. CASE Touching(lines, s, id) # {}
    <3>1. PICK n \in Touching(lines, s, id) :
             /\ \A i \in Touching(lines, s, id) : i <= n
             /\ FoldRecords(lines, s)[id] = lines[n].diff[id].to
      BY <2>2, LastTouch
    <3>2. PICK k \in Touching(out, s, id) : f[k] = n
      BY <1>4
    <3>3. ASSUME NEW j \in Touching(out, s, id) PROVE j <= k
      <4>1. j \in Readable(out) /\ k \in Readable(out)
        BY DEF Touching, TailOf
      <4>2. f[j] <= n /\ f[j] \in Nat /\ n \in Nat
        BY <1>2, <1>3, <3>1, <4>1, ReadableShape, TouchingShape
      <4>3. j \in Nat /\ k \in Nat /\ (k < j => f[k] < f[j])
        BY <1>1, <4>1, ReadableShape DEF Picks
      <4> QED
        BY <3>2, <4>2, <4>3
    <3>4. FoldRecords(out, s)[id] = out[k].diff[id].to
      BY <1>1, <3>3, FoldTouched
    <3>5. out[k] = lines[n]
      BY <1>2, <3>2 DEF Touching, TailOf
    <3> QED
      BY <3>1, <3>4, <3>5
  <2> QED
    BY <2>1, <2>2
<1>6. /\ FoldRecords(out, s) = [id \in Ids |-> FoldRecords(out, s)[id]]
      /\ FoldRecords(lines, s) = [id \in Ids |-> FoldRecords(lines, s)[id]]
    BY DEF FoldRecords
<1> QED
    BY <1>5, <1>6 DEF out

LEMMA SomeIncrease ==
    ASSUME NEW lines \in Seq(LogLine), NEW at \in SUBSET Readable(lines), Increasing(lines)
    PROVE  Increasing(LinesAt(lines, at))
<1> DEFINE out == LinesAt(lines, at)
<1>1. PICK f : Picks(f, out, lines, at) /\ Readable(out) = 1..Len(out)
    BY PickedReadable
<1> HIDE DEF out
<1>2. ASSUME NEW i \in Readable(out), NEW j \in Readable(out), i < j
      PROVE  out[i].seq < out[j].seq
  <2>1. f[i] < f[j] /\ f[i] \in at /\ f[j] \in at /\ out[i] = lines[f[i]] /\ out[j] = lines[f[j]]
    BY <1>1, <1>2 DEF Picks
  <2> QED
    BY <2>1 DEF Increasing
<1> QED
    BY <1>2 DEF Increasing, out

\* Lines the snapshot is past, or at, do not move the watermark.
LEMMA WatermarkOfSome ==
    ASSUME NEW lines \in Seq(LogLine), NEW s \in Stored, NEW at \in SUBSET Readable(lines),
           TailOf(lines, s) \subseteq at
    PROVE  FoldWatermark(LinesAt(lines, at), s) = FoldWatermark(lines, s)
<1> DEFINE out == LinesAt(lines, at)
           n == FoldWatermark(lines, s)
<1>1. PICK f : /\ Picks(f, out, lines, at)
               /\ out \in Seq(LogLine) /\ Readable(out) = 1..Len(out)
    BY PickedReadable
<1>2. /\ n \in SeqsOf(lines, s) /\ SnapSeq(s) <= n /\ n \in Nat /\ SnapSeq(s) \in Nat
      /\ \A i \in Readable(lines) : lines[i].seq <= n
    BY WatermarkIs, SnapSeqType
<1> HIDE DEF out, n
<1>3. \A k \in Readable(out) : out[k].seq <= n
    BY <1>1, <1>2 DEF Picks
<1>4. n \in SeqsOf(out, s)
  <2>1. CASE n = SnapSeq(s)
    BY <2>1 DEF SeqsOf
  <2>2. CASE n # SnapSeq(s)
    <3>1. PICK i \in Readable(lines) : lines[i].seq = n
      BY <1>2, <2>2 DEF SeqsOf
    <3>2. i \in at
      BY <1>2, <2>2, <3>1 DEF TailOf
    <3>3. PICK k \in 1..Len(out) : f[k] = i /\ out[k] = lines[i]
      BY <1>1, <3>2 DEF Picks
    <3> QED
      BY <1>1, <3>1, <3>3 DEF SeqsOf
  <2> QED
    BY <2>1, <2>2
<1> QED
    BY <1>1, <1>2, <1>3, <1>4, WatermarkOf DEF out, n

\* A snapshot ahead of every event is the board.
LEMMA FoldOfNone ==
    ASSUME NEW lines \in Seq(LogLine), NEW s \in Snapshot, \A i \in Readable(lines) : lines[i].seq <= s.seq
    PROVE  FoldRecords(lines, s) = s.records
<1>1. s # NoSnapshot /\ SnapSeq(s) = s.seq /\ s.seq \in Nat
    BY MarkerAssumption, BoundAssumption DEF SnapSeq, Snapshot
<1>2. ASSUME NEW id \in Ids PROVE FoldRecords(lines, s)[id] = s.records[id]
  <2>1. Touching(lines, s, id) = {}
    <3>1. \A i \in Readable(lines) : lines[i].seq \in Nat /\ ~(lines[i].seq > SnapSeq(s))
      BY <1>1, ReadableShape, EventShape
    <3> QED
      BY <3>1 DEF Touching, TailOf
  <2> QED
    BY <1>1, <2>1, FoldUntouched DEF Below
<1>3. FoldRecords(lines, s) = [id \in Ids |-> FoldRecords(lines, s)[id]] /\ s.records \in [Ids -> Slot]
    BY DEF FoldRecords, Snapshot, Records
<1> QED
    BY <1>2, <1>3

\* Two snapshots of one seq that agree on a record fold to the same one.
LEMMA FoldOfAgreeing ==
    ASSUME NEW lines, NEW s \in Snapshot, NEW t \in Snapshot, s.seq = t.seq,
           NEW id \in Ids, s.records[id] = t.records[id]
    PROVE  FoldRecords(lines, s)[id] = FoldRecords(lines, t)[id]
<1>1. /\ SnapSeq(s) = SnapSeq(t) /\ s # NoSnapshot /\ t # NoSnapshot
    BY MarkerAssumption DEF SnapSeq
<1> QED
    BY <1>1 DEF FoldRecords

\* A later snapshot changes no record that an event after it touches.
LEMMA FoldOfLater ==
    ASSUME NEW lines \in Seq(LogLine), Increasing(lines), NEW s \in Stored, NEW later \in Snapshot,
           SnapSeq(s) <= later.seq, NEW id \in Ids
    PROVE  FoldRecords(lines, later)[id] \in {later.records[id], FoldRecords(lines, s)[id]}
<1>1. /\ later # NoSnapshot /\ SnapSeq(later) = later.seq /\ later.seq \in Nat
      /\ SnapSeq(s) \in Nat
    BY MarkerAssumption, BoundAssumption, SnapSeqType DEF SnapSeq, Snapshot
<1>2. CASE Touching(lines, later, id) = {}
    BY <1>1, <1>2, FoldUntouched DEF Below
<1>3. CASE Touching(lines, later, id) # {}
  <2>1. PICK n \in Touching(lines, later, id) :
          /\ \A i \in Touching(lines, later, id) : i <= n
          /\ FoldRecords(lines, later)[id] = lines[n].diff[id].to
    BY <1>3, LastTouch
  <2>2. /\ n \in Readable(lines) /\ lines[n].seq > later.seq /\ id \in DOMAIN lines[n].diff
        /\ lines[n].seq \in Nat /\ n \in Nat
    BY <1>1, ReadableShape, EventShape DEF Touching, TailOf
  <2>3. n \in Touching(lines, s, id)
    <3>1. lines[n].seq > SnapSeq(s)
      BY <1>1, <2>2
    <3> QED
      BY <2>2, <3>1 DEF Touching, TailOf
  <2>4. ASSUME NEW i \in Touching(lines, s, id) PROVE i <= n
    <3>1. i \in Readable(lines) /\ i \in Nat /\ lines[i].seq \in Nat /\ id \in DOMAIN lines[i].diff
      BY ReadableShape, EventShape DEF Touching, TailOf
    <3>2. CASE lines[i].seq > later.seq
      BY <1>1, <2>1, <3>1, <3>2 DEF Touching, TailOf
    <3>3. CASE ~(lines[i].seq > later.seq)
      <4>1. ~(n < i)
        BY <1>1, <2>2, <3>1, <3>3 DEF Increasing
      <4> QED
        BY <2>2, <3>1, <4>1
    <3> QED
      BY <3>2, <3>3
  <2> QED
    BY <2>1, <2>3, <2>4, FoldTouched
<1> QED
    BY <1>2, <1>3

\* A snapshot that is behind the newest event leaves the watermark where it was.
LEMMA WatermarkOfBehind ==
    ASSUME NEW lines \in Seq(LogLine), NEW s \in Stored, NEW later \in Stored,
           SnapSeq(s) <= SnapSeq(later), SnapSeq(later) <= FoldWatermark(lines, s)
    PROVE  FoldWatermark(lines, later) = FoldWatermark(lines, s)
<1> DEFINE n == FoldWatermark(lines, s)
<1>1. n \in SeqsOf(lines, s) /\ n \in Nat /\ \A i \in Readable(lines) : lines[i].seq <= n
    BY WatermarkIs
<1> HIDE DEF n
<1>2. SnapSeq(s) \in Nat /\ SnapSeq(later) \in Nat /\ SnapSeq(later) <= n
    BY SnapSeqType DEF n
<1>3. n \in SeqsOf(lines, later)
    BY <1>1, <1>2 DEF SeqsOf
<1> QED
    BY <1>1, <1>2, <1>3, WatermarkOf DEF n

\* One that is ahead becomes the watermark.
LEMMA WatermarkOfAhead ==
    ASSUME NEW lines \in Seq(LogLine), NEW s \in Stored, NEW later \in Stored,
           SnapSeq(later) >= FoldWatermark(lines, s)
    PROVE  FoldWatermark(lines, later) = SnapSeq(later)
<1>1. SnapSeq(later) \in Nat /\ FoldWatermark(lines, s) \in Nat
    BY SnapSeqType, WatermarkIs
<1>2. \A i \in Readable(lines) : lines[i].seq <= SnapSeq(later)
    BY <1>1, WatermarkIs, ReadableShape, EventShape
<1>3. SnapSeq(later) \in SeqsOf(lines, later)
    BY DEF SeqsOf
<1> QED
    BY <1>1, <1>2, <1>3, WatermarkOf

LEMMA AppendIncreases ==
    ASSUME NEW lines \in Seq(LogLine), NEW e \in Event, Increasing(lines),
           \A i \in Readable(lines) : lines[i].seq < e.seq
    PROVE  Increasing(Append(lines, e))
<1> DEFINE longer == Append(lines, e)
           last == Len(lines) + 1
<1>1. e \in LogLine /\ e # Torn /\ longer[last] = e
    BY AppendedLine, MarkerAssumption DEF LogLine
<1>2. /\ Readable(longer) = Readable(lines) \cup {last}
      /\ \A i \in Readable(lines) : longer[i] = lines[i] /\ i < last
      /\ last \in Nat
    BY <1>1, AppendedReadable, ReadableShape
<1> HIDE DEF longer, last
<1>3. ASSUME NEW i \in Readable(longer), NEW j \in Readable(longer), i < j
      PROVE  longer[i].seq < longer[j].seq
  <2>1. i \in Readable(lines)
    <3>1. j \in Nat /\ j <= last
      BY <1>2, ReadableShape
    <3>2. i # last
      BY <1>2, <1>3, <3>1
    <3> QED
      BY <1>2, <3>2
  <2>2. CASE j = last
    BY <2>1, <2>2, <1>1, <1>2
  <2>3. CASE j # last
    BY <2>1, <2>3, <1>2, <1>3 DEF Increasing
  <2> QED
    BY <2>2, <2>3
<1> QED
    BY <1>3 DEF Increasing, longer

LEMMA AppendIsNewest ==
    ASSUME NEW lines \in Seq(LogLine), NEW e \in Event,
           \A i \in Readable(lines) : lines[i].seq < e.seq
    PROVE  \A i \in Readable(Append(lines, e)) : Append(lines, e)[i].seq <= e.seq
<1> DEFINE longer == Append(lines, e)
           last == Len(lines) + 1
<1>1. e \in LogLine /\ e # Torn /\ longer[last] = e
    BY AppendedLine, MarkerAssumption DEF LogLine
<1>2. /\ Readable(longer) = Readable(lines) \cup {last}
      /\ \A i \in Readable(lines) : longer[i] = lines[i]
    BY <1>1, AppendedReadable
<1>3. e.seq \in Nat /\ \A i \in Readable(lines) : lines[i].seq \in Nat
    BY ReadableShape, EventShape
<1> HIDE DEF longer, last
<1>4. \A i \in Readable(longer) : longer[i].seq <= e.seq
    BY <1>1, <1>2, <1>3
<1> QED
    BY <1>4 DEF longer

LEMMA TornIncreases ==
    ASSUME NEW lines \in Seq(LogLine), Increasing(lines)
    PROVE  Increasing(Append(lines, Torn))
BY AppendedReadable DEF Increasing, LogLine

\* A log of one line is in order.
LEMMA OneLineIncreases ==
    ASSUME NEW lines \in Seq(LogLine), Len(lines) <= 1
    PROVE  Increasing(lines)
<1>1. \A i, j \in Readable(lines) : ~(i < j)
    BY ReadableShape
<1> QED
    BY <1>1 DEF Increasing

\* A later log or snapshot that has something as new as all of an earlier one.
LEMMA WatermarkGrows ==
    ASSUME NEW lines \in Seq(LogLine), NEW s \in Stored, NEW lines2 \in Seq(LogLine), NEW s2 \in Stored,
           SnapSeq(s) <= SnapSeq(s2),
           \A i \in Readable(lines) : \/ lines[i].seq <= SnapSeq(s2)
                                      \/ \E j \in Readable(lines2) : lines2[j].seq = lines[i].seq
    PROVE  FoldWatermark(lines, s) <= FoldWatermark(lines2, s2)
<1>1. /\ FoldWatermark(lines, s) \in SeqsOf(lines, s)
      /\ FoldWatermark(lines, s) \in Nat /\ FoldWatermark(lines2, s2) \in Nat
      /\ SnapSeq(s2) <= FoldWatermark(lines2, s2) /\ SnapSeq(s2) \in Nat /\ SnapSeq(s) \in Nat
      /\ \A j \in Readable(lines2) : lines2[j].seq <= FoldWatermark(lines2, s2)
    BY WatermarkIs, SnapSeqType
<1>2. CASE FoldWatermark(lines, s) = SnapSeq(s)
    BY <1>1, <1>2
<1>3. ASSUME NEW i \in Readable(lines), FoldWatermark(lines, s) = lines[i].seq
      PROVE  FoldWatermark(lines, s) <= FoldWatermark(lines2, s2)
    BY <1>1, <1>3
<1> QED
    BY <1>1, <1>2, <1>3 DEF SeqsOf

-----------------------------------------------------------------------------
(***************************************************************************)
(* Types.                                                                  *)
(***************************************************************************)
LEMMA RingType ==
    ASSUME NEW ring \in Seq(Recorded), NEW id \in EventIds, NEW n \in 1..MaxSeq
    PROVE  Remember(ring, id, n) \in Seq(Recorded)
<1> DEFINE new == [id |-> id, seq |-> n]
           longer == Append(ring, new)
<1>1. new \in Recorded
    BY DEF Recorded
<1>2. longer \in Seq(Recorded) /\ longer # <<>>
    BY <1>1, AppendProperties
<1>3. Tail(longer) \in Seq(Recorded)
    BY <1>2, HeadTailProperties
<1> QED
    BY <1>2, <1>3 DEF Remember

LEMMA HydratedType ==
    ASSUME NEW lines \in Seq(LogLine), NEW s \in Stored
    PROVE  /\ hydrateEntry(lines, s) \in Entry
           /\ hydrateEntry(lines, s).store = FoldRecords(lines, s)
           /\ hydrateEntry(lines, s).watermark = FoldWatermark(lines, s)
<1>1. <<>> \in Seq(Recorded)
    OBVIOUS
<1> QED
    BY <1>1, FoldType, WatermarkIs DEF hydrateEntry, Entry

LEMMA EngineType ==
    ASSUME EngineTypeOK
    PROVE  /\ Engine \in Entry
           /\ Engine.store \in Records /\ Engine.watermark \in 0..MaxSeq
           /\ Engine.ring \in Seq(Recorded)
<1>1. log \in Seq(LogLine) /\ snap \in Stored
    BY DEF EngineTypeOK, LogLine, Stored
<1>2. Engine \in Entry
    BY <1>1, HydratedType DEF Engine, EngineTypeOK
<1> QED
    BY <1>2 DEF Entry

LEMMA AppendType ==
    ASSUME EngineTypeOK, NEW e \in LogLine, appendBoardEvent(e)
    PROVE  log' \in Seq(LogLine)
BY AppendedLine DEF EngineTypeOK, appendBoardEvent, LogLine

LEMMA InterruptedType ==
    ASSUME EngineTypeOK, AppendInterrupted
    PROVE  log' \in Seq(LogLine)
BY AppendType DEF AppendInterrupted, EngineTypeOK, LogLine

\* What a command appends is an event, and its transaction leaves what its diff says.
LEMMA CommandEvent ==
    ASSUME EngineTypeOK, NEW w \in Writes, Engine.watermark + 1 <= MaxSeq
    PROVE  LET d == build(touch(emptyDiff, Engine.store, w))
               e == [id |-> NoId, seq |-> Engine.watermark + 1, diff |-> d]
           IN  /\ e \in Event /\ e \in LogLine
               /\ applyDiff(Engine.store, d) = write(Engine.store, w)
               /\ write(Engine.store, w) \in Records
<1> DEFINE d == build(touch(emptyDiff, Engine.store, w))
           n == Engine.watermark + 1
           e == [id |-> NoId, seq |-> n, diff |-> d]
<1>1. d \in Diffs /\ applyDiff(Engine.store, d) = write(Engine.store, w)
    BY EngineType, TransactionDiffExact
<1>2. n \in 1..MaxSeq
    BY EngineType, BoundAssumption
<1> HIDE DEF d, n
<1>3. e \in Event
    BY <1>1, <1>2 DEF Event
<1>4. write(Engine.store, w) \in Records
    BY EngineType, RecordsType
<1> QED
    BY <1>1, <1>3, <1>4 DEF LogLine, d, n

LEMMA TabEvent ==
    ASSUME EngineTypeOK, NEW id \in EventIds, NEW d \in Diffs, Engine.watermark + 1 <= MaxSeq
    PROVE  LET e == [id |-> id, seq |-> Engine.watermark + 1, diff |-> d]
           IN  /\ e \in Event /\ e \in LogLine
               /\ applyDiff(Engine.store, d) \in Records
               /\ Engine.watermark + 1 \in 1..MaxSeq
<1> DEFINE n == Engine.watermark + 1
<1>1. n \in 1..MaxSeq
    BY EngineType, BoundAssumption
<1>2. applyDiff(Engine.store, d) \in Records
    BY EngineType, RecordsType
<1> HIDE DEF n
<1>3. [id |-> id, seq |-> n, diff |-> d] \in Event
    BY <1>1 DEF Event
<1> QED
    BY <1>1, <1>2, <1>3 DEF LogLine, n

LEMMA EntryType ==
    ASSUME NEW store \in Records, NEW n \in 0..MaxSeq, NEW ring \in Seq(Recorded)
    PROVE  [store |-> store, watermark |-> n, ring |-> ring] \in Entry
BY DEF Entry

EngineParts ==
    /\ log \in Seq(LogLine)
    /\ snap \in Stored
    /\ entry \in Entry \cup {NoEntry}
    /\ lastCut \in 0..MaxSeq \cup {NoCut}

\* The type invariant, read with the names of this module, now and after a step.
LEMMA EngineTypesAreParts ==
    (EngineTypeOK <=> EngineParts) /\ (EngineTypeOK' <=> EngineParts')
BY DEF EngineTypeOK, EngineParts, LogLine, Stored

\* What a request, a failure or a restart does to a board that is neither imported nor reset.
EngineStep ==
    \/ \E w \in Writes : CommitCommand(w)
    \/ CommandFails
    \/ \E id \in EventIds, d \in Diffs, foldThrows \in BOOLEAN : AppendTabEvent(id, d, foldThrows)
    \/ \E id \in EventIds : TabEventFails(id)
    \/ \E s \in Snapshot : SaveSnapshot(s)
    \/ Boot \/ Read \/ Restart
    \/ UNCHANGED engineVars

\* The files and the entry stay what they are, whoever asks for what.
LEMMA EngineStepTyped ==
    ASSUME EngineTypeOK, EngineStep
    PROVE  EngineTypeOK'
<1> USE EngineTypesAreParts DEF EngineParts
<1>1. ASSUME NEW w \in Writes, CommitCommand(w) PROVE EngineTypeOK'
  <2> DEFINE d == build(touch(emptyDiff, Engine.store, w))
             n == Engine.watermark + 1
             e == [id |-> NoId, seq |-> n, diff |-> d]
  <2>1. n <= MaxSeq /\ appendBoardEvent(e) /\ UNCHANGED <<snap, lastCut>>
    BY <1>1 DEF CommitCommand
  <2>2. entry' = [store |-> write(Engine.store, w), watermark |-> n, ring |-> Engine.ring]
    BY <1>1 DEF CommitCommand
  <2>3. e \in LogLine /\ write(Engine.store, w) \in Records
    BY <2>1, CommandEvent
  <2>4. log' \in Seq(LogLine)
    BY <2>1, <2>3, AppendType
  <2>5. n \in 0..MaxSeq
    BY <2>1, EngineType, BoundAssumption
  <2> HIDE DEF n, d
  <2>6. entry' \in Entry
    BY <2>2, <2>3, <2>5, EngineType, EntryType
  <2> QED
    BY <2>1, <2>4, <2>6
<1>2. ASSUME NEW id \in EventIds, NEW d \in Diffs, NEW foldThrows \in BOOLEAN,
             AppendTabEvent(id, d, foldThrows)
      PROVE  EngineTypeOK'
  <2> DEFINE n == Engine.watermark + 1
             e == [id |-> id, seq |-> n, diff |-> d]
  <2>1. n <= MaxSeq /\ appendBoardEvent(e) /\ UNCHANGED <<snap, lastCut>>
    BY <1>2 DEF AppendTabEvent
  <2>2. entry' = IF foldThrows THEN NoEntry
                 ELSE [store |-> applyDiff(Engine.store, d), watermark |-> n,
                       ring |-> Remember(Engine.ring, id, n)]
    BY <1>2 DEF AppendTabEvent
  <2>3. e \in LogLine /\ applyDiff(Engine.store, d) \in Records /\ n \in 1..MaxSeq
    BY <2>1, TabEvent
  <2>4. log' \in Seq(LogLine)
    BY <2>1, <2>3, AppendType
  <2>5. n \in 0..MaxSeq /\ Remember(Engine.ring, id, n) \in Seq(Recorded)
    <3>1. n \in 0..MaxSeq
      BY <2>3, BoundAssumption
    <3> HIDE DEF n
    <3>2. Remember(Engine.ring, id, n) \in Seq(Recorded)
      BY <2>3, EngineType, RingType
    <3> QED
      BY <3>1, <3>2
  <2> HIDE DEF n
  <2>6. entry' \in Entry \cup {NoEntry}
    BY <2>2, <2>3, <2>5, EntryType
  <2> QED
    BY <2>1, <2>4, <2>6
<1>3. ASSUME CommandFails PROVE EngineTypeOK'
    BY <1>3, InterruptedType DEF CommandFails
<1>4. ASSUME NEW id \in EventIds, TabEventFails(id) PROVE EngineTypeOK'
    BY <1>4, InterruptedType, EngineType DEF TabEventFails
<1>5. ASSUME NEW s \in Snapshot, SaveSnapshot(s) PROVE EngineTypeOK'
    BY <1>5, HydratedType DEF SaveSnapshot, Stored
<1>6. ASSUME Boot PROVE EngineTypeOK'
  <2>1. snap # NoSnapshot => snap.seq \in 0..MaxSeq
    BY DEF Stored, Snapshot
  <2>2. LinesAt(log, {i \in Readable(log) : ~Droppable(log[i])}) \in Seq(LogLine)
    BY PickedReadable
  <2>3. lastCut' \in 0..MaxSeq \cup {NoCut} /\ log' \in Seq(LogLine)
    BY <1>6, <2>1, <2>2 DEF Boot, compactBoardEvents
  <2> QED
    BY <1>6, <2>3 DEF Boot
<1>7. ASSUME Read PROVE EngineTypeOK'
    BY <1>7, EngineType DEF Read, files
<1>8. ASSUME Restart PROVE EngineTypeOK'
    BY <1>8, InterruptedType DEF Restart
<1>9. ASSUME UNCHANGED engineVars PROVE EngineTypeOK'
    BY <1>9 DEF engineVars
<1> HIDE EngineTypesAreParts DEF EngineParts
<1> QED
    BY <1>1, <1>2, <1>3, <1>4, <1>5, <1>6, <1>7, <1>8, <1>9 DEF EngineStep
=============================================================================
