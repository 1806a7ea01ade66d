----------------------------- MODULE DataProofs ----------------------------
(***************************************************************************)
(* What the other proofs keep needing: laws of the diff algebra, for every *)
(* set of ids and records; the lines of a file that is read whole; and     *)
(* sequences that repeat nothing.                                          *)
(***************************************************************************)
EXTENDS RecordsDiff, LogLines, Integers, SequencesExt, WellFoundedInduction, SequenceTheorems, TLAPS

-----------------------------------------------------------------------------
(***************************************************************************)
(* The diff algebra.                                                       *)
(***************************************************************************)
\* The empty diff is both an empty buffer and an empty diff.
LEMMA EmptyDiffType == emptyDiff \in Buffers /\ emptyDiff \in Diffs
<1>1. emptyDiff \in [{} -> Touch] /\ emptyDiff \in [{} -> Change]
  BY DEF emptyDiff
<1>2. {} \in SUBSET Ids
  OBVIOUS
<1> QED
  BY <1>1, <1>2 DEF Buffers, Diffs

\* A buffer, read pointwise: the shape every other lemma uses.
LEMMA BufferShape ==
    ASSUME NEW buf \in Buffers
    PROVE  /\ DOMAIN buf \subseteq Ids
           /\ \A id \in DOMAIN buf : buf[id] \in Touch
           /\ \A id \in DOMAIN buf : buf[id].from \in Slot /\ buf[id].to \in Slot
<1>1. PICK S \in SUBSET Ids : buf \in [S -> Touch]
  BY DEF Buffers
<1> QED
  BY <1>1 DEF Touch

\* A diff, read pointwise: its entries really change something.
LEMMA DiffShape ==
    ASSUME NEW d \in Diffs
    PROVE  /\ DOMAIN d \subseteq Ids
           /\ \A id \in DOMAIN d : d[id].from \in Slot /\ d[id].to \in Slot
           /\ \A id \in DOMAIN d : d[id].from # d[id].to
<1>1. PICK S \in SUBSET Ids : d \in [S -> Change]
  BY DEF Diffs
<1> QED
  BY <1>1 DEF Change, Touch

\* Writes, read pointwise.
LEMMA WriteShape ==
    ASSUME NEW w \in Writes
    PROVE  DOMAIN w \subseteq Ids /\ \A id \in DOMAIN w : w[id] \in Slot
<1>1. PICK S \in SUBSET Ids : w \in [S -> Slot]
  BY DEF Writes
<1> QED
  BY <1>1

\* touch keeps a buffer a buffer.
LEMMA TouchType ==
    ASSUME NEW buf \in Buffers, NEW records \in Records, NEW w \in Writes
    PROVE  touch(buf, records, w) \in Buffers
<1> DEFINE S == DOMAIN buf \cup DOMAIN w
<1>1. S \in SUBSET Ids
  BY BufferShape, WriteShape
<1>2. ASSUME NEW id \in S
      PROVE  [from |-> IF id \in DOMAIN buf THEN buf[id].from ELSE records[id],
              to   |-> IF id \in DOMAIN w THEN w[id] ELSE buf[id].to] \in Touch
  BY <1>1, <1>2, BufferShape, WriteShape DEF Touch, Records
<1>3. touch(buf, records, w) \in [S -> Touch]
  BY <1>2 DEF touch
<1> QED
  BY <1>1, <1>3 DEF Buffers

\* What build makes of a buffer is a diff over the ids that changed.
LEMMA BuildType ==
    ASSUME NEW buf \in Buffers
    PROVE  /\ build(buf) \in Diffs
           /\ DOMAIN build(buf) = {id \in DOMAIN buf : buf[id].from # buf[id].to}
           /\ \A id \in DOMAIN build(buf) : build(buf)[id] = buf[id]
<1> DEFINE S == {id \in DOMAIN buf : buf[id].from # buf[id].to}
<1>1. S \in SUBSET Ids
  BY BufferShape
<1>2. \A id \in S : buf[id] \in Change
  BY BufferShape DEF Change
<1>3. build(buf) \in [S -> Change]
  BY <1>2 DEF build
<1>4. build(buf) \in Diffs
  BY <1>1, <1>3 DEF Diffs
<1> QED
  BY <1>4 DEF build

\* Writing and applying keep records records.
LEMMA RecordsType ==
    ASSUME NEW records \in Records
    PROVE  /\ \A w \in Writes : write(records, w) \in Records
           /\ \A d \in Diffs : applyDiff(records, d) \in Records
<1>1. ASSUME NEW w \in Writes PROVE write(records, w) \in Records
  BY WriteShape DEF write, Records
<1>2. ASSUME NEW d \in Diffs PROVE applyDiff(records, d) \in Records
  BY DiffShape DEF applyDiff, Records
<1> QED
  BY <1>1, <1>2

\* The right-hand sides of a diff are writes.
LEMMA TargetsType ==
    ASSUME NEW d \in Diffs
    PROVE  targets(d) \in Writes
<1>1. DOMAIN d \in SUBSET Ids
  BY DiffShape
<1>2. targets(d) \in [DOMAIN d -> Slot]
  BY DiffShape DEF targets
<1> QED
  BY <1>1, <1>2 DEF Writes

\* Inverting a diff gives a diff over the same ids.
LEMMA InvertType ==
    ASSUME NEW d \in Diffs
    PROVE  invertDiff(d) \in Diffs
<1>1. DOMAIN d \in SUBSET Ids
  BY DiffShape
<1>2. ASSUME NEW id \in DOMAIN d
      PROVE  [from |-> d[id].to, to |-> d[id].from] \in Change
  BY DiffShape DEF Change, Touch
<1>3. invertDiff(d) \in [DOMAIN d -> Change]
  BY <1>2 DEF invertDiff
<1> QED
  BY <1>1, <1>3 DEF Diffs

-----------------------------------------------------------------------------
(***************************************************************************)
(* invertDiff undoes the diff (diff.ts:24-33): on the records a diff was   *)
(* made from, applying it and then its inverse changes nothing.            *)
(***************************************************************************)
THEOREM InverseUndoes ==
    ASSUME NEW records \in Records, NEW d \in Diffs, BasedOn(d, records)
    PROVE  /\ applyDiff(applyDiff(records, d), invertDiff(d)) = records
           /\ invertDiff(invertDiff(d)) = d
<1>1. ASSUME NEW id \in Ids
      PROVE  applyDiff(applyDiff(records, d), invertDiff(d))[id] = records[id]
  BY DEF applyDiff, invertDiff, BasedOn
<1>2. applyDiff(applyDiff(records, d), invertDiff(d)) \in [Ids -> Slot]
  BY RecordsType, InvertType DEF Records
<1>3. applyDiff(applyDiff(records, d), invertDiff(d)) = records
  BY <1>1, <1>2 DEF Records
<1>4. PICK S \in SUBSET Ids : d \in [S -> Change]
  BY DEF Diffs
<1>5. invertDiff(invertDiff(d)) = [id \in DOMAIN d |-> [from |-> d[id].from, to |-> d[id].to]]
  BY DEF invertDiff
<1>6. \A id \in DOMAIN d : d[id] = [from |-> d[id].from, to |-> d[id].to]
  BY <1>4 DEF Change, Touch
<1>7. invertDiff(invertDiff(d)) = d
  BY <1>4, <1>5, <1>6
<1> QED
  BY <1>3, <1>7

(***************************************************************************)
(* One transaction's diff is exact (store.ts:76-97): it is based on the    *)
(* records before the transaction and applying it to them gives what the   *)
(* transaction left.                                                       *)
(***************************************************************************)
THEOREM TransactionDiffExact ==
    ASSUME NEW records \in Records, NEW w \in Writes
    PROVE  LET d == build(touch(emptyDiff, records, w))
           IN  /\ d \in Diffs
               /\ BasedOn(d, records)
               /\ applyDiff(records, d) = write(records, w)
<1> DEFINE b == touch(emptyDiff, records, w)
           d == build(b)
<1>1. b \in Buffers
  BY EmptyDiffType, TouchType
<1>2. DOMAIN emptyDiff = {}
  BY DEF emptyDiff
<1>3. DOMAIN b = DOMAIN w /\ \A id \in DOMAIN w : b[id] = [from |-> records[id], to |-> w[id]]
  BY <1>2 DEF touch
<1>4. /\ d \in Diffs
      /\ DOMAIN d = {id \in DOMAIN b : b[id].from # b[id].to}
      /\ \A id \in DOMAIN d : d[id] = b[id]
  <2> HIDE DEF b
  <2> QED
    BY <1>1, BuildType
<1> HIDE DEF b, d
<1>5. /\ DOMAIN d = {id \in DOMAIN w : records[id] # w[id]}
      /\ \A id \in DOMAIN d : d[id].from = records[id] /\ d[id].to = w[id]
  BY <1>3, <1>4
<1>6. BasedOn(d, records)
  BY <1>5 DEF BasedOn
<1>7. applyDiff(records, d) = write(records, w)
  <2>1. ASSUME NEW id \in Ids
        PROVE  (IF id \in DOMAIN d THEN d[id].to ELSE records[id])
                 = (IF id \in DOMAIN w THEN w[id] ELSE records[id])
    BY <1>5
  <2> QED
    BY <2>1 DEF applyDiff, write
<1> QED
  BY <1>4, <1>6, <1>7 DEF b, d

(***************************************************************************)
(* squashDiffs loses nothing (diff.ts:72-81): squashing two consecutive    *)
(* diffs gives one diff, based where the first was, with their effect.     *)
(***************************************************************************)
THEOREM SquashComposes ==
    ASSUME NEW records \in Records, NEW d1 \in Diffs, NEW d2 \in Diffs,
           BasedOn(d1, records), BasedOn(d2, applyDiff(records, d1))
    PROVE  /\ squashDiffs(d1, d2) \in Diffs
           /\ BasedOn(squashDiffs(d1, d2), records)
           /\ applyDiff(records, squashDiffs(d1, d2)) = applyDiff(applyDiff(records, d1), d2)
<1> DEFINE S == DOMAIN d1 \cup DOMAIN d2
           buf == [id \in S |-> [from |-> IF id \in DOMAIN d1 THEN d1[id].from ELSE d2[id].from,
                                 to   |-> IF id \in DOMAIN d2 THEN d2[id].to ELSE d1[id].to]]
           sq == squashDiffs(d1, d2)
<1>1. S \in SUBSET Ids
  BY DiffShape
<1>2. \A id \in S : buf[id] \in Touch
  BY DiffShape DEF Touch
<1>3. buf \in [S -> Touch]
  BY <1>2
<1>4. buf \in Buffers
  BY <1>1, <1>3 DEF Buffers
<1>5. sq = build(buf)
  BY DEF squashDiffs
<1>6. /\ sq \in Diffs
      /\ DOMAIN sq = {id \in DOMAIN buf : buf[id].from # buf[id].to}
      /\ \A id \in DOMAIN sq : sq[id] = buf[id]
  <2> HIDE DEF buf, sq
  <2> QED
    BY <1>4, <1>5, BuildType
<1>7. ASSUME NEW id \in S PROVE buf[id].from = records[id]
  BY <1>1, DiffShape DEF BasedOn, applyDiff
<1>8. BasedOn(sq, records)
  BY <1>6, <1>7 DEF BasedOn
<1>9. ASSUME NEW id \in Ids
      PROVE  applyDiff(records, sq)[id] = applyDiff(applyDiff(records, d1), d2)[id]
  <2>1. id \in S => buf[id].to = IF id \in DOMAIN d2 THEN d2[id].to ELSE d1[id].to
    OBVIOUS
  <2>2. id \in S => buf[id].from = records[id]
    BY <1>7
  <2>3. id \in DOMAIN sq <=> id \in S /\ buf[id].from # buf[id].to
    BY <1>6
  <2>4. id \in DOMAIN sq => sq[id] = buf[id]
    BY <1>6
  <2>5. applyDiff(applyDiff(records, d1), d2)[id] =
          IF id \in DOMAIN d2 THEN d2[id].to
          ELSE IF id \in DOMAIN d1 THEN d1[id].to ELSE records[id]
    BY DEF applyDiff
  <2> HIDE DEF buf, sq
  <2>6. applyDiff(records, sq)[id] = IF id \in DOMAIN sq THEN sq[id].to ELSE records[id]
    BY DEF applyDiff
  <2> QED
    BY <2>1, <2>2, <2>3, <2>4, <2>5, <2>6
<1> HIDE DEF sq
<1>10. applyDiff(records, sq) \in [Ids -> Slot] /\ applyDiff(applyDiff(records, d1), d2) \in [Ids -> Slot]
  BY <1>6, RecordsType DEF Records
<1>11. applyDiff(records, sq) = applyDiff(applyDiff(records, d1), d2)
  BY <1>9, <1>10
<1> QED
  BY <1>6, <1>8, <1>11 DEF sq

-----------------------------------------------------------------------------
(***************************************************************************)
(* The lines of a file.                                                    *)
(***************************************************************************)
\* What induction rests on here: a set of naturals that is not empty has a least one.
LEMMA LeastNatural ==
    ASSUME NEW T \in SUBSET Nat, T # {}
    PROVE  \E x \in T : \A y \in T : x <= y
<1>1. PICK x \in T : \A y \in T : ~(<<y, x>> \in OpToRel(<, Nat))
    BY NatLessThanWellFounded, WFMin
<1>2. ASSUME NEW y \in T PROVE x <= y
  <2>1. <<y, x>> \in OpToRel(<, Nat) <=> y < x
    BY DEF OpToRel
  <2>2. ~(y < x)
    BY <2>1, <1>1
  <2> QED
    BY <2>2
<1> QED
    BY <1>2

\* A property of every natural, as a set: it holds at 0 and passes from each to the next.
LEMMA NaturalInduction ==
    ASSUME NEW P, 0 \in P, \A n \in Nat : n \in P => n + 1 \in P
    PROVE  \A n \in Nat : n \in P
<1> DEFINE T == {n \in Nat : n \notin P}
<1> SUFFICES ASSUME T # {} PROVE FALSE
    OBVIOUS
<1>1. PICK x \in T : \A y \in T : x <= y
    BY LeastNatural
<1>2. x # 0 /\ x - 1 \in Nat /\ x - 1 \notin T
    BY <1>1
<1> QED
    BY <1>1, <1>2

\* A bounded set of naturals that is not empty has a newest member.
LEMMA NewestIsLast ==
    ASSUME NEW T \in SUBSET Nat, NEW bound \in Nat, \A x \in T : x <= bound, T # {}
    PROVE  Newest(T) \in T /\ \A x \in T : x <= Newest(T)
<1> DEFINE below == {k \in Nat : bound - k \in T}
<1>1. PICK x : x \in T
    OBVIOUS
<1>2. ASSUME NEW y \in T PROVE y \in Nat /\ bound - y \in below
  <2>1. y \in Nat /\ y <= bound
    OBVIOUS
  <2>2. bound - y \in Nat /\ bound - (bound - y) = y
    BY <2>1
  <2> QED
    BY <2>1, <2>2
<1>3. PICK b \in below : \A y \in below : b <= y
  <2>1. below \in SUBSET Nat /\ below # {}
    BY <1>1, <1>2
  <2> QED
    BY <2>1, LeastNatural
<1>4. ASSUME NEW y \in T PROVE y <= bound - b
  <2>1. b <= bound - y /\ b \in Nat /\ y \in Nat
    BY <1>2, <1>3
  <2> QED
    BY <2>1
<1>5. bound - b \in T
    BY <1>3
<1> HIDE DEF below
<1> QED
    BY <1>4, <1>5 DEF Newest

\* The newest member, once it is known.
LEMMA NewestIs ==
    ASSUME NEW T \in SUBSET Nat, NEW n \in T, \A x \in T : x <= n
    PROVE  Newest(T) = n
<1>1. Newest(T) \in T /\ \A x \in T : x <= Newest(T)
    BY DEF Newest
<1>2. Newest(T) <= n /\ n <= Newest(T) /\ n \in Nat /\ Newest(T) \in Nat
    BY <1>1
<1> QED
    BY <1>2
-----------------------------------------------------------------------------
(***************************************************************************)
(* What LinesAt picks: the lines at those positions, each once, in order.  *)
(***************************************************************************)
\* One more line of the recursion.
Pick(sofar, lines, at, n) == IF n \in at THEN Append(sofar, lines[n]) ELSE sofar

\* g is the recursion up to line n.
UpTo(g, lines, at, n) ==
    g = [k \in 0..n |-> IF k = 0 THEN <<>> ELSE Pick(g[k - 1], lines, at, k)]

LEMMA UpToExists == \A lines, at : \A n \in Nat : \E g : UpTo(g, lines, at, n)
<1> SUFFICES ASSUME NEW lines, NEW at PROVE \A n \in Nat : \E g : UpTo(g, lines, at, n)
    OBVIOUS
<1> DEFINE P == {n \in Nat : \E g : UpTo(g, lines, at, n)}
<1>1. 0 \in P
  <2>1. UpTo([k \in 0..0 |-> <<>>], lines, at, 0)
    BY DEF UpTo
  <2> QED
    BY <2>1
<1>2. ASSUME NEW n \in Nat, n \in P PROVE n + 1 \in P
  <2>1. PICK g : UpTo(g, lines, at, n)
    BY <1>2
  <2> DEFINE h == [k \in 0..(n + 1) |-> IF k = n + 1 THEN Pick(g[n], lines, at, n + 1) ELSE g[k]]
  <2>2. ASSUME NEW k \in 0..(n + 1)
        PROVE  h[k] = IF k = 0 THEN <<>> ELSE Pick(h[k - 1], lines, at, k)
    <3>1. CASE k = n + 1
      <4>1. h[k] = Pick(g[n], lines, at, n + 1) /\ h[n] = g[n]
        BY <3>1
      <4> QED
        BY <3>1, <4>1
    <3>2. CASE k # n + 1
      <4>1. k \in 0..n /\ (k # 0 => k - 1 \in 0..n /\ k - 1 # n + 1)
        BY <3>2
      <4>2. h[k] = g[k] /\ (k # 0 => h[k - 1] = g[k - 1])
        BY <3>2, <4>1
      <4> QED
        BY <2>1, <4>1, <4>2 DEF UpTo
    <3> QED
      BY <3>1, <3>2
  <2>3. UpTo(h, lines, at, n + 1)
    <3>1. h = [k \in 0..(n + 1) |-> h[k]]
      OBVIOUS
    <3> HIDE DEF h
    <3> QED
      BY <2>2, <3>1 DEF UpTo
  <2> QED
    BY <2>3
<1> HIDE DEF P
<1>3. \A n \in Nat : n \in P
    BY <1>1, <1>2, NaturalInduction
<1> QED
    BY <1>3 DEF P

LEMMA LinesAtIsUpTo ==
    ASSUME NEW S, NEW lines \in Seq(S), NEW at
    PROVE  \E g : UpTo(g, lines, at, Len(lines)) /\ LinesAt(lines, at) = g[Len(lines)]
<1> DEFINE G == CHOOSE g : UpTo(g, lines, at, Len(lines))
<1>1. UpTo(G, lines, at, Len(lines))
  <2>1. Len(lines) \in Nat
    OBVIOUS
  <2> QED
    BY <2>1, UpToExists
<1>2. LinesAt(lines, at) = G[Len(lines)]
    BY DEF LinesAt, UpTo, Pick
<1> QED
    BY <1>1, <1>2

\* out is the lines at those positions: f says where each came from.
Picks(f, out, lines, at) ==
    /\ f \in [1..Len(out) -> at]
    /\ \A i, j \in 1..Len(out) : i < j => f[i] < f[j]
    /\ \A a \in at : \E k \in 1..Len(out) : f[k] = a
    /\ \A k \in 1..Len(out) : out[k] = lines[f[k]]

\* The positions up to line n.
First(at, n) == at \cap 1..n

LEMMA PickOneMore ==
    ASSUME NEW S, NEW lines \in Seq(S), NEW at, NEW m \in Nat, NEW n \in 1..Len(lines), n = m + 1,
           NEW out \in Seq(S), NEW f, Picks(f, out, lines, First(at, m))
    PROVE  /\ Pick(out, lines, at, n) \in Seq(S)
           /\ \E h : Picks(h, Pick(out, lines, at, n), lines, First(at, n))
<1>1. CASE n \notin at
  <2>1. Pick(out, lines, at, n) = out /\ First(at, n) = First(at, m)
    BY <1>1 DEF Pick, First
  <2> QED
    BY <2>1
<1>2. CASE n \in at
  <2> DEFINE new == Append(out, lines[n])
             h == [k \in 1..(Len(out) + 1) |-> IF k = Len(out) + 1 THEN n ELSE f[k]]
             now == First(at, n)
  <2>1. /\ lines[n] \in S /\ new \in Seq(S) /\ Len(new) = Len(out) + 1 /\ Len(out) \in Nat
        /\ \A k \in 1..Len(out) : new[k] = out[k]
        /\ new[Len(out) + 1] = lines[n]
    BY AppendProperties, LenProperties, ElementOfSeq
  <2>2. Pick(out, lines, at, n) = new
    BY <1>2 DEF Pick
  <2>3. \A k \in 1..Len(out) : k \in 1..(Len(out) + 1) /\ k # Len(out) + 1
    BY <2>1
  <2>4. ASSUME NEW k \in 1..Len(out)
        PROVE  h[k] = f[k] /\ f[k] \in at /\ f[k] \in 1..m /\ f[k] < n
    <3>1. f[k] \in at \cap 1..m
      BY DEF Picks, First
    <3> QED
      BY <2>3, <3>1
  <2>5. h[Len(out) + 1] = n /\ n \in now
    BY <1>2, <2>1 DEF First
  <2>6. ASSUME NEW k \in 1..(Len(out) + 1), k # Len(out) + 1 PROVE k \in 1..Len(out)
    BY <2>1, <2>6
  <2>7. h \in [1..(Len(out) + 1) -> now]
    <3>1. ASSUME NEW k \in 1..Len(out) PROVE h[k] \in now
      <4>1. f[k] \in 1..m
        BY <2>4
      <4>2. f[k] \in 1..n
        BY <4>1
      <4> QED
        BY <4>2, <2>4 DEF First
    <3>2. ASSUME NEW k \in 1..(Len(out) + 1) PROVE h[k] \in now
      <4> HIDE DEF h, now
      <4> QED
        BY <3>1, <2>5, <2>6
    <3> QED
      BY <3>2
  <2>8. ASSUME NEW i \in 1..(Len(out) + 1), NEW j \in 1..(Len(out) + 1), i < j
        PROVE  h[i] < h[j]
    <3>1. i \in 1..Len(out)
      BY <2>1, <2>8
    <3>2. CASE j = Len(out) + 1
      BY <3>1, <3>2, <2>4, <2>5
    <3>3. CASE j # Len(out) + 1
      BY <3>1, <3>3, <2>4, <2>6, <2>8 DEF Picks
    <3> QED
      BY <3>2, <3>3
  <2>9. ASSUME NEW a \in now PROVE \E k \in 1..(Len(out) + 1) : h[k] = a
    <3>1. CASE a = n
      BY <3>1, <2>1, <2>5
    <3>2. CASE a # n
      <4>1. a \in First(at, m)
        BY <3>2 DEF First
      <4>2. PICK k \in 1..Len(out) : f[k] = a
        BY <4>1 DEF Picks
      <4> QED
        BY <4>2, <2>3, <2>4
    <3> QED
      BY <3>1, <3>2
  <2>10. ASSUME NEW k \in 1..(Len(out) + 1) PROVE new[k] = lines[h[k]]
    <3>1. CASE k = Len(out) + 1
      BY <3>1, <2>1, <2>5
    <3>2. CASE k # Len(out) + 1
      BY <3>2, <2>1, <2>4, <2>6 DEF Picks
    <3> QED
      BY <3>1, <3>2
  <2> HIDE DEF new, h, now
  <2>11. Picks(h, new, lines, now)
    BY <2>1, <2>7, <2>8, <2>9, <2>10 DEF Picks
  <2> QED
    BY <2>1, <2>2, <2>11 DEF now
<1> QED
    BY <1>1, <1>2

\* The recursion up to line n has picked what it should.
PickedUpTo(S, lines, at, g, n) ==
    g[n] \in Seq(S) /\ \E f : Picks(f, g[n], lines, First(at, n))

LEMMA LinesAtPicks ==
    ASSUME NEW S, NEW lines \in Seq(S), NEW at \in SUBSET (1..Len(lines))
    PROVE  /\ LinesAt(lines, at) \in Seq(S)
           /\ \E f : Picks(f, LinesAt(lines, at), lines, at)
<1>1. PICK g : UpTo(g, lines, at, Len(lines)) /\ LinesAt(lines, at) = g[Len(lines)]
    BY LinesAtIsUpTo
<1> DEFINE P == {n \in Nat : n <= Len(lines) => PickedUpTo(S, lines, at, g, n)}
<1>2. Len(lines) \in Nat
    OBVIOUS
<1>3. 0 \in P
  <2>1. g[0] = <<>>
    BY <1>1, <1>2 DEF UpTo
  <2>2. <<>> \in Seq(S) /\ Len(<<>>) = 0 /\ 1..0 = {} /\ First(at, 0) = {}
    BY DEF First
  <2>3. Picks([k \in {} |-> 0], <<>>, lines, {})
    BY <2>2 DEF Picks
  <2> QED
    BY <2>1, <2>2, <2>3 DEF PickedUpTo
<1>4. ASSUME NEW m \in Nat, NEW n \in 1..Len(lines), n = m + 1, PickedUpTo(S, lines, at, g, m)
      PROVE  PickedUpTo(S, lines, at, g, n)
  <2>1. PICK f : Picks(f, g[m], lines, First(at, m)) /\ g[m] \in Seq(S)
    BY <1>4 DEF PickedUpTo
  <2>2. g[n] = Pick(g[m], lines, at, n)
    <3>1. n \in 0..Len(lines) /\ n # 0 /\ n - 1 = m
      BY <1>2, <1>4
    <3> QED
      BY <1>1, <3>1 DEF UpTo
  <2>3. g[n] \in Seq(S) /\ \E h : Picks(h, g[n], lines, First(at, n))
    BY <1>4, <2>1, <2>2, PickOneMore
  <2> QED
    BY <2>3 DEF PickedUpTo
<1>5. ASSUME NEW n \in Nat, n \in P PROVE n + 1 \in P
  <2>1. ASSUME n + 1 <= Len(lines) PROVE PickedUpTo(S, lines, at, g, n + 1)
    <3>1. n <= Len(lines) /\ n + 1 \in 1..Len(lines)
      BY <1>2, <2>1
    <3> QED
      BY <1>4, <1>5, <3>1
  <2> QED
    BY <2>1
<1>6. PickedUpTo(S, lines, at, g, Len(lines))
  <2> HIDE DEF P
  <2>1. \A n \in Nat : n \in P
    BY <1>3, <1>5, NaturalInduction
  <2> QED
    BY <1>2, <2>1 DEF P
<1>7. First(at, Len(lines)) = at
    BY DEF First
<1> QED
    BY <1>1, <1>6, <1>7 DEF PickedUpTo

-----------------------------------------------------------------------------
(***************************************************************************)
(* Sequences that repeat nothing.                                          *)
(***************************************************************************)
\* An element occurs at most once in a sequence.
Once(s, x) == \A i, j \in DOMAIN s : s[i] = x /\ s[j] = x => i = j

\* Appending adds one element to a sequence's range.
LEMMA AppendRange ==
    ASSUME NEW S, NEW s \in Seq(S), NEW e \in S
    PROVE  Append(s, e) \in Seq(S) /\ Range(Append(s, e)) = Range(s) \cup {e}
<1>1. DOMAIN s = 1..Len(s) /\ DOMAIN Append(s, e) = 1..(Len(s) + 1) /\ Len(s) \in Nat
  OBVIOUS
<1>2. \A i \in 1..Len(s) : Append(s, e)[i] = s[i]
  OBVIOUS
<1>3. Append(s, e)[Len(s) + 1] = e
  OBVIOUS
<1> QED
  BY <1>1, <1>2, <1>3 DEF Range

\* A sequence's range is its head and its tail's range.
LEMMA TailRange ==
    ASSUME NEW S, NEW s \in Seq(S), s # <<>>
    PROVE  /\ Head(s) \in S /\ Tail(s) \in Seq(S)
           /\ Range(s) = Range(Tail(s)) \cup {Head(s)}
<1>1. Len(s) \in Nat \ {0} /\ DOMAIN s = 1..Len(s) /\ DOMAIN Tail(s) = 1..(Len(s) - 1) /\ Head(s) = s[1]
  OBVIOUS
<1>2. \A i \in 1..(Len(s) - 1) : Tail(s)[i] = s[i + 1]
  OBVIOUS
<1>3. \A i \in 1..Len(s) : i = 1 \/ (i - 1 \in 1..(Len(s) - 1) /\ s[i] = Tail(s)[i - 1])
  BY <1>1, <1>2
<1>4. \A i \in 1..(Len(s) - 1) : i + 1 \in 1..Len(s)
  BY <1>1
<1>5. Head(s) \in S /\ Tail(s) \in Seq(S)
  OBVIOUS
<1>6. ASSUME NEW i \in 1..Len(s) PROVE s[i] \in Range(Tail(s)) \cup {Head(s)}
  <2>1. CASE i = 1
    BY <1>1, <2>1
  <2>2. CASE i # 1
    <3>1. i - 1 \in DOMAIN Tail(s) /\ s[i] = Tail(s)[i - 1]
      BY <1>1, <1>3, <2>2
    <3> QED
      BY <3>1 DEF Range
  <2> QED
    BY <2>1, <2>2
<1>7. ASSUME NEW i \in 1..(Len(s) - 1) PROVE Tail(s)[i] \in Range(s)
  <2>1. i + 1 \in DOMAIN s /\ Tail(s)[i] = s[i + 1]
    BY <1>1, <1>2, <1>4
  <2> QED
    BY <2>1 DEF Range
<1>8. Head(s) \in Range(s)
  BY <1>1 DEF Range
<1>9. Range(s) \subseteq Range(Tail(s)) \cup {Head(s)}
  BY <1>1, <1>6 DEF Range
<1>10. Range(Tail(s)) \subseteq Range(s)
  BY <1>1, <1>7 DEF Range
<1> QED
  BY <1>5, <1>8, <1>9, <1>10

\* Appending another element, or a new one, repeats nothing.
LEMMA AppendOnce ==
    ASSUME NEW S, NEW s \in Seq(S), NEW e \in S, NEW x, Once(s, x), x # e \/ x \notin Range(s)
    PROVE  Once(Append(s, e), x)
<1>1. DOMAIN s = 1..Len(s) /\ DOMAIN Append(s, e) = 1..(Len(s) + 1) /\ Len(s) \in Nat
  OBVIOUS
<1>2. \A i \in 1..Len(s) : Append(s, e)[i] = s[i]
  OBVIOUS
<1>3. Append(s, e)[Len(s) + 1] = e
  OBVIOUS
<1> SUFFICES ASSUME NEW i \in 1..(Len(s) + 1), NEW j \in 1..(Len(s) + 1),
                    Append(s, e)[i] = x, Append(s, e)[j] = x
             PROVE  i = j
  BY <1>1 DEF Once
<1>4. CASE x = e
  <2>1. \A k \in 1..Len(s) : s[k] # x
    BY <1>1, <1>4 DEF Range
  <2> QED
    BY <1>1, <1>2, <2>1
<1>5. CASE x # e
  <2>1. i \in 1..Len(s) /\ j \in 1..Len(s)
    BY <1>1, <1>3, <1>5
  <2> QED
    BY <1>1, <1>2, <2>1 DEF Once
<1> QED
  BY <1>4, <1>5

\* The tail of a sequence repeats nothing the sequence did not, and no longer holds its head.
LEMMA TailOnce ==
    ASSUME NEW S, NEW s \in Seq(S), s # <<>>, NEW x, Once(s, x)
    PROVE  Once(Tail(s), x) /\ (Head(s) = x => x \notin Range(Tail(s)))
<1>1. Len(s) \in Nat \ {0} /\ DOMAIN s = 1..Len(s) /\ DOMAIN Tail(s) = 1..(Len(s) - 1) /\ Head(s) = s[1]
  OBVIOUS
<1>2. \A i \in 1..(Len(s) - 1) : Tail(s)[i] = s[i + 1] /\ i + 1 \in 1..Len(s) /\ i + 1 # 1
  BY <1>1
<1>3. Once(Tail(s), x)
  BY <1>1, <1>2 DEF Once
<1>4. ASSUME Head(s) = x, NEW i \in 1..(Len(s) - 1), Tail(s)[i] = x PROVE FALSE
  BY <1>1, <1>2, <1>4 DEF Once
<1>5. Head(s) = x => x \notin Range(Tail(s))
  BY <1>1, <1>4 DEF Range
<1> QED
  BY <1>3, <1>5

\* The larger and the smaller of two numbers.
LEMMA LargerIs ==
    ASSUME NEW m \in Int, NEW n \in Int
    PROVE  Max({m, n}) = IF m >= n THEN m ELSE n
<1>1. Max({m, n}) \in {m, n} /\ \A y \in {m, n} : Max({m, n}) >= y
  <2>1. \E x \in {m, n} : \A y \in {m, n} : x >= y
    OBVIOUS
  <2> QED
    BY <2>1 DEF Max
<1> QED
  BY <1>1

LEMMA SmallerIs ==
    ASSUME NEW m \in Int, NEW n \in Int
    PROVE  Min({m, n}) = IF m <= n THEN m ELSE n
<1>1. Min({m, n}) \in {m, n} /\ \A y \in {m, n} : Min({m, n}) <= y
  <2>1. \E x \in {m, n} : \A y \in {m, n} : x <= y
    OBVIOUS
  <2> QED
    BY <2>1 DEF Min
<1> QED
  BY <1>1

\* A sequence that is not empty ends in an element: how a fact about every sequence is shown by its length.
LEMMA LastOfSeq ==
    ASSUME NEW S, NEW s \in Seq(S), NEW n \in Nat, Len(s) = n + 1
    PROVE  \E front \in Seq(S) : \E e \in S : s = Append(front, e) /\ Len(front) = n
<1> DEFINE front == SubSeq(s, 1, n)
           e == s[n + 1]
<1>1. front \in Seq(S) /\ Len(front) = n /\ \A i \in 1..n : front[i] = s[i]
  <2>1. 1 \in 1..(Len(s) + 1) /\ n \in 0..Len(s) /\ Len(s) \in Nat
    OBVIOUS
  <2> QED
    BY <2>1, SubSeqProperties
<1>2. e \in S
  BY ElementOfSeq
<1> HIDE DEF front, e
<1>3. Append(front, e) \in Seq(S) /\ Len(Append(front, e)) = n + 1
      /\ Append(front, e)[n + 1] = e /\ \A i \in 1..n : Append(front, e)[i] = front[i]
  BY <1>1, <1>2, AppendProperties
<1>4. \A i \in 1..Len(s) : s[i] = Append(front, e)[i]
  <2> SUFFICES ASSUME NEW i \in 1..Len(s) PROVE s[i] = Append(front, e)[i]
    OBVIOUS
  <2>1. CASE i = n + 1
    BY <2>1, <1>3 DEF e
  <2>2. CASE i # n + 1
    <3>1. i \in 1..n
      BY <2>2
    <3> QED
      BY <3>1, <1>1, <1>3
  <2> QED
    BY <2>1, <2>2
<1>5. s = Append(front, e)
  BY <1>3, <1>4, SeqEqual
<1> QED
  BY <1>1, <1>2, <1>5
=============================================================================
