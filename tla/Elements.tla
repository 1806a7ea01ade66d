------------------------------ MODULE Elements -----------------------------
(***************************************************************************)
(* The element commands of core/src/commands.ts over the record store: a   *)
(* card is a node record and its layout record, a wire an edge record.     *)
(* One tab issues commands and undoes its own.  Another writer issues      *)
(* commands over its own records, which lag behind the tab's, and the tab  *)
(* applies their diffs as they come.                                       *)
(***************************************************************************)
EXTENDS RecordsDiff, Integers, SequencesExt

CONSTANTS
    Cards,      \* node ids
    Wires,      \* edge ids
    Looks,      \* what a node record says: its title, text, colour
    MaxZ,       \* bound: z values
    MaxActs     \* bound: commands the tab issues

layoutId(n) == <<"layout", n>>
Layouts == {layoutId(n) : n \in Cards}
layout(z) == <<"z", z>>
wire(m, n) == <<"wire", m, n>>

ASSUME ElementAssumption ==
    /\ Ids = Cards \cup Layouts \cup Wires
    /\ Cards \cap (Layouts \cup Wires) = {} /\ Layouts \cap Wires = {}
    /\ Vals = Looks \cup {layout(z) : z \in 0..MaxZ} \cup {wire(m, n) : m \in Cards, n \in Cards}
    /\ MaxActs \in Nat

VARIABLES
    store,   \* the tab's records
    acts,    \* its undo stack: inverses, the latest last
    redone,  \* its redo stack
    issued,  \* how many commands it has issued
    peer,    \* the other writer's records: the tab's of some moment, and its own commands since
    loose,   \* history: wires left without an end by an undo, by two writers, or drawn so
    revived  \* history: cards of which an update has put a removed record back

elementVars == <<store, acts, redone, issued, peer, loose, revived>>

ElementsInit ==
    /\ store = [id \in Ids |-> Absent] /\ peer = store
    /\ acts = <<>> /\ redone = <<>> /\ issued = 0
    /\ loose = {} /\ revived = {}

Placed(records) == {n \in Cards : records[layoutId(n)] # Absent}
zOf(records, n) == IF n \in Placed(records) THEN records[layoutId(n)][2] ELSE 0
Zs(records) == {zOf(records, n) : n \in Placed(records)}

\* One above the highest, from 0.
nextZ(records) ==
    IF Zs(records) = {} THEN 0 ELSE 1 + CHOOSE z \in Zs(records) : \A y \in Zs(records) : y <= z

Drawn(records) == {e \in Wires : records[e] # Absent}
Ends(records, e) == {records[e][2], records[e][3]}

-----------------------------------------------------------------------------
(***************************************************************************)
(* What each command writes over the records of its writer: the touched    *)
(* ids and their new values.                                               *)
(***************************************************************************)
\* addNode: node and layout in one put, over whatever the id held.
addNode(records, n, look) ==
    [id \in {n, layoutId(n)} |-> IF id = n THEN look ELSE layout(nextZ(records))]

\* Faulty variant of removeNode: the wires stay.
removeNodeOnly(records, n) == [id \in {n, layoutId(n)} |-> Absent]

\* removeNode: node, layout and every wire that touches the card.
removeNode(records, n) ==
    [id \in {n, layoutId(n)} \cup {e \in Drawn(records) : n \in Ends(records, e)} |-> Absent]

\* setTitle, setText, setColor, setName: an update of a record that is there.
setLook(records, n, look) == [id \in {m \in {n} : records[m] # Absent} |-> look]

\* The cards of S, lowest first, cards of one height in any order.
Stacked(records, S) ==
    CHOOSE q \in [1..Cardinality(S) -> S] :
        \A i, j \in DOMAIN q : i < j => q[i] # q[j] /\ zOf(records, q[i]) <= zOf(records, q[j])

\* bringToFront: raised above all others, in the order they were in.
bringToFront(records, S) ==
    [id \in {layoutId(n) : n \in S \cap Placed(records)} |->
        layout(nextZ(records) - 1 + CHOOSE i \in 1..Cardinality(S) : layoutId(Stacked(records, S)[i]) = id)]

\* addEdge does not look for its ends; removeEdge.
addEdge(e, m, n) == [id \in {e} |-> wire(m, n)]
removeEdge(e) == [id \in {e} |-> Absent]

\* Bound: the heights a run tells apart end at MaxZ.
Puts(records) ==
    {put \in {addNode(records, n, look) : n \in Cards, look \in Looks}
             \cup {setLook(records, n, look) : n \in Cards, look \in Looks}
             \cup {bringToFront(records, S) : S \in (SUBSET Cards) \ {{}}}
             \cup {addEdge(e, m, n) : e \in Wires, m \in Cards, n \in Cards} : Range(put) \subseteq Vals}

Removals(records) == {removeNode(records, n) : n \in Cards} \cup {removeEdge(e) : e \in Wires}

Commands(records) == Puts(records) \cup Removals(records)

\* The one diff of a command's transaction.
DiffOf(records, w) == build(touch(emptyDiff, records, w))

\* The wires of a store that miss an end.
Dangling(records) == {e \in Drawn(records) : \E n \in Ends(records, e) : records[n] = Absent}

\* applyDiffAsChange: what a diff adds or updates is put, whether the record is there or not.
Applied(d) == applyDiff(store, d)

\* The cards of which d updates a record that is gone.
Revives(d) ==
    {n \in Cards : \E id \in {n, layoutId(n)} \cap DOMAIN d :
        store[id] = Absent /\ d[id].from # Absent /\ d[id].to # Absent}

-----------------------------------------------------------------------------
\* The tab issues a command: one undo step if it changed anything.  A wire that dangles then was
\* drawn so by the command, or dangled before.
Command ==
    /\ issued < MaxActs /\ issued' = issued + 1
    /\ \E w \in Commands(store) :
        /\ store' = write(store, w)
        /\ loose' = (loose \cup DOMAIN w) \cap Dangling(store')
        /\ IF isEmptyDiff(DiffOf(store, w)) THEN UNCHANGED <<acts, redone>>
           ELSE acts' = Append(acts, invertDiff(DiffOf(store, w))) /\ redone' = <<>>
    /\ UNCHANGED <<peer, revived>>

\* The other writer's command reaches the tab, as the diff it was over that writer's records: never
\* undone here.  A wire that dangles then was drawn so, or the two writers knew different ones of it.
Remote ==
    /\ \E w \in Commands(peer) : LET d == DiffOf(peer, w) IN
        /\ store' = Applied(d) /\ peer' = write(peer, w)
        /\ loose' = (loose \cup DOMAIN d \cup {e \in Wires : peer[e] # store[e]}) \cap Dangling(store')
        /\ revived' = revived \cup Revives(d)
    /\ UNCHANGED <<acts, redone, issued>>

\* What the tab has done reaches the other writer.
PeerCatchesUp == peer' = store /\ UNCHANGED <<store, acts, redone, issued, loose, revived>>

\* An undo or a redo applies its diff to whatever the records are by now.
Step(d) ==
    /\ store' = Applied(d) /\ loose' = Dangling(store') /\ revived' = revived \cup Revives(d)
    /\ UNCHANGED <<issued, peer>>

Undo ==
    /\ acts # <<>> /\ Step(Last(acts))
    /\ acts' = Front(acts) /\ redone' = Append(redone, invertDiff(Last(acts)))

Redo ==
    /\ redone # <<>> /\ Step(Last(redone))
    /\ redone' = Front(redone) /\ acts' = Append(acts, invertDiff(Last(redone)))

ElementsNext == Command \/ Remote \/ PeerCatchesUp \/ Undo \/ Redo
ElementsSpec == ElementsInit /\ [][ElementsNext]_elementVars

-----------------------------------------------------------------------------
IsDiff(d) ==
    /\ DOMAIN d \subseteq Ids
    /\ \A id \in DOMAIN d : {d[id].from, d[id].to} \subseteq Vals \cup {Absent}

ElementsTypeOK ==
    /\ store \in Records /\ peer \in Records
    /\ \A i \in DOMAIN acts : IsDiff(acts[i])
    /\ \A i \in DOMAIN redone : IsDiff(redone[i])
    /\ issued \in 0..MaxActs /\ loose \subseteq Wires /\ revived \subseteq Cards

\* A card is whole or gone, whoever adds, removes, raises and undoes across whom and however far
\* apart the writers are: its node is never without a layout, nor a layout without its node, but of
\* a card of which an update has put a removed record back.  And only an undo, a wire drawn to a
\* missing card, or two writers of whom one did not know the wire, leave a wire without an end: no
\* removal of a card does that knows its wires.
ElementsWhole ==
    /\ \A n \in Cards \ revived : store[n] = Absent <=> store[layoutId(n)] = Absent
    /\ Dangling(store) \subseteq loose
=============================================================================
