---------------------------- MODULE Annotations ----------------------------
(***************************************************************************)
(* The annotations of one document: a ledger of events that is folded on   *)
(* every read, quotes that are found again in the document's present text, *)
(* suggestions that are spliced into it, questions whose answer wakes a    *)
(* worker (annotations.js, anchors.js, annotation-reanchor.js,             *)
(* doc-watch.js, routes/annotations.ts).                                   *)
(*                                                                         *)
(* A text is a sequence of words; positions count from 0, as in the code.  *)
(***************************************************************************)
EXTENDS Integers, Sequences, FiniteSets, FiniteSetsExt, SequencesExt, LogLines

CONSTANTS
    Annos,
    Questions,      \* those that are blocking questions
    Suggestions,    \* those that are suggestions; the others are notes
    Replacement,    \* suggestion -> the words it proposes
    Drafts,         \* texts the document may be given
    Preview,        \* MAX_BYTES, in words: what a read shows
    ContextLen,     \* CONTEXT_LEN, in words
    MaxTail,        \* MAX_ANNOTATION_LOG_BYTES, in events: what is read back of the ledger
    MaxEvents, MaxTextEdits, MaxQuote,  \* bounds: events written, edits of the document, words quoted
    NoText, NoAnno, NoSpan

Words == UNION {Range(d) : d \in Drafts \cup Range(Replacement)}
Anchors == [exact : Seq(Words) \ {<<>>}, offset : Nat, prefix : Seq(Words), suffix : Seq(Words)]
Decisions == {"none", "accepted", "rejected"}
AnnoRecords == [anchor : Anchors, resolved : BOOLEAN, answered : BOOLEAN, decision : Decisions]

ASSUME AnnotationAssumption ==
    /\ Questions \cup Suggestions \subseteq Annos /\ Questions \cap Suggestions = {}
    /\ Preview \in Nat /\ ContextLen \in Nat /\ MaxTail \in Nat /\ MaxEvents \in Nat
    /\ MaxTextEdits \in Nat /\ MaxQuote \in Nat
    /\ Drafts \subseteq Seq(Words) /\ Replacement \in [Suggestions -> Seq(Words)]
    /\ NoText \notin Seq(Words) /\ NoAnno \notin AnnoRecords /\ NoSpan \notin [from : Nat, to : Nat]

VARIABLES
    text,       \* the document, or NoText
    annoLog,     \* the events written
    askArmed,   \* whether the doc has its "ask" watcher
    edits,
    applied,    \* history: suggestion -> how often it was spliced in
    unrecorded, \* history: suggestions spliced in whose accept was not written
    forsaken,   \* history: the watcher was removed by hand or not written, or a question reopened without
    lingers     \* history: the watcher was bound by hand with no question open, or could not be removed

noteVars == <<text, annoLog, askArmed, edits, applied, unrecorded, forsaken, lingers>>
noteHistory == <<applied, unrecorded, forsaken, lingers>>

AnnotationsInit ==
    /\ text \in Drafts /\ annoLog = <<>> /\ askArmed = FALSE /\ edits = 0
    /\ applied = [a \in Suggestions |-> 0] /\ unrecorded = {} /\ forsaken = FALSE /\ lingers = FALSE

-----------------------------------------------------------------------------
(***************************************************************************)
(* Anchors.                                                                *)
(***************************************************************************)
Slice(s, from, to) == SubSeq(s, from + 1, to)

MakeAnchor(src, from, to) ==
    [exact |-> Slice(src, from, to), offset |-> from,
     prefix |-> Slice(src, Max({0, from - ContextLen}), from),
     suffix |-> Slice(src, to, Min({Len(src), to + ContextLen}))]

Spans(src) == {[from |-> i, to |-> j] : i \in 0..Len(src), j \in 1..Len(src)}
QuoteSpans(src) == {r \in Spans(src) : r.from < r.to}
ShortSpans(src) == {r \in QuoteSpans(src) : r.to - r.from <= MaxQuote}

\* How many words on either side of a span agree with the anchor's context.
ContextScore(src, r, anchor) ==
    Cardinality({k \in 1..Min({Len(anchor.prefix), r.from}) :
                    Slice(src, r.from - k, r.from) = Slice(anchor.prefix, Len(anchor.prefix) - k, Len(anchor.prefix))})
  + Cardinality({k \in 1..Min({Len(anchor.suffix), Len(src) - r.to}) :
                    Slice(src, r.to, r.to + k) = Slice(anchor.suffix, 0, k)})

Away(r, anchor) == IF r.from > anchor.offset THEN r.from - anchor.offset ELSE anchor.offset - r.from

\* The exact hit of the best context, the nearest of those, the first of those.
Nearer(q, r, src, anchor) ==
    \/ ContextScore(src, q, anchor) > ContextScore(src, r, anchor)
    \/ /\ ContextScore(src, q, anchor) = ContextScore(src, r, anchor)
       /\ Away(q, anchor) < Away(r, anchor) \/ (Away(q, anchor) = Away(r, anchor) /\ q.from < r.from)

\* Fuzzy hits: spans as long as the quote that share a word with it, or stand where its context does.
FuzzySpans(src, anchor) ==
    {r \in QuoteSpans(src) :
        /\ r.to - r.from = Len(anchor.exact)
        /\ \/ \E k \in 1..Len(anchor.exact) : src[r.from + k] = anchor.exact[k]
           \/ ContextScore(src, r, anchor) > 0}

\* The quote is still where it was.
StandsAt(src, anchor) == Slice(src, anchor.offset, Min({Len(src), anchor.offset + Len(anchor.exact)})) = anchor.exact

\* resolveAnchor: the spans an anchor may be found at, NoSpan for an orphan.  The quote where it was,
\* or else elsewhere; when it is nowhere, which fuzzy hit is near enough is left open.
Resolutions(src, anchor) ==
    LET hits == {r \in QuoteSpans(src) : Slice(src, r.from, r.to) = anchor.exact}
    IN  IF StandsAt(src, anchor) THEN {[from |-> anchor.offset, to |-> anchor.offset + Len(anchor.exact)]}
        ELSE IF hits # {} THEN {r \in hits : \A q \in hits : ~Nearer(q, r, src, anchor)}
        ELSE FuzzySpans(src, anchor) \cup {NoSpan}

\* readAnnotatedSource.
ShownText(s) == IF s = NoText THEN NoText ELSE Slice(s, 0, Min({Len(s), Preview}))

-----------------------------------------------------------------------------
(***************************************************************************)
(* The ledger.                                                             *)
(***************************************************************************)
Fresh(ev) == [anchor |-> ev.anchor, resolved |-> FALSE, answered |-> FALSE, decision |-> "none"]

\* What an event makes of its annotation; one that was not created is nothing, a second creation too.
Folded(a, ev) ==
    IF a = NoAnno THEN (IF ev.op = "create" THEN Fresh(ev) ELSE NoAnno)
    ELSE CASE ev.op = "answer"    -> [a EXCEPT !.answered = TRUE]
           [] ev.op = "resolve"   -> [a EXCEPT !.resolved = TRUE]
           [] ev.op = "reopen"    -> [a EXCEPT !.resolved = FALSE]
           [] ev.op = "accept"    -> [a EXCEPT !.resolved = TRUE, !.decision = "accepted"]
           [] ev.op = "reject"    -> [a EXCEPT !.resolved = TRUE, !.decision = "rejected"]
           [] ev.op = "reanchor"  -> [a EXCEPT !.anchor = ev.anchor]
           [] OTHER               -> a

\* readAnnotationLog: where the newest events begin, which are all that is read.
OldestRead(log) == Max({1, Len(log) - MaxTail + 1})

\* foldAnnotations, of the events from the first on.
FoldFrom(log, first) ==
    LET upTo[n \in 0..Len(log)] ==
            IF n < first THEN [a \in Annos |-> NoAnno]
            ELSE [upTo[n - 1] EXCEPT ![log[n].id] = Folded(@, log[n])]
    IN  upTo[Len(log)]

FoldAnnotations(log) == FoldFrom(log, OldestRead(log))

Notes == FoldAnnotations(annoLog)
Known(log) == LET notes == FoldAnnotations(log) IN {a \in Annos : notes[a] # NoAnno}
Open(log) == LET notes == FoldAnnotations(log) IN {a \in Annos : notes[a] # NoAnno /\ ~notes[a].resolved}
OpenQuestions(log) == Open(log) \cap Questions

AnnoEvents ==
    [op : {"answer", "resolve", "reopen", "accept", "reject"}, id : Annos]
        \cup [op : {"create", "reanchor"}, id : Annos, anchor : Anchors]
AnnoEvent(op, a) == [op |-> op, id |-> a]
AnchorEvent(op, a, anchor) == [op |-> op, id |-> a, anchor |-> anchor]

WriteLedger(log) == Len(log) <= MaxEvents /\ annoLog' = log
AppendEvent(ev) == WriteLedger(Append(annoLog, ev))

\* The open annotations whose quote is no longer where it was.
Drifted(log, src) ==
    LET notes == FoldAnnotations(log)
    IN  {a \in Annos : notes[a] # NoAnno /\ ~notes[a].resolved /\ ~StandsAt(src, notes[a].anchor)}

\* Faulty variant of Reminted: the new anchor keeps the old offset.
RemintedStale(src, r, anchor) == [MakeAnchor(src, r.from, r.to) EXCEPT !.offset = anchor.offset]

Reminted(src, r, anchor) == MakeAnchor(src, r.from, r.to)

\* The annotations are healed in the order of their creation, each that is found gets a fresh anchor.
Healed(log, src, found) ==
    LET created == LinesAt(log, {i \in DOMAIN log : log[i].op = "create" /\ log[i].id \in DOMAIN found
                                                    /\ found[log[i].id] # NoSpan})
        notes == FoldAnnotations(log)
        healing(a) == AnchorEvent("reanchor", a, Reminted(src, found[a], notes[a].anchor))
    IN  log \o [k \in DOMAIN created |-> healing(created[k].id)]

\* reanchorFile: the logs it may leave.
Reanchored(log, src) ==
    LET notes == FoldAnnotations(log)
        drifted == Drifted(log, src)
        may == [a \in drifted |-> Resolutions(src, notes[a].anchor)]
    IN  {Healed(log, src, found) :
            found \in {f \in [drifted -> UNION Range(may)] : \A a \in drifted : f[a] \in may[a]}}

-----------------------------------------------------------------------------
(***************************************************************************)
(* The document changes, and is read.                                      *)
(***************************************************************************)
\* By the Edit tool, an editor, git.
EditOnDisk(draft) ==
    /\ edits < MaxTextEdits /\ edits' = edits + 1 /\ draft # text /\ text' = draft
    /\ UNCHANGED <<annoLog, askArmed, noteHistory>>

\* handleFileWrite heals the annotations at once.
SaveText(draft) ==
    /\ edits < MaxTextEdits /\ edits' = edits + 1 /\ draft # NoText /\ text' = draft
    /\ \E log \in Reanchored(annoLog, draft) : WriteLedger(log)
    /\ UNCHANGED <<askArmed, noteHistory>>

\* handleAnnotationsRead heals them before it folds.
ReadAnnotations ==
    /\ text # NoText /\ UNCHANGED <<text, askArmed, edits, noteHistory>>
    /\ Drifted(annoLog, ShownText(text)) # {}
    /\ \E log \in Reanchored(annoLog, ShownText(text)) : WriteLedger(log)

-----------------------------------------------------------------------------
(***************************************************************************)
(* handleAnnotationsWrite.                                                 *)
(***************************************************************************)
\* A blocking question arms the doc's "ask" watcher. That its marker could not be written, or was left
\* cut short and reads as none, goes unnoticed.
Create(a) ==
    /\ \A i \in DOMAIN annoLog : annoLog[i].id # a
    /\ text # NoText
    /\ \E r \in ShortSpans(ShownText(text)) : AppendEvent(AnchorEvent("create", a, MakeAnchor(ShownText(text), r.from, r.to)))
    /\ IF a \in Questions THEN askArmed' \in BOOLEAN /\ forsaken' = ~askArmed' /\ lingers' = FALSE
       ELSE UNCHANGED <<askArmed, forsaken, lingers>>
    /\ UNCHANGED <<text, edits, applied, unrecorded>>

\* The answer wakes a worker for the doc if the watcher is armed (Seats).
Answer(a) ==
    /\ a \in Known(annoLog) \cap Questions /\ AppendEvent(AnnoEvent("answer", a))
    /\ UNCHANGED <<text, askArmed, edits, noteHistory>>

\* Faulty variant of StaysArmed: the watcher goes with the first question resolved.
NeverStaysArmed(log) == FALSE

\* Whether the watcher stays once an annotation is resolved: as long as a question is not.
StaysArmed(log) == OpenQuestions(log) # {}

\* The last question takes the watcher with it, unless its marker cannot be removed, which goes unnoticed.
Resolve(a) ==
    /\ a \in Known(annoLog) /\ AppendEvent(AnnoEvent("resolve", a))
    /\ IF StaysArmed(annoLog') THEN UNCHANGED <<askArmed, lingers>>
       ELSE askArmed' \in {FALSE, askArmed} /\ lingers' = askArmed'
    /\ UNCHANGED <<text, edits, applied, unrecorded, forsaken>>

\* A question that is reopened does not arm the watcher again.
Reopen(a) ==
    /\ a \in Known(annoLog) /\ AppendEvent(AnnoEvent("reopen", a))
    /\ forsaken' = (forsaken \/ (a \in Questions /\ ~askArmed))
    /\ UNCHANGED <<text, askArmed, edits, applied, unrecorded, lingers>>

ReanchorByHand(a) ==
    /\ a \in Known(annoLog) /\ text # NoText
    /\ \E r \in ShortSpans(text) : AppendEvent(AnchorEvent("reanchor", a, MakeAnchor(text, r.from, r.to)))
    /\ UNCHANGED <<text, askArmed, edits, noteHistory>>

\* Faulty variant of Undecided: a decided suggestion is decided again.
Decidable(a) == a \in Known(annoLog) \cap Suggestions

Undecided(a) == a \in Known(annoLog) \cap Suggestions /\ Notes[a].decision = "none"

\* The words the anchor is found at in what a reader is shown are replaced in the whole text, the accept
\* is written, the other anchors are healed; or the text is changed and the accept is not written.
Accept(a) ==
    /\ Undecided(a) /\ text # NoText
    /\ \E r \in Resolutions(ShownText(text), Notes[a].anchor) \ {NoSpan} :
           text' = Slice(text, 0, r.from) \o Replacement[a] \o Slice(text, r.to, Len(text))
    /\ applied' = [applied EXCEPT ![a] = @ + 1]
    /\ \/ /\ \E log \in Reanchored(Append(annoLog, AnnoEvent("accept", a)), text') : WriteLedger(log)
          /\ UNCHANGED unrecorded
       \/ unrecorded' = unrecorded \cup {a} /\ applied[a] = 0 /\ UNCHANGED annoLog
    /\ UNCHANGED <<askArmed, edits, forsaken, lingers>>

Reject(a) ==
    /\ Undecided(a) /\ AppendEvent(AnnoEvent("reject", a))
    /\ UNCHANGED <<text, askArmed, edits, noteHistory>>

\* unwatch of the "ask" role.
Unwatch ==
    /\ askArmed /\ text # NoText
    /\ askArmed' = FALSE /\ forsaken' = TRUE /\ lingers' = FALSE
    /\ UNCHANGED <<text, annoLog, edits, applied, unrecorded>>

\* watch by the "ask" role.
Watch ==
    /\ ~askArmed /\ text # NoText
    /\ askArmed' = TRUE /\ forsaken' = FALSE /\ lingers' = (OpenQuestions(annoLog) = {})
    /\ UNCHANGED <<text, annoLog, edits, applied, unrecorded>>

AnnotationsNext ==
    \/ \E draft \in Drafts \cup {NoText} : EditOnDisk(draft) \/ SaveText(draft)
    \/ ReadAnnotations \/ Unwatch \/ Watch
    \/ \E a \in Annos : \/ Create(a) \/ Answer(a) \/ Resolve(a) \/ Reopen(a)
                        \/ ReanchorByHand(a) \/ Accept(a) \/ Reject(a)

AnnotationsSpec == AnnotationsInit /\ [][AnnotationsNext]_noteVars

-----------------------------------------------------------------------------
AnnotationsTypeOK ==
    /\ text \in Seq(Words) \cup {NoText}
    /\ annoLog \in Seq(AnnoEvents) /\ Len(annoLog) <= MaxEvents
    /\ askArmed \in BOOLEAN /\ forsaken \in BOOLEAN /\ lingers \in BOOLEAN /\ edits \in 0..MaxTextEdits
    /\ applied \in [Suggestions -> 0..2] /\ unrecorded \subseteq Suggestions

\* What the ledger says is so.  A blocking question that is open has its watcher armed, whatever was
\* asked and resolved beside it, unless somebody disarmed it or reopened the question, or its marker
\* could not be written; and the watcher goes with the last of them, unless the tail that is read has
\* lost one, somebody bound it by hand or its marker could not be removed.  A suggestion is in the text
\* once if it was accepted and never otherwise, unless the accept could not be written.
LedgerTrue ==
    /\ OpenQuestions(annoLog) # {} => askArmed \/ forsaken
    /\ askArmed => OpenQuestions(annoLog) # {} \/ lingers \/ Len(annoLog) > MaxTail
    /\ \A a \in (Known(annoLog) \cap Suggestions) \ unrecorded :
           applied[a] = IF Notes[a].decision = "accepted" THEN 1 ELSE 0

\* Healing converges in one pass: after a read, an open annotation that does not stand where its anchor
\* says is one that the next read need not find, so it may write nothing: whatever has a verbatim hit
\* stands there.  Of a fuzzy match nearness is left open, and with it whether it is found again.
HealsAtOnce ==
    [][ReadAnnotations => \A a \in Drifted(annoLog', ShownText(text)) :
                              NoSpan \in Resolutions(ShownText(text), FoldAnnotations(annoLog')[a].anchor)]_noteVars
=============================================================================
