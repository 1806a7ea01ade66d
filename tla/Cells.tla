------------------------------- MODULE Cells -------------------------------
(***************************************************************************)
(* The reactive runtime of the notebook cards (app/src/notebook-runtime.ts)*)
(* in one tab: the cells of the open cards, their scheduler (syncCells,    *)
(* markDirty, trigger, tick, startRun, afterRun), the shared worker and    *)
(* the page's own realm the cells run in, and the exports that carry       *)
(* values from a cell to those that read it, in its card and in others.    *)
(*                                                                         *)
(* Abstracted: a cell exports one name, its own; what it computes is       *)
(* Eval(source, inputs), or an error.  Re-exported imports, function       *)
(* closures, views and the outputs relayed to the server are left out.     *)
(***************************************************************************)
EXTENDS LogLines

CONSTANTS
    Books,          \* the notebook cards
    CellIds,
    CardOf,         \* the card a cell belongs to
    Texts,          \* what a card's file may say: a spec, or NoSpec, for each of its cells, and
                    \* whether its cells may run in the page
    Files,          \* data files that cells may read
    Contents,       \* what a data file may hold
    Values,         \* what cells compute
    Eval(_, _),     \* what a source computes from the values of what it reads
    Blank,          \* the source of an empty cell
    NoSpec, Undef,
    MaxCalls,       \* bounds the edits, openings and closings of cards, the Run buttons pressed
                    \* and the changes of data files
    MaxCrashes,     \* bounds the crashes of the worker
    MaxNested       \* bounds the calls the scheduler makes in one turn of the page

VARIABLES
    nb,             \* the runtime, and the data files it reads: see CellsTypeOK
    calls, crashes

cellVars == <<nb, calls, crashes>>

Of(k) == {c \in CellIds : CardOf[c] = k}
Specs == (UNION {{t.spec[c] : t \in Texts[k], c \in Of(k)} : k \in Books}) \ {NoSpec}
Programs == {s.src : s \in Specs} \ {Blank}
Readings == UNION {[s.reads -> Values \cup Contents \cup {Undef}] : s \in Specs}

ASSUME CellsAssumption ==
    /\ CardOf \in [CellIds -> Books]
    /\ \A k \in Books : \A t \in Texts[k] : DOMAIN t.spec = Of(k) /\ t.allow \in BOOLEAN
    /\ \A s \in Specs :
          /\ s.reads \subseteq CellIds \cup Files
          /\ s.policy \in {"auto", "manual", "debounced"} /\ s.dom \in BOOLEAN
    /\ \A src \in Programs, ins \in Readings : Eval(src, ins) \in Values
    /\ MaxNested \in Nat

\* What the pane shows (outputs), with the run that made it; a run in the worker or in the page.
Pane == [status : {"none", "ok", "error"}, running : BOOLEAN, stale : BOOLEAN,
         made : [src : Programs, ins : Readings] \cup {Undef}]
Job == [cell : CellIds, src : Programs, ins : Readings, main : BOOLEAN, current : BOOLEAN]

Runtime ==
    [open : SUBSET Books,
     allowed : SUBSET Books,                    \* mainRealmAllowed
     spec : [CellIds -> Specs \cup {NoSpec}],
     state : [CellIds -> {"idle", "queued", "running", "stale"}],
     out : [CellIds -> Pane],
     exports : [CellIds -> Values \cup {Undef}],
     timers : SUBSET CellIds,                   \* debounce timers
     redo : SUBSET CellIds,
     jobs : Seq(Job),
     missed : SUBSET CellIds,                   \* history: see MarkDirty and Trigger
     orphaned : BOOLEAN,                        \* history: the worker crashed
     content : [Files -> Contents]]             \* what each data file holds

CellsTypeOK == nb \in Runtime

NoPane == [status |-> "none", running |-> FALSE, stale |-> FALSE, made |-> Undef]

CellsInit ==
    /\ \E held \in [Files -> Contents] : nb =
            [open |-> {}, content |-> held, allowed |-> {}, spec |-> [c \in CellIds |-> NoSpec],
             state |-> [c \in CellIds |-> "idle"], out |-> [c \in CellIds |-> NoPane],
             exports |-> [c \in CellIds |-> Undef], timers |-> {}, redo |-> {}, jobs |-> <<>>,
             missed |-> {}, orphaned |-> FALSE]
    /\ calls = 0 /\ crashes = 0

(***************************************************************************)
(* The graph of a card, over the cells it has now.                         *)
(***************************************************************************)
Present(N, c) == N.spec[c] # NoSpec
Deps(N, c) == {d \in N.spec[c].reads \cap Of(CardOf[c]) : Present(N, d) /\ d # c}
Importers(N, x) == {c \in CellIds : Present(N, c) /\ x \in N.spec[c].reads /\ c # x}

\* The cells Kahn's peeling leaves: those in a cycle of their card, and those that depend on one.
Cyclic(N, k) ==
    UNION {X \in SUBSET {c \in Of(k) : Present(N, c)} : \A c \in X : Deps(N, c) \cap X # {}}

\* resolveInput: an export, undefined if its card is not open, or a file's text.
Input(N, x) ==
    IF x \in Files THEN N.content[x]
    ELSE IF CardOf[x] \in N.open /\ Present(N, x) THEN N.exports[x] ELSE Undef
InputsOf(N, c) == [x \in N.spec[c].reads |-> Input(N, x)]

(***************************************************************************)
(* The scheduler.  Its functions call each other on one thread: a function *)
(* here takes the runtime, what it was called with and the calls still to  *)
(* be made, and gives the runtime and the calls it leaves, its own first.  *)
(***************************************************************************)
Busy(N, c) == N.state[c] \in {"queued", "running"}
InFlight(N, c) == \E i \in DOMAIN N.jobs : N.jobs[i].cell = c /\ N.jobs[i].current
Ready(N, k) ==
    {c \in Of(k) : Present(N, c) /\ N.state[c] = "queued" /\ \A d \in Deps(N, c) : ~Busy(N, d)}

\* A cell with nothing to evaluate, or that wants the page while the notebook does not allow it.
Parked(N, c) == N.spec[c].src = Blank \/ (N.spec[c].dom /\ CardOf[c] \notin N.allowed)

Superseded(jobs, X) ==
    [i \in DOMAIN jobs |-> IF jobs[i].cell \in X THEN [jobs[i] EXCEPT !.current = FALSE] ELSE jobs[i]]

Do(op, of) == [op |-> op, of |-> of]
Left(N, todo) == [nb |-> N, todo |-> todo]

\* Make a cell run as soon as it is ready, or again when the run in flight returns.  A cell queued
\* with a run of its own in flight loses its turn to the reply: missed remembers it until it runs.
Trigger(N, c, rest) ==
    IF ~Present(N, c) \/ c \in Cyclic(N, CardOf[c]) THEN Left(N, rest)
    ELSE IF N.state[c] = "running"
    THEN Left([N EXCEPT !.timers = @ \ {c}, !.redo = @ \cup {c}], rest)
    ELSE Left([N EXCEPT !.timers = @ \ {c}, !.state[c] = "queued",
                        !.out[c] = [@ EXCEPT !.running = TRUE, !.stale = FALSE],
                        !.missed = IF InFlight(N, c) THEN @ \cup {c} ELSE @],
              <<Do("tick", CardOf[c])>> \o rest)

\* Dirty by policy: auto runs, manual waits for the button, debounced for its timer.  The stale mark
\* of a manual cell in flight is taken down by its reply: missed remembers it too.
MarkDirty(N, c, rest) ==
    IF ~Present(N, c) \/ c \in Cyclic(N, CardOf[c]) THEN Left(N, rest)
    ELSE IF N.spec[c].policy = "auto" THEN Trigger(N, c, rest)
    ELSE Left([N EXCEPT !.state[c] = IF @ = "running" THEN @ ELSE "stale",
                        !.out[c].stale = TRUE,
                        !.timers = IF N.spec[c].policy = "debounced" THEN @ \cup {c} ELSE @,
                        !.missed = IF N.spec[c].policy = "manual" /\ InFlight(N, c)
                                   THEN @ \cup {c} ELSE @],
              rest)

MarkNext(N, X, rest) ==
    IF X = {} THEN Left(N, rest)
    ELSE LET c == CHOOSE c \in X : TRUE IN MarkDirty(N, c, <<Do("mark", X \ {c})>> \o rest)

\* Faulty variant of Publish: the publication that reaches the cells of its own card only.
PublishLocally(N, c, v, rest) ==
    IF N.exports[c] = v THEN Left(N, rest)
    ELSE Left([N EXCEPT !.exports[c] = v], <<Do("mark", Importers(N, c) \cap Of(CardOf[c]))>> \o rest)

\* A changed export dirties the cells that read it, here and in the other open cards.
Publish(N, c, v, rest) ==
    IF N.exports[c] = v THEN Left(N, rest)
    ELSE Left([N EXCEPT !.exports[c] = v], <<Do("mark", Importers(N, c))>> \o rest)

StartRun(N, c, rest) ==
    IF Parked(N, c)
    THEN Publish([N EXCEPT !.state[c] = "idle", !.out[c] = NoPane], c, Undef,
                 <<Do("after", c)>> \o rest)
    ELSE Left([N EXCEPT !.state[c] = "running", !.out[c] = [@ EXCEPT !.running = TRUE, !.stale = FALSE],
                        !.missed = @ \ {c},
                        !.jobs = Append(Superseded(@, {c}),
                                        [cell |-> c, src |-> N.spec[c].src, ins |-> InputsOf(N, c),
                                         main |-> N.spec[c].dom, current |-> TRUE])],
              rest)

\* Start every queued cell whose producers have settled.
Tick(N, k, rest) ==
    IF k \notin N.open \/ Ready(N, k) = {} THEN Left(N, rest)
    ELSE StartRun(N, CHOOSE c \in Ready(N, k) : TRUE, <<Do("tick", k)>> \o rest)

\* Run again what was dirtied in flight, then go on.  (A superseded return takes the redo of the run
\* that superseded it.)
AfterRun(N, c, rest) ==
    IF c \in N.redo
    THEN Trigger([N EXCEPT !.redo = @ \ {c}, !.state[c] = "idle"], c, <<Do("tick", CardOf[c])>> \o rest)
    ELSE Left(N, <<Do("tick", CardOf[c])>> \o rest)

\* The rest of syncCells: cyclic cells are set aside, then what the new text concerns is dirty.
Relinked(N, sync, rest) ==
    LET cyclic == Cyclic(N, sync.card) IN
    Left([N EXCEPT !.state = [c \in CellIds |-> IF c \in cyclic THEN "idle" ELSE @[c]],
                   !.out = [c \in CellIds |-> IF c \in cyclic
                                              THEN [@[c] EXCEPT !.status = "error", !.running = FALSE,
                                                                !.stale = FALSE]
                                              ELSE @[c]],
                   !.missed = @ \cup {c \in cyclic : InFlight(N, c)}],
         <<Do("mark", sync.changed), Do("mark", sync.toggled), Do("mark", sync.waiting),
           Do("tick", sync.card)>> \o rest)

\* One call of those to be made, and all of them.
Made(N, call, rest) ==
    CASE call.op = "tick"   -> Tick(N, call.of, rest)
      [] call.op = "after"  -> AfterRun(N, call.of, rest)
      [] call.op = "mark"   -> MarkNext(N, call.of, rest)
      [] call.op = "relink" -> Relinked(N, call.of, rest)

MadeNext(left) == IF left.todo = <<>> THEN left ELSE Made(left.nb, Head(left.todo), Tail(left.todo))

Finished(N, todo) ==
    LET after[n \in 0..MaxNested] == IF n = 0 THEN Left(N, todo) ELSE MadeNext(after[n - 1])
    IN  after[MaxNested]

\* A turn of the page: a call of the runtime ends when every call it makes has.
Turn(N, todo) ==
    LET end == Finished(N, todo) IN end.todo = <<>> /\ nb' = end.nb

(***************************************************************************)
(* The calls the runtime gets.                                             *)
(***************************************************************************)

\* syncCells: the card's text is parsed again.  Cells that went lose everything but what redo holds.
\* (The code takes their exports one by one and tells the readers of each; a run that starts between
\* two of them is run again by the second.)
Parsed(N, k, text) ==
    LET gone == {c \in Of(k) : Present(N, c) /\ text.spec[c] = NoSpec} IN
    [N EXCEPT !.open = @ \cup {k},
              !.allowed = IF text.allow THEN @ \cup {k} ELSE @ \ {k},
              !.spec = [c \in CellIds |-> IF c \in Of(k) THEN text.spec[c] ELSE @[c]],
              !.timers = @ \ gone,
              !.state = [c \in CellIds |-> IF c \in gone THEN "idle" ELSE @[c]],
              !.out = [c \in CellIds |-> IF c \in gone THEN NoPane ELSE @[c]],
              !.exports = [c \in CellIds |-> IF c \in gone THEN Undef ELSE @[c]],
              !.jobs = Superseded(@, gone)]

\* Dirty are the readers of what went, then cells that are new, changed or rewired, those a change of
\* consent concerns, and those elsewhere that waited for the card.
Dirtied(N, M, k) ==
    [card |-> k,
     changed |-> {c \in Of(k) : Present(M, c) /\ (N.spec[c] # M.spec[c] \/ Deps(N, c) # Deps(M, c))},
     toggled |-> {c \in Of(k) : /\ k \in N.open /\ (k \in N.allowed) # (k \in M.allowed)
                                /\ Present(M, c) /\ M.spec[c].dom},
     waiting |-> IF k \in N.open THEN {} ELSE (UNION {Importers(M, c) : c \in Of(k)}) \ Of(k)]

Sync(k, text) ==
    LET M == Parsed(nb, k, text)
        dropped == {c \in Of(k) : ~Present(M, c) /\ nb.exports[c] # Undef}
    IN  /\ calls < MaxCalls /\ calls' = calls + 1
        /\ k \notin nb.open \/ (k \in nb.allowed) # text.allow \/ \E c \in Of(k) : nb.spec[c] # text.spec[c]
        /\ Turn(M, <<Do("mark", UNION {Importers(M, c) : c \in dropped}),
                     Do("relink", Dirtied(nb, M, k))>>)
        /\ UNCHANGED crashes

\* teardownNotebook: the card unmounts.  Its jobs in the worker are forgotten, those in the page are
\* answered to nobody; the readers of its exports are not told.
Teardown(k) ==
    /\ calls < MaxCalls /\ calls' = calls + 1
    /\ k \in nb.open
    /\ nb' = [nb EXCEPT !.open = @ \ {k}, !.allowed = @ \ {k}, !.timers = @ \ Of(k), !.redo = @ \ Of(k),
                        !.missed = @ \ Of(k),
                        !.spec = [c \in CellIds |-> IF c \in Of(k) THEN NoSpec ELSE @[c]],
                        !.state = [c \in CellIds |-> IF c \in Of(k) THEN "idle" ELSE @[c]],
                        !.out = [c \in CellIds |-> IF c \in Of(k) THEN NoPane ELSE @[c]],
                        !.exports = [c \in CellIds |-> IF c \in Of(k) THEN Undef ELSE @[c]],
                        !.jobs = Superseded(LinesAt(@, {i \in DOMAIN @ : CardOf[@[i].cell] # k \/ @[i].main}),
                                            Of(k))]
    /\ UNCHANGED crashes

\* runCell: the Run button, whatever the policy.
PressRun(c) ==
    /\ calls < MaxCalls /\ calls' = calls + 1
    /\ Present(nb, c)
    /\ LET run == Trigger(nb, c, <<>>) IN Turn(run.nb, run.todo)
    /\ UNCHANGED crashes

FileChanges(f, v) ==
    /\ calls < MaxCalls /\ calls' = calls + 1
    /\ nb.content[f] # v
    /\ Turn([nb EXCEPT !.content[f] = v], <<Do("mark", Importers(nb, f))>>)
    /\ UNCHANGED crashes

TimerFires(c) ==
    /\ c \in nb.timers
    /\ LET run == Trigger([nb EXCEPT !.timers = @ \ {c}], c, <<>>) IN Turn(run.nb, run.todo)
    /\ UNCHANGED <<calls, crashes>>

\* onReply and onMainReply: a run returns, in any order.  A superseded one only lets the scheduler go
\* on; a failed one leaves the export it had.
Returned(N, j, ok) ==
    LET M == [N EXCEPT !.state[j.cell] = "idle",
                       !.out[j.cell] = [status |-> IF ok THEN "ok" ELSE "error", running |-> FALSE,
                                        stale |-> FALSE,
                                        made |-> IF ok THEN [src |-> j.src, ins |-> j.ins] ELSE Undef]]
        then == <<Do("after", j.cell)>>
    IN  IF CardOf[j.cell] \notin N.open THEN Left(N, <<>>)
        ELSE IF ~j.current THEN Left(N, then)
        ELSE IF ok THEN Publish(M, j.cell, Eval(j.src, j.ins), then) ELSE Left(M, then)

Reply(i, ok) ==
    /\ LET back == Returned([nb EXCEPT !.jobs = LinesAt(@, DOMAIN @ \ {i})], nb.jobs[i], ok)
       IN  Turn(back.nb, back.todo)
    /\ UNCHANGED <<calls, crashes>>

\* worker.onerror: every job of the worker fails, and the scheduler is not called.
WorkerCrashes ==
    LET hit == {nb.jobs[i].cell : i \in {n \in DOMAIN nb.jobs : ~nb.jobs[n].main}} IN
    /\ crashes < MaxCrashes /\ crashes' = crashes + 1
    /\ hit # {}
    /\ nb' = [nb EXCEPT !.jobs = LinesAt(@, {i \in DOMAIN @ : @[i].main}),
                        !.state = [c \in CellIds |-> IF c \in hit THEN "idle" ELSE @[c]],
                        !.out = [c \in CellIds |-> IF c \in hit THEN [@[c] EXCEPT !.running = FALSE, !.status = "error"]
                                                   ELSE @[c]],
                        !.orphaned = TRUE]
    /\ UNCHANGED calls

CellsNext ==
    \/ \E k \in Books : Teardown(k) \/ \E t \in Texts[k] : Sync(k, t)
    \/ \E c \in CellIds : PressRun(c) \/ TimerFires(c)
    \/ \E f \in Files, v \in Contents : FileChanges(f, v)
    \/ \E i \in DOMAIN nb.jobs, ok \in BOOLEAN : Reply(i, ok)
    \/ WorkerCrashes

CellsSpec == CellsInit /\ [][CellsNext]_cellVars

(***************************************************************************)
(* Properties.                                                             *)
(***************************************************************************)
Acyclic(N, c) == Present(N, c) /\ c \notin Cyclic(N, CardOf[c])

\* What a run read is what its cell's source reads now: of the files and the cards that are open now
\* (what a card that closed had given is kept), and of itself aside (a cell that reads its own export
\* is not run again by it).
Fits(N, c, run) ==
    /\ run.src = N.spec[c].src
    /\ DOMAIN run.ins = N.spec[c].reads
    /\ \A x \in DOMAIN run.ins \ {c} :
          x \in Files \/ CardOf[x] \in N.open => run.ins[x] = Input(N, x)

\* A pane that shows a value with no stale mark, no spinner and no timer behind it shows what its
\* present source computes from what its inputs are now: no change of a cell, a card or a file is
\* lost on the way, however runs, edits and replies cross.  (A cell that is dirtied on its way to a
\* run is the exception: see missed.)
ShowsItsInputs ==
    \A c \in CellIds :
        /\ Acyclic(nb, c) /\ nb.out[c].status = "ok" /\ ~Busy(nb, c)
        /\ ~nb.out[c].stale /\ c \notin nb.timers \cup nb.missed
        => Fits(nb, c, nb.out[c].made)

\* While the worker lives nobody waits for nothing: where a cell is queued another of its card runs,
\* and where one runs a reply is on its way that is its own.
NobodyStranded ==
    \A c \in CellIds :
        /\ nb.state[c] = "queued" /\ ~nb.orphaned => \E d \in Of(CardOf[c]) : nb.state[d] = "running"
        /\ nb.state[c] = "running" => InFlight(nb, c)

\* A notebook's panes are current, and no cell waits for nobody.
CellsCurrent == ShowsItsInputs /\ NobodyStranded
=============================================================================
