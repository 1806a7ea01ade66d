------------------------------ MODULE MCParts ------------------------------
(***************************************************************************)
(* Thirteen parts of the program that share no state, each on an instance  *)
(* of its own: a behaviour runs one of them, chosen at its start, and      *)
(* leaves the others where they begin.                                     *)
(***************************************************************************)
EXTENDS Elements, ThreadLog, Seats, Requests, SessionHost, CodexTurns, Kernels, Tools, Cells,
        Supervisor, ShadowLedger, Annotations, FileCache

CONSTANTS
    c1, c2, e1, look, paint,    \* cards, a wire, looks
    human, s1, p1, p2, p3,      \* a thread's members and sends
    a, b, r1, d1,               \* sessions, a role, a document
    n1, n2, x1, x2, x3,         \* notebooks and runs
    h1, h2,                     \* presses of pinned cards
    k1, k2, u, v, w, f1,        \* notebook cards, their cells, a data file
    q1, q2, g1, word, other     \* annotations: two questions, a suggestion; words of a document

VARIABLE part

ElementIds == Cards \cup Layouts \cup Wires
ElementVals == Looks \cup {layout(z) : z \in 0..MaxZ} \cup {wire(m, n) : m \in Cards, n \in Cards}

SendAuthor == [p \in Sends |-> IF p = p2 THEN s1 ELSE human]
SendTagged == [p \in Sends |-> IF p = p1 THEN {s1} ELSE {}]

OneRole == [s \in Sids |-> r1]
RunNotebook == [r \in Runs |-> IF r = x3 THEN n2 ELSE n1]

\* u and v are cells of k1, w of k2 reads v.  k1 may say: a chain u, v over the data file; the same
\* with a debounced and a manual cell; a cycle; v alone, in the page and allowed to.
BookOf == [c \in CellIds |-> IF c = w THEN k2 ELSE k1]
CellSpec(src, reads, policy, dom) == [src |-> src, reads |-> reads, policy |-> policy, dom |-> dom]
BookText(spec, allow) == [spec |-> spec, allow |-> allow]
BookTexts ==
    [k \in Books |->
        IF k = k1
        THEN {BookText((u :> CellSpec(0, {f1}, "auto", FALSE))
                          @@ (v :> CellSpec(1, {u}, "auto", FALSE)), FALSE),
              BookText((u :> CellSpec(1, {f1}, "debounced", FALSE))
                          @@ (v :> CellSpec(1, {u}, "manual", FALSE)), FALSE),
              BookText((u :> CellSpec(0, {v}, "auto", FALSE))
                          @@ (v :> CellSpec(1, {u}, "auto", TRUE)), FALSE),
              BookText((u :> NoSpec) @@ (v :> CellSpec(1, {u}, "auto", TRUE)), TRUE)}
        ELSE {BookText(w :> CellSpec(0, {v}, "auto", FALSE), FALSE),
              BookText(w :> CellSpec(Blank, {v}, "auto", FALSE), FALSE)}]

\* What a cell computes: its source and the inputs that are 1, modulo 2.
Parity(src, ins) == (src + Cardinality({x \in DOMAIN ins : ins[x] = 1})) % 2

\* The suggestion replaces what it quotes by the other word, which the document may have once or twice.
DocDrafts == {<<word, other>>, <<other, word, other>>}
OtherWord == [g \in Suggestions |-> <<other>>]

PartsInit ==
    /\ part \in {"elements", "thread", "seats", "requests", "host", "codex", "kernels", "tools",
                 "cells", "supervisor", "ledger", "notes", "cache"}
    /\ ElementsInit /\ ThreadInit /\ SeatsInit /\ RequestInit /\ HostInit /\ CodexInit /\ KernelsInit
    /\ ToolsInit /\ CellsInit /\ nb.content[f1] = 0
    /\ SupervisorInit /\ LedgerInit /\ AnnotationsInit /\ FileCacheInit
    /\ (text = <<word, other>> \/ part = "notes") /\ onDisk.there

PartsNext ==
    /\ UNCHANGED part
    /\ \/ part = "elements" /\ ElementsNext
          /\ UNCHANGED <<threadVars, seatVars, requestVars, hostVars, codexVars, kernelVars,
                         toolVars, cellVars, supervisorVars, ledgerVars, noteVars, cacheVars>>
       \/ part = "thread" /\ ThreadNext
          /\ UNCHANGED <<elementVars, seatVars, requestVars, hostVars, codexVars, kernelVars,
                         toolVars, cellVars, supervisorVars, ledgerVars, noteVars, cacheVars>>
       \/ part = "seats" /\ SeatsNext
          /\ UNCHANGED <<elementVars, threadVars, requestVars, hostVars, codexVars, kernelVars,
                         toolVars, cellVars, supervisorVars, ledgerVars, noteVars, cacheVars>>
       \/ part = "requests" /\ RequestNext
          /\ UNCHANGED <<elementVars, threadVars, seatVars, hostVars, codexVars, kernelVars,
                         toolVars, cellVars, supervisorVars, ledgerVars, noteVars, cacheVars>>
       \/ part = "host" /\ HostNext
          /\ UNCHANGED <<elementVars, threadVars, seatVars, requestVars, codexVars, kernelVars,
                         toolVars, cellVars, supervisorVars, ledgerVars, noteVars, cacheVars>>
       \/ part = "codex" /\ CodexNext
          /\ UNCHANGED <<elementVars, threadVars, seatVars, requestVars, hostVars, kernelVars,
                         toolVars, cellVars, supervisorVars, ledgerVars, noteVars, cacheVars>>
       \/ part = "kernels" /\ KernelsNext
          /\ UNCHANGED <<elementVars, threadVars, seatVars, requestVars, hostVars, codexVars,
                         toolVars, cellVars, supervisorVars, ledgerVars, noteVars, cacheVars>>
       \/ part = "tools" /\ ToolsNext
          /\ UNCHANGED <<elementVars, threadVars, seatVars, requestVars, hostVars, codexVars,
                         kernelVars, cellVars, supervisorVars, ledgerVars, noteVars, cacheVars>>
       \/ part = "cells" /\ CellsNext
          /\ UNCHANGED <<elementVars, threadVars, seatVars, requestVars, hostVars, codexVars,
                         kernelVars, toolVars, supervisorVars, ledgerVars, noteVars, cacheVars>>
       \/ part = "supervisor" /\ SupervisorNext
          /\ UNCHANGED <<elementVars, threadVars, seatVars, requestVars, hostVars, codexVars,
                         kernelVars, toolVars, cellVars, ledgerVars, noteVars, cacheVars>>
       \/ part = "ledger" /\ LedgerNext
          /\ UNCHANGED <<elementVars, threadVars, seatVars, requestVars, hostVars, codexVars,
                         kernelVars, toolVars, cellVars, supervisorVars, noteVars, cacheVars>>
       \/ part = "notes" /\ AnnotationsNext
          /\ UNCHANGED <<elementVars, threadVars, seatVars, requestVars, hostVars, codexVars,
                         kernelVars, toolVars, cellVars, supervisorVars, ledgerVars, cacheVars>>
       \/ part = "cache" /\ FileCacheNext
          /\ UNCHANGED <<elementVars, threadVars, seatVars, requestVars, hostVars, codexVars,
                         kernelVars, toolVars, cellVars, supervisorVars, ledgerVars, noteVars>>

partVars == <<elementVars, threadVars, seatVars, requestVars, hostVars, codexVars, kernelVars,
              toolVars, cellVars, supervisorVars, ledgerVars, noteVars, cacheVars, part>>

PartsSpec == PartsInit /\ [][PartsNext]_partVars /\ RequestFairness /\ KernelFairness /\ SupervisorFairness

\* The type invariant of the part that runs.
TypesOK ==
    CASE part = "elements"   -> ElementsTypeOK
      [] part = "thread"     -> ThreadTypeOK
      [] part = "seats"      -> SeatsTypeOK
      [] part = "requests"   -> RequestTypeOK
      [] part = "host"       -> HostTypeOK
      [] part = "codex"      -> CodexTypeOK
      [] part = "kernels"    -> KernelsTypeOK
      [] part = "tools"      -> ToolsTypeOK
      [] part = "cells"      -> CellsTypeOK
      [] part = "supervisor" -> SupervisorTypeOK
      [] part = "ledger"     -> LedgerTypeOK
      [] part = "notes"      -> AnnotationsTypeOK
      [] part = "cache"      -> FileCacheTypeOK

\* Nobody waits for ever: every question asked of a person ends, and so does every run of a cell and
\* every teardown of the dev stack.
EverythingEnds == EveryQuestionEnds /\ EveryRunEnds /\ TeardownEnds
=============================================================================
