---------------------------- MODULE CodexTurns -----------------------------
(***************************************************************************)
(* One Codex session in the session host: writes that queue on the         *)
(* session's tail, the turn the router believes active, and the app-server *)
(* that starts, steers, interrupts and completes turns (session-host.js,   *)
(* codex-session-router.js, codex-app-server.js, codex-host-runtime.js).   *)
(*                                                                         *)
(* An answer resolves a promise whose continuation runs after the chunk    *)
(* the answer came in.                                                     *)
(***************************************************************************)
EXTENDS Integers, SequencesExt

CONSTANTS
    Inputs,         \* what the server writes to the session
    Interrupts,     \* those that are interrupts; the others are prompts
    MaxCodexSpawns, \* bound: spawns of the session
    MaxRpcTimeouts, \* bound: requests given up after 30 s
    NoRpc

\* Requests to the app-server, its answers to them, and its notifications.
Rpcs == [op : {"start", "prompt", "steer", "interrupt"}, write : Inputs \cup {NoRpc}, turn : Nat]
CodexMessages ==
    [op : {"answer"}, turn : Nat, rpc : Rpcs, ok : BOOLEAN]
        \cup [op : {"started", "completed"}, turn : Nat, rpc : {NoRpc}, ok : BOOLEAN]

ASSUME CodexAssumption ==
    /\ Interrupts \subseteq Inputs /\ MaxCodexSpawns \in Nat \ {0} /\ MaxRpcTimeouts \in Nat
    /\ NoRpc \notin Rpcs \cup CodexMessages

VARIABLES
    codexEntry,      \* codexSessions: "none", "spawning", "bound" or "dying"
    codexBusy,       \* entry.busy
    bound,      \* the router has the session
    activeTurn, \* the router's activeTurnId, 0 for none
    tail,       \* the writes chained on entry.tail, the head not begun
    awaited,    \* the request the head of the tail awaits
    due,        \* an answer whose continuation has not run
    rpcs,       \* requests the app-server has not served
    stream,       \* its answers and notifications
    turn,       \* the turn it is running, 0 for none
    turns,      \* how many it has started
    fate,       \* what became of each write
    spawned, timeouts,
    crossed     \* history: a notification overtook an answer's continuation, or a kill a spawn

router == <<codexEntry, codexBusy, bound, activeTurn>>
server == <<rpcs, stream, turn, turns>>
bounds == <<spawned, timeouts>>
codexVars == <<router, tail, awaited, due, server, fate, bounds, crossed>>

Rpc(op, w, t) == [op |-> op, write |-> w, turn |-> t]
Message(op, t, rpc, ok) == [op |-> op, turn |-> t, rpc |-> rpc, ok |-> ok]
Prompts == Inputs \ Interrupts

CodexInit ==
    /\ codexEntry = "none" /\ codexBusy = FALSE /\ bound = FALSE /\ activeTurn = 0
    /\ tail = <<>> /\ awaited = NoRpc /\ due = NoRpc
    /\ rpcs = <<>> /\ stream = <<>> /\ turn = 0 /\ turns = 0
    /\ fate = [w \in Inputs |-> "new"] /\ spawned = 0 /\ timeouts = 0
    /\ crossed = FALSE

\* The head of the tail has sent rpc and waits for its answer.
Await(rpc) == awaited' = rpc /\ rpcs' = Append(rpcs, rpc)

\* doCodexSpawn: the tail starts with the spawn itself.
SpawnCodex ==
    /\ codexEntry = "none" /\ ~bound /\ tail = <<>> /\ spawned < MaxCodexSpawns /\ spawned' = spawned + 1
    /\ codexEntry' = "spawning" /\ codexBusy' = FALSE
    /\ Await(Rpc("start", NoRpc, 0))
    /\ UNCHANGED <<bound, activeTurn, tail, due, stream, turn, turns, fate, timeouts, crossed>>

\* writeCodex: in the order they came, one at a time.
WriteCodex(w) ==
    /\ codexEntry # "none" /\ fate[w] = "new"
    /\ tail' = Append(tail, w) /\ fate' = [fate EXCEPT ![w] = "queued"]
    /\ UNCHANGED <<router, awaited, due, server, bounds, crossed>>

\* A write that threw: an error line, and the session counts as idle.
Fail(w) == codexBusy' = FALSE /\ fate' = [fate EXCEPT ![w] = "reported"] /\ UNCHANGED <<awaited, rpcs>>

\* applyCodexWrite of a prompt: it steers the turn of a busy session, else it starts one.
ApplyPrompt(w) ==
    IF ~bound \/ (codexBusy <=> activeTurn = 0) THEN Fail(w)
    ELSE /\ codexBusy' = TRUE /\ UNCHANGED fate
         /\ Await(IF codexBusy THEN Rpc("steer", w, activeTurn) ELSE Rpc("prompt", w, 0))

\* ... and of an interrupt.
ApplyInterrupt(w) ==
    IF ~bound \/ activeTurn = 0 THEN Fail(w)
    ELSE Await(Rpc("interrupt", w, activeTurn)) /\ UNCHANGED <<codexBusy, fate>>

\* The next write of the tail begins, the one before it being settled.
ApplyWrite ==
    /\ awaited = NoRpc /\ tail # <<>> /\ tail' = Tail(tail)
    /\ IF Head(tail) \in Prompts THEN ApplyPrompt(Head(tail)) ELSE ApplyInterrupt(Head(tail))
    /\ UNCHANGED <<codexEntry, bound, activeTurn, due, stream, turn, turns, bounds, crossed>>

-----------------------------------------------------------------------------
(***************************************************************************)
(* The app-server, as the host's code and its tests use it.                *)
(***************************************************************************)
\* It serves the next request: it answers, then notifies. It may refuse to start.
ServeRpc ==
    /\ rpcs # <<>> /\ rpcs' = Tail(rpcs)
    /\ LET r == Head(rpcs)
           Answer(ok, t) == Message("answer", t, r, ok)
       IN  \/ /\ r.op \in {"start", "prompt"}
              /\ stream' = Append(stream, Answer(FALSE, 0)) /\ UNCHANGED <<turn, turns>>
           \/ /\ r.op = "start"
              /\ stream' = Append(stream, Answer(TRUE, 0)) /\ UNCHANGED <<turn, turns>>
           \/ /\ r.op = "prompt" /\ turn = 0
              /\ turn' = turns + 1 /\ turns' = turns + 1
              /\ stream' = stream \o <<Answer(TRUE, turn'), Message("started", turn', NoRpc, TRUE)>>
           \/ /\ r.op \in {"steer", "interrupt"}
              /\ turn' = IF r.op = "interrupt" /\ turn = r.turn THEN 0 ELSE turn
              /\ stream' = Append(stream, Answer(turn = r.turn, turn)) \o
                     IF turn' # turn THEN <<Message("completed", turn, NoRpc, TRUE)>> ELSE <<>>
              /\ UNCHANGED turns
    /\ UNCHANGED <<router, tail, awaited, due, fate, bounds, crossed>>

\* A turn completes.
CompleteTurn ==
    /\ turn # 0 /\ turn' = 0
    /\ stream' = Append(stream, Message("completed", turn, NoRpc, TRUE))
    /\ UNCHANGED <<router, tail, awaited, due, rpcs, turns, fate, bounds, crossed>>

-----------------------------------------------------------------------------
\* receive, deliver, onCodexEvent: the next message. An answer nobody awaits is dropped.
ReceiveMessage ==
    /\ stream # <<>> /\ stream' = Tail(stream) /\ crossed' = (crossed \/ due # NoRpc)
    /\ LET m == Head(stream)
       IN  \/ /\ m.op = "answer" /\ due' = IF m.rpc = awaited THEN m ELSE due
              /\ UNCHANGED <<codexBusy, activeTurn>>
           \/ /\ m.op = "started" /\ UNCHANGED due
              /\ activeTurn' = IF bound THEN m.turn ELSE activeTurn
              /\ codexBusy' = IF codexEntry # "none" THEN TRUE ELSE codexBusy
           \/ /\ m.op = "completed" /\ UNCHANGED due
              /\ activeTurn' = IF bound THEN 0 ELSE activeTurn
              /\ codexBusy' = IF codexEntry # "none" THEN FALSE ELSE codexBusy
    /\ UNCHANGED <<codexEntry, bound, tail, awaited, rpcs, turn, turns, fate, bounds>>

\* Faulty variant of Settled: an answer of an error leaves the session busy.
SettledBusy(w, ok) == codexBusy' = codexBusy /\ fate' = [fate EXCEPT ![w] = IF ok THEN "delivered" ELSE "reported"]

\* What the awaiting write does with its answer.
Settled(w, ok) ==
    /\ codexBusy' = (codexBusy /\ ok)
    /\ fate' = [fate EXCEPT ![w] = IF ok THEN "delivered" ELSE "reported"]

\* The continuation of the request that was awaited.
Continue ==
    /\ due # NoRpc /\ due' = NoRpc /\ awaited' = NoRpc
    /\ LET r == due.rpc
       IN  \/ /\ r.op = "start" /\ bound' = due.ok
              /\ codexEntry' = IF ~due.ok THEN "none" ELSE IF codexEntry = "spawning" THEN "bound" ELSE codexEntry
              /\ UNCHANGED <<codexBusy, activeTurn, fate>>
           \/ /\ r.op = "prompt" /\ Settled(r.write, due.ok)
              /\ activeTurn' = IF due.ok THEN due.turn ELSE activeTurn
              /\ UNCHANGED <<codexEntry, bound>>
           \/ /\ r.op \in {"steer", "interrupt"} /\ Settled(r.write, due.ok)
              /\ UNCHANGED <<codexEntry, bound, activeTurn>>
    /\ UNCHANGED <<tail, server, bounds, crossed>>

\* The request's timer: given up, though the app-server may still serve it.
RpcTimesOut ==
    /\ awaited # NoRpc /\ awaited.op # "start" /\ due = NoRpc
    /\ timeouts < MaxRpcTimeouts /\ timeouts' = timeouts + 1
    /\ awaited' = NoRpc /\ Settled(awaited.write, FALSE)
    /\ UNCHANGED <<codexEntry, bound, activeTurn, tail, due, server, spawned, crossed>>

\* Every write still waiting is answered with an error line.
Drain == fate' = [w \in Inputs |-> IF fate[w] = "queued" THEN "reported" ELSE fate[w]]

\* kill: the turn is interrupted and the thread released, then the exit is recorded.
KillCodex ==
    /\ codexEntry # "none" /\ crossed' = (crossed \/ codexEntry = "spawning")
    /\ codexEntry' = "none" /\ bound' = FALSE /\ activeTurn' = 0 /\ codexBusy' = FALSE
    /\ tail' = <<>> /\ Drain
    /\ IF codexEntry = "bound"
       THEN awaited' = NoRpc /\ due' = NoRpc /\ rpcs' = <<>> /\ stream' = <<>> /\ turn' = 0
       ELSE UNCHANGED <<awaited, due, rpcs, stream, turn>>
    /\ UNCHANGED <<turns, bounds>>

\* The app-server exits: what was awaited is rejected, the session's exit is recorded.
AppServerExits ==
    /\ codexEntry # "none"
    /\ codexEntry' = "none" /\ bound' = FALSE /\ activeTurn' = 0 /\ codexBusy' = FALSE
    /\ tail' = <<>> /\ awaited' = NoRpc /\ due' = NoRpc /\ Drain
    /\ rpcs' = <<>> /\ stream' = <<>> /\ turn' = 0
    /\ UNCHANGED <<turns, bounds, crossed>>

CodexNext ==
    \/ SpawnCodex \/ ApplyWrite \/ ServeRpc \/ CompleteTurn \/ ReceiveMessage \/ Continue
    \/ RpcTimesOut \/ KillCodex \/ AppServerExits
    \/ \E w \in Inputs : WriteCodex(w)

CodexSpec == CodexInit /\ [][CodexNext]_codexVars

CodexTypeOK ==
    /\ codexEntry \in {"none", "spawning", "bound"} /\ codexBusy \in BOOLEAN /\ bound \in BOOLEAN
    /\ activeTurn \in 0..turns /\ turn \in 0..turns /\ tail \in Seq(Inputs)
    /\ fate \in [Inputs -> {"new", "queued", "delivered", "reported"}]

AtRest == rpcs = <<>> /\ stream = <<>> /\ awaited = NoRpc /\ due = NoRpc

\* Once nothing is under way, the host, its router and the app-server agree on the turn: the
\* router never holds on to a finished one, after which every prompt would be refused, and a busy
\* session has a turn to be busy with. And no input is left without its outcome. Excepted is what a
\* notification in an answer's own chunk, or a kill in the middle of a spawn, has crossed.
TurnViewsAgree ==
    AtRest /\ ~crossed =>
        /\ activeTurn = turn
        /\ codexBusy => turn # 0
        /\ bound => codexEntry = "bound"
        /\ tail = <<>> => \A w \in Inputs : fate[w] # "queued"
=============================================================================
