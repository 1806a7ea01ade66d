------------------------------ MODULE Kernels ------------------------------
(***************************************************************************)
(* The Jupyter kernel broker: runs that share one start per notebook, the  *)
(* sweep of kernels an earlier server left on the gateway, executions that *)
(* end with their kernel's answer or with its socket, restarts, shutdowns  *)
(* and the idle timer (server-kernel.ts, jupyter-host.js,                  *)
(* routes/kernel.ts).                                                      *)
(*                                                                         *)
(* A kernel is named by the order of its creation.                         *)
(***************************************************************************)
EXTENDS Integers, FiniteSets

CONSTANTS
    Notebooks,      \* (board, node) pairs
    Runs,           \* run requests
    NotebookOf,     \* run -> its notebook
    MaxKernels,     \* bound: kernels created
    MaxBrokerRestarts

ASSUME KernelAssumption ==
    /\ NotebookOf \in [Runs -> Notebooks] /\ MaxKernels \in Nat /\ MaxBrokerRestarts \in Nat

KernelIds == 1..MaxKernels

VARIABLES
    gateway,    \* the kernels running on the gateway
    owner,      \* the notebook each kernel was created for, in creation order
    socket,     \* kernel -> its WebSocket: "none", "opening", "open", "closing" or "closed"
    liveKernel, \* liveKernels: notebook -> kernel, 0 for none
    start,      \* kernelStarting: how far the start in flight is, "none" without one
    reconciled, \* kernelsReconciled
    sweep,      \* the sweep's registry snapshot, then the kernels it has yet to delete
    pending,    \* kernel -> the runs awaiting it (LiveKernel.pending)
    idle,       \* the kernels whose idle timer is armed
    resetting,  \* the kernels whose restart the gateway has not answered
    deletes,    \* DELETE requests on their way to the gateway
    run,        \* each run: "new", "waiting", "executing", "ended" or "lost"
    brokers     \* server restarts so far

startVars == <<liveKernel, start, reconciled, sweep>>
gatewayVars == <<gateway, owner, deletes>>
kernelVars == <<gatewayVars, startVars, socket, pending, idle, resetting, run, brokers>>

KernelsInit ==
    /\ gateway = {} /\ owner = [k \in KernelIds |-> "none"]
    /\ socket = [k \in KernelIds |-> "none"]
    /\ liveKernel = [n \in Notebooks |-> 0] /\ start = [n \in Notebooks |-> "none"]
    /\ reconciled = FALSE /\ sweep = {} /\ pending = [k \in KernelIds |-> {}]
    /\ idle = {} /\ resetting = {} /\ deletes = {}
    /\ run = [r \in Runs |-> "new"] /\ brokers = 0

Created == {k \in KernelIds : socket[k] # "none"}
Opening(n) == {k \in KernelIds : owner[k] = n /\ socket[k] = "opening"}
Waiting(n) == {r \in Runs : run[r] = "waiting" /\ NotebookOf[r] = n}

Turned(R, outcome) == [r \in Runs |-> IF r \in R THEN outcome ELSE run[r]]

\* executeCell for those of R whose cell is there, the others have nothing to run; armed are the
\* idle timers before.
Begin(R, k, armed) ==
    \E G \in SUBSET R :
        /\ pending' = [pending EXCEPT ![k] = @ \cup G]
        /\ run' = [r \in Runs |-> IF r \in G THEN "executing" ELSE Turned(R, "ended")[r]]
        /\ idle' = IF G = {} THEN armed ELSE armed \ {k}

\* Faulty variant of Started: a start in flight is begun anew.
StartedAnew(n) == "gateway"

\* singleFlight: a start in flight is joined.
Started(n) == IF start[n] = "none" THEN "gateway" ELSE start[n]

Usable(n) == liveKernel[n] # 0 /\ socket[liveKernel[n]] = "open"

\* ensureKernel finds the notebook's kernel, or forgets a closed one and waits for a start.
RunCell(r) ==
    LET n == NotebookOf[r]
    IN  /\ run[r] = "new"
        /\ \/ Usable(n) /\ Begin({r}, liveKernel[n], idle) /\ UNCHANGED <<liveKernel, start>>
           \/ /\ ~Usable(n)
              /\ liveKernel' = [liveKernel EXCEPT ![n] = 0] /\ start' = [start EXCEPT ![n] = Started(n)]
              /\ run' = Turned({r}, "waiting") /\ UNCHANGED <<pending, idle>>
        /\ UNCHANGED <<gatewayVars, reconciled, sweep, socket, resetting, brokers>>

-----------------------------------------------------------------------------
(***************************************************************************)
(* A start: the gateway, the sweep, the kernel, its socket.                *)
(***************************************************************************)
\* The gateway is up; the first start of a server sweeps, the flag being set before it waits.
GatewayUp(n) ==
    /\ start[n] = "gateway" /\ reconciled' = TRUE
    /\ start' = [start EXCEPT ![n] = IF reconciled THEN "create" ELSE "list"]
    /\ sweep' = IF reconciled THEN sweep ELSE {liveKernel[m] : m \in Notebooks} \ {0}
    /\ UNCHANGED <<gatewayVars, liveKernel, socket, pending, idle, resetting, run, brokers>>

\* No gateway comes up: the start fails, and the runs that wait for it.
GatewayDown(n) ==
    /\ start[n] = "gateway" /\ start' = [start EXCEPT ![n] = "none"]
    /\ run' = Turned(Waiting(n), "ended")
    /\ UNCHANGED <<gatewayVars, liveKernel, reconciled, sweep, socket, pending, idle, resetting, brokers>>

\* The gateway lists its kernels: what the snapshot does not know is an orphan. Without a list
\* nothing is.
SweepLists(n) ==
    /\ start[n] = "list" /\ start' = [start EXCEPT ![n] = "sweep"]
    /\ sweep' \in {gateway \ sweep, {}}
    /\ UNCHANGED <<gatewayVars, liveKernel, reconciled, socket, pending, idle, resetting, run, brokers>>

\* The orphans are deleted one by one, then the start goes on.
SweepDeletes(n) ==
    /\ start[n] = "sweep"
    /\ \/ \E k \in sweep : sweep' = sweep \ {k} /\ deletes' = deletes \cup {k} /\ UNCHANGED start
       \/ sweep = {} /\ start' = [start EXCEPT ![n] = "create"] /\ UNCHANGED <<sweep, deletes>>
    /\ UNCHANGED <<gateway, owner, liveKernel, reconciled, socket, pending, idle, resetting, run, brokers>>

\* The gateway creates the kernel, and the socket to it is opened.
CreateKernel(n) ==
    /\ start[n] = "create" /\ start' = [start EXCEPT ![n] = "open"]
    /\ \E k \in KernelIds \ Created :
           /\ \A j \in KernelIds \ Created : k <= j
           /\ gateway' = gateway \cup {k} /\ owner' = [owner EXCEPT ![k] = n]
           /\ socket' = [socket EXCEPT ![k] = "opening"]
    /\ UNCHANGED <<deletes, liveKernel, reconciled, sweep, pending, idle, resetting, run, brokers>>

\* It does not.
CreateFails(n) ==
    /\ start[n] = "create" /\ start' = [start EXCEPT ![n] = "none"]
    /\ run' = Turned(Waiting(n), "ended")
    /\ UNCHANGED <<gatewayVars, liveKernel, reconciled, sweep, socket, pending, idle, resetting, brokers>>

\* The socket is open: the kernel is live, and the runs that waited begin.
SocketOpens(k) ==
    /\ socket[k] = "opening" /\ k \in gateway /\ socket' = [socket EXCEPT ![k] = "open"]
    /\ liveKernel' = [liveKernel EXCEPT ![owner[k]] = k] /\ start' = [start EXCEPT ![owner[k]] = "none"]
    /\ Begin(Waiting(owner[k]), k, idle \cup {k})
    /\ UNCHANGED <<gatewayVars, reconciled, sweep, resetting, brokers>>

\* It fails to open: the kernel is left on the gateway.
SocketFails(k) ==
    /\ socket[k] = "opening" /\ socket' = [socket EXCEPT ![k] = "closed"]
    /\ start' = [start EXCEPT ![owner[k]] = "none"]
    /\ run' = Turned(Waiting(owner[k]), "ended")
    /\ UNCHANGED <<gatewayVars, liveKernel, reconciled, sweep, pending, idle, resetting, brokers>>

-----------------------------------------------------------------------------
(***************************************************************************)
(* A live kernel.                                                          *)
(***************************************************************************)
\* The kernel reports idle for r: its outputs are merged into the notebook.
CellDone(r, k) ==
    /\ r \in pending[k] /\ k \in gateway /\ socket[k] = "open"
    /\ pending' = [pending EXCEPT ![k] = @ \ {r}] /\ run' = Turned({r}, "ended")
    /\ idle' = IF pending'[k] = {} THEN idle \cup {k} ELSE idle
    /\ UNCHANGED <<gatewayVars, startVars, socket, resetting, brokers>>

\* Faulty variant of Resolved: what awaits the kernel is forgotten.
ResolvedNot(k) == pending' = [pending EXCEPT ![k] = {}] /\ UNCHANGED run

\* Everything that awaits the kernel ends in error.
Resolved(k) == pending' = [pending EXCEPT ![k] = {}] /\ run' = Turned(pending[k], "ended")

\* The socket closes, by the broker, the gateway or the network.
SocketCloses(k) ==
    /\ socket[k] \in {"open", "closing"} /\ socket' = [socket EXCEPT ![k] = "closed"]
    /\ Resolved(k) /\ idle' = idle \ {k}
    /\ UNCHANGED <<gatewayVars, startVars, resetting, brokers>>

\* restartKernel up to its request, and when it is answered.
RestartKernel(n) ==
    /\ liveKernel[n] # 0 /\ Resolved(liveKernel[n]) /\ resetting' = resetting \cup {liveKernel[n]}
    /\ UNCHANGED <<gatewayVars, startVars, socket, idle, brokers>>

KernelRestarted(k) ==
    /\ k \in resetting /\ resetting' = resetting \ {k}
    /\ idle' = IF pending[k] = {} THEN idle \cup {k} ELSE idle
    /\ UNCHANGED <<gatewayVars, startVars, socket, pending, run, brokers>>

\* shutdownKernel: forgotten, its socket closing, its deletion on the way.
Shutdown(n, timers) ==
    LET k == liveKernel[n]
    IN  /\ liveKernel' = [liveKernel EXCEPT ![n] = 0] /\ UNCHANGED <<start, reconciled, sweep>>
        /\ socket' = IF k # 0 /\ socket[k] = "open" THEN [socket EXCEPT ![k] = "closing"] ELSE socket
        /\ deletes' = deletes \cup ({k} \ {0}) /\ idle' = timers \ {k}
        /\ UNCHANGED <<gateway, owner, pending, resetting, run, brokers>>

ShutdownKernel(n) == liveKernel[n] # 0 /\ Shutdown(n, idle)

\* The idle timer names the notebook, not the kernel.
IdleReap(k) == k \in idle /\ Shutdown(owner[k], idle \ {k})

GatewayDeletes(k) ==
    /\ k \in deletes /\ deletes' = deletes \ {k} /\ gateway' = gateway \ {k}
    /\ UNCHANGED <<owner, startVars, socket, pending, idle, resetting, run, brokers>>

\* The server restarts: the gateway and its kernels stay, the registry does not.
RestartBroker ==
    /\ brokers < MaxBrokerRestarts /\ brokers' = brokers + 1
    /\ liveKernel' = [n \in Notebooks |-> 0] /\ start' = [n \in Notebooks |-> "none"]
    /\ reconciled' = FALSE /\ sweep' = {} /\ idle' = {} /\ resetting' = {}
    /\ socket' = [k \in KernelIds |-> IF k \in Created THEN "closed" ELSE "none"]
    /\ pending' = [k \in KernelIds |-> {}]
    /\ run' = Turned({r \in Runs : run[r] \in {"waiting", "executing"}}, "lost")
    /\ UNCHANGED gatewayVars

StartSteps(n) ==
    GatewayUp(n) \/ GatewayDown(n) \/ SweepLists(n) \/ SweepDeletes(n) \/ CreateKernel(n) \/ CreateFails(n)

KernelsNext ==
    \/ \E r \in Runs : RunCell(r) \/ \E k \in KernelIds : CellDone(r, k)
    \/ \E n \in Notebooks : StartSteps(n) \/ RestartKernel(n) \/ ShutdownKernel(n)
    \/ \E k \in KernelIds : \/ SocketOpens(k) \/ SocketFails(k) \/ SocketCloses(k)
                            \/ KernelRestarted(k) \/ IdleReap(k) \/ GatewayDeletes(k)
    \/ RestartBroker

\* The gateway answers or its socket closes: a start, a cell and a deleted kernel's socket end.
KernelFairness ==
    /\ \A n \in Notebooks : WF_kernelVars(StartSteps(n))
    /\ \A k \in KernelIds : /\ WF_kernelVars(SocketOpens(k) \/ SocketFails(k))
                            /\ WF_kernelVars(GatewayDeletes(k))
                            /\ WF_kernelVars(socket[k] = "closing" /\ SocketCloses(k))
                            /\ WF_kernelVars(k \notin gateway /\ SocketCloses(k))
                            /\ \A r \in Runs : WF_kernelVars(CellDone(r, k))

KernelsSpec == KernelsInit /\ [][KernelsNext]_kernelVars /\ KernelFairness

-----------------------------------------------------------------------------
KernelsTypeOK ==
    /\ gateway \subseteq Created /\ deletes \subseteq Created /\ idle \subseteq Created
    /\ owner \in [KernelIds -> Notebooks \cup {"none"}]
    /\ socket \in [KernelIds -> {"none", "opening", "open", "closing", "closed"}]
    /\ liveKernel \in [Notebooks -> 0..MaxKernels] /\ reconciled \in BOOLEAN /\ resetting \subseteq Created
    /\ start \in [Notebooks -> {"none", "gateway", "list", "sweep", "create", "open"}]
    /\ sweep \subseteq Created /\ pending \in [KernelIds -> SUBSET Runs]
    /\ run \in [Runs -> {"new", "waiting", "executing", "ended", "lost"}]
    /\ brokers \in 0..MaxBrokerRestarts

\* A notebook never holds two kernels at once: two fast runs, or a run that meets a start, a
\* shutdown or a dropped socket, share one - two would split its variables.
OneKernelPerNotebook ==
    \A j, k \in KernelIds :
        owner[j] = owner[k] /\ socket[j] \in {"opening", "open"} /\ socket[k] \in {"opening", "open"}
        => j = k

\* Every run is answered, unless the server goes down: a start that fails, a kernel that is
\* restarted, shut down or reaped under it, a socket that drops, all end it. (The runs are finitely
\* many, so this says that some time nobody waits any more.)
EveryRunEnds == <>[](\A r \in Runs : run[r] \notin {"waiting", "executing"})
=============================================================================
