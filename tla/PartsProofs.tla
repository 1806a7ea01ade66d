----------------------------- MODULE PartsProofs ----------------------------
(***************************************************************************)
(* Parts of the program that share no state, each proved on its own: the   *)
(* notebook kernels, the dev supervisor, the interaction tools, the        *)
(* element commands of a board, a file as a tab shows it, the annotations  *)
(* of a document, and the cells of the notebooks.                          *)
(***************************************************************************)
EXTENDS Kernels, Supervisor, Tools, Elements, FileCache, Annotations, Cells, DataProofs

-----------------------------------------------------------------------------
(***************************************************************************)
(* A notebook never holds two kernels, for any number of notebooks, runs,  *)
(* kernels and restarts of the broker.                                     *)
(*                                                                         *)
(* OneKernelPerNotebook is not inductive: that a start finds no kernel is  *)
(* known because a start in flight is what every other run joins, so the   *)
(* invariant relates the start of a notebook to its entry in the registry  *)
(* and to the sockets of its kernels.                                      *)
(***************************************************************************)
StartSteps0 == {"none", "gateway", "list", "sweep", "create", "open"}
SocketStates == {"none", "opening", "open", "closing", "closed"}

RegistryOK ==
    /\ owner \in [KernelIds -> Notebooks \cup {"none"}]
    /\ socket \in [KernelIds -> SocketStates]
    /\ liveKernel \in [Notebooks -> KernelIds \cup {0}]
    /\ start \in [Notebooks -> StartSteps0]

\* A kernel that was created belongs to a notebook.
CreatedAreOwned == \A k \in KernelIds : socket[k] # "none" => owner[k] \in Notebooks

\* The registry names a kernel that was created for the notebook.
RegistryNamesOwn ==
    \A n \in Notebooks :
        liveKernel[n] # 0 => owner[liveKernel[n]] = n /\ socket[liveKernel[n]] # "none"

\* While a start is in flight the registry has no kernel for its notebook.
StartsAlone == \A n \in Notebooks : start[n] # "none" => liveKernel[n] = 0

\* A socket that opens is the one the start in flight waits for.
OpeningIsStarted == \A k \in KernelIds : socket[k] = "opening" => start[owner[k]] = "open"

\* An open socket is the one the registry holds.
OpenIsLive == \A k \in KernelIds : socket[k] = "open" => liveKernel[owner[k]] = k

OneOpening ==
    \A j, k \in KernelIds : socket[j] = "opening" /\ socket[k] = "opening" /\ owner[j] = owner[k] => j = k

\* Timers are armed, and restarts asked for, for kernels that were created.
TimersOK == idle \subseteq Created /\ resetting \subseteq Created

RegistryInv ==
    /\ RegistryOK /\ CreatedAreOwned /\ RegistryNamesOwn /\ StartsAlone
    /\ OpeningIsStarted /\ OpenIsLive /\ OneOpening

\* The invariant implies the property: an open kernel is the registry's, an opening one its start's,
\* and a notebook with a start has no open kernel.
LEMMA OneKernel == RegistryInv => OneKernelPerNotebook
<1> SUFFICES ASSUME RegistryInv, NEW j \in KernelIds, NEW k \in KernelIds, owner[j] = owner[k],
                    socket[j] \in {"opening", "open"}, socket[k] \in {"opening", "open"}
             PROVE  j = k
  BY DEF OneKernelPerNotebook
<1>1. owner[k] \in Notebooks /\ j # 0 /\ k # 0
  BY DEF RegistryInv, CreatedAreOwned, KernelIds
<1>2. CASE socket[j] = "opening" /\ socket[k] = "opening"
  BY <1>2 DEF RegistryInv, OneOpening
<1>3. CASE socket[j] = "open" /\ socket[k] = "open"
  BY <1>3 DEF RegistryInv, OpenIsLive
<1>4. CASE socket[j] = "opening" /\ socket[k] = "open"
  BY <1>1, <1>4 DEF RegistryInv, OpeningIsStarted, StartsAlone, OpenIsLive
<1>5. CASE socket[j] = "open" /\ socket[k] = "opening"
  BY <1>1, <1>5 DEF RegistryInv, OpeningIsStarted, StartsAlone, OpenIsLive
<1> QED
  BY <1>2, <1>3, <1>4, <1>5

\* A broker without kernels satisfies the invariant.
LEMMA RegistryInvInit == KernelsInit => RegistryInv
BY DEF KernelsInit, RegistryInv, RegistryOK, SocketStates, StartSteps0, CreatedAreOwned, RegistryNamesOwn,
       StartsAlone, OpeningIsStarted, OpenIsLive, OneOpening

\* A step of a start that neither creates a kernel nor ends the start before its socket is asked for.
LEMMA StartMoves ==
    ASSUME RegistryInv, NEW n \in Notebooks, NEW to \in StartSteps0 \ {"open"},
           start[n] \notin {"none", "open"}, start' = [start EXCEPT ![n] = to],
           UNCHANGED <<owner, socket, liveKernel>>
    PROVE  RegistryInv'
BY DEF RegistryInv, RegistryOK, CreatedAreOwned, RegistryNamesOwn, StartsAlone, OpeningIsStarted, OpenIsLive,
       OneOpening

\* Each step of a start keeps the invariant.
LEMMA StartStepKeeps ==
    ASSUME RegistryInv, NEW n \in Notebooks, StartSteps(n)
    PROVE  RegistryInv'
<1>1. CASE GatewayUp(n)
  <2>1. /\ start' = [start EXCEPT ![n] = IF reconciled THEN "create" ELSE "list"] /\ start[n] = "gateway"
        /\ UNCHANGED <<owner, socket, liveKernel>>
    BY <1>1 DEF GatewayUp, gatewayVars
  <2>2. (IF reconciled THEN "create" ELSE "list") \in StartSteps0 \ {"open"}
    BY DEF StartSteps0
  <2> QED
    BY <2>1, <2>2, StartMoves
<1>2. CASE GatewayDown(n)
  BY <1>2, StartMoves DEF GatewayDown, gatewayVars, StartSteps0
<1>3. CASE SweepLists(n)
  BY <1>3, StartMoves DEF SweepLists, gatewayVars, StartSteps0
<1>4. CASE SweepDeletes(n)
  <2>1. CASE start' = start
    BY <1>4, <2>1
    DEF SweepDeletes, RegistryInv, RegistryOK, CreatedAreOwned, RegistryNamesOwn, StartsAlone, OpeningIsStarted,
        OpenIsLive, OneOpening
  <2>2. CASE start' = [start EXCEPT ![n] = "create"]
    BY <1>4, <2>2, StartMoves DEF SweepDeletes, StartSteps0
  <2> QED
    BY <1>4, <2>1, <2>2 DEF SweepDeletes
<1>5. CASE CreateKernel(n)
  <2>1. PICK k \in KernelIds \ Created :
            /\ owner' = [owner EXCEPT ![k] = n] /\ socket' = [socket EXCEPT ![k] = "opening"]
            /\ start[n] = "create" /\ start' = [start EXCEPT ![n] = "open"] /\ liveKernel' = liveKernel
    BY <1>5 DEF CreateKernel
  <2>2. socket[k] = "none" /\ k # 0
    BY DEF Created, KernelIds
  <2>3. \A j \in KernelIds : socket[j] = "opening" => owner[j] # n
    BY <2>1 DEF RegistryInv, OpeningIsStarted
  <2>4. \A m \in Notebooks : liveKernel[m] # k
    BY <2>2 DEF RegistryInv, RegistryNamesOwn
  <2> QED
    BY <2>1, <2>2, <2>3, <2>4
    DEF RegistryInv, RegistryOK, SocketStates, StartSteps0, CreatedAreOwned, RegistryNamesOwn, StartsAlone,
        OpeningIsStarted, OpenIsLive, OneOpening
<1>6. CASE CreateFails(n)
  BY <1>6, StartMoves DEF CreateFails, gatewayVars, StartSteps0
<1> QED
  BY <1>1, <1>2, <1>3, <1>4, <1>5, <1>6 DEF StartSteps

\* Every step of the broker does.
LEMMA RegistryInvStep == RegistryInv /\ TimersOK /\ [KernelsNext]_kernelVars => RegistryInv'
<1> SUFFICES ASSUME RegistryInv, TimersOK, [KernelsNext]_kernelVars PROVE RegistryInv'
  OBVIOUS
<1> USE KernelAssumption
<1> USE DEF RegistryInv, RegistryOK, SocketStates, StartSteps0, CreatedAreOwned, RegistryNamesOwn, StartsAlone,
            OpeningIsStarted, OpenIsLive, OneOpening
<1>0. 0 \notin KernelIds
  BY DEF KernelIds
<1>1. ASSUME NEW r \in Runs, RunCell(r) PROVE RegistryInv'
  <2> DEFINE n == NotebookOf[r]
  <2>1. n \in Notebooks /\ UNCHANGED <<owner, socket>>
    BY <1>1 DEF RunCell, gatewayVars
  <2>2. CASE UNCHANGED <<liveKernel, start>>
    BY <2>1, <2>2
  <2>3. CASE /\ ~Usable(n) /\ liveKernel' = [liveKernel EXCEPT ![n] = 0]
             /\ start' = [start EXCEPT ![n] = Started(n)]
    <3>1. Started(n) \in StartSteps0 \ {"none"} /\ (start[n] # "none" => Started(n) = start[n])
      BY <2>1 DEF Started
    <3>2. \A k \in KernelIds : socket[k] = "open" => owner[k] # n
      BY <1>0, <2>1, <2>3 DEF Usable
    <3> HIDE DEF n
    <3> QED
      BY <1>0, <2>1, <2>3, <3>1, <3>2
  <2> QED
    BY <1>1, <2>2, <2>3 DEF RunCell
<1>2. ASSUME NEW k \in KernelIds, SocketOpens(k) PROVE RegistryInv'
  <2>1. /\ socket[k] = "opening" /\ socket' = [socket EXCEPT ![k] = "open"] /\ owner' = owner
        /\ liveKernel' = [liveKernel EXCEPT ![owner[k]] = k]
        /\ start' = [start EXCEPT ![owner[k]] = "none"]
    BY <1>2 DEF SocketOpens, gatewayVars
  <2>2. owner[k] \in Notebooks /\ start[owner[k]] = "open" /\ liveKernel[owner[k]] = 0
    BY <2>1
  <2>3. \A j \in KernelIds : socket[j] = "open" => owner[j] # owner[k]
    BY <1>0, <2>2
  <2>4. \A j \in KernelIds : socket[j] = "opening" /\ owner[j] = owner[k] => j = k
    BY <2>1
  <2>5. RegistryOK'
    BY <2>1, <2>2
  <2>6. CreatedAreOwned' /\ RegistryNamesOwn' /\ StartsAlone'
    BY <2>1, <2>2
  <2>7. OpeningIsStarted' /\ OneOpening'
    BY <2>1, <2>2, <2>4
  <2>8. OpenIsLive'
    BY <2>1, <2>2, <2>3
  <2> QED
    BY <2>5, <2>6, <2>7, <2>8
<1>3. ASSUME NEW k \in KernelIds, SocketFails(k) PROVE RegistryInv'
  <2>1. /\ socket[k] = "opening" /\ socket' = [socket EXCEPT ![k] = "closed"] /\ owner' = owner
        /\ liveKernel' = liveKernel
        /\ start' = [start EXCEPT ![owner[k]] = "none"]
    BY <1>3 DEF SocketFails, gatewayVars
  <2> QED
    BY <2>1
<1>4. ASSUME NEW k \in KernelIds, SocketCloses(k) PROVE RegistryInv'
  BY <1>4 DEF SocketCloses, gatewayVars, startVars
<1>5. ASSUME NEW n \in Notebooks, NEW timers, Shutdown(n, timers) PROVE RegistryInv'
  <2> DEFINE k == liveKernel[n]
  <2>1. /\ liveKernel' = [liveKernel EXCEPT ![n] = 0] /\ start' = start /\ owner' = owner
        /\ socket' = IF k # 0 /\ socket[k] = "open" THEN [socket EXCEPT ![k] = "closing"] ELSE socket
    BY <1>5 DEF Shutdown
  <2>2. \A j \in KernelIds : socket'[j] = "open" => socket[j] = "open" /\ owner[j] # n
    BY <1>0, <2>1
  <2>3. \A j \in KernelIds : (socket'[j] = "opening" <=> socket[j] = "opening") /\ (socket'[j] = "none" <=> socket[j] = "none")
    BY <2>1
  <2>4. RegistryOK' /\ CreatedAreOwned' /\ RegistryNamesOwn' /\ StartsAlone'
    BY <2>1, <2>3
  <2>5. OpeningIsStarted' /\ OneOpening'
    BY <2>1, <2>3
  <2>6. OpenIsLive'
    BY <2>1, <2>2
  <2> QED
    BY <2>4, <2>5, <2>6
<1>6. ASSUME NEW n \in Notebooks, ShutdownKernel(n) PROVE RegistryInv'
  BY <1>5, <1>6 DEF ShutdownKernel
<1>7. ASSUME NEW k \in KernelIds, IdleReap(k) PROVE RegistryInv'
  <2>1. owner[k] \in Notebooks /\ Shutdown(owner[k], idle \ {k})
    BY <1>7 DEF IdleReap, TimersOK, Created
  <2> QED
    BY <2>1, <1>5
<1>8. CASE RestartBroker
  BY <1>8 DEF RestartBroker, gatewayVars, Created
<1>9. CASE UNCHANGED <<owner, socket, liveKernel, start>>
  BY <1>9
<1>10. ASSUME NEW r \in Runs, NEW k \in KernelIds, CellDone(r, k) PROVE RegistryInv'
  BY <1>9, <1>10 DEF CellDone, gatewayVars, startVars
<1>11. ASSUME NEW n \in Notebooks, RestartKernel(n) PROVE RegistryInv'
  BY <1>9, <1>11 DEF RestartKernel, gatewayVars, startVars
<1>12. ASSUME NEW k \in KernelIds, KernelRestarted(k) \/ GatewayDeletes(k) PROVE RegistryInv'
  BY <1>9, <1>12 DEF KernelRestarted, GatewayDeletes, gatewayVars, startVars
<1>13. CASE UNCHANGED kernelVars
  BY <1>9, <1>13 DEF kernelVars, gatewayVars, startVars
<1> HIDE DEF RegistryInv
<1> QED
  BY <1>1, <1>2, <1>3, <1>4, <1>6, <1>7, <1>8, <1>10, <1>11, <1>12, <1>13, StartStepKeeps DEF KernelsNext

\* A kernel that was created stays so.
LEMMA TimersStep == RegistryInv /\ TimersOK /\ [KernelsNext]_kernelVars => TimersOK'
<1> SUFFICES ASSUME RegistryInv, TimersOK, [KernelsNext]_kernelVars PROVE TimersOK'
  OBVIOUS
<1> USE DEF TimersOK, Created
<1>0. socket \in [KernelIds -> SocketStates]
  BY DEF RegistryInv, RegistryOK
<1>1. ASSUME NEW r \in Runs, RunCell(r) PROVE TimersOK'
  BY <1>1 DEF RunCell, Begin
<1>2. ASSUME NEW n \in Notebooks, StartSteps(n) PROVE TimersOK'
  <2>1. CASE CreateKernel(n)
    BY <1>0, <2>1 DEF CreateKernel
  <2>2. CASE ~CreateKernel(n)
    <3>1. UNCHANGED <<socket, idle, resetting>>
      BY <1>2, <2>2
      DEF StartSteps, GatewayUp, GatewayDown, SweepLists, SweepDeletes, CreateFails, gatewayVars
    <3> QED
      BY <3>1
  <2> QED
    BY <2>1, <2>2
<1>3. ASSUME NEW k \in KernelIds, SocketOpens(k) PROVE TimersOK'
  BY <1>0, <1>3 DEF SocketOpens, Begin
<1>4. ASSUME NEW k \in KernelIds, SocketFails(k) \/ SocketCloses(k) PROVE TimersOK'
  BY <1>0, <1>4 DEF SocketFails, SocketCloses
<1>5. ASSUME NEW r \in Runs, NEW k \in KernelIds, CellDone(r, k) PROVE TimersOK'
  BY <1>0, <1>5 DEF CellDone
<1>6. ASSUME NEW n \in Notebooks, RestartKernel(n) PROVE TimersOK'
  BY <1>0, <1>6 DEF RestartKernel, RegistryInv, RegistryOK, RegistryNamesOwn
<1>7. ASSUME NEW k \in KernelIds, KernelRestarted(k) \/ GatewayDeletes(k) PROVE TimersOK'
  BY <1>0, <1>7 DEF KernelRestarted, GatewayDeletes
<1>8. ASSUME NEW n, NEW timers, timers \subseteq idle, Shutdown(n, timers) PROVE TimersOK'
  BY <1>0, <1>8 DEF Shutdown
<1>9. ASSUME NEW n \in Notebooks, ShutdownKernel(n) PROVE TimersOK'
  BY <1>8, <1>9 DEF ShutdownKernel
<1>10. ASSUME NEW k \in KernelIds, IdleReap(k) PROVE TimersOK'
  BY <1>8, <1>10 DEF IdleReap
<1>11. CASE RestartBroker \/ UNCHANGED kernelVars
  BY <1>0, <1>11 DEF RestartBroker, kernelVars, gatewayVars, startVars
<1> QED
  BY <1>1, <1>2, <1>3, <1>4, <1>5, <1>6, <1>7, <1>9, <1>10, <1>11 DEF KernelsNext

\* However runs, starts, shutdowns, idle timers, dropped sockets and restarts cross, a notebook has
\* one kernel at most (ensureKernel, startKernel and shutdownKernel, server-kernel.ts).
THEOREM NotebooksHaveOneKernel == KernelsSpec => []OneKernelPerNotebook
<1>1. KernelsInit => TimersOK
  BY DEF KernelsInit, TimersOK
<1>2. KernelsSpec => [](RegistryInv /\ TimersOK)
  BY <1>1, RegistryInvInit, RegistryInvStep, TimersStep, PTL DEF KernelsSpec
<1> QED
  BY <1>2, OneKernel, PTL

-----------------------------------------------------------------------------
(***************************************************************************)
(* The dev stack is never left without a server, and one Ctrl-C ends it,   *)
(* for any number of crashes, respawns and restart requests.               *)
(*                                                                         *)
(* Neither property is inductive.  That a server is due while a restart is *)
(* under way rests on the flag being cleared no later than the last exit   *)
(* that is awaited; that no vite outlives the supervisor rests on there    *)
(* being one vite, which needs that no respawn is pending while one runs.  *)
(***************************************************************************)
StackOK ==
    /\ vitesSpawned \in ViteIds /\ up \subseteq 1..vitesSpawned
    /\ viteChild \in up \cup {0} /\ doomed \in up \cup {0}
    /\ restarting \in BOOLEAN /\ restartsCrossed \in BOOLEAN /\ respawns \in Nat
    /\ bounces \in [ViteIds -> Nat] /\ teardown \in {"no", "vite", "sidecars", "exited"}

\* A vite whose exit is awaited runs.
AwaitedRun ==
    /\ \A i \in ViteIds : bounces[i] > 0 => i \in up
    /\ teardown = "vite" <=> doomed # 0

\* While the flag is up, an exit is awaited: an exit that is ignored brings a new vite.
RestartAwaits == restarting => \E i \in up : bounces[i] > 0

\* As long as no restart has crossed anything, there is one vite or a respawn, one restart at most, and
\* what the teardown awaits is the vite.
OneVite ==
    ~restartsCrossed =>
        /\ up = {viteChild} \ {0}
        /\ respawns = 0 \/ (respawns = 1 /\ viteChild = 0)
        /\ ~restarting => \A i \in ViteIds : bounces[i] = 0
        /\ restarting => viteChild # 0 /\ bounces[viteChild] = 1 /\ teardown = "no"
        /\ teardown = "vite" => doomed = viteChild
        /\ teardown \in {"sidecars", "exited"} => up \subseteq killed

ReapsEarned == reap => asked \/ everUp

StackInv == StackOK /\ AwaitedRun /\ RestartAwaits /\ ServerKept /\ OneVite /\ ReapsEarned

-----------------------------------------------------------------------------
LEMMA UpAreVites == StackOK => up \subseteq ViteIds /\ vitesSpawned \in Nat
<1> SUFFICES ASSUME StackOK PROVE up \subseteq ViteIds /\ vitesSpawned \in Nat
  OBVIOUS
<1>1. vitesSpawned \in ViteIds /\ up \subseteq 1..vitesSpawned
  BY DEF StackOK
<1> QED
  BY <1>1, SupervisorAssumption DEF ViteIds

\* What n vites started in a row leave: those that ran still run, and the last one is held.
LEMMA SpawnHolds ==
    ASSUME vitesSpawned \in Nat, NEW n \in Nat, NEW running \in SUBSET (1..vitesSpawned),
           NEW child \in running \cup {0}, SpawnVite(n, running, child)
    PROVE  /\ vitesSpawned' \in Nat /\ vitesSpawned' <= MaxVites /\ vitesSpawned <= vitesSpawned'
           /\ up' \subseteq 1..vitesSpawned' /\ running \subseteq up' /\ viteChild' \in up' \cup {0}
           /\ n = 0 => up' = running /\ viteChild' = child
           /\ n > 0 => viteChild' # 0 /\ viteChild' \in up'
           /\ n = 1 => up' = running \cup {viteChild'}
<1>1. vitesSpawned' = vitesSpawned + n /\ vitesSpawned' <= MaxVites
  BY DEF SpawnVite
<1>2. up' = running \cup (vitesSpawned + 1)..(vitesSpawned + n)
  BY DEF SpawnVite
<1>3. viteChild' = IF n = 0 THEN child ELSE vitesSpawned + n
  BY DEF SpawnVite
<1>4. CASE n = 0
  BY <1>1, <1>2, <1>3, <1>4
<1>5. CASE n > 0
  <2>1. viteChild' = vitesSpawned + n /\ viteChild' \in up'
    BY <1>2, <1>3, <1>5
  <2>2. n = 1 => up' = running \cup {viteChild'}
    BY <1>2, <2>1
  <2> QED
    BY <1>1, <1>2, <1>5, <2>1, <2>2
<1> QED
  BY <1>4, <1>5

\* The restarts that awaited a vite, whether it has exited or is still running.
LEMMA BouncedHolds ==
    ASSUME StackOK, NEW i \in ViteIds, NEW running \in SUBSET (1..vitesSpawned),
           NEW child \in running \cup {0}, Bounced(i, running, child)
    PROVE  /\ vitesSpawned' \in ViteIds /\ up' \subseteq 1..vitesSpawned' /\ running \subseteq up'
           /\ viteChild' \in up' \cup {0}
           /\ bounces' \in [ViteIds -> Nat] /\ bounces'[i] = 0
           /\ \A j \in ViteIds \ {i} : bounces'[j] = bounces[j]
           /\ restarting' = (restarting /\ bounces[i] = 0)
           /\ bounces[i] = 0 => up' = running /\ viteChild' = child
           /\ bounces[i] > 0 => viteChild' # 0 /\ viteChild' \in up'
           /\ bounces[i] = 1 => up' = running \cup {viteChild'}
<1>1. vitesSpawned \in Nat /\ bounces[i] \in Nat /\ SpawnVite(bounces[i], running, child)
  BY DEF StackOK, Bounced, ViteIds
<1>2. /\ vitesSpawned' \in Nat /\ vitesSpawned' <= MaxVites /\ vitesSpawned <= vitesSpawned'
      /\ up' \subseteq 1..vitesSpawned' /\ running \subseteq up' /\ viteChild' \in up' \cup {0}
      /\ bounces[i] = 0 => up' = running /\ viteChild' = child
      /\ bounces[i] > 0 => viteChild' # 0 /\ viteChild' \in up'
      /\ bounces[i] = 1 => up' = running \cup {viteChild'}
  BY <1>1, SpawnHolds
<1>3. vitesSpawned' \in ViteIds
  BY <1>2 DEF StackOK, ViteIds
<1>4. bounces' = [bounces EXCEPT ![i] = 0] /\ restarting' = (restarting /\ bounces[i] = 0)
  BY DEF Bounced
<1> QED
  BY <1>2, <1>3, <1>4 DEF StackOK

LEMMA InitHolds == SupervisorInit => StackInv
<1> SUFFICES ASSUME SupervisorInit PROVE StackInv
  OBVIOUS
<1>1. 1 \in ViteIds
  BY SupervisorAssumption DEF ViteIds
<1>2. StackOK
  <2>1. bounces \in [ViteIds -> Nat] /\ vitesSpawned = 1 /\ up = {1} /\ up \subseteq 1..vitesSpawned
    BY DEF SupervisorInit
  <2>2. viteChild = 1 /\ doomed = 0 /\ restarting = FALSE /\ restartsCrossed = FALSE
    BY DEF SupervisorInit
  <2>3. respawns = 0 /\ teardown = "no"
    BY DEF SupervisorInit
  <2> QED
    BY <1>1, <2>1, <2>2, <2>3 DEF StackOK
<1>3. AwaitedRun /\ RestartAwaits
  BY <1>1 DEF SupervisorInit, AwaitedRun, RestartAwaits
<1>4. ServerKept /\ OneVite /\ ReapsEarned
  BY DEF SupervisorInit, ServerKept, OneVite, ReapsEarned
<1> QED
  BY <1>2, <1>3, <1>4 DEF StackInv

-----------------------------------------------------------------------------
LEMMA SeasonsHolds == ASSUME StackInv, NEW i \in ViteIds, Seasons(i) PROVE StackInv'
<1>1. StackOK' /\ AwaitedRun' /\ RestartAwaits'
  BY DEF StackInv, Seasons, StackOK, AwaitedRun, RestartAwaits, teardownVars
<1>2. ServerKept' /\ OneVite' /\ ReapsEarned'
  BY DEF StackInv, Seasons, ServerKept, OneVite, ReapsEarned, teardownVars
<1> QED
  BY <1>1, <1>2 DEF StackInv

LEMMA StopHolds == ASSUME StackInv, Stop PROVE StackInv'
<1>1. StackOK' /\ AwaitedRun' /\ RestartAwaits'
  BY DEF StackInv, Stop, StackOK, AwaitedRun, RestartAwaits, viteVars
<1>2. ServerKept' /\ ReapsEarned'
  BY DEF StackInv, Stop, ServerKept, ReapsEarned, viteVars
<1>3. OneVite'
  BY DEF StackInv, Stop, StackOK, OneVite, viteVars
<1> QED
  BY <1>1, <1>2, <1>3 DEF StackInv

LEMMA ExitHolds == ASSUME StackInv, SupervisorExits PROVE StackInv'
<1>1. StackOK' /\ AwaitedRun' /\ RestartAwaits'
  BY DEF StackInv, SupervisorExits, StackOK, AwaitedRun, RestartAwaits, viteVars
<1>2. ServerKept' /\ OneVite' /\ ReapsEarned'
  BY DEF StackInv, SupervisorExits, ServerKept, OneVite, ReapsEarned, viteVars
<1> QED
  BY <1>1, <1>2 DEF StackInv

LEMMA RespawnHolds == ASSUME StackInv, Respawn PROVE StackInv'
<1> DEFINE n == IF teardown = "no" THEN 1 ELSE 0
<1>1. vitesSpawned \in Nat /\ up \subseteq 1..vitesSpawned /\ viteChild \in up \cup {0}
  BY DEF StackInv, StackOK, ViteIds
<1>2. SpawnVite(n, up, viteChild) /\ respawns > 0 /\ respawns' = respawns - 1
  BY DEF Respawn
<1>3. /\ vitesSpawned' \in Nat /\ vitesSpawned' <= MaxVites /\ vitesSpawned <= vitesSpawned'
      /\ up' \subseteq 1..vitesSpawned' /\ up \subseteq up' /\ viteChild' \in up' \cup {0}
      /\ n = 0 => up' = up /\ viteChild' = viteChild
      /\ n > 0 => viteChild' # 0 /\ viteChild' \in up'
      /\ n = 1 => up' = up \cup {viteChild'}
  BY <1>1, <1>2, SpawnHolds
<1>4. UNCHANGED <<killed, teardown, doomed, reap, asked, everUp, restarting, bounces, restartsCrossed>>
  BY DEF Respawn, teardownVars
<1>5. StackOK'
  BY <1>2, <1>3, <1>4 DEF StackInv, StackOK, ViteIds
<1>6. AwaitedRun' /\ RestartAwaits' /\ ReapsEarned'
  BY <1>3, <1>4 DEF StackInv, AwaitedRun, RestartAwaits, ReapsEarned
<1>7. ServerKept'
  BY <1>3, <1>4 DEF ServerKept
<1>8. OneVite'
  <2> SUFFICES ASSUME ~restartsCrossed' PROVE OneVite'
    BY DEF OneVite
  <2>1. respawns = 1 /\ viteChild = 0 /\ up = {} /\ ~restarting /\ teardown # "vite"
    BY <1>2, <1>4 DEF StackInv, OneVite, AwaitedRun
  <2>2. CASE teardown = "no"
    <3>1. up' = {viteChild'} \ {0} /\ viteChild' # 0 /\ respawns' = 0
      BY <2>1, <2>2, <1>2, <1>3
    <3>2. ~restarting' /\ \A i \in ViteIds : bounces'[i] = 0
      BY <2>1, <1>4 DEF StackInv, OneVite
    <3> QED
      BY <2>2, <3>1, <3>2, <1>4 DEF OneVite
  <2>3. CASE teardown # "no"
    <3>1. up' = {} /\ viteChild' = 0 /\ respawns' = 0
      BY <2>1, <2>3, <1>2, <1>3
    <3>2. ~restarting' /\ \A i \in ViteIds : bounces'[i] = 0
      BY <2>1, <1>4 DEF StackInv, OneVite
    <3>3. teardown' # "vite"
      BY <2>1, <1>4
    <3> QED
      BY <3>1, <3>2, <3>3 DEF OneVite
  <2> QED
    BY <2>2, <2>3
<1> QED
  BY <1>5, <1>6, <1>7, <1>8 DEF StackInv

LEMMA BounceHolds == ASSUME StackInv, BounceVite PROVE StackInv'
<1>1. /\ UNCHANGED <<killed, teardown, doomed, reap, asked, everUp, respawns>>
      /\ restartsCrossed' = (restartsCrossed \/ restarting \/ respawns > 0 \/ teardown # "no")
  BY DEF BounceVite, teardownVars
<1>2. /\ vitesSpawned \in ViteIds /\ vitesSpawned \in Nat /\ up \subseteq 1..vitesSpawned
      /\ viteChild \in up \cup {0} /\ up \subseteq ViteIds
  BY UpAreVites DEF StackInv, StackOK
<1>3. ReapsEarned'
  BY <1>1 DEF StackInv, ReapsEarned
<1>4. CASE /\ viteChild # 0 /\ restarting' = TRUE /\ bounces' = [bounces EXCEPT ![viteChild] = @ + 1]
           /\ UNCHANGED <<up, vitesSpawned, viteChild>>
  <2>1. viteChild \in up /\ viteChild \in ViteIds /\ bounces[viteChild] \in Nat
    BY <1>2, <1>4 DEF StackInv, StackOK
  <2>2. /\ bounces' \in [ViteIds -> Nat] /\ bounces'[viteChild] = bounces[viteChild] + 1
        /\ \A i \in ViteIds \ {viteChild} : bounces'[i] = bounces[i]
    BY <1>4, <2>1 DEF StackInv, StackOK
  <2>3. StackOK'
    BY <1>1, <1>4, <2>2 DEF StackInv, StackOK
  <2>4. AwaitedRun'
    BY <1>1, <1>4, <2>1, <2>2 DEF StackInv, AwaitedRun
  <2>5. RestartAwaits' /\ ServerKept'
    BY <1>4, <2>1, <2>2 DEF RestartAwaits, ServerKept
  <2>6. OneVite'
    <3> SUFFICES ASSUME ~restartsCrossed' PROVE OneVite'
      BY DEF OneVite
    <3>1. ~restartsCrossed /\ ~restarting /\ ~(respawns > 0) /\ teardown = "no"
      BY <1>1 DEF StackInv, StackOK
    <3>2. respawns = 0
      BY <3>1 DEF StackInv, StackOK
    <3>3. up' = {viteChild'} \ {0} /\ bounces'[viteChild'] = 1
      BY <1>4, <2>1, <2>2, <3>1 DEF StackInv, OneVite
    <3> QED
      BY <1>1, <1>4, <3>1, <3>2, <3>3 DEF OneVite
  <2> QED
    BY <1>3, <2>3, <2>4, <2>5, <2>6 DEF StackInv
<1>5. CASE viteChild = 0 /\ restarting' = FALSE /\ SpawnVite(1, up, 0) /\ UNCHANGED bounces
  <2>1. /\ vitesSpawned' \in Nat /\ vitesSpawned' <= MaxVites /\ vitesSpawned <= vitesSpawned'
        /\ up' \subseteq 1..vitesSpawned' /\ up \subseteq up' /\ viteChild' \in up' \cup {0}
        /\ viteChild' # 0 /\ up' = up \cup {viteChild'}
    BY <1>2, <1>5, SpawnHolds
  <2>2. StackOK'
    <3>1. vitesSpawned' \in ViteIds
      BY <1>2, <2>1 DEF ViteIds
    <3>2. doomed' \in up' \cup {0}
      BY <1>1, <2>1 DEF StackInv, StackOK
    <3> QED
      BY <1>1, <1>5, <2>1, <3>1, <3>2 DEF StackInv, StackOK
  <2>3. AwaitedRun' /\ RestartAwaits' /\ ServerKept'
    BY <1>1, <1>5, <2>1 DEF StackInv, AwaitedRun, RestartAwaits, ServerKept
  <2>4. OneVite'
    <3> SUFFICES ASSUME ~restartsCrossed' PROVE OneVite'
      BY DEF OneVite
    <3>1. ~restartsCrossed /\ ~restarting /\ ~(respawns > 0) /\ teardown = "no"
      BY <1>1 DEF StackInv, StackOK
    <3>2. up' = {viteChild'} \ {0}
      BY <1>5, <2>1, <3>1 DEF StackInv, OneVite
    <3>3. respawns' = 0 /\ \A i \in ViteIds : bounces'[i] = 0
      BY <1>1, <1>5, <3>1 DEF StackInv, StackOK, OneVite
    <3> QED
      BY <1>1, <1>5, <3>1, <3>2, <3>3 DEF OneVite
  <2> QED
    BY <1>3, <2>2, <2>3, <2>4 DEF StackInv
<1> QED
  BY <1>4, <1>5 DEF BounceVite

LEMMA KillHolds == ASSUME StackInv, NEW i \in ViteIds, KillTimesOut(i) PROVE StackInv'
<1>0. up \subseteq ViteIds
  BY UpAreVites DEF StackInv
<1>1. /\ i \in up /\ (bounces[i] > 0 \/ doomed = i) /\ killed' = killed \cup {i}
      /\ restartsCrossed' = (restartsCrossed \/ bounces[i] > 0)
      /\ teardown' = IF doomed = i THEN "sidecars" ELSE teardown
      /\ doomed' = IF doomed = i THEN 0 ELSE doomed
      /\ UNCHANGED <<reap, asked, everUp, respawns>>
  BY DEF KillTimesOut
<1>2. /\ vitesSpawned' \in ViteIds /\ up' \subseteq 1..vitesSpawned' /\ up \subseteq up'
      /\ viteChild' \in up' \cup {0}
      /\ bounces' \in [ViteIds -> Nat] /\ bounces'[i] = 0
      /\ \A j \in ViteIds \ {i} : bounces'[j] = bounces[j]
      /\ restarting' = (restarting /\ bounces[i] = 0)
      /\ bounces[i] = 0 => up' = up /\ viteChild' = viteChild
      /\ bounces[i] > 0 => viteChild' # 0 /\ viteChild' \in up'
  BY BouncedHolds DEF StackInv, StackOK, KillTimesOut
<1>3. StackOK'
  BY <1>1, <1>2 DEF StackInv, StackOK
<1>4. AwaitedRun'
  BY <1>1, <1>2 DEF StackInv, StackOK, AwaitedRun
<1>5. RestartAwaits'
  <2> SUFFICES ASSUME restarting' PROVE \E j \in up' : bounces'[j] > 0
    BY DEF RestartAwaits
  <2>1. restarting /\ bounces[i] = 0
    BY <1>2
  <2>2. PICK j \in up : bounces[j] > 0
    BY <2>1 DEF StackInv, RestartAwaits
  <2>3. j \in ViteIds /\ j # i /\ j \in up'
    BY <1>0, <1>2, <2>1, <2>2
  <2> QED
    BY <1>2, <2>2, <2>3
<1>6. ServerKept'
  <2>1. CASE doomed = i
    BY <1>1, <2>1 DEF StackInv, StackOK, ServerKept, ViteIds
  <2>2. CASE doomed # i
    BY <1>1, <1>2, <2>2 DEF ServerKept
  <2> QED
    BY <2>1, <2>2
<1>7. OneVite'
  <2> SUFFICES ASSUME ~restartsCrossed' PROVE OneVite'
    BY DEF OneVite
  <2>1. ~restartsCrossed /\ bounces[i] = 0 /\ doomed = i
    <3>1. ~restartsCrossed /\ ~(bounces[i] > 0)
      BY <1>1 DEF StackInv, StackOK
    <3>2. bounces[i] \in Nat
      BY DEF StackInv, StackOK
    <3> QED
      BY <1>1, <3>1, <3>2
  <2>2. viteChild = i /\ up = {i} /\ i # 0 /\ teardown = "vite"
    BY <1>1, <2>1 DEF StackInv, OneVite, AwaitedRun, ViteIds
  <2>3. ~restarting /\ \A j \in ViteIds : bounces[j] = 0
    BY <2>1, <2>2 DEF StackInv, OneVite
  <2>4. up' = {i} /\ viteChild' = i /\ ~restarting' /\ \A j \in ViteIds : bounces'[j] = 0
    BY <1>2, <2>1, <2>2, <2>3
  <2>5. respawns' = 0 /\ teardown' = "sidecars" /\ i \in killed'
    BY <1>1, <2>1, <2>2 DEF StackInv, OneVite
  <2> QED
    BY <2>2, <2>4, <2>5 DEF OneVite
<1>8. ReapsEarned'
  BY <1>1 DEF StackInv, ReapsEarned
<1> QED
  BY <1>3, <1>4, <1>5, <1>6, <1>7, <1>8 DEF StackInv

LEMMA ViteExitHolds == ASSUME StackInv, NEW i \in ViteIds, ViteExits(i) PROVE StackInv'
<1> DEFINE child == IF viteChild = i THEN 0 ELSE viteChild
<1>0. up \subseteq ViteIds /\ StackOK /\ viteChild \in up \cup {0}
  BY UpAreVites DEF StackInv, StackOK
<1>1. i \in up /\ Missed(i, child) /\ Bounced(i, up \ {i}, child) /\ UNCHANGED <<killed, everUp, restartsCrossed>>
  BY DEF ViteExits
<1>2. up \ {i} \in SUBSET (1..vitesSpawned) /\ child \in (up \ {i}) \cup {0}
  BY <1>0 DEF StackOK
<1>3. /\ vitesSpawned' \in ViteIds /\ up' \subseteq 1..vitesSpawned' /\ up \ {i} \subseteq up'
      /\ viteChild' \in up' \cup {0}
      /\ bounces' \in [ViteIds -> Nat] /\ bounces'[i] = 0
      /\ \A j \in ViteIds \ {i} : bounces'[j] = bounces[j]
      /\ restarting' = (restarting /\ bounces[i] = 0)
      /\ bounces[i] = 0 => up' = up \ {i} /\ viteChild' = child
      /\ bounces[i] > 0 => viteChild' # 0 /\ viteChild' \in up'
      /\ bounces[i] = 1 => up' = (up \ {i}) \cup {viteChild'}
  BY <1>0, <1>1, <1>2, BouncedHolds
\* The three ways an exit is taken: intended, to be followed by a respawn, the last.
<1>4. \/ /\ (teardown # "no" \/ restarting) /\ UNCHANGED <<respawns, reap, asked>>
         /\ teardown' = IF teardown = "vite" /\ doomed = i THEN "sidecars" ELSE teardown
         /\ doomed' = IF doomed = i THEN 0 ELSE doomed
      \/ /\ teardown = "no" /\ ~restarting /\ respawns' = respawns + 1
         /\ UNCHANGED <<teardown, doomed, reap, asked>>
      \/ /\ teardown = "no" /\ ~restarting /\ reap' = everUp /\ doomed' = child
         /\ teardown' = (IF child = 0 THEN "sidecars" ELSE "vite") /\ UNCHANGED <<respawns, asked>>
  BY <1>1 DEF Missed, ReapsWhenGivingUp, teardownVars
<1>5. StackOK'
  <2>1. doomed' \in up' \cup {0}
    BY <1>2, <1>3, <1>4 DEF StackInv, StackOK, AwaitedRun
  <2>2. respawns' \in Nat /\ teardown' \in {"no", "vite", "sidecars", "exited"}
    BY <1>4 DEF StackInv, StackOK
  <2>3. restarting' \in BOOLEAN /\ restartsCrossed' \in BOOLEAN
    BY <1>1, <1>3 DEF StackInv, StackOK
  <2> QED
    BY <1>3, <2>1, <2>2, <2>3 DEF StackOK
<1>6. AwaitedRun'
  <2>1. \A j \in ViteIds : bounces'[j] > 0 => j \in up'
    BY <1>3 DEF StackInv, AwaitedRun
  <2>2. teardown' = "vite" <=> doomed' # 0
    BY <1>0, <1>4 DEF StackInv, AwaitedRun
  <2> QED
    BY <2>1, <2>2 DEF AwaitedRun
<1>7. RestartAwaits'
  <2> SUFFICES ASSUME restarting' PROVE \E j \in up' : bounces'[j] > 0
    BY DEF RestartAwaits
  <2>1. restarting /\ bounces[i] = 0
    BY <1>3
  <2>2. PICK j \in up : bounces[j] > 0
    BY <2>1 DEF StackInv, RestartAwaits
  <2>3. j \in ViteIds /\ j # i /\ j \in up'
    BY <1>0, <1>3, <2>1, <2>2
  <2> QED
    BY <1>3, <2>2, <2>3
<1>8. ServerKept'
  <2> SUFFICES ASSUME teardown' = "no"
               PROVE  viteChild' # 0 \/ respawns' > 0 \/ \E j \in up' : bounces'[j] > 0
    BY DEF ServerKept
  <2>1. CASE restarting
    <3>1. PICK j \in up : bounces[j] > 0
      BY <2>1 DEF StackInv, RestartAwaits
    <3>2. CASE j = i
      BY <1>3, <3>1, <3>2
    <3>3. CASE j # i
      BY <1>0, <1>3, <3>1, <3>3
    <3> QED
      BY <3>2, <3>3
  <2>2. CASE ~restarting
    <3>1. respawns' = respawns + 1
      BY <1>4, <2>2
    <3> QED
      BY <3>1 DEF StackInv, StackOK
  <2> QED
    BY <2>1, <2>2
<1>9. OneVite'
  <2> SUFFICES ASSUME ~restartsCrossed' PROVE OneVite'
    BY DEF OneVite
  <2>1. ~restartsCrossed
    BY <1>1
  <2>2. viteChild = i /\ i # 0 /\ up \ {i} = {} /\ child = 0 /\ respawns = 0
    BY <1>1, <2>1 DEF StackInv, OneVite, ViteIds
  <2>3. \A j \in ViteIds \ {i} : bounces'[j] = 0
    <3> TAKE j \in ViteIds \ {i}
    <3>1. j \notin up /\ bounces[j] \in Nat
      BY <2>2 DEF StackInv, StackOK
    <3>2. ~(bounces[j] > 0)
      BY <3>1 DEF StackInv, AwaitedRun
    <3> QED
      BY <1>3, <3>1, <3>2
  <2>4. CASE restarting
    <3>1. bounces[i] = 1 /\ teardown = "no"
      BY <2>1, <2>2, <2>4 DEF StackInv, OneVite
    <3>2. bounces[i] > 0 /\ ~(bounces[i] = 0)
      BY <3>1
    <3>3. ~restarting'
      BY <1>3, <3>2
    <3>4. viteChild' # 0
      BY <1>3, <3>2
    <3>5. up' = {viteChild'}
      BY <1>3, <2>2, <3>1
    <3>6. up' = {viteChild'} \ {0}
      BY <3>4, <3>5
    <3>7. teardown' = "no" /\ respawns' = 0
      BY <1>4, <2>2, <2>4, <3>1
    <3> QED
      BY <1>3, <2>3, <3>3, <3>4, <3>6, <3>7 DEF OneVite
  <2>5. CASE ~restarting
    <3>1. bounces[i] = 0 /\ ~restarting'
      BY <1>3, <2>1, <2>5 DEF StackInv, OneVite
    <3>2. up' = {} /\ viteChild' = 0
      BY <1>3, <2>2, <3>1
    <3>3. teardown' # "vite"
      BY <1>4, <2>1, <2>2, <2>5 DEF StackInv, OneVite
    <3>4. respawns' = 0 \/ respawns' = 1
      BY <1>4, <2>2
    <3> QED
      BY <1>3, <2>3, <3>1, <3>2, <3>3, <3>4 DEF OneVite
  <2> QED
    BY <2>4, <2>5
<1>10. ReapsEarned'
  BY <1>1, <1>4 DEF StackInv, ReapsEarned
<1> QED
  BY <1>5, <1>6, <1>7, <1>8, <1>9, <1>10 DEF StackInv

-----------------------------------------------------------------------------
LEMMA NextHolds == StackInv /\ [SupervisorNext]_supervisorVars => StackInv'
<1> SUFFICES ASSUME StackInv, [SupervisorNext]_supervisorVars PROVE StackInv'
  OBVIOUS
<1>1. CASE UNCHANGED supervisorVars
  <2>1. StackOK' /\ AwaitedRun' /\ RestartAwaits'
    BY <1>1 DEF StackInv, supervisorVars, viteVars, teardownVars, StackOK, AwaitedRun, RestartAwaits
  <2>2. ServerKept' /\ OneVite' /\ ReapsEarned'
    BY <1>1 DEF StackInv, supervisorVars, viteVars, teardownVars, ServerKept, OneVite, ReapsEarned
  <2> QED
    BY <2>1, <2>2 DEF StackInv
<1>2. CASE \E i \in ViteIds : Seasons(i) \/ ViteExits(i) \/ KillTimesOut(i)
  BY <1>2, SeasonsHolds, ViteExitHolds, KillHolds
<1>3. CASE Respawn \/ BounceVite
  BY <1>3, RespawnHolds, BounceHolds
<1>4. CASE Stop \/ SupervisorExits
  BY <1>4, StopHolds, ExitHolds
<1> QED
  BY <1>1, <1>2, <1>3, <1>4 DEF SupervisorNext

LEMMA StackInvariant == SupervisorSpec => []StackInv
<1>1. SupervisorInit => StackInv
  BY InitHolds
<1>2. StackInv /\ [SupervisorNext]_supervisorVars => StackInv'
  BY NextHolds
<1> QED
  BY <1>1, <1>2, PTL DEF SupervisorSpec

\* Until it is torn down the dev stack has a server, or one is due, whatever the order of the crashes,
\* respawns, restart requests and timed-out kills of runSupervisor; it has one vite and takes it along
\* when it exits, unless a restart crossed something; and a teardown that reaps the sidecars was asked
\* for or follows a stack that once came up.
THEOREM OneStackIsOwned == SupervisorSpec => []OneStack
<1>1. StackInv => OneStack
  BY DEF StackInv, OneVite, ReapsEarned, OneStack
<1> QED
  BY <1>1, StackInvariant, PTL

-----------------------------------------------------------------------------
(***************************************************************************)
(* Whatever the pointers and the keys do, and however many cards are       *)
(* pinned, the store's one buffer is open exactly for its one holder.      *)
(*                                                                         *)
(* The invariant is inductive once it says that the pan of the middle      *)
(* button and the press of the left one exclude each other (OnePress): the *)
(* release of a pan leaves the rest of the manager alone.                  *)
(***************************************************************************)
OnePress == midPan => ~pointerActive

\* GesturesHeld, holder by holder.
Selecting == selectState.gesture
Drawing == shapeState = "drawing"
Moving == {h \in Presses : hud[h] = "moving"}

HeldByOne ==
    /\ buffer <=> Selecting \/ Drawing \/ Moving # {}
    /\ ~(Selecting /\ Drawing)
    /\ \A h \in Moving : ~Selecting /\ ~Drawing
    /\ \A g, h \in Moving : g = h

ToolsInv == ToolsTypeOK /\ HeldByOne /\ NothingOutlivesItsPress /\ OnePress

\* GesturesHeld without sets: the gesture is open exactly while one of the three kinds of holders
\* has it.
LEMMA HoldersAreHeld == GesturesHeld <=> HeldByOne
<1>1. Holders = (IF Selecting THEN {"select"} ELSE {}) \cup (IF Drawing THEN {"shape"} ELSE {}) \cup Moving
  BY DEF Holders, Selecting, Drawing, Moving
<1>2. "select" \notin Moving /\ "shape" \notin Moving
  BY PressesAssumption DEF Moving
<1>3. Holders # {} <=> Selecting \/ Drawing \/ Moving # {}
  BY <1>1
<1>4. ASSUME \A x, y \in Holders : x = y
      PROVE  /\ ~(Selecting /\ Drawing)
             /\ \A h \in Moving : ~Selecting /\ ~Drawing
             /\ \A g, h \in Moving : g = h
  <2>1. ASSUME Selecting, Drawing PROVE FALSE
    BY <1>1, <1>4, <2>1
  <2>2. ASSUME NEW h \in Moving, Selecting PROVE FALSE
    <3>1. h \in Holders /\ "select" \in Holders
      BY <1>1, <2>2
    <3> QED
      BY <1>2, <1>4, <3>1
  <2>3. ASSUME NEW h \in Moving, Drawing PROVE FALSE
    <3>1. h \in Holders /\ "shape" \in Holders
      BY <1>1, <2>3
    <3> QED
      BY <1>2, <1>4, <3>1
  <2>4. ASSUME NEW g \in Moving, NEW h \in Moving PROVE g = h
    BY <1>1, <1>4
  <2> QED
    BY <2>1, <2>2, <2>3, <2>4
<1>5. ASSUME ~(Selecting /\ Drawing),
             \A h \in Moving : ~Selecting /\ ~Drawing,
             \A g, h \in Moving : g = h
      PROVE  \A x, y \in Holders : x = y
  <2>1. CASE Selecting
    BY <1>1, <1>5, <2>1
  <2>2. CASE ~Selecting /\ Drawing
    BY <1>1, <1>5, <2>2
  <2>3. CASE ~Selecting /\ ~Drawing
    BY <1>1, <1>5, <2>3
  <2> QED
    BY <2>1, <2>2, <2>3
<1> QED
  BY <1>3, <1>4, <1>5 DEF GesturesHeld, HeldByOne

\* What a pointer's move does to the pinned cards.
LEMMA HudMovesKeeps ==
    ASSUME ToolsTypeOK, NEW b \in BOOLEAN, HudMoves(b)
    PROVE  \/ buffer' = b /\ hud' = hud
           \/ ~b /\ buffer' = TRUE
              /\ \E h \in Presses : hud[h] = "pressed" /\ hud' = [hud EXCEPT ![h] = "moving"]
BY DEF HudMoves

\* A move that leaves the canvas's share of the buffer at b: the buffer then has one holder again.
LEMMA HudMovesHeld ==
    ASSUME ToolsTypeOK, NEW b \in BOOLEAN, HudMoves(b),
           selectState' \in [kind : SelectKinds, gesture : BOOLEAN],
           Moving # {} => b, \A g, h \in Moving : g = h,
           b <=> Selecting' \/ Drawing' \/ Moving # {},
           ~(Selecting' /\ Drawing'),
           \A h \in Moving : ~Selecting' /\ ~Drawing'
    PROVE  /\ HeldByOne'
           /\ buffer' \in BOOLEAN /\ hud' \in [Presses -> {"rest", "pressed", "moving"}]
<1>1. CASE buffer' = b /\ hud' = hud
  BY <1>1 DEF HeldByOne, Moving, ToolsTypeOK, Selecting, Drawing
<1>2. CASE ~b /\ buffer' = TRUE
           /\ \E h \in Presses : hud[h] = "pressed" /\ hud' = [hud EXCEPT ![h] = "moving"]
  <2>1. PICK h \in Presses : hud' = [hud EXCEPT ![h] = "moving"]
    BY <1>2
  <2>2. Moving = {} /\ Moving' = {h}
    BY <1>2, <2>1 DEF Moving, ToolsTypeOK
  <2>3. ~Selecting' /\ ~Drawing'
    BY <1>2
  <2> QED
    BY <1>2, <2>1, <2>2, <2>3 DEF HeldByOne, ToolsTypeOK
<1> QED
  BY <1>1, <1>2, HudMovesKeeps

\* A release ends the gesture of every pinned card.
LEMMA HudReleasesHeld ==
    ASSUME ToolsTypeOK, NEW b \in BOOLEAN, HudReleases(b),
           b <=> Selecting' \/ Drawing' \/ Moving # {},
           ~(Selecting' /\ Drawing'),
           \A h \in Moving : ~Selecting' /\ ~Drawing'
    PROVE  /\ HeldByOne'
           /\ buffer' \in BOOLEAN /\ hud' \in [Presses -> {"rest", "pressed", "moving"}]
<1>1. Moving' = {} /\ hud' \in [Presses -> {"rest", "pressed", "moving"}]
  BY DEF HudReleases, Moving
<1>2. buffer' <=> b /\ Moving = {}
  BY DEF HudReleases, Moving
<1>3. buffer' \in BOOLEAN
  BY DEF HudReleases
<1> QED
  BY <1>1, <1>2, <1>3 DEF HeldByOne

\* The manager starts clean.
LEMMA ToolsInvInit == ToolsInit => ToolsInv
<1> SUFFICES ASSUME ToolsInit PROVE ToolsInv
  OBVIOUS
<1>1. ToolsTypeOK
  BY DEF ToolsInit, ToolsTypeOK, SelectIdle, SelectKinds, ToolNames
<1>2. ~Selecting /\ ~Drawing /\ Moving = {} /\ ~buffer
  BY DEF ToolsInit, SelectIdle, Selecting, Drawing, Moving
<1>3. NothingOutlivesItsPress /\ OnePress
  BY DEF ToolsInit, SelectIdle, NothingOutlivesItsPress, OnePress
<1> QED
  BY <1>1, <1>2, <1>3 DEF ToolsInv, HeldByOne

\* What a change of tool does: the tool that leaves is at rest, and the buffer is what it left.
LEMMA SetToolKeeps ==
    ASSUME ToolsInv, NEW t \in ToolNames, SetTool(t),
           UNCHANGED <<handHolds, pointerVars, hud>>,
           spaceDown' \in BOOLEAN, toolBeforeSpace' \in {"select", "shape", NoTool}
    PROVE  ToolsInv'
<1> USE DEF ToolsInv, pointerVars, selectVars
<1>1. CASE t = activeTool
  BY <1>1 DEF SetTool, ToolsTypeOK, HeldByOne, Selecting, Drawing, Moving, NothingOutlivesItsPress, OnePress
<1>2. CASE t # activeTool /\ activeTool = "select"
  <2>1. /\ activeTool' = t /\ shapeState' = shapeState /\ selectState' = SelectIdle
        /\ buffer' = SelectLets
        /\ marqueeShown' = (marqueeShown /\ selectState.kind # "marquee")
        /\ wireShown' = (wireShown /\ selectState.kind # "connecting")
    BY <1>2 DEF SetTool, SelectAborts, SelectRests
  <2> QED
    BY <1>2, <2>1
    DEF SelectLets, SelectIdle, SelectKinds, ToolsTypeOK, HeldByOne, Selecting, Drawing, Moving,
        NothingOutlivesItsPress, OnePress
<1>3. CASE t # activeTool /\ activeTool = "shape"
  BY <1>3
  DEF SetTool, ShapeLets, ToolsTypeOK, HeldByOne, Selecting, Drawing, Moving, NothingOutlivesItsPress, OnePress
<1>4. CASE t # activeTool /\ activeTool = "hand"
  BY <1>4 DEF SetTool, ToolsTypeOK, HeldByOne, Selecting, Drawing, Moving, NothingOutlivesItsPress, OnePress
<1> QED
  BY <1>1, <1>2, <1>3, <1>4 DEF ToolsTypeOK, ToolNames

\* A press on the canvas.
LEMMA PointerDownKeeps ==
    ASSUME ToolsInv, NEW button \in Buttons, NEW hit \in Hits, NEW raises \in BOOLEAN,
           PointerDown(button, hit, raises)
    PROVE  ToolsInv'
<1> USE DEF ToolsInv, spaceVars, selectVars
<1>0. /\ ~pointerDown /\ ~midPan /\ ~pointerActive /\ ~edgeArmed
      /\ pointerDown' = TRUE /\ midPan' = (button = "middle") /\ pointerActive' = (button = "left")
      /\ handHolds' \in BOOLEAN /\ activeTool' = activeTool /\ edgeArmed' = edgeArmed
      /\ UNCHANGED <<spaceDown, toolBeforeSpace, hud>>
  BY DEF PointerDown, NothingOutlivesItsPress, ToolsTypeOK
<1>1. CASE activeTool = "select" /\ button = "left" /\ SelectPresses(hit, raises) /\ UNCHANGED shapeState
  <2>1. /\ marqueeShown' = (marqueeShown /\ selectState.kind # "marquee")
        /\ wireShown' = (hit = "wire" \/ (wireShown /\ selectState.kind # "connecting"))
        /\ buffer' = (SelectLets \/ (hit = "card" /\ raises))
    BY <1>1 DEF SelectPresses
  <2>2. ~marqueeShown' /\ (wireShown' <=> hit = "wire")
    BY <2>1 DEF NothingOutlivesItsPress
  <2>3. SelectLets <=> Moving # {}
    BY <1>1 DEF SelectLets, HeldByOne, Selecting, Drawing, NothingOutlivesItsPress
  <2>4. shapeState = "idle" /\ ~Drawing'
    BY <1>1 DEF NothingOutlivesItsPress, Drawing
  <2>5. CASE hit # "card"
    <3>1. selectState' = [kind |-> CASE hit = "wire" -> "connecting" [] hit = "handle" -> "handle"
                                     [] hit = "empty" -> "marquee", gesture |-> FALSE]
      BY <1>1, <2>5 DEF SelectPresses, Hits
    <3>2. /\ selectState' \in [kind : SelectKinds, gesture : BOOLEAN] /\ ~Selecting'
          /\ selectState'.kind = "connecting" <=> hit = "wire"
      BY <2>5, <3>1 DEF Hits, SelectKinds, Selecting
    <3> QED
      BY <1>0, <1>1, <2>1, <2>2, <2>3, <2>4, <2>5, <3>2
      DEF ToolsTypeOK, HeldByOne, Moving, NothingOutlivesItsPress, OnePress
  <2>6. CASE hit = "card" /\ raises /\ SelectLets
    <3>1. selectState' = SelectIdle
      BY <1>1, <2>6 DEF SelectPresses
    <3> QED
      BY <1>0, <1>1, <2>1, <2>2, <2>3, <2>4, <2>6, <3>1
      DEF SelectIdle, SelectKinds, Selecting, ToolsTypeOK, HeldByOne, Moving, NothingOutlivesItsPress, OnePress
  <2>7. CASE hit = "card" /\ ~(raises /\ SelectLets)
    <3>1. selectState' = [kind |-> "pointing", gesture |-> raises]
      BY <1>1, <2>7 DEF SelectPresses
    <3> QED
      BY <1>0, <1>1, <2>1, <2>2, <2>3, <2>4, <2>7, <3>1
      DEF SelectKinds, Selecting, ToolsTypeOK, HeldByOne, Moving, NothingOutlivesItsPress, OnePress
  <2> QED
    BY <2>5, <2>6, <2>7
<1>2. CASE activeTool = "shape" /\ button = "left" /\ shapeState' = "pointing" /\ buffer' = ShapeLets
           /\ UNCHANGED selectVars
  BY <1>0, <1>2
  DEF ShapeLets, ToolsTypeOK, HeldByOne, Selecting, Drawing, Moving, NothingOutlivesItsPress, OnePress
<1>3. CASE (activeTool = "hand" \/ button # "left") /\ UNCHANGED <<selectVars, shapeState, buffer>>
  BY <1>0, <1>3 DEF ToolsTypeOK, HeldByOne, Selecting, Drawing, Moving, NothingOutlivesItsPress, OnePress
<1> QED
  BY <1>1, <1>2, <1>3 DEF PointerDown

\* What a move, or a frame of the edge scroll, does to select, whose buffer it leaves at b.
LEMMA SelectMovesKeeps ==
    ASSUME ToolsInv, activeTool = "select", NEW far \in BOOLEAN, SelectMoves(far)
    PROVE  /\ selectState' \in [kind : SelectKinds, gesture : BOOLEAN]
           /\ marqueeShown' \in BOOLEAN /\ wireShown' = wireShown
           /\ marqueeShown' => selectState'.kind = "marquee"
           /\ wireShown <=> selectState'.kind = "connecting"
           /\ (buffer \/ SelectOpens(far)) <=> Selecting' \/ Moving # {}
           /\ \A h \in Moving : ~Selecting'
<1> USE DEF ToolsInv
<1>0. ~Drawing /\ (buffer <=> Selecting \/ Moving # {}) /\ (\A h \in Moving : ~Selecting)
  BY DEF Drawing, NothingOutlivesItsPress, HeldByOne
<1>1. CASE SelectOpens(far) /\ ~SelectThrows(far)
  <2>1. selectState' = [kind |-> IF selectState.kind = "handle" THEN "resizing" ELSE "dragging", gesture |-> TRUE]
    BY <1>1 DEF SelectMoves
  <2>2. selectState.kind \notin {"marquee", "connecting"} /\ ~marqueeShown' /\ wireShown' = wireShown
    BY <1>1 DEF SelectMoves, SelectOpens, NothingOutlivesItsPress
  <2>6. marqueeShown' \in BOOLEAN
    BY DEF SelectMoves
  <2>3. Moving = {} /\ Selecting'
    <3>1. Selecting'
      BY <2>1 DEF Selecting
    <3>2. ~buffer \/ Selecting
      BY <1>1 DEF SelectThrows, Selecting
    <3> QED
      BY <1>0, <3>1, <3>2
  <2>4. selectState' \in [kind : SelectKinds, gesture : BOOLEAN]
    BY <2>1 DEF SelectKinds
  <2>5. ~wireShown /\ selectState'.kind # "connecting"
    BY <2>1, <2>2 DEF NothingOutlivesItsPress
  <2> QED
    BY <1>1, <2>2, <2>3, <2>4, <2>5, <2>6
<1>2. CASE ~(SelectOpens(far) /\ ~SelectThrows(far))
  <2>1. selectState' = selectState
    BY <1>2 DEF SelectMoves
  <2>2. /\ marqueeShown' \in BOOLEAN /\ wireShown' = wireShown
        /\ marqueeShown' => selectState.kind = "marquee"
    BY DEF SelectMoves, NothingOutlivesItsPress, ToolsTypeOK
  <2>3. SelectOpens(far) => buffer
    BY <1>2 DEF SelectThrows
  <2>4. Selecting' <=> Selecting
    BY <2>1 DEF Selecting
  <2> QED
    BY <1>0, <2>1, <2>2, <2>3, <2>4 DEF ToolsTypeOK, NothingOutlivesItsPress
<1> QED
  BY <1>1, <1>2

\* A pointer that moves keeps the invariant.
LEMMA PointerMoveKeeps ==
    ASSUME ToolsInv, NEW far \in BOOLEAN, NEW atEdge \in BOOLEAN, PointerMove(far, atEdge)
    PROVE  ToolsInv'
<1> USE DEF ToolsInv, spaceVars, selectVars
<1>0. /\ UNCHANGED <<activeTool, handHolds, pointerDown, pointerActive, midPan, spaceDown, toolBeforeSpace>>
      /\ buffer <=> Selecting \/ Drawing \/ Moving # {}
      /\ \A g, h \in Moving : g = h
      /\ \A h \in Moving : ~Selecting /\ ~Drawing
      /\ ~(Selecting /\ Drawing)
      /\ buffer \in BOOLEAN
  BY DEF PointerMove, HeldByOne, ToolsTypeOK
<1>1. CASE HudMoves(buffer) /\ UNCHANGED <<selectVars, shapeState>> /\ (edgeArmed' = edgeArmed \/ edgeArmed' = FALSE)
  <2>1. selectState' \in [kind : SelectKinds, gesture : BOOLEAN] /\ Selecting' = Selecting /\ Drawing' = Drawing
    BY <1>1 DEF ToolsTypeOK, Selecting, Drawing
  <2>2. /\ HeldByOne'
        /\ buffer' \in BOOLEAN /\ hud' \in [Presses -> {"rest", "pressed", "moving"}]
    BY <1>0, <1>1, <2>1, HudMovesHeld
  <2>3. edgeArmed' \in BOOLEAN /\ (edgeArmed' => pointerActive)
    <3>1. edgeArmed \in BOOLEAN /\ (edgeArmed => pointerActive)
      BY DEF ToolsTypeOK, NothingOutlivesItsPress
    <3>2. CASE edgeArmed' = edgeArmed
      BY <3>1, <3>2
    <3>3. CASE edgeArmed' = FALSE
      BY <3>3
    <3> QED
      BY <1>1, <3>2, <3>3
  <2>4. ToolsTypeOK'
    BY <1>0, <1>1, <2>1, <2>2, <2>3 DEF ToolsTypeOK
  <2>5. NothingOutlivesItsPress' /\ OnePress'
    BY <1>0, <1>1, <2>3 DEF NothingOutlivesItsPress, OnePress
  <2> QED
    BY <2>2, <2>4, <2>5
<1>2. CASE /\ ~midPan /\ activeTool = "select" /\ SelectMoves(far) /\ HudMoves(buffer \/ SelectOpens(far))
           /\ edgeArmed' = IF SelectThrows(far) THEN edgeArmed ELSE EdgeScrolls /\ atEdge
           /\ UNCHANGED shapeState
  <2> DEFINE b == buffer \/ SelectOpens(far)
  <2>1. /\ selectState' \in [kind : SelectKinds, gesture : BOOLEAN]
        /\ marqueeShown' \in BOOLEAN /\ wireShown' = wireShown
        /\ marqueeShown' => selectState'.kind = "marquee"
        /\ wireShown <=> selectState'.kind = "connecting"
        /\ b <=> Selecting' \/ Moving # {}
        /\ \A h \in Moving : ~Selecting'
    BY <1>2, SelectMovesKeeps
  <2>2. shapeState = "idle" /\ ~Drawing' /\ b \in BOOLEAN /\ HudMoves(b)
    BY <1>0, <1>2 DEF NothingOutlivesItsPress, Drawing, SelectOpens
  <2>3. Moving # {} => b
    BY <2>1
  <2>4. /\ HeldByOne'
        /\ buffer' \in BOOLEAN /\ hud' \in [Presses -> {"rest", "pressed", "moving"}]
    <3> HIDE DEF b
    <3> QED
      BY <1>0, <2>1, <2>2, <2>3, HudMovesHeld
  <2>5. edgeArmed' \in BOOLEAN /\ (edgeArmed' => pointerActive)
    BY <1>2 DEF EdgeScrolls, NothingOutlivesItsPress, ToolsTypeOK
  <2> QED
    BY <1>0, <1>2, <2>1, <2>2, <2>4, <2>5 DEF ToolsTypeOK, NothingOutlivesItsPress, OnePress
<1>3. CASE /\ ~midPan /\ activeTool = "shape" /\ ShapeMoves(far)
           /\ HudMoves(buffer \/ (far /\ shapeState = "pointing"))
           /\ edgeArmed' = (edgeArmed /\ ShapeThrows(far))
           /\ UNCHANGED selectVars
  <2> DEFINE b == buffer \/ (far /\ shapeState = "pointing")
  <2>1. selectState.kind = "idle" /\ selectState' = selectState /\ Selecting' = Selecting
    BY <1>3 DEF NothingOutlivesItsPress, Selecting
  <2>2. b \in BOOLEAN /\ HudMoves(b)
    BY <1>0, <1>3
  <2>3. /\ b <=> Selecting' \/ Drawing' \/ Moving # {}
        /\ ~(Selecting' /\ Drawing')
        /\ \A h \in Moving : ~Selecting' /\ ~Drawing'
        /\ shapeState' \in {"idle", "pointing", "drawing"}
    <3>1. CASE far /\ shapeState = "pointing" /\ ~buffer
      <4>1. shapeState' = "drawing" /\ Drawing'
        BY <1>3, <3>1 DEF ShapeMoves, Drawing
      <4> QED
        BY <1>0, <2>1, <3>1, <4>1
    <3>2. CASE ~(far /\ shapeState = "pointing" /\ ~buffer)
      <4>1. shapeState' = shapeState /\ Drawing' = Drawing
        BY <1>3, <3>2 DEF ShapeMoves, Drawing
      <4>2. b <=> buffer
        BY <3>2
      <4> QED
        BY <1>0, <2>1, <4>1, <4>2 DEF ToolsTypeOK
    <3> QED
      BY <3>1, <3>2
  <2>4. /\ HeldByOne'
        /\ buffer' \in BOOLEAN /\ hud' \in [Presses -> {"rest", "pressed", "moving"}]
    <3>1. (Moving # {} => b) /\ selectState' \in [kind : SelectKinds, gesture : BOOLEAN]
      BY <2>1, <2>3 DEF ToolsTypeOK
    <3> HIDE DEF b
    <3> QED
      BY <1>0, <2>2, <2>3, <3>1, HudMovesHeld
  <2> QED
    BY <1>0, <1>3, <2>1, <2>3, <2>4 DEF ToolsTypeOK, NothingOutlivesItsPress, OnePress
<1>4. \/ midPan /\ HudMoves(buffer) /\ UNCHANGED <<selectVars, shapeState, edgeArmed>>
      \/ ~midPan /\ activeTool = "hand" /\ HudMoves(buffer) /\ edgeArmed' = FALSE
                 /\ UNCHANGED <<selectVars, shapeState>>
      \/ /\ ~midPan /\ activeTool = "select" /\ SelectMoves(far) /\ HudMoves(buffer \/ SelectOpens(far))
         /\ edgeArmed' = IF SelectThrows(far) THEN edgeArmed ELSE EdgeScrolls /\ atEdge
         /\ UNCHANGED shapeState
      \/ /\ ~midPan /\ activeTool = "shape" /\ ShapeMoves(far)
         /\ HudMoves(buffer \/ (far /\ shapeState = "pointing"))
         /\ edgeArmed' = (edgeArmed /\ ShapeThrows(far))
         /\ UNCHANGED selectVars
  BY DEF PointerMove
<1> QED
  BY <1>1, <1>2, <1>3, <1>4

\* A release, as the canvas sees it.
LEMMA CanvasReleasesKeeps ==
    ASSUME ToolsInv, CanvasReleases
    PROVE  /\ activeTool' \in ToolNames /\ selectState' \in [kind : SelectKinds, gesture : BOOLEAN]
           /\ shapeState' \in {"idle", "pointing", "drawing"}
           /\ handHolds' \in BOOLEAN /\ pointerDown' = FALSE /\ pointerActive' = FALSE
           /\ midPan' = FALSE /\ edgeArmed' = FALSE
           /\ UNCHANGED <<spaceDown, toolBeforeSpace>>
           /\ marqueeShown' \in BOOLEAN /\ wireShown' \in BOOLEAN
           /\ NothingOutlivesItsPress'
           /\ Closed \in BOOLEAN
           /\ Closed <=> Selecting' \/ Drawing' \/ Moving # {}
           /\ ~(Selecting' /\ Drawing')
           /\ \A h \in Moving : ~Selecting' /\ ~Drawing'
<1> USE DEF ToolsInv, spaceVars, selectVars
<1>0. /\ pointerDown' = FALSE /\ midPan' = FALSE /\ UNCHANGED <<spaceDown, toolBeforeSpace>>
      /\ buffer <=> Selecting \/ Drawing \/ Moving # {}
      /\ ~(Selecting /\ Drawing)
      /\ \A h \in Moving : ~Selecting /\ ~Drawing
  BY DEF CanvasReleases, HeldByOne
<1>1. CASE midPan
  <2>1. UNCHANGED <<activeTool, selectVars, shapeState, handHolds, pointerActive, edgeArmed>> /\ Closed = buffer
    BY <1>1 DEF CanvasReleases, Closed
  <2>2. ~pointerActive /\ ~edgeArmed
    BY <1>1 DEF OnePress, NothingOutlivesItsPress
  <2>3. Selecting' = Selecting /\ Drawing' = Drawing
    BY <2>1 DEF Selecting, Drawing
  <2>4. NothingOutlivesItsPress'
    BY <1>0, <2>1, <2>2 DEF NothingOutlivesItsPress
  <2> QED
    BY <1>0, <2>1, <2>2, <2>3, <2>4 DEF ToolsTypeOK
<1>2. CASE ~midPan
  <2>0. pointerActive' = FALSE /\ edgeArmed' = FALSE /\ handHolds' \in BOOLEAN
    BY <1>2 DEF CanvasReleases
  <2>1. CASE activeTool = "select"
    <3>1. /\ selectState' = SelectIdle /\ activeTool' = "select" /\ shapeState' = shapeState
          /\ marqueeShown' = (marqueeShown /\ selectState.kind # "marquee")
          /\ wireShown' = (wireShown /\ selectState.kind # "connecting")
          /\ Closed = SelectLets
      BY <1>2, <2>1 DEF CanvasReleases, SelectRests, Closed
    <3>2. ~marqueeShown' /\ ~wireShown' /\ shapeState = "idle"
      BY <2>1, <3>1 DEF NothingOutlivesItsPress
    <3>3. ~Selecting' /\ ~Drawing' /\ ~Drawing
      BY <3>1, <3>2 DEF SelectIdle, Selecting, Drawing
    <3>4. Closed \in BOOLEAN /\ (Closed <=> Moving # {})
      BY <1>0, <3>1, <3>3 DEF SelectLets, Selecting
    <3>5. NothingOutlivesItsPress'
      BY <1>0, <2>0, <3>1, <3>2 DEF NothingOutlivesItsPress, SelectIdle
    <3>6. /\ selectState' \in [kind : SelectKinds, gesture : BOOLEAN] /\ activeTool' \in ToolNames
          /\ marqueeShown' \in BOOLEAN /\ wireShown' \in BOOLEAN
      BY <3>1 DEF SelectIdle, SelectKinds, ToolNames
    <3> QED
      BY <1>0, <2>0, <3>1, <3>2, <3>3, <3>4, <3>5, <3>6
  <2>2. CASE activeTool # "select"
    <3>1. /\ UNCHANGED <<selectState, marqueeShown, wireShown>>
          /\ shapeState' = IF activeTool = "shape" THEN "idle" ELSE shapeState
          /\ activeTool' \in {activeTool, "select"}
      BY <1>2, <2>2 DEF CanvasReleases
    <3>2. shapeState' = "idle" /\ selectState.kind = "idle"
      BY <2>2, <3>1 DEF NothingOutlivesItsPress
    <3>3. Selecting' = Selecting /\ ~Drawing'
      BY <3>1, <3>2 DEF Selecting, Drawing
    <3>4. Closed \in BOOLEAN /\ (Closed <=> buffer /\ ~Drawing)
      <4>1. CASE activeTool = "shape"
        BY <1>2, <2>2, <4>1 DEF Closed, ShapeLets, Drawing
      <4>2. CASE activeTool # "shape"
        <5>1. Closed = buffer /\ shapeState = "idle"
          BY <1>2, <2>2, <4>2 DEF Closed, NothingOutlivesItsPress
        <5> QED
          BY <5>1 DEF Drawing, ToolsTypeOK
      <4> QED
        BY <4>1, <4>2
    <3>5. Closed <=> Selecting' \/ Moving # {}
      BY <1>0, <3>3, <3>4
    <3>6. NothingOutlivesItsPress'
      BY <1>0, <2>0, <3>1, <3>2 DEF NothingOutlivesItsPress
    <3> QED
      BY <1>0, <2>0, <3>1, <3>2, <3>3, <3>4, <3>5, <3>6 DEF ToolsTypeOK, ToolNames
  <2> QED
    BY <2>1, <2>2
<1> QED
  BY <1>1, <1>2

\* So does a pointer that is released or cancelled, over the canvas or a pinned card.
LEMMA ReleasesKeep ==
    ASSUME ToolsInv, PointerUp \/ PointerCancel \/ OtherPointerUp
    PROVE  ToolsInv'
<1> USE DEF ToolsInv
<1>1. CASE PointerUp
  <2>1. CanvasReleases /\ HudReleases(Closed)
    BY <1>1 DEF PointerUp
  <2>2. /\ HeldByOne'
        /\ buffer' \in BOOLEAN /\ hud' \in [Presses -> {"rest", "pressed", "moving"}]
    BY <2>1, CanvasReleasesKeeps, HudReleasesHeld
  <2> QED
    BY <2>1, <2>2, CanvasReleasesKeeps DEF ToolsTypeOK, OnePress
<1>2. CASE PointerCancel
  <2>1. CanvasReleases /\ buffer' = Closed /\ hud' = hud
    BY <1>2 DEF PointerCancel
  <2>2. HeldByOne'
    BY <2>1, CanvasReleasesKeeps DEF HeldByOne, Moving
  <2> QED
    BY <2>1, <2>2, CanvasReleasesKeeps DEF ToolsTypeOK, OnePress
<1>3. CASE OtherPointerUp
  <2>1. /\ HudReleases(buffer)
        /\ UNCHANGED <<activeTool, selectState, marqueeShown, wireShown, shapeState, handHolds, pointerDown,
                       pointerActive, midPan, edgeArmed, spaceDown, toolBeforeSpace>>
    BY <1>3 DEF OtherPointerUp, selectVars, pointerVars, spaceVars
  <2>2. Selecting' = Selecting /\ Drawing' = Drawing /\ buffer \in BOOLEAN
    BY <2>1 DEF Selecting, Drawing, ToolsTypeOK
  <2>3. /\ HeldByOne'
        /\ buffer' \in BOOLEAN /\ hud' \in [Presses -> {"rest", "pressed", "moving"}]
    BY <2>1, <2>2, HudReleasesHeld DEF HeldByOne
  <2>4. ToolsTypeOK' /\ NothingOutlivesItsPress' /\ OnePress'
    BY <2>1, <2>3 DEF ToolsTypeOK, NothingOutlivesItsPress, OnePress
  <2> QED
    BY <2>3, <2>4
<1> QED
  BY <1>1, <1>2, <1>3

\* A frame of the edge scroll: the drag goes on with the pointer at rest.
LEMMA EdgeTickKeeps ==
    ASSUME ToolsInv, NEW far \in BOOLEAN, NEW atEdge \in BOOLEAN, EdgeTick(far, atEdge)
    PROVE  ToolsInv'
<1> USE DEF ToolsInv, spaceVars, selectVars
<1>0. UNCHANGED <<activeTool, shapeState, handHolds, pointerDown, pointerActive, midPan, spaceDown, toolBeforeSpace, hud>>
  BY DEF EdgeTick
<1>1. CASE EdgeScrolls /\ atEdge
  <2>1. /\ activeTool = "select" /\ pointerActive /\ SelectMoves(far)
        /\ buffer' = (buffer \/ SelectOpens(far)) /\ edgeArmed' = ~SelectThrows(far)
    BY <1>1 DEF EdgeTick, EdgeScrolls
  <2>2. /\ selectState' \in [kind : SelectKinds, gesture : BOOLEAN]
        /\ marqueeShown' \in BOOLEAN /\ wireShown' = wireShown
        /\ marqueeShown' => selectState'.kind = "marquee"
        /\ wireShown <=> selectState'.kind = "connecting"
        /\ (buffer \/ SelectOpens(far)) <=> Selecting' \/ Moving # {}
        /\ \A h \in Moving : ~Selecting'
    BY <2>1, SelectMovesKeeps
  <2>3. shapeState = "idle" /\ ~Drawing' /\ Moving' = Moving
    BY <1>0, <2>1 DEF NothingOutlivesItsPress, Drawing, Moving
  <2>4. HeldByOne'
    <3>1. buffer' <=> Selecting' \/ Moving # {}
      BY <2>1, <2>2
    <3>2. \A g, h \in Moving : g = h
      BY DEF HeldByOne
    <3> QED
      BY <2>2, <2>3, <3>1, <3>2 DEF HeldByOne
  <2>5. buffer' \in BOOLEAN /\ edgeArmed' \in BOOLEAN
    BY <2>1
  <2>6. ToolsTypeOK'
    BY <1>0, <2>2, <2>5 DEF ToolsTypeOK
  <2>7. NothingOutlivesItsPress' /\ OnePress'
    BY <1>0, <2>1, <2>2, <2>3 DEF NothingOutlivesItsPress, OnePress
  <2> QED
    BY <2>4, <2>6, <2>7
<1>2. CASE ~(EdgeScrolls /\ atEdge)
  <2>1. edgeArmed' = FALSE /\ UNCHANGED <<selectState, marqueeShown, wireShown, buffer>>
    BY <1>2 DEF EdgeTick
  <2> QED
    BY <1>0, <2>1
    DEF ToolsTypeOK, HeldByOne, Selecting, Drawing, Moving, NothingOutlivesItsPress, OnePress
<1> QED
  BY <1>1, <1>2

\* So does Escape.
LEMMA EscapeKeeps ==
    ASSUME ToolsInv, Escape
    PROVE  ToolsInv'
<1> USE DEF ToolsInv, spaceVars, selectVars
<1>0. /\ pointerActive' = FALSE /\ edgeArmed' = FALSE /\ handHolds' \in BOOLEAN
      /\ UNCHANGED <<activeTool, pointerDown, midPan, spaceDown, toolBeforeSpace, hud>>
  BY DEF Escape
<1>1. CASE activeTool = "select"
  <2>1. /\ shapeState' = shapeState /\ selectState' = SelectIdle /\ buffer' = SelectLets
        /\ marqueeShown' = (marqueeShown /\ selectState.kind # "marquee")
        /\ wireShown' = (wireShown /\ selectState.kind # "connecting")
    BY <1>1 DEF Escape, SelectAborts, SelectRests
  <2> QED
    BY <1>0, <1>1, <2>1
    DEF SelectLets, SelectIdle, SelectKinds, ToolsTypeOK, HeldByOne, Selecting, Drawing, Moving,
        NothingOutlivesItsPress, OnePress
<1>2. CASE activeTool = "shape"
  <2>1. shapeState' = "idle" /\ buffer' = ShapeLets /\ UNCHANGED <<selectState, marqueeShown, wireShown>>
    BY <1>2 DEF Escape
  <2> QED
    BY <1>0, <1>2, <2>1
    DEF ShapeLets, ToolsTypeOK, HeldByOne, Selecting, Drawing, Moving, NothingOutlivesItsPress, OnePress
<1>3. CASE activeTool = "hand"
  <2>1. UNCHANGED <<shapeState, buffer, selectState, marqueeShown, wireShown>>
    BY <1>3 DEF Escape
  <2> QED
    BY <1>0, <1>3, <2>1
    DEF ToolsTypeOK, HeldByOne, Selecting, Drawing, Moving, NothingOutlivesItsPress, OnePress
<1> QED
  BY <1>1, <1>2, <1>3 DEF ToolsTypeOK, ToolNames

\* Every event keeps it.
LEMMA ToolsInvStep == ToolsInv /\ [ToolsNext]_toolVars => ToolsInv'
<1> SUFFICES ASSUME ToolsInv, [ToolsNext]_toolVars PROVE ToolsInv'
  OBVIOUS
<1>1. CASE OtherPointerMove
  <2>1. /\ HudMoves(buffer)
        /\ UNCHANGED <<activeTool, selectState, marqueeShown, wireShown, shapeState, handHolds, pointerDown,
                       pointerActive, midPan, edgeArmed, spaceDown, toolBeforeSpace>>
    BY <1>1 DEF OtherPointerMove, selectVars, pointerVars, spaceVars
  <2>2. Selecting' = Selecting /\ Drawing' = Drawing /\ buffer \in BOOLEAN
        /\ selectState' \in [kind : SelectKinds, gesture : BOOLEAN]
    BY <2>1 DEF Selecting, Drawing, ToolsInv, ToolsTypeOK
  <2>3. /\ HeldByOne'
        /\ buffer' \in BOOLEAN /\ hud' \in [Presses -> {"rest", "pressed", "moving"}]
    BY <2>1, <2>2, HudMovesHeld DEF ToolsInv, HeldByOne
  <2> QED
    BY <2>1, <2>3 DEF ToolsInv, ToolsTypeOK, NothingOutlivesItsPress, OnePress
<1>2. ASSUME NEW h \in Presses, HudPress(h) PROVE ToolsInv'
  <2>1. /\ hud' = [hud EXCEPT ![h] = "pressed"] /\ hud[h] = "rest"
        /\ UNCHANGED <<activeTool, selectState, marqueeShown, wireShown, shapeState, handHolds, pointerDown,
                       pointerActive, midPan, edgeArmed, spaceDown, toolBeforeSpace, buffer>>
    BY <1>2 DEF HudPress, selectVars, pointerVars, spaceVars
  <2>2. Moving' = Moving
    BY <2>1 DEF Moving, ToolsInv, ToolsTypeOK
  <2>3. HeldByOne'
    BY <2>1, <2>2 DEF ToolsInv, HeldByOne, Selecting, Drawing
  <2> QED
    BY <2>1, <2>3 DEF ToolsInv, ToolsTypeOK, NothingOutlivesItsPress, OnePress
<1>3. CASE SpacePress
  <2>1. toolBeforeSpace' \in {"select", "shape", NoTool} /\ spaceDown' \in BOOLEAN
    BY <1>3 DEF SpacePress, ToolsInv, ToolsTypeOK, ToolNames
  <2> QED
    BY <1>3, <2>1, SetToolKeeps DEF SpacePress, ToolNames
<1>4. CASE SpaceRelease
  <2> DEFINE t == IF toolBeforeSpace = NoTool THEN activeTool ELSE toolBeforeSpace
  <2>1. t \in ToolNames /\ SetTool(t) /\ UNCHANGED <<handHolds, pointerVars, hud>>
        /\ toolBeforeSpace' = NoTool /\ spaceDown' = FALSE
    BY <1>4 DEF SpaceRelease, ToolsInv, ToolsTypeOK, ToolNames
  <2> HIDE DEF t
  <2> QED
    BY <2>1, SetToolKeeps
<1>5. ASSUME NEW t \in ToolNames, PickTool(t) PROVE ToolsInv'
  <2>1. toolBeforeSpace' \in {"select", "shape", NoTool} /\ spaceDown' \in BOOLEAN
    BY <1>5 DEF PickTool, spaceVars, ToolsInv, ToolsTypeOK
  <2> QED
    BY <1>5, <2>1, SetToolKeeps DEF PickTool
<1>6. CASE UNCHANGED toolVars
  BY <1>6
  DEF toolVars, selectVars, pointerVars, spaceVars, ToolsInv, ToolsTypeOK, HeldByOne, Selecting, Drawing, Moving,
      NothingOutlivesItsPress, OnePress
<1> QED
  BY <1>1, <1>2, <1>3, <1>4, <1>5, <1>6, PointerDownKeeps, PointerMoveKeeps, ReleasesKeep, EdgeTickKeeps,
     EscapeKeeps
  DEF ToolsNext

\* Whatever is pressed, moved, released, cancelled or switched, in any order and by any number of
\* pointers, the store's one buffer is open exactly for the one gesture somebody holds, and no press
\* leaves anything behind (interaction/src/manager.ts and its tools, NodeView.tsx).
THEOREM PressesStayClean == ToolsSpec => []PressesClean
<1>1. ToolsInv => PressesClean
  BY HoldersAreHeld DEF ToolsInv, PressesClean
<1>2. ToolsSpec => []ToolsInv
  BY ToolsInvInit, ToolsInvStep, PTL DEF ToolsSpec
<1> QED
  BY <1>1, <1>2, PTL

-----------------------------------------------------------------------------
(***************************************************************************)
(* Cards stay whole, for all sets of cards, wires and looks.               *)
(*                                                                         *)
(* ElementsWhole speaks of the store; what an undo or a redo does to it is *)
(* decided by the stacks, what another writer's command does by that       *)
(* writer's records.  So the invariant says that both writers' records are *)
(* whole but at the revived cards, and of every diff on the stacks that it *)
(* adds such a card's node and layout together and takes them together,    *)
(* and that what it says of a wire is a wire.  No card ceases to be        *)
(* revived, so a diff once made stays good.                                *)
(***************************************************************************)
WireVals == {wire(m, n) : m \in Cards, n \in Cards}

Adds(d, id) == id \in DOMAIN d /\ d[id].from = Absent
Takes(d, id) == id \in DOMAIN d /\ d[id].to = Absent

\* Diffs that treat the node and the layout of the cards of good alike, and wires as wires.
CardDiffs(good) ==
    {d \in Diffs :
        /\ \A n \in good : (Adds(d, n) <=> Adds(d, layoutId(n))) /\ (Takes(d, n) <=> Takes(d, layoutId(n)))
        /\ \A e \in Wires \cap DOMAIN d : {d[e].from, d[e].to} \subseteq WireVals \cup {Absent}}

WholeAt(records, n) == records[n] = Absent <=> records[layoutId(n)] = Absent
Wired(records) == \A e \in Wires : records[e] \in WireVals \cup {Absent}

\* One writer's records, whole at the cards of good.
SoundRecords(records, good) == records \in Records /\ Wired(records) /\ \A n \in good : WholeAt(records, n)

GoodCards == Cards \ revived

ElementsInv ==
    /\ SoundRecords(store, GoodCards) /\ SoundRecords(peer, GoodCards)
    /\ revived \subseteq Cards /\ loose \subseteq Wires
    /\ acts \in Seq(CardDiffs(GoodCards)) /\ redone \in Seq(CardDiffs(GoodCards))
    /\ Dangling(store) \subseteq loose

\* The three kinds of ids, told apart.
LEMMA ElementIdsApart ==
    /\ Cards \subseteq Ids /\ Layouts \subseteq Ids /\ Wires \subseteq Ids
    /\ \A n \in Cards : layoutId(n) \in Layouts /\ n \notin Layouts /\ n \notin Wires
    /\ \A n \in Layouts : n \notin Cards /\ n \notin Wires
    /\ \A n \in Wires : n \notin Cards /\ n \notin Layouts
    /\ \A m, n \in Cards : layoutId(m) = layoutId(n) => m = n
    /\ WireVals \subseteq Vals /\ Looks \subseteq Vals
<1>1. \A n \in Cards : layoutId(n) \in Layouts
  BY DEF Layouts
<1>2. \A m, n \in Cards : layoutId(m) = layoutId(n) => m = n
  BY DEF layoutId
<1> QED
  BY <1>1, <1>2, ElementAssumption DEF WireVals

\* What a command's writes are over its writer's records, whichever command it is: they leave a whole
\* card whole, write wires as wires, and take a card with the wires that touch it.
CommandKeeps(records, w) ==
    /\ w \in Writes
    /\ \A n \in Cards : WholeAt(records, n) => WholeAt(write(records, w), n)
    /\ \A e \in Wires \cap DOMAIN w : w[e] \in WireVals \cup {Absent}
    /\ \A n \in Cards \cap DOMAIN w : w[n] = Absent =>
           \A e \in Drawn(records) : n \in Ends(records, e) => e \in DOMAIN w /\ w[e] = Absent

\* A function over some ids with values of the store is a write.
LEMMA IsWrite ==
    ASSUME NEW S \in SUBSET Ids, NEW w \in [S -> Slot]
    PROVE  w \in Writes
BY DEF Writes

\* What a write leaves, id by id.
LEMMA WriteAt ==
    ASSUME NEW records, NEW w \in Writes, NEW id \in Ids
    PROVE  write(records, w)[id] = IF id \in DOMAIN w THEN w[id] ELSE records[id]
BY DEF write

\* A put within the bound writes no absence.
LEMMA PutsArePresent ==
    ASSUME NEW put, Range(put) \subseteq Vals
    PROVE  \A id \in DOMAIN put : put[id] \in Vals /\ put[id] # Absent
BY AbsentAssumption DEF Range

LEMMA AddNodeKeeps ==
    ASSUME NEW records \in Records, NEW n \in Cards, NEW look \in Looks,
           Range(addNode(records, n, look)) \subseteq Vals
    PROVE  CommandKeeps(records, addNode(records, n, look))
<1> DEFINE w == addNode(records, n, look)
<1>1. DOMAIN w = {n, layoutId(n)}
  BY DEF addNode
<1>2. \A id \in DOMAIN w : w[id] \in Vals /\ w[id] # Absent
  <2> HIDE DEF w
  <2> QED
    BY PutsArePresent DEF w
<1>3. w \in [{n, layoutId(n)} -> Slot]
  BY <1>2 DEF addNode, Slot
<1> HIDE DEF w
<1>4. w \in Writes
  BY <1>3, IsWrite, ElementIdsApart
<1>5. \A m \in Cards : WholeAt(records, m) => WholeAt(write(records, w), m)
  <2> SUFFICES ASSUME NEW m \in Cards, records[m] = Absent <=> records[layoutId(m)] = Absent
               PROVE  write(records, w)[m] = Absent <=> write(records, w)[layoutId(m)] = Absent
    BY DEF WholeAt
  <2>1. m \in Ids /\ layoutId(m) \in Ids /\ (layoutId(m) = layoutId(n) => m = n) /\ m # layoutId(n) /\ n # layoutId(m)
    BY ElementIdsApart
  <2> QED
    BY <1>1, <1>2, <1>4, <2>1, WriteAt
<1>6. Wires \cap DOMAIN w = {}
  BY <1>1, ElementIdsApart
<1> QED
  BY <1>2, <1>4, <1>5, <1>6 DEF CommandKeeps, w

LEMMA SetLookKeeps ==
    ASSUME NEW records \in Records, NEW n \in Cards, NEW look \in Looks
    PROVE  CommandKeeps(records, setLook(records, n, look))
<1> DEFINE w == setLook(records, n, look)
           S == {m \in {n} : records[m] # Absent}
<1>1. DOMAIN w = S /\ \A id \in S : w[id] = look
  BY DEF setLook
<1>2. look \in Vals /\ look # Absent /\ S \subseteq Cards /\ \A m \in S : records[m] # Absent
  BY ElementIdsApart, AbsentAssumption
<1>3. w \in [S -> Slot]
  BY <1>2 DEF setLook, Slot
<1> HIDE DEF w, S
<1>4. w \in Writes
  BY <1>2, <1>3, IsWrite, ElementIdsApart
<1>5. \A m \in Cards : WholeAt(records, m) => WholeAt(write(records, w), m)
  <2> SUFFICES ASSUME NEW m \in Cards, records[m] = Absent <=> records[layoutId(m)] = Absent
               PROVE  write(records, w)[m] = Absent <=> write(records, w)[layoutId(m)] = Absent
    BY DEF WholeAt
  <2>1. m \in Ids /\ layoutId(m) \in Ids /\ layoutId(m) \notin S
    BY <1>2, ElementIdsApart
  <2> QED
    BY <1>1, <1>2, <1>4, <2>1, WriteAt
<1>6. Wires \cap DOMAIN w = {}
  BY <1>1, <1>2, ElementIdsApart
<1> QED
  BY <1>1, <1>2, <1>4, <1>5, <1>6 DEF CommandKeeps, w

LEMMA BringToFrontKeeps ==
    ASSUME NEW records \in Records, NEW S \in SUBSET Cards,
           Range(bringToFront(records, S)) \subseteq Vals
    PROVE  CommandKeeps(records, bringToFront(records, S))
<1> DEFINE w == bringToFront(records, S)
           L == {layoutId(n) : n \in S \cap Placed(records)}
<1>1. DOMAIN w = L /\ w = [id \in L |-> w[id]]
  BY DEF bringToFront
<1> HIDE DEF w
<1>2. \A id \in DOMAIN w : w[id] \in Vals /\ w[id] # Absent
  BY PutsArePresent DEF w
<1>3. L \subseteq Layouts /\ \A id \in L : records[id] # Absent
  BY DEF Layouts, Placed
<1> HIDE DEF L
<1>4. w \in [L -> Slot]
  BY <1>1, <1>2 DEF Slot
<1>5. w \in Writes
  BY <1>3, <1>4, IsWrite, ElementIdsApart
<1>6. \A m \in Cards : WholeAt(records, m) => WholeAt(write(records, w), m)
  <2> SUFFICES ASSUME NEW m \in Cards, records[m] = Absent <=> records[layoutId(m)] = Absent
               PROVE  write(records, w)[m] = Absent <=> write(records, w)[layoutId(m)] = Absent
    BY DEF WholeAt
  <2>1. m \in Ids /\ layoutId(m) \in Ids /\ m \notin L
    BY <1>3, ElementIdsApart
  <2> QED
    BY <1>1, <1>2, <1>3, <1>5, <2>1, WriteAt
<1>7. Wires \cap DOMAIN w = {} /\ Cards \cap DOMAIN w = {}
  BY <1>1, <1>3, ElementIdsApart
<1> QED
  BY <1>5, <1>6, <1>7 DEF CommandKeeps, w

\* A wire's own commands write nothing but the wire.
LEMMA WireKeeps ==
    ASSUME NEW records \in Records, NEW e \in Wires, NEW val \in WireVals \cup {Absent}
    PROVE  CommandKeeps(records, [id \in {e} |-> val])
<1> DEFINE w == [id \in {e} |-> val]
<1>1. DOMAIN w = {e} /\ w[e] = val
  OBVIOUS
<1>2. w \in [{e} -> Slot]
  BY ElementIdsApart DEF Slot
<1> HIDE DEF w
<1>3. w \in Writes
  BY <1>2, IsWrite, ElementIdsApart
<1>4. \A m \in Cards : WholeAt(records, m) => WholeAt(write(records, w), m)
  <2> SUFFICES ASSUME NEW m \in Cards, records[m] = Absent <=> records[layoutId(m)] = Absent
               PROVE  write(records, w)[m] = Absent <=> write(records, w)[layoutId(m)] = Absent
    BY DEF WholeAt
  <2>1. m \in Ids /\ layoutId(m) \in Ids /\ m # e /\ layoutId(m) # e
    BY ElementIdsApart
  <2> QED
    BY <1>1, <1>3, <2>1, WriteAt
<1>5. Cards \cap DOMAIN w = {}
  BY <1>1, ElementIdsApart
<1> QED
  BY <1>1, <1>3, <1>4, <1>5 DEF CommandKeeps, w

LEMMA RemoveNodeKeeps ==
    ASSUME NEW records \in Records, NEW n \in Cards
    PROVE  CommandKeeps(records, removeNode(records, n))
<1> DEFINE w == removeNode(records, n)
           T == {e \in Drawn(records) : n \in Ends(records, e)}
           S == {n, layoutId(n)} \cup T
<1>1. DOMAIN w = S /\ \A id \in S : w[id] = Absent
  BY DEF removeNode
<1>2. w \in [S -> Slot]
  BY DEF removeNode, Slot
<1>3. T \subseteq Wires
  BY DEF Drawn
<1> HIDE DEF w, T
<1>4. w \in Writes
  BY <1>2, <1>3, IsWrite, ElementIdsApart
<1>5. \A m \in Cards : WholeAt(records, m) => WholeAt(write(records, w), m)
  <2> SUFFICES ASSUME NEW m \in Cards, records[m] = Absent <=> records[layoutId(m)] = Absent
               PROVE  write(records, w)[m] = Absent <=> write(records, w)[layoutId(m)] = Absent
    BY DEF WholeAt
  <2>1. /\ m \in Ids /\ layoutId(m) \in Ids /\ m \notin T /\ layoutId(m) \notin T
        /\ m # layoutId(n) /\ layoutId(m) # n /\ (layoutId(m) = layoutId(n) => m = n)
    BY <1>3, ElementIdsApart
  <2> QED
    BY <1>1, <1>4, <2>1, WriteAt
<1>6. \A m \in Cards \cap DOMAIN w : m = n
  BY <1>1, <1>3, ElementIdsApart
<1> QED
  BY <1>1, <1>4, <1>5, <1>6 DEF CommandKeeps, w, T

LEMMA CommandsKeep ==
    ASSUME NEW records \in Records, NEW w \in Commands(records)
    PROVE  CommandKeeps(records, w)
<1>1. CASE w \in Puts(records)
  <2>1. Range(w) \subseteq Vals
    BY <1>1 DEF Puts
  <2>2. CASE \E n \in Cards, look \in Looks : w = addNode(records, n, look)
    BY <2>1, <2>2, AddNodeKeeps
  <2>3. CASE \E n \in Cards, look \in Looks : w = setLook(records, n, look)
    BY <2>3, SetLookKeeps
  <2>4. CASE \E S \in (SUBSET Cards) \ {{}} : w = bringToFront(records, S)
    BY <2>1, <2>4, BringToFrontKeeps
  <2>5. CASE \E e \in Wires, m \in Cards, n \in Cards : w = addEdge(e, m, n)
    <3>1. PICK e \in Wires, m \in Cards, n \in Cards : w = addEdge(e, m, n)
      BY <2>5
    <3>2. wire(m, n) \in WireVals
      BY DEF WireVals
    <3> QED
      BY <3>1, <3>2, WireKeeps DEF addEdge
  <2> QED
    BY <1>1, <2>2, <2>3, <2>4, <2>5 DEF Puts
<1>2. CASE w \in Removals(records)
  <2>1. CASE \E n \in Cards : w = removeNode(records, n)
    BY <2>1, RemoveNodeKeeps
  <2>2. CASE \E e \in Wires : w = removeEdge(e)
    <3>1. PICK e \in Wires : w = removeEdge(e)
      BY <2>2
    <3>2. CommandKeeps(records, [id \in {e} |-> Absent])
      BY WireKeeps
    <3> QED
      BY <3>1, <3>2 DEF removeEdge
  <2> QED
    BY <1>2, <2>1, <2>2 DEF Removals
<1> QED
  BY <1>1, <1>2 DEF Commands


\* A diff is in one place added, taken, updated or untouched: what it does to an id, by what it says,
\* where it puts nothing back.
LEMMA AppliedAt ==
    ASSUME NEW d \in Diffs, NEW id \in Ids
    PROVE  /\ (id \in DOMAIN d /\ store[id] = Absent => Adds(d, id) \/ Takes(d, id)) =>
                  (Applied(d)[id] = Absent <=> (Takes(d, id) \/ (store[id] = Absent /\ ~Adds(d, id))))
           /\ Applied(d)[id] = IF id \in DOMAIN d THEN d[id].to ELSE store[id]
<1>1. id \in DOMAIN d => d[id].from # d[id].to
  BY DiffShape
<1> QED
  BY <1>1 DEF Applied, applyDiff, Takes, Adds

\* What a diff leaves whole: every good card of which it puts no record back.
LEMMA AppliedKeeps ==
    ASSUME NEW good \in SUBSET Cards, SoundRecords(store, good), NEW d \in CardDiffs(good)
    PROVE  SoundRecords(Applied(d), good \ Revives(d))
<1>1. d \in Diffs /\ store \in Records
  BY DEF CardDiffs, SoundRecords
<1>2. Applied(d) \in Records
  BY <1>1, DiffShape DEF Applied, applyDiff, Records
<1>3. ASSUME NEW n \in good \ Revives(d)
      PROVE  WholeAt(Applied(d), n)
  <2>1. n \in Cards /\ n \in Ids /\ layoutId(n) \in Ids
    BY ElementIdsApart
  <2>2. /\ Adds(d, n) <=> Adds(d, layoutId(n))
        /\ Takes(d, n) <=> Takes(d, layoutId(n))
    BY DEF CardDiffs
  <2>3. store[n] = Absent <=> store[layoutId(n)] = Absent
    BY DEF SoundRecords, WholeAt
  <2>4. ASSUME NEW id \in {n, layoutId(n)}, id \in DOMAIN d, store[id] = Absent
        PROVE  Adds(d, id) \/ Takes(d, id)
    BY <2>1, <2>4 DEF Revives, Adds, Takes
  <2> QED
    BY <1>1, <2>1, <2>2, <2>3, <2>4, AppliedAt DEF WholeAt
<1>4. Wired(Applied(d))
  <2> SUFFICES ASSUME NEW e \in Wires
               PROVE  Applied(d)[e] \in WireVals \cup {Absent}
    BY DEF Wired
  <2>1. e \in Ids
    BY ElementIdsApart
  <2>2. e \in DOMAIN d => d[e].to \in WireVals \cup {Absent}
    BY DEF CardDiffs
  <2>3. store[e] \in WireVals \cup {Absent}
    BY DEF SoundRecords, Wired
  <2> QED
    BY <1>1, <2>1, <2>2, <2>3, AppliedAt
<1> QED
  BY <1>2, <1>3, <1>4 DEF SoundRecords

\* The inverse of what is on a stack may go on the other.
LEMMA InverseIsCardDiff ==
    ASSUME NEW good \in SUBSET Cards, NEW d \in CardDiffs(good)
    PROVE  invertDiff(d) \in CardDiffs(good)
<1>1. invertDiff(d) \in Diffs
  BY InvertType DEF CardDiffs
<1>2. /\ DOMAIN invertDiff(d) = DOMAIN d
      /\ \A id \in DOMAIN d : invertDiff(d)[id].from = d[id].to /\ invertDiff(d)[id].to = d[id].from
  BY DEF invertDiff
<1>3. \A id : (Adds(invertDiff(d), id) <=> Takes(d, id)) /\ (Takes(invertDiff(d), id) <=> Adds(d, id))
  BY <1>2 DEF Adds, Takes
<1> HIDE DEF invertDiff
<1>4. \A n \in good : /\ Adds(invertDiff(d), n) <=> Adds(invertDiff(d), layoutId(n))
                      /\ Takes(invertDiff(d), n) <=> Takes(invertDiff(d), layoutId(n))
  <2>1. \A n \in good : (Adds(d, n) <=> Adds(d, layoutId(n))) /\ (Takes(d, n) <=> Takes(d, layoutId(n)))
    BY DEF CardDiffs
  <2> QED
    BY <1>3, <2>1
<1>5. \A e \in Wires \cap DOMAIN invertDiff(d) :
          {invertDiff(d)[e].from, invertDiff(d)[e].to} \subseteq WireVals \cup {Absent}
  BY <1>2 DEF CardDiffs
<1> QED
  BY <1>1, <1>4, <1>5 DEF CardDiffs

\* A command leaves its writer's records as sound as they were.
LEMMA WrittenIsSound ==
    ASSUME NEW good \in SUBSET Cards, NEW records, SoundRecords(records, good), NEW w \in Commands(records)
    PROVE  SoundRecords(write(records, w), good)
<1>1. records \in Records /\ Wired(records) /\ \A n \in good : n \in Cards /\ WholeAt(records, n)
  BY DEF SoundRecords
<1>2. CommandKeeps(records, w)
  BY <1>1, CommandsKeep
<1>3. write(records, w) \in Records
  BY <1>1, <1>2, RecordsType DEF CommandKeeps
<1>4. \A n \in good : WholeAt(write(records, w), n)
  BY <1>1, <1>2 DEF CommandKeeps
<1>5. Wired(write(records, w))
  BY <1>1, <1>2, ElementIdsApart DEF CommandKeeps, Wired, write
<1> QED
  BY <1>3, <1>4, <1>5 DEF SoundRecords

\* A command's diff treats node and layout alike, because the records are whole before and after it.
LEMMA BuiltIsCardDiff ==
    ASSUME NEW good \in SUBSET Cards, NEW records, SoundRecords(records, good), NEW w \in Commands(records)
    PROVE  /\ DiffOf(records, w) \in CardDiffs(good)
           /\ \A id \in Ids : id \in DOMAIN w /\ w[id] # records[id] => id \in DOMAIN DiffOf(records, w)
           /\ \A id \in DOMAIN DiffOf(records, w) : id \in DOMAIN w /\ DiffOf(records, w)[id].to = w[id]
<1> DEFINE d == DiffOf(records, w)
           after == write(records, w)
<1>0. records \in Records
  BY DEF SoundRecords
<1>1. CommandKeeps(records, w) /\ w \in Writes
  BY <1>0, CommandsKeep DEF CommandKeeps
<1>2. d \in Diffs /\ BasedOn(d, records) /\ applyDiff(records, d) = after
  BY <1>0, <1>1, TransactionDiffExact DEF DiffOf
<1>3. SoundRecords(after, good)
  BY WrittenIsSound
<1>4. \A id \in Ids : after[id] = IF id \in DOMAIN w THEN w[id] ELSE records[id]
  BY <1>1, WriteAt
<1> HIDE DEF d, after
<1>5. /\ \A id \in DOMAIN d : d[id].from = records[id] /\ d[id].to = after[id] /\ d[id].from # d[id].to
      /\ \A id \in Ids \ DOMAIN d : after[id] = records[id]
      /\ DOMAIN d \subseteq Ids
  BY <1>2, DiffShape DEF BasedOn, applyDiff
<1>6. \A id \in Ids : /\ Adds(d, id) <=> records[id] = Absent /\ after[id] # Absent
                      /\ Takes(d, id) <=> records[id] # Absent /\ after[id] = Absent
  BY <1>5 DEF Adds, Takes
<1>7. ASSUME NEW n \in good
      PROVE  (Adds(d, n) <=> Adds(d, layoutId(n))) /\ (Takes(d, n) <=> Takes(d, layoutId(n)))
  <2>1. n \in Ids /\ layoutId(n) \in Ids
    BY ElementIdsApart
  <2> QED
    BY <1>3, <1>6, <2>1 DEF SoundRecords, WholeAt
<1>8. \A e \in Wires \cap DOMAIN d : {d[e].from, d[e].to} \subseteq WireVals \cup {Absent}
  BY <1>3, <1>5 DEF SoundRecords, Wired
<1>9. d \in CardDiffs(good)
  BY <1>2, <1>7, <1>8 DEF CardDiffs
<1>10. /\ \A id \in Ids : id \in DOMAIN w /\ w[id] # records[id] => id \in DOMAIN d
       /\ \A id \in DOMAIN d : id \in DOMAIN w /\ d[id].to = w[id]
  BY <1>4, <1>5
<1> QED
  BY <1>9, <1>10 DEF d

\* A command's diff, applied where the records are not its writer's, leaves no wire dangling that it
\* does not write, unless the two differ about the wire.
LEMMA CommandLeavesNone ==
    ASSUME SoundRecords(store, {}), Dangling(store) \subseteq loose,
           NEW records, SoundRecords(records, {}), NEW w \in Commands(records),
           NEW e \in Dangling(Applied(DiffOf(records, w))), e \notin DOMAIN DiffOf(records, w), records[e] = store[e]
    PROVE  e \in loose
<1> DEFINE d == DiffOf(records, w)
           after == Applied(d)
<1>1. e \in Wires /\ after[e] # Absent /\ e \in Ids
  BY ElementIdsApart DEF Dangling, Drawn
<1>2. /\ CommandKeeps(records, w)
      /\ d \in Diffs
      /\ \A id \in Ids : id \in DOMAIN w /\ w[id] # records[id] => id \in DOMAIN d
      /\ \A id \in DOMAIN d : id \in DOMAIN w /\ d[id].to = w[id]
  <2>1. records \in Records /\ {} \subseteq Cards
    BY DEF SoundRecords
  <2>2. CommandKeeps(records, w)
    BY <2>1, CommandsKeep
  <2>3. /\ d \in CardDiffs({})
        /\ \A id \in Ids : id \in DOMAIN w /\ w[id] # records[id] => id \in DOMAIN d
        /\ \A id \in DOMAIN d : id \in DOMAIN w /\ d[id].to = w[id]
    BY <2>1, BuiltIsCardDiff
  <2>4. d \in Diffs
    BY <2>3 DEF CardDiffs
  <2> QED
    BY <2>2, <2>3, <2>4
<1>3. \A id \in Ids : after[id] = IF id \in DOMAIN d THEN d[id].to ELSE store[id]
  BY <1>2, AppliedAt
<1>4. PICK n \in Ends(after, e) : after[n] = Absent
  BY DEF Dangling
<1>5. e \notin DOMAIN d
  OBVIOUS
<1> HIDE DEF d, after
<1>6. after[e] = store[e] /\ n \in Ends(records, e) /\ e \in Drawn(records) /\ e \in Drawn(store) /\ n \in Ends(store, e)
  BY <1>1, <1>3, <1>4, <1>5 DEF Ends, Drawn
<1>7. PICK j, k \in Cards : store[e] = wire(j, k)
  BY <1>1, <1>6 DEF SoundRecords, Wired, WireVals
<1>8. n \in Cards /\ n \in Ids
  BY <1>6, <1>7, ElementIdsApart DEF Ends, wire
<1>9. n \notin DOMAIN d
  <2> SUFFICES ASSUME n \in DOMAIN d PROVE FALSE
    OBVIOUS
  <2>1. n \in DOMAIN w /\ w[n] = Absent
    BY <1>2, <1>3, <1>4, <1>8
  <2>2. e \in DOMAIN w /\ w[e] = Absent
    BY <1>2, <1>6, <1>8, <2>1 DEF CommandKeeps
  <2> QED
    BY <1>1, <1>2, <1>5, <1>6, <2>2 DEF Drawn
<1>10. store[n] = Absent
  BY <1>3, <1>4, <1>8, <1>9
<1> QED
  BY <1>6, <1>10 DEF Dangling

\* What Front and Last are of a stack with something on it.
LEMMA StackTop ==
    ASSUME NEW good, NEW s \in Seq(CardDiffs(good)), s # <<>>
    PROVE  Last(s) \in CardDiffs(good) /\ Front(s) \in Seq(CardDiffs(good))
BY DEF Last, Front

\* With fewer cards to be good about, every diff on a stack is still good.
LEMMA StackStays ==
    ASSUME NEW good, NEW fewer \in SUBSET good, NEW s \in Seq(CardDiffs(good))
    PROVE  s \in Seq(CardDiffs(fewer))
<1>1. CardDiffs(good) \subseteq CardDiffs(fewer)
  BY DEF CardDiffs
<1> QED
  BY <1>1

LEMMA SoundStays ==
    ASSUME NEW good, NEW fewer \in SUBSET good, NEW records, SoundRecords(records, good)
    PROVE  SoundRecords(records, fewer)
BY DEF SoundRecords

LEMMA ElementsInvInit == ElementsInit => ElementsInv
<1> SUFFICES ASSUME ElementsInit PROVE ElementsInv
  OBVIOUS
<1>1. peer = store /\ \A id \in Ids : store[id] = Absent
  BY DEF ElementsInit
<1>2. store \in Records
  BY DEF ElementsInit, Records, Slot
<1>3. Dangling(store) = {}
  BY <1>1, ElementIdsApart DEF Dangling, Drawn
<1>4. SoundRecords(store, GoodCards)
  BY <1>1, <1>2, ElementIdsApart DEF SoundRecords, Wired, WholeAt, GoodCards
<1> QED
  BY <1>1, <1>3, <1>4 DEF ElementsInit, ElementsInv

LEMMA ElementsInvStep == ElementsInv /\ [ElementsNext]_elementVars => ElementsInv'
<1> SUFFICES ASSUME ElementsInv, [ElementsNext]_elementVars
             PROVE  ElementsInv'
  OBVIOUS
<1>1. /\ SoundRecords(store, GoodCards) /\ SoundRecords(peer, GoodCards) /\ revived \subseteq Cards /\ loose \subseteq Wires
      /\ acts \in Seq(CardDiffs(GoodCards)) /\ redone \in Seq(CardDiffs(GoodCards)) /\ Dangling(store) \subseteq loose
      /\ GoodCards \subseteq Cards
  BY DEF ElementsInv, GoodCards
<1>2. SoundRecords(store, {}) /\ SoundRecords(peer, {})
  BY <1>1, SoundStays
<1>3. \A records : Dangling(records) \subseteq Wires
  BY DEF Dangling, Drawn
<1>4. \A good, s, x : s \in Seq(CardDiffs(good)) /\ x \in CardDiffs(good) => Append(s, x) \in Seq(CardDiffs(good))
  OBVIOUS
<1>5. CASE Command
  <2>1. PICK w \in Commands(store) :
            /\ store' = write(store, w)
            /\ loose' = (loose \cup DOMAIN w) \cap Dangling(store')
            /\ IF isEmptyDiff(DiffOf(store, w)) THEN UNCHANGED <<acts, redone>>
               ELSE acts' = Append(acts, invertDiff(DiffOf(store, w))) /\ redone' = <<>>
    BY <1>5 DEF Command
  <2>2. UNCHANGED <<peer, revived>> /\ GoodCards' = GoodCards
    BY <1>5 DEF Command, GoodCards
  <2>3. SoundRecords(store', GoodCards)
    BY <1>1, <2>1, WrittenIsSound
  <2>4. /\ DiffOf(store, w) \in CardDiffs(GoodCards)
        /\ \A id \in DOMAIN DiffOf(store, w) : id \in DOMAIN w
    BY <1>1, BuiltIsCardDiff
  <2>5. invertDiff(DiffOf(store, w)) \in CardDiffs(GoodCards)
    BY <1>1, <2>4, InverseIsCardDiff
  <2>6. acts' \in Seq(CardDiffs(GoodCards)) /\ redone' \in Seq(CardDiffs(GoodCards))
    <3>1. <<>> \in Seq(CardDiffs(GoodCards))
      OBVIOUS
    <3> QED
      BY <1>1, <1>4, <2>1, <2>5, <3>1
  <2>7. store' = Applied(DiffOf(store, w))
    <3>1. store \in Records /\ w \in Writes
      BY <1>1, CommandsKeep DEF SoundRecords, CommandKeeps
    <3> QED
      BY <2>1, <3>1, TransactionDiffExact DEF DiffOf, Applied
  <2>8. Dangling(store') \subseteq loose \cup DOMAIN w
    BY <1>1, <1>2, <2>4, <2>7, CommandLeavesNone
  <2>9. Dangling(store') \subseteq loose' /\ loose' \subseteq Wires
    BY <1>3, <2>1, <2>8
  <2> QED
    BY <1>1, <2>2, <2>3, <2>6, <2>9 DEF ElementsInv
<1>6. CASE Remote
  <2>1. PICK w \in Commands(peer) :
            /\ store' = Applied(DiffOf(peer, w)) /\ peer' = write(peer, w)
            /\ loose' = (loose \cup DOMAIN DiffOf(peer, w) \cup {e \in Wires : peer[e] # store[e]}) \cap Dangling(store')
            /\ revived' = revived \cup Revives(DiffOf(peer, w))
    BY <1>6 DEF Remote
  <2>2. UNCHANGED <<acts, redone>>
    BY <1>6 DEF Remote
  <2>3. /\ GoodCards' = GoodCards \ Revives(DiffOf(peer, w)) /\ GoodCards' \in SUBSET GoodCards
        /\ revived' \subseteq Cards
    BY <1>1, <2>1 DEF GoodCards, Revives
  <2>4. DiffOf(peer, w) \in CardDiffs(GoodCards)
    BY <1>1, BuiltIsCardDiff
  <2>5. SoundRecords(store', GoodCards')
    BY <1>1, <2>1, <2>3, <2>4, AppliedKeeps
  <2>6. SoundRecords(peer', GoodCards')
    BY <1>1, <2>1, <2>3, WrittenIsSound, SoundStays
  <2>7. acts' \in Seq(CardDiffs(GoodCards')) /\ redone' \in Seq(CardDiffs(GoodCards'))
    BY <1>1, <2>2, <2>3, StackStays
  <2>8. ASSUME NEW e \in Dangling(store') PROVE e \in loose'
    <3>1. e \in Wires
      BY <1>3
    <3>2. e \in loose \/ e \in DOMAIN DiffOf(peer, w) \/ peer[e] # store[e]
      BY <1>1, <1>2, <2>1, <2>8, CommandLeavesNone
    <3> QED
      BY <2>1, <3>1, <3>2
  <2>9. Dangling(store') \subseteq loose' /\ loose' \subseteq Wires
    BY <1>3, <2>1, <2>8
  <2> QED
    BY <2>3, <2>5, <2>6, <2>7, <2>9 DEF ElementsInv
<1>7. CASE PeerCatchesUp
  <2>1. peer' = store /\ UNCHANGED <<store, acts, redone, loose, revived>> /\ GoodCards' = GoodCards
    BY <1>7 DEF PeerCatchesUp, GoodCards
  <2>2. Dangling(store') = Dangling(store)
    BY <2>1
  <2> QED
    BY <1>1, <2>1, <2>2 DEF ElementsInv
<1>8. ASSUME NEW d \in CardDiffs(GoodCards), Step(d)
      PROVE  /\ SoundRecords(store', GoodCards') /\ SoundRecords(peer', GoodCards') /\ GoodCards' \in SUBSET GoodCards
             /\ revived' \subseteq Cards /\ loose' \subseteq Wires /\ Dangling(store') \subseteq loose'
  <2>1. /\ store' = Applied(d) /\ loose' = Dangling(store') /\ revived' = revived \cup Revives(d)
        /\ peer' = peer
    BY <1>8 DEF Step
  <2>2. GoodCards' = GoodCards \ Revives(d) /\ GoodCards' \in SUBSET GoodCards /\ revived' \subseteq Cards
    BY <1>1, <2>1 DEF GoodCards, Revives
  <2> QED
    BY <1>1, <1>3, <2>1, <2>2, AppliedKeeps, SoundStays
<1>9. CASE Undo
  <2>1. acts # <<>> /\ Step(Last(acts)) /\ acts' = Front(acts) /\ redone' = Append(redone, invertDiff(Last(acts)))
    BY <1>9 DEF Undo
  <2>2. Last(acts) \in CardDiffs(GoodCards) /\ Front(acts) \in Seq(CardDiffs(GoodCards))
    BY <1>1, <2>1, StackTop
  <2>3. invertDiff(Last(acts)) \in CardDiffs(GoodCards)
    BY <1>1, <2>2, InverseIsCardDiff
  <2>4. acts' \in Seq(CardDiffs(GoodCards)) /\ redone' \in Seq(CardDiffs(GoodCards))
    BY <1>1, <1>4, <2>1, <2>2, <2>3
  <2>5. GoodCards' \in SUBSET GoodCards
    BY <1>8, <2>1, <2>2
  <2>6. acts' \in Seq(CardDiffs(GoodCards')) /\ redone' \in Seq(CardDiffs(GoodCards'))
    BY <2>4, <2>5, StackStays
  <2> QED
    BY <1>8, <2>1, <2>2, <2>6 DEF ElementsInv
<1>10. CASE Redo
  <2>1. redone # <<>> /\ Step(Last(redone)) /\ redone' = Front(redone) /\ acts' = Append(acts, invertDiff(Last(redone)))
    BY <1>10 DEF Redo
  <2>2. Last(redone) \in CardDiffs(GoodCards) /\ Front(redone) \in Seq(CardDiffs(GoodCards))
    BY <1>1, <2>1, StackTop
  <2>3. invertDiff(Last(redone)) \in CardDiffs(GoodCards)
    BY <1>1, <2>2, InverseIsCardDiff
  <2>4. acts' \in Seq(CardDiffs(GoodCards)) /\ redone' \in Seq(CardDiffs(GoodCards))
    BY <1>1, <1>4, <2>1, <2>2, <2>3
  <2>5. GoodCards' \in SUBSET GoodCards
    BY <1>8, <2>1, <2>2
  <2>6. acts' \in Seq(CardDiffs(GoodCards')) /\ redone' \in Seq(CardDiffs(GoodCards'))
    BY <2>4, <2>5, StackStays
  <2> QED
    BY <1>8, <2>1, <2>2, <2>6 DEF ElementsInv
<1>11. CASE UNCHANGED elementVars
  <2>1. UNCHANGED <<store, peer, acts, redone, loose, revived>> /\ GoodCards' = GoodCards
    BY <1>11 DEF elementVars, GoodCards
  <2>2. Dangling(store') = Dangling(store)
    BY <2>1
  <2> QED
    BY <1>1, <2>1, <2>2 DEF ElementsInv
<1> QED
  BY <1>5, <1>6, <1>7, <1>9, <1>10, <1>11 DEF ElementsNext

\* Whoever adds, removes, raises, wires and undoes across whom, and however far behind the other writer
\* is, a card's node and layout are there together or gone together unless an update has put a removed
\* record of the card back, and only an undo, a wire drawn to a missing card or a writer who did not
\* know the wire leaves a wire loose: the commands of core/src/commands.ts, the diffs UndoManager
\* applies over other writers' changes, and the unconditional puts of core/src/store.ts.
THEOREM CardsStayWhole == ElementsSpec => []ElementsWhole
<1>1. ElementsInv => ElementsWhole
  BY DEF ElementsInv, ElementsWhole, SoundRecords, WholeAt, GoodCards
<1> QED
  BY <1>1, ElementsInvInit, ElementsInvStep, PTL DEF ElementsSpec


-----------------------------------------------------------------------------
(***************************************************************************)
(* A file in a tab, for every number of changes, cards and faults.         *)
(*                                                                         *)
(* Where CardsShowDisk speaks of a tab at rest, the invariant says what is *)
(* under way to a tab that is not: the watcher has yet to tell, or the     *)
(* last event on its way tells what is on disk, or the tab shows it, or    *)
(* has asked for it with a request that is not served yet or has read it.  *)
(* Each part of what is shown has its own form of this, since a body is    *)
(* fetched after an event, a tombstone set by it, and a listing fetched    *)
(* only after one that is no change.                                       *)
(***************************************************************************)
FileStates == [there : BOOLEAN, at : Nat]
Calls == [by : {"lazy", "listing", "watch", "save"}, since : Nat, got : FileStates \cup {NotRead}]
Frames == [type : {"change", "add", "unlink"}, at : Nat]

CacheTyped ==
    /\ onDisk \in FileStates /\ toldFile \in FileStates /\ watchFrames \in Seq(Frames) /\ fileCalls \subseteq Calls
    /\ socketUp \in BOOLEAN /\ watching \in BOOLEAN /\ watcher \in {"off", "scanning", "ready"}
    /\ cached \in Nat \cup {NotRead} /\ gone \in BOOLEAN /\ listed \in BOOLEAN \cup {NotRead}
    /\ shownAt \in [body : Nat, gone : Nat]

\* The watch is there when a card needs it and the socket is up, and only a watch that is up tells.
WatchKept ==
    /\ pinned # {} => watching
    /\ watcher # "off" <=> socketUp /\ watching
    /\ watchFrames # <<>> => watcher = "ready"

\* Nothing that was read is newer than the disk, and what is as new is the same.
NoNewer(file) == file.at <= onDisk.at /\ (file.at = onDisk.at => file = onDisk)
Dated ==
    /\ NoNewer(toldFile)
    /\ \A call \in fileCalls : call.got # NotRead => NoNewer(call.got)
    /\ cached # NotRead => shownAt.body = cached

HasBody == "file" \in pinned \/ cached # NotRead \/ \E call \in fileCalls : call.by # "listing"
HasListing == "folder" \in pinned \/ listed # NotRead \/ Asked("listing") # {}

Untold == watcher = "ready" /\ toldFile # onDisk
LastTells ==
    /\ watchFrames # <<>> /\ watchFrames[Len(watchFrames)].at = onDisk.at
    /\ watchFrames[Len(watchFrames)].type = "unlink" <=> ~onDisk.there
WillBring(call) == call.got = NotRead \/ call.got = onDisk

BodyFollows ==
    cached = onDisk.at \/ \E call \in fileCalls : call.by \in {"lazy", "watch"} /\ WillBring(call)
GoneFollows ==
    \/ shownAt.gone = onDisk.at /\ gone = ~onDisk.there
    \/ \E call \in fileCalls : call.by = "lazy" /\ WillBring(call)
ListingFollows ==
    /\ \A call \in Asked("listing") : call.got = NotRead \/ call.got.there = onDisk.there
    /\ listed = onDisk.there \/ Asked("listing") # {}

BodyKept ==
    HasBody /\ "body" \notin excused /\ onDisk.there =>
        Untold \/ LastTells \/ (watchFrames = <<>> /\ BodyFollows)
GoneKept ==
    HasBody /\ "gone" \notin excused =>
        Untold \/ LastTells \/ (watchFrames = <<>> /\ GoneFollows)
ListingKept ==
    HasListing /\ "listing" \notin excused =>
        \/ Untold /\ (toldFile.there # onDisk.there \/ onDisk.at > toldFile.at + 1)
        \/ \E i \in DOMAIN watchFrames : watchFrames[i].type # "change"
        \/ ListingFollows

\* The last event tells what is on disk, unless one of a file that came and went was left out.
EventsTell == watchFrames # <<>> => Untold \/ LastTells \/ ShownParts \subseteq excused

CacheInv == CacheTyped /\ WatchKept /\ Dated /\ EventsTell /\ BodyKept /\ GoneKept /\ ListingKept

LEMMA FilesApart ==
    /\ NotRead \notin Nat /\ NotRead \notin BOOLEAN /\ NotRead \notin FileStates
    /\ \A f \in FileStates : f.at \in Nat /\ f.there \in BOOLEAN
    /\ \A f, g \in FileStates : f.at = g.at /\ f.there = g.there => f = g
<1>1. NotRead \notin Nat /\ NotRead \notin BOOLEAN /\ NotRead \notin FileStates
  BY FileCacheAssumption DEF FileStates
<1>2. \A f \in FileStates : f.at \in Nat /\ f.there \in BOOLEAN
  BY DEF FileStates
<1>3. \A f, g \in FileStates : f.at = g.at /\ f.there = g.there => f = g
  BY DEF FileStates
<1> QED
  BY <1>1, <1>2, <1>3

LEMMA CacheInit == FileCacheInit => CacheInv
<1> SUFFICES ASSUME FileCacheInit PROVE CacheInv
  OBVIOUS
<1>1. /\ onDisk \in [there : BOOLEAN, at : {0}] /\ toldFile = onDisk
      /\ socketUp = TRUE /\ watcher = "off" /\ watchFrames = <<>> /\ pinned = {} /\ watching = FALSE
      /\ cached = NotRead /\ gone = FALSE /\ listed = NotRead /\ fileCalls = {}
      /\ shownAt = [body |-> 0, gone |-> 0]
  BY DEF FileCacheInit
<1>2. onDisk \in FileStates /\ watchFrames \in Seq(Frames)
  BY <1>1 DEF FileStates
<1>3. CacheTyped
  BY <1>1, <1>2 DEF CacheTyped
<1>4. WatchKept /\ Dated
  BY <1>1, <1>2 DEF WatchKept, Dated, NoNewer, FileStates
<1>5. ~HasBody /\ ~HasListing
  BY <1>1 DEF HasBody, HasListing, Asked
<1> QED
  BY <1>1, <1>3, <1>4, <1>5 DEF CacheInv, BodyKept, GoneKept, ListingKept, EventsTell

\* What the tab has is what MissedIf excuses.
LEMMA HasIsShown == HasBody \/ HasListing => HasShown
BY DEF HasBody, HasListing, HasShown, Asked

\* The disk changes: the watcher has yet to tell of it, or everything is excused.
LEMMA ChangeKeeps ==
    ASSUME CacheInv, NEW there \in BOOLEAN, ChangedTo(there),
           fileCalls' = fileCalls \/ \E call \in Calls : call.by = "save" /\ call.got = onDisk' /\ fileCalls' = fileCalls \cup {call},
           fileCalls' # fileCalls => "file" \in pinned,
           UNCHANGED <<socketUp, watcher, toldFile, watchFrames, pinned, watching, cached, gone, listed, shownAt>>
    PROVE  CacheInv'
<1>1. /\ onDisk' = [there |-> there, at |-> onDisk.at + 1]
      /\ excused' = excused \cup (IF watcher # "ready" /\ HasShown THEN ShownParts ELSE {})
  BY DEF ChangedTo, MissedIf
<1>2. /\ CacheTyped /\ WatchKept /\ Dated
      /\ onDisk.at \in Nat /\ toldFile.at \in Nat /\ onDisk'.at = onDisk.at + 1 /\ onDisk'.there = there
      /\ onDisk' \in FileStates
  BY <1>1 DEF CacheInv, CacheTyped, FileStates
<1>3. fileCalls \subseteq fileCalls' /\ fileCalls' \subseteq Calls
      /\ \A call \in fileCalls' : call \in fileCalls \/ (call.by = "save" /\ call.got = onDisk')
  BY <1>2 DEF CacheTyped
<1>4. CacheTyped'
  BY <1>2, <1>3 DEF CacheTyped
<1>5. WatchKept'
  BY <1>2 DEF WatchKept
<1>6. Dated'
  <2>2. NoNewer(toldFile)'
    BY <1>2 DEF NoNewer, Dated, CacheTyped, FileStates
  <2>3. ASSUME NEW call \in fileCalls', call.got # NotRead PROVE NoNewer(call.got)'
    <3>1. CASE call \in fileCalls
      <4>1. call.got \in FileStates /\ NoNewer(call.got)
        BY <1>2, <2>3, <3>1 DEF Dated, CacheTyped, Calls
      <4> QED
        BY <1>2, <4>1 DEF NoNewer, FileStates
    <3>2. CASE call.got = onDisk'
      BY <1>2, <3>2 DEF NoNewer
    <3> QED
      BY <1>3, <3>1, <3>2
  <2> QED
    BY <1>2, <2>2, <2>3 DEF Dated
<1>7. watcher = "ready" => Untold'
  BY <1>2 DEF Untold, Dated, NoNewer
<1>8. HasBody' => HasBody
  BY <1>3 DEF HasBody
<1>9. Asked("listing")' = Asked("listing")
  BY <1>3 DEF Asked
<1>10. HasListing' => HasListing
  BY <1>9 DEF HasListing
<1>11. CASE watcher # "ready"
  <2>1. EventsTell'
    BY <1>2, <1>11 DEF EventsTell, WatchKept
  <2> QED
    BY <1>1, <1>4, <1>5, <1>6, <1>8, <1>10, <1>11, <2>1, HasIsShown
      DEF CacheInv, BodyKept, GoneKept, ListingKept, ShownParts
<1>12. CASE watcher = "ready"
  <2>1. BodyKept' /\ GoneKept' /\ EventsTell'
    BY <1>7, <1>12 DEF BodyKept, GoneKept, EventsTell
  <2>2. ListingKept'
    <3> SUFFICES ASSUME HasListing, "listing" \notin excused PROVE
            \/ toldFile.there # there \/ onDisk.at + 1 > toldFile.at + 1
            \/ \E i \in DOMAIN watchFrames : watchFrames[i].type # "change"
            \/ ListingFollows'
      BY <1>1, <1>2, <1>7, <1>10, <1>12 DEF ListingKept
    <3>1. CASE toldFile = onDisk
      <4>1. CASE there = onDisk.there
        <5>1. ListingFollows \/ \E i \in DOMAIN watchFrames : watchFrames[i].type # "change"
          BY <3>1 DEF CacheInv, ListingKept, Untold
        <5>2. ListingFollows => ListingFollows'
          BY <1>2, <1>9, <4>1 DEF ListingFollows
        <5> QED
          BY <5>1, <5>2
      <4> QED
        BY <3>1, <4>1
    <3>2. CASE toldFile # onDisk
      BY <1>2, <3>2 DEF Dated, NoNewer
    <3> QED
      BY <3>1, <3>2
  <2> QED
    BY <1>4, <1>5, <1>6, <2>1, <2>2 DEF CacheInv
<1> QED
  BY <1>11, <1>12

\* The watch comes up, goes down or is not needed: what it had to tell is excused.
LEMMA WatchKeeps ==
    ASSUME CacheInv, Scanned \/ Drops \/ Reconnects \/ WatchCloses
    PROVE  CacheInv'
<1>1. CacheTyped /\ WatchKept /\ Dated
  BY DEF CacheInv
<1>2. /\ UNCHANGED <<onDisk, pinned, cached, gone, listed, fileCalls, shownAt>>
      /\ excused \subseteq excused'
      /\ toldFile' \in {toldFile, onDisk} /\ watchFrames' \in {watchFrames, <<>>}
  BY DEF Scanned, Drops, Reconnects, WatchCloses, MissedIf, tabVars
<1>3. CacheTyped'
  <2>1. /\ socketUp' \in BOOLEAN /\ watching' \in BOOLEAN /\ watcher' \in {"off", "scanning", "ready"}
    BY <1>1 DEF Scanned, Drops, Reconnects, WatchCloses, CacheTyped
  <2>2. <<>> \in Seq(Frames)
    OBVIOUS
  <2> QED
    BY <1>1, <1>2, <2>1, <2>2 DEF CacheTyped
<1>4. WatchKept'
  BY <1>1 DEF Scanned, Drops, Reconnects, WatchCloses, WatchKept, CacheTyped, tabVars
<1>5. Dated'
  <2>1. onDisk.at \in Nat
    BY <1>1 DEF CacheTyped, FileStates
  <2>2. NoNewer(toldFile')
    BY <1>1, <1>2, <2>1 DEF Dated, NoNewer
  <2> QED
    BY <1>1, <1>2, <2>2 DEF Dated, NoNewer
<1> watchFrames' = <<>>
  BY <1>1 DEF Scanned, Drops, Reconnects, WatchCloses, WatchKept, CacheTyped, tabVars
<1> EventsTell'
  BY DEF EventsTell
<1>6. UNCHANGED <<HasBody, HasListing, BodyFollows, GoneFollows, ListingFollows>>
  BY <1>2 DEF HasBody, HasListing, BodyFollows, GoneFollows, ListingFollows, WillBring, Asked
<1>7. CASE NewsUnderWay /\ HasShown /\ ~Scanned /\ ~Reconnects
  <2>1. excused' = excused \cup ShownParts
    BY <1>7 DEF Drops, WatchCloses, MissedIf
  <2> QED
    BY <1>3, <1>4, <1>5, <2>1 DEF CacheInv, BodyKept, GoneKept, ListingKept, ShownParts
<1>8. CASE ~HasShown
  <2>1. ~HasBody' /\ ~HasListing'
    BY <1>6, <1>8, HasIsShown
  <2> QED
    BY <1>3, <1>4, <1>5, <2>1 DEF CacheInv, BodyKept, GoneKept, ListingKept
<1>9. CASE ~NewsUnderWay \/ Scanned \/ Reconnects
  <2>1. ~Untold /\ watchFrames = <<>> /\ watchFrames' = <<>>
    BY <1>1, <1>2, <1>9 DEF NewsUnderWay, Untold, WatchKept, Scanned, Reconnects, CacheTyped
  <2>2. ~LastTells /\ DOMAIN watchFrames = {}
    BY <2>1 DEF LastTells
  <2> QED
    BY <1>2, <1>3, <1>4, <1>5, <1>6, <2>1, <2>2 DEF CacheInv, BodyKept, GoneKept, ListingKept
<1> QED
  BY <1>7, <1>8, <1>9

\* The last event tells what is on disk; one that is left out is excused.
LEMMA TellKeeps ==
    ASSUME CacheInv, WatcherTells
    PROVE  CacheInv'
<1> DEFINE frame == [type |-> EventType(toldFile, onDisk), at |-> onDisk.at]
           silent == ~toldFile.there /\ ~onDisk.there
<1>1. CacheTyped /\ WatchKept /\ Dated
  BY DEF CacheInv
<1>2. /\ watcher = "ready" /\ toldFile # onDisk /\ toldFile' = onDisk
      /\ watchFrames' = IF silent THEN watchFrames ELSE Append(watchFrames, frame)
      /\ UNCHANGED <<onDisk, socketUp, watcher, pinned, watching, cached, gone, listed, fileCalls, shownAt>>
      /\ excused \subseteq excused' /\ (silent => ShownParts \subseteq excused')
      /\ toldFile.there = onDisk.there /\ onDisk.at > toldFile.at + 1 => "listing" \in excused'
  BY DEF WatcherTells, ShownParts
<1>3. /\ frame \in Frames /\ frame.at = onDisk.at
      /\ ~silent => (frame.type = "unlink" <=> ~onDisk.there)
      /\ toldFile.there # onDisk.there => frame.type # "change"
  BY <1>1 DEF EventType, Frames, CacheTyped, FileStates
<1> HIDE DEF frame
<1>4. watchFrames \in Seq(Frames) /\ Len(watchFrames) \in Nat
  BY <1>1 DEF CacheTyped
<1>5. /\ Append(watchFrames, frame) \in Seq(Frames) /\ Append(watchFrames, frame) # <<>>
      /\ Len(Append(watchFrames, frame)) = Len(watchFrames) + 1
      /\ Append(watchFrames, frame)[Len(watchFrames) + 1] = frame
      /\ \A i \in DOMAIN watchFrames : i \in DOMAIN Append(watchFrames, frame) /\ Append(watchFrames, frame)[i] = watchFrames[i]
      /\ Len(watchFrames) + 1 \in DOMAIN Append(watchFrames, frame)
  BY <1>3, <1>4
<1>6. CacheTyped'
  BY <1>1, <1>2, <1>5 DEF CacheTyped
<1>7. WatchKept'
  BY <1>1, <1>2 DEF WatchKept
<1>8. Dated'
  <2>1. onDisk.at \in Nat
    BY <1>1 DEF CacheTyped, FileStates
  <2>2. NoNewer(onDisk)
    BY <2>1 DEF NoNewer
  <2> QED
    BY <1>1, <1>2, <2>2 DEF Dated, NoNewer
<1>9. UNCHANGED <<HasBody, HasListing, ListingFollows>>
  BY <1>2 DEF HasBody, HasListing, ListingFollows, Asked
<1>10. CASE silent
  BY <1>2, <1>6, <1>7, <1>8, <1>10 DEF CacheInv, BodyKept, GoneKept, ListingKept, EventsTell, ShownParts
<1>11. CASE ~silent
  <2>1. watchFrames' = Append(watchFrames, frame)
    BY <1>2, <1>11
  <2>2. LastTells'
    BY <1>2, <1>3, <1>5, <1>11, <2>1 DEF LastTells
  <2>3. ListingKept'
    <3> SUFFICES ASSUME HasListing, "listing" \notin excused'
                 PROVE  (\E i \in DOMAIN watchFrames : watchFrames[i].type # "change")' \/ ListingFollows'
      BY <1>9 DEF ListingKept
    <3>1. CASE toldFile.there # onDisk.there
      BY <1>3, <1>5, <2>1, <3>1
    <3>2. CASE \E i \in DOMAIN watchFrames : watchFrames[i].type # "change"
      BY <1>5, <2>1, <3>2
    <3>3. CASE ListingFollows
      BY <1>9, <3>3
    <3> QED
      BY <1>2, <3>1, <3>2, <3>3 DEF CacheInv, ListingKept
  <2> QED
    BY <1>6, <1>7, <1>8, <2>2, <2>3 DEF CacheInv, BodyKept, GoneKept, EventsTell
<1> QED
  BY <1>10, <1>11

\* A card that comes asks for what the tab does not hold; one that goes takes nothing along.
LEMMA CardKeeps ==
    ASSUME CacheInv, NEW card \in CardKinds, Pin(card) \/ Unpin(card)
    PROVE  CacheInv'
<1>1. CacheTyped /\ WatchKept /\ Dated
  BY DEF CacheInv
<1>2. /\ UNCHANGED <<onDisk, socketUp, toldFile, watchFrames, cached, gone, listed, shownAt, excused>>
      /\ fileCalls \subseteq fileCalls' 
  BY DEF Pin, Unpin, tabVars
<1>3. WatchKept'
  BY <1>1 DEF Pin, Unpin, tabVars, WatchKept, CacheTyped
<1>4. \A call \in fileCalls' : call \in fileCalls \/ call \in {Call("lazy", 0), Call("listing", 0)}
  BY DEF Pin, Unpin, tabVars, CallOnce, CardKinds
<1>5. {Call("lazy", 0), Call("listing", 0)} \subseteq Calls
  BY DEF Call, Calls
<1>6. /\ Call("lazy", 0).got = NotRead /\ Call("lazy", 0).by = "lazy"
      /\ Call("listing", 0).got = NotRead /\ Call("listing", 0).by = "listing"
  BY DEF Call
<1>7. CacheTyped'
  BY <1>1, <1>2, <1>4, <1>5 DEF CacheTyped, Pin, Unpin, tabVars
<1>8. Dated'
  BY <1>1, <1>2, <1>4, <1>6 DEF Dated, NoNewer
<1>9. Untold => Untold'
  BY <1>1, <1>2 DEF Untold, Pin, Unpin, tabVars, WatchKept
<1>10. /\ LastTells => LastTells'
       /\ BodyFollows => BodyFollows'
       /\ GoneFollows => GoneFollows'
       /\ ListingFollows => ListingFollows'
  BY <1>2, <1>4, <1>6 DEF LastTells, BodyFollows, GoneFollows, ListingFollows, WillBring, Asked
<1>11. CASE Unpin(card)
  <2>1. fileCalls' = fileCalls /\ pinned' \subseteq pinned
    BY <1>11 DEF Unpin, tabVars
  <2>2. (HasBody' => HasBody) /\ (HasListing' => HasListing)
    BY <1>2, <2>1 DEF HasBody, HasListing, Asked
  <2>3. EventsTell'
    BY <1>2, <1>9, <1>10 DEF CacheInv, EventsTell
  <2>4. BodyKept' /\ GoneKept'
    BY <1>2, <1>9, <1>10, <2>2 DEF CacheInv, BodyKept, GoneKept
  <2>5. ListingKept'
    BY <1>2, <1>9, <1>10, <2>2 DEF CacheInv, ListingKept
  <2> QED
    BY <1>3, <1>7, <1>8, <2>3, <2>4, <2>5 DEF CacheInv
<1>12. CASE Pin(card)
  <2>1. pinned' = pinned \cup {card}
    BY <1>12 DEF Pin
  <2>2. EventsTell'
    BY <1>2, <1>9, <1>10 DEF CacheInv, EventsTell
  <2>3. card = "file" /\ cached = NotRead => fileCalls' = fileCalls \cup CallOnce("lazy")
    BY <1>12 DEF Pin
  <2>4. card = "folder" /\ listed = NotRead => fileCalls' = fileCalls \cup CallOnce("listing")
    BY <1>12 DEF Pin
  <2>5. HasBody' => HasBody \/ (BodyFollows' /\ GoneFollows')
    <3> SUFFICES ASSUME HasBody', ~HasBody PROVE BodyFollows' /\ GoneFollows'
      OBVIOUS
    <3>1. card = "file" \/ \E call \in fileCalls' \ fileCalls : call.by # "listing"
      BY <1>2, <2>1 DEF HasBody
    <3>2. cached = NotRead /\ Asked("lazy") = {}
      BY DEF HasBody, Asked
    <3>3. card = "file"
      <4> SUFFICES ASSUME card # "file" PROVE FALSE
        OBVIOUS
      <4>1. fileCalls' \subseteq fileCalls \cup CallOnce("listing")
        BY <1>12 DEF Pin, CardKinds
      <4> QED
        BY <1>6, <3>1, <4>1 DEF CallOnce
    <3>4. Call("lazy", 0) \in fileCalls'
      BY <2>3, <3>2, <3>3 DEF CallOnce
    <3> QED
      BY <1>6, <3>4 DEF BodyFollows, GoneFollows, WillBring
  <2>6. HasListing' => HasListing \/ ListingFollows'
    <3> SUFFICES ASSUME HasListing', ~HasListing PROVE ListingFollows'
      OBVIOUS
    <3>1. listed = NotRead /\ Asked("listing") = {}
      BY DEF HasListing
    <3>2. card = "folder"
      <4> SUFFICES ASSUME card = "file" PROVE FALSE
        BY DEF CardKinds
      <4>1. fileCalls' \subseteq fileCalls \cup CallOnce("lazy")
        BY <1>12 DEF Pin
      <4> QED
        BY <1>2, <1>6, <2>1, <4>1 DEF HasListing, Asked, CallOnce
    <3>3. fileCalls' = fileCalls \cup {Call("listing", 0)}
      BY <2>4, <3>1, <3>2 DEF CallOnce
    <3> QED
      BY <1>6, <3>1, <3>3 DEF ListingFollows, Asked
  <2>7. BodyKept' /\ GoneKept'
    BY <1>2, <1>9, <1>10, <2>2, <2>5 DEF CacheInv, BodyKept, GoneKept, EventsTell, ShownParts
  <2>8. ListingKept'
    BY <1>2, <1>9, <1>10, <2>6 DEF CacheInv, ListingKept
  <2> QED
    BY <1>3, <1>7, <1>8, <2>2, <2>7, <2>8 DEF CacheInv
<1> QED
  BY <1>11, <1>12

\* A request is served with what is on disk now.
LEMMA ServeKeeps ==
    ASSUME CacheInv, NEW call \in fileCalls, ServesCall(call)
    PROVE  CacheInv'
<1>0. PICK theRead : theRead = [call EXCEPT !.got = onDisk]
  OBVIOUS
<1>1. CacheTyped /\ WatchKept /\ Dated
  BY DEF CacheInv
<1>2. /\ call.got = NotRead /\ fileCalls' = (fileCalls \ {call}) \cup {theRead}
      /\ UNCHANGED <<onDisk, socketUp, watcher, toldFile, watchFrames, pinned, watching, cached, gone, listed,
                     shownAt, excused>>
  BY <1>0 DEF ServesCall
<1>3. theRead \in Calls /\ theRead.by = call.by /\ theRead.got = onDisk /\ onDisk.at \in Nat
  BY <1>0, <1>1 DEF CacheTyped, Calls, FileStates
<1>4. CacheTyped' /\ WatchKept'
  BY <1>1, <1>2, <1>3 DEF CacheTyped, WatchKept
<1>5. Dated'
  <2>1. NoNewer(onDisk)
    BY <1>3 DEF NoNewer
  <2> QED
    BY <1>1, <1>2, <1>3, <2>1 DEF Dated, NoNewer
<1>6. (HasBody' => HasBody) /\ (HasListing' => HasListing)
  BY <1>2, <1>3 DEF HasBody, HasListing, Asked
<1>7. /\ BodyFollows => BodyFollows'
      /\ GoneFollows => GoneFollows'
      /\ ListingFollows => ListingFollows'
  <2>1. \A c \in fileCalls : c = call \/ c \in fileCalls'
    BY <1>2
  <2>2. theRead \in fileCalls' /\ WillBring(theRead)'
    BY <1>2, <1>3 DEF WillBring
  <2>3. \A c \in fileCalls : WillBring(c) => WillBring(c)'
    BY <1>2 DEF WillBring
  <2>4. BodyFollows => BodyFollows'
    BY <1>2, <1>3, <2>1, <2>2, <2>3 DEF BodyFollows
  <2>5. GoneFollows => GoneFollows'
    BY <1>2, <1>3, <2>1, <2>2, <2>3 DEF GoneFollows
  <2>6. ListingFollows => ListingFollows'
    BY <1>2, <1>3 DEF ListingFollows, Asked
  <2> QED
    BY <2>4, <2>5, <2>6
<1>8. (Untold <=> Untold') /\ (LastTells <=> LastTells')
  BY <1>2 DEF Untold, LastTells
<1> QED
  BY <1>2, <1>4, <1>5, <1>6, <1>7, <1>8 DEF CacheInv, BodyKept, GoneKept, ListingKept, EventsTell

\* A request is lost: what it was to bring is excused, but for a save, of which the watch tells.
LEMMA FailKeeps ==
    ASSUME CacheInv, NEW call \in fileCalls, CallFails(call)
    PROVE  CacheInv'
<1>1. CacheTyped /\ WatchKept /\ Dated
  BY DEF CacheInv
<1>2. /\ fileCalls' = fileCalls \ {call}
      /\ UNCHANGED <<onDisk, socketUp, watcher, toldFile, watchFrames, pinned, watching, cached, gone, listed,
                     shownAt>>
      /\ excused \subseteq excused'
  BY DEF CallFails
<1>3. /\ call.by = "listing" => "listing" \in excused'
      /\ call.by \in {"lazy", "watch"} => {"body", "gone"} \subseteq excused'
  BY DEF CallFails
<1>4. CacheTyped' /\ WatchKept' /\ Dated'
  BY <1>1, <1>2 DEF CacheTyped, WatchKept, Dated, NoNewer
<1>5. (HasBody' => HasBody) /\ (HasListing' => HasListing)
  BY <1>2 DEF HasBody, HasListing, Asked
<1>6. (Untold <=> Untold') /\ (LastTells <=> LastTells')
  BY <1>2 DEF Untold, LastTells
<1>7. "body" \notin excused' => (BodyFollows => BodyFollows')
  BY <1>2, <1>3 DEF BodyFollows, WillBring
<1>8. "gone" \notin excused' => (GoneFollows => GoneFollows')
  BY <1>2, <1>3 DEF GoneFollows, WillBring
<1>9. "listing" \notin excused' => (ListingFollows => ListingFollows')
  BY <1>2, <1>3 DEF ListingFollows, Asked
<1> QED
  BY <1>2, <1>4, <1>5, <1>6, <1>7, <1>8, <1>9 DEF CacheInv, BodyKept, GoneKept, ListingKept, EventsTell

\* An answer is shown; one that is older than what it replaces is excused.
LEMMA AnswerKeeps ==
    ASSUME CacheInv, NEW call \in fileCalls, AnswerCall(call)
    PROVE  CacheInv'
<1>1. CacheTyped /\ WatchKept /\ Dated
  BY DEF CacheInv
<1>2. /\ call.got # NotRead /\ fileCalls' = fileCalls \ {call}
      /\ UNCHANGED <<onDisk, socketUp, watcher, toldFile, watchFrames, pinned, watching>>
      /\ cached' = IF SetsBody(call) THEN call.got.at ELSE cached
      /\ gone' = IF SetsGone(call) THEN ~call.got.there ELSE gone
      /\ listed' = IF call.by = "listing" THEN call.got.there ELSE listed
      /\ shownAt' = [body |-> IF SetsBody(call) THEN call.got.at ELSE shownAt.body,
                     gone |-> IF SetsGone(call) THEN call.got.at ELSE shownAt.gone]
      /\ excused \subseteq excused'
      /\ SetsBody(call) /\ call.got.at < shownAt.body => "body" \in excused'
      /\ SetsGone(call) /\ call.got.at < shownAt.gone => "gone" \in excused'
  BY DEF AnswerCall
<1>3. /\ call.got \in FileStates /\ call.got.at \in Nat /\ call.got.there \in BOOLEAN /\ NoNewer(call.got)
      /\ onDisk \in FileStates /\ onDisk.at \in Nat /\ shownAt.body \in Nat /\ shownAt.gone \in Nat
      /\ shownAt'.body = (IF SetsBody(call) THEN call.got.at ELSE shownAt.body)
      /\ shownAt'.gone = (IF SetsGone(call) THEN call.got.at ELSE shownAt.gone)
  BY <1>1, <1>2 DEF CacheTyped, Calls, FileStates, Dated
<1>4. CacheTyped'
  <2>1. gone' \in BOOLEAN /\ listed' \in BOOLEAN \cup {NotRead}
    BY <1>1, <1>2, <1>3 DEF CacheTyped
  <2>2. shownAt' \in [body : Nat, gone : Nat]
    BY <1>2, <1>3
  <2> QED
    BY <1>1, <1>2, <1>3, <2>1, <2>2 DEF CacheTyped
<1>5. WatchKept'
  BY <1>1, <1>2 DEF WatchKept
<1>6. Dated'
  BY <1>1, <1>2, <1>3, FilesApart DEF Dated, NoNewer
<1>7. (HasBody' => HasBody) /\ (HasListing' => HasListing)
  BY <1>2 DEF HasBody, HasListing, Asked, SetsBody
<1>8. (Untold <=> Untold') /\ (LastTells <=> LastTells')
  BY <1>2 DEF Untold, LastTells
<1>9. ASSUME "body" \notin excused', onDisk.there, BodyFollows PROVE BodyFollows'
  <2>1. CASE cached = onDisk.at
    <3>1. shownAt.body = onDisk.at
      BY <1>1, <1>3, <2>1, FilesApart DEF Dated
    <3>2. SetsBody(call) => call.got.at = onDisk.at
      BY <1>2, <1>3, <1>9, <3>1 DEF NoNewer
    <3> QED
      BY <1>2, <2>1, <3>2 DEF BodyFollows
  <2>2. CASE \E c \in fileCalls : c.by \in {"lazy", "watch"} /\ WillBring(c)
    <3>1. PICK c \in fileCalls : c.by \in {"lazy", "watch"} /\ WillBring(c)
      BY <2>2
    <3>2. CASE c = call
      BY <1>2, <1>9, <3>1, <3>2 DEF BodyFollows, SetsBody, WillBring
    <3>3. CASE c # call
      <4>1. c \in fileCalls' /\ WillBring(c)'
        BY <1>2, <3>1, <3>3 DEF WillBring
      <4> QED
        BY <3>1, <4>1 DEF BodyFollows
    <3> QED
      BY <3>2, <3>3
  <2> QED
    BY <1>9, <2>1, <2>2 DEF BodyFollows
<1>10. ASSUME "gone" \notin excused', GoneFollows PROVE GoneFollows'
  <2>1. CASE shownAt.gone = onDisk.at /\ gone = ~onDisk.there
    <3>1. SetsGone(call) => call.got = onDisk
      BY <1>2, <1>3, <1>10, <2>1 DEF NoNewer
    <3> QED
      BY <1>2, <1>3, <2>1, <3>1 DEF GoneFollows
  <2>2. CASE \E c \in fileCalls : c.by = "lazy" /\ WillBring(c)
    <3>1. PICK c \in fileCalls : c.by = "lazy" /\ WillBring(c)
      BY <2>2
    <3>2. CASE c = call
      BY <1>2, <1>3, <3>1, <3>2 DEF GoneFollows, SetsGone, WillBring
    <3>3. CASE c # call
      <4>1. c \in fileCalls' /\ WillBring(c)'
        BY <1>2, <3>1, <3>3 DEF WillBring
      <4> QED
        BY <3>1, <4>1 DEF GoneFollows
    <3> QED
      BY <3>2, <3>3
  <2> QED
    BY <1>10, <2>1, <2>2 DEF GoneFollows
<1>11. ListingFollows => ListingFollows'
  BY <1>2 DEF ListingFollows, Asked
<1>12. BodyKept' /\ GoneKept'
  BY <1>2, <1>7, <1>8, <1>9, <1>10 DEF CacheInv, BodyKept, GoneKept
<1>13. ListingKept' /\ EventsTell'
  BY <1>2, <1>7, <1>8, <1>11 DEF CacheInv, ListingKept, EventsTell
<1> QED
  BY <1>4, <1>5, <1>6, <1>12, <1>13 DEF CacheInv

\* An event comes: its card's file is fetched again, and so is the folder if the file came or went.
LEMMA EventKeeps ==
    ASSUME CacheInv, OnWatchEvent
    PROVE  CacheInv'
<1>0. PICK frame : frame = Head(watchFrames)
  OBVIOUS
<1>1. CacheTyped /\ WatchKept /\ Dated
  BY DEF CacheInv
<1>2. /\ watchFrames # <<>> /\ watchFrames' = Tail(watchFrames)
      /\ fileCalls' = fileCalls \cup (IF Relisted(frame) THEN CallOnce("listing") ELSE {})
             \cup (IF "file" \in pinned /\ frame.type # "unlink" THEN {Call("watch", frame.at)} ELSE {})
      /\ excused' = excused \cup (IF frame.type # "change" /\ ListsTooEarly THEN {"listing"} ELSE {})
             \cup (IF "file" \notin pinned /\ HasShown THEN {"body", "gone"} ELSE {})
      /\ gone' = IF "file" \in pinned THEN frame.type = "unlink" ELSE gone
      /\ shownAt' = IF "file" \in pinned THEN [shownAt EXCEPT !.gone = frame.at] ELSE shownAt
      /\ UNCHANGED <<onDisk, socketUp, watcher, toldFile, pinned, watching, cached, listed>>
  BY <1>0 DEF OnWatchEvent
<1>3. /\ watchFrames \in Seq(Frames) /\ Len(watchFrames) \in Nat \ {0} /\ frame = watchFrames[1] /\ frame \in Frames
      /\ Tail(watchFrames) \in Seq(Frames) /\ Len(Tail(watchFrames)) = Len(watchFrames) - 1
      /\ DOMAIN watchFrames = 1..Len(watchFrames) /\ DOMAIN Tail(watchFrames) = 1..(Len(watchFrames) - 1)
      /\ \A i \in 1..(Len(watchFrames) - 1) : Tail(watchFrames)[i] = watchFrames[i + 1]
      /\ Tail(watchFrames) = <<>> <=> Len(watchFrames) = 1
  <2>1. watchFrames \in Seq(Frames) /\ watchFrames # <<>>
    BY <1>1, <1>2 DEF CacheTyped
  <2>2. Len(watchFrames) \in Nat \ {0} /\ frame = watchFrames[1] /\ DOMAIN watchFrames = 1..Len(watchFrames)
    BY <1>0, <2>1
  <2>3. frame \in Frames
    BY <2>1, <2>2
  <2>4. Tail(watchFrames) \in Seq(Frames) /\ Len(Tail(watchFrames)) = Len(watchFrames) - 1
    BY <2>1
  <2>5. DOMAIN Tail(watchFrames) = 1..(Len(watchFrames) - 1)
    BY <2>4
  <2>6. \A i \in 1..(Len(watchFrames) - 1) : Tail(watchFrames)[i] = watchFrames[i + 1]
    BY <2>1
  <2>7. Tail(watchFrames) = <<>> <=> Len(watchFrames) = 1
    BY <2>2, <2>4
  <2> QED
    BY <2>1, <2>2, <2>3, <2>4, <2>5, <2>6, <2>7
<1>4. frame.at \in Nat /\ frame.type \in {"change", "add", "unlink"}
  BY <1>3 DEF Frames
<1>5. /\ fileCalls \subseteq fileCalls'
      /\ \A call \in fileCalls' : call \in fileCalls \/ call \in {Call("listing", 0), Call("watch", frame.at)}
  BY <1>2 DEF CallOnce
<1>6. /\ {Call("listing", 0), Call("watch", frame.at)} \subseteq Calls
      /\ Call("listing", 0).got = NotRead /\ Call("listing", 0).by = "listing"
      /\ Call("watch", frame.at).got = NotRead /\ Call("watch", frame.at).by = "watch"
  BY <1>4 DEF Call, Calls
<1>7. CacheTyped'
  <2>1. (frame.type = "unlink") \in BOOLEAN
    OBVIOUS
  <2>2. gone' \in BOOLEAN
    BY <1>1, <1>2, <2>1, Zenon DEF CacheTyped
  <2>3. shownAt' \in [body : Nat, gone : Nat]
    BY <1>1, <1>2, <1>4 DEF CacheTyped
  <2>4. fileCalls' \subseteq Calls
    BY <1>1, <1>5, <1>6 DEF CacheTyped
  <2> QED
    BY <1>1, <1>2, <1>3, <2>2, <2>3, <2>4 DEF CacheTyped
<1>8. WatchKept'
  BY <1>1, <1>2 DEF WatchKept
<1>9. Dated'
  <2>1. shownAt'.body = shownAt.body
    BY <1>1, <1>2 DEF CacheTyped
  <2> QED
    BY <1>1, <1>2, <1>5, <1>6, <2>1 DEF Dated, NoNewer
<1>10. Untold => Untold'
  BY <1>2 DEF Untold
<1>11. LastTells /\ Len(watchFrames) # 1 => LastTells'
  BY <1>2, <1>3 DEF LastTells
<1>12. EventsTell'
  BY <1>2, <1>3, <1>10, <1>11 DEF CacheInv, EventsTell
<1>13. (HasBody' => HasBody) /\ (HasListing' => HasListing)
  <2>1. \A call \in fileCalls' : call \in fileCalls \/ call = Call("listing", 0) \/ "file" \in pinned
    BY <1>2 DEF CallOnce
  <2>2. HasBody' => HasBody
    BY <1>2, <1>6, <2>1 DEF HasBody
  <2>3. HasListing' => HasListing
    BY <1>2, <1>6 DEF HasListing, Asked, Relisted
  <2> QED
    BY <2>2, <2>3
<1>14. ASSUME "file" \notin pinned PROVE BodyKept' /\ GoneKept'
  BY <1>2, <1>13, <1>14, HasIsShown DEF BodyKept, GoneKept
<1>15. ASSUME "file" \in pinned PROVE BodyKept' /\ GoneKept'
  <2>1. \/ Untold' \/ LastTells'
        \/ Len(watchFrames) = 1 /\ LastTells
        \/ ShownParts \subseteq excused'
    BY <1>2, <1>10, <1>11 DEF CacheInv, EventsTell
  <2>2. ASSUME Len(watchFrames) = 1, LastTells
        PROVE  /\ watchFrames' = <<>>
               /\ shownAt'.gone = onDisk.at /\ gone' = ~onDisk.there
               /\ onDisk.there => BodyFollows'
    <3>1. watchFrames' = <<>> /\ frame.at = onDisk.at /\ (frame.type = "unlink" <=> ~onDisk.there)
      BY <1>2, <1>3, <2>2 DEF LastTells
    <3>2. shownAt'.gone = onDisk.at
      BY <1>1, <1>2, <1>15, <3>1 DEF CacheTyped
    <3>3. gone' = ~onDisk.there
      BY <1>2, <1>15, <3>1
    <3>4. onDisk.there => Call("watch", frame.at) \in fileCalls'
      BY <1>2, <1>15, <3>1
    <3>5. onDisk.there => BodyFollows'
      BY <1>6, <3>4 DEF BodyFollows, WillBring
    <3> QED
      BY <3>1, <3>2, <3>3, <3>5
  <2>3. BodyKept'
    BY <1>2, <2>1, <2>2 DEF BodyKept, ShownParts
  <2>4. GoneKept'
    BY <1>2, <2>1, <2>2 DEF GoneKept, GoneFollows, ShownParts
  <2> QED
    BY <2>3, <2>4
<1>16. ListingKept'
  <2> SUFFICES ASSUME HasListing, "listing" \notin excused'
               PROVE  \/ Untold' /\ (toldFile.there # onDisk.there \/ onDisk.at > toldFile.at + 1)
                      \/ \E i \in DOMAIN watchFrames' : watchFrames'[i].type # "change"
                      \/ ListingFollows'
    BY <1>2, <1>13 DEF ListingKept
  <2>1. CASE frame.type # "change"
    <3>1. \A call \in Asked("listing") : call.got = NotRead
      BY <1>2, <2>1 DEF ListsTooEarly
    <3>2. Asked("listing")' \subseteq Asked("listing") \cup {Call("listing", 0)}
      BY <1>5, <1>6 DEF Asked
    <3>3. Asked("listing")' # {}
      <4>1. CASE Asked("listing") # {}
        BY <1>5, <4>1 DEF Asked
      <4>2. CASE Asked("listing") = {}
        BY <1>2, <1>6, <2>1, <4>2 DEF Asked, HasListing, Relisted, CallOnce
      <4> QED
        BY <4>1, <4>2
    <3>4. \A call \in Asked("listing")' : call.got = NotRead
      BY <1>6, <3>1, <3>2
    <3> QED
      BY <3>3, <3>4 DEF ListingFollows
  <2>2. CASE frame.type = "change"
    <3>1. Asked("listing")' = Asked("listing")
      BY <1>2, <1>6, <2>2 DEF Asked, Relisted
    <3>2. ListingFollows => ListingFollows'
      BY <1>2, <3>1 DEF ListingFollows
    <3>3. ASSUME NEW i \in DOMAIN watchFrames, watchFrames[i].type # "change"
          PROVE  \E j \in DOMAIN watchFrames' : watchFrames'[j].type # "change"
      <4>1. i # 1 /\ i - 1 \in 1..(Len(watchFrames) - 1) /\ watchFrames'[i - 1] = watchFrames[i]
        BY <1>2, <1>3, <2>2, <3>3
      <4> QED
        BY <1>2, <1>3, <3>3, <4>1
    <3> QED
      BY <1>2, <1>10, <3>2, <3>3 DEF CacheInv, ListingKept
  <2> QED
    BY <2>1, <2>2
<1> QED
  BY <1>7, <1>8, <1>9, <1>12, <1>14, <1>15, <1>16 DEF CacheInv

LEMMA CacheInvStep == CacheInv /\ [FileCacheNext]_cacheVars => CacheInv'
<1> SUFFICES ASSUME CacheInv, [FileCacheNext]_cacheVars PROVE CacheInv'
  OBVIOUS
<1>1. ASSUME NEW there \in BOOLEAN, ChangeFile(there) PROVE CacheInv'
  BY <1>1, ChangeKeeps DEF ChangeFile
<1>2. CASE SaveFile
  <2>1. PICK call : call = [Call("save", 0) EXCEPT !.got = onDisk']
    OBVIOUS
  <2>2. onDisk' \in FileStates
    BY <1>2 DEF SaveFile, ChangedTo, CacheInv, CacheTyped, FileStates
  <2>3. call \in Calls /\ call.by = "save" /\ call.got = onDisk'
    BY <2>1, <2>2 DEF Call, Calls
  <2>4. /\ "file" \in pinned /\ ChangedTo(TRUE) /\ fileCalls' = fileCalls \cup {call}
        /\ UNCHANGED <<socketUp, watcher, toldFile, watchFrames, pinned, watching, cached, gone, listed, shownAt>>
    BY <1>2, <2>1 DEF SaveFile
  <2> QED
    BY <2>3, <2>4, ChangeKeeps
<1>3. CASE Scanned \/ Drops \/ Reconnects \/ WatchCloses
  BY <1>3, WatchKeeps
<1>4. CASE WatcherTells
  BY <1>4, TellKeeps
<1>5. CASE OnWatchEvent
  BY <1>5, EventKeeps
<1>6. ASSUME NEW card \in CardKinds, Pin(card) \/ Unpin(card) PROVE CacheInv'
  BY <1>6, CardKeeps
<1>7. ASSUME NEW call \in fileCalls, ServesCall(call) \/ AnswerCall(call) \/ CallFails(call) PROVE CacheInv'
  BY <1>7, ServeKeeps, AnswerKeeps, FailKeeps
<1>8. CASE UNCHANGED cacheVars
  BY <1>8 DEF CacheInv, CacheTyped, WatchKept, Dated, NoNewer, BodyKept, GoneKept, ListingKept, EventsTell, HasBody,
              HasListing, Asked, Untold, LastTells, WillBring, BodyFollows, GoneFollows, ListingFollows, cacheVars, tabVars
<1> QED
  BY <1>1, <1>2, <1>3, <1>4, <1>5, <1>6, <1>7, <1>8 DEF FileCacheNext

\* However often the file, the cards, the watch and the socket come and go, and in whatever order
\* requests are served and answered, a tab at rest shows what is on disk, but for what it missed or had
\* overwritten by an older answer (app/src/loader.ts, app/src/content.ts, app/src/feeds.ts).
THEOREM CardsFollowTheDisk == FileCacheSpec => []CardsShowDisk
<1>1. CacheInv => CardsShowDisk
  <2> SUFFICES ASSUME CacheInv PROVE CardsShowDisk
    OBVIOUS
  <2>1. socketUp /\ pinned # {} => watcher # "off"
    BY DEF CacheInv, WatchKept
  <2>2. ASSUME watcher = "ready", toldFile = onDisk, watchFrames = <<>>, fileCalls = {}
        PROVE  /\ "file" \in pinned =>
                      /\ "gone" \notin excused => gone = ~onDisk.there
                      /\ "body" \notin excused /\ onDisk.there => cached = onDisk.at
               /\ "folder" \in pinned /\ "listing" \notin excused => listed = onDisk.there
    <3>1. ~Untold /\ ~LastTells /\ DOMAIN watchFrames = {} /\ Asked("listing") = {}
      BY <2>2 DEF Untold, LastTells, Asked
    <3>2. ("file" \in pinned => HasBody) /\ ("folder" \in pinned => HasListing)
      BY DEF HasBody, HasListing
    <3> QED
      BY <2>2, <3>1, <3>2 DEF CacheInv, BodyKept, GoneKept, ListingKept, BodyFollows, GoneFollows, ListingFollows
  <2> QED
    BY <2>1, <2>2 DEF CardsShowDisk
<1> QED
  BY <1>1, CacheInit, CacheInvStep, PTL DEF FileCacheSpec


-----------------------------------------------------------------------------
(***************************************************************************)
(* The annotations of a document: what the ledger says is so, and one read *)
(* heals what can be healed, for any annotations, texts and events and     *)
(* however much of the ledger is read back.                                *)
(*                                                                         *)
(* LedgerTrue is not inductive.  What is read is a fold over the newest    *)
(* events, and an event more may push out another annotation's creation:   *)
(* that a fold which begins later knows less but says the same             *)
(* (LaterFold) needs each annotation created at most once, and a           *)
(* suggestion whose accept was not written can be accepted again, so how   *)
(* often it is in the text is counted with that accept (AppliedIsTold).    *)
(***************************************************************************)
\* A slice within a text.
LEMMA SliceIs ==
    ASSUME NEW S, NEW s \in Seq(S), NEW from \in Nat, NEW to \in 0..Len(s)
    PROVE  /\ Slice(s, from, to) \in Seq(S)
           /\ Len(Slice(s, from, to)) = IF from <= to THEN to - from ELSE 0
<1> QED
  BY SubSeqProperties DEF Slice

\* An anchor of a quote: it is one, and the quote stands where it says.
LEMMA AnchorStands ==
    ASSUME NEW src \in Seq(Words), NEW r \in QuoteSpans(src)
    PROVE  /\ MakeAnchor(src, r.from, r.to) \in Anchors
           /\ StandsAt(src, MakeAnchor(src, r.from, r.to))
<1> DEFINE anchor == MakeAnchor(src, r.from, r.to)
<1>1. r.from \in Nat /\ r.to \in 1..Len(src) /\ r.from < r.to /\ Len(src) \in Nat
  BY DEF QuoteSpans, Spans
<1>2. /\ Slice(src, r.from, r.to) \in Seq(Words) \ {<<>>}
      /\ Len(Slice(src, r.from, r.to)) = r.to - r.from
  <2>1. /\ Slice(src, r.from, r.to) \in Seq(Words)
        /\ Len(Slice(src, r.from, r.to)) = r.to - r.from
    <3>1. r.to \in 0..Len(src) /\ r.from <= r.to
      BY <1>1
    <3> HIDE DEF Slice
    <3> QED
      BY <1>1, <3>1, SliceIs
  <2>2. r.to - r.from > 0
    BY <1>1
  <2> QED
    BY <2>1, <2>2
<1>3. Slice(src, Max({0, r.from - ContextLen}), r.from) \in Seq(Words)
  <2>1. ContextLen \in Nat /\ r.from \in 0..Len(src)
    BY <1>1, AnnotationAssumption
  <2>2. Max({0, r.from - ContextLen}) \in Nat
    BY <2>1, LargerIs
  <2> QED
    BY <2>1, <2>2, SliceIs
<1>4. Slice(src, r.to, Min({Len(src), r.to + ContextLen})) \in Seq(Words)
  <2>1. ContextLen \in Nat /\ r.to \in Nat /\ Len(src) \in Nat
    BY <1>1, AnnotationAssumption
  <2>2. Min({Len(src), r.to + ContextLen}) \in 0..Len(src)
    BY <2>1, SmallerIs
  <2> QED
    BY <2>1, <2>2, SliceIs
<1>5. anchor \in Anchors
  BY <1>1, <1>2, <1>3, <1>4 DEF MakeAnchor, Anchors
<1>6. StandsAt(src, anchor)
  <2>1. anchor.exact = Slice(src, r.from, r.to) /\ anchor.offset = r.from
    BY DEF MakeAnchor
  <2>2. r.from + (r.to - r.from) = r.to /\ r.to \in Int /\ Len(src) \in Int /\ r.to <= Len(src)
    BY <1>1
  <2>3. Min({Len(src), r.to}) = r.to
    BY <2>2, SmallerIs
  <2> QED
    BY <1>2, <2>1, <2>2, <2>3 DEF StandsAt
<1> QED
  BY <1>5, <1>6

\* Where an anchor is found, a quote is.
LEMMA FoundIsQuote ==
    ASSUME NEW src \in Seq(Words), NEW anchor \in Anchors
    PROVE  Resolutions(src, anchor) \subseteq QuoteSpans(src) \cup {NoSpan}
<1>1. CASE StandsAt(src, anchor)
  <2>1. /\ anchor.offset \in Nat /\ anchor.exact \in Seq(Words) /\ anchor.exact # <<>>
        /\ Len(anchor.exact) \in Nat /\ Len(src) \in Nat
    BY DEF Anchors
  <2>2. Len(anchor.exact) > 0
    BY <2>1
  <2> DEFINE to == Min({Len(src), anchor.offset + Len(anchor.exact)})
  <2>3. to = IF Len(src) <= anchor.offset + Len(anchor.exact) THEN Len(src)
             ELSE anchor.offset + Len(anchor.exact)
    BY <2>1, SmallerIs
  <2>4. to \in 0..Len(src)
    BY <2>1, <2>3
  <2>5. Len(Slice(src, anchor.offset, to)) = IF anchor.offset <= to THEN to - anchor.offset ELSE 0
    BY <2>1, <2>4, SliceIs
  <2>6. Slice(src, anchor.offset, to) = anchor.exact
    BY <1>1 DEF StandsAt
  <2> HIDE DEF to
  <2>7. to = anchor.offset + Len(anchor.exact)
    BY <2>1, <2>2, <2>3, <2>4, <2>5, <2>6
  <2>8. /\ anchor.offset + Len(anchor.exact) \in 1..Len(src) /\ anchor.offset \in 0..Len(src)
        /\ anchor.offset < anchor.offset + Len(anchor.exact)
    BY <2>1, <2>2, <2>4, <2>7
  <2>9. [from |-> anchor.offset, to |-> anchor.offset + Len(anchor.exact)] \in QuoteSpans(src)
    BY <2>8 DEF QuoteSpans, Spans
  <2>10. Resolutions(src, anchor) = {[from |-> anchor.offset, to |-> anchor.offset + Len(anchor.exact)]}
    BY <1>1 DEF Resolutions
  <2> QED
    BY <2>9, <2>10
<1>2. CASE ~StandsAt(src, anchor)
  BY <1>2 DEF Resolutions, FuzzySpans
<1> QED
  BY <1>1, <1>2

\* What a reader is shown of a text is one.
LEMMA ShownIsText ==
    ASSUME NEW s \in Seq(Words)
    PROVE  ShownText(s) \in Seq(Words) /\ Len(ShownText(s)) <= Len(s)
<1>1. s # NoText /\ Preview \in Nat /\ Len(s) \in Nat
  BY AnnotationAssumption
<1>2. Min({Len(s), Preview}) \in 0..Len(s)
  BY <1>1, SmallerIs
<1>3. /\ Slice(s, 0, Min({Len(s), Preview})) \in Seq(Words)
      /\ Len(Slice(s, 0, Min({Len(s), Preview}))) =
             IF 0 <= Min({Len(s), Preview}) THEN Min({Len(s), Preview}) - 0 ELSE 0
  BY <1>2, SliceIs
<1> QED
  BY <1>1, <1>2, <1>3 DEF ShownText

\* The fold, one event at a time: with no event no annotation is known.
NoNotes == [a \in Annos |-> NoAnno]
FoldOne(notes, ev) == [notes EXCEPT ![ev.id] = Folded(@, ev)]

\* g is the recursion of the fold up to event n.
FoldsUpTo(g, log, first, n) ==
    g = [k \in 0..n |-> IF k < first THEN NoNotes ELSE FoldOne(g[k - 1], log[k])]

\* The recursion of the fold has a solution up to every event, and the fold is its last value.
LEMMA FoldExists ==
    ASSUME NEW log, NEW first \in Nat \ {0}
    PROVE  \A n \in Nat : \E g : FoldsUpTo(g, log, first, n)
<1> DEFINE P == {n \in Nat : \E g : FoldsUpTo(g, log, first, n)}
<1>1. 0 \in P
  <2>1. FoldsUpTo([k \in 0..0 |-> NoNotes], log, first, 0)
    BY DEF FoldsUpTo
  <2> QED
    BY <2>1
<1>2. ASSUME NEW n \in Nat, n \in P PROVE n + 1 \in P
  <2>1. PICK g : FoldsUpTo(g, log, first, n)
    BY <1>2
  <2> DEFINE next == IF n + 1 < first THEN NoNotes ELSE FoldOne(g[n], log[n + 1])
             h == [k \in 0..(n + 1) |-> IF k = n + 1 THEN next ELSE g[k]]
  <2>2. ASSUME NEW k \in 0..(n + 1)
        PROVE  h[k] = IF k < first THEN NoNotes ELSE FoldOne(h[k - 1], log[k])
    <3>1. CASE k = n + 1
      <4>1. h[k] = next /\ h[n] = g[n] /\ k - 1 = n
        BY <3>1
      <4> QED
        BY <3>1, <4>1
    <3>2. CASE k # n + 1
      <4>1. k \in 0..n /\ (~(k < first) => k - 1 \in 0..n /\ k - 1 # n + 1)
        BY <3>2
      <4>2. h[k] = g[k] /\ (~(k < first) => h[k - 1] = g[k - 1])
        BY <3>2, <4>1
      <4> HIDE DEF h
      <4> QED
        BY <2>1, <4>1, <4>2 DEF FoldsUpTo
    <3> QED
      BY <3>1, <3>2
  <2>3. FoldsUpTo(h, log, first, n + 1)
    <3>1. h = [k \in 0..(n + 1) |-> h[k]]
      OBVIOUS
    <3> HIDE DEF h
    <3> QED
      BY <2>2, <3>1 DEF FoldsUpTo
  <2> QED
    BY <2>3
<1> HIDE DEF P
<1>3. \A n \in Nat : n \in P
  BY <1>1, <1>2, NaturalInduction
<1> QED
  BY <1>3 DEF P

LEMMA FoldIsUpTo ==
    ASSUME NEW log \in Seq(AnnoEvents), NEW first \in Nat \ {0}
    PROVE  \E g : FoldsUpTo(g, log, first, Len(log)) /\ FoldFrom(log, first) = g[Len(log)]
<1> DEFINE G == CHOOSE g : FoldsUpTo(g, log, first, Len(log))
<1>1. FoldsUpTo(G, log, first, Len(log))
  <2>1. Len(log) \in Nat
    OBVIOUS
  <2> QED
    BY <2>1, FoldExists
<1>2. FoldFrom(log, first) = G[Len(log)]
  BY DEF FoldFrom, FoldsUpTo, FoldOne, NoNotes
<1> QED
  BY <1>1, <1>2

\* An event past the first is folded last; before the first there is nothing to fold.
LEMMA FoldOfNone ==
    ASSUME NEW log \in Seq(AnnoEvents), NEW first \in Nat \ {0}, Len(log) < first
    PROVE  FoldFrom(log, first) = NoNotes
<1>1. PICK g : FoldsUpTo(g, log, first, Len(log)) /\ FoldFrom(log, first) = g[Len(log)]
  BY FoldIsUpTo
<1>2. Len(log) \in 0..Len(log)
  OBVIOUS
<1> QED
  BY <1>1, <1>2 DEF FoldsUpTo

LEMMA FoldOfAppended ==
    ASSUME NEW log \in Seq(AnnoEvents), NEW ev \in AnnoEvents, NEW first \in 1..(Len(log) + 1)
    PROVE  FoldFrom(Append(log, ev), first) = FoldOne(FoldFrom(log, first), ev)
<1> DEFINE new == Append(log, ev)
<1>1. /\ new \in Seq(AnnoEvents) /\ Len(new) = Len(log) + 1 /\ Len(log) \in Nat /\ first \in Nat \ {0}
      /\ new[Len(log) + 1] = ev /\ \A k \in 1..Len(log) : new[k] = log[k]
  BY AppendProperties
<1> HIDE DEF new
<1>2. PICK g : FoldsUpTo(g, log, first, Len(log)) /\ FoldFrom(log, first) = g[Len(log)]
  BY <1>1, FoldIsUpTo
<1>3. PICK h : FoldsUpTo(h, new, first, Len(log) + 1) /\ FoldFrom(new, first) = h[Len(log) + 1]
  BY <1>1, FoldIsUpTo
<1> DEFINE P == {n \in Nat : n <= Len(log) => h[n] = g[n]}
<1>4. ASSUME NEW k \in 0..Len(log)
      PROVE  /\ g[k] = IF k < first THEN NoNotes ELSE FoldOne(g[k - 1], log[k])
             /\ h[k] = IF k < first THEN NoNotes ELSE FoldOne(h[k - 1], new[k])
  <2>1. k \in 0..(Len(log) + 1)
    BY <1>1
  <2> QED
    BY <1>2, <1>3, <2>1 DEF FoldsUpTo
<1>5. 0 \in P
  <2>1. 0 < first /\ 0 \in 0..Len(log)
    BY <1>1
  <2> QED
    BY <1>4, <2>1
<1>6. ASSUME NEW n \in Nat, n \in P PROVE n + 1 \in P
  <2> SUFFICES ASSUME n + 1 <= Len(log) PROVE h[n + 1] = g[n + 1]
    OBVIOUS
  <2>1. n + 1 \in 0..Len(log) /\ n + 1 \in 1..Len(log) /\ n <= Len(log) /\ (n + 1) - 1 = n
    BY <1>1
  <2>2. h[n] = g[n] /\ new[n + 1] = log[n + 1]
    BY <1>1, <1>6, <2>1
  <2> QED
    BY <1>4, <2>1, <2>2
<1>7. h[Len(log)] = g[Len(log)]
  <2> HIDE DEF P
  <2>1. \A n \in Nat : n \in P
    BY <1>5, <1>6, NaturalInduction
  <2> QED
    BY <1>1, <2>1 DEF P
<1>8. h[Len(log) + 1] = FoldOne(h[Len(log)], ev)
  <2>1. Len(log) + 1 \in 0..(Len(log) + 1) /\ ~(Len(log) + 1 < first) /\ (Len(log) + 1) - 1 = Len(log)
    BY <1>1
  <2> QED
    BY <1>1, <1>3, <2>1 DEF FoldsUpTo
<1> QED
  BY <1>2, <1>3, <1>7, <1>8 DEF new

AnnoStates == AnnoRecords \cup {NoAnno}

\* What an event makes of an annotation is one; only its creation makes one of nothing.
LEMMA FoldedType ==
    ASSUME NEW ev \in AnnoEvents
    PROVE  /\ Folded(NoAnno, ev) = IF ev.op = "create" THEN Fresh(ev) ELSE NoAnno
           /\ ev.op = "create" => Fresh(ev) \in AnnoRecords
           /\ \A a \in AnnoRecords : Folded(a, ev) \in AnnoRecords /\ a # NoAnno
<1>1. NoAnno \notin AnnoRecords
  BY AnnotationAssumption
<1>2. Folded(NoAnno, ev) = IF ev.op = "create" THEN Fresh(ev) ELSE NoAnno
  BY DEF Folded
<1>3. ev.op \in {"create", "reanchor"} => ev.anchor \in Anchors
  BY DEF AnnoEvents
<1>4. ev.op = "create" => Fresh(ev) \in AnnoRecords
  BY <1>3 DEF Fresh, AnnoRecords, Decisions
<1>5. ASSUME NEW a \in AnnoRecords PROVE Folded(a, ev) \in AnnoRecords
  <2>1. a # NoAnno
    BY <1>1
  <2>2. ev.op \in {"answer", "resolve", "reopen", "accept", "reject", "create", "reanchor"}
    BY DEF AnnoEvents
  <2>3. CASE ev.op = "answer"
    BY <2>1, <2>3 DEF Folded, AnnoRecords
  <2>4. CASE ev.op = "resolve"
    BY <2>1, <2>4 DEF Folded, AnnoRecords
  <2>5. CASE ev.op = "reopen"
    BY <2>1, <2>5 DEF Folded, AnnoRecords
  <2>6. CASE ev.op = "accept"
    BY <2>1, <2>6 DEF Folded, AnnoRecords, Decisions
  <2>7. CASE ev.op = "reject"
    BY <2>1, <2>7 DEF Folded, AnnoRecords, Decisions
  <2>8. CASE ev.op = "create"
    BY <2>1, <2>8 DEF Folded, AnnoRecords
  <2>9. CASE ev.op = "reanchor"
    BY <1>3, <2>1, <2>9 DEF Folded, AnnoRecords
  <2> QED
    BY <2>2, <2>3, <2>4, <2>5, <2>6, <2>7, <2>8, <2>9
<1> QED
  BY <1>1, <1>2, <1>4, <1>5

\* One event folded changes its own annotation and no other.
LEMMA FoldOneIs ==
    ASSUME NEW notes \in [Annos -> AnnoStates], NEW ev \in AnnoEvents
    PROVE  /\ FoldOne(notes, ev) \in [Annos -> AnnoStates]
           /\ FoldOne(notes, ev)[ev.id] = Folded(notes[ev.id], ev)
           /\ \A a \in Annos : a # ev.id => FoldOne(notes, ev)[a] = notes[a]
<1>1. ev.id \in Annos
  BY DEF AnnoEvents
<1>2. Folded(notes[ev.id], ev) \in AnnoStates
  <2>1. notes[ev.id] \in AnnoStates
    BY <1>1
  <2> QED
    BY <2>1, FoldedType DEF AnnoStates
<1> QED
  BY <1>1, <1>2 DEF FoldOne

\* A fold makes annotations, or nothing.
LEMMA FoldTyped ==
    ASSUME NEW log \in Seq(AnnoEvents), NEW first \in Nat \ {0}
    PROVE  FoldFrom(log, first) \in [Annos -> AnnoStates]
<1> DEFINE P == {n \in Nat : \A l \in Seq(AnnoEvents) : Len(l) = n => FoldFrom(l, first) \in [Annos -> AnnoStates]}
<1>1. NoNotes \in [Annos -> AnnoStates]
  BY DEF NoNotes, AnnoStates
<1>2. 0 \in P
  <2> SUFFICES ASSUME NEW l \in Seq(AnnoEvents), Len(l) = 0 PROVE FoldFrom(l, first) \in [Annos -> AnnoStates]
    OBVIOUS
  <2>1. Len(l) < first
    OBVIOUS
  <2> QED
    BY <1>1, <2>1, FoldOfNone
<1>3. ASSUME NEW n \in Nat, n \in P PROVE n + 1 \in P
  <2> SUFFICES ASSUME NEW l \in Seq(AnnoEvents), Len(l) = n + 1 PROVE FoldFrom(l, first) \in [Annos -> AnnoStates]
    OBVIOUS
  <2>1. PICK front \in Seq(AnnoEvents) : \E ev \in AnnoEvents : l = Append(front, ev) /\ Len(front) = n
    BY LastOfSeq
  <2>2. PICK ev \in AnnoEvents : l = Append(front, ev) /\ Len(front) = n
    BY <2>1
  <2>3. CASE first \in 1..(n + 1)
    <3>1. FoldFrom(l, first) = FoldOne(FoldFrom(front, first), ev)
      BY <2>2, <2>3, FoldOfAppended
    <3>2. FoldFrom(front, first) \in [Annos -> AnnoStates]
      BY <1>3, <2>2
    <3> QED
      BY <3>1, <3>2, FoldOneIs
  <2>4. CASE n + 1 < first
    BY <1>1, <2>4, FoldOfNone
  <2> QED
    BY <2>3, <2>4
<1> HIDE DEF P
<1>4. \A n \in Nat : n \in P
  BY <1>2, <1>3, NaturalInduction
<1>5. Len(log) \in Nat
  OBVIOUS
<1> QED
  BY <1>4, <1>5 DEF P

Creates(ev, a) == ev.op = "create" /\ ev.id = a
CreatedIn(log, a) == \E i \in DOMAIN log : Creates(log[i], a)
CreatedOnce(log) == \A a \in Annos : \A i, j \in DOMAIN log : Creates(log[i], a) /\ Creates(log[j], a) => i = j

\* Creations in a log with one more event.
LEMMA AppendedCreates ==
    ASSUME NEW log \in Seq(AnnoEvents), NEW ev \in AnnoEvents
    PROVE  /\ \A a : CreatedIn(Append(log, ev), a) <=> CreatedIn(log, a) \/ Creates(ev, a)
           /\ CreatedOnce(Append(log, ev)) =>
                  CreatedOnce(log) /\ \A a \in Annos : CreatedIn(log, a) => ~Creates(ev, a)
           /\ CreatedOnce(log) /\ (\A a \in Annos : CreatedIn(log, a) => ~Creates(ev, a)) =>
                  CreatedOnce(Append(log, ev))
<1> DEFINE new == Append(log, ev)
<1>1. /\ new \in Seq(AnnoEvents) /\ Len(new) = Len(log) + 1 /\ Len(log) \in Nat
      /\ new[Len(log) + 1] = ev /\ \A k \in 1..Len(log) : new[k] = log[k]
  BY AppendProperties
<1> HIDE DEF new
<1>2. /\ DOMAIN log = 1..Len(log) /\ DOMAIN new = 1..(Len(log) + 1)
      /\ \A k \in DOMAIN new : k \in DOMAIN log \/ k = Len(log) + 1
      /\ \A k \in DOMAIN log : k \in DOMAIN new /\ k # Len(log) + 1
      /\ Len(log) + 1 \in DOMAIN new
  BY <1>1
<1>3. \A a : CreatedIn(new, a) <=> CreatedIn(log, a) \/ Creates(ev, a)
  BY <1>1, <1>2 DEF CreatedIn
<1>4. CreatedOnce(new) => CreatedOnce(log) /\ \A a \in Annos : CreatedIn(log, a) => ~Creates(ev, a)
  BY <1>1, <1>2 DEF CreatedOnce, CreatedIn
<1>5. CreatedOnce(log) /\ (\A a \in Annos : CreatedIn(log, a) => ~Creates(ev, a)) => CreatedOnce(new)
  BY <1>1, <1>2 DEF CreatedOnce, CreatedIn
<1> QED
  BY <1>3, <1>4, <1>5 DEF new

\* What the fold knows was created.
LEMMA KnownIsCreated ==
    ASSUME NEW log \in Seq(AnnoEvents), NEW first \in Nat \ {0}, NEW a \in Annos,
           FoldFrom(log, first)[a] # NoAnno
    PROVE  CreatedIn(log, a)
<1> DEFINE P == {n \in Nat : \A l \in Seq(AnnoEvents) :
                    Len(l) = n /\ FoldFrom(l, first)[a] # NoAnno => CreatedIn(l, a)}
<1>1. NoNotes[a] = NoAnno
  BY DEF NoNotes
<1>2. 0 \in P
  <2> SUFFICES ASSUME NEW l \in Seq(AnnoEvents), Len(l) = 0 PROVE FoldFrom(l, first)[a] = NoAnno
    OBVIOUS
  <2>1. Len(l) < first
    OBVIOUS
  <2> QED
    BY <1>1, <2>1, FoldOfNone
<1>3. ASSUME NEW n \in Nat, n \in P PROVE n + 1 \in P
  <2> SUFFICES ASSUME NEW l \in Seq(AnnoEvents), Len(l) = n + 1, FoldFrom(l, first)[a] # NoAnno
               PROVE  CreatedIn(l, a)
    OBVIOUS
  <2>1. PICK front \in Seq(AnnoEvents) : \E ev \in AnnoEvents : l = Append(front, ev) /\ Len(front) = n
    BY LastOfSeq
  <2>2. PICK ev \in AnnoEvents : l = Append(front, ev) /\ Len(front) = n
    BY <2>1
  <2>3. first \in 1..(n + 1)
    <3>1. CASE n + 1 < first
      BY <1>1, <3>1, FoldOfNone
    <3> QED
      BY <3>1
  <2>4. FoldFrom(l, first) = FoldOne(FoldFrom(front, first), ev)
    BY <2>2, <2>3, FoldOfAppended
  <2>5. FoldFrom(front, first) \in [Annos -> AnnoStates]
    BY <2>2, FoldTyped
  <2>6. CASE FoldFrom(front, first)[a] # NoAnno
    BY <1>3, <2>2, <2>6, AppendedCreates
  <2>7. CASE FoldFrom(front, first)[a] = NoAnno
    <3>1. a = ev.id
      BY <2>4, <2>5, <2>7, FoldOneIs
    <3>2. Folded(NoAnno, ev) # NoAnno
      BY <2>4, <2>5, <2>7, <3>1, FoldOneIs
    <3>3. Creates(ev, a)
      BY <3>1, <3>2, FoldedType DEF Creates
    <3> QED
      BY <2>2, <3>3, AppendedCreates
  <2> QED
    BY <2>6, <2>7
<1> HIDE DEF P
<1>4. \A n \in Nat : n \in P
  BY <1>2, <1>3, NaturalInduction
<1>5. Len(log) \in Nat
  OBVIOUS
<1> QED
  BY <1>4, <1>5 DEF P

\* A fold that begins later knows less, and of what it knows it says the same.
LEMMA LaterFold ==
    ASSUME NEW log \in Seq(AnnoEvents), CreatedOnce(log),
           NEW first \in Nat \ {0}, NEW later \in Nat, first <= later, NEW a \in Annos
    PROVE  FoldFrom(log, later)[a] \in {NoAnno, FoldFrom(log, first)[a]}
<1> DEFINE P == {n \in Nat : \A l \in Seq(AnnoEvents) :
                    Len(l) = n /\ CreatedOnce(l) => FoldFrom(l, later)[a] \in {NoAnno, FoldFrom(l, first)[a]}}
<1>1. NoNotes[a] = NoAnno /\ later \in Nat \ {0}
  BY DEF NoNotes
<1>2. 0 \in P
  <2> SUFFICES ASSUME NEW l \in Seq(AnnoEvents), Len(l) = 0 PROVE FoldFrom(l, later)[a] = NoAnno
    OBVIOUS
  <2>1. Len(l) < later
    OBVIOUS
  <2> QED
    BY <1>1, <2>1, FoldOfNone
<1>3. ASSUME NEW n \in Nat, n \in P PROVE n + 1 \in P
  <2> SUFFICES ASSUME NEW l \in Seq(AnnoEvents), Len(l) = n + 1, CreatedOnce(l)
               PROVE  FoldFrom(l, later)[a] \in {NoAnno, FoldFrom(l, first)[a]}
    OBVIOUS
  <2>1. PICK front \in Seq(AnnoEvents) : \E ev \in AnnoEvents : l = Append(front, ev) /\ Len(front) = n
    BY LastOfSeq
  <2>2. PICK ev \in AnnoEvents : l = Append(front, ev) /\ Len(front) = n
    BY <2>1
  <2>3. CASE n + 1 < later
    BY <1>1, <2>3, FoldOfNone
  <2>4. CASE later <= n + 1
    <3> DEFINE some == FoldFrom(front, later)
               all == FoldFrom(front, first)
    <3>1. later \in 1..(n + 1) /\ first \in 1..(n + 1)
      BY <1>1, <2>4
    <3>2. FoldFrom(l, later) = FoldOne(some, ev) /\ FoldFrom(l, first) = FoldOne(all, ev)
      BY <2>2, <3>1, FoldOfAppended
    <3>3. some \in [Annos -> AnnoStates] /\ all \in [Annos -> AnnoStates]
      BY <1>1, FoldTyped
    <3>4. CreatedOnce(front) /\ (CreatedIn(front, a) => ~Creates(ev, a))
      BY <2>2, AppendedCreates
    <3>5. some[a] \in {NoAnno, all[a]}
      BY <1>3, <2>2, <3>4
    <3>6. all[a] # NoAnno => CreatedIn(front, a)
      BY KnownIsCreated
    <3> HIDE DEF some, all
    <3>7. CASE a # ev.id
      BY <3>2, <3>3, <3>5, <3>7, FoldOneIs
    <3>8. CASE a = ev.id
      <4>1. FoldFrom(l, later)[a] = Folded(some[a], ev) /\ FoldFrom(l, first)[a] = Folded(all[a], ev)
        BY <3>2, <3>3, <3>8, FoldOneIs
      <4>2. CASE some[a] = all[a]
        BY <4>1, <4>2
      <4>3. CASE some[a] = NoAnno /\ all[a] # NoAnno
        <5>1. ev.op # "create"
          BY <3>4, <3>6, <3>8, <4>3 DEF Creates
        <5> QED
          BY <4>1, <4>3, <5>1, FoldedType
      <4> QED
        BY <3>5, <4>2, <4>3
    <3> QED
      BY <3>7, <3>8
  <2> QED
    BY <2>3, <2>4
<1> HIDE DEF P
<1>4. \A n \in Nat : n \in P
  BY <1>2, <1>3, NaturalInduction
<1>5. Len(log) \in Nat
  OBVIOUS
<1> QED
  BY <1>4, <1>5 DEF P

\* Where the events that are read begin.
LEMMA OldestIs ==
    ASSUME NEW log \in Seq(AnnoEvents)
    PROVE  OldestRead(log) = (IF Len(log) >= MaxTail THEN Len(log) - MaxTail + 1 ELSE 1)
<1>1. Len(log) \in Nat /\ MaxTail \in Nat
  BY AnnotationAssumption
<1>2. Max({1, Len(log) - MaxTail + 1}) = IF 1 >= Len(log) - MaxTail + 1 THEN 1 ELSE Len(log) - MaxTail + 1
  BY <1>1, LargerIs
<1> QED
  BY <1>1, <1>2 DEF OldestRead

\* What is read of a log: annotations that were created.
LEMMA NotesTyped ==
    ASSUME NEW log \in Seq(AnnoEvents)
    PROVE  /\ FoldAnnotations(log) \in [Annos -> AnnoStates]
           /\ \A a \in Annos : FoldAnnotations(log)[a] # NoAnno => CreatedIn(log, a)
<1>1. OldestRead(log) \in Nat \ {0}
  <2>1. Len(log) \in Nat /\ MaxTail \in Nat
    BY AnnotationAssumption
  <2> QED
    BY <2>1, OldestIs
<1> QED
  BY <1>1, FoldTyped, KnownIsCreated DEF FoldAnnotations

\* What one more event makes of what is read: it concerns its own annotation, and any may be gone
\* whose creation is no longer read.
LEMMA NotesOfAppended ==
    ASSUME NEW log \in Seq(AnnoEvents), NEW ev \in AnnoEvents, CreatedOnce(log)
    PROVE  /\ \A a \in Annos : a # ev.id =>
                  FoldAnnotations(Append(log, ev))[a] \in {NoAnno, FoldAnnotations(log)[a]}
           /\ FoldAnnotations(Append(log, ev))[ev.id] \in
                  {NoAnno, Folded(NoAnno, ev), Folded(FoldAnnotations(log)[ev.id], ev)}
           /\ Len(log) < MaxTail => FoldAnnotations(Append(log, ev)) = FoldOne(FoldAnnotations(log), ev)
<1> DEFINE new == Append(log, ev)
           first == OldestRead(log)
           later == OldestRead(new)
<1>1. /\ new \in Seq(AnnoEvents) /\ Len(new) = Len(log) + 1
      /\ Len(log) \in Nat /\ MaxTail \in Nat /\ ev.id \in Annos
  BY AppendProperties, AnnotationAssumption DEF AnnoEvents
<1>2. /\ first = IF Len(log) >= MaxTail THEN Len(log) - MaxTail + 1 ELSE 1
      /\ later = IF Len(new) >= MaxTail THEN Len(new) - MaxTail + 1 ELSE 1
  BY <1>1, OldestIs
<1> HIDE DEF new, first, later
<1>3. first \in Nat \ {0} /\ later \in Nat \ {0} /\ first <= later
  BY <1>1, <1>2
<1>4. FoldAnnotations(log) = FoldFrom(log, first) /\ FoldAnnotations(new) = FoldFrom(new, later)
  BY DEF FoldAnnotations, first, later
<1>5. FoldFrom(log, later) \in [Annos -> AnnoStates] /\ FoldFrom(log, first) \in [Annos -> AnnoStates]
  BY <1>3, FoldTyped
<1>6. \A a \in Annos : FoldFrom(log, later)[a] \in {NoAnno, FoldFrom(log, first)[a]}
  BY <1>3, LaterFold
<1>7. CASE later = Len(log) + 2
  <2>1. FoldFrom(new, later) = NoNotes
    BY <1>1, <1>3, <1>7, FoldOfNone
  <2>2. ~(Len(log) < MaxTail)
    BY <1>1, <1>2, <1>7
  <2> QED
    BY <1>1, <1>4, <2>1, <2>2 DEF NoNotes, new
<1>8. CASE later \in 1..(Len(log) + 1)
  <2>1. FoldFrom(new, later) = FoldOne(FoldFrom(log, later), ev)
    BY <1>8, FoldOfAppended DEF new
  <2>2. FoldFrom(new, later)[ev.id] = Folded(FoldFrom(log, later)[ev.id], ev)
    BY <1>5, <2>1, FoldOneIs
  <2>3. \A a \in Annos : a # ev.id => FoldFrom(new, later)[a] = FoldFrom(log, later)[a]
    BY <1>5, <2>1, FoldOneIs
  <2>4. Len(log) < MaxTail => later = first
    BY <1>1, <1>2
  <2> QED
    BY <1>1, <1>4, <1>6, <2>1, <2>2, <2>3, <2>4 DEF new
<1>9. later \in 1..(Len(log) + 2)
  BY <1>1, <1>2
<1> QED
  BY <1>1, <1>7, <1>8, <1>9

\* Events that give annotations new anchors, each at most one.
OnlyReanchors(evs) ==
    /\ \A k \in DOMAIN evs : evs[k].op = "reanchor"
    /\ \A i, j \in DOMAIN evs : evs[i].id = evs[j].id => i = j

Reanchors(evs, a) == \E k \in DOMAIN evs : evs[k].id = a

\* What they leave of an annotation.
AnchorMoved(old, new, evs, a) ==
    /\ old # NoAnno
    /\ \A k \in DOMAIN evs : evs[k].id = a => new = [old EXCEPT !.anchor = evs[k].anchor]
    /\ ~Reanchors(evs, a) => new = old

ReanchorsKeep(log, evs) ==
    /\ log \o evs \in Seq(AnnoEvents) /\ CreatedOnce(log \o evs)
    /\ \A a \in Annos :
           /\ CreatedIn(log \o evs, a) <=> CreatedIn(log, a)
           /\ FoldAnnotations(log \o evs)[a] # NoAnno =>
                  AnchorMoved(FoldAnnotations(log)[a], FoldAnnotations(log \o evs)[a], evs, a)
           /\ Len(log \o evs) <= MaxTail /\ FoldAnnotations(log)[a] # NoAnno =>
                  FoldAnnotations(log \o evs)[a] # NoAnno

\* The prefix of a sequence of such events is one, and lacks the last event's annotation.
LEMMA ReanchorsBefore ==
    ASSUME NEW evs \in Seq(AnnoEvents), NEW ev \in AnnoEvents, OnlyReanchors(Append(evs, ev))
    PROVE  /\ OnlyReanchors(evs) /\ ev.op = "reanchor" /\ ~Reanchors(evs, ev.id)
           /\ \A a : Reanchors(Append(evs, ev), a) <=> Reanchors(evs, a) \/ a = ev.id
           /\ \A k \in DOMAIN Append(evs, ev) :
                  \/ k \in DOMAIN evs /\ Append(evs, ev)[k] = evs[k]
                  \/ Append(evs, ev)[k] = ev
<1> DEFINE new == Append(evs, ev)
<1>1. /\ new \in Seq(AnnoEvents) /\ Len(new) = Len(evs) + 1 /\ Len(evs) \in Nat
      /\ new[Len(evs) + 1] = ev /\ \A k \in 1..Len(evs) : new[k] = evs[k]
  BY AppendProperties
<1> HIDE DEF new
<1>2. /\ DOMAIN evs = 1..Len(evs) /\ DOMAIN new = 1..(Len(evs) + 1)
      /\ \A k \in DOMAIN new : k \in DOMAIN evs \/ k = Len(evs) + 1
      /\ \A k \in DOMAIN evs : k \in DOMAIN new /\ k # Len(evs) + 1
      /\ Len(evs) + 1 \in DOMAIN new
  BY <1>1
<1>3. OnlyReanchors(new)
  BY DEF new
<1>4. OnlyReanchors(evs) /\ ev.op = "reanchor" /\ ~Reanchors(evs, ev.id)
  BY <1>1, <1>2, <1>3 DEF OnlyReanchors, Reanchors
<1>5. \A a : Reanchors(new, a) <=> Reanchors(evs, a) \/ a = ev.id
  BY <1>1, <1>2 DEF Reanchors
<1>6. \A k \in DOMAIN new : (k \in DOMAIN evs /\ new[k] = evs[k]) \/ new[k] = ev
  BY <1>1, <1>2
<1> QED
  BY <1>4, <1>5, <1>6 DEF new

\* Events that move anchors leave of the annotations what they were, for any number of them.
LEMMA OneMoreReanchor ==
    ASSUME NEW log \in Seq(AnnoEvents), NEW evs \in Seq(AnnoEvents), NEW ev \in AnnoEvents,
           OnlyReanchors(Append(evs, ev)), ReanchorsKeep(log, evs)
    PROVE  ReanchorsKeep(log, Append(evs, ev))
<1> DEFINE all == Append(evs, ev)
           short == log \o evs
           long == log \o all
<1>1. short \in Seq(AnnoEvents) /\ CreatedOnce(short)
  BY DEF ReanchorsKeep
<1>2. long = Append(short, ev)
  OBVIOUS
<1>3. OnlyReanchors(evs) /\ ev.op = "reanchor" /\ ~Reanchors(evs, ev.id) /\ ev.id \in Annos
  BY ReanchorsBefore DEF AnnoEvents
<1>4. \A a : ~Creates(ev, a)
  BY <1>3 DEF Creates
<1>5. long \in Seq(AnnoEvents) /\ Len(long) = Len(short) + 1 /\ Len(short) \in Nat /\ MaxTail \in Nat
  BY <1>1, <1>2, AppendProperties, AnnotationAssumption
<1>6. CreatedOnce(long) /\ \A a : CreatedIn(long, a) <=> CreatedIn(short, a)
  BY <1>1, <1>2, <1>4, AppendedCreates
<1> DEFINE was == FoldAnnotations(log)
           mid == FoldAnnotations(short)
           now == FoldAnnotations(long)
<1>7. /\ \A a \in Annos : a # ev.id => now[a] \in {NoAnno, mid[a]}
      /\ now[ev.id] \in {NoAnno, Folded(NoAnno, ev), Folded(mid[ev.id], ev)}
      /\ Len(short) < MaxTail => now = FoldOne(mid, ev)
  BY <1>1, <1>2, NotesOfAppended
<1>8. mid \in [Annos -> AnnoStates] /\ was \in [Annos -> AnnoStates]
  BY <1>1, NotesTyped
<1>9. \A a \in Annos : /\ CreatedIn(short, a) <=> CreatedIn(log, a)
                       /\ mid[a] # NoAnno => AnchorMoved(was[a], mid[a], evs, a)
                       /\ Len(short) <= MaxTail /\ was[a] # NoAnno => mid[a] # NoAnno
  BY DEF ReanchorsKeep
<1> HIDE DEF short, long, was, mid, now
<1>10. Folded(NoAnno, ev) = NoAnno
  BY <1>3, FoldedType
<1>11. ASSUME NEW a \in Annos, now[a] # NoAnno PROVE AnchorMoved(was[a], now[a], all, a)
  <2>1. CASE a # ev.id
    <3>1. now[a] = mid[a] /\ AnchorMoved(was[a], mid[a], evs, a)
      BY <1>7, <1>9, <1>11, <2>1
    <3>2. /\ \A k \in DOMAIN all : all[k].id = a => k \in DOMAIN evs /\ all[k] = evs[k]
          /\ Reanchors(all, a) <=> Reanchors(evs, a)
      BY <2>1, ReanchorsBefore
    <3> HIDE DEF all
    <3> QED
      BY <3>1, <3>2 DEF AnchorMoved
  <2>2. CASE a = ev.id
    <3>1. now[a] = Folded(mid[a], ev) /\ mid[a] # NoAnno
      BY <1>7, <1>10, <1>11, <2>2
    <3>2. mid[a] = was[a] /\ was[a] # NoAnno
      BY <1>3, <1>9, <2>2, <3>1 DEF AnchorMoved
    <3>3. Folded(mid[a], ev) = [mid[a] EXCEPT !.anchor = ev.anchor]
      BY <1>3, <3>1 DEF Folded
    <3>4. /\ \A k \in DOMAIN all : all[k].id = a => all[k] = ev
          /\ Reanchors(all, a)
      <4>1. \A k \in DOMAIN evs : evs[k].id # a
        BY <1>3, <2>2 DEF Reanchors
      <4>2. \A k \in DOMAIN all : (k \in DOMAIN evs /\ all[k] = evs[k]) \/ all[k] = ev
        BY ReanchorsBefore
      <4>3. Reanchors(all, a)
        BY <2>2, ReanchorsBefore
      <4> HIDE DEF all
      <4> QED
        BY <4>1, <4>2, <4>3
    <3> HIDE DEF all
    <3> QED
      BY <3>1, <3>2, <3>3, <3>4 DEF AnchorMoved
  <2> QED
    BY <2>1, <2>2
<1>12. ASSUME NEW a \in Annos, Len(long) <= MaxTail, was[a] # NoAnno PROVE now[a] # NoAnno
  <2>1. mid[a] # NoAnno /\ now = FoldOne(mid, ev)
    BY <1>5, <1>7, <1>9, <1>12
  <2>2. mid[a] \in AnnoRecords /\ mid[ev.id] \in AnnoStates
    BY <1>3, <1>8, <2>1 DEF AnnoStates
  <2>3. now[a] = (IF a = ev.id THEN Folded(mid[a], ev) ELSE mid[a])
    BY <1>8, <2>1, FoldOneIs
  <2> QED
    BY <2>1, <2>2, <2>3, FoldedType
<1> QED
  BY <1>5, <1>6, <1>9, <1>11, <1>12 DEF ReanchorsKeep, long, was, now

LEMMA ReanchorsKept ==
    ASSUME NEW log \in Seq(AnnoEvents), CreatedOnce(log), NEW evs \in Seq(AnnoEvents), OnlyReanchors(evs)
    PROVE  ReanchorsKeep(log, evs)
<1> DEFINE P == {n \in Nat : \A es \in Seq(AnnoEvents) : Len(es) = n /\ OnlyReanchors(es) => ReanchorsKeep(log, es)}
<1>1. 0 \in P
  <2> SUFFICES ASSUME NEW es \in Seq(AnnoEvents), Len(es) = 0 PROVE ReanchorsKeep(log, es)
    OBVIOUS
  <2>1. log \o es = log /\ DOMAIN es = {}
    OBVIOUS
  <2> QED
    BY <2>1 DEF ReanchorsKeep, AnchorMoved
<1>2. ASSUME NEW n \in Nat, n \in P PROVE n + 1 \in P
  <2> SUFFICES ASSUME NEW es \in Seq(AnnoEvents), Len(es) = n + 1, OnlyReanchors(es) PROVE ReanchorsKeep(log, es)
    OBVIOUS
  <2>1. PICK front \in Seq(AnnoEvents) : \E ev \in AnnoEvents : es = Append(front, ev) /\ Len(front) = n
    BY LastOfSeq
  <2>2. PICK ev \in AnnoEvents : es = Append(front, ev) /\ Len(front) = n
    BY <2>1
  <2>3. OnlyReanchors(front)
    BY <2>2, ReanchorsBefore
  <2>4. ReanchorsKeep(log, front)
    BY <1>2, <2>2, <2>3
  <2> QED
    BY <2>2, <2>4, OneMoreReanchor
<1> HIDE DEF P
<1>3. \A n \in Nat : n \in P
  BY <1>1, <1>2, NaturalInduction
<1>4. Len(evs) \in Nat
  OBVIOUS
<1> QED
  BY <1>3, <1>4 DEF P

\* The spans an annotation is found at are no NoSpan.
LEMMA QuotesAreSpans ==
    ASSUME NEW src \in Seq(Words)
    PROVE  NoSpan \notin QuoteSpans(src)
<1>1. QuoteSpans(src) \subseteq [from : Nat, to : Nat]
  <2>1. Len(src) \in Nat
    OBVIOUS
  <2> QED
    BY <2>1 DEF QuoteSpans, Spans
<1> QED
  BY <1>1, AnnotationAssumption

\* The events of a healing: each moves the anchor of one annotation that was found, and none is left out.
HealingOf(log, src, found, evs) ==
    /\ OnlyReanchors(evs)
    /\ \A k \in DOMAIN evs : /\ evs[k].id \in DOMAIN found /\ found[evs[k].id] # NoSpan
                             /\ evs[k].anchor = MakeAnchor(src, found[evs[k].id].from, found[evs[k].id].to)
    /\ \A a \in DOMAIN found : CreatedIn(log, a) /\ found[a] # NoSpan => Reanchors(evs, a)

\* A healing appends such events, in the order of the creations.
LEMMA HealingAppends ==
    ASSUME NEW log \in Seq(AnnoEvents), CreatedOnce(log), NEW src \in Seq(Words),
           NEW D \in SUBSET Annos, NEW found \in [D -> QuoteSpans(src) \cup {NoSpan}]
    PROVE  \E evs \in Seq(AnnoEvents) : Healed(log, src, found) = log \o evs /\ HealingOf(log, src, found, evs)
<1> DEFINE at == {i \in DOMAIN log : log[i].op = "create" /\ log[i].id \in DOMAIN found
                                      /\ found[log[i].id] # NoSpan}
           created == LinesAt(log, at)
           notes == FoldAnnotations(log)
           healing(a) == AnchorEvent("reanchor", a, Reminted(src, found[a], notes[a].anchor))
           evs == [k \in DOMAIN created |-> healing(created[k].id)]
<1>1. at \in SUBSET (1..Len(log)) /\ DOMAIN found = D
  OBVIOUS
<1>2. Healed(log, src, found) = log \o evs
  BY DEF Healed
<1> HIDE DEF at
<1>3. created \in Seq(AnnoEvents) /\ \E f : Picks(f, created, log, at)
  BY <1>1, LinesAtPicks
<1>4. PICK f : Picks(f, created, log, at)
  BY <1>3
<1>5. DOMAIN created = 1..Len(created) /\ Len(created) \in Nat
  BY <1>3
<1> HIDE DEF created
<1>6. ASSUME NEW k \in DOMAIN created
      PROVE  /\ created[k] = log[f[k]] /\ f[k] \in DOMAIN log /\ created[k].op = "create"
             /\ created[k].id \in D /\ found[created[k].id] # NoSpan
  <2>1. f[k] \in at /\ created[k] = log[f[k]]
    BY <1>4, <1>5 DEF Picks
  <2> QED
    BY <1>1, <2>1 DEF at
<1>7. ASSUME NEW i \in DOMAIN created, NEW j \in DOMAIN created, created[i].id = created[j].id
      PROVE  i = j
  <2>1. f[i] = f[j]
    <3>1. /\ Creates(log[f[i]], created[i].id) /\ Creates(log[f[j]], created[i].id)
          /\ f[i] \in DOMAIN log /\ f[j] \in DOMAIN log /\ created[i].id \in Annos
      BY <1>6, <1>7 DEF Creates
    <3> QED
      BY <3>1 DEF CreatedOnce
  <2>2. i \in 1..Len(created) /\ j \in 1..Len(created) /\ i \in Nat /\ j \in Nat
    BY <1>5
  <2>4. f[i] \in Nat /\ f[j] \in Nat
    <3>1. f[i] \in 1..Len(log) /\ f[j] \in 1..Len(log)
      BY <1>6
    <3> QED
      BY <3>1
  <2>3. (i < j => f[i] < f[j]) /\ (j < i => f[j] < f[i])
    BY <1>4, <2>2 DEF Picks
  <2> QED
    BY <2>1, <2>2, <2>3, <2>4
<1>8. ASSUME NEW k \in DOMAIN created
      PROVE  /\ evs[k].op = "reanchor" /\ evs[k].id = created[k].id
             /\ evs[k].anchor = MakeAnchor(src, found[evs[k].id].from, found[evs[k].id].to)
             /\ evs[k] \in AnnoEvents
  <2> DEFINE a == created[k].id
  <2>1. a \in D /\ found[a] \in QuoteSpans(src)
    BY <1>6
  <2>2. MakeAnchor(src, found[a].from, found[a].to) \in Anchors
    BY <2>1, AnchorStands
  <2>3. evs[k] = [op |-> "reanchor", id |-> a, anchor |-> MakeAnchor(src, found[a].from, found[a].to)]
    BY DEF AnchorEvent, Reminted
  <2> HIDE DEF a, evs
  <2>4. a \in Annos
    BY <2>1
  <2> QED
    BY <2>2, <2>3, <2>4 DEF AnnoEvents, a
<1>9. DOMAIN evs = DOMAIN created
  OBVIOUS
<1>10. evs \in Seq(AnnoEvents)
  <2>1. evs = [k \in 1..Len(created) |-> evs[k]]
    BY <1>5
  <2> HIDE DEF evs
  <2>2. evs \in [1..Len(created) -> AnnoEvents]
    BY <1>5, <1>8, <2>1
  <2> QED
    BY <1>5, <2>2
<1> HIDE DEF evs
<1>11. OnlyReanchors(evs)
  BY <1>7, <1>8, <1>9 DEF OnlyReanchors
<1>12. ASSUME NEW a \in D, CreatedIn(log, a), found[a] # NoSpan PROVE Reanchors(evs, a)
  <2>1. PICK i \in DOMAIN log : Creates(log[i], a)
    BY <1>12 DEF CreatedIn
  <2>2. i \in at
    BY <1>1, <1>12, <2>1 DEF at, Creates
  <2>3. PICK k \in DOMAIN created : f[k] = i
    BY <1>4, <1>5, <2>2 DEF Picks
  <2>4. evs[k].id = a
    BY <1>6, <1>8, <2>1, <2>3 DEF Creates
  <2> QED
    BY <1>9, <2>4 DEF Reanchors
<1>13. HealingOf(log, src, found, evs)
  BY <1>1, <1>6, <1>8, <1>9, <1>11, <1>12 DEF HealingOf
<1> QED
  BY <1>2, <1>10, <1>13

\* A log that says of every annotation what another did, but for where it stands: of one it no longer
\* reads back it says nothing.
SaysSame(log, new) ==
    /\ new \in Seq(AnnoEvents) /\ CreatedOnce(new) /\ Len(log) <= Len(new)
    /\ \A a \in Annos :
           /\ CreatedIn(new, a) <=> CreatedIn(log, a)
           /\ FoldAnnotations(new)[a] # NoAnno =>
                  /\ FoldAnnotations(log)[a] # NoAnno
                  /\ FoldAnnotations(new)[a].resolved = FoldAnnotations(log)[a].resolved
                  /\ FoldAnnotations(new)[a].decision = FoldAnnotations(log)[a].decision
           /\ Len(new) <= MaxTail /\ FoldAnnotations(log)[a] # NoAnno => FoldAnnotations(new)[a] # NoAnno

\* What a healing leaves: the annotations as they were, but for anchors, and none that is found drifts.
LEMMA HealingKeeps ==
    ASSUME NEW log \in Seq(AnnoEvents), CreatedOnce(log), NEW src \in Seq(Words), NEW new \in Reanchored(log, src)
    PROVE  /\ SaysSame(log, new)
           /\ \A a \in Drifted(new, src) : NoSpan \in Resolutions(src, FoldAnnotations(new)[a].anchor)
<1> DEFINE notes == FoldAnnotations(log)
           drifted == Drifted(log, src)
           may == [a \in drifted |-> Resolutions(src, notes[a].anchor)]
           after == FoldAnnotations(new)
<1>1. notes \in [Annos -> AnnoStates] /\ \A a \in Annos : notes[a] # NoAnno => CreatedIn(log, a)
  BY NotesTyped
<1>2. /\ drifted \in SUBSET Annos
      /\ \A a \in Annos :
             a \in drifted <=> notes[a] # NoAnno /\ ~notes[a].resolved /\ ~StandsAt(src, notes[a].anchor)
  BY DEF Drifted
<1>3. PICK found \in [drifted -> UNION Range(may)] :
          new = Healed(log, src, found) /\ \A a \in drifted : found[a] \in may[a]
  BY DEF Reanchored
<1> HIDE DEF drifted, notes
<1>4. ASSUME NEW a \in drifted
      PROVE  /\ may[a] = Resolutions(src, notes[a].anchor)
             /\ may[a] \subseteq QuoteSpans(src) \cup {NoSpan}
  <2>1. notes[a] \in AnnoRecords
    BY <1>1, <1>2 DEF AnnoStates
  <2>2. notes[a].anchor \in Anchors
    BY <2>1 DEF AnnoRecords
  <2> QED
    BY <2>2, FoundIsQuote
<1> HIDE DEF may
<1>5. found \in [drifted -> QuoteSpans(src) \cup {NoSpan}] /\ DOMAIN found = drifted
  BY <1>3, <1>4
<1>6. PICK evs \in Seq(AnnoEvents) : new = log \o evs /\ HealingOf(log, src, found, evs)
  BY <1>2, <1>3, <1>5, HealingAppends
<1>7. ReanchorsKeep(log, evs)
  BY <1>6, ReanchorsKept DEF HealingOf
<1>8. /\ new \in Seq(AnnoEvents) /\ CreatedOnce(new)
      /\ \A a \in Annos :
           /\ CreatedIn(new, a) <=> CreatedIn(log, a)
           /\ after[a] # NoAnno => AnchorMoved(notes[a], after[a], evs, a)
           /\ Len(new) <= MaxTail /\ notes[a] # NoAnno => after[a] # NoAnno
  BY <1>6, <1>7 DEF ReanchorsKeep, notes
<1>9. Len(log) <= Len(new)
  <2>1. Len(new) = Len(log) + Len(evs) /\ Len(log) \in Nat /\ Len(evs) \in Nat
    BY <1>6, ConcatProperties
  <2> QED
    BY <2>1
<1> HIDE DEF after
<1>10. ASSUME NEW a \in Annos, after[a] # NoAnno
       PROVE  notes[a] # NoAnno /\ after[a].resolved = notes[a].resolved /\ after[a].decision = notes[a].decision
  <2>1. AnchorMoved(notes[a], after[a], evs, a)
    BY <1>8, <1>10
  <2>2. CASE Reanchors(evs, a)
    <3>1. PICK k \in DOMAIN evs : evs[k].id = a
      BY <2>2 DEF Reanchors
    <3>2. after[a] = [notes[a] EXCEPT !.anchor = evs[k].anchor] /\ notes[a] # NoAnno
      BY <2>1, <3>1 DEF AnchorMoved
    <3>3. notes[a] \in AnnoRecords
      BY <1>1, <3>2 DEF AnnoStates
    <3> QED
      BY <3>2, <3>3 DEF AnnoRecords
  <2>3. CASE ~Reanchors(evs, a)
    BY <2>1, <2>3 DEF AnchorMoved
  <2> QED
    BY <2>2, <2>3
<1>11. ASSUME NEW a \in Drifted(new, src) PROVE NoSpan \in Resolutions(src, after[a].anchor)
  <2>1. a \in Annos /\ after[a] # NoAnno /\ ~after[a].resolved /\ ~StandsAt(src, after[a].anchor)
    BY DEF Drifted, after
  <2>2. AnchorMoved(notes[a], after[a], evs, a) /\ notes[a] # NoAnno /\ ~notes[a].resolved
    BY <1>8, <1>10, <2>1
  <2>3. ~Reanchors(evs, a)
    <3> SUFFICES ASSUME NEW k \in DOMAIN evs, evs[k].id = a PROVE FALSE
      BY DEF Reanchors
    <3>1. after[a] = [notes[a] EXCEPT !.anchor = evs[k].anchor] /\ notes[a] \in AnnoRecords
      BY <1>1, <2>1, <2>2 DEF AnchorMoved, AnnoStates
    <3>2. after[a].anchor = evs[k].anchor
      BY <3>1 DEF AnnoRecords
    <3>3. /\ evs[k].anchor = MakeAnchor(src, found[a].from, found[a].to)
          /\ found[a] \in QuoteSpans(src)
      <4>1. a \in DOMAIN found /\ found[a] # NoSpan /\ evs[k].anchor = MakeAnchor(src, found[a].from, found[a].to)
        BY <1>6 DEF HealingOf
      <4> QED
        BY <1>5, <4>1
    <3>4. StandsAt(src, after[a].anchor)
      BY <3>2, <3>3, AnchorStands
    <3> QED
      BY <2>1, <3>4
  <2>4. after[a] = notes[a]
    BY <2>2, <2>3 DEF AnchorMoved
  <2>5. a \in drifted
    BY <1>2, <2>1, <2>2, <2>4
  <2>6. found[a] = NoSpan
    BY <1>1, <1>5, <1>6, <2>1, <2>2, <2>3, <2>5 DEF HealingOf
  <2> QED
    BY <1>3, <1>4, <2>4, <2>5, <2>6
<1> QED
  BY <1>8, <1>9, <1>10, <1>11 DEF SaysSame, after, notes

\* A suggestion is applied as often as the ledger and the accepts that were not written say.
SuggestionTold(a) ==
    /\ ~CreatedIn(annoLog, a) => applied[a] = 0 /\ a \notin unrecorded
    /\ a \in Known(annoLog) =>
           applied[a] = (IF Notes[a].decision = "accepted" THEN 1 ELSE 0) + (IF a \in unrecorded THEN 1 ELSE 0)

AppliedIsTold == \A a \in Suggestions : SuggestionTold(a)

\* The watcher is armed as long as a question is open, and no longer.
WatcherIsTold ==
    /\ StaysArmed(annoLog) => askArmed \/ forsaken
    /\ askArmed => StaysArmed(annoLog) \/ lingers \/ Len(annoLog) > MaxTail

NoteInv == AnnotationsTypeOK /\ CreatedOnce(annoLog) /\ AppliedIsTold /\ WatcherIsTold

\* What an event that creates nothing decides of its annotation.
ResolvedBy(ev, was) ==
    IF ev.op \in {"resolve", "accept", "reject"} THEN TRUE ELSE IF ev.op = "reopen" THEN FALSE ELSE was
DecidedBy(ev, was) ==
    IF ev.op = "accept" THEN "accepted" ELSE IF ev.op = "reject" THEN "rejected" ELSE was

\* What an event decides is what it folds to.
LEMMA FoldedDecides ==
    ASSUME NEW ev \in AnnoEvents, ev.op # "create", NEW a \in AnnoRecords
    PROVE  /\ Folded(a, ev).resolved = ResolvedBy(ev, a.resolved)
           /\ Folded(a, ev).decision = DecidedBy(ev, a.decision)
<1>1. a # NoAnno
  BY AnnotationAssumption
<1>2. ev.op \in {"answer", "resolve", "reopen", "accept", "reject", "reanchor"}
  BY DEF AnnoEvents
<1>3. CASE ev.op = "answer"
  BY <1>1, <1>3 DEF Folded, AnnoRecords, ResolvedBy, DecidedBy
<1>4. CASE ev.op = "resolve"
  BY <1>1, <1>4 DEF Folded, AnnoRecords, ResolvedBy, DecidedBy
<1>5. CASE ev.op = "reopen"
  BY <1>1, <1>5 DEF Folded, AnnoRecords, ResolvedBy, DecidedBy
<1>6. CASE ev.op = "accept"
  BY <1>1, <1>6 DEF Folded, AnnoRecords, ResolvedBy, DecidedBy
<1>7. CASE ev.op = "reject"
  BY <1>1, <1>7 DEF Folded, AnnoRecords, ResolvedBy, DecidedBy
<1>8. CASE ev.op = "reanchor"
  BY <1>1, <1>8 DEF Folded, AnnoRecords, ResolvedBy, DecidedBy
<1> QED
  BY <1>2, <1>3, <1>4, <1>5, <1>6, <1>7, <1>8

\* A log that says of every annotation what another did, but for what one event decides.
SaysWith(log, new, ev) ==
    /\ new \in Seq(AnnoEvents) /\ CreatedOnce(new) /\ Len(log) <= Len(new)
    /\ \A a \in Annos :
           /\ CreatedIn(new, a) <=> CreatedIn(log, a)
           /\ FoldAnnotations(new)[a] # NoAnno =>
                  LET was == FoldAnnotations(log)[a]
                      now == FoldAnnotations(new)[a]
                  IN  /\ was # NoAnno
                      /\ now.resolved = IF a = ev.id THEN ResolvedBy(ev, was.resolved) ELSE was.resolved
                      /\ now.decision = IF a = ev.id THEN DecidedBy(ev, was.decision) ELSE was.decision
           /\ Len(new) <= MaxTail /\ FoldAnnotations(log)[a] # NoAnno => FoldAnnotations(new)[a] # NoAnno

\* One event more says what the log said, but for what it decides.
LEMMA AppendedSays ==
    ASSUME NEW log \in Seq(AnnoEvents), CreatedOnce(log), NEW ev \in AnnoEvents, ev.op # "create"
    PROVE  SaysWith(log, Append(log, ev), ev)
<1> DEFINE new == Append(log, ev)
           was == FoldAnnotations(log)
           now == FoldAnnotations(new)
<1>1. /\ new \in Seq(AnnoEvents) /\ Len(new) = Len(log) + 1 /\ Len(log) \in Nat
      /\ MaxTail \in Nat /\ ev.id \in Annos
  BY AppendProperties, AnnotationAssumption DEF AnnoEvents
<1>2. \A a : ~Creates(ev, a)
  BY DEF Creates
<1>3. CreatedOnce(new) /\ \A a : CreatedIn(new, a) <=> CreatedIn(log, a)
  BY <1>2, AppendedCreates
<1>4. was \in [Annos -> AnnoStates]
  BY NotesTyped
<1>5. /\ \A a \in Annos : a # ev.id => now[a] \in {NoAnno, was[a]}
      /\ now[ev.id] \in {NoAnno, Folded(NoAnno, ev), Folded(was[ev.id], ev)}
      /\ Len(log) < MaxTail => now = FoldOne(was, ev)
  BY NotesOfAppended
<1> HIDE DEF new, was, now
<1>6. Folded(NoAnno, ev) = NoAnno
  BY FoldedType
<1>7. ASSUME NEW a \in Annos, now[a] # NoAnno
      PROVE  /\ was[a] # NoAnno
             /\ now[a].resolved = IF a = ev.id THEN ResolvedBy(ev, was[a].resolved) ELSE was[a].resolved
             /\ now[a].decision = IF a = ev.id THEN DecidedBy(ev, was[a].decision) ELSE was[a].decision
  <2>1. CASE a # ev.id
    BY <1>5, <1>7, <2>1
  <2>2. CASE a = ev.id
    <3>1. now[a] = Folded(was[a], ev) /\ was[a] # NoAnno
      BY <1>5, <1>6, <1>7, <2>2
    <3>2. was[a] \in AnnoRecords
      BY <1>4, <3>1 DEF AnnoStates
    <3> QED
      BY <2>2, <3>1, <3>2, FoldedDecides
  <2> QED
    BY <2>1, <2>2
<1>8. ASSUME NEW a \in Annos, Len(new) <= MaxTail, was[a] # NoAnno PROVE now[a] # NoAnno
  <2>1. now = FoldOne(was, ev)
    BY <1>1, <1>5, <1>8
  <2>2. was[a] \in AnnoRecords
    BY <1>4, <1>8 DEF AnnoStates
  <2>3. now[a] = (IF a = ev.id THEN Folded(was[a], ev) ELSE was[a])
    BY <1>4, <2>1, FoldOneIs
  <2> QED
    BY <1>8, <2>2, <2>3, FoldedType
<1>9. Len(log) <= Len(new)
  BY <1>1
<1> QED
  BY <1>1, <1>3, <1>7, <1>8, <1>9 DEF SaysWith, new, was, now

\* An event and then a healing.
LEMMA HealedSays ==
    ASSUME NEW log \in Seq(AnnoEvents), NEW mid, NEW new, NEW ev \in AnnoEvents,
           SaysWith(log, mid, ev), SaysSame(mid, new)
    PROVE  SaysWith(log, new, ev)
<1>1. /\ mid \in Seq(AnnoEvents) /\ new \in Seq(AnnoEvents) /\ CreatedOnce(new)
      /\ Len(log) <= Len(mid) /\ Len(mid) <= Len(new)
  BY DEF SaysWith, SaysSame
<1>2. Len(log) \in Nat /\ Len(mid) \in Nat /\ Len(new) \in Nat /\ MaxTail \in Nat
  BY <1>1, AnnotationAssumption
<1>3. Len(log) <= Len(new) /\ (Len(new) <= MaxTail => Len(mid) <= MaxTail)
  BY <1>1, <1>2
<1> QED
  BY <1>1, <1>3 DEF SaysWith, SaysSame

\* Healing alone keeps what the ledger tells; so does an event that decides nothing of what is told.
LEMMA SameStaysTold ==
    ASSUME NoteInv, SaysSame(annoLog, annoLog'), UNCHANGED <<applied, unrecorded, askArmed, forsaken, lingers>>
    PROVE  CreatedOnce(annoLog)' /\ AppliedIsTold' /\ WatcherIsTold'
<1> DEFINE was == FoldAnnotations(annoLog)
           now == FoldAnnotations(annoLog')
<1>1. /\ CreatedOnce(annoLog') /\ Len(annoLog) <= Len(annoLog') /\ annoLog' \in Seq(AnnoEvents)
      /\ \A a \in Annos :
           /\ CreatedIn(annoLog', a) <=> CreatedIn(annoLog, a)
           /\ now[a] # NoAnno =>
                  was[a] # NoAnno /\ now[a].resolved = was[a].resolved /\ now[a].decision = was[a].decision
           /\ Len(annoLog') <= MaxTail /\ was[a] # NoAnno => now[a] # NoAnno
  BY DEF SaysSame
<1>2. Suggestions \subseteq Annos /\ Questions \subseteq Annos /\ MaxTail \in Nat
  BY AnnotationAssumption
<1>3. Len(annoLog) \in Nat /\ Len(annoLog') \in Nat
  BY <1>1 DEF NoteInv, AnnotationsTypeOK
<1>4. /\ \A a \in Annos : a \in Known(annoLog) <=> was[a] # NoAnno
      /\ \A a \in Annos : a \in Known(annoLog)' <=> now[a] # NoAnno
      /\ \A a \in Annos : a \in Open(annoLog) <=> was[a] # NoAnno /\ ~was[a].resolved
      /\ \A a \in Annos : a \in Open(annoLog') <=> now[a] # NoAnno /\ ~now[a].resolved
      /\ Notes = was /\ Notes' = now
  BY DEF Known, Open, Notes
<1> HIDE DEF was, now
<1>5. AppliedIsTold'
  BY <1>1, <1>2, <1>4 DEF NoteInv, AppliedIsTold, SuggestionTold
<1>6. StaysArmed(annoLog') => StaysArmed(annoLog)
  BY <1>1, <1>2, <1>4 DEF StaysArmed, OpenQuestions
<1>7. StaysArmed(annoLog) => StaysArmed(annoLog') \/ Len(annoLog') > MaxTail
  BY <1>1, <1>2, <1>3, <1>4 DEF StaysArmed, OpenQuestions
<1>8. Len(annoLog) > MaxTail => Len(annoLog') > MaxTail
  BY <1>1, <1>2, <1>3
<1> QED
  BY <1>1, <1>5, <1>6, <1>7, <1>8 DEF NoteInv, WatcherIsTold

\* What is told after an event, annotation by annotation.
LEMMA ToldWith ==
    ASSUME NoteInv, NEW ev \in AnnoEvents, SaysWith(annoLog, annoLog', ev)
    PROVE  /\ CreatedOnce(annoLog)' /\ Suggestions \cap Questions = {} /\ Suggestions \cup Questions \subseteq Annos
           /\ \A a \in Annos : CreatedIn(annoLog', a) <=> CreatedIn(annoLog, a)
           /\ \A a \in Annos : a \in Known(annoLog)' =>
                  /\ a \in Known(annoLog)
                  /\ Notes'[a].decision = IF a = ev.id THEN DecidedBy(ev, Notes[a].decision) ELSE Notes[a].decision
           /\ \A a \in Annos : a # ev.id \/ ev.op \in {"answer", "reanchor"} =>
                  /\ a \in Open(annoLog') => a \in Open(annoLog)
                  /\ a \in Open(annoLog) => a \in Open(annoLog') \/ Len(annoLog') > MaxTail
           /\ ev.op \in {"resolve", "accept", "reject"} => ev.id \notin Open(annoLog')
           /\ ev.op = "reopen" =>
                  (ev.id \in Open(annoLog) => ev.id \in Open(annoLog') \/ Len(annoLog') > MaxTail)
           /\ Len(annoLog) > MaxTail => Len(annoLog') > MaxTail
<1> DEFINE was == FoldAnnotations(annoLog)
           now == FoldAnnotations(annoLog')
<1>1. /\ CreatedOnce(annoLog') /\ Len(annoLog) <= Len(annoLog') /\ annoLog' \in Seq(AnnoEvents)
      /\ \A a \in Annos :
           /\ CreatedIn(annoLog', a) <=> CreatedIn(annoLog, a)
           /\ now[a] # NoAnno =>
                /\ was[a] # NoAnno
                /\ now[a].resolved = IF a = ev.id THEN ResolvedBy(ev, was[a].resolved) ELSE was[a].resolved
                /\ now[a].decision = IF a = ev.id THEN DecidedBy(ev, was[a].decision) ELSE was[a].decision
           /\ Len(annoLog') <= MaxTail /\ was[a] # NoAnno => now[a] # NoAnno
  BY DEF SaysWith
<1>2. Suggestions \cup Questions \subseteq Annos /\ Suggestions \cap Questions = {} /\ MaxTail \in Nat
  BY AnnotationAssumption
<1>3. Len(annoLog) \in Nat /\ Len(annoLog') \in Nat
  BY <1>1 DEF NoteInv, AnnotationsTypeOK
<1>4. /\ \A a \in Annos : a \in Known(annoLog) <=> was[a] # NoAnno
      /\ \A a \in Annos : a \in Known(annoLog)' <=> now[a] # NoAnno
      /\ \A a \in Annos : a \in Open(annoLog) <=> was[a] # NoAnno /\ ~was[a].resolved
      /\ \A a \in Annos : a \in Open(annoLog') <=> now[a] # NoAnno /\ ~now[a].resolved
      /\ Notes = was /\ Notes' = now
      /\ \A a : a \in Open(annoLog') => a \in Annos
  BY DEF Known, Open, Notes
<1> HIDE DEF was, now
<1>5. ev.op \in {"answer", "reanchor"} => \A r : ResolvedBy(ev, r) = r
  BY DEF ResolvedBy
<1>6. ev.op \in {"resolve", "accept", "reject"} => ev.id \notin Open(annoLog')
  BY <1>1, <1>4 DEF ResolvedBy
<1>7. ev.op = "reopen" => (ev.id \in Open(annoLog) => ev.id \in Open(annoLog') \/ Len(annoLog') > MaxTail)
  <2> SUFFICES ASSUME ev.op = "reopen", ev.id \in Open(annoLog), ~(Len(annoLog') > MaxTail)
               PROVE  ev.id \in Open(annoLog')
    OBVIOUS
  <2>1. ev.id \in Annos /\ \A r : ResolvedBy(ev, r) = FALSE
    BY DEF AnnoEvents, ResolvedBy
  <2>2. was[ev.id] # NoAnno /\ Len(annoLog') <= MaxTail
    BY <1>2, <1>3, <1>4, <2>1
  <2>3. now[ev.id] # NoAnno /\ now[ev.id].resolved = FALSE
    BY <1>1, <2>1, <2>2
  <2> QED
    BY <1>4, <2>1, <2>3
<1>8. ASSUME NEW a \in Annos, a # ev.id \/ ev.op \in {"answer", "reanchor"}
      PROVE  /\ a \in Open(annoLog') => a \in Open(annoLog)
             /\ a \in Open(annoLog) => a \in Open(annoLog') \/ Len(annoLog') > MaxTail
  <2>1. now[a] # NoAnno => was[a] # NoAnno /\ now[a].resolved = was[a].resolved
    BY <1>1, <1>5, <1>8
  <2>2. was[a] # NoAnno => now[a] # NoAnno \/ Len(annoLog') > MaxTail
    BY <1>1, <1>2, <1>3
  <2> QED
    BY <1>4, <2>1, <2>2
<1>9. Len(annoLog) > MaxTail => Len(annoLog') > MaxTail
  BY <1>1, <1>2, <1>3
<1> QED
  BY <1>1, <1>2, <1>4, <1>6, <1>7, <1>8, <1>9

\* An event about none of the questions, or one that opens and closes nothing, leaves the watcher right.
LEMMA WatcherStays ==
    ASSUME NoteInv, NEW ev \in AnnoEvents, SaysWith(annoLog, annoLog', ev),
           ev.id \notin Questions \/ ev.op \in {"answer", "reanchor"}, UNCHANGED <<askArmed, forsaken, lingers>>
    PROVE  WatcherIsTold'
<1>1. /\ \A a \in Questions : /\ a \in Open(annoLog') => a \in Open(annoLog)
                              /\ a \in Open(annoLog) => a \in Open(annoLog') \/ Len(annoLog') > MaxTail
      /\ Len(annoLog) > MaxTail => Len(annoLog') > MaxTail
  BY ToldWith
<1> QED
  BY <1>1 DEF NoteInv, WatcherIsTold, StaysArmed, OpenQuestions

\* An event that decides nothing leaves the suggestions as they were told.
LEMMA AppliedStays ==
    ASSUME NoteInv, NEW ev \in AnnoEvents, SaysWith(annoLog, annoLog', ev), ev.op \notin {"accept", "reject"},
           UNCHANGED <<applied, unrecorded>>
    PROVE  AppliedIsTold'
<1>1. \A a \in Annos : a \in Known(annoLog)' => a \in Known(annoLog) /\ Notes'[a].decision = Notes[a].decision
  BY ToldWith DEF DecidedBy
<1>2. Suggestions \subseteq Annos /\ \A a \in Annos : CreatedIn(annoLog', a) <=> CreatedIn(annoLog, a)
  BY ToldWith
<1> QED
  BY <1>1, <1>2 DEF NoteInv, AppliedIsTold, SuggestionTold

\* Writing one event that creates nothing.
LEMMA EventWritten ==
    ASSUME NoteInv, NEW ev \in AnnoEvents, ev.op # "create", AppendEvent(ev)
    PROVE  /\ SaysWith(annoLog, annoLog', ev) /\ CreatedOnce(annoLog)'
           /\ annoLog' \in Seq(AnnoEvents) /\ Len(annoLog') <= MaxEvents
<1>1. /\ annoLog \in Seq(AnnoEvents) /\ CreatedOnce(annoLog)
      /\ annoLog' = Append(annoLog, ev) /\ Len(annoLog') <= MaxEvents
  BY DEF NoteInv, AnnotationsTypeOK, AppendEvent, WriteLedger
<1> QED
  BY <1>1, AppendedSays DEF SaysWith

\* The invariant holds at first, and no step breaks it.
LEMMA InitNotes == AnnotationsInit => NoteInv
<1> SUFFICES ASSUME AnnotationsInit PROVE NoteInv
  OBVIOUS
<1>1. annoLog = <<>> /\ DOMAIN annoLog = {} /\ annoLog \in Seq(AnnoEvents) /\ Len(annoLog) = 0
  BY DEF AnnotationsInit
<1>2. AnnotationsTypeOK
  <2>1. text \in Seq(Words) /\ MaxEvents \in Nat /\ MaxTextEdits \in Nat
    BY AnnotationAssumption DEF AnnotationsInit
  <2>2. 0 <= MaxEvents /\ 0 \in 0..MaxTextEdits /\ applied \in [Suggestions -> 0..2]
    BY <2>1 DEF AnnotationsInit
  <2> QED
    BY <1>1, <2>1, <2>2 DEF AnnotationsInit, AnnotationsTypeOK
<1>3. CreatedOnce(annoLog) /\ \A a : ~CreatedIn(annoLog, a)
  BY <1>1 DEF CreatedOnce, CreatedIn
<1>4. \A a \in Annos : FoldAnnotations(annoLog)[a] = NoAnno
  BY <1>1, <1>3, NotesTyped
<1>5. Known(annoLog) = {} /\ Open(annoLog) = {}
  BY <1>4 DEF Known, Open
<1>6. AppliedIsTold
  BY <1>5 DEF AnnotationsInit, AppliedIsTold, SuggestionTold
<1>7. WatcherIsTold
  BY <1>5 DEF AnnotationsInit, WatcherIsTold, StaysArmed, OpenQuestions
<1> QED
  BY <1>2, <1>3, <1>6, <1>7 DEF NoteInv

LEMMA StutterNotes == NoteInv /\ UNCHANGED noteVars => NoteInv'
<1> SUFFICES ASSUME NoteInv, UNCHANGED noteVars PROVE NoteInv'
  OBVIOUS
<1> QED
  BY DEF NoteInv, noteVars, AnnotationsTypeOK, CreatedOnce, AppliedIsTold, SuggestionTold, WatcherIsTold,
         Known, Notes, StaysArmed, OpenQuestions

LEMMA EditOnDiskNotes ==
    ASSUME NoteInv, NEW draft \in Drafts \cup {NoText}, EditOnDisk(draft)
    PROVE  NoteInv'
<1>1. text' \in Seq(Words) \cup {NoText} /\ edits' \in 0..MaxTextEdits
  BY AnnotationAssumption DEF NoteInv, AnnotationsTypeOK, EditOnDisk
<1>2. UNCHANGED <<annoLog, askArmed, applied, unrecorded, forsaken, lingers>>
  BY DEF EditOnDisk, noteHistory
<1> QED
  BY <1>1, <1>2 DEF NoteInv, AnnotationsTypeOK, CreatedOnce, AppliedIsTold, SuggestionTold, WatcherIsTold,
                  Known, Notes, StaysArmed, OpenQuestions

\* What a healing writes.
LEMMA HealingWritten ==
    ASSUME NoteInv, NEW src \in Seq(Words), NEW log \in Reanchored(annoLog, src), WriteLedger(log),
           UNCHANGED <<applied, unrecorded, askArmed, forsaken, lingers>>
    PROVE  /\ annoLog' \in Seq(AnnoEvents) /\ Len(annoLog') <= MaxEvents
           /\ CreatedOnce(annoLog)' /\ AppliedIsTold' /\ WatcherIsTold'
           /\ \A a \in Drifted(annoLog', src) : NoSpan \in Resolutions(src, FoldAnnotations(annoLog')[a].anchor)
<1>1. annoLog' = log /\ Len(annoLog') <= MaxEvents
  BY DEF WriteLedger
<1>2. annoLog \in Seq(AnnoEvents) /\ CreatedOnce(annoLog)
  BY DEF NoteInv, AnnotationsTypeOK
<1>3. /\ SaysSame(annoLog, annoLog')
      /\ \A a \in Drifted(annoLog', src) : NoSpan \in Resolutions(src, FoldAnnotations(annoLog')[a].anchor)
  <2>1. /\ SaysSame(annoLog, log)
        /\ \A a \in Drifted(log, src) : NoSpan \in Resolutions(src, FoldAnnotations(log)[a].anchor)
    BY <1>2, HealingKeeps
  <2> QED
    BY <1>1, <2>1
<1>4. annoLog' \in Seq(AnnoEvents)
  BY <1>3 DEF SaysSame
<1> QED
  BY <1>1, <1>3, <1>4, SameStaysTold

\* A save and a read heal; a read leaves nothing drifted that can be found.
LEMMA SaveTextNotes ==
    ASSUME NoteInv, NEW draft \in Drafts \cup {NoText}, SaveText(draft)
    PROVE  NoteInv'
<1>1. draft \in Seq(Words) /\ text' = draft /\ edits' \in 0..MaxTextEdits
  BY AnnotationAssumption DEF NoteInv, AnnotationsTypeOK, SaveText
<1>2. UNCHANGED <<applied, unrecorded, askArmed, forsaken, lingers>>
  BY DEF SaveText, noteHistory
<1>3. PICK log \in Reanchored(annoLog, draft) : WriteLedger(log)
  BY DEF SaveText
<1>4. /\ annoLog' \in Seq(AnnoEvents) /\ Len(annoLog') <= MaxEvents
      /\ CreatedOnce(annoLog)' /\ AppliedIsTold' /\ WatcherIsTold'
  BY <1>1, <1>2, <1>3, HealingWritten
<1> QED
  BY <1>1, <1>2, <1>4 DEF NoteInv, AnnotationsTypeOK

LEMMA ReadAnnotationsNotes ==
    ASSUME NoteInv, ReadAnnotations
    PROVE  /\ NoteInv'
           /\ \A a \in Drifted(annoLog', ShownText(text)) :
                  NoSpan \in Resolutions(ShownText(text), FoldAnnotations(annoLog')[a].anchor)
<1>1. text \in Seq(Words) /\ UNCHANGED <<text, edits>>
  BY DEF NoteInv, AnnotationsTypeOK, ReadAnnotations
<1>2. UNCHANGED <<applied, unrecorded, askArmed, forsaken, lingers>>
  BY DEF ReadAnnotations, noteHistory
<1>3. ShownText(text) \in Seq(Words)
  BY <1>1, ShownIsText
<1>4. PICK log \in Reanchored(annoLog, ShownText(text)) : WriteLedger(log)
  BY DEF ReadAnnotations
<1>5. /\ annoLog' \in Seq(AnnoEvents) /\ Len(annoLog') <= MaxEvents
      /\ CreatedOnce(annoLog)' /\ AppliedIsTold' /\ WatcherIsTold'
      /\ \A a \in Drifted(annoLog', ShownText(text)) :
             NoSpan \in Resolutions(ShownText(text), FoldAnnotations(annoLog')[a].anchor)
  BY <1>2, <1>3, <1>4, HealingWritten
<1> QED
  BY <1>1, <1>2, <1>5 DEF NoteInv, AnnotationsTypeOK

LEMMA UnwatchNotes ==
    ASSUME NoteInv, Unwatch
    PROVE  NoteInv'
<1>1. UNCHANGED <<text, annoLog, edits, applied, unrecorded>> /\ askArmed' = FALSE /\ forsaken' = TRUE
      /\ lingers' = FALSE
  BY DEF Unwatch
<1> QED
  BY <1>1 DEF NoteInv, AnnotationsTypeOK, CreatedOnce, AppliedIsTold, SuggestionTold, WatcherIsTold,
                  Known, Notes, StaysArmed, OpenQuestions

LEMMA WatchNotes ==
    ASSUME NoteInv, Watch
    PROVE  NoteInv'
<1>1. UNCHANGED <<text, annoLog, edits, applied, unrecorded>> /\ askArmed' = TRUE /\ forsaken' = FALSE
      /\ lingers' = (OpenQuestions(annoLog) = {})
  BY DEF Watch
<1>2. lingers' \in BOOLEAN /\ (StaysArmed(annoLog') \/ lingers')
  BY <1>1 DEF StaysArmed
<1> QED
  BY <1>1, <1>2 DEF NoteInv, AnnotationsTypeOK, CreatedOnce, AppliedIsTold, SuggestionTold, WatcherIsTold,
                  Known, Notes

\* Events as the handlers write them.
LEMMA EventsAreEvents ==
    /\ \A a \in Annos : \A op \in {"answer", "resolve", "reopen", "accept", "reject"} :
           /\ AnnoEvent(op, a) \in AnnoEvents /\ AnnoEvent(op, a).op = op /\ AnnoEvent(op, a).id = a
           /\ op # "create"
    /\ \A a \in Annos : \A op \in {"create", "reanchor"} : \A anchor \in Anchors :
           /\ AnchorEvent(op, a, anchor) \in AnnoEvents
           /\ AnchorEvent(op, a, anchor).op = op /\ AnchorEvent(op, a, anchor).id = a
           /\ AnchorEvent(op, a, anchor).anchor = anchor
<1> QED
  BY DEF AnnoEvent, AnchorEvent, AnnoEvents

LEMMA AnswerNotes ==
    ASSUME NoteInv, NEW a \in Annos, Answer(a)
    PROVE  NoteInv'
<1> DEFINE ev == AnnoEvent("answer", a)
<1>1. ev \in AnnoEvents /\ ev.op = "answer" /\ ev.id = a
  BY EventsAreEvents
<1>2. AppendEvent(ev) /\ UNCHANGED <<text, edits, askArmed, applied, unrecorded, forsaken, lingers>>
  BY DEF Answer, noteHistory
<1> HIDE DEF ev
<1>3. /\ SaysWith(annoLog, annoLog', ev) /\ CreatedOnce(annoLog)'
      /\ annoLog' \in Seq(AnnoEvents) /\ Len(annoLog') <= MaxEvents
  BY <1>1, <1>2, EventWritten
<1>4. AppliedIsTold' /\ WatcherIsTold'
  BY <1>1, <1>2, <1>3, AppliedStays, WatcherStays
<1> QED
  BY <1>2, <1>3, <1>4 DEF NoteInv, AnnotationsTypeOK

LEMMA ReanchorByHandNotes ==
    ASSUME NoteInv, NEW a \in Annos, ReanchorByHand(a)
    PROVE  NoteInv'
<1>1. text \in Seq(Words)
  BY DEF NoteInv, AnnotationsTypeOK, ReanchorByHand
<1>2. PICK r \in ShortSpans(text) : AppendEvent(AnchorEvent("reanchor", a, MakeAnchor(text, r.from, r.to)))
  BY DEF ReanchorByHand
<1> DEFINE ev == AnchorEvent("reanchor", a, MakeAnchor(text, r.from, r.to))
<1>3. r \in QuoteSpans(text)
  BY DEF ShortSpans
<1>4. ev \in AnnoEvents /\ ev.op = "reanchor" /\ ev.id = a
  BY <1>1, <1>3, AnchorStands, EventsAreEvents
<1>5. AppendEvent(ev) /\ UNCHANGED <<text, edits, askArmed, applied, unrecorded, forsaken, lingers>>
  BY <1>2 DEF ReanchorByHand, noteHistory
<1> HIDE DEF ev
<1>6. /\ SaysWith(annoLog, annoLog', ev) /\ CreatedOnce(annoLog)'
      /\ annoLog' \in Seq(AnnoEvents) /\ Len(annoLog') <= MaxEvents
  BY <1>4, <1>5, EventWritten
<1>7. AppliedIsTold' /\ WatcherIsTold'
  BY <1>4, <1>5, <1>6, AppliedStays, WatcherStays
<1> QED
  BY <1>5, <1>6, <1>7 DEF NoteInv, AnnotationsTypeOK

\* The watcher goes with the last open question that is resolved.
LEMMA ResolveNotes ==
    ASSUME NoteInv, NEW a \in Annos, Resolve(a)
    PROVE  NoteInv'
<1> DEFINE ev == AnnoEvent("resolve", a)
<1>1. ev \in AnnoEvents /\ ev.op = "resolve" /\ ev.id = a
  BY EventsAreEvents
<1>2. /\ AppendEvent(ev) /\ UNCHANGED <<text, edits, applied, unrecorded, forsaken>>
      /\ IF StaysArmed(annoLog') THEN UNCHANGED <<askArmed, lingers>>
         ELSE askArmed' \in {FALSE, askArmed} /\ lingers' = askArmed'
  BY DEF Resolve
<1> HIDE DEF ev
<1>3. /\ SaysWith(annoLog, annoLog', ev) /\ CreatedOnce(annoLog)'
      /\ annoLog' \in Seq(AnnoEvents) /\ Len(annoLog') <= MaxEvents
  BY <1>1, <1>2, EventWritten
<1>4. AppliedIsTold'
  BY <1>1, <1>2, <1>3, AppliedStays
<1>5. StaysArmed(annoLog') => StaysArmed(annoLog)
  <2>1. /\ \A b \in Annos : b # a => (b \in Open(annoLog') => b \in Open(annoLog))
        /\ a \notin Open(annoLog') /\ Questions \subseteq Annos
    BY <1>1, <1>3, ToldWith
  <2> QED
    BY <2>1 DEF StaysArmed, OpenQuestions
<1>6. WatcherIsTold'
  BY <1>2, <1>5 DEF NoteInv, WatcherIsTold
<1>7. askArmed' \in BOOLEAN /\ lingers' \in BOOLEAN
  BY <1>2 DEF NoteInv, AnnotationsTypeOK
<1> QED
  BY <1>2, <1>3, <1>4, <1>6, <1>7 DEF NoteInv, AnnotationsTypeOK

LEMMA ReopenNotes ==
    ASSUME NoteInv, NEW a \in Annos, Reopen(a)
    PROVE  NoteInv'
<1> DEFINE ev == AnnoEvent("reopen", a)
<1>1. ev \in AnnoEvents /\ ev.op = "reopen" /\ ev.id = a
  BY EventsAreEvents
<1>2. /\ AppendEvent(ev) /\ UNCHANGED <<text, edits, askArmed, applied, unrecorded, lingers>>
      /\ forsaken' = (forsaken \/ (a \in Questions /\ ~askArmed))
  BY DEF Reopen
<1> HIDE DEF ev
<1>3. /\ SaysWith(annoLog, annoLog', ev) /\ CreatedOnce(annoLog)'
      /\ annoLog' \in Seq(AnnoEvents) /\ Len(annoLog') <= MaxEvents
  BY <1>1, <1>2, EventWritten
<1>4. AppliedIsTold'
  BY <1>1, <1>2, <1>3, AppliedStays
<1>5. /\ \A b \in Questions : b # a => (b \in Open(annoLog') => b \in Open(annoLog))
      /\ \A b \in Questions : b \in Open(annoLog) => b \in Open(annoLog') \/ Len(annoLog') > MaxTail
      /\ Len(annoLog) > MaxTail => Len(annoLog') > MaxTail
  BY <1>1, <1>3, ToldWith
<1>6. /\ StaysArmed(annoLog') => StaysArmed(annoLog) \/ a \in Questions
      /\ StaysArmed(annoLog) => StaysArmed(annoLog') \/ Len(annoLog') > MaxTail
  BY <1>5 DEF StaysArmed, OpenQuestions
<1>7. WatcherIsTold'
  BY <1>2, <1>5, <1>6 DEF NoteInv, WatcherIsTold
<1>8. forsaken' \in BOOLEAN
  BY <1>2 DEF NoteInv, AnnotationsTypeOK
<1> QED
  BY <1>2, <1>3, <1>4, <1>7, <1>8 DEF NoteInv, AnnotationsTypeOK

LEMMA RejectNotes ==
    ASSUME NoteInv, NEW a \in Annos, Reject(a)
    PROVE  NoteInv'
<1> DEFINE ev == AnnoEvent("reject", a)
<1>1. ev \in AnnoEvents /\ ev.op = "reject" /\ ev.id = a
  BY EventsAreEvents
<1>2. /\ AppendEvent(ev) /\ UNCHANGED <<text, edits, askArmed, applied, unrecorded, forsaken, lingers>>
      /\ a \in Suggestions /\ Notes[a].decision = "none" /\ a \in Known(annoLog)
  BY DEF Reject, noteHistory, Undecided
<1> HIDE DEF ev
<1>3. /\ SaysWith(annoLog, annoLog', ev) /\ CreatedOnce(annoLog)'
      /\ annoLog' \in Seq(AnnoEvents) /\ Len(annoLog') <= MaxEvents
  BY <1>1, <1>2, EventWritten
<1>4. WatcherIsTold'
  <2>1. a \notin Questions
    BY <1>2, AnnotationAssumption
  <2> QED
    BY <1>1, <1>2, <1>3, <2>1, WatcherStays
<1>5. AppliedIsTold'
  <2>1. /\ Suggestions \subseteq Annos
        /\ \A b \in Annos : CreatedIn(annoLog', b) <=> CreatedIn(annoLog, b)
        /\ \A b \in Annos : b \in Known(annoLog)' =>
               /\ b \in Known(annoLog)
               /\ Notes'[b].decision = IF b = a THEN "rejected" ELSE Notes[b].decision
    BY <1>1, <1>3, ToldWith DEF DecidedBy
  <2> QED
    BY <1>2, <2>1 DEF NoteInv, AppliedIsTold, SuggestionTold
<1> QED
  BY <1>2, <1>3, <1>4, <1>5 DEF NoteInv, AnnotationsTypeOK

\* A new annotation: nothing is decided of it, and a question arms the watcher.
LEMMA CreateNotes ==
    ASSUME NoteInv, NEW a \in Annos, Create(a)
    PROVE  NoteInv'
<1>1. text \in Seq(Words) /\ annoLog \in Seq(AnnoEvents) /\ CreatedOnce(annoLog)
  BY DEF NoteInv, AnnotationsTypeOK, Create
<1>2. ShownText(text) \in Seq(Words)
  BY <1>1, ShownIsText
<1>3. PICK r \in ShortSpans(ShownText(text)) :
          AppendEvent(AnchorEvent("create", a, MakeAnchor(ShownText(text), r.from, r.to)))
  BY DEF Create
<1> DEFINE ev == AnchorEvent("create", a, MakeAnchor(ShownText(text), r.from, r.to))
<1>4. r \in QuoteSpans(ShownText(text))
  BY DEF ShortSpans
<1>5. ev \in AnnoEvents /\ ev.op = "create" /\ ev.id = a
  BY <1>2, <1>4, AnchorStands, EventsAreEvents
<1>6. annoLog' = Append(annoLog, ev) /\ Len(annoLog') <= MaxEvents
  BY <1>3 DEF AppendEvent, WriteLedger
<1>7. /\ UNCHANGED <<text, edits, applied, unrecorded>> /\ ~CreatedIn(annoLog, a)
      /\ IF a \in Questions THEN askArmed' \in BOOLEAN /\ forsaken' = ~askArmed' /\ lingers' = FALSE
         ELSE UNCHANGED <<askArmed, forsaken, lingers>>
  BY DEF Create, CreatedIn, Creates
<1> HIDE DEF ev
<1> DEFINE was == FoldAnnotations(annoLog)
           now == FoldAnnotations(annoLog')
<1>8. /\ annoLog' \in Seq(AnnoEvents) /\ Len(annoLog') = Len(annoLog) + 1
      /\ Len(annoLog) \in Nat /\ MaxTail \in Nat
  BY <1>1, <1>5, <1>6, AppendProperties, AnnotationAssumption
<1>9. /\ \A b : Creates(ev, b) <=> b = a
      /\ CreatedOnce(annoLog') /\ \A b : CreatedIn(annoLog', b) <=> CreatedIn(annoLog, b) \/ b = a
  <2>1. \A b : Creates(ev, b) <=> b = a
    BY <1>5 DEF Creates
  <2> QED
    BY <1>1, <1>5, <1>6, <1>7, <2>1, AppendedCreates
<1>10. /\ \A b \in Annos : b # a => now[b] \in {NoAnno, was[b]}
       /\ now[a] \in {NoAnno, Folded(NoAnno, ev), Folded(was[a], ev)}
       /\ Len(annoLog) < MaxTail => now = FoldOne(was, ev)
  BY <1>1, <1>5, <1>6, NotesOfAppended
<1>11. was \in [Annos -> AnnoStates] /\ was[a] = NoAnno
  BY <1>1, <1>7, NotesTyped
<1>12. /\ \A b \in Annos : b \in Known(annoLog) <=> was[b] # NoAnno
       /\ \A b \in Annos : b \in Known(annoLog)' <=> now[b] # NoAnno
       /\ \A b \in Annos : b \in Open(annoLog) <=> was[b] # NoAnno /\ ~was[b].resolved
       /\ \A b \in Annos : b \in Open(annoLog') <=> now[b] # NoAnno /\ ~now[b].resolved
       /\ Notes = was /\ Notes' = now
  BY DEF Known, Open, Notes
<1>13. Suggestions \cup Questions \subseteq Annos
  BY AnnotationAssumption
<1> HIDE DEF was, now
<1>14. /\ Folded(NoAnno, ev) = Fresh(ev) /\ Fresh(ev) # NoAnno
       /\ Fresh(ev).resolved = FALSE /\ Fresh(ev).decision = "none"
  <2>1. Fresh(ev) \in AnnoRecords /\ Folded(NoAnno, ev) = Fresh(ev)
    BY <1>5, FoldedType
  <2>2. Fresh(ev) # NoAnno
    BY <2>1, AnnotationAssumption
  <2> QED
    BY <2>1, <2>2 DEF Fresh
<1>15. now[a] \in {NoAnno, Fresh(ev)}
  BY <1>10, <1>11, <1>14
<1>16. Len(annoLog') <= MaxTail =>
          now[a] = Fresh(ev) /\ \A b \in Annos : b # a => now[b] = was[b]
  <2> SUFFICES ASSUME Len(annoLog') <= MaxTail
               PROVE  now[a] = Fresh(ev) /\ \A b \in Annos : b # a => now[b] = was[b]
    OBVIOUS
  <2>1. now = FoldOne(was, ev)
    BY <1>8, <1>10
  <2> QED
    BY <1>5, <1>11, <1>14, <2>1, FoldOneIs
<1>17. AppliedIsTold'
  <2>1. ASSUME NEW s \in Suggestions
        PROVE  SuggestionTold(s)'
    <3>1. s \in Annos
      BY <1>13
    <3>2. CASE s = a
      BY <1>7, <1>9, <1>12, <1>14, <1>15, <3>2 DEF NoteInv, AppliedIsTold, SuggestionTold
    <3>3. CASE s # a
      BY <1>7, <1>9, <1>10, <1>12, <3>1, <3>3 DEF NoteInv, AppliedIsTold, SuggestionTold
    <3> QED
      BY <3>2, <3>3
  <2> QED
    BY <2>1 DEF AppliedIsTold, SuggestionTold
<1>18. WatcherIsTold'
  <2>1. StaysArmed(annoLog') => askArmed' \/ forsaken'
    <3>1. CASE a \in Questions
      BY <1>7, <3>1
    <3>2. CASE a \notin Questions
      <4>1. StaysArmed(annoLog') => StaysArmed(annoLog)
        BY <1>10, <1>12, <1>13, <3>2 DEF StaysArmed, OpenQuestions
      <4> QED
        BY <1>7, <3>2, <4>1 DEF NoteInv, WatcherIsTold
    <3> QED
      BY <3>1, <3>2
  <2>2. ASSUME askArmed', Len(annoLog') <= MaxTail, ~lingers' PROVE StaysArmed(annoLog')
    <3>1. CASE a \in Questions
      <4>1. a \in Open(annoLog')
        BY <1>12, <1>14, <1>16, <2>2
      <4> QED
        BY <3>1, <4>1 DEF StaysArmed, OpenQuestions
    <3>2. CASE a \notin Questions
      <4>1. askArmed /\ ~lingers /\ ~(Len(annoLog) > MaxTail)
        <5>1. ~(Len(annoLog) > MaxTail)
          BY <1>8, <2>2
        <5>2. askArmed' = askArmed /\ lingers' = lingers
          BY <1>7, <3>2
        <5> QED
          BY <2>2, <5>1, <5>2
      <4>2. StaysArmed(annoLog)
        BY <4>1 DEF NoteInv, WatcherIsTold
      <4> QED
        BY <1>12, <1>13, <1>16, <2>2, <3>2, <4>2 DEF StaysArmed, OpenQuestions
    <3> QED
      BY <3>1, <3>2
  <2>3. Len(annoLog') <= MaxTail \/ Len(annoLog') > MaxTail
    BY <1>8
  <2> QED
    BY <2>1, <2>2, <2>3 DEF WatcherIsTold
<1>19. askArmed' \in BOOLEAN /\ forsaken' \in BOOLEAN /\ lingers' \in BOOLEAN
  BY <1>7 DEF NoteInv, AnnotationsTypeOK
<1> QED
  BY <1>6, <1>7, <1>8, <1>9, <1>17, <1>18, <1>19 DEF NoteInv, AnnotationsTypeOK

\* Splicing words into a text makes a text.
LEMMA SplicedIsText ==
    ASSUME NEW s \in Seq(Words), NEW r \in QuoteSpans(ShownText(s)), NEW a \in Suggestions
    PROVE  Slice(s, 0, r.from) \o Replacement[a] \o Slice(s, r.to, Len(s)) \in Seq(Words)
<1>1. ShownText(s) \in Seq(Words) /\ Len(ShownText(s)) <= Len(s) /\ Len(s) \in Nat
  BY ShownIsText
<1>2. r.from \in 0..Len(s) /\ r.to \in Nat
  <2>1. Len(ShownText(s)) \in Nat
    BY <1>1
  <2>2. r.from \in 0..Len(ShownText(s)) /\ r.to \in 1..Len(ShownText(s))
    BY DEF QuoteSpans, Spans
  <2> QED
    BY <1>1, <2>1, <2>2
<1>3. Slice(s, 0, r.from) \in Seq(Words)
  BY <1>2, SliceIs
<1>4. Slice(s, r.to, Len(s)) \in Seq(Words)
  <2>1. Len(s) \in 0..Len(s)
    BY <1>1
  <2> QED
    BY <1>2, <2>1, SliceIs
<1>5. Replacement[a] \in Seq(Words)
  BY AnnotationAssumption
<1> HIDE DEF Slice
<1> QED
  BY <1>3, <1>4, <1>5, ConcatProperties

\* An undecided suggestion goes into the text, and is written as accepted or not at all.
LEMMA AcceptNotes ==
    ASSUME NoteInv, NEW a \in Annos, Accept(a)
    PROVE  NoteInv'
<1>1. /\ text \in Seq(Words) /\ annoLog \in Seq(AnnoEvents) /\ CreatedOnce(annoLog)
      /\ Len(annoLog) <= MaxEvents
  BY DEF NoteInv, AnnotationsTypeOK, Accept
<1>2. /\ a \in Suggestions /\ a \in Known(annoLog) /\ Notes[a].decision = "none"
      /\ applied' = [applied EXCEPT ![a] = @ + 1] /\ UNCHANGED <<askArmed, edits, forsaken, lingers>>
  BY DEF Accept, Undecided
<1>3. /\ CreatedIn(annoLog, a) /\ Notes[a].anchor \in Anchors /\ a \notin Questions
      /\ Suggestions \subseteq Annos
  <2>1. Notes[a] \in AnnoStates /\ Notes[a] # NoAnno /\ CreatedIn(annoLog, a)
    BY <1>1, <1>2, NotesTyped DEF Notes, Known
  <2> QED
    BY <1>2, <2>1, AnnotationAssumption DEF AnnoStates, AnnoRecords
<1>4. text' \in Seq(Words)
  <2>1. PICK r \in Resolutions(ShownText(text), Notes[a].anchor) \ {NoSpan} :
            text' = Slice(text, 0, r.from) \o Replacement[a] \o Slice(text, r.to, Len(text))
    BY DEF Accept
  <2>2. r \in QuoteSpans(ShownText(text))
    BY <1>1, <1>3, ShownIsText, FoundIsQuote
  <2> QED
    BY <1>1, <1>2, <2>1, <2>2, SplicedIsText
<1>5. /\ applied[a] = IF a \in unrecorded THEN 1 ELSE 0
      /\ applied \in [Suggestions -> 0..2] /\ unrecorded \subseteq Suggestions
  BY <1>2 DEF NoteInv, AppliedIsTold, SuggestionTold, AnnotationsTypeOK
<1>6. /\ applied' \in [Suggestions -> 0..2] /\ applied'[a] = applied[a] + 1
      /\ \A s \in Suggestions : s # a => applied'[s] = applied[s]
  <2>1. applied[a] + 1 \in 0..2
    BY <1>5
  <2> QED
    BY <1>2, <1>5, <2>1
<1>7. CASE /\ \E log \in Reanchored(Append(annoLog, AnnoEvent("accept", a)), text') : WriteLedger(log)
           /\ UNCHANGED unrecorded
  <2> DEFINE ev == AnnoEvent("accept", a)
             mid == Append(annoLog, ev)
  <2>1. ev \in AnnoEvents /\ ev.op = "accept" /\ ev.id = a
    BY EventsAreEvents
  <2>2. SaysWith(annoLog, mid, ev)
    BY <1>1, <2>1, AppendedSays
  <2>3. PICK log \in Reanchored(mid, text') : WriteLedger(log)
    BY <1>7
  <2> HIDE DEF ev, mid
  <2>4. mid \in Seq(AnnoEvents) /\ CreatedOnce(mid)
    BY <2>2 DEF SaysWith
  <2>5. SaysSame(mid, log)
    BY <1>4, <2>3, <2>4, HealingKeeps
  <2>6. annoLog' = log /\ Len(annoLog') <= MaxEvents
    BY <2>3 DEF WriteLedger
  <2>7. SaysWith(annoLog, log, ev)
    BY <1>1, <2>1, <2>2, <2>5, HealedSays
  <2>8. SaysWith(annoLog, annoLog', ev)
    BY <2>6, <2>7
  <2>9. annoLog' \in Seq(AnnoEvents) /\ CreatedOnce(annoLog)'
    BY <2>8 DEF SaysWith
  <2>10. WatcherIsTold'
    BY <1>2, <1>3, <2>1, <2>8, WatcherStays
  <2>11. AppliedIsTold'
    <3>1. /\ \A b \in Annos : CreatedIn(annoLog', b) <=> CreatedIn(annoLog, b)
          /\ \A b \in Annos : b \in Known(annoLog)' =>
                 /\ b \in Known(annoLog)
                 /\ Notes'[b].decision = IF b = a THEN "accepted" ELSE Notes[b].decision
      BY <2>1, <2>8, ToldWith DEF DecidedBy
    <3>2. ASSUME NEW s \in Suggestions
          PROVE  SuggestionTold(s)'
      <4>1. s \in Annos
        BY <1>3
      <4>2. CASE s = a
        BY <1>3, <1>5, <1>6, <1>7, <3>1, <4>1, <4>2 DEF SuggestionTold
      <4>3. CASE s # a
        BY <1>6, <1>7, <3>1, <4>1, <4>3 DEF NoteInv, AppliedIsTold, SuggestionTold
      <4> QED
        BY <4>2, <4>3
    <3> QED
      BY <3>2 DEF AppliedIsTold, SuggestionTold
  <2> QED
    BY <1>2, <1>4, <1>5, <1>6, <1>7, <2>6, <2>9, <2>10, <2>11 DEF NoteInv, AnnotationsTypeOK
<1>8. CASE unrecorded' = unrecorded \cup {a} /\ applied[a] = 0 /\ UNCHANGED annoLog
  <2>1. /\ Known(annoLog)' = Known(annoLog) /\ Notes' = Notes
        /\ \A s : CreatedIn(annoLog', s) <=> CreatedIn(annoLog, s)
    BY <1>8 DEF Known, Notes
  <2>2. CreatedOnce(annoLog)' /\ WatcherIsTold'
    BY <1>2, <1>8 DEF NoteInv, CreatedOnce, WatcherIsTold, StaysArmed, OpenQuestions
  <2>3. AppliedIsTold'
    <3>1. ASSUME NEW s \in Suggestions
          PROVE  SuggestionTold(s)'
      <4>1. CASE s = a
        BY <1>2, <1>3, <1>5, <1>6, <1>8, <2>1, <4>1 DEF SuggestionTold
      <4>2. CASE s # a
        BY <1>6, <1>8, <2>1, <4>2 DEF NoteInv, AppliedIsTold, SuggestionTold
      <4> QED
        BY <4>1, <4>2
    <3> QED
      BY <3>1 DEF AppliedIsTold, SuggestionTold
  <2>4. unrecorded' \subseteq Suggestions
    BY <1>2, <1>5, <1>8
  <2> QED
    BY <1>1, <1>2, <1>4, <1>6, <1>8, <2>2, <2>3, <2>4 DEF NoteInv, AnnotationsTypeOK
<1> QED
  BY <1>7, <1>8 DEF Accept

LEMMA NotesStep == NoteInv /\ [AnnotationsNext]_noteVars => NoteInv'
<1> SUFFICES ASSUME NoteInv, [AnnotationsNext]_noteVars PROVE NoteInv'
  OBVIOUS
<1>1. CASE \E draft \in Drafts \cup {NoText} : EditOnDisk(draft) \/ SaveText(draft)
  BY <1>1, EditOnDiskNotes, SaveTextNotes
<1>2. CASE ReadAnnotations
  BY <1>2, ReadAnnotationsNotes
<1>3. CASE Unwatch
  BY <1>3, UnwatchNotes
<1>6. CASE Watch
  BY <1>6, WatchNotes
<1>4. ASSUME NEW a \in Annos,
             \/ Create(a) \/ Answer(a) \/ Resolve(a) \/ Reopen(a)
             \/ ReanchorByHand(a) \/ Accept(a) \/ Reject(a)
      PROVE  NoteInv'
  BY <1>4, CreateNotes, AnswerNotes, ResolveNotes, ReopenNotes, ReanchorByHandNotes, AcceptNotes, RejectNotes
<1>5. CASE UNCHANGED noteVars
  BY <1>5, StutterNotes
<1> QED
  BY <1>1, <1>2, <1>3, <1>4, <1>5, <1>6 DEF AnnotationsNext

\* The annotations' variables keep their types.
THEOREM AnnotationsKeepTypes == AnnotationsSpec => []AnnotationsTypeOK
<1>1. NoteInv => AnnotationsTypeOK
  BY DEF NoteInv
<1> QED
  BY <1>1, InitNotes, NotesStep, PTL DEF AnnotationsSpec

\* What the ledger says is so (handleAnnotationsWrite, foldAnnotations): a blocking question that is
\* open has its watcher unless somebody took it away or its marker was not written, the watcher goes
\* with the last of them unless it was bound by hand or its marker stayed, and a suggestion is in the
\* text once if it was accepted and never otherwise; whatever is asked, decided, healed and edited in
\* between, and however little of the ledger is read back.
THEOREM LedgerIsTrue == AnnotationsSpec => []LedgerTrue
<1>1. NoteInv => LedgerTrue
  BY DEF NoteInv, AppliedIsTold, SuggestionTold, WatcherIsTold, LedgerTrue, StaysArmed
<1> QED
  BY <1>1, InitNotes, NotesStep, PTL DEF AnnotationsSpec

\* Healing converges in one pass (reanchorFile): after a read no open annotation that can be found
\* stands elsewhere than its anchor says.
THEOREM ReadsHealAtOnce == AnnotationsSpec => HealsAtOnce
<1>1. NoteInv => [ReadAnnotations => \A a \in Drifted(annoLog', ShownText(text)) :
                     NoSpan \in Resolutions(ShownText(text), FoldAnnotations(annoLog')[a].anchor)]_noteVars
  BY ReadAnnotationsNotes
<1> QED
  BY <1>1, InitNotes, NotesStep, PTL DEF AnnotationsSpec, HealsAtOnce

-----------------------------------------------------------------------------
(***************************************************************************)
(* The panes of the notebook cards are current, for all cards, texts,      *)
(* files, values and functions Eval, and turns of any length.              *)
(*                                                                         *)
(* CellsCurrent is no invariant of the calls a turn is made of: between a  *)
(* changed export and the marks it causes a pane is out of date.  So the   *)
(* invariant, Sound, holds in the middle of a turn too, and speaks of what *)
(* is still to be done: the cells P that will be marked, the cards L whose *)
(* cycles will be looked for, the cells A whose return is not over and the *)
(* cards T that will be ticked.  With nothing to be done it is inductive.  *)
(***************************************************************************)

\* What ShowsItsInputs says of the cells that no pending call marks or runs again.
PanesFit(N, P, A) ==
    \A c \in CellIds :
        /\ Acyclic(N, c) /\ N.out[c].status = "ok" /\ ~Busy(N, c)
        /\ ~N.out[c].stale /\ c \notin N.timers \cup N.missed \cup P /\ ~(c \in N.redo /\ c \in A)
        => Fits(N, c, N.out[c].made)

\* A run whose reply will count reads what its cell reads, or the cell will run again.
RunsFit(N, P) ==
    \A i \in DOMAIN N.jobs : N.jobs[i].current =>
        LET c == N.jobs[i].cell IN
        /\ Present(N, c)
        /\ Acyclic(N, c) => c \in N.redo \cup N.timers \cup N.missed \cup P \/ Fits(N, c, N.jobs[i])

\* A cell of a cycle shows nothing as current, and never waits for its turn.
CyclesRest(N, L) ==
    \A c \in CellIds : c \in Cyclic(N, CardOf[c]) /\ CardOf[c] \notin L =>
        /\ N.out[c].status # "ok" \/ c \in N.missed
        /\ InFlight(N, c) => c \in N.missed
        /\ N.state[c] # "queued"

\* A cell that is not there neither runs nor exports.
AbsentRest(N) ==
    \A c \in CellIds :
        /\ CardOf[c] \notin N.open => ~Present(N, c)
        /\ ~Present(N, c) => N.state[c] = "idle" /\ N.exports[c] = Undef

\* Where a cell is queued, a cell of its card runs or a pending call will tick.
QueueMoves(N, L, A, T) ==
    \A c \in CellIds : N.state[c] = "queued" /\ ~N.orphaned =>
        \/ CardOf[c] \in L \cup T
        \/ \E d \in Of(CardOf[c]) : N.state[d] = "running" \/ d \in A

RunningFly(N) == \A c \in CellIds : N.state[c] = "running" => InFlight(N, c)

Sound(N, P, L, A, T) ==
    /\ PanesFit(N, P, A) /\ RunsFit(N, P) /\ CyclesRest(N, L)
    /\ AbsentRest(N) /\ QueueMoves(N, L, A, T) /\ RunningFly(N)

\* Every cell is among those of its card, and its card's cells have that card.
LEMMA CardsOfCells ==
    /\ \A c \in CellIds : CardOf[c] \in Books /\ c \in Of(CardOf[c])
    /\ \A k : Of(k) \subseteq CellIds /\ \A c \in Of(k) : CardOf[c] = k
BY CellsAssumption DEF Of

\* Cells that read something, and cells of a cycle, are cells of the card that are there.
LEMMA ImportersAreCells == \A N, x : Importers(N, x) \in SUBSET CellIds
BY DEF Importers

LEMMA CyclicArePresent == \A N, k : \A c \in Cyclic(N, k) : c \in Of(k) /\ Present(N, c)
BY DEF Cyclic

\* With more pending calls there is less to show.
LEMMA SoundIsMonotone ==
    ASSUME NEW N, NEW P, NEW L, NEW A, NEW T, NEW P2, NEW L2, NEW A2, NEW T2,
           Sound(N, P, L, A, T), P \subseteq P2, L \subseteq L2, A \subseteq A2, T \subseteq T2
    PROVE  Sound(N, P2, L2, A2, T2)
<1>1. PanesFit(N, P2, A2)
  BY DEF Sound, PanesFit
<1>2. RunsFit(N, P2)
  BY DEF Sound, RunsFit
<1>3. CyclesRest(N, L2)
  BY DEF Sound, CyclesRest
<1>4. QueueMoves(N, L2, A2, T2)
  BY DEF Sound, QueueMoves
<1> QED
  BY <1>1, <1>2, <1>3, <1>4 DEF Sound

\* The cycles of a card are the business of its own cells.
LEMMA SameCycles ==
    ASSUME NEW M, NEW N, NEW k, \A c \in Of(k) : M.spec[c] = N.spec[c]
    PROVE  Cyclic(M, k) = Cyclic(N, k)
<1>1. {c \in Of(k) : Present(M, c)} = {c \in Of(k) : Present(N, c)}
  BY DEF Present
<1>2. ASSUME NEW c \in Of(k) PROVE Deps(M, c) = Deps(N, c)
  BY CardsOfCells DEF Deps, Present
<1>3. ASSUME NEW X \in SUBSET {c \in Of(k) : Present(N, c)}
      PROVE  (\A c \in X : Deps(M, c) \cap X # {}) <=> (\A c \in X : Deps(N, c) \cap X # {})
  BY <1>2
<1>4. {X \in SUBSET {c \in Of(k) : Present(M, c)} : \A c \in X : Deps(M, c) \cap X # {}}
        = {X \in SUBSET {c \in Of(k) : Present(N, c)} : \A c \in X : Deps(N, c) \cap X # {}}
  BY <1>1, <1>3
<1> QED
  BY <1>4 DEF Cyclic

\* Runtimes with the same texts, exports and files: what their graphs and inputs are is the same.
Alike(M, N) == M.spec = N.spec /\ M.open = N.open /\ M.exports = N.exports /\ M.content = N.content

\* They have the same cells, edges and cycles.
LEMMA AlikeGraphs ==
    ASSUME NEW M, NEW N, M.spec = N.spec
    PROVE  /\ \A c : Present(M, c) <=> Present(N, c)
           /\ \A k : Cyclic(M, k) = Cyclic(N, k)
           /\ \A c : Acyclic(M, c) <=> Acyclic(N, c)
           /\ \A c : Deps(M, c) = Deps(N, c)
           /\ \A c : Importers(M, c) = Importers(N, c)
<1>1. \A c : Present(M, c) <=> Present(N, c)
  BY DEF Present
<1>2. \A k : Cyclic(M, k) = Cyclic(N, k)
  BY SameCycles
<1>3. \A c : Acyclic(M, c) <=> Acyclic(N, c)
  BY <1>1, <1>2 DEF Acyclic
<1>4. \A c : Deps(M, c) = Deps(N, c)
  BY <1>1 DEF Deps
<1>5. \A c : Importers(M, c) = Importers(N, c)
  BY <1>1 DEF Importers
<1> QED
  BY <1>1, <1>2, <1>3, <1>4, <1>5

\* A run fits in one as in the other.
LEMMA AlikeFits ==
    ASSUME NEW M, NEW N, Alike(M, N)
    PROVE  \A c, past : Fits(M, c, past) <=> Fits(N, c, past)
<1>1. \A x : Input(M, x) = Input(N, x)
  BY DEF Alike, Input, Present
<1> QED
  BY <1>1 DEF Alike, Fits

\* A run still fits when what it reads from open cards is what it was.
LEMMA StillFits ==
    ASSUME NEW M, NEW N, NEW c, NEW past, Fits(N, c, past), M.spec[c] = N.spec[c],
           \A x \in N.spec[c].reads \ {c} : x \in Files \/ CardOf[x] \in M.open =>
               (x \in Files \/ CardOf[x] \in N.open) /\ Input(M, x) = Input(N, x)
    PROVE  Fits(M, c, past)
BY DEF Fits

\* What a call leaves to be done first: nothing more than rest, or a tick.
LEMMA TriggerKeeps ==
    ASSUME NEW N \in Runtime, NEW c \in CellIds, NEW P, NEW L, NEW A, NEW T, NEW rest,
           Sound(N, P \cup {c}, L, A, T)
    PROVE  LET left == Trigger(N, c, rest) IN
           /\ left.nb \in Runtime
           /\ \/ left.todo = rest /\ Sound(left.nb, P, L, A, T)
              \/ /\ left.todo = <<Do("tick", CardOf[c])>> \o rest
                 /\ Sound(left.nb, P, L, A, T \cup {CardOf[c]})
<1> DEFINE k == CardOf[c]
<1>0. k \in Books /\ c \in Of(k)
  BY CardsOfCells
<1>1. CASE ~Acyclic(N, c)
  <2>1. Trigger(N, c, rest) = Left(N, rest)
    BY <1>1 DEF Trigger, Acyclic
  <2>2. PanesFit(N, P, A)
    BY <1>1 DEF Sound, PanesFit
  <2>3. RunsFit(N, P)
    BY <1>1 DEF Sound, RunsFit
  <2> QED
    BY <2>1, <2>2, <2>3 DEF Sound, Left
<1>2. CASE Acyclic(N, c) /\ N.state[c] = "running"
  <2> DEFINE M == [N EXCEPT !.timers = @ \ {c}, !.redo = @ \cup {c}]
  <2>1. Trigger(N, c, rest) = Left(M, rest)
    BY <1>2 DEF Trigger, Acyclic
  <2>2. /\ M \in Runtime
        /\ M.timers = N.timers \ {c} /\ M.redo = N.redo \cup {c}
        /\ Alike(M, N) /\ M.state = N.state /\ M.out = N.out /\ M.jobs = N.jobs
        /\ M.missed = N.missed /\ M.orphaned = N.orphaned
    BY DEF Runtime, Alike
  <2> HIDE DEF M
  <2>3. M.spec = N.spec
    BY <2>2 DEF Alike
  <2>4. PanesFit(M, P, A)
    BY <1>2, <2>2, <2>3, AlikeGraphs, AlikeFits DEF Sound, PanesFit, Busy
  <2>5. RunsFit(M, P)
    BY <2>2, <2>3, AlikeGraphs, AlikeFits DEF Sound, RunsFit
  <2>6. CyclesRest(M, L) /\ RunningFly(M)
    BY <2>2, <2>3, AlikeGraphs DEF Sound, CyclesRest, RunningFly, InFlight
  <2>7. AbsentRest(M) /\ QueueMoves(M, L, A, T)
    BY <2>2, <2>3, AlikeGraphs DEF Sound, AbsentRest, QueueMoves, Alike
  <2> QED
    BY <2>1, <2>2, <2>4, <2>5, <2>6, <2>7 DEF Sound, Left
<1>3. CASE Acyclic(N, c) /\ N.state[c] # "running"
  <2> DEFINE M == [N EXCEPT !.timers = @ \ {c}, !.state[c] = "queued",
                            !.out[c] = [@ EXCEPT !.running = TRUE, !.stale = FALSE],
                            !.missed = IF InFlight(N, c) THEN @ \cup {c} ELSE @]
  <2>1. Trigger(N, c, rest) = Left(M, <<Do("tick", k)>> \o rest)
    BY <1>3 DEF Trigger, Acyclic
  <2>2. /\ M \in Runtime
        /\ M.timers = N.timers \ {c} /\ M.redo = N.redo
        /\ Alike(M, N) /\ M.jobs = N.jobs /\ M.orphaned = N.orphaned
        /\ M.state[c] = "queued"
        /\ \A d \in CellIds \ {c} : M.state[d] = N.state[d] /\ M.out[d] = N.out[d]
        /\ M.out[c].status = N.out[c].status
        /\ N.missed \subseteq M.missed /\ M.missed \subseteq N.missed \cup {c}
        /\ InFlight(N, c) => c \in M.missed
    <3>1. N.out[c] \in Pane /\ N.state \in [CellIds -> {"idle", "queued", "running", "stale"}]
          /\ N.out \in [CellIds -> Pane]
      BY DEF Runtime
    <3> DEFINE pane == [N.out[c] EXCEPT !.running = TRUE, !.stale = FALSE]
    <3>2. pane \in Pane /\ pane.status = N.out[c].status
      BY <3>1 DEF Pane
    <3>3. /\ Alike(M, N) /\ M.jobs = N.jobs /\ M.orphaned = N.orphaned /\ M.allowed = N.allowed
          /\ M.timers = N.timers \ {c} /\ M.redo = N.redo
          /\ M.missed = IF InFlight(N, c) THEN N.missed \cup {c} ELSE N.missed
          /\ M.state = [N.state EXCEPT ![c] = "queued"]
          /\ M.out = [N.out EXCEPT ![c] = pane]
      BY DEF Runtime, Alike
    <3>4. M \in Runtime
      BY <3>1, <3>2, <3>3 DEF Runtime, Alike
    <3> HIDE DEF M, pane
    <3> QED
      BY <3>1, <3>2, <3>3, <3>4
  <2> HIDE DEF M
  <2>3. M.spec = N.spec
    BY <2>2 DEF Alike
  <2>4. PanesFit(M, P, A)
    <3> SUFFICES ASSUME NEW d \in CellIds,
                        Acyclic(M, d), M.out[d].status = "ok", ~Busy(M, d), ~M.out[d].stale,
                        d \notin M.timers \cup M.missed \cup P, ~(d \in M.redo /\ d \in A)
                 PROVE  Fits(M, d, M.out[d].made)
      BY DEF PanesFit
    <3>1. d # c
      BY <2>2 DEF Busy
    <3>2. Fits(N, d, N.out[d].made)
      BY <2>2, <2>3, <3>1, AlikeGraphs DEF Sound, PanesFit, Busy
    <3> QED
      BY <2>2, <3>1, <3>2, AlikeFits
  <2>5. RunsFit(M, P)
    <3> SUFFICES ASSUME NEW i \in DOMAIN M.jobs, M.jobs[i].current
                 PROVE  LET d == M.jobs[i].cell IN
                        /\ Present(M, d)
                        /\ Acyclic(M, d) => d \in M.redo \cup M.timers \cup M.missed \cup P
                                              \/ Fits(M, d, M.jobs[i])
      BY DEF RunsFit
    <3> DEFINE d == N.jobs[i].cell
    <3>1. i \in DOMAIN N.jobs /\ N.jobs[i].current /\ M.jobs[i] = N.jobs[i]
      BY <2>2
    <3>2. /\ Present(N, d)
          /\ Acyclic(N, d) => d \in N.redo \cup N.timers \cup N.missed \cup (P \cup {c})
                                \/ Fits(N, d, N.jobs[i])
      BY <3>1 DEF Sound, RunsFit
    <3>3. d = c => d \in M.missed
      BY <2>2, <3>1 DEF InFlight
    <3> QED
      BY <2>2, <2>3, <3>1, <3>2, <3>3, AlikeGraphs, AlikeFits
  <2>6. CyclesRest(M, L)
    <3> SUFFICES ASSUME NEW d \in CellIds, d \in Cyclic(M, CardOf[d]), CardOf[d] \notin L
                 PROVE  /\ M.out[d].status # "ok" \/ d \in M.missed
                        /\ InFlight(M, d) => d \in M.missed
                        /\ M.state[d] # "queued"
      BY DEF CyclesRest
    <3>1. d # c /\ d \in Cyclic(N, CardOf[d])
      BY <1>3, <2>3, AlikeGraphs DEF Acyclic
    <3> QED
      BY <2>2, <3>1 DEF Sound, CyclesRest, InFlight
  <2>7. AbsentRest(M)
    BY <1>3, <2>2, <2>3, AlikeGraphs DEF Sound, AbsentRest, Alike, Acyclic
  <2>8. QueueMoves(M, L, A, T \cup {k})
    <3> SUFFICES ASSUME NEW d \in CellIds, M.state[d] = "queued", ~M.orphaned, CardOf[d] \notin L \cup T \cup {k}
                 PROVE  \E e \in Of(CardOf[d]) : M.state[e] = "running" \/ e \in A
      BY DEF QueueMoves
    <3>1. d # c
      OBVIOUS
    <3>2. PICK e \in Of(CardOf[d]) : N.state[e] = "running" \/ e \in A
      BY <2>2, <3>1 DEF Sound, QueueMoves
    <3>3. e # c /\ e \in CellIds
      BY CardsOfCells
    <3> QED
      BY <2>2, <3>2, <3>3
  <2>9. RunningFly(M)
    BY <2>2 DEF Sound, RunningFly, InFlight
  <2> QED
    BY <2>1, <2>2, <2>4, <2>5, <2>6, <2>7, <2>8, <2>9 DEF Sound, Left
<1> QED
  BY <1>1, <1>2, <1>3

\* A cell that is marked is triggered, stale or timed: it is no longer to be marked.
LEMMA MarkDirtyKeeps ==
    ASSUME NEW N \in Runtime, NEW c \in CellIds, NEW P, NEW L, NEW A, NEW T, NEW rest,
           Sound(N, P \cup {c}, L, A, T)
    PROVE  LET left == MarkDirty(N, c, rest) IN
           /\ left.nb \in Runtime
           /\ \/ left.todo = rest /\ Sound(left.nb, P, L, A, T)
              \/ /\ left.todo = <<Do("tick", CardOf[c])>> \o rest
                 /\ Sound(left.nb, P, L, A, T \cup {CardOf[c]})
<1>1. CASE ~Acyclic(N, c) \/ N.spec[c].policy = "auto"
  <2>1. MarkDirty(N, c, rest) = Trigger(N, c, rest)
    BY <1>1 DEF MarkDirty, Trigger, Acyclic
  <2>2. LET left == Trigger(N, c, rest) IN
        /\ left.nb \in Runtime
        /\ \/ left.todo = rest /\ Sound(left.nb, P, L, A, T)
           \/ /\ left.todo = <<Do("tick", CardOf[c])>> \o rest
              /\ Sound(left.nb, P, L, A, T \cup {CardOf[c]})
    BY TriggerKeeps
  <2> QED
    BY <2>1, <2>2
<1>2. CASE Acyclic(N, c) /\ N.spec[c].policy # "auto"
  <2> DEFINE M == [N EXCEPT !.state[c] = IF @ = "running" THEN @ ELSE "stale",
                            !.out[c].stale = TRUE,
                            !.timers = IF N.spec[c].policy = "debounced" THEN @ \cup {c} ELSE @,
                            !.missed = IF N.spec[c].policy = "manual" /\ InFlight(N, c)
                                       THEN @ \cup {c} ELSE @]
  <2>1. MarkDirty(N, c, rest) = Left(M, rest)
    BY <1>2 DEF MarkDirty, Acyclic
  <2>2. N.spec[c].policy \in {"manual", "debounced"}
    BY <1>2, CellsAssumption DEF Runtime, Acyclic, Present
  <2>3. /\ M \in Runtime
        /\ N.timers \subseteq M.timers /\ M.redo = N.redo
        /\ Alike(M, N) /\ M.jobs = N.jobs /\ M.orphaned = N.orphaned
        /\ M.state[c] = N.state[c] \/ (M.state[c] = "stale" /\ N.state[c] # "running")
        /\ \A d \in CellIds \ {c} : M.state[d] = N.state[d] /\ M.out[d] = N.out[d]
        /\ M.out[c].status = N.out[c].status /\ M.out[c].stale
        /\ N.missed \subseteq M.missed
        /\ InFlight(N, c) => c \in M.missed \cup M.timers
    <3>1. N.out[c] \in Pane /\ N.state \in [CellIds -> {"idle", "queued", "running", "stale"}]
          /\ N.out \in [CellIds -> Pane]
      BY DEF Runtime
    <3> DEFINE pane == [N.out[c] EXCEPT !.stale = TRUE]
               at == IF N.state[c] = "running" THEN "running" ELSE "stale"
    <3>2. pane \in Pane /\ pane.status = N.out[c].status /\ pane.stale
      BY <3>1 DEF Pane
    <3>3. /\ Alike(M, N) /\ M.jobs = N.jobs /\ M.orphaned = N.orphaned /\ M.allowed = N.allowed
          /\ M.timers = IF N.spec[c].policy = "debounced" THEN N.timers \cup {c} ELSE N.timers
          /\ M.redo = N.redo
          /\ M.missed = IF N.spec[c].policy = "manual" /\ InFlight(N, c) THEN N.missed \cup {c} ELSE N.missed
          /\ M.state = [N.state EXCEPT ![c] = at]
          /\ M.out = [N.out EXCEPT ![c] = pane]
      BY DEF Runtime, Alike
    <3>4. M \in Runtime
      BY <3>1, <3>2, <3>3 DEF Runtime, Alike
    <3> HIDE DEF M, pane
    <3> QED
      BY <2>2, <3>1, <3>2, <3>3, <3>4
  <2> HIDE DEF M
  <2>4. M.spec = N.spec
    BY <2>3 DEF Alike
  <2>5. PanesFit(M, P, A)
    <3> SUFFICES ASSUME NEW d \in CellIds,
                        Acyclic(M, d), M.out[d].status = "ok", ~Busy(M, d), ~M.out[d].stale,
                        d \notin M.timers \cup M.missed \cup P, ~(d \in M.redo /\ d \in A)
                 PROVE  Fits(M, d, M.out[d].made)
      BY DEF PanesFit
    <3>1. d # c
      BY <2>3
    <3>2. Fits(N, d, N.out[d].made)
      BY <2>3, <2>4, <3>1, AlikeGraphs DEF Sound, PanesFit, Busy
    <3> QED
      BY <2>3, <3>1, <3>2, AlikeFits
  <2>6. RunsFit(M, P)
    <3> SUFFICES ASSUME NEW i \in DOMAIN M.jobs, M.jobs[i].current
                 PROVE  LET d == M.jobs[i].cell IN
                        /\ Present(M, d)
                        /\ Acyclic(M, d) => d \in M.redo \cup M.timers \cup M.missed \cup P
                                              \/ Fits(M, d, M.jobs[i])
      BY DEF RunsFit
    <3> DEFINE d == N.jobs[i].cell
    <3>1. i \in DOMAIN N.jobs /\ N.jobs[i].current /\ M.jobs[i] = N.jobs[i]
      BY <2>3
    <3>2. /\ Present(N, d)
          /\ Acyclic(N, d) => d \in N.redo \cup N.timers \cup N.missed \cup (P \cup {c})
                                \/ Fits(N, d, N.jobs[i])
      BY <3>1 DEF Sound, RunsFit
    <3>3. d = c => d \in M.missed \cup M.timers
      BY <2>3, <3>1 DEF InFlight
    <3> QED
      BY <2>3, <2>4, <3>1, <3>2, <3>3, AlikeGraphs, AlikeFits
  <2>7. CyclesRest(M, L)
    <3> SUFFICES ASSUME NEW d \in CellIds, d \in Cyclic(M, CardOf[d]), CardOf[d] \notin L
                 PROVE  /\ M.out[d].status # "ok" \/ d \in M.missed
                        /\ InFlight(M, d) => d \in M.missed
                        /\ M.state[d] # "queued"
      BY DEF CyclesRest
    <3>1. d # c /\ d \in Cyclic(N, CardOf[d])
      BY <1>2, <2>4, AlikeGraphs DEF Acyclic
    <3> QED
      BY <2>3, <3>1 DEF Sound, CyclesRest, InFlight
  <2>8. AbsentRest(M)
    BY <1>2, <2>3, <2>4, AlikeGraphs DEF Sound, AbsentRest, Alike, Acyclic
  <2>9. QueueMoves(M, L, A, T)
    <3> SUFFICES ASSUME NEW d \in CellIds, M.state[d] = "queued", ~M.orphaned, CardOf[d] \notin L \cup T
                 PROVE  \E e \in Of(CardOf[d]) : M.state[e] = "running" \/ e \in A
      BY DEF QueueMoves
    <3>1. N.state[d] = "queued"
      BY <2>3
    <3>2. PICK e \in Of(CardOf[d]) : N.state[e] = "running" \/ e \in A
      BY <2>3, <3>1 DEF Sound, QueueMoves
    <3>3. e \in CellIds
      BY CardsOfCells
    <3> QED
      BY <2>3, <3>2, <3>3
  <2>10. RunningFly(M)
    BY <2>3 DEF Sound, RunningFly, InFlight
  <2> QED
    BY <2>1, <2>3, <2>5, <2>6, <2>7, <2>8, <2>9, <2>10 DEF Sound, Left
<1> QED
  BY <1>1, <1>2

\* An export that changed leaves its readers to be marked.
LEMMA PublishKeeps ==
    ASSUME NEW N \in Runtime, NEW c \in CellIds, NEW v \in Values \cup {Undef},
           NEW P, NEW L, NEW A, NEW T, NEW rest,
           Sound(N, P, L, A, T), Present(N, c)
    PROVE  LET left == Publish(N, c, v, rest) IN
           /\ left.nb \in Runtime
           /\ \/ left.todo = rest /\ Sound(left.nb, P, L, A, T)
              \/ /\ left.todo = <<Do("mark", Importers(N, c))>> \o rest
                 /\ Sound(left.nb, P \cup Importers(N, c), L, A, T)
<1>1. CASE N.exports[c] = v
  BY <1>1 DEF Publish, Left
<1>2. CASE N.exports[c] # v
  <2> DEFINE M == [N EXCEPT !.exports[c] = v]
             Q == P \cup Importers(N, c)
  <2>1. Publish(N, c, v, rest) = Left(M, <<Do("mark", Importers(N, c))>> \o rest)
    BY <1>2 DEF Publish
  <2>2. /\ M \in Runtime
        /\ M.spec = N.spec /\ M.open = N.open /\ M.content = N.content
        /\ M.exports = [N.exports EXCEPT ![c] = v] /\ N.exports \in [CellIds -> Values \cup {Undef}]
        /\ M.state = N.state /\ M.out = N.out /\ M.timers = N.timers /\ M.redo = N.redo
        /\ M.jobs = N.jobs /\ M.missed = N.missed /\ M.orphaned = N.orphaned
    BY DEF Runtime
  <2>3. /\ \A i \in DOMAIN N.jobs : N.jobs[i].cell \in CellIds
        /\ \A d \in CellIds : Present(N, d) => N.spec[d].reads \subseteq CellIds \cup Files
    <3>1. N.jobs \in Seq(Job) /\ \A i \in DOMAIN N.jobs : N.jobs[i] \in Job
      BY DEF Runtime
    <3> QED
      BY <3>1, CellsAssumption DEF Job, Runtime, Present
  <2> HIDE DEF M
  <2>4. ASSUME NEW d \in CellIds \ Importers(N, c), NEW past, Present(N, d), Fits(N, d, past)
        PROVE  Fits(M, d, past)
    <3>1. d # c => c \notin N.spec[d].reads
      BY <2>4 DEF Importers
    <3>2. ASSUME NEW x \in N.spec[d].reads \ {d} PROVE Input(M, x) = Input(N, x)
      <4>1. x # c /\ (x \in CellIds \/ x \in Files)
        BY <2>3, <2>4, <3>1
      <4> QED
        BY <2>2, <4>1 DEF Input, Present
    <3> QED
      BY <2>2, <2>4, <3>2, StillFits
  <2>5. PanesFit(M, Q, A)
    <3> SUFFICES ASSUME NEW d \in CellIds,
                        Acyclic(M, d), M.out[d].status = "ok", ~Busy(M, d), ~M.out[d].stale,
                        d \notin M.timers \cup M.missed \cup Q, ~(d \in M.redo /\ d \in A)
                 PROVE  Fits(M, d, M.out[d].made)
      BY DEF PanesFit
    <3>1. Acyclic(N, d) /\ Present(N, d)
      BY <2>2, AlikeGraphs DEF Acyclic
    <3>2. Fits(N, d, N.out[d].made)
      BY <2>2, <3>1 DEF Sound, PanesFit, Busy
    <3> QED
      BY <2>2, <2>4, <3>1, <3>2
  <2>6. RunsFit(M, Q)
    <3> SUFFICES ASSUME NEW i \in DOMAIN M.jobs, M.jobs[i].current
                 PROVE  LET d == M.jobs[i].cell IN
                        /\ Present(M, d)
                        /\ Acyclic(M, d) => d \in M.redo \cup M.timers \cup M.missed \cup Q
                                              \/ Fits(M, d, M.jobs[i])
      BY DEF RunsFit
    <3> DEFINE d == N.jobs[i].cell
    <3>1. i \in DOMAIN N.jobs /\ N.jobs[i].current /\ M.jobs[i] = N.jobs[i] /\ d \in CellIds
      BY <2>2, <2>3
    <3>2. /\ Present(N, d)
          /\ Acyclic(N, d) => d \in N.redo \cup N.timers \cup N.missed \cup P
                                \/ Fits(N, d, N.jobs[i])
      BY <3>1 DEF Sound, RunsFit
    <3> QED
      BY <2>2, <2>4, <3>1, <3>2, AlikeGraphs
  <2>7. CyclesRest(M, L) /\ RunningFly(M) /\ QueueMoves(M, L, A, T)
    BY <2>2, AlikeGraphs DEF Sound, CyclesRest, RunningFly, QueueMoves, InFlight
  <2>8. AbsentRest(M)
    BY <2>2, AlikeGraphs DEF Sound, AbsentRest
  <2> QED
    BY <2>1, <2>2, <2>5, <2>6, <2>7, <2>8 DEF Sound, Left
<1> QED
  BY <1>1, <1>2

\* Jobs that are superseded stay where they are and what they are, but no longer count.
LEMMA SupersededIs ==
    ASSUME NEW jobs \in Seq(Job), NEW X
    PROVE  /\ Superseded(jobs, X) \in Seq(Job)
           /\ Len(Superseded(jobs, X)) = Len(jobs)
           /\ \A i \in 1..Len(jobs) :
                 LET j == Superseded(jobs, X)[i] IN
                 /\ j.cell = jobs[i].cell /\ j.src = jobs[i].src /\ j.ins = jobs[i].ins
                 /\ j.current <=> (jobs[i].current /\ jobs[i].cell \notin X)
                 /\ jobs[i].cell \notin X => j = jobs[i]
<1> DEFINE out == Superseded(jobs, X)
<1>1. DOMAIN jobs = 1..Len(jobs) /\ Len(jobs) \in Nat /\ \A i \in 1..Len(jobs) : jobs[i] \in Job
  OBVIOUS
<1>2. ASSUME NEW i \in 1..Len(jobs)
      PROVE  /\ [jobs[i] EXCEPT !.current = FALSE] \in Job
             /\ [jobs[i] EXCEPT !.current = FALSE].cell = jobs[i].cell
             /\ [jobs[i] EXCEPT !.current = FALSE].src = jobs[i].src
             /\ [jobs[i] EXCEPT !.current = FALSE].ins = jobs[i].ins
             /\ [jobs[i] EXCEPT !.current = FALSE].current = FALSE
             /\ jobs[i].current \in BOOLEAN
  BY <1>1 DEF Job
<1>3. out = [i \in 1..Len(jobs) |-> IF jobs[i].cell \in X THEN [jobs[i] EXCEPT !.current = FALSE] ELSE jobs[i]]
  BY <1>1 DEF Superseded
<1>4. ASSUME NEW i \in 1..Len(jobs) PROVE out[i] \in Job
  BY <1>1, <1>2, <1>3
<1>5. out \in Seq(Job) /\ Len(out) = Len(jobs)
  BY <1>1, <1>3, <1>4
<1> QED
  BY <1>1, <1>2, <1>3, <1>5

\* What a cell reads from well-typed exports and files is well typed.
LEMMA InputsAreTyped ==
    ASSUME NEW N \in Runtime, NEW c \in CellIds, Present(N, c)
    PROVE  InputsOf(N, c) \in Readings /\ DOMAIN InputsOf(N, c) = N.spec[c].reads
<1>1. N.spec[c] \in Specs /\ N.spec[c].reads \subseteq CellIds \cup Files
  BY CellsAssumption DEF Runtime, Present
<1>2. ASSUME NEW x \in N.spec[c].reads PROVE Input(N, x) \in Values \cup Contents \cup {Undef}
  <2>1. N.exports \in [CellIds -> Values \cup {Undef}] /\ N.content \in [Files -> Contents]
    BY DEF Runtime
  <2> QED
    BY <1>1, <2>1 DEF Input
<1>3. InputsOf(N, c) \in [N.spec[c].reads -> Values \cup Contents \cup {Undef}]
  BY <1>2 DEF InputsOf
<1> QED
  BY <1>1, <1>3 DEF Readings

\* A ready cell starts on the inputs of this moment, or is parked and leaves itself to be finished.
LEMMA StartRunKeeps ==
    ASSUME NEW N \in Runtime, NEW k \in Books, NEW c \in Ready(N, k),
           NEW P, NEW L, NEW A, NEW T, NEW rest, k \in T, Sound(N, P, L, A, T)
    PROVE  LET left == StartRun(N, c, rest)
               on == <<Do("after", c)>> \o rest
           IN
           /\ left.nb \in Runtime
           /\ \/ left.todo = rest /\ Sound(left.nb, P, L, A, T)
              \/ left.todo = on /\ Sound(left.nb, P, L, A \cup {c}, T)
              \/ /\ left.todo = <<Do("mark", Importers(N, c))>> \o on
                 /\ Sound(left.nb, P \cup Importers(N, c), L, A \cup {c}, T)
<1>1. /\ c \in CellIds /\ c \in Of(k) /\ CardOf[c] = k /\ Present(N, c) /\ N.state[c] = "queued"
      /\ c \notin Cyclic(N, k) \/ k \in L
  <2>1. c \in Of(k) /\ Present(N, c) /\ N.state[c] = "queued"
    BY DEF Ready
  <2> QED
    BY <2>1, CardsOfCells DEF Sound, CyclesRest
<1>2. CASE Parked(N, c)
  <2> DEFINE M == [N EXCEPT !.state[c] = "idle", !.out[c] = NoPane]
             on == <<Do("after", c)>> \o rest
  <2>1. StartRun(N, c, rest) = Publish(M, c, Undef, on)
    BY <1>2 DEF StartRun
  <2>2. /\ M \in Runtime /\ Alike(M, N) /\ M.spec = N.spec
        /\ M.state = [N.state EXCEPT ![c] = "idle"] /\ M.out = [N.out EXCEPT ![c] = NoPane]
        /\ M.timers = N.timers /\ M.redo = N.redo
        /\ M.jobs = N.jobs /\ M.missed = N.missed /\ M.orphaned = N.orphaned
        /\ N.state \in [CellIds -> {"idle", "queued", "running", "stale"}] /\ N.out \in [CellIds -> Pane]
    <3>1. NoPane \in Pane
      BY DEF NoPane, Pane
    <3> QED
      BY <1>1, <3>1 DEF Runtime, Alike
  <2>3. NoPane.status # "ok"
    BY DEF NoPane
  <2> HIDE DEF M
  <2>4. PanesFit(M, P, A \cup {c})
    <3> SUFFICES ASSUME NEW d \in CellIds,
                        Acyclic(M, d), M.out[d].status = "ok", ~Busy(M, d), ~M.out[d].stale,
                        d \notin M.timers \cup M.missed \cup P, ~(d \in M.redo /\ d \in A \cup {c})
                 PROVE  Fits(M, d, M.out[d].made)
      BY DEF PanesFit
    <3>1. d # c
      BY <1>1, <2>2, <2>3
    <3>2. M.out[d] = N.out[d] /\ M.state[d] = N.state[d]
      BY <2>2, <3>1
    <3>3. Fits(N, d, N.out[d].made)
      BY <2>2, <3>2, AlikeGraphs DEF Sound, PanesFit, Busy
    <3> QED
      BY <2>2, <3>2, <3>3, AlikeFits
  <2>5. RunsFit(M, P)
    BY <2>2, AlikeGraphs, AlikeFits DEF Sound, RunsFit
  <2>6. CyclesRest(M, L)
    <3> SUFFICES ASSUME NEW d \in CellIds, d \in Cyclic(M, CardOf[d]), CardOf[d] \notin L
                 PROVE  /\ M.out[d].status # "ok" \/ d \in M.missed
                        /\ InFlight(M, d) => d \in M.missed
                        /\ M.state[d] # "queued"
      BY DEF CyclesRest
    <3>1. d # c /\ d \in Cyclic(N, CardOf[d])
      BY <1>1, <2>2, AlikeGraphs
    <3> QED
      BY <2>2, <3>1 DEF Sound, CyclesRest, InFlight
  <2>7. AbsentRest(M)
    BY <1>1, <2>2, AlikeGraphs DEF Sound, AbsentRest, Alike
  <2>8. QueueMoves(M, L, A \cup {c}, T)
    <3> SUFFICES ASSUME NEW d \in CellIds, M.state[d] = "queued", ~M.orphaned, CardOf[d] \notin L \cup T
                 PROVE  \E e \in Of(CardOf[d]) : M.state[e] = "running" \/ e \in A \cup {c}
      BY DEF QueueMoves
    <3>1. d # c /\ N.state[d] = "queued"
      BY <1>1, <2>2
    <3>2. PICK e \in Of(CardOf[d]) : N.state[e] = "running" \/ e \in A
      BY <2>2, <3>1 DEF Sound, QueueMoves
    <3>3. e \in CellIds
      BY CardsOfCells
    <3> QED
      BY <2>2, <3>2, <3>3
  <2>9. RunningFly(M)
    BY <1>1, <2>2 DEF Sound, RunningFly, InFlight
  <2>10. Sound(M, P, L, A \cup {c}, T) /\ Present(M, c) /\ Importers(M, c) = Importers(N, c)
    BY <1>1, <2>2, <2>4, <2>5, <2>6, <2>7, <2>8, <2>9, AlikeGraphs DEF Sound
  <2>11. LET left == Publish(M, c, Undef, on) IN
         /\ left.nb \in Runtime
         /\ \/ left.todo = on /\ Sound(left.nb, P, L, A \cup {c}, T)
            \/ /\ left.todo = <<Do("mark", Importers(M, c))>> \o on
               /\ Sound(left.nb, P \cup Importers(M, c), L, A \cup {c}, T)
    BY <1>1, <2>2, <2>10, PublishKeeps
  <2> QED
    BY <2>1, <2>10, <2>11
<1>3. CASE ~Parked(N, c)
  <2> DEFINE job == [cell |-> c, src |-> N.spec[c].src, ins |-> InputsOf(N, c),
                     main |-> N.spec[c].dom, current |-> TRUE]
             old == Superseded(N.jobs, {c})
             M == [N EXCEPT !.state[c] = "running", !.out[c] = [@ EXCEPT !.running = TRUE, !.stale = FALSE],
                            !.missed = @ \ {c}, !.jobs = Append(old, job)]
  <2>1. StartRun(N, c, rest) = Left(M, rest)
    BY <1>3 DEF StartRun
  <2>2. job \in Job /\ job.cell = c /\ job.current /\ job.src = N.spec[c].src /\ job.ins = InputsOf(N, c)
    <3>1. N.spec[c] \in Specs
      BY <1>1 DEF Runtime, Present
    <3>2. N.spec[c].src \in Programs /\ N.spec[c].dom \in BOOLEAN
      BY <1>3, <3>1, CellsAssumption DEF Programs, Parked
    <3> QED
      BY <1>1, <3>2, InputsAreTyped DEF Job
  <2>3. /\ old \in Seq(Job) /\ Len(old) = Len(N.jobs) /\ Len(N.jobs) \in Nat
        /\ DOMAIN N.jobs = 1..Len(N.jobs)
        /\ \A i \in 1..Len(N.jobs) :
               /\ old[i].cell = N.jobs[i].cell
               /\ old[i].current <=> (N.jobs[i].current /\ N.jobs[i].cell # c)
               /\ N.jobs[i].cell # c => old[i] = N.jobs[i]
    <3>1. N.jobs \in Seq(Job)
      BY DEF Runtime
    <3> QED
      BY <3>1, SupersededIs
  <2> HIDE DEF job, old
  <2>4. /\ M \in Runtime /\ Alike(M, N) /\ M.spec = N.spec
        /\ M.state[c] = "running" /\ M.out[c].status = N.out[c].status
        /\ \A d \in CellIds \ {c} : M.state[d] = N.state[d] /\ M.out[d] = N.out[d]
        /\ M.timers = N.timers /\ M.redo = N.redo /\ M.missed = N.missed \ {c}
        /\ M.jobs = Append(old, job) /\ M.orphaned = N.orphaned
    <3>1. N.out[c] \in Pane /\ N.state \in [CellIds -> {"idle", "queued", "running", "stale"}]
          /\ N.out \in [CellIds -> Pane]
      BY <1>1 DEF Runtime
    <3> DEFINE pane == [N.out[c] EXCEPT !.running = TRUE, !.stale = FALSE]
    <3>2. pane \in Pane /\ pane.status = N.out[c].status
      BY <3>1 DEF Pane
    <3>3. /\ Alike(M, N) /\ M.spec = N.spec /\ M.orphaned = N.orphaned /\ M.allowed = N.allowed
          /\ M.timers = N.timers /\ M.redo = N.redo /\ M.missed = N.missed \ {c}
          /\ M.state = [N.state EXCEPT ![c] = "running"]
          /\ M.out = [N.out EXCEPT ![c] = pane]
          /\ M.jobs = Append(old, job)
      BY DEF Runtime, Alike
    <3>4. Append(old, job) \in Seq(Job)
      BY <2>2, <2>3
    <3>5. M \in Runtime
      BY <1>1, <3>1, <3>2, <3>3, <3>4 DEF Runtime, Alike
    <3> HIDE DEF M, pane
    <3> QED
      BY <1>1, <3>1, <3>2, <3>3, <3>5
  <2>5. /\ DOMAIN M.jobs = 1..(Len(N.jobs) + 1)
        /\ M.jobs[Len(N.jobs) + 1] = job
        /\ \A i \in 1..Len(N.jobs) : M.jobs[i] = old[i]
    BY <2>2, <2>3, <2>4
  <2> HIDE DEF M
  <2>6. \A d \in CellIds \ {c} : InFlight(M, d) <=> InFlight(N, d)
    <3> SUFFICES ASSUME NEW d \in CellIds \ {c} PROVE InFlight(M, d) <=> InFlight(N, d)
      OBVIOUS
    <3>1. ASSUME InFlight(M, d) PROVE InFlight(N, d)
      <4>1. PICK i \in 1..(Len(N.jobs) + 1) : M.jobs[i].cell = d /\ M.jobs[i].current
        BY <2>5, <3>1 DEF InFlight
      <4>2. i \in 1..Len(N.jobs)
        BY <2>2, <2>3, <2>5, <4>1
      <4> QED
        BY <2>3, <2>5, <4>1, <4>2 DEF InFlight
    <3>2. ASSUME InFlight(N, d) PROVE InFlight(M, d)
      <4>1. PICK i \in 1..Len(N.jobs) : N.jobs[i].cell = d /\ N.jobs[i].current
        BY <2>3, <3>2 DEF InFlight
      <4>2. i \in DOMAIN M.jobs /\ M.jobs[i].cell = d /\ M.jobs[i].current
        BY <2>3, <2>5, <4>1
      <4> QED
        BY <4>2 DEF InFlight
    <3> QED
      BY <3>1, <3>2
  <2>7. InFlight(M, c)
    <3>1. Len(N.jobs) + 1 \in DOMAIN M.jobs
      BY <2>3, <2>5
    <3> QED
      BY <2>2, <2>5, <3>1 DEF InFlight
  <2>8. Fits(N, c, job)
    BY <1>1, <2>2, InputsAreTyped DEF Fits, InputsOf
  <2>9. PanesFit(M, P, A)
    <3> SUFFICES ASSUME NEW d \in CellIds,
                        Acyclic(M, d), M.out[d].status = "ok", ~Busy(M, d), ~M.out[d].stale,
                        d \notin M.timers \cup M.missed \cup P, ~(d \in M.redo /\ d \in A)
                 PROVE  Fits(M, d, M.out[d].made)
      BY DEF PanesFit
    <3>1. d # c
      BY <2>4 DEF Busy
    <3>2. Fits(N, d, N.out[d].made)
      BY <2>4, <3>1, AlikeGraphs DEF Sound, PanesFit, Busy
    <3> QED
      BY <2>4, <3>1, <3>2, AlikeFits
  <2>10. RunsFit(M, P)
    <3> SUFFICES ASSUME NEW i \in DOMAIN M.jobs, M.jobs[i].current
                 PROVE  LET d == M.jobs[i].cell IN
                        /\ Present(M, d)
                        /\ Acyclic(M, d) => d \in M.redo \cup M.timers \cup M.missed \cup P
                                              \/ Fits(M, d, M.jobs[i])
      BY DEF RunsFit
    <3>1. CASE i = Len(N.jobs) + 1
      BY <1>1, <2>2, <2>4, <2>5, <2>8, <3>1, AlikeGraphs, AlikeFits
    <3>2. CASE i # Len(N.jobs) + 1
      <4>1. i \in 1..Len(N.jobs) /\ i \in DOMAIN N.jobs
        BY <2>3, <2>5, <3>2
      <4>2. N.jobs[i].current /\ N.jobs[i].cell # c /\ M.jobs[i] = N.jobs[i]
        BY <2>3, <2>5, <4>1
      <4> QED
        BY <2>4, <4>1, <4>2, AlikeGraphs, AlikeFits DEF Sound, RunsFit
    <3> QED
      BY <3>1, <3>2
  <2>11. CyclesRest(M, L)
    <3> SUFFICES ASSUME NEW d \in CellIds, d \in Cyclic(M, CardOf[d]), CardOf[d] \notin L
                 PROVE  /\ M.out[d].status # "ok" \/ d \in M.missed
                        /\ InFlight(M, d) => d \in M.missed
                        /\ M.state[d] # "queued"
      BY DEF CyclesRest
    <3>1. d # c /\ d \in Cyclic(N, CardOf[d])
      BY <1>1, <2>4, AlikeGraphs
    <3> QED
      BY <2>4, <2>6, <3>1 DEF Sound, CyclesRest
  <2>12. AbsentRest(M)
    BY <1>1, <2>4, AlikeGraphs DEF Sound, AbsentRest, Alike
  <2>13. QueueMoves(M, L, A, T)
    <3> SUFFICES ASSUME NEW d \in CellIds, M.state[d] = "queued", ~M.orphaned, CardOf[d] \notin L \cup T
                 PROVE  \E e \in Of(CardOf[d]) : M.state[e] = "running" \/ e \in A
      BY DEF QueueMoves
    <3>1. d # c
      BY <2>4
    <3>2. PICK e \in Of(CardOf[d]) : N.state[e] = "running" \/ e \in A
      BY <2>4, <3>1 DEF Sound, QueueMoves
    <3>3. e \in CellIds
      BY CardsOfCells
    <3> QED
      BY <2>4, <3>2, <3>3
  <2>14. RunningFly(M)
    BY <2>4, <2>6, <2>7 DEF Sound, RunningFly
  <2> QED
    BY <2>1, <2>4, <2>9, <2>10, <2>11, <2>12, <2>13, <2>14 DEF Sound, Left
<1> QED
  BY <1>2, <1>3

\* A set of queued cells that wait for each other only is one the peeling leaves: where no cell of a
\* card is ready and none runs, none is queued either.
LEMMA NoneReadyNoneQueued ==
    ASSUME NEW N, NEW P, NEW L, NEW A, NEW T, NEW k \in Books, Sound(N, P, L, A, T), k \notin L,
           Ready(N, k) = {}, \A d \in Of(k) : N.state[d] # "running"
    PROVE  \A c \in Of(k) : N.state[c] # "queued"
<1> DEFINE X == {c \in Of(k) : N.state[c] = "queued"}
<1> SUFFICES ASSUME NEW q \in X PROVE FALSE
  OBVIOUS
<1>1. \A c \in X : c \in CellIds /\ CardOf[c] = k /\ Present(N, c) /\ c \notin Cyclic(N, k)
  BY CardsOfCells DEF Sound, AbsentRest, CyclesRest
<1>2. ASSUME NEW c \in X PROVE Deps(N, c) \cap X # {}
  <2>1. PICK d \in Deps(N, c) : Busy(N, d)
    BY <1>1 DEF Ready
  <2>2. d \in Of(k)
    BY <1>1, <2>1 DEF Deps
  <2>3. d \in X
    BY <2>1, <2>2 DEF Busy
  <2> QED
    BY <2>1, <2>3
<1>3. X \subseteq Cyclic(N, k)
  BY <1>1, <1>2 DEF Cyclic
<1> QED
  BY <1>1, <1>3

\* A tick ends, or starts one ready cell and ticks again.
LEMMA TickKeeps ==
    ASSUME NEW N \in Runtime, NEW k \in Books, NEW P, NEW L, NEW A, NEW T, NEW rest,
           Sound(N, P, L, A, T \cup {k})
    PROVE  LET left == Tick(N, k, rest)
               again == <<Do("tick", k)>> \o rest
           IN
           /\ left.nb \in Runtime
           /\ \/ left.todo = rest /\ Sound(left.nb, P, L, A, T)
              \/ left.todo = again /\ Sound(left.nb, P, L, A, T \cup {k})
              \/ \E c \in CellIds :
                    LET on == <<Do("after", c)>> \o again IN
                    \/ left.todo = on /\ Sound(left.nb, P, L, A \cup {c}, T \cup {k})
                    \/ /\ left.todo = <<Do("mark", Importers(N, c))>> \o on
                       /\ Sound(left.nb, P \cup Importers(N, c), L, A \cup {c}, T \cup {k})
<1> DEFINE again == <<Do("tick", k)>> \o rest
<1>1. CASE k \notin N.open \/ Ready(N, k) = {}
  <2>1. Tick(N, k, rest) = Left(N, rest)
    BY <1>1 DEF Tick
  <2>2. QueueMoves(N, L, A, T)
    <3> SUFFICES ASSUME NEW c \in CellIds, N.state[c] = "queued", ~N.orphaned, CardOf[c] \notin L \cup T,
                        \A d \in Of(CardOf[c]) : N.state[d] # "running" /\ d \notin A
                 PROVE  FALSE
      BY DEF QueueMoves
    <3>1. CardOf[c] = k
      BY DEF Sound, QueueMoves
    <3>2. k \in N.open
      BY <3>1 DEF Sound, AbsentRest
    <3>3. Ready(N, k) = {} /\ c \in Of(k)
      BY <1>1, <3>1, <3>2, CardsOfCells
    <3> QED
      BY <3>1, <3>3, NoneReadyNoneQueued
  <2> QED
    BY <2>1, <2>2 DEF Sound, Left
<1>2. CASE k \in N.open /\ Ready(N, k) # {}
  <2> DEFINE c == CHOOSE c \in Ready(N, k) : TRUE
  <2>1. c \in Ready(N, k) /\ Tick(N, k, rest) = StartRun(N, c, again)
    BY <1>2 DEF Tick
  <2> HIDE DEF c, again
  <2>2. LET left == StartRun(N, c, again)
            on == <<Do("after", c)>> \o again
        IN
        /\ left.nb \in Runtime
        /\ \/ left.todo = again /\ Sound(left.nb, P, L, A, T \cup {k})
           \/ left.todo = on /\ Sound(left.nb, P, L, A \cup {c}, T \cup {k})
           \/ /\ left.todo = <<Do("mark", Importers(N, c))>> \o on
              /\ Sound(left.nb, P \cup Importers(N, c), L, A \cup {c}, T \cup {k})
    BY <2>1, StartRunKeeps
  <2>3. c \in CellIds
    BY <2>1, CardsOfCells DEF Ready
  <2> QED
    BY <2>1, <2>2, <2>3 DEF again
<1> QED
  BY <1>1, <1>2

\* The end of a return runs the cell again if it was dirtied in flight, and ticks its card.
LEMMA AfterRunKeeps ==
    ASSUME NEW N \in Runtime, NEW c \in CellIds, NEW P, NEW L, NEW A, NEW T, NEW rest,
           Sound(N, P, L, A \cup {c}, T)
    PROVE  LET left == AfterRun(N, c, rest)
               k == CardOf[c]
               on == <<Do("tick", k)>> \o rest
           IN
           /\ left.nb \in Runtime
           /\ left.todo = on \/ left.todo = <<Do("tick", k)>> \o on
           /\ Sound(left.nb, P, L, A, T \cup {k})
<1> DEFINE k == CardOf[c]
           on == <<Do("tick", k)>> \o rest
<1>0. QueueMoves(N, L, A, T \cup {k})
  <2> SUFFICES ASSUME NEW d \in CellIds, N.state[d] = "queued", ~N.orphaned, CardOf[d] \notin L \cup T \cup {k}
               PROVE  \E e \in Of(CardOf[d]) : N.state[e] = "running" \/ e \in A
    BY DEF QueueMoves
  <2>1. PICK e \in Of(CardOf[d]) : N.state[e] = "running" \/ e \in A \cup {c}
    BY DEF Sound, QueueMoves
  <2>2. e # c
    BY <2>1, CardsOfCells
  <2> QED
    BY <2>1, <2>2
<1>1. CASE c \notin N.redo
  <2>1. AfterRun(N, c, rest) = Left(N, on)
    BY <1>1 DEF AfterRun
  <2>2. PanesFit(N, P, A)
    BY <1>1 DEF Sound, PanesFit
  <2>3. Sound(N, P, L, A, T \cup {k})
    BY <1>0, <2>2 DEF Sound
  <2> QED
    BY <2>1, <2>3 DEF Left
<1>2. CASE c \in N.redo
  <2> DEFINE M == [N EXCEPT !.redo = @ \ {c}, !.state[c] = "idle"]
  <2>1. AfterRun(N, c, rest) = Trigger(M, c, on)
    BY <1>2 DEF AfterRun
  <2>2. /\ M \in Runtime /\ Alike(M, N) /\ M.spec = N.spec
        /\ M.state = [N.state EXCEPT ![c] = "idle"] /\ M.out = N.out
        /\ M.timers = N.timers /\ M.redo = N.redo \ {c}
        /\ M.jobs = N.jobs /\ M.missed = N.missed /\ M.orphaned = N.orphaned
        /\ N.state \in [CellIds -> {"idle", "queued", "running", "stale"}]
    BY DEF Runtime, Alike
  <2>3. \A i \in DOMAIN N.jobs : N.jobs[i].cell \in CellIds
    <3>1. N.jobs \in Seq(Job) /\ \A i \in DOMAIN N.jobs : N.jobs[i] \in Job
      BY DEF Runtime
    <3> QED
      BY <3>1 DEF Job
  <2> HIDE DEF M, on
  <2>4. PanesFit(M, P \cup {c}, A)
    <3> SUFFICES ASSUME NEW d \in CellIds,
                        Acyclic(M, d), M.out[d].status = "ok", ~Busy(M, d), ~M.out[d].stale,
                        d \notin M.timers \cup M.missed \cup (P \cup {c}), ~(d \in M.redo /\ d \in A)
                 PROVE  Fits(M, d, M.out[d].made)
      BY DEF PanesFit
    <3>1. d # c /\ M.out[d] = N.out[d] /\ M.state[d] = N.state[d]
      BY <2>2
    <3>2. Fits(N, d, N.out[d].made)
      BY <2>2, <3>1, AlikeGraphs DEF Sound, PanesFit, Busy
    <3> QED
      BY <2>2, <3>1, <3>2, AlikeFits
  <2>5. RunsFit(M, P \cup {c})
    <3> SUFFICES ASSUME NEW i \in DOMAIN M.jobs, M.jobs[i].current
                 PROVE  LET d == M.jobs[i].cell IN
                        /\ Present(M, d)
                        /\ Acyclic(M, d) => d \in M.redo \cup M.timers \cup M.missed \cup (P \cup {c})
                                              \/ Fits(M, d, M.jobs[i])
      BY DEF RunsFit
    <3>1. i \in DOMAIN N.jobs /\ N.jobs[i].current /\ M.jobs[i] = N.jobs[i]
      BY <2>2
    <3> QED
      BY <2>2, <3>1, AlikeGraphs, AlikeFits DEF Sound, RunsFit
  <2>6. CyclesRest(M, L)
    <3> SUFFICES ASSUME NEW d \in CellIds, d \in Cyclic(M, CardOf[d]), CardOf[d] \notin L
                 PROVE  /\ M.out[d].status # "ok" \/ d \in M.missed
                        /\ InFlight(M, d) => d \in M.missed
                        /\ M.state[d] # "queued"
      BY DEF CyclesRest
    <3>1. d \in Cyclic(N, CardOf[d]) /\ (M.state[d] = "queued" => N.state[d] = "queued")
      BY <2>2, AlikeGraphs
    <3> QED
      BY <2>2, <3>1 DEF Sound, CyclesRest, InFlight
  <2>7. AbsentRest(M)
    BY <2>2, AlikeGraphs DEF Sound, AbsentRest, Alike
  <2>8. QueueMoves(M, L, A, T \cup {k})
    <3> SUFFICES ASSUME NEW d \in CellIds, M.state[d] = "queued", ~M.orphaned, CardOf[d] \notin L \cup T \cup {k}
                 PROVE  \E e \in Of(CardOf[d]) : M.state[e] = "running" \/ e \in A
      BY DEF QueueMoves
    <3>1. N.state[d] = "queued"
      BY <2>2
    <3>2. PICK e \in Of(CardOf[d]) : N.state[e] = "running" \/ e \in A
      BY <1>0, <2>2, <3>1 DEF QueueMoves
    <3>3. e \in CellIds /\ e # c
      BY <3>2, CardsOfCells
    <3> QED
      BY <2>2, <3>2, <3>3
  <2>9. RunningFly(M)
    BY <2>2 DEF Sound, RunningFly, InFlight
  <2>10. Sound(M, P \cup {c}, L, A, T \cup {k})
    BY <2>4, <2>5, <2>6, <2>7, <2>8, <2>9 DEF Sound
  <2>11. LET left == Trigger(M, c, on) IN
         /\ left.nb \in Runtime
         /\ \/ left.todo = on /\ Sound(left.nb, P, L, A, T \cup {k})
            \/ /\ left.todo = <<Do("tick", k)>> \o on
               /\ Sound(left.nb, P, L, A, (T \cup {k}) \cup {k})
    BY <2>2, <2>10, TriggerKeeps
  <2>12. (T \cup {k}) \cup {k} = T \cup {k}
    OBVIOUS
  <2> QED
    BY <2>1, <2>11, <2>12 DEF on
<1> QED
  BY <1>1, <1>2

\* Cyclic cells are set aside; what the new text concerns is left to be marked, and the card to be ticked.
LEMMA RelinkedKeeps ==
    ASSUME NEW N \in Runtime, NEW sync, sync.card \in Books, NEW P, NEW L, NEW A, NEW T, NEW rest,
           Sound(N, P, L \cup {sync.card}, A, T)
    PROVE  LET left == Relinked(N, sync, rest) IN
           /\ left.nb \in Runtime
           /\ left.todo = <<Do("mark", sync.changed), Do("mark", sync.toggled), Do("mark", sync.waiting),
                            Do("tick", sync.card)>> \o rest
           /\ Sound(left.nb, P, L, A, T \cup {sync.card})
<1> DEFINE k == sync.card
           X == Cyclic(N, k)
           M == [N EXCEPT !.state = [c \in CellIds |-> IF c \in X THEN "idle" ELSE @[c]],
                          !.out = [c \in CellIds |-> IF c \in X
                                                     THEN [@[c] EXCEPT !.status = "error", !.running = FALSE,
                                                                       !.stale = FALSE]
                                                     ELSE @[c]],
                          !.missed = @ \cup {c \in X : InFlight(N, c)}]
           todo == <<Do("mark", sync.changed), Do("mark", sync.toggled), Do("mark", sync.waiting),
                     Do("tick", sync.card)>> \o rest
<1>1. Relinked(N, sync, rest) = Left(M, todo)
  BY DEF Relinked
<1>2. X \subseteq Of(k) /\ X \subseteq CellIds /\ \A c \in X : CardOf[c] = k
  <2>1. X \subseteq Of(k)
    BY DEF Cyclic
  <2> QED
    BY <2>1, CardsOfCells
<1> HIDE DEF X
<1>3. /\ M \in Runtime /\ Alike(M, N) /\ M.spec = N.spec
      /\ \A c \in X : M.state[c] = "idle" /\ M.out[c].status = "error"
      /\ \A c \in CellIds \ X : M.state[c] = N.state[c] /\ M.out[c] = N.out[c]
      /\ M.timers = N.timers /\ M.redo = N.redo /\ M.jobs = N.jobs /\ M.orphaned = N.orphaned
      /\ M.missed = N.missed \cup {c \in X : InFlight(N, c)}
  <2> DEFINE state == [c \in CellIds |-> IF c \in X THEN "idle" ELSE N.state[c]]
             out == [c \in CellIds |-> IF c \in X
                                       THEN [N.out[c] EXCEPT !.status = "error", !.running = FALSE,
                                                             !.stale = FALSE]
                                       ELSE N.out[c]]
  <2>1. N.state \in [CellIds -> {"idle", "queued", "running", "stale"}] /\ N.out \in [CellIds -> Pane]
    BY DEF Runtime
  <2>2. state \in [CellIds -> {"idle", "queued", "running", "stale"}]
    BY <2>1
  <2>3. ASSUME NEW c \in CellIds PROVE out[c] \in Pane /\ (c \in X => out[c].status = "error")
    <3>1. N.out[c] \in Pane
      BY <2>1
    <3>2. /\ [N.out[c] EXCEPT !.status = "error", !.running = FALSE, !.stale = FALSE] \in Pane
          /\ [N.out[c] EXCEPT !.status = "error", !.running = FALSE, !.stale = FALSE].status = "error"
      BY <3>1 DEF Pane
    <3> QED
      BY <3>1, <3>2
  <2>4. out \in [CellIds -> Pane]
    BY <2>3
  <2>5. M = [N EXCEPT !.state = state, !.out = out, !.missed = @ \cup {c \in X : InFlight(N, c)}]
    BY DEF Runtime
  <2>6. \A c \in CellIds \ X : state[c] = N.state[c] /\ out[c] = N.out[c]
    OBVIOUS
  <2>7. \A c \in X : state[c] = "idle" /\ out[c].status = "error"
    BY <1>2, <2>3
  <2> HIDE DEF state, out, M
  <2>8. M \in Runtime /\ Alike(M, N) /\ M.spec = N.spec /\ M.state = state /\ M.out = out
        /\ M.timers = N.timers /\ M.redo = N.redo /\ M.jobs = N.jobs /\ M.orphaned = N.orphaned
        /\ M.missed = N.missed \cup {c \in X : InFlight(N, c)}
    BY <1>2, <2>2, <2>4, <2>5 DEF Runtime, Alike
  <2> QED
    BY <2>6, <2>7, <2>8
<1> HIDE DEF M, todo
<1>4. PanesFit(M, P, A)
  <2> SUFFICES ASSUME NEW d \in CellIds,
                      Acyclic(M, d), M.out[d].status = "ok", ~Busy(M, d), ~M.out[d].stale,
                      d \notin M.timers \cup M.missed \cup P, ~(d \in M.redo /\ d \in A)
               PROVE  Fits(M, d, M.out[d].made)
    BY DEF PanesFit
  <2>1. d \notin X
    BY <1>3
  <2>2. Fits(N, d, N.out[d].made)
    BY <1>3, <2>1, AlikeGraphs DEF Sound, PanesFit, Busy
  <2> QED
    BY <1>3, <2>1, <2>2, AlikeFits
<1>5. RunsFit(M, P)
  <2> SUFFICES ASSUME NEW i \in DOMAIN M.jobs, M.jobs[i].current
               PROVE  LET d == M.jobs[i].cell IN
                      /\ Present(M, d)
                      /\ Acyclic(M, d) => d \in M.redo \cup M.timers \cup M.missed \cup P
                                            \/ Fits(M, d, M.jobs[i])
    BY DEF RunsFit
  <2>1. i \in DOMAIN N.jobs /\ N.jobs[i].current /\ M.jobs[i] = N.jobs[i]
    BY <1>3
  <2> QED
    BY <1>3, <2>1, AlikeGraphs, AlikeFits DEF Sound, RunsFit
<1>6. CyclesRest(M, L)
  <2> SUFFICES ASSUME NEW d \in CellIds, d \in Cyclic(M, CardOf[d]), CardOf[d] \notin L
               PROVE  /\ M.out[d].status # "ok" \/ d \in M.missed
                      /\ InFlight(M, d) => d \in M.missed
                      /\ M.state[d] # "queued"
    BY DEF CyclesRest
  <2>1. d \in Cyclic(N, CardOf[d])
    BY <1>3, AlikeGraphs
  <2>2. CASE CardOf[d] = k
    <3>1. d \in X
      BY <2>1, <2>2 DEF X
    <3> QED
      BY <1>3, <3>1 DEF InFlight
  <2>3. CASE CardOf[d] # k
    <3>1. d \notin X
      BY <1>2, <2>3
    <3> QED
      BY <1>3, <2>1, <2>3, <3>1 DEF Sound, CyclesRest, InFlight
  <2> QED
    BY <2>2, <2>3
<1>7. AbsentRest(M)
  BY <1>3, AlikeGraphs DEF Sound, AbsentRest, Alike
<1>8. QueueMoves(M, L, A, T \cup {k})
  <2> SUFFICES ASSUME NEW d \in CellIds, M.state[d] = "queued", ~M.orphaned, CardOf[d] \notin L \cup T \cup {k}
               PROVE  \E e \in Of(CardOf[d]) : M.state[e] = "running" \/ e \in A
    BY DEF QueueMoves
  <2>1. N.state[d] = "queued"
    BY <1>3
  <2>2. PICK e \in Of(CardOf[d]) : N.state[e] = "running" \/ e \in A
    BY <1>3, <2>1 DEF Sound, QueueMoves
  <2>3. e \in CellIds /\ e \notin X
    BY <1>2, <2>2, CardsOfCells
  <2> QED
    BY <1>3, <2>2, <2>3
<1>9. RunningFly(M)
  BY <1>3 DEF Sound, RunningFly, InFlight
<1> QED
  BY <1>1, <1>3, <1>4, <1>5, <1>6, <1>7, <1>8, <1>9 DEF Sound, Left, todo

\* The calls that can be owed; what syncCells owes once the card is parsed.
SyncCalls == [card : Books, changed : SUBSET CellIds, toggled : SUBSET CellIds, waiting : SUBSET CellIds]

PageCalls ==
    [op : {"tick"}, of : Books] \cup [op : {"after"}, of : CellIds] \cup [op : {"mark"}, of : SUBSET CellIds]
        \cup [op : {"relink"}, of : SyncCalls]

\* What a set of calls will mark, look for cycles in, return from and tick.
ToMark(C) ==
    {c \in CellIds : \E x \in C : \/ x.op = "mark" /\ c \in x.of
                                  \/ x.op = "relink" /\ c \in x.of.changed \cup x.of.waiting}
ToRelink(C) == {k \in Books : \E x \in C : x.op = "relink" /\ x.of.card = k}
ToReturn(C) == {c \in CellIds : \E x \in C : x.op = "after" /\ x.of = c}
ToTick(C) == {k \in Books : \E x \in C : x.op = "tick" /\ x.of = k}

SoundTurn(left) ==
    /\ left.nb \in Runtime /\ left.todo \in Seq(PageCalls)
    /\ LET C == Range(left.todo) IN Sound(left.nb, ToMark(C), ToRelink(C), ToReturn(C), ToTick(C))

\* The calls the scheduler leaves are among them.
LEMMA CallsAre ==
    /\ \A k \in Books : Do("tick", k) \in PageCalls
    /\ \A c \in CellIds : Do("after", c) \in PageCalls
    /\ \A X \in SUBSET CellIds : Do("mark", X) \in PageCalls
    /\ \A r \in SyncCalls :
          Do("relink", r) \in PageCalls
BY DEF PageCalls, Do

\* What one more call adds.
LEMMA CallIs == \A op, of : Do(op, of).op = op /\ Do(op, of).of = of
BY DEF Do

LEMMA TickAdds ==
    ASSUME NEW D, NEW k \in Books
    PROVE  LET C == {Do("tick", k)} \cup D IN
           /\ ToMark(C) = ToMark(D) /\ ToRelink(C) = ToRelink(D)
           /\ ToReturn(C) = ToReturn(D) /\ ToTick(C) = ToTick(D) \cup {k}
BY CallIs DEF ToMark, ToRelink, ToReturn, ToTick

LEMMA AfterAdds ==
    ASSUME NEW D, NEW c \in CellIds
    PROVE  LET C == {Do("after", c)} \cup D IN
           /\ ToMark(C) = ToMark(D) /\ ToRelink(C) = ToRelink(D)
           /\ ToReturn(C) = ToReturn(D) \cup {c} /\ ToTick(C) = ToTick(D)
BY CallIs DEF ToMark, ToRelink, ToReturn, ToTick

LEMMA MarkAdds ==
    ASSUME NEW D, NEW X \in SUBSET CellIds
    PROVE  LET C == {Do("mark", X)} \cup D IN
           /\ ToMark(C) = ToMark(D) \cup X /\ ToRelink(C) = ToRelink(D)
           /\ ToReturn(C) = ToReturn(D) /\ ToTick(C) = ToTick(D)
BY CallIs DEF ToMark, ToRelink, ToReturn, ToTick

LEMMA RelinkAdds ==
    ASSUME NEW D, 
           NEW r \in SyncCalls
    PROVE  LET C == {Do("relink", r)} \cup D IN
           /\ ToMark(C) = ToMark(D) \cup (r.changed \cup r.waiting) /\ ToRelink(C) = ToRelink(D) \cup {r.card}
           /\ ToReturn(C) = ToReturn(D) /\ ToTick(C) = ToTick(D)
BY CallIs DEF SyncCalls, ToMark, ToRelink, ToReturn, ToTick

\* No calls, nothing to do.
LEMMA NothingOwed == ToMark({}) = {} /\ ToRelink({}) = {} /\ ToReturn({}) = {} /\ ToTick({}) = {}
BY DEF ToMark, ToRelink, ToReturn, ToTick

\* One sequence before another.
LEMMA PrefixRange ==
    ASSUME NEW S, NEW pre \in Seq(S), NEW rest \in Seq(S)
    PROVE  pre \o rest \in Seq(S) /\ Range(pre \o rest) = Range(pre) \cup Range(rest)
<1>1. /\ DOMAIN pre = 1..Len(pre) /\ DOMAIN rest = 1..Len(rest) /\ DOMAIN (pre \o rest) = 1..(Len(pre) + Len(rest))
      /\ Len(pre) \in Nat /\ Len(rest) \in Nat
  OBVIOUS
<1>2. \A i \in 1..(Len(pre) + Len(rest)) :
          (pre \o rest)[i] = IF i <= Len(pre) THEN pre[i] ELSE rest[i - Len(pre)]
  OBVIOUS
<1>3. ASSUME NEW i \in 1..(Len(pre) + Len(rest)) PROVE (pre \o rest)[i] \in Range(pre) \cup Range(rest)
  <2>1. CASE i <= Len(pre)
    BY <1>1, <1>2, <2>1 DEF Range
  <2>2. CASE ~(i <= Len(pre))
    <3>1. i - Len(pre) \in DOMAIN rest /\ (pre \o rest)[i] = rest[i - Len(pre)]
      BY <1>1, <1>2, <2>2
    <3> QED
      BY <3>1 DEF Range
  <2> QED
    BY <2>1, <2>2
<1>4. ASSUME NEW i \in DOMAIN pre PROVE pre[i] \in Range(pre \o rest)
  <2>1. i \in DOMAIN (pre \o rest) /\ (pre \o rest)[i] = pre[i]
    BY <1>1, <1>2
  <2> QED
    BY <2>1 DEF Range
<1>5. ASSUME NEW i \in DOMAIN rest PROVE rest[i] \in Range(pre \o rest)
  <2>1. Len(pre) + i \in DOMAIN (pre \o rest) /\ ~(Len(pre) + i <= Len(pre)) /\ (Len(pre) + i) - Len(pre) = i
    BY <1>1
  <2>2. (pre \o rest)[Len(pre) + i] = rest[i]
    BY <1>1, <1>2, <2>1
  <2> QED
    BY <2>1, <2>2 DEF Range
<1>6. pre \o rest \in Seq(S)
  OBVIOUS
<1> QED
  BY <1>1, <1>3, <1>4, <1>5, <1>6 DEF Range

\* One call, or four, before the others.
LEMMA OneFirst ==
    ASSUME NEW x \in PageCalls, NEW rest \in Seq(PageCalls)
    PROVE  <<x>> \o rest \in Seq(PageCalls) /\ Range(<<x>> \o rest) = {x} \cup Range(rest)
<1>1. <<x>> \in Seq(PageCalls) /\ Range(<<x>>) = {x}
  BY DEF Range
<1> DEFINE pre == <<x>>
<1> HIDE DEF pre
<1>2. pre \o rest \in Seq(PageCalls) /\ Range(pre \o rest) = Range(pre) \cup Range(rest)
  <2>1. pre \in Seq(PageCalls)
    BY <1>1 DEF pre
  <2> QED
    BY <2>1, PrefixRange
<1> QED
  BY <1>1, <1>2 DEF pre

LEMMA FourFirst ==
    ASSUME NEW w \in PageCalls, NEW x \in PageCalls, NEW y \in PageCalls, NEW z \in PageCalls,
           NEW rest \in Seq(PageCalls)
    PROVE  <<w, x, y, z>> \o rest \in Seq(PageCalls)
           /\ Range(<<w, x, y, z>> \o rest) = {w, x, y, z} \cup Range(rest)
<1>1. <<w, x, y, z>> \in Seq(PageCalls)
  OBVIOUS
<1>2. Range(<<w, x, y, z>>) = {w, x, y, z}
  <2>1. DOMAIN <<w, x, y, z>> = {1, 2, 3, 4}
    OBVIOUS
  <2> QED
    BY <2>1 DEF Range
<1> DEFINE pre == <<w, x, y, z>>
<1> HIDE DEF pre
<1>3. pre \o rest \in Seq(PageCalls) /\ Range(pre \o rest) = Range(pre) \cup Range(rest)
  <2>1. pre \in Seq(PageCalls)
    BY <1>1 DEF pre
  <2> QED
    BY <2>1, PrefixRange
<1> QED
  BY <1>1, <1>2, <1>3 DEF pre

\* What is proved of fewer calls than are owed is a sound turn.
LEMMA SoundTurnIs ==
    ASSUME NEW left, left.nb \in Runtime, left.todo \in Seq(PageCalls), NEW P, NEW L, NEW A, NEW T,
           Sound(left.nb, P, L, A, T),
           P \subseteq ToMark(Range(left.todo)), L \subseteq ToRelink(Range(left.todo)),
           A \subseteq ToReturn(Range(left.todo)), T \subseteq ToTick(Range(left.todo))
    PROVE  SoundTurn(left)
BY SoundIsMonotone DEF SoundTurn

\* A first call that adds to the calls owed: of a sound rest.
LEMMA TickFirst ==
    ASSUME NEW k \in Books, NEW rest \in Seq(PageCalls)
    PROVE  LET todo == <<Do("tick", k)>> \o rest
               C == Range(todo)
               D == Range(rest)
           IN  /\ todo \in Seq(PageCalls)
               /\ ToMark(C) = ToMark(D) /\ ToRelink(C) = ToRelink(D) /\ ToReturn(C) = ToReturn(D)
               /\ ToTick(C) = ToTick(D) \cup {k}
<1>1. Do("tick", k) \in PageCalls
  BY CallsAre
<1>2. <<Do("tick", k)>> \o rest \in Seq(PageCalls)
      /\ Range(<<Do("tick", k)>> \o rest) = {Do("tick", k)} \cup Range(rest)
  BY <1>1, OneFirst
<1> QED
  BY <1>2, TickAdds

LEMMA AfterFirst ==
    ASSUME NEW c \in CellIds, NEW rest \in Seq(PageCalls)
    PROVE  LET todo == <<Do("after", c)>> \o rest
               C == Range(todo)
               D == Range(rest)
           IN  /\ todo \in Seq(PageCalls)
               /\ ToMark(C) = ToMark(D) /\ ToRelink(C) = ToRelink(D) /\ ToReturn(C) = ToReturn(D) \cup {c}
               /\ ToTick(C) = ToTick(D)
<1>1. Do("after", c) \in PageCalls
  BY CallsAre
<1>2. <<Do("after", c)>> \o rest \in Seq(PageCalls)
      /\ Range(<<Do("after", c)>> \o rest) = {Do("after", c)} \cup Range(rest)
  BY <1>1, OneFirst
<1> QED
  BY <1>2, AfterAdds

LEMMA MarkFirst ==
    ASSUME NEW X \in SUBSET CellIds, NEW rest \in Seq(PageCalls)
    PROVE  LET todo == <<Do("mark", X)>> \o rest
               C == Range(todo)
               D == Range(rest)
           IN  /\ todo \in Seq(PageCalls)
               /\ ToMark(C) = ToMark(D) \cup X /\ ToRelink(C) = ToRelink(D) /\ ToReturn(C) = ToReturn(D)
               /\ ToTick(C) = ToTick(D)
<1>1. Do("mark", X) \in PageCalls
  BY CallsAre
<1>2. <<Do("mark", X)>> \o rest \in Seq(PageCalls)
      /\ Range(<<Do("mark", X)>> \o rest) = {Do("mark", X)} \cup Range(rest)
  BY <1>1, OneFirst
<1> QED
  BY <1>2, MarkAdds

\* The rest of syncCells leaves a sound turn.
LEMMA RelinkIsSound ==
    ASSUME NEW N \in Runtime, NEW r \in SyncCalls, NEW rest \in Seq(PageCalls),
           LET D == Range(rest) IN
           Sound(N, ToMark(D) \cup (r.changed \cup r.waiting), ToRelink(D) \cup {r.card}, ToReturn(D), ToTick(D))
    PROVE  SoundTurn(Relinked(N, r, rest))
<1> DEFINE D == Range(rest)
           Q == ToMark(D) \cup (r.changed \cup r.waiting)
           L == ToRelink(D)
           A == ToReturn(D)
           T == ToTick(D)
           left == Relinked(N, r, rest)
           all == <<Do("mark", r.changed), Do("mark", r.toggled), Do("mark", r.waiting), Do("tick", r.card)>>
                     \o rest
<1>1. r.card \in Books /\ r.changed \in SUBSET CellIds /\ r.toggled \in SUBSET CellIds /\ r.waiting \in SUBSET CellIds
  BY DEF SyncCalls
<1>2. Sound(N, Q, L \cup {r.card}, A, T)
  OBVIOUS
<1> HIDE DEF Q, L, A, T
<1>3. /\ left.nb \in Runtime /\ left.todo = all
      /\ Sound(left.nb, Q, L, A, T \cup {r.card})
  <2>1. LET out == Relinked(N, r, rest) IN
        /\ out.nb \in Runtime
        /\ out.todo = <<Do("mark", r.changed), Do("mark", r.toggled), Do("mark", r.waiting),
                        Do("tick", r.card)>> \o rest
        /\ Sound(out.nb, Q, L, A, T \cup {r.card})
    BY ONLY N \in Runtime, <1>1, <1>2, RelinkedKeeps, Zenon
  <2> QED
    BY <2>1
<1> HIDE DEF left
<1>4. /\ all \in Seq(PageCalls)
      /\ Range(all) = {Do("mark", r.changed), Do("mark", r.toggled), Do("mark", r.waiting), Do("tick", r.card)}
                        \cup D
  <2>1. /\ Do("mark", r.changed) \in PageCalls /\ Do("mark", r.toggled) \in PageCalls
        /\ Do("mark", r.waiting) \in PageCalls /\ Do("tick", r.card) \in PageCalls
    BY <1>1, CallsAre
  <2> QED
    BY <2>1, FourFirst
<1> HIDE DEF all
<1>5. /\ Q \subseteq ToMark(Range(all)) /\ L \subseteq ToRelink(Range(all))
      /\ A \subseteq ToReturn(Range(all)) /\ T \cup {r.card} \subseteq ToTick(Range(all))
  BY <1>1, <1>4, CallIs DEF Q, L, A, T, ToMark, ToRelink, ToReturn, ToTick
<1>6. SoundTurn(left)
  BY <1>3, <1>4, <1>5, SoundTurnIs
<1> QED
  BY <1>6 DEF left

\* Each call, with all it does and leaves, keeps a turn sound.
LEMMA MadeKeeps ==
    ASSUME NEW N \in Runtime, NEW call \in PageCalls, NEW rest \in Seq(PageCalls),
           LET C == {call} \cup Range(rest) IN Sound(N, ToMark(C), ToRelink(C), ToReturn(C), ToTick(C))
    PROVE  SoundTurn(Made(N, call, rest))
<1> DEFINE D == Range(rest)
           C == {call} \cup D
           P == ToMark(D)
           L == ToRelink(D)
           A == ToReturn(D)
           T == ToTick(D)
<1>0. Sound(N, ToMark(C), ToRelink(C), ToReturn(C), ToTick(C))
  OBVIOUS
<1>1. CASE call.op = "tick"
  <2> DEFINE k == call.of
             again == <<Do("tick", k)>> \o rest
             left == Tick(N, k, rest)
  <2>1. k \in Books /\ call = Do("tick", k) /\ Made(N, call, rest) = left
    BY <1>1 DEF PageCalls, Do, Made
  <2>2. Sound(N, P, L, A, T \cup {k})
    BY <1>0, <2>1, TickAdds
  <2>3. /\ left.nb \in Runtime
        /\ \/ left.todo = rest /\ Sound(left.nb, P, L, A, T)
           \/ left.todo = again /\ Sound(left.nb, P, L, A, T \cup {k})
           \/ \E c \in CellIds :
                 LET on == <<Do("after", c)>> \o again IN
                 \/ left.todo = on /\ Sound(left.nb, P, L, A \cup {c}, T \cup {k})
                 \/ /\ left.todo = <<Do("mark", Importers(N, c))>> \o on
                    /\ Sound(left.nb, P \cup Importers(N, c), L, A \cup {c}, T \cup {k})
    BY <2>1, <2>2, TickKeeps
  <2> HIDE DEF left
  <2>4. /\ again \in Seq(PageCalls)
        /\ ToMark(Range(again)) = P /\ ToRelink(Range(again)) = L /\ ToReturn(Range(again)) = A
        /\ ToTick(Range(again)) = T \cup {k}
    BY <2>1, TickFirst
  <2> HIDE DEF again
  <2>5. ASSUME left.todo = rest, Sound(left.nb, P, L, A, T)
        PROVE  SoundTurn(left)
    BY <2>3, <2>5 DEF SoundTurn
  <2>6. ASSUME left.todo = again, Sound(left.nb, P, L, A, T \cup {k})
        PROVE  SoundTurn(left)
    BY <2>3, <2>4, <2>6 DEF SoundTurn
  <2>7. ASSUME NEW c \in CellIds,
               LET on == <<Do("after", c)>> \o again IN
               \/ left.todo = on /\ Sound(left.nb, P, L, A \cup {c}, T \cup {k})
               \/ /\ left.todo = <<Do("mark", Importers(N, c))>> \o on
                  /\ Sound(left.nb, P \cup Importers(N, c), L, A \cup {c}, T \cup {k})
        PROVE  SoundTurn(left)
    <3> DEFINE on == <<Do("after", c)>> \o again
               all == <<Do("mark", Importers(N, c))>> \o on
    <3>1. /\ on \in Seq(PageCalls)
          /\ ToMark(Range(on)) = P /\ ToRelink(Range(on)) = L /\ ToReturn(Range(on)) = A \cup {c}
          /\ ToTick(Range(on)) = T \cup {k}
      BY <2>4, AfterFirst
    <3>2. \/ left.todo = on /\ Sound(left.nb, P, L, A \cup {c}, T \cup {k})
          \/ left.todo = all /\ Sound(left.nb, P \cup Importers(N, c), L, A \cup {c}, T \cup {k})
      BY <2>7
    <3> HIDE DEF on
    <3>3. /\ all \in Seq(PageCalls)
          /\ ToMark(Range(all)) = P \cup Importers(N, c) /\ ToRelink(Range(all)) = L
          /\ ToReturn(Range(all)) = A \cup {c} /\ ToTick(Range(all)) = T \cup {k}
      BY <3>1, MarkFirst, ImportersAreCells
    <3> HIDE DEF all
    <3> QED
      BY <2>3, <3>1, <3>2, <3>3 DEF SoundTurn
  <2>8. SoundTurn(left)
    BY <2>3, <2>5, <2>6, <2>7
  <2> QED
    BY <2>1, <2>8
<1>2. CASE call.op = "after"
  <2> DEFINE c == call.of
             k == CardOf[c]
             on == <<Do("tick", k)>> \o rest
             left == AfterRun(N, c, rest)
  <2>1. c \in CellIds /\ k \in Books /\ call = Do("after", c) /\ Made(N, call, rest) = left
    BY <1>2, CardsOfCells DEF PageCalls, Do, Made
  <2>2. Sound(N, P, L, A \cup {c}, T)
    BY <1>0, <2>1, AfterAdds
  <2>3. /\ left.nb \in Runtime
        /\ left.todo = on \/ left.todo = <<Do("tick", k)>> \o on
        /\ Sound(left.nb, P, L, A, T \cup {k})
    BY <2>1, <2>2, AfterRunKeeps
  <2> HIDE DEF left
  <2>4. /\ on \in Seq(PageCalls)
        /\ ToMark(Range(on)) = P /\ ToRelink(Range(on)) = L /\ ToReturn(Range(on)) = A
        /\ ToTick(Range(on)) = T \cup {k}
    BY <2>1, TickFirst
  <2> HIDE DEF on
  <2>5. LET all == <<Do("tick", k)>> \o on IN
        /\ all \in Seq(PageCalls)
        /\ ToMark(Range(all)) = P /\ ToRelink(Range(all)) = L /\ ToReturn(Range(all)) = A
        /\ ToTick(Range(all)) = (T \cup {k}) \cup {k}
    BY <2>1, <2>4, TickFirst
  <2>6. (T \cup {k}) \cup {k} = T \cup {k}
    OBVIOUS
  <2>7. SoundTurn(left)
    BY <2>3, <2>4, <2>5, <2>6 DEF SoundTurn
  <2> QED
    BY <2>1, <2>7
<1>3. CASE call.op = "mark"
  <2> DEFINE X == call.of
             left == MarkNext(N, X, rest)
  <2>1. X \in SUBSET CellIds /\ call = Do("mark", X) /\ Made(N, call, rest) = left
    BY <1>3 DEF PageCalls, Do, Made
  <2>2. Sound(N, P \cup X, L, A, T)
    BY <1>0, <2>1, MarkAdds
  <2>3. CASE X = {}
    <3>1. left.nb = N /\ left.todo = rest
      BY <2>3 DEF MarkNext, Left
    <3> HIDE DEF left
    <3>2. Sound(N, P, L, A, T)
      <4>1. P \cup X = P
        BY <2>3
      <4> QED
        BY <2>2, <4>1
    <3>3. SoundTurn(left)
      BY <3>1, <3>2 DEF SoundTurn
    <3> QED
      BY <2>1, <3>3
  <2>4. CASE X # {}
    <3> DEFINE c == CHOOSE c \in X : TRUE
               on == <<Do("mark", X \ {c})>> \o rest
               Q == P \cup (X \ {c})
    <3>1. c \in X /\ left = MarkDirty(N, c, on)
      BY <2>4 DEF MarkNext
    <3> HIDE DEF c, left
    <3>2. Q \cup {c} = P \cup X
      BY <3>1
    <3>3. c \in CellIds /\ CardOf[c] \in Books
      BY <2>1, <3>1, CardsOfCells
    <3>4. /\ on \in Seq(PageCalls)
          /\ ToMark(Range(on)) = Q /\ ToRelink(Range(on)) = L /\ ToReturn(Range(on)) = A
          /\ ToTick(Range(on)) = T
      BY <2>1, MarkFirst
    <3> HIDE DEF on, Q
    <3>5. Sound(N, Q \cup {c}, L, A, T)
      BY <2>2, <3>2
    <3>6. LET out == MarkDirty(N, c, on) IN
          /\ out.nb \in Runtime
          /\ \/ out.todo = on /\ Sound(out.nb, Q, L, A, T)
             \/ /\ out.todo = <<Do("tick", CardOf[c])>> \o on
                /\ Sound(out.nb, Q, L, A, T \cup {CardOf[c]})
      BY <3>3, <3>5, MarkDirtyKeeps
    <3>7. LET all == <<Do("tick", CardOf[c])>> \o on IN
          /\ all \in Seq(PageCalls)
          /\ ToMark(Range(all)) = Q /\ ToRelink(Range(all)) = L /\ ToReturn(Range(all)) = A
          /\ ToTick(Range(all)) = T \cup {CardOf[c]}
      BY <3>3, <3>4, TickFirst
    <3>8. SoundTurn(left)
      BY <3>1, <3>4, <3>6, <3>7 DEF SoundTurn
    <3> QED
      BY <2>1, <3>8
  <2> QED
    BY <2>3, <2>4
<1>4. CASE call.op = "relink"
  <2>1. PICK r \in SyncCalls : call = Do("relink", r)
    BY <1>4 DEF PageCalls, Do
  <2>2. Made(N, call, rest) = Relinked(N, r, rest)
    BY <2>1 DEF Made, Do
  <2>3. Sound(N, P \cup (r.changed \cup r.waiting), L \cup {r.card}, A, T)
    <3>1. LET E == {Do("relink", r)} \cup D IN
          /\ ToMark(E) = ToMark(D) \cup (r.changed \cup r.waiting) /\ ToRelink(E) = ToRelink(D) \cup {r.card}
          /\ ToReturn(E) = ToReturn(D) /\ ToTick(E) = ToTick(D)
      BY RelinkAdds
    <3> QED
      BY <1>0, <2>1, <3>1
  <2> QED
    BY <2>2, <2>3, RelinkIsSound
<1> QED
  BY <1>1, <1>2, <1>3, <1>4 DEF PageCalls

\* The next call of a sound turn leaves it sound.
LEMMA MadeNextKeeps ==
    ASSUME NEW left, SoundTurn(left)
    PROVE  SoundTurn(MadeNext(left))
<1>1. CASE left.todo = <<>>
  BY <1>1 DEF MadeNext
<1>2. CASE left.todo # <<>>
  <2> DEFINE call == Head(left.todo)
             rest == Tail(left.todo)
  <2>1. /\ call \in PageCalls /\ rest \in Seq(PageCalls)
        /\ Range(left.todo) = {call} \cup Range(rest)
    <3>1. left.todo \in Seq(PageCalls)
      BY DEF SoundTurn
    <3> QED
      BY <1>2, <3>1, TailRange
  <2>2. MadeNext(left) = Made(left.nb, call, rest)
    BY <1>2 DEF MadeNext
  <2>3. left.nb \in Runtime
        /\ LET C == {call} \cup Range(rest) IN
           Sound(left.nb, ToMark(C), ToRelink(C), ToReturn(C), ToTick(C))
    BY <2>1 DEF SoundTurn
  <2> HIDE DEF call, rest
  <2>4. SoundTurn(Made(left.nb, call, rest))
    BY <2>1, <2>3, MadeKeeps
  <2> QED
    BY <2>2, <2>4
<1> QED
  BY <1>1, <1>2

\* The first n calls of a turn, one after the other.
CallsUpTo(g, N, todo, n) == g = [m \in 0..n |-> IF m = 0 THEN Left(N, todo) ELSE MadeNext(g[m - 1])]

\* There are such calls for every n (the recursive function is one).
LEMMA CallsExist == ASSUME NEW N, NEW todo PROVE \A n \in Nat : \E g : CallsUpTo(g, N, todo, n)
<1> DEFINE P == {n \in Nat : \E g : CallsUpTo(g, N, todo, n)}
<1>1. 0 \in P
  <2>1. CallsUpTo([m \in 0..0 |-> Left(N, todo)], N, todo, 0)
    BY DEF CallsUpTo
  <2> QED
    BY <2>1
<1>2. ASSUME NEW n \in Nat, n \in P PROVE n + 1 \in P
  <2>1. PICK g : CallsUpTo(g, N, todo, n)
    BY <1>2
  <2> DEFINE h == [m \in 0..(n + 1) |-> IF m = n + 1 THEN MadeNext(g[n]) ELSE g[m]]
  <2>2. ASSUME NEW m \in 0..(n + 1)
        PROVE  h[m] = IF m = 0 THEN Left(N, todo) ELSE MadeNext(h[m - 1])
    <3>1. CASE m = n + 1
      <4>1. h[m] = MadeNext(g[n]) /\ h[n] = g[n] /\ m - 1 = n /\ m # 0
        BY <3>1
      <4> HIDE DEF h
      <4> QED
        BY <3>1, <4>1
    <3>2. CASE m # n + 1
      <4>1. m \in 0..n /\ (m # 0 => m - 1 \in 0..n /\ m - 1 # n + 1)
        BY <3>2
      <4>2. h[m] = g[m] /\ (m # 0 => h[m - 1] = g[m - 1])
        BY <3>2, <4>1
      <4> HIDE DEF h
      <4> QED
        BY <2>1, <4>1, <4>2 DEF CallsUpTo
    <3> QED
      BY <3>1, <3>2
  <2>3. CallsUpTo(h, N, todo, n + 1)
    <3>1. h = [m \in 0..(n + 1) |-> h[m]]
      OBVIOUS
    <3> HIDE DEF h
    <3> QED
      BY <2>2, <3>1 DEF CallsUpTo
  <2> QED
    BY <2>3
<1> HIDE DEF P
<1>3. \A n \in Nat : n \in P
  BY <1>1, <1>2, NaturalInduction
<1> QED
  BY <1>3 DEF P

\* A turn is sound after all the calls it is given time for.
LEMMA FinishedKeeps ==
    ASSUME NEW N, NEW todo, SoundTurn(Left(N, todo))
    PROVE  SoundTurn(Finished(N, todo))
<1> DEFINE G == CHOOSE g : CallsUpTo(g, N, todo, MaxNested)
<1>1. MaxNested \in Nat
  BY CellsAssumption
<1>2. CallsUpTo(G, N, todo, MaxNested)
  BY <1>1, CallsExist
<1>3. Finished(N, todo) = G[MaxNested]
  BY DEF Finished, CallsUpTo
<1> HIDE DEF G
<1> DEFINE P == {n \in Nat : n <= MaxNested => SoundTurn(G[n])}
<1>4. 0 \in P
  BY <1>1, <1>2 DEF CallsUpTo
<1>5. ASSUME NEW n \in Nat, n \in P PROVE n + 1 \in P
  <2> SUFFICES ASSUME n + 1 <= MaxNested PROVE SoundTurn(G[n + 1])
    OBVIOUS
  <2>1. n + 1 \in 0..MaxNested /\ n + 1 # 0 /\ (n + 1) - 1 = n /\ n <= MaxNested
    BY <1>1
  <2>2. G[n + 1] = MadeNext(G[n])
    BY <1>2, <2>1 DEF CallsUpTo
  <2> QED
    BY <1>5, <2>1, <2>2, MadeNextKeeps
<1> HIDE DEF P
<1>6. \A n \in Nat : n \in P
  BY <1>4, <1>5, NaturalInduction
<1> QED
  BY <1>1, <1>3, <1>6 DEF P

\* A turn that starts sound ends sound, with nothing owed.
CellsInv == CellsTypeOK /\ Sound(nb, {}, {}, {}, {})

LEMMA TurnKeeps ==
    ASSUME NEW N, NEW todo, SoundTurn(Left(N, todo)), Turn(N, todo)
    PROVE  CellsInv'
<1> DEFINE end == Finished(N, todo)
<1>1. SoundTurn(end) /\ end.todo = <<>> /\ nb' = end.nb
  BY FinishedKeeps DEF Turn
<1> HIDE DEF end
<1>2. Range(end.todo) = {}
  BY <1>1 DEF Range
<1>3. end.nb \in Runtime /\ Sound(end.nb, {}, {}, {}, {})
  BY <1>1, <1>2, NothingOwed DEF SoundTurn
<1>4. CellsInv' <=> (nb' \in Runtime /\ Sound(nb', {}, {}, {}, {}))
  BY DEF CellsInv, CellsTypeOK, Sound, PanesFit, RunsFit, CyclesRest, AbsentRest, QueueMoves, RunningFly,
         Acyclic, Present, Busy, Fits, Input, Cyclic, Deps, InFlight, Of, Runtime, Pane, Job, Specs, Readings, Programs
<1> QED
  BY <1>1, <1>3, <1>4

\* Between turns nothing is owed.
LEMMA SoundAlone == CellsInv <=> nb \in Runtime /\ Sound(nb, {}, {}, {}, {})
BY DEF CellsInv, CellsTypeOK

LEMMA SoundNext == CellsInv' <=> nb' \in Runtime /\ Sound(nb', {}, {}, {}, {})
BY DEF CellsInv, CellsTypeOK, Sound, PanesFit, RunsFit, CyclesRest, AbsentRest, QueueMoves, RunningFly,
       Acyclic, Present, Busy, Fits, Input, Cyclic, Deps, InFlight, Of, Runtime, Pane, Job, Specs, Readings, Programs

\* The jobs that LinesAt leaves are jobs that were there, and all of those asked for.
LEMMA JobsLeft ==
    ASSUME NEW jobs \in Seq(Job), NEW at \in SUBSET (DOMAIN jobs)
    PROVE  LET kept == LinesAt(jobs, at) IN
           /\ kept \in Seq(Job)
           /\ \A i \in DOMAIN kept : \E n \in at : kept[i] = jobs[n]
           /\ \A n \in at : \E i \in DOMAIN kept : kept[i] = jobs[n]
<1> DEFINE kept == LinesAt(jobs, at)
<1>1. DOMAIN jobs = 1..Len(jobs)
  OBVIOUS
<1>2. kept \in Seq(Job) /\ \E f : Picks(f, kept, jobs, at)
  BY <1>1, LinesAtPicks
<1>3. PICK f : Picks(f, kept, jobs, at)
  BY <1>2
<1> HIDE DEF kept
<1>4. DOMAIN kept = 1..Len(kept)
  BY <1>2
<1> QED
  BY <1>2, <1>3, <1>4 DEF Picks, kept

\* A cell set running by hand or by its timer.
LEMMA TriggerTurn ==
    ASSUME NEW N \in Runtime, NEW c \in CellIds, Sound(N, {c}, {}, {}, {}),
           LET past == Trigger(N, c, <<>>) IN Turn(past.nb, past.todo)
    PROVE  CellsInv'
<1> DEFINE past == Trigger(N, c, <<>>)
<1>1. {} \cup {c} = {c}
  OBVIOUS
<1>2. Sound(N, {} \cup {c}, {}, {}, {})
  BY <1>1
<1>3. /\ past.nb \in Runtime
      /\ \/ past.todo = <<>> /\ Sound(past.nb, {}, {}, {}, {})
         \/ past.todo = <<Do("tick", CardOf[c])>> \o <<>> /\ Sound(past.nb, {}, {}, {}, {} \cup {CardOf[c]})
  BY <1>2, TriggerKeeps
<1>4. Turn(past.nb, past.todo)
  OBVIOUS
<1> HIDE DEF past
<1> DEFINE on == <<Do("tick", CardOf[c])>> \o <<>>
<1>5. <<>> \in Seq(PageCalls) /\ Range(<<>>) = {}
  BY DEF Range
<1>6. /\ on \in Seq(PageCalls)
      /\ ToMark(Range(on)) = {} /\ ToRelink(Range(on)) = {} /\ ToReturn(Range(on)) = {}
      /\ ToTick(Range(on)) = {} \cup {CardOf[c]}
  <2> DEFINE none == <<>>
  <2>1. none \in Seq(PageCalls) /\ Range(none) = {} /\ on = <<Do("tick", CardOf[c])>> \o none
    BY <1>5
  <2> HIDE DEF none, on
  <2>2. LET all == <<Do("tick", CardOf[c])>> \o none
            C == Range(all)
            D == Range(none)
        IN  /\ all \in Seq(PageCalls)
            /\ ToMark(C) = ToMark(D) /\ ToRelink(C) = ToRelink(D) /\ ToReturn(C) = ToReturn(D)
            /\ ToTick(C) = ToTick(D) \cup {CardOf[c]}
    BY <2>1, TickFirst, CardsOfCells
  <2> QED
    BY <2>1, <2>2, NothingOwed
<1>7. SoundTurn(Left(past.nb, past.todo))
  <2> DEFINE left == Left(past.nb, past.todo)
  <2>1. left.nb = past.nb /\ left.todo = past.todo
    BY DEF Left
  <2> HIDE DEF left, on
  <2>2. ASSUME past.todo = <<>>, Sound(past.nb, {}, {}, {}, {}) PROVE SoundTurn(left)
    BY <1>3, <1>5, <2>1, <2>2, NothingOwed DEF SoundTurn
  <2>3. ASSUME past.todo = on, Sound(past.nb, {}, {}, {}, {} \cup {CardOf[c]}) PROVE SoundTurn(left)
    BY <1>3, <1>6, <2>1, <2>3 DEF SoundTurn
  <2>4. SoundTurn(left)
    BY <1>3, <2>2, <2>3 DEF on
  <2> QED
    BY <2>4 DEF left
<1> QED
  BY <1>4, <1>7, TurnKeeps

\* The Run button.
LEMMA PressRunKeeps == ASSUME CellsInv, NEW c \in CellIds, PressRun(c) PROVE CellsInv'
<1>1. nb \in Runtime /\ Sound(nb, {c}, {}, {}, {})
  BY SoundAlone, SoundIsMonotone
<1> QED
  BY <1>1, TriggerTurn DEF PressRun

\* A debounce timer.
LEMMA TimerFiresKeeps == ASSUME CellsInv, NEW c \in CellIds, TimerFires(c) PROVE CellsInv'
<1> DEFINE M == [nb EXCEPT !.timers = @ \ {c}]
<1>1. /\ M \in Runtime /\ Alike(M, nb) /\ M.spec = nb.spec /\ M.timers = nb.timers \ {c} /\ M.redo = nb.redo
      /\ M.state = nb.state /\ M.out = nb.out /\ M.jobs = nb.jobs /\ M.missed = nb.missed
      /\ M.orphaned = nb.orphaned
  BY SoundAlone DEF Runtime, Alike
<1>2. LET past == Trigger(M, c, <<>>) IN Turn(past.nb, past.todo)
  BY DEF TimerFires
<1> HIDE DEF M
<1>3. Sound(nb, {}, {}, {}, {})
  BY SoundAlone
<1>4. PanesFit(M, {c}, {})
  BY <1>1, <1>3, AlikeGraphs, AlikeFits DEF Sound, PanesFit, Busy
<1>5. RunsFit(M, {c})
  BY <1>1, <1>3, AlikeGraphs, AlikeFits DEF Sound, RunsFit
<1>6. CyclesRest(M, {}) /\ RunningFly(M)
  BY <1>1, <1>3, AlikeGraphs DEF Sound, CyclesRest, RunningFly, InFlight
<1>7. AbsentRest(M) /\ QueueMoves(M, {}, {}, {})
  BY <1>1, <1>3, AlikeGraphs DEF Sound, AbsentRest, QueueMoves, Alike
<1>8. Sound(M, {c}, {}, {}, {})
  BY <1>4, <1>5, <1>6, <1>7 DEF Sound
<1> QED
  BY <1>1, <1>2, <1>8, TriggerTurn

\* A data file changes: its readers are to be marked.
LEMMA FileChangesKeeps ==
    ASSUME CellsInv, NEW f \in Files, NEW v \in Contents, FileChanges(f, v)
    PROVE  CellsInv'
<1> DEFINE M == [nb EXCEPT !.content[f] = v]
           P == Importers(nb, f)
           todo == <<Do("mark", P)>>
<1>1. /\ M \in Runtime /\ M.spec = nb.spec /\ M.open = nb.open /\ M.exports = nb.exports
      /\ \A x \in Files \ {f} : M.content[x] = nb.content[x]
      /\ M.timers = nb.timers /\ M.redo = nb.redo
      /\ M.state = nb.state /\ M.out = nb.out /\ M.jobs = nb.jobs /\ M.missed = nb.missed
      /\ M.orphaned = nb.orphaned
  BY SoundAlone DEF Runtime
<1>2. Turn(M, todo)
  BY DEF FileChanges
<1> HIDE DEF M
<1>3. Sound(nb, {}, {}, {}, {})
  BY SoundAlone
<1>4. ASSUME NEW c \in CellIds, NEW past, Present(nb, c), c \notin P, Fits(nb, c, past)
      PROVE  Fits(M, c, past)
  <2>1. ASSUME NEW x \in nb.spec[c].reads \ {c}, x \in Files \/ CardOf[x] \in M.open
        PROVE  (x \in Files \/ CardOf[x] \in nb.open) /\ Input(M, x) = Input(nb, x)
    <3>1. x # f
      BY <1>4, <2>1 DEF Importers
    <3> QED
      BY <1>1, <2>1, <3>1 DEF Input, Present
  <2>2. M.spec[c] = nb.spec[c]
    BY <1>1
  <2> QED
    BY <1>4, <2>1, <2>2, StillFits
<1>5. PanesFit(M, P, {})
  BY <1>1, <1>3, <1>4, AlikeGraphs DEF Sound, PanesFit, Busy, Acyclic
<1>6. RunsFit(M, P)
  <2> SUFFICES ASSUME NEW i \in DOMAIN nb.jobs, nb.jobs[i].current
               PROVE  LET c == nb.jobs[i].cell IN
                      /\ Present(M, c)
                      /\ Acyclic(M, c) => c \in M.redo \cup M.timers \cup M.missed \cup P \/ Fits(M, c, nb.jobs[i])
    BY <1>1 DEF RunsFit
  <2>1. nb.jobs[i].cell \in CellIds
    <3>1. nb.jobs \in Seq(Job)
      BY SoundAlone DEF Runtime
    <3>2. nb.jobs[i] \in Job
      BY <3>1
    <3> QED
      BY <3>2 DEF Job
  <2> QED
    BY <1>1, <1>3, <1>4, <2>1, AlikeGraphs DEF Sound, RunsFit
<1>7. CyclesRest(M, {}) /\ RunningFly(M)
  BY <1>1, <1>3, AlikeGraphs DEF Sound, CyclesRest, RunningFly, InFlight
<1>8. AbsentRest(M) /\ QueueMoves(M, {}, {}, {})
  BY <1>1, <1>3, AlikeGraphs DEF Sound, AbsentRest, QueueMoves
<1>9. Sound(M, P, {}, {}, {})
  BY <1>5, <1>6, <1>7, <1>8 DEF Sound
<1>10. P \in SUBSET CellIds
  BY ImportersAreCells
<1> HIDE DEF P
<1>11. todo \in Seq(PageCalls) /\ Range(todo) = {Do("mark", P)} \cup {}
  <2>1. Do("mark", P) \in PageCalls
    BY <1>10, CallsAre
  <2> QED
    BY <2>1 DEF Range
<1> HIDE DEF todo
<1>12. SoundTurn(Left(M, todo))
  <2>1. /\ ToMark(Range(todo)) = {} \cup P /\ ToRelink(Range(todo)) = {} /\ ToReturn(Range(todo)) = {}
        /\ ToTick(Range(todo)) = {}
    <3>1. LET C == {Do("mark", P)} \cup {} IN
          /\ ToMark(C) = ToMark({}) \cup P /\ ToRelink(C) = ToRelink({})
          /\ ToReturn(C) = ToReturn({}) /\ ToTick(C) = ToTick({})
      BY <1>10, MarkAdds
    <3> QED
      BY <1>11, <3>1, NothingOwed
  <2>2. {} \cup P = P
    OBVIOUS
  <2> QED
    BY <1>1, <1>9, <1>11, <2>1, <2>2 DEF SoundTurn, Left
<1> QED
  BY <1>2, <1>12, TurnKeeps

\* The runtime without a run that returned: whatever was not its own reply is as it was.
LEMMA LosingAJob ==
    ASSUME NEW N \in Runtime, Sound(N, {}, {}, {}, {}), NEW i \in DOMAIN N.jobs
    PROVE  LET M == [N EXCEPT !.jobs = LinesAt(@, DOMAIN @ \ {i})]
               j == N.jobs[i]
           IN  /\ M \in Runtime /\ Alike(M, N) /\ M.allowed = N.allowed
               /\ M.state = N.state /\ M.out = N.out /\ M.timers = N.timers /\ M.redo = N.redo
               /\ M.missed = N.missed /\ M.orphaned = N.orphaned
               /\ PanesFit(M, {}, {}) /\ RunsFit(M, {}) /\ CyclesRest(M, {}) /\ AbsentRest(M)
               /\ QueueMoves(M, {}, {}, {})
               /\ \A c \in CellIds : InFlight(M, c) => InFlight(N, c)
               /\ \A c \in CellIds : M.state[c] = "running" /\ ~(j.current /\ j.cell = c) => InFlight(M, c)
<1> DEFINE M == [N EXCEPT !.jobs = LinesAt(@, DOMAIN @ \ {i})]
           j == N.jobs[i]
           at == DOMAIN N.jobs \ {i}
           kept == LinesAt(N.jobs, at)
<1>1. N.jobs \in Seq(Job)
  BY DEF Runtime
<1>2. /\ kept \in Seq(Job)
      /\ \A n \in DOMAIN kept : \E m \in at : kept[n] = N.jobs[m]
      /\ \A m \in at : \E n \in DOMAIN kept : kept[n] = N.jobs[m]
  <2>1. at \in SUBSET (DOMAIN N.jobs)
    OBVIOUS
  <2> HIDE DEF at
  <2> QED
    BY <1>1, <2>1, JobsLeft
<1> HIDE DEF kept
<1>3. /\ M \in Runtime /\ Alike(M, N) /\ M.spec = N.spec /\ M.allowed = N.allowed /\ M.jobs = kept
      /\ M.state = N.state /\ M.out = N.out /\ M.timers = N.timers /\ M.redo = N.redo
      /\ M.missed = N.missed /\ M.orphaned = N.orphaned
  BY <1>2 DEF Runtime, Alike, kept
<1> HIDE DEF M
<1>4. \A c \in CellIds : InFlight(M, c) => InFlight(N, c)
  BY <1>2, <1>3 DEF InFlight
<1>5. ASSUME NEW c \in CellIds, M.state[c] = "running", ~(j.current /\ j.cell = c)
      PROVE  InFlight(M, c)
  <2>1. InFlight(N, c)
    BY <1>3, <1>5 DEF Sound, RunningFly
  <2>2. PICK m \in DOMAIN N.jobs : N.jobs[m].cell = c /\ N.jobs[m].current
    BY <2>1 DEF InFlight
  <2>3. m \in at
    BY <1>5, <2>2
  <2> QED
    BY <1>2, <1>3, <2>2, <2>3 DEF InFlight
<1>6. PanesFit(M, {}, {})
  BY <1>3, AlikeGraphs, AlikeFits DEF Sound, PanesFit, Busy
<1>7. RunsFit(M, {})
  BY <1>2, <1>3, AlikeGraphs, AlikeFits DEF Sound, RunsFit
<1>8. CyclesRest(M, {})
  BY <1>3, <1>4, AlikeGraphs DEF Sound, CyclesRest
<1>9. AbsentRest(M) /\ QueueMoves(M, {}, {}, {})
  BY <1>3, AlikeGraphs DEF Sound, AbsentRest, QueueMoves, Alike
<1> QED
  BY <1>3, <1>4, <1>5, <1>6, <1>7, <1>8, <1>9 DEF M

\* What a return leaves: itself to be finished, and perhaps readers to be marked.
LEMMA ReturnedKeeps ==
    ASSUME NEW N \in Runtime, Sound(N, {}, {}, {}, {}), NEW i \in DOMAIN N.jobs, NEW ok \in BOOLEAN
    PROVE  LET M == [N EXCEPT !.jobs = LinesAt(@, DOMAIN @ \ {i})]
               c == N.jobs[i].cell
               left == Returned(M, N.jobs[i], ok)
           IN  /\ left.nb \in Runtime
               /\ \/ left.todo = <<>> /\ Sound(left.nb, {}, {}, {}, {})
                  \/ left.todo = <<Do("after", c)>> /\ Sound(left.nb, {}, {}, {c}, {})
                  \/ /\ left.todo = <<Do("mark", Importers(M, c))>> \o <<Do("after", c)>>
                     /\ Sound(left.nb, Importers(M, c), {}, {c}, {})
<1> DEFINE M == [N EXCEPT !.jobs = LinesAt(@, DOMAIN @ \ {i})]
           j == N.jobs[i]
           c == j.cell
           on == <<Do("after", c)>>
           Goal(left) ==
               /\ left.nb \in Runtime
               /\ \/ left.todo = <<>> /\ Sound(left.nb, {}, {}, {}, {})
                  \/ left.todo = on /\ Sound(left.nb, {}, {}, {c}, {})
                  \/ left.todo = <<Do("mark", Importers(M, c))>> \o on /\ Sound(left.nb, Importers(M, c), {}, {c}, {})
<1>0. SUFFICES Goal(Returned(M, j, ok))
  BY Zenon
<1>1. j \in Job /\ c \in CellIds /\ CardOf[c] \in Books
  <2>1. N.jobs \in Seq(Job)
    BY DEF Runtime
  <2>2. j \in Job
    BY <2>1
  <2> QED
    BY <2>2, CardsOfCells DEF Job
<1>2. /\ M \in Runtime /\ Alike(M, N) /\ M.allowed = N.allowed
      /\ M.state = N.state /\ M.out = N.out /\ M.timers = N.timers /\ M.redo = N.redo
      /\ M.missed = N.missed /\ M.orphaned = N.orphaned
      /\ PanesFit(M, {}, {}) /\ RunsFit(M, {}) /\ CyclesRest(M, {}) /\ AbsentRest(M)
      /\ QueueMoves(M, {}, {}, {})
      /\ \A d \in CellIds : InFlight(M, d) => InFlight(N, d)
      /\ \A d \in CellIds : M.state[d] = "running" /\ ~(j.current /\ j.cell = d) => InFlight(M, d)
  BY LosingAJob
<1> HIDE DEF M, j
<1>3. j = N.jobs[i]
  BY DEF j
<1>4. CASE CardOf[c] \notin M.open
  <2>1. Returned(M, j, ok) = Left(M, <<>>)
    BY <1>4 DEF Returned
  <2>2. M.state[c] # "running"
    BY <1>1, <1>2, <1>4 DEF AbsentRest
  <2>3. Sound(M, {}, {}, {}, {})
    BY <1>1, <1>2, <2>2 DEF Sound, RunningFly
  <2> QED
    BY <1>2, <2>1, <2>3 DEF Left
<1>5. CASE CardOf[c] \in M.open /\ ~j.current
  <2>1. Returned(M, j, ok) = Left(M, on)
    BY <1>5 DEF Returned
  <2>2. Sound(M, {}, {}, {}, {})
    BY <1>1, <1>2, <1>5 DEF Sound, RunningFly
  <2>3. Sound(M, {}, {}, {c}, {})
    BY <2>2, SoundIsMonotone
  <2> QED
    BY <1>2, <2>1, <2>3 DEF Left
<1>6. CASE CardOf[c] \in M.open /\ j.current
  <2> DEFINE pane == [status |-> IF ok THEN "ok" ELSE "error", running |-> FALSE, stale |-> FALSE,
                      made |-> IF ok THEN [src |-> j.src, ins |-> j.ins] ELSE Undef]
             H == [M EXCEPT !.state[c] = "idle", !.out[c] = pane]
  <2>1. Returned(M, j, ok) = IF ok THEN Publish(H, c, Eval(j.src, j.ins), on) ELSE Left(H, on)
    BY <1>6 DEF Returned
  <2>2. pane \in Pane /\ pane.status = (IF ok THEN "ok" ELSE "error")
        /\ (ok => pane.made = [src |-> j.src, ins |-> j.ins])
    BY <1>1 DEF Pane, Job
  <2>3. j.src \in Programs /\ j.ins \in Readings
    BY <1>1 DEF Job
  <2>4. Eval(j.src, j.ins) \in Values \cup {Undef}
    BY <2>3, CellsAssumption
  <2> HIDE DEF pane
  <2>5. /\ H \in Runtime /\ Alike(H, M) /\ H.spec = M.spec
        /\ H.jobs = M.jobs /\ H.timers = M.timers /\ H.redo = M.redo
        /\ H.missed = M.missed /\ H.orphaned = M.orphaned
        /\ H.state[c] = "idle" /\ H.out[c] = pane
        /\ \A d \in CellIds \ {c} : H.state[d] = M.state[d] /\ H.out[d] = M.out[d]
    <3>1. /\ M.state \in [CellIds -> {"idle", "queued", "running", "stale"}]
          /\ M.out \in [CellIds -> Pane]
      BY <1>2 DEF Runtime
    <3>2. H.state = [M.state EXCEPT ![c] = "idle"] /\ H.out = [M.out EXCEPT ![c] = pane]
      BY <1>2 DEF Runtime
    <3>3. /\ Alike(H, M) /\ H.spec = M.spec
          /\ H.jobs = M.jobs /\ H.timers = M.timers /\ H.redo = M.redo
          /\ H.missed = M.missed /\ H.orphaned = M.orphaned
      BY <1>2 DEF Runtime, Alike
    <3>4. H \in Runtime
      BY <1>1, <1>2, <2>2 DEF Runtime
    <3> HIDE DEF H
    <3> QED
      BY <1>1, <3>1, <3>2, <3>3, <3>4
  <2> HIDE DEF H
  <2>6. /\ Present(N, c)
        /\ Acyclic(N, c) => c \in N.redo \cup N.timers \cup N.missed \/ Fits(N, c, j)
    BY <1>3, <1>6 DEF Sound, RunsFit
  <2>7. /\ \A d : Present(H, d) <=> Present(N, d)
        /\ \A d : Acyclic(H, d) <=> Acyclic(N, d)
        /\ \A k : Cyclic(H, k) = Cyclic(N, k)
        /\ \A d, past : Fits(H, d, past) <=> Fits(N, d, past)
        /\ \A d : Present(M, d) <=> Present(N, d)
        /\ \A d : Acyclic(M, d) <=> Acyclic(N, d)
        /\ \A k : Cyclic(M, k) = Cyclic(N, k)
        /\ \A d, past : Fits(M, d, past) <=> Fits(N, d, past)
        /\ \A d : Importers(H, d) = Importers(M, d)
    <3>1. Alike(H, N) /\ Alike(M, N) /\ H.spec = N.spec /\ M.spec = N.spec
      BY <1>2, <2>5 DEF Alike
    <3> QED
      BY <3>1, <2>5, AlikeGraphs, AlikeFits
  <2>8. ASSUME ok, Fits(N, c, j) PROVE Fits(H, c, pane.made)
    BY <2>2, <2>7, <2>8 DEF Fits
  <2>9. PanesFit(H, {}, {c})
    <3> SUFFICES ASSUME NEW d \in CellIds,
                        Acyclic(H, d), H.out[d].status = "ok", ~Busy(H, d), ~H.out[d].stale,
                        d \notin H.timers \cup H.missed, ~(d \in H.redo /\ d = c)
                 PROVE  Fits(H, d, H.out[d].made)
      BY DEF PanesFit
    <3>1. CASE d = c
      <4>1. ok
        BY <2>2, <2>5, <3>1
      <4>2. Fits(N, c, j)
        BY <1>2, <2>5, <2>6, <2>7, <3>1
      <4> QED
        BY <2>5, <2>8, <3>1, <4>1, <4>2
    <3>2. CASE d # c
      <4>1. Fits(M, d, M.out[d].made)
        BY <1>2, <2>5, <2>7, <3>2 DEF PanesFit, Busy
      <4> QED
        BY <2>5, <2>7, <3>2, <4>1
    <3> QED
      BY <3>1, <3>2
  <2>10. RunsFit(H, {})
    BY <1>2, <2>5, <2>7 DEF RunsFit
  <2>11. CyclesRest(H, {})
    <3> SUFFICES ASSUME NEW d \in CellIds, d \in Cyclic(H, CardOf[d])
                 PROVE  /\ H.out[d].status # "ok" \/ d \in H.missed
                        /\ InFlight(H, d) => d \in H.missed
                        /\ H.state[d] # "queued"
      BY DEF CyclesRest
    <3>1. d \in Cyclic(M, CardOf[d]) /\ d \in Cyclic(N, CardOf[d]) /\ (InFlight(H, d) <=> InFlight(M, d))
      BY <2>5, <2>7 DEF InFlight
    <3>2. CASE d = c
      <4>1. InFlight(N, c)
        BY <1>3, <1>6 DEF InFlight
      <4>2. c \in N.missed
        BY <1>1, <3>1, <3>2, <4>1 DEF Sound, CyclesRest
      <4> QED
        BY <1>2, <2>5, <3>2, <4>2
    <3>3. CASE d # c
      BY <1>2, <2>5, <3>1, <3>3 DEF CyclesRest
    <3> QED
      BY <3>2, <3>3
  <2>12. AbsentRest(H)
    BY <1>2, <2>5, <2>6, <2>7 DEF AbsentRest, Alike
  <2>13. QueueMoves(H, {}, {c}, {})
    <3> SUFFICES ASSUME NEW d \in CellIds, H.state[d] = "queued", ~H.orphaned
                 PROVE  \E e \in Of(CardOf[d]) : H.state[e] = "running" \/ e \in {c}
      BY DEF QueueMoves
    <3>1. d # c
      BY <2>5
    <3>2. PICK e \in Of(CardOf[d]) : M.state[e] = "running"
      BY <1>2, <2>5, <3>1 DEF QueueMoves
    <3>3. e \in CellIds
      BY CardsOfCells
    <3> QED
      BY <2>5, <3>2, <3>3
  <2>14. RunningFly(H)
    BY <1>2, <2>5 DEF RunningFly, InFlight
  <2>15. Sound(H, {}, {}, {c}, {})
    BY <2>9, <2>10, <2>11, <2>12, <2>13, <2>14 DEF Sound
  <2>16. CASE ok
    <3> DEFINE v == Eval(j.src, j.ins)
               left == Publish(H, c, v, on)
    <3>1. Present(H, c)
      BY <2>6, <2>7
    <3> HIDE DEF v, on
    <3>2. v \in Values \cup {Undef}
      BY <2>4 DEF v
    <3>3. /\ left.nb \in Runtime
          /\ \/ left.todo = on /\ Sound(left.nb, {}, {}, {c}, {})
             \/ /\ left.todo = <<Do("mark", Importers(H, c))>> \o on
                /\ Sound(left.nb, {} \cup Importers(H, c), {}, {c}, {})
      BY <1>1, <2>5, <2>15, <3>1, <3>2, PublishKeeps
    <3>4. {} \cup Importers(H, c) = Importers(M, c)
      BY <2>7
    <3>5. Returned(M, j, ok) = left
      BY <2>1, <2>16 DEF v
    <3> HIDE DEF left
    <3>6. /\ left.nb \in Runtime
          /\ \/ left.todo = on /\ Sound(left.nb, {}, {}, {c}, {})
             \/ left.todo = <<Do("mark", Importers(M, c))>> \o on /\ Sound(left.nb, Importers(M, c), {}, {c}, {})
      <4>1. Importers(H, c) = Importers(M, c)
        BY <2>7
      <4> QED
        BY <3>3, <3>4, <4>1
    <3> QED
      BY <3>5, <3>6
  <2>17. CASE ~ok
    <3>1. Returned(M, j, ok) = Left(H, on)
      BY <2>1, <2>17
    <3> QED
      BY <2>5, <2>15, <3>1 DEF Left
  <2> QED
    BY <2>16, <2>17
<1> QED
  BY <1>4, <1>5, <1>6

\* A reply, current or superseded, of an open card or a closed one.
LEMMA ReplyKeeps ==
    ASSUME CellsInv, NEW i \in DOMAIN nb.jobs, NEW ok \in BOOLEAN, Reply(i, ok)
    PROVE  CellsInv'
<1> DEFINE M == [nb EXCEPT !.jobs = LinesAt(@, DOMAIN @ \ {i})]
           c == nb.jobs[i].cell
           back == Returned(M, nb.jobs[i], ok)
           on == <<Do("after", c)>>
           X == Importers(M, c)
           all == <<Do("mark", X)>> \o on
<1>1. /\ back.nb \in Runtime
      /\ \/ back.todo = <<>> /\ Sound(back.nb, {}, {}, {}, {})
         \/ back.todo = on /\ Sound(back.nb, {}, {}, {c}, {})
         \/ back.todo = all /\ Sound(back.nb, X, {}, {c}, {})
  BY ReturnedKeeps, SoundAlone
<1>2. Turn(back.nb, back.todo)
  BY DEF Reply
<1>3. c \in CellIds
  <2>1. nb.jobs \in Seq(Job)
    BY SoundAlone DEF Runtime
  <2>2. nb.jobs[i] \in Job
    BY <2>1
  <2> QED
    BY <2>2 DEF Job
<1>4. X \in SUBSET CellIds
  BY ImportersAreCells
<1> HIDE DEF back, X, c
<1>5. /\ on \in Seq(PageCalls)
      /\ ToMark(Range(on)) = {} /\ ToRelink(Range(on)) = {} /\ ToReturn(Range(on)) = {c} /\ ToTick(Range(on)) = {}
  <2>1. Range(on) = {Do("after", c)} \cup {}
    BY DEF Range
  <2>2. Do("after", c) \in PageCalls
    BY <1>3, CallsAre
  <2>3. LET C == {Do("after", c)} \cup {} IN
        /\ ToMark(C) = ToMark({}) /\ ToRelink(C) = ToRelink({})
        /\ ToReturn(C) = ToReturn({}) \cup {c} /\ ToTick(C) = ToTick({})
    BY <1>3, AfterAdds
  <2>4. {} \cup {c} = {c}
    OBVIOUS
  <2> QED
    BY <2>1, <2>2, <2>3, <2>4, NothingOwed
<1> HIDE DEF on
<1>6. /\ all \in Seq(PageCalls)
      /\ ToMark(Range(all)) = X /\ ToRelink(Range(all)) = {} /\ ToReturn(Range(all)) = {c}
      /\ ToTick(Range(all)) = {}
  <2>1. LET C == Range(all)
            D == Range(on)
        IN  /\ all \in Seq(PageCalls)
            /\ ToMark(C) = ToMark(D) \cup X /\ ToRelink(C) = ToRelink(D) /\ ToReturn(C) = ToReturn(D)
            /\ ToTick(C) = ToTick(D)
    BY <1>4, <1>5, MarkFirst
  <2>2. {} \cup X = X
    OBVIOUS
  <2> QED
    BY <1>5, <2>1, <2>2
<1> HIDE DEF all
<1>7. SoundTurn(Left(back.nb, back.todo))
  <2> DEFINE left == Left(back.nb, back.todo)
  <2>1. left.nb = back.nb /\ left.todo = back.todo
    BY DEF Left
  <2>2. <<>> \in Seq(PageCalls) /\ Range(<<>>) = {}
    BY DEF Range
  <2> HIDE DEF left
  <2>3. ASSUME back.todo = <<>>, Sound(back.nb, {}, {}, {}, {}) PROVE SoundTurn(left)
    BY <1>1, <2>1, <2>2, <2>3, NothingOwed DEF SoundTurn
  <2>4. ASSUME back.todo = on, Sound(back.nb, {}, {}, {c}, {}) PROVE SoundTurn(left)
    BY <1>1, <1>5, <2>1, <2>4 DEF SoundTurn
  <2>5. ASSUME back.todo = all, Sound(back.nb, X, {}, {c}, {}) PROVE SoundTurn(left)
    BY <1>1, <1>6, <2>1, <2>5 DEF SoundTurn
  <2>6. SoundTurn(left)
    BY <1>1, <2>3, <2>4, <2>5
  <2> QED
    BY <2>6 DEF left
<1> QED
  BY <1>2, <1>7, TurnKeeps

\* The worker's crash: its cells fail, the cells of the page run on.
LEMMA WorkerCrashesKeeps == ASSUME CellsInv, WorkerCrashes PROVE CellsInv'
<1> DEFINE N == nb
           hit == {N.jobs[i].cell : i \in {n \in DOMAIN N.jobs : ~N.jobs[n].main}}
           at == {i \in DOMAIN N.jobs : N.jobs[i].main}
           kept == LinesAt(N.jobs, at)
           M == [N EXCEPT !.jobs = kept,
                          !.state = [c \in CellIds |-> IF c \in hit THEN "idle" ELSE @[c]],
                          !.out = [c \in CellIds |-> IF c \in hit THEN [@[c] EXCEPT !.running = FALSE, !.status = "error"]
                                                     ELSE @[c]],
                          !.orphaned = TRUE]
<1>1. N \in Runtime /\ Sound(N, {}, {}, {}, {}) /\ N.jobs \in Seq(Job)
  BY SoundAlone DEF Runtime
<1>2. nb' = M
  BY DEF WorkerCrashes
<1>3. /\ kept \in Seq(Job)
      /\ \A n \in DOMAIN kept : \E m \in at : kept[n] = N.jobs[m]
      /\ \A m \in at : \E n \in DOMAIN kept : kept[n] = N.jobs[m]
  <2>1. at \in SUBSET (DOMAIN N.jobs)
    OBVIOUS
  <2> HIDE DEF at
  <2> QED
    BY <1>1, <2>1, JobsLeft
<1> HIDE DEF kept, N
<1>4. /\ M \in Runtime /\ Alike(M, N) /\ M.spec = N.spec /\ M.jobs = kept
      /\ M.timers = N.timers /\ M.redo = N.redo /\ M.missed = N.missed /\ M.orphaned
      /\ \A c \in CellIds \ hit : M.state[c] = N.state[c] /\ M.out[c] = N.out[c]
      /\ \A c \in CellIds \cap hit : M.state[c] = "idle" /\ M.out[c].status = "error"
  <2>1. /\ N.state \in [CellIds -> {"idle", "queued", "running", "stale"}] /\ N.out \in [CellIds -> Pane]
    BY <1>1 DEF Runtime
  <2> DEFINE state == [c \in CellIds |-> IF c \in hit THEN "idle" ELSE N.state[c]]
             fail(p) == [p EXCEPT !.running = FALSE, !.status = "error"]
             out == [c \in CellIds |-> IF c \in hit THEN fail(N.out[c]) ELSE N.out[c]]
  <2>2. \A p \in Pane : fail(p) \in Pane /\ fail(p).status = "error"
    BY DEF Pane
  <2>3. /\ Alike(M, N) /\ M.spec = N.spec /\ M.jobs = kept /\ M.allowed = N.allowed
        /\ M.timers = N.timers /\ M.redo = N.redo /\ M.missed = N.missed /\ M.orphaned
        /\ M.state = state /\ M.out = out
    BY <1>1 DEF Runtime, Alike
  <2> HIDE DEF fail, hit
  <2>4. state \in [CellIds -> {"idle", "queued", "running", "stale"}] /\ out \in [CellIds -> Pane]
    BY <2>1, <2>2
  <2>5. M \in Runtime
    <3> HIDE DEF state, out
    <3>1. M = [N EXCEPT !.jobs = kept, !.state = state, !.out = out, !.orphaned = TRUE]
      BY DEF M, state, out, fail, hit
    <3> HIDE DEF M
    <3> QED
      BY <1>1, <1>3, <2>4, <3>1 DEF Runtime
  <2> HIDE DEF M
  <2> QED
    BY <2>1, <2>2, <2>3, <2>5
<1> HIDE DEF M
<1>5. \A n \in DOMAIN N.jobs : ~N.jobs[n].main => N.jobs[n].cell \in hit
  OBVIOUS
<1>6. \A c \in CellIds : InFlight(M, c) => InFlight(N, c)
  BY <1>3, <1>4 DEF InFlight
<1> HIDE DEF hit
<1>7. PanesFit(M, {}, {})
  BY <1>1, <1>4, AlikeGraphs, AlikeFits DEF Sound, PanesFit, Busy
<1>8. RunsFit(M, {})
  BY <1>1, <1>3, <1>4, AlikeGraphs, AlikeFits DEF Sound, RunsFit
<1>9. CyclesRest(M, {})
  BY <1>1, <1>4, <1>6, AlikeGraphs DEF Sound, CyclesRest
<1>10. AbsentRest(M) /\ QueueMoves(M, {}, {}, {})
  BY <1>1, <1>4, AlikeGraphs DEF Sound, AbsentRest, QueueMoves, Alike
<1>11. RunningFly(M)
  <2> SUFFICES ASSUME NEW c \in CellIds, M.state[c] = "running" PROVE InFlight(M, c)
    BY DEF RunningFly
  <2>1. c \notin hit /\ InFlight(N, c)
    BY <1>1, <1>4 DEF Sound, RunningFly
  <2>2. PICK m \in DOMAIN N.jobs : N.jobs[m].cell = c /\ N.jobs[m].current
    BY <2>1 DEF InFlight
  <2>3. m \in at
    BY <1>5, <2>1, <2>2
  <2> QED
    BY <1>3, <1>4, <2>2, <2>3 DEF InFlight
<1>12. nb' \in Runtime /\ Sound(nb', {}, {}, {}, {})
  BY <1>2, <1>4, <1>7, <1>8, <1>9, <1>10, <1>11 DEF Sound
<1> QED
  BY <1>12, SoundNext

\* A card closes: its cells go, and what others had read of it is kept.
LEMMA TeardownKeeps == ASSUME CellsInv, NEW k \in Books, Teardown(k) PROVE CellsInv'
<1> DEFINE N == nb
           mine == Of(k)
           at == {i \in DOMAIN N.jobs : CardOf[N.jobs[i].cell] # k \/ N.jobs[i].main}
           left == LinesAt(N.jobs, at)
           kept == Superseded(left, mine)
           M == [N EXCEPT !.open = @ \ {k}, !.allowed = @ \ {k}, !.timers = @ \ mine, !.redo = @ \ mine,
                        !.missed = @ \ mine,
                        !.spec = [c \in CellIds |-> IF c \in mine THEN NoSpec ELSE @[c]],
                        !.state = [c \in CellIds |-> IF c \in mine THEN "idle" ELSE @[c]],
                        !.out = [c \in CellIds |-> IF c \in mine THEN NoPane ELSE @[c]],
                        !.exports = [c \in CellIds |-> IF c \in mine THEN Undef ELSE @[c]],
                        !.jobs = kept]
<1>1. N \in Runtime /\ Sound(N, {}, {}, {}, {}) /\ N.jobs \in Seq(Job)
  BY SoundAlone DEF Runtime
<1>2. nb' = M
  BY DEF Teardown
<1>3. /\ left \in Seq(Job)
      /\ \A n \in DOMAIN left : \E m \in at : left[n] = N.jobs[m]
      /\ \A m \in at : \E n \in DOMAIN left : left[n] = N.jobs[m]
  <2>1. at \in SUBSET (DOMAIN N.jobs)
    OBVIOUS
  <2> HIDE DEF at
  <2> QED
    BY <1>1, <2>1, JobsLeft
<1> HIDE DEF left
<1>4. /\ kept \in Seq(Job)
      /\ DOMAIN kept = DOMAIN left
      /\ \A i \in DOMAIN left :
            /\ kept[i].cell = left[i].cell /\ kept[i].src = left[i].src /\ kept[i].ins = left[i].ins
            /\ kept[i].current <=> (left[i].current /\ left[i].cell \notin mine)
  <2> HIDE DEF kept
  <2>1. /\ kept \in Seq(Job) /\ Len(kept) = Len(left)
        /\ \A i \in 1..Len(left) :
              /\ kept[i].cell = left[i].cell /\ kept[i].src = left[i].src /\ kept[i].ins = left[i].ins
              /\ kept[i].current <=> (left[i].current /\ left[i].cell \notin mine)
    BY <1>3, SupersededIs DEF kept
  <2>2. DOMAIN kept = 1..Len(kept) /\ DOMAIN left = 1..Len(left)
    BY <1>3, <2>1
  <2> QED
    BY <2>1, <2>2
<1> HIDE DEF kept, N
<1>5. /\ M \in Runtime /\ M.jobs = kept /\ M.open = N.open \ {k} /\ M.content = N.content
      /\ M.timers = N.timers \ mine /\ M.redo = N.redo \ mine /\ M.missed = N.missed \ mine
      /\ M.orphaned = N.orphaned
      /\ \A c \in CellIds \ mine : /\ M.state[c] = N.state[c] /\ M.out[c] = N.out[c]
                                   /\ M.spec[c] = N.spec[c] /\ M.exports[c] = N.exports[c]
      /\ \A c \in mine : M.state[c] = "idle" /\ M.spec[c] = NoSpec /\ M.exports[c] = Undef
  <2>1. mine \subseteq CellIds
    BY CardsOfCells
  <2>2. /\ N.state \in [CellIds -> {"idle", "queued", "running", "stale"}] /\ N.out \in [CellIds -> Pane]
        /\ N.spec \in [CellIds -> Specs \cup {NoSpec}] /\ N.exports \in [CellIds -> Values \cup {Undef}]
    BY <1>1 DEF Runtime
  <2>3. NoPane \in Pane
    BY DEF NoPane, Pane
  <2> DEFINE spec == [c \in CellIds |-> IF c \in mine THEN NoSpec ELSE N.spec[c]]
             state == [c \in CellIds |-> IF c \in mine THEN "idle" ELSE N.state[c]]
             out == [c \in CellIds |-> IF c \in mine THEN NoPane ELSE N.out[c]]
             exports == [c \in CellIds |-> IF c \in mine THEN Undef ELSE N.exports[c]]
  <2>4. /\ spec \in [CellIds -> Specs \cup {NoSpec}] /\ out \in [CellIds -> Pane]
        /\ state \in [CellIds -> {"idle", "queued", "running", "stale"}]
        /\ exports \in [CellIds -> Values \cup {Undef}]
    <3> HIDE DEF mine
    <3>1. spec \in [CellIds -> Specs \cup {NoSpec}]
      BY <2>2
    <3>2. out \in [CellIds -> Pane]
      BY <2>2, <2>3
    <3>3. state \in [CellIds -> {"idle", "queued", "running", "stale"}]
      BY <2>2
    <3>4. exports \in [CellIds -> Values \cup {Undef}]
      BY <2>2
    <3> QED
      BY <3>1, <3>2, <3>3, <3>4
  <2>5. /\ M.jobs = kept /\ M.open = N.open \ {k} /\ M.content = N.content /\ M.allowed = N.allowed \ {k}
        /\ M.timers = N.timers \ mine /\ M.redo = N.redo \ mine /\ M.missed = N.missed \ mine
        /\ M.orphaned = N.orphaned
        /\ M.spec = spec /\ M.state = state /\ M.out = out /\ M.exports = exports
    BY <1>1 DEF Runtime
  <2>6. M \in Runtime
    <3> HIDE DEF spec, state, out, exports, mine
    <3>1. M = [N EXCEPT !.open = @ \ {k}, !.allowed = @ \ {k}, !.timers = @ \ mine, !.redo = @ \ mine,
                        !.missed = @ \ mine, !.spec = spec, !.state = state, !.out = out, !.exports = exports,
                        !.jobs = kept]
      BY DEF M, spec, state, out, exports, mine
    <3> HIDE DEF M
    <3> QED
      BY <1>1, <1>4, <2>4, <3>1 DEF Runtime
  <2> HIDE DEF M
  <2> QED
    BY <2>1, <2>2, <2>5, <2>6
<1> HIDE DEF M
<1>6. \A c \in CellIds : c \in mine <=> CardOf[c] = k
  BY DEF Of
<1>7. \A c \in CellIds \ mine : (Present(M, c) <=> Present(N, c))
  BY <1>5 DEF Present
<1>8. \A c \in mine : ~Present(M, c)
  BY <1>5 DEF Present
<1>9. ASSUME NEW c \in CellIds \ mine PROVE Cyclic(M, CardOf[c]) = Cyclic(N, CardOf[c])
  <2>1. \A d \in Of(CardOf[c]) : M.spec[d] = N.spec[d]
    BY <1>5, <1>6, CardsOfCells
  <2> QED
    BY <2>1, SameCycles
<1>10. \A c \in CellIds : Acyclic(M, c) => c \notin mine /\ Acyclic(N, c)
  BY <1>7, <1>8, <1>9 DEF Acyclic
<1>11. ASSUME NEW c \in CellIds \ mine, NEW past, Present(N, c), Fits(N, c, past) PROVE Fits(M, c, past)
  <2>1. ASSUME NEW x \in N.spec[c].reads \ {c}, x \in Files \/ CardOf[x] \in M.open
        PROVE  (x \in Files \/ CardOf[x] \in N.open) /\ Input(M, x) = Input(N, x)
    <3>1. CASE x \in Files
      BY <1>5, <3>1 DEF Input
    <3>2. CASE x \notin Files
      <4>1. x \in CellIds
        <5>1. N.spec[c] \in Specs
          BY <1>1, <1>11 DEF Runtime, Present
        <5> QED
          BY <3>2, <5>1, CellsAssumption
      <4>2. x \notin mine /\ CardOf[x] \in N.open
        BY <1>5, <1>6, <2>1, <3>2, <4>1
      <4> QED
        BY <1>5, <1>7, <2>1, <3>2, <4>1, <4>2 DEF Input
    <3> QED
      BY <3>1, <3>2
  <2>2. M.spec[c] = N.spec[c]
    BY <1>5
  <2> QED
    BY <1>11, <2>1, <2>2, StillFits
<1> HIDE DEF mine
<1>12. ASSUME NEW c \in CellIds, InFlight(M, c) PROVE c \notin mine /\ InFlight(N, c)
  <2>1. PICK i \in DOMAIN left : left[i].cell = c /\ left[i].current /\ c \notin mine
    BY <1>4, <1>5, <1>12 DEF InFlight
  <2>2. PICK m \in at : left[i] = N.jobs[m]
    BY <1>3
  <2> QED
    BY <2>1, <2>2 DEF InFlight
<1>13. PanesFit(M, {}, {})
  BY <1>1, <1>5, <1>10, <1>11 DEF Sound, PanesFit, Busy, Acyclic
<1>14. RunsFit(M, {})
  <2> SUFFICES ASSUME NEW i \in DOMAIN M.jobs, M.jobs[i].current
               PROVE  LET c == M.jobs[i].cell IN
                      /\ Present(M, c)
                      /\ Acyclic(M, c) => c \in M.redo \cup M.timers \cup M.missed \/ Fits(M, c, M.jobs[i])
    BY DEF RunsFit
  <2>1. PICK m \in at : left[i] = N.jobs[m]
    BY <1>3, <1>4, <1>5
  <2> DEFINE j == N.jobs[m]
  <2>2. /\ M.jobs[i].cell = j.cell /\ M.jobs[i].src = j.src /\ M.jobs[i].ins = j.ins
        /\ j.current /\ j.cell \notin mine
    BY <1>4, <1>5, <2>1
  <2>3. j.cell \in CellIds
    <3>1. j \in Job
      BY <1>1
    <3> QED
      BY <3>1 DEF Job
  <2>4. /\ Present(N, j.cell)
        /\ Acyclic(N, j.cell) => j.cell \in N.redo \cup N.timers \cup N.missed \/ Fits(N, j.cell, j)
    BY <1>1, <2>2 DEF Sound, RunsFit
  <2>5. Fits(M, j.cell, j) => Fits(M, j.cell, M.jobs[i])
    BY <2>2 DEF Fits
  <2> HIDE DEF j
  <2> QED
    BY <1>5, <1>7, <1>10, <1>11, <2>2, <2>3, <2>4, <2>5
<1>15. CyclesRest(M, {})
  <2> SUFFICES ASSUME NEW c \in CellIds, c \in Cyclic(M, CardOf[c])
               PROVE  /\ M.out[c].status # "ok" \/ c \in M.missed
                      /\ InFlight(M, c) => c \in M.missed
                      /\ M.state[c] # "queued"
    BY DEF CyclesRest
  <2>1. c \notin mine
    BY <1>8, CyclicArePresent
  <2>2. c \in Cyclic(N, CardOf[c])
    BY <1>9, <2>1
  <2> QED
    BY <1>1, <1>5, <1>12, <2>1, <2>2 DEF Sound, CyclesRest
<1>16. AbsentRest(M)
  BY <1>1, <1>5, <1>6, <1>7, <1>8 DEF Sound, AbsentRest
<1>17. QueueMoves(M, {}, {}, {})
  <2> SUFFICES ASSUME NEW c \in CellIds, M.state[c] = "queued", ~M.orphaned
               PROVE  \E d \in Of(CardOf[c]) : M.state[d] = "running"
    BY DEF QueueMoves
  <2>1. c \notin mine /\ N.state[c] = "queued"
    BY <1>5
  <2>2. PICK d \in Of(CardOf[c]) : N.state[d] = "running"
    BY <1>1, <1>5, <2>1 DEF Sound, QueueMoves
  <2>3. d \in CellIds \ mine
    BY <1>6, <2>1, CardsOfCells
  <2> QED
    BY <1>5, <2>2, <2>3
<1>18. RunningFly(M)
  <2> SUFFICES ASSUME NEW c \in CellIds, M.state[c] = "running" PROVE InFlight(M, c)
    BY DEF RunningFly
  <2>1. c \notin mine /\ InFlight(N, c)
    BY <1>1, <1>5 DEF Sound, RunningFly
  <2>2. PICK m \in DOMAIN N.jobs : N.jobs[m].cell = c /\ N.jobs[m].current
    BY <2>1 DEF InFlight
  <2>3. m \in at
    BY <1>6, <2>1, <2>2
  <2>4. PICK n \in DOMAIN left : left[n] = N.jobs[m]
    BY <1>3, <2>3
  <2> QED
    BY <1>4, <1>5, <2>1, <2>2, <2>4 DEF InFlight
<1>19. nb' \in Runtime /\ Sound(nb', {}, {}, {}, {})
  BY <1>2, <1>5, <1>13, <1>14, <1>15, <1>16, <1>17, <1>18 DEF Sound
<1> QED
  BY <1>19, SoundNext

\* A card's new text: what had a value and is not concerned still reads what it read.
LEMMA ParsedIsSound ==
    ASSUME NEW N \in Runtime, Sound(N, {}, {}, {}, {}), NEW k \in Books, NEW book \in Texts[k]
    PROVE  LET M == Parsed(N, k, book)
               r == Dirtied(N, M, k)
               dropped == {c \in Of(k) : ~Present(M, c) /\ N.exports[c] # Undef}
               lost == UNION {Importers(M, c) : c \in dropped}
           IN  M \in Runtime /\ Sound(M, lost \cup (r.changed \cup r.waiting), {k}, {}, {})
<1> DEFINE M == Parsed(N, k, book)
           r == Dirtied(N, M, k)
           mine == Of(k)
           removed == {c \in Of(k) : Present(N, c) /\ book.spec[c] = NoSpec}
           dropped == {c \in Of(k) : ~Present(M, c) /\ N.exports[c] # Undef}
           lost == UNION {Importers(M, c) : c \in dropped}
           P == lost \cup (r.changed \cup r.waiting)
           kept == Superseded(N.jobs, removed)
<1>1. N.jobs \in Seq(Job)
  BY DEF Runtime
<1>2. /\ kept \in Seq(Job)
      /\ DOMAIN kept = DOMAIN N.jobs
      /\ \A i \in DOMAIN N.jobs :
            /\ kept[i].cell = N.jobs[i].cell /\ kept[i].src = N.jobs[i].src /\ kept[i].ins = N.jobs[i].ins
            /\ kept[i].current <=> (N.jobs[i].current /\ N.jobs[i].cell \notin removed)
  <2> HIDE DEF kept, removed
  <2>1. /\ kept \in Seq(Job) /\ Len(kept) = Len(N.jobs)
        /\ \A i \in 1..Len(N.jobs) :
              /\ kept[i].cell = N.jobs[i].cell /\ kept[i].src = N.jobs[i].src /\ kept[i].ins = N.jobs[i].ins
              /\ kept[i].current <=> (N.jobs[i].current /\ N.jobs[i].cell \notin removed)
    BY <1>1, SupersededIs DEF kept
  <2>2. DOMAIN kept = 1..Len(kept) /\ DOMAIN N.jobs = 1..Len(N.jobs)
    BY <1>1, <2>1
  <2> QED
    BY <2>1, <2>2
<1> HIDE DEF kept
<1>3. mine \subseteq CellIds /\ \A c \in CellIds : c \in mine <=> CardOf[c] = k
  BY DEF Of
<1>4. \A c \in mine : book.spec[c] \in Specs \cup {NoSpec}
  BY DEF Specs
<1>5. /\ M \in Runtime /\ M.jobs = kept /\ M.open = N.open \cup {k} /\ M.content = N.content
      /\ M.timers = N.timers \ removed /\ M.redo = N.redo /\ M.missed = N.missed /\ M.orphaned = N.orphaned
      /\ \A c \in mine : M.spec[c] = book.spec[c]
      /\ \A c \in CellIds \ mine : M.spec[c] = N.spec[c]
      /\ \A c \in CellIds \ removed : /\ M.state[c] = N.state[c] /\ M.out[c] = N.out[c]
                                   /\ M.exports[c] = N.exports[c]
      /\ \A c \in removed : M.state[c] = "idle" /\ M.exports[c] = Undef
  <2>1. removed \subseteq CellIds
    BY <1>3
  <2>2. /\ N.state \in [CellIds -> {"idle", "queued", "running", "stale"}] /\ N.out \in [CellIds -> Pane]
        /\ N.spec \in [CellIds -> Specs \cup {NoSpec}] /\ N.exports \in [CellIds -> Values \cup {Undef}]
    BY DEF Runtime
  <2>3. NoPane \in Pane
    BY DEF NoPane, Pane
  <2> DEFINE spec == [c \in CellIds |-> IF c \in mine THEN book.spec[c] ELSE N.spec[c]]
             state == [c \in CellIds |-> IF c \in removed THEN "idle" ELSE N.state[c]]
             out == [c \in CellIds |-> IF c \in removed THEN NoPane ELSE N.out[c]]
             exports == [c \in CellIds |-> IF c \in removed THEN Undef ELSE N.exports[c]]
             allowed == IF book.allow THEN N.allowed \cup {k} ELSE N.allowed \ {k}
  <2>4. /\ spec \in [CellIds -> Specs \cup {NoSpec}] /\ out \in [CellIds -> Pane]
        /\ state \in [CellIds -> {"idle", "queued", "running", "stale"}]
        /\ exports \in [CellIds -> Values \cup {Undef}]
        /\ allowed \in SUBSET Books
    <3>0. N.allowed \in SUBSET Books
      BY DEF Runtime
    <3> HIDE DEF mine, removed
    <3>1. spec \in [CellIds -> Specs \cup {NoSpec}]
      BY <1>4, <2>2
    <3>2. out \in [CellIds -> Pane]
      BY <2>2, <2>3
    <3>3. state \in [CellIds -> {"idle", "queued", "running", "stale"}]
      BY <2>2
    <3>4. exports \in [CellIds -> Values \cup {Undef}]
      BY <2>2
    <3> QED
      BY <3>0, <3>1, <3>2, <3>3, <3>4
  <2>5. M = [N EXCEPT !.open = @ \cup {k}, !.allowed = allowed, !.spec = spec, !.timers = @ \ removed,
                      !.state = state, !.out = out, !.exports = exports, !.jobs = kept]
    BY DEF Parsed, kept
  <2> HIDE DEF spec, state, out, exports, allowed, mine, removed, M
  <2>6. M \in Runtime
    BY <1>2, <2>4, <2>5 DEF Runtime
  <2>7. /\ M.jobs = kept /\ M.open = N.open \cup {k} /\ M.content = N.content
        /\ M.timers = N.timers \ removed /\ M.redo = N.redo /\ M.missed = N.missed /\ M.orphaned = N.orphaned
        /\ M.spec = spec /\ M.state = state /\ M.out = out /\ M.exports = exports
    BY <2>5 DEF Runtime
  <2> QED
    BY <1>3, <2>1, <2>6, <2>7 DEF spec, state, out, exports
<1> HIDE DEF M
<1>6. /\ \A c \in mine : Present(M, c) /\ (N.spec[c] # M.spec[c] \/ Deps(N, c) # Deps(M, c)) => c \in P
      /\ k \notin N.open => \A x \in mine : \A c \in Importers(M, x) : c \notin mine => c \in P
      /\ \A x \in dropped : Importers(M, x) \subseteq P
  <2>1. /\ r.changed = {c \in mine : Present(M, c) /\ (N.spec[c] # M.spec[c] \/ Deps(N, c) # Deps(M, c))}
        /\ r.waiting = IF k \in N.open THEN {} ELSE (UNION {Importers(M, c) : c \in mine}) \ mine
    BY DEF Dirtied
  <2> HIDE DEF r, dropped, mine
  <2>2. \A x \in dropped : Importers(M, x) \subseteq lost
    OBVIOUS
  <2> HIDE DEF lost
  <2>3. lost \subseteq P /\ r.changed \subseteq P /\ r.waiting \subseteq P
    OBVIOUS
  <2> HIDE DEF P
  <2>4. \A c \in mine : Present(M, c) /\ (N.spec[c] # M.spec[c] \/ Deps(N, c) # Deps(M, c)) => c \in P
    BY <2>1, <2>3
  <2>5. ASSUME k \notin N.open, NEW x \in mine, NEW c \in Importers(M, x), c \notin mine PROVE c \in P
    <3>1. c \in IF k \in N.open THEN {} ELSE (UNION {Importers(M, d) : d \in mine}) \ mine
      BY <2>5
    <3>2. c \in r.waiting
      BY <2>1, <3>1, Zenon
    <3> QED
      BY <2>3, <3>2
  <2>6. \A x \in dropped : Importers(M, x) \subseteq P
    BY <2>2, <2>3
  <2> QED
    BY <2>4, <2>5, <2>6
<1>7. \A c \in CellIds \ mine : Present(M, c) <=> Present(N, c)
  BY <1>5 DEF Present
<1>8. \A c \in mine : /\ c \in removed <=> Present(N, c) /\ ~Present(M, c)
  BY <1>5 DEF Present
<1>9. ASSUME NEW c \in CellIds \ mine PROVE Cyclic(M, CardOf[c]) = Cyclic(N, CardOf[c])
  <2>1. \A d \in Of(CardOf[c]) : M.spec[d] = N.spec[d]
    BY <1>3, <1>5, CardsOfCells
  <2> QED
    BY <2>1, SameCycles
<1>10. AbsentRest(N)
  BY DEF Sound
<1> HIDE DEF P, removed, r, lost
<1>11. ASSUME NEW c \in mine, Present(M, c), c \notin P
       PROVE  M.spec[c] = N.spec[c] /\ Deps(M, c) = Deps(N, c) /\ k \in N.open /\ Present(N, c)
  <2>1. M.spec[c] = N.spec[c] /\ Deps(M, c) = Deps(N, c)
    BY <1>6, <1>11
  <2>2. Present(N, c)
    BY <1>11, <2>1 DEF Present
  <2> QED
    BY <1>3, <1>10, <2>1, <2>2 DEF AbsentRest
<1>12. ASSUME NEW c \in CellIds, NEW past, Present(M, c), c \notin P, Fits(N, c, past)
       PROVE  Fits(M, c, past)
  <2>1. M.spec[c] = N.spec[c]
    BY <1>5, <1>11, <1>12
  <2>2. N.spec[c] \in Specs
    BY <1>12, <2>1 DEF Runtime, Present
  <2>3. ASSUME NEW x \in N.spec[c].reads \ {c}, x \in Files \/ CardOf[x] \in M.open
        PROVE  (x \in Files \/ CardOf[x] \in N.open) /\ Input(M, x) = Input(N, x)
    <3>1. CASE x \in Files
      BY <1>5, <3>1 DEF Input
    <3>2. CASE x \notin Files /\ x \notin mine
      <4>1. x \in CellIds
        BY <2>2, <3>2, CellsAssumption
      <4>2. CardOf[x] \in N.open /\ (Present(M, x) <=> Present(N, x))
        BY <1>3, <1>5, <1>7, <2>3, <3>2, <4>1
      <4>3. x \notin removed
        BY <3>2 DEF removed
      <4> QED
        BY <1>5, <2>3, <3>2, <4>1, <4>2, <4>3 DEF Input
    <3>3. CASE x \notin Files /\ x \in mine /\ c \in mine
      <4>1. k \in N.open /\ Deps(M, c) = Deps(N, c)
        BY <1>11, <1>12, <3>3
      <4>2. x \in Of(CardOf[c]) /\ x # c
        BY <1>3, <2>3, <3>3
      <4>3. Present(M, x) <=> Present(N, x)
        BY <2>1, <2>3, <4>1, <4>2 DEF Deps
      <4>4. CardOf[x] = k /\ x \in CellIds /\ x \notin removed
        BY <1>3, <1>8, <3>3, <4>3
      <4> QED
        BY <1>5, <3>3, <4>1, <4>3, <4>4 DEF Input
    <3>4. CASE x \notin Files /\ x \in mine /\ c \notin mine
      <4>1. c \in Importers(M, x) /\ x \in CellIds /\ CardOf[x] = k
        BY <1>3, <1>12, <2>1, <2>3, <3>4 DEF Importers
      <4>2. k \in N.open
        BY <1>6, <1>12, <3>4, <4>1
      <4>3. x \notin dropped
        BY <1>6, <1>12, <4>1
      <4>4. CASE Present(M, x)
        <5>1. x \notin removed
          BY <1>8, <3>4, <4>4
        <5>2. M.exports[x] = N.exports[x] /\ Input(M, x) = N.exports[x]
          BY <1>5, <3>4, <4>1, <4>4, <5>1 DEF Input
        <5>3. Input(N, x) = N.exports[x]
          BY <1>10, <3>4, <4>1, <4>2 DEF Input, AbsentRest
        <5> QED
          BY <4>1, <4>2, <5>2, <5>3
      <4>5. CASE ~Present(M, x)
        <5>1. N.exports[x] = Undef
          BY <3>4, <4>3, <4>5
        <5>2. Input(N, x) = Undef /\ Input(M, x) = Undef
          BY <3>4, <4>5, <5>1 DEF Input
        <5> QED
          BY <4>1, <4>2, <5>2
      <4> QED
        BY <4>4, <4>5
    <3> QED
      BY <3>1, <3>2, <3>3, <3>4
  <2> QED
    BY <1>12, <2>1, <2>3, StillFits
<1>13. ASSUME NEW c \in CellIds, Acyclic(M, c), c \notin P
       PROVE  /\ Present(M, c) /\ Present(N, c) /\ c \notin removed
              /\ Acyclic(N, c) \/ (c \in Cyclic(N, CardOf[c]))
  <2>1. Present(M, c) /\ Present(N, c)
    BY <1>7, <1>11, <1>13 DEF Acyclic
  <2>2. c \notin removed
    BY <1>8, <2>1 DEF removed
  <2> QED
    BY <2>1, <2>2 DEF Acyclic
<1>14. CyclesRest(N, {}) /\ PanesFit(N, {}, {}) /\ RunsFit(N, {}) /\ QueueMoves(N, {}, {}, {}) /\ RunningFly(N)
  BY DEF Sound
<1> HIDE DEF dropped
<1>15. PanesFit(M, P, {})
  <2> SUFFICES ASSUME NEW c \in CellIds, Acyclic(M, c), M.out[c].status = "ok", ~Busy(M, c), ~M.out[c].stale,
                      c \notin M.timers \cup M.missed \cup P
               PROVE  Fits(M, c, M.out[c].made)
    BY DEF PanesFit
  <2>1. Present(M, c) /\ c \notin removed /\ (Acyclic(N, c) \/ c \in Cyclic(N, CardOf[c]))
    BY <1>13
  <2>2. M.out[c] = N.out[c] /\ M.state[c] = N.state[c] /\ c \notin N.timers \cup N.missed
    BY <1>5, <2>1
  <2>3. Acyclic(N, c)
    BY <1>14, <2>1, <2>2 DEF CyclesRest
  <2>4. Fits(N, c, N.out[c].made)
    BY <1>14, <2>2, <2>3 DEF PanesFit, Busy
  <2> QED
    BY <1>12, <2>1, <2>2, <2>4
<1>16. RunsFit(M, P)
  <2> SUFFICES ASSUME NEW i \in DOMAIN N.jobs, kept[i].current
               PROVE  LET c == kept[i].cell IN
                      /\ Present(M, c)
                      /\ Acyclic(M, c) => c \in M.redo \cup M.timers \cup M.missed \cup P \/ Fits(M, c, kept[i])
    BY <1>2, <1>5 DEF RunsFit
  <2> DEFINE j == N.jobs[i]
             c == j.cell
  <2>1. /\ kept[i].cell = c /\ kept[i].src = j.src /\ kept[i].ins = j.ins
        /\ j.current /\ c \notin removed
    BY <1>2
  <2>2. c \in CellIds
    <3>1. j \in Job
      BY <1>1
    <3> QED
      BY <3>1 DEF Job
  <2>3. /\ Present(N, c)
        /\ Acyclic(N, c) => c \in N.redo \cup N.timers \cup N.missed \/ Fits(N, c, j)
    BY <1>14, <2>1 DEF RunsFit
  <2>4. InFlight(N, c)
    BY <2>1 DEF InFlight
  <2>5. Fits(M, c, j) => Fits(M, c, kept[i])
    BY <2>1 DEF Fits
  <2> HIDE DEF j
  <2>6. Present(M, c)
    BY <1>7, <1>8, <2>1, <2>2, <2>3
  <2>7. ASSUME Acyclic(M, c), c \notin M.redo \cup M.timers \cup M.missed \cup P PROVE Fits(M, c, j)
    <3>1. c \notin N.redo \cup N.timers \cup N.missed
      BY <1>5, <2>1, <2>7
    <3>2. Acyclic(N, c)
      BY <1>13, <1>14, <2>2, <2>4, <2>7, <3>1 DEF CyclesRest
    <3> QED
      BY <1>12, <2>2, <2>3, <2>6, <2>7, <3>1, <3>2
  <2> QED
    BY <2>1, <2>5, <2>6, <2>7
<1>17. \A c \in CellIds : InFlight(M, c) => c \notin removed /\ InFlight(N, c)
  BY <1>2, <1>5 DEF InFlight
<1>18. CyclesRest(M, {k})
  <2> SUFFICES ASSUME NEW c \in CellIds, c \in Cyclic(M, CardOf[c]), CardOf[c] # k
               PROVE  /\ M.out[c].status # "ok" \/ c \in M.missed
                      /\ InFlight(M, c) => c \in M.missed
                      /\ M.state[c] # "queued"
    BY DEF CyclesRest
  <2>1. c \notin mine /\ c \notin removed
    BY <1>3 DEF removed
  <2>2. c \in Cyclic(N, CardOf[c])
    BY <1>9, <2>1
  <2> QED
    BY <1>5, <1>14, <1>17, <2>1, <2>2 DEF CyclesRest
<1>19. AbsentRest(M)
  <2> SUFFICES ASSUME NEW c \in CellIds, ~Present(M, c)
               PROVE  M.state[c] = "idle" /\ M.exports[c] = Undef
    <3>1. ASSUME NEW c \in CellIds, CardOf[c] \notin M.open PROVE ~Present(M, c)
      BY <1>3, <1>5, <1>7, <1>10, <3>1 DEF AbsentRest
    <3> QED
      BY <3>1 DEF AbsentRest
  <2>1. CASE c \in removed
    BY <1>5, <2>1
  <2>2. CASE c \notin removed
    <3>1. ~Present(N, c)
      BY <1>7, <1>8, <2>2
    <3> QED
      BY <1>5, <1>10, <2>2, <3>1 DEF AbsentRest
  <2> QED
    BY <2>1, <2>2
<1>20. QueueMoves(M, {k}, {}, {})
  <2> SUFFICES ASSUME NEW c \in CellIds, M.state[c] = "queued", ~M.orphaned, CardOf[c] # k
               PROVE  \E d \in Of(CardOf[c]) : M.state[d] = "running"
    BY DEF QueueMoves
  <2>1. c \notin removed /\ c \notin mine
    BY <1>3 DEF removed
  <2>2. PICK d \in Of(CardOf[c]) : N.state[d] = "running"
    BY <1>5, <1>14, <2>1 DEF QueueMoves
  <2>3. d \in CellIds /\ d \notin removed
    BY <1>3, CardsOfCells DEF removed
  <2> QED
    BY <1>5, <2>2, <2>3
<1>21. RunningFly(M)
  <2> SUFFICES ASSUME NEW c \in CellIds, M.state[c] = "running" PROVE InFlight(M, c)
    BY DEF RunningFly
  <2>1. c \notin removed /\ InFlight(N, c)
    BY <1>5, <1>14 DEF RunningFly
  <2> QED
    BY <1>2, <1>5, <2>1 DEF InFlight
<1>22. M \in Runtime /\ Sound(M, P, {k}, {}, {})
  BY <1>5, <1>15, <1>16, <1>18, <1>19, <1>20, <1>21 DEF Sound
<1> QED
  BY <1>22 DEF M, P, lost, dropped, r

\* A card's text is parsed, and every call that follows is made.
LEMMA SyncKeeps == ASSUME CellsInv, NEW k \in Books, NEW book \in Texts[k], Sync(k, book) PROVE CellsInv'
<1> DEFINE M == Parsed(nb, k, book)
           r == Dirtied(nb, M, k)
           dropped == {c \in Of(k) : ~Present(M, c) /\ nb.exports[c] # Undef}
           lost == UNION {Importers(M, c) : c \in dropped}
           P == lost \cup (r.changed \cup r.waiting)
           todo == <<Do("mark", lost), Do("relink", r)>>
<1>1. nb \in Runtime /\ Sound(nb, {}, {}, {}, {})
  BY SoundAlone
<1>2. M \in Runtime /\ Sound(M, P, {k}, {}, {})
  BY <1>1, ParsedIsSound
<1>3. Turn(M, todo)
  BY DEF Sync
<1>4. r.card = k /\ r \in SyncCalls
  BY CardsOfCells DEF Dirtied, SyncCalls, Importers
<1>5. lost \in SUBSET CellIds
  BY ImportersAreCells
<1> HIDE DEF M, r, lost
<1>6. /\ todo \in Seq(PageCalls) /\ Range(todo) = {Do("mark", lost), Do("relink", r)}
  <2>1. Do("mark", lost) \in PageCalls /\ Do("relink", r) \in PageCalls
    BY <1>4, <1>5, CallsAre
  <2>2. DOMAIN todo = {1, 2}
    OBVIOUS
  <2> QED
    BY <2>1, <2>2 DEF Range
<1> HIDE DEF todo
<1>7. /\ P \subseteq ToMark(Range(todo)) /\ {k} \subseteq ToRelink(Range(todo))
      /\ {} \subseteq ToReturn(Range(todo)) /\ {} \subseteq ToTick(Range(todo))
  <2>1. lost \subseteq CellIds /\ r.changed \subseteq CellIds /\ r.waiting \subseteq CellIds
    BY <1>4, <1>5 DEF SyncCalls
  <2> QED
    BY <1>4, <1>6, <2>1, CallIs DEF ToMark, ToRelink
<1> HIDE DEF P
<1>8. SoundTurn(Left(M, todo))
  <2> DEFINE left == Left(M, todo)
  <2>1. left.nb = M /\ left.todo = todo
    BY DEF Left
  <2> HIDE DEF left
  <2>2. Sound(M, ToMark(Range(todo)), ToRelink(Range(todo)), ToReturn(Range(todo)), ToTick(Range(todo)))
    BY <1>2, <1>7, SoundIsMonotone
  <2>3. SoundTurn(left)
    BY <1>2, <1>6, <2>1, <2>2 DEF SoundTurn
  <2> QED
    BY <2>3 DEF left
<1> QED
  BY <1>3, <1>8, TurnKeeps

\* The invariant holds at the start, when no card is open.
LEMMA CellsStart == CellsInit => CellsInv
<1> SUFFICES ASSUME CellsInit PROVE CellsInv
  OBVIOUS
<1>1. /\ nb.open = {} /\ nb.timers = {} /\ nb.redo = {} /\ nb.missed = {} /\ nb.jobs = <<>>
      /\ \A c \in CellIds : nb.spec[c] = NoSpec /\ nb.state[c] = "idle" /\ nb.exports[c] = Undef
  BY DEF CellsInit
<1>2. nb \in Runtime
  <2>1. NoPane \in Pane
    BY DEF NoPane, Pane
  <2> QED
    BY <2>1 DEF CellsInit, Runtime
<1>3. \A c \in CellIds : ~Present(nb, c) /\ ~Acyclic(nb, c)
  BY <1>1 DEF Present, Acyclic
<1>4. CyclesRest(nb, {})
  BY <1>3, CyclicArePresent DEF CyclesRest
<1>5. Sound(nb, {}, {}, {}, {})
  BY <1>1, <1>3, <1>4 DEF Sound, PanesFit, RunsFit, AbsentRest, QueueMoves, RunningFly
<1> QED
  BY <1>2, <1>5, SoundAlone

\* Every step keeps it.
LEMMA CellsStep == CellsInv /\ [CellsNext]_cellVars => CellsInv'
<1> SUFFICES ASSUME CellsInv, [CellsNext]_cellVars PROVE CellsInv'
  OBVIOUS
<1>1. CASE \E k \in Books : Teardown(k)
  BY <1>1, TeardownKeeps
<1>2. CASE \E k \in Books : \E t \in Texts[k] : Sync(k, t)
  BY <1>2, SyncKeeps
<1>3. CASE \E c \in CellIds : PressRun(c)
  BY <1>3, PressRunKeeps
<1>4. CASE \E c \in CellIds : TimerFires(c)
  BY <1>4, TimerFiresKeeps
<1>5. CASE \E f \in Files, v \in Contents : FileChanges(f, v)
  BY <1>5, FileChangesKeeps
<1>6. CASE \E i \in DOMAIN nb.jobs, ok \in BOOLEAN : Reply(i, ok)
  BY <1>6, ReplyKeeps
<1>7. CASE WorkerCrashes
  BY <1>7, WorkerCrashesKeeps
<1>8. CASE UNCHANGED cellVars
  BY <1>8, SoundAlone, SoundNext DEF cellVars
<1> QED
  BY <1>1, <1>2, <1>3, <1>4, <1>5, <1>6, <1>7, <1>8 DEF CellsNext

\* The invariant of the notebook cells: well typed and, between turns, sound.
LEMMA CellsInvariant == CellsSpec => []CellsInv
BY CellsStart, CellsStep, PTL DEF CellsSpec

\* Every reachable state of the notebook runtime is well typed, for every set of cards, texts, files
\* and values and every function Eval.
THEOREM CellsKeepTypes == CellsSpec => []CellsTypeOK
<1>1. CellsInv => CellsTypeOK
  BY DEF CellsInv
<1> QED
  BY CellsInvariant, <1>1, PTL

\* Every pane that shows a value with no mark of staleness shows what its present source computes from
\* its present inputs, and no cell waits for nobody: whatever edits, closings, Run buttons, file changes,
\* timers, replies in any order and crashes of the worker there were.
THEOREM PanesAreCurrent == CellsSpec => []CellsCurrent
<1>1. CellsInv => CellsCurrent
  <2> SUFFICES ASSUME CellsInv PROVE CellsCurrent
    OBVIOUS
  <2>1. Sound(nb, {}, {}, {}, {})
    BY SoundAlone
  <2>2. ShowsItsInputs
    BY <2>1 DEF Sound, PanesFit, ShowsItsInputs
  <2>3. NobodyStranded
    BY <2>1 DEF Sound, QueueMoves, RunningFly, NobodyStranded
  <2> QED
    BY <2>2, <2>3 DEF CellsCurrent
<1> QED
  BY CellsInvariant, <1>1, PTL
=============================================================================
