----------------------------- MODULE Supervisor -----------------------------
(***************************************************************************)
(* The owner of the dev stack: one vite child, respawned when it dies,     *)
(* bounced on request, given up after a crash loop; the teardown that ends *)
(* vite and then the sidecars (dev-supervisor.js).                         *)
(*                                                                         *)
(* A vite is named by the order of its start; 0 is none.  A step is one    *)
(* turn of the event loop, with the continuations it resolves.             *)
(***************************************************************************)
EXTENDS Integers, FiniteSets

CONSTANTS
    MaxVites,       \* bound: vites started, MaxBounces of them by restarts
    MaxBounces,     \* bound: restart-server requests
    MaxFastCrashes  \* MAX_FAST_CRASHES: consecutive fast exits before giving up

ASSUME SupervisorAssumption == 
    /\ MaxVites \in Nat /\ MaxBounces \in Nat /\ MaxFastCrashes \in Nat \ {0} /\ MaxVites > MaxBounces

ViteIds == 1..MaxVites

VARIABLES
    up,          \* the vites that run, as far as the supervisor has been told
    vitesSpawned,     \* how many were started
    seasoned,    \* those that ran longer than FAST_CRASH_MS
    killed,      \* those sent a SIGKILL
    viteChild,
    everUp,
    restarting,
    fastCrashes,
    respawns,    \* respawn timers that run
    bounces,     \* vite -> the restart-server requests that await its exit
    teardown,    \* "no", "vite", "sidecars" or "exited"
    doomed,      \* the vite the teardown awaits
    reap,        \* whether this teardown ends the sidecars too
    asked,       \* history: somebody asked for the teardown
    restartsCrossed,     \* history: a restart met a respawn, another restart, a teardown or a deaf vite
    requests     \* restart-server requests so far

viteVars == <<up, vitesSpawned, seasoned, killed>>
teardownVars == <<teardown, doomed, reap, asked>>
supervisorVars ==
    <<viteVars, teardownVars, viteChild, everUp, restarting, fastCrashes, respawns, bounces,
      restartsCrossed, requests>>

SupervisorInit ==
    /\ up = {1} /\ vitesSpawned = 1 /\ seasoned = {} /\ killed = {} /\ viteChild = 1 /\ everUp = FALSE
    /\ restarting = FALSE /\ fastCrashes = 0 /\ respawns = 0 /\ bounces = [i \in ViteIds |-> 0]
    /\ teardown = "no" /\ doomed = 0 /\ reap = FALSE /\ asked = FALSE /\ restartsCrossed = FALSE /\ requests = 0

Lives == teardown # "exited"

\* spawnVite n times in a row, with the running vites before: each overwrites viteChild.
SpawnVite(n, running, child) ==
    /\ vitesSpawned + n <= MaxVites /\ vitesSpawned' = vitesSpawned + n
    /\ up' = running \cup (vitesSpawned + 1)..(vitesSpawned + n)
    /\ viteChild' = IF n = 0 THEN child ELSE vitesSpawned + n

\* Faulty variant of Bounced: the flag stays.
BouncedFlagged(i, running, child) ==
    /\ SpawnVite(bounces[i], running, child) /\ bounces' = [bounces EXCEPT ![i] = 0]
    /\ UNCHANGED restarting

\* The restarts that awaited vite i go on: each starts a vite and clears the flag.
Bounced(i, running, child) ==
    /\ SpawnVite(bounces[i], running, child) /\ bounces' = [bounces EXCEPT ![i] = 0]
    /\ restarting' = (restarting /\ bounces[i] = 0)

\* A vite has run for FAST_CRASH_MS.
Seasons(i) ==
    /\ Lives /\ i \in up \ seasoned /\ seasoned' = seasoned \cup {i} /\ everUp' = (everUp \/ viteChild = i)
    /\ UNCHANGED <<up, vitesSpawned, killed, teardownVars, viteChild, restarting, fastCrashes, respawns,
                   bounces, restartsCrossed, requests>>

\* Whether the sidecars go with a stack that crash-looped.
ReapsWhenGivingUp == everUp

\* What vite i's exit means: a teardown that awaited it goes on to the sidecars, another intended
\* exit is ignored, any other brings a respawn, or the end after too many fast ones.
Missed(i, child) ==
    LET crashes == IF i \in seasoned THEN 0 ELSE fastCrashes + 1
    IN  IF teardown # "no" \/ restarting
        THEN /\ UNCHANGED <<fastCrashes, respawns, reap, asked>>
             /\ teardown' = IF teardown = "vite" /\ doomed = i THEN "sidecars" ELSE teardown
             /\ doomed' = IF doomed = i THEN 0 ELSE doomed
        ELSE /\ fastCrashes' = crashes
             /\ \/ /\ crashes < MaxFastCrashes /\ respawns' = respawns + 1 /\ UNCHANGED teardownVars
                \/ /\ crashes >= MaxFastCrashes /\ reap' = ReapsWhenGivingUp /\ doomed' = child
                   /\ teardown' = IF child = 0 THEN "sidecars" ELSE "vite"
                   /\ UNCHANGED <<asked, respawns>>

\* A vite exits: killed, crashed, or refused its port.
ViteExits(i) ==
    LET child == IF viteChild = i THEN 0 ELSE viteChild
    IN  /\ Lives /\ i \in up /\ Missed(i, child) /\ Bounced(i, up \ {i}, child)
        /\ UNCHANGED <<seasoned, killed, everUp, restartsCrossed, requests>>

Respawn ==
    /\ Lives /\ respawns > 0 /\ vitesSpawned < MaxVites - MaxBounces /\ respawns' = respawns - 1
    /\ SpawnVite(IF teardown = "no" THEN 1 ELSE 0, up, viteChild)
    /\ UNCHANGED <<seasoned, killed, teardownVars, everUp, restarting, fastCrashes, bounces,
                   restartsCrossed, requests>>

\* restartServer: its vite is sent a SIGTERM and awaited; without one the new vite starts at once.
BounceVite ==
    /\ Lives /\ requests < MaxBounces /\ requests' = requests + 1
    /\ restartsCrossed' = (restartsCrossed \/ restarting \/ respawns > 0 \/ teardown # "no")
    /\ \/ /\ viteChild # 0 /\ restarting' = TRUE /\ bounces' = [bounces EXCEPT ![viteChild] = @ + 1]
          /\ UNCHANGED <<up, vitesSpawned, viteChild>>
       \/ /\ viteChild = 0 /\ restarting' = FALSE /\ SpawnVite(1, up, 0) /\ UNCHANGED bounces
    /\ UNCHANGED <<seasoned, killed, teardownVars, everUp, fastCrashes, respawns>>

\* KILL_TIMEOUT_MS after its SIGTERM a vite that is still there is sent a SIGKILL, and who awaits it
\* goes on without it.
KillTimesOut(i) ==
    /\ Lives /\ i \in up /\ (bounces[i] > 0 \/ doomed = i) /\ killed' = killed \cup {i}
    /\ restartsCrossed' = (restartsCrossed \/ bounces[i] > 0) /\ Bounced(i, up, viteChild)
    /\ teardown' = IF doomed = i THEN "sidecars" ELSE teardown
    /\ doomed' = IF doomed = i THEN 0 ELSE doomed
    /\ UNCHANGED <<seasoned, reap, asked, everUp, fastCrashes, respawns, requests>>

\* Faulty variant of Stop: the vite is not awaited.
StopAtOnce ==
    /\ teardown = "no" /\ asked' = TRUE /\ reap' = TRUE /\ restartsCrossed' = (restartsCrossed \/ restarting)
    /\ doomed' = 0 /\ teardown' = "sidecars"
    /\ UNCHANGED <<viteVars, viteChild, everUp, restarting, fastCrashes, respawns, bounces, requests>>

\* teardown(0, true): the stop verb, SIGINT or SIGTERM.
Stop ==
    /\ teardown = "no" /\ asked' = TRUE /\ reap' = TRUE /\ restartsCrossed' = (restartsCrossed \/ restarting)
    /\ doomed' = viteChild /\ teardown' = IF viteChild = 0 THEN "sidecars" ELSE "vite"
    /\ UNCHANGED <<viteVars, viteChild, everUp, restarting, fastCrashes, respawns, bounces, requests>>

\* The session host and the gateway have answered or not; the supervisor exits.
SupervisorExits ==
    /\ teardown = "sidecars" /\ teardown' = "exited"
    /\ UNCHANGED <<viteVars, doomed, reap, asked, viteChild, everUp, restarting, fastCrashes, respawns,
                   bounces, restartsCrossed, requests>>

SupervisorNext ==
    \/ \E i \in ViteIds : Seasons(i) \/ ViteExits(i) \/ KillTimesOut(i)
    \/ Respawn \/ BounceVite \/ Stop \/ SupervisorExits

\* A vite that a teardown awaits exits or is killed, and the waits for the sidecars have time limits.
SupervisorFairness ==
    /\ WF_supervisorVars(SupervisorExits)
    /\ WF_supervisorVars(\E i \in ViteIds : doomed = i /\ KillTimesOut(i))

SupervisorSpec == SupervisorInit /\ [][SupervisorNext]_supervisorVars /\ SupervisorFairness

-----------------------------------------------------------------------------
SupervisorTypeOK ==
    /\ vitesSpawned \in ViteIds /\ up \subseteq 1..vitesSpawned /\ seasoned \subseteq 1..vitesSpawned
    /\ killed \subseteq 1..vitesSpawned /\ viteChild \in up \cup {0} /\ doomed \in up \cup {0}
    /\ everUp \in BOOLEAN /\ restarting \in BOOLEAN /\ fastCrashes \in 0..MaxFastCrashes
    /\ respawns \in 0..MaxVites /\ bounces \in [ViteIds -> 0..MaxBounces]
    /\ teardown \in {"no", "vite", "sidecars", "exited"} /\ (teardown = "vite") = (doomed # 0)
    /\ reap \in BOOLEAN /\ asked \in BOOLEAN /\ restartsCrossed \in BOOLEAN /\ requests \in 0..MaxBounces

\* The stack is never left without a server: until it is torn down, a vite runs, or its successor
\* is due - crashes, bounces of a deaf vite and respawns in whatever order.
ServerKept == teardown = "no" => viteChild # 0 \/ respawns > 0 \/ \E i \in up : bounces[i] > 0

\* One owner, one vite, and one Ctrl-C that ends it: a server is there or due, the vite that runs is
\* the one the supervisor holds, none outlives it that was not sent a SIGKILL, unless requests
\* crossed.  A stack that never came up and that nobody asked to stop keeps its sidecars.
OneStack ==
    /\ ServerKept
    /\ ~restartsCrossed => up = {viteChild} \ {0} /\ (teardown = "exited" => up \subseteq killed)
    /\ reap => asked \/ everUp

\* A teardown comes to its end.
TeardownEnds == <>[](teardown \in {"no", "exited"})
=============================================================================
