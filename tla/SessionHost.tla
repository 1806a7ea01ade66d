---------------------------- MODULE SessionHost ----------------------------
(***************************************************************************)
(* Agent processes live in a host of their own, so that they outlive the   *)
(* server: the server's view of each session, the socket between them, the *)
(* list a new server adopts from, and the reason a session's marker keeps  *)
(* for its end (session-host.js, session-host-client.js, session-proc.js,  *)
(* server-sessions.ts, session-ledger.js).                                 *)
(*                                                                         *)
(* Requests and frames travel in order.  The socket is local: it closes    *)
(* only when one end dies.  A host reads all that a dead server wrote.     *)
(***************************************************************************)
EXTENDS Integers, SequencesExt, FiniteSets

CONSTANTS
    SessionIds,
    MaxObjects,         \* bound: session objects (starts and adoptions) of one id
    MaxPending,         \* bound: prompts a session has not finished
    MaxServerDeaths, MaxHostDeaths,
    NoProc

ASSUME HostAssumption ==
    /\ MaxObjects \in Nat \ {0} /\ MaxPending \in Nat \ {0}
    /\ MaxServerDeaths \in Nat /\ MaxHostDeaths \in Nat
    /\ NoProc \notin [busy : BOOLEAN, pending : Nat, killed : BOOLEAN]

VARIABLES
    children,   \* the host's processes
    exits,      \* the exits nobody was attached to hear of
    linked,     \* the server's socket is open
    attached,   \* the host's one slot is taken
    toHost,     \* requests on the socket
    toServer,   \* replies and events on the socket
    phase,      \* "boot": this server has not listed yet; "relink": a reconnection; "ready"
    live,       \* liveSessions: a status, and which object of the id it is
    hooks,      \* the client's hooks: the object the id's frames go to, 0 for none
    objects,    \* how many session objects the id has had
    marker,     \* endReason in the session's marker file
    serverDeaths, hostDeaths,
    overlapped  \* history: the ids started while an earlier process of theirs was under way, or
                \* before the host's list had come

serverVars == <<live, hooks, objects, marker, phase>>
deaths == <<serverDeaths, hostDeaths>>
hostVars == <<children, exits, linked, attached, toHost, toServer, serverVars, deaths, overlapped>>

Frame(op, id) == [op |-> op, id |-> id]
Exit(id, reason) == [op |-> "exit", id |-> id, reason |-> reason]
Alive(id) == live[id].status \in {"idle", "running"}

HostInit ==
    /\ children = [id \in SessionIds |-> NoProc] /\ exits = {}
    /\ linked = FALSE /\ attached = FALSE
    /\ toHost = <<>> /\ toServer = <<>> /\ phase = "boot"
    /\ live = [id \in SessionIds |-> [status |-> "none", of |-> 0]]
    /\ hooks = [id \in SessionIds |-> 0] /\ objects = hooks
    /\ marker = [id \in SessionIds |-> "none"]
    /\ serverDeaths = 0 /\ hostDeaths = 0 /\ overlapped = {}

-----------------------------------------------------------------------------
(***************************************************************************)
(* The server.                                                             *)
(***************************************************************************)
\* Nothing of an earlier process of id is running or under way.
Quiesced(id) ==
    /\ children[id] = NoProc
    /\ \A i \in DOMAIN toHost : toHost[i].op \in {"spawn", "kill"} => toHost[i].id # id
    /\ \A i \in DOMAIN toServer : toServer[i].op # "list" => toServer[i].id # id

\* ensureLiveSession, fresh or resumed: a new object, its hooks, a marker without an end, a spawn.
Start(id) ==
    /\ linked /\ ~Alive(id) /\ objects[id] < MaxObjects
    /\ overlapped' = IF Quiesced(id) /\ phase = "ready" THEN overlapped ELSE overlapped \cup {id}
    /\ objects' = [objects EXCEPT ![id] = @ + 1]
    /\ live' = [live EXCEPT ![id] = [status |-> "idle", of |-> objects'[id]]]
    /\ hooks' = [hooks EXCEPT ![id] = objects'[id]]
    /\ marker' = [marker EXCEPT ![id] = "none"]
    /\ toHost' = Append(toHost, Frame("spawn", id))
    /\ UNCHANGED <<children, exits, linked, attached, toServer, phase, deaths>>

\* The prompts of id that the host has not seen, has not finished, or whose result is under way.
Pending(id) ==
    Cardinality({i \in DOMAIN toHost : toHost[i] = Frame("user", id)})
    + Cardinality({i \in DOMAIN toServer : toServer[i] = Frame("result", id)})
    + IF children[id] = NoProc THEN 0 ELSE children[id].pending

\* sendSessionInput: running from now on; the write is dropped while the host is out of reach.
Prompt(id) ==
    /\ Alive(id) /\ Pending(id) < MaxPending
    /\ live' = [live EXCEPT ![id].status = "running"]
    /\ toHost' = IF linked THEN Append(toHost, Frame("user", id)) ELSE toHost
    /\ UNCHANGED <<children, exits, linked, attached, toServer, phase, hooks, objects, marker, deaths, overlapped>>

\* endSession: the end is recorded and the session forgotten before its process is gone.
End(id) ==
    /\ Alive(id)
    /\ live' = [live EXCEPT ![id].status = "none"]
    /\ marker' = [marker EXCEPT ![id] = "done"]
    /\ toHost' = IF linked THEN Append(toHost, Frame("kill", id)) ELSE toHost
    /\ UNCHANGED <<children, exits, linked, attached, toServer, phase, hooks, objects, deaths, overlapped>>

\* The live object of id is the one its frames go to.
Heard(id) == hooks[id] # 0 /\ hooks[id] = live[id].of /\ Alive(id)

\* A line of output: work shows a session running, a result shows it idle.
FoldLine(f) ==
    /\ live' = IF Heard(f.id)
               THEN [live EXCEPT ![f.id].status = IF f.op = "result" THEN "idle" ELSE "running"]
               ELSE live
    /\ UNCHANGED <<hooks, objects, marker, phase, toHost>>

\* onExit for the hooked objects of the ids in S; a session ended on purpose is not stamped again.
Exited(S, reason) ==
    LET hit == {id \in S : Heard(id)}
    IN  /\ hooks' = [id \in SessionIds |-> IF id \in S THEN 0 ELSE hooks[id]]
        /\ live' = [id \in SessionIds |->
               IF id \in hit THEN [live[id] EXCEPT !.status = "exited"] ELSE live[id]]
        /\ marker' = [id \in SessionIds |->
               IF id \in hit /\ reason = "self" THEN "crashed" ELSE marker[id]]

\* Faulty variant of Adopted: the host's busy flag is not looked at.
AdoptedBusy(list, id) == [status |-> "running", of |-> objects[id] + 1]

\* adoptSession: a session the host runs, with the status its busy flag says.
Adopted(list, id) == [status |-> list.procs[id], of |-> objects[id] + 1]

\* What a new server records of an end nobody heard: nothing, when there is a reason already.
Stamp(list, id) ==
    IF marker[id] # "none" \/ \A x \in list.exits : x.id # id THEN marker[id]
    ELSE IF Exit(id, "self") \in list.exits THEN "crashed" ELSE "terminated"

\* Faulty variant of AckedExits: the exits are stamped and stay in the host's backlog.
AckNothing(list) == {}

\* ackExits: the exits a new server has stamped.
AckedExits(list) == {x.id : x \in list.exits}

\* attachSessionHost, once the host's list has come: adopt, stamp, acknowledge.
Attach(list) ==
    LET new == {id \in SessionIds : list.procs[id] # "gone" /\ live[id].status = "none"}
    IN  /\ live' = [id \in SessionIds |-> IF id \in new THEN Adopted(list, id) ELSE live[id]]
        /\ objects' = [id \in SessionIds |-> IF id \in new THEN objects[id] + 1 ELSE objects[id]]
        /\ hooks' = [id \in SessionIds |-> IF id \in new THEN objects'[id] ELSE hooks[id]]
        /\ marker' = [id \in SessionIds |-> Stamp(list, id)]
        /\ toHost' = Append(toHost, [op |-> "ack", ids |-> AckedExits(list)])

\* Faulty variant of Relink: the sessions the new host does not run are left as they are.
RelinkBlind(list) == UNCHANGED <<live, hooks, objects, marker, toHost>>

\* reconnectLoop: a session the host no longer runs has exited.
Relink(list) ==
    /\ Exited({id \in SessionIds : hooks[id] # 0 /\ list.procs[id] = "gone"}, "self")
    /\ UNCHANGED <<objects, toHost>>

\* The next frame from the host.
Receive ==
    /\ linked /\ toServer # <<>> /\ toServer' = Tail(toServer)
    /\ LET f == Head(toServer)
       IN  \/ f.op \in {"line", "result"} /\ FoldLine(f)
           \/ /\ f.op = "exit" /\ Exited({f.id}, f.reason)
              /\ UNCHANGED <<objects, phase, toHost>>
           \/ /\ f.op = "refused" /\ Exited({f.id}, "self")
              /\ UNCHANGED <<objects, phase, toHost>>
           \/ /\ f.op = "list" /\ phase' = "ready"
              /\ IF phase = "boot" THEN Attach(f) ELSE Relink(f)
    /\ UNCHANGED <<children, exits, linked, attached, deaths, overlapped>>

\* connectSessionHost, and the same again after the socket closed: hello, then a list.
Link ==
    /\ ~linked /\ ~attached /\ linked' = TRUE /\ attached' = TRUE
    /\ toHost' = <<[op |-> "list"]>>
    /\ UNCHANGED <<children, exits, toServer, serverVars, deaths, overlapped>>

-----------------------------------------------------------------------------
(***************************************************************************)
(* The host.                                                               *)
(***************************************************************************)
\* event(): to the attached server, or to no one. A dead server's socket swallows it.
Event(f) == toServer' = IF attached /\ linked THEN Append(toServer, f) ELSE toServer

Listing ==
    [op |-> "list", exits |-> exits, procs |-> [id \in SessionIds |->
        IF children[id] = NoProc THEN "gone" ELSE IF children[id].busy THEN "running" ELSE "idle"]]

\* doSpawn: refused while the id has a process, even one that is being killed.
Spawn(id) ==
    IF children[id] = NoProc
    THEN /\ children' = [children EXCEPT ![id] = [busy |-> FALSE, pending |-> 0, killed |-> FALSE]]
         /\ UNCHANGED <<toServer, exits>>
    ELSE Event(Frame("refused", id)) /\ UNCHANGED <<children, exits>>

\* handle: the next request.
Serve ==
    /\ attached /\ toHost # <<>> /\ toHost' = Tail(toHost)
    /\ attached' = (Head(toHost).op # "close")
    /\ LET r == Head(toHost)
       IN  \/ r.op = "close" /\ UNCHANGED <<children, exits, toServer>>
           \/ r.op = "spawn" /\ Spawn(r.id)
           \/ /\ r.op = "user" /\ UNCHANGED <<exits, toServer>>
              /\ children' = IF children[r.id] = NoProc THEN children
                             ELSE [children EXCEPT ![r.id].busy = TRUE, ![r.id].pending = @ + 1]
           \/ /\ r.op = "kill" /\ UNCHANGED <<exits, toServer>>
              /\ children' = IF children[r.id] = NoProc THEN children
                             ELSE [children EXCEPT ![r.id].killed = TRUE]
           \/ r.op = "list" /\ Event(Listing) /\ UNCHANGED <<children, exits>>
           \/ /\ r.op = "ack" /\ exits' = {x \in exits : x.id \notin r.ids}
              /\ UNCHANGED <<children, toServer>>
    /\ UNCHANGED <<linked, serverVars, deaths, overlapped>>

\* A process writes a line of work.
Works(id) ==
    /\ children[id] # NoProc /\ children[id].pending > 0
    /\ Frame("line", id) \notin Range(toServer)
    /\ Event(Frame("line", id))
    /\ UNCHANGED <<children, exits, linked, attached, toHost, serverVars, deaths, overlapped>>

\* A process ends a turn, which may have answered several of its prompts.
TurnDone(id) ==
    /\ children[id] # NoProc /\ children[id].pending > 0
    /\ \E left \in 0..children[id].pending - 1 :
           children' = [children EXCEPT ![id].busy = FALSE, ![id].pending = left]
    /\ Event(Frame("result", id))
    /\ UNCHANGED <<exits, linked, attached, toHost, serverVars, deaths, overlapped>>

\* recordExit: told to the attached server, or kept for the next.
RecordExit(x) == Event(x) /\ exits' = IF attached THEN exits ELSE exits \cup {x}

\* A process ends, killed or on its own.
ProcessExits(id) ==
    /\ children[id] # NoProc
    /\ children' = [children EXCEPT ![id] = NoProc]
    /\ RecordExit(Exit(id, IF children[id].killed THEN "killed" ELSE "self"))
    /\ UNCHANGED <<linked, attached, toHost, serverVars, deaths, overlapped>>

-----------------------------------------------------------------------------
ServerDies ==
    /\ serverDeaths < MaxServerDeaths /\ serverDeaths' = serverDeaths + 1
    /\ live' = [id \in SessionIds |-> [status |-> "none", of |-> 0]]
    /\ hooks' = [id \in SessionIds |-> 0] /\ phase' = "boot"
    /\ linked' = FALSE /\ toServer' = <<>>
    /\ toHost' = IF linked THEN Append(toHost, [op |-> "close"]) ELSE toHost
    /\ UNCHANGED <<children, exits, attached, objects, marker, hostDeaths, overlapped>>

\* The host takes its processes along.
HostDies ==
    /\ hostDeaths < MaxHostDeaths /\ hostDeaths' = hostDeaths + 1
    /\ children' = [id \in SessionIds |-> NoProc] /\ exits' = {}
    /\ linked' = FALSE /\ attached' = FALSE /\ toHost' = <<>> /\ toServer' = <<>>
    /\ phase' = IF linked THEN "relink" ELSE phase
    /\ UNCHANGED <<live, hooks, objects, marker, serverDeaths, overlapped>>

HostNext ==
    \/ \E id \in SessionIds :
           Start(id) \/ Prompt(id) \/ End(id) \/ Works(id) \/ TurnDone(id) \/ ProcessExits(id)
    \/ Link \/ Serve \/ Receive \/ ServerDies \/ HostDies

HostSpec == HostInit /\ [][HostNext]_hostVars

-----------------------------------------------------------------------------
HostTypeOK ==
    /\ children \in [SessionIds -> {NoProc}
           \cup [busy : BOOLEAN, pending : 0..MaxPending, killed : BOOLEAN]]
    /\ exits \subseteq [op : {"exit"}, id : SessionIds, reason : {"self", "killed"}]
    /\ linked \in BOOLEAN /\ attached \in BOOLEAN /\ phase \in {"boot", "relink", "ready"}
    /\ live \in [SessionIds -> [status : {"none", "idle", "running", "exited"}, of : Nat]]
    /\ hooks \in [SessionIds -> Nat] /\ objects \in [SessionIds -> Nat]
    /\ marker \in [SessionIds -> {"none", "done", "crashed", "terminated"}]

NothingUnderWay == linked /\ phase = "ready" /\ toHost = <<>> /\ toServer = <<>>

\* Whatever died and came back, once nothing is under way the server's live sessions are the
\* host's processes, bar those being killed: none runs unseen, and none is shown that is gone.
ServerKnowsProcesses ==
    NothingUnderWay => \A id \in SessionIds \ overlapped :
        /\ Alive(id) => children[id] # NoProc /\ Heard(id)
        /\ children[id] # NoProc /\ ~children[id].killed => Alive(id)

\* A session shown running has a prompt to answer: no lost result leaves it running for ever,
\* with the nudges it owes itself.
RunningHasWork ==
    NothingUnderWay => \A id \in SessionIds : live[id].status = "running" =>
                          children[id] # NoProc /\ children[id].pending > 0

\* A marker says crashed only of a session that is not live - no stale exit is stamped on one that
\* was resumed - and a session shown exited has a reason on record.
MarkersTellTheEnd ==
    /\ \A id \in SessionIds \ overlapped : Alive(id) => marker[id] # "crashed"
    /\ NothingUnderWay => \A id \in SessionIds \ overlapped : live[id].status = "exited" => marker[id] # "none"

\* The server's picture of its sessions: no process runs unseen, a session shown as running has
\* work, and the marker of each session tells how it ended.
SessionsTrue == ServerKnowsProcesses /\ RunningHasWork /\ MarkersTellTheEnd
=============================================================================
