------------------------------- MODULE Seats -------------------------------
(***************************************************************************)
(* Who is on a thread and who sits in its role seats: member edges drawn,  *)
(* erased and joined through the API, onboarding, the sweep that detaches  *)
(* finished members, workers spawned for a mentioned role or a watched     *)
(* document under a surface claim, and a server that restarts and adopts   *)
(* the sessions that outlived it (server-delivery.ts, thread-ledger.js,    *)
(* auto-wake.js, server-orchestration.ts, server-sessions.ts).             *)
(*                                                                         *)
(* One thread. A session's role is the one its card is named for.          *)
(***************************************************************************)
EXTENDS FiniteSets, Naturals

CONSTANTS
    Sids,           \* session ids
    Roles,          \* role handles of the thread
    RoleOf,         \* session -> its role
    Docs,           \* watched documents
    MaxLive,        \* MAX_LIVE_SESSIONS
    MaxSeatRestarts,\* bound: server restarts
    Free            \* no session

ASSUME SeatAssumption ==
    /\ RoleOf \in [Sids -> Roles] /\ Free \notin Sids /\ Roles \cap Docs = {}
    /\ MaxLive \in Nat /\ MaxSeatRestarts \in Nat

Surfaces == Roles \cup Docs

VARIABLES
    used,       \* ids ever given to a session
    alive,      \* the processes the session host runs
    known,      \* liveSessions that have not exited
    worker,     \* the surface an auto-spawned session was spawned for (autoWakeKey)
    claims,     \* auto-wake's claims: surface -> claimant
    members,    \* the roster in the thread's ledger
    seat,       \* role -> the session in its seat
    edge,       \* the member edge on the board: "none", "pending" or "open"
    announced,  \* the sessions whose open edge was announced
    done,       \* the sessions whose latest intent on the thread is "done"
    rebooted    \* restarts so far

processes == <<used, alive, known, worker, claims>>
roster == <<members, seat, edge, announced, done>>
seatVars == <<processes, roster, rebooted>>

Unclaimed == [k \in Surfaces |-> Free]

SeatsInit ==
    /\ used = {} /\ alive = {} /\ known = {} /\ members = {} /\ announced = {} /\ done = {}
    /\ worker = [s \in Sids |-> Free] /\ claims = Unclaimed
    /\ seat = [r \in Roles |-> Free] /\ edge = [s \in Sids |-> "none"] /\ rebooted = 0

-----------------------------------------------------------------------------
(***************************************************************************)
(* Joining and leaving.                                                    *)
(***************************************************************************)
\* Faulty variant of MayTake: the seat is filled whoever holds it.
MayTakeAny(s) == TRUE

\* fillSeat, asked whether the holder is live: a live holder keeps the seat.
MayTake(s) == seat[RoleOf[s]] \notin known \ {s}

\* onboardMemberOpen: recorded at once; a first join, announced once per edge, takes its seat.
Onboard(s, byEdge) ==
    /\ members' = members \cup {s}
    /\ announced' = IF byEdge THEN announced \cup {s} ELSE announced
    /\ seat' = IF s \notin members /\ ~(byEdge /\ s \in announced) /\ MayTake(s)
               THEN [seat EXCEPT ![RoleOf[s]] = s] ELSE seat

\* POST join: onboarded first, then its edge is drawn, announced, and finds a member.
Join(s) ==
    /\ s \in used /\ Onboard(s, FALSE) /\ edge' = [edge EXCEPT ![s] = "open"]
    /\ UNCHANGED <<processes, done, rebooted>>

\* An open edge crosses the bus, or a tab's snapshot shows one the snapshot before it did not.
EdgeShows(s) ==
    /\ s \in used /\ Onboard(s, TRUE) /\ edge' = [edge EXCEPT ![s] = "open"]
    /\ UNCHANGED <<processes, done, rebooted>>

\* POST invite: the member edge turns pending.
Invite(s) ==
    /\ s \in used /\ edge' = [edge EXCEPT ![s] = "pending"]
    /\ UNCHANGED <<processes, members, seat, announced, done, rebooted>>

\* The edge goes with its card, or is erased: only what is displayed changes.
EdgeVanishes(s) ==
    /\ edge[s] # "none" /\ edge' = [edge EXCEPT ![s] = "none"]
    /\ announced' = announced \ {s}
    /\ UNCHANGED <<processes, members, seat, done, rebooted>>

\* Faulty variant of Vacated: who goes keeps the seat.
VacatedBySelf(s) == seat

\* releaseSeat.
Vacated(s) == [r \in Roles |-> IF seat[r] = s THEN Free ELSE seat[r]]

\* POST leave, by a member of the roster or of the board.
Leave(s) ==
    /\ s \in members \/ edge[s] = "open"
    /\ seat' = Vacated(s) /\ members' = members \ {s}
    /\ edge' = [edge EXCEPT ![s] = "none"] /\ announced' = announced \ {s}
    /\ UNCHANGED <<processes, done, rebooted>>

\* POST intent, done or not.
Declare(s, finished) ==
    /\ s \in known /\ done' = IF finished THEN done \cup {s} ELSE done \ {s}
    /\ done' # done
    /\ UNCHANGED <<processes, members, seat, edge, announced, rebooted>>

\* detachDoneMembersTick: a member that declared itself done, or ended so and is not live. The
\* edge stays.
Detach(s) ==
    /\ s \in members /\ (s \in done \/ s \notin known)
    /\ members' = members \ {s} /\ seat' = Vacated(s)
    /\ UNCHANGED <<processes, edge, announced, done, rebooted>>

-----------------------------------------------------------------------------
(***************************************************************************)
(* Sessions, and the workers spawned for a surface.                        *)
(***************************************************************************)
Launch(s) ==
    /\ s \notin used /\ Cardinality(known) < MaxLive
    /\ used' = used \cup {s} /\ alive' = alive \cup {s} /\ known' = known \cup {s}

\* A session is started by hand.
StartSession(s) == Launch(s) /\ UNCHANGED <<worker, claims, roster, rebooted>>

\* serverSpawnWorker: the surface is claimed; the worker of a seat is put on the thread.
SpawnWorker(s, k) ==
    /\ Launch(s)
    /\ worker' = [worker EXCEPT ![s] = k] /\ claims' = [claims EXCEPT ![k] = s]
    /\ IF k \in Roles
       THEN Onboard(s, TRUE) /\ edge' = [edge EXCEPT ![s] = "open"]
       ELSE UNCHANGED <<members, announced, seat, edge>>
    /\ UNCHANGED <<done, rebooted>>

\* Faulty variant of MaySummon: the claim is not looked at.
MaySummonAgain(r) == seat[r] \notin known

\* roleMentionRoute: an empty or dormant seat is summoned for, once per claim; a live one is nudged.
MaySummon(r) == seat[r] \notin known /\ claims[r] = Free

\* A role is @-mentioned.
Mention(r) ==
    /\ MaySummon(r)
    /\ \E s \in Sids : RoleOf[s] = r /\ SpawnWorker(s, r)

\* maybeWakeDocWorker: a live claimant is prompted; without one, a worker is spawned.
DocActivity(d) ==
    /\ claims[d] \notin known
    /\ \E s \in Sids : SpawnWorker(s, d)

\* releaseSurface: only its claimant gives a claim up.
Released(s) == [k \in Surfaces |-> IF claims[k] = s THEN Free ELSE claims[k]]

\* The process ends by itself, is terminated, reaped or done.
Exits(s) ==
    /\ s \in alive /\ alive' = alive \ {s} /\ known' = known \ {s}
    /\ claims' = IF s \in known THEN Released(s) ELSE claims
    /\ worker' = [worker EXCEPT ![s] = Free]
    /\ UNCHANGED <<used, roster, rebooted>>

-----------------------------------------------------------------------------
(***************************************************************************)
(* Restart.                                                                *)
(***************************************************************************)
\* The server dies. Its successor knows the ledger and the board: seedThreadLogs records every
\* open edge it finds. Claims, announcements and live sessions were in memory.
RestartSeats ==
    /\ rebooted < MaxSeatRestarts /\ rebooted' = rebooted + 1
    /\ known' = {} /\ claims' = Unclaimed /\ worker' = [s \in Sids |-> Free] /\ announced' = {}
    /\ members' = members \cup {s \in Sids : edge[s] = "open"}
    /\ UNCHANGED <<used, alive, seat, edge, done>>

\* adoptSession: a session the host still runs is known again.
Adopt(s) ==
    /\ s \in alive \ known /\ known' = known \cup {s}
    /\ UNCHANGED <<used, alive, worker, claims, roster, rebooted>>

SeatsNext ==
    \/ \E s \in Sids : \/ Join(s) \/ EdgeShows(s) \/ Invite(s) \/ EdgeVanishes(s) \/ Leave(s)
                       \/ Declare(s, TRUE) \/ Declare(s, FALSE) \/ Detach(s)
                       \/ StartSession(s) \/ Exits(s) \/ Adopt(s)
    \/ \E r \in Roles : Mention(r)
    \/ \E d \in Docs : DocActivity(d)
    \/ RestartSeats

SeatsSpec == SeatsInit /\ [][SeatsNext]_seatVars

-----------------------------------------------------------------------------
SeatsTypeOK ==
    /\ alive \subseteq used /\ known \subseteq alive /\ used \subseteq Sids
    /\ worker \in [Sids -> Surfaces \cup {Free}] /\ claims \in [Surfaces -> Sids \cup {Free}]
    /\ members \subseteq Sids /\ seat \in [Roles -> Sids \cup {Free}]
    /\ edge \in [Sids -> {"none", "pending", "open"}]
    /\ announced \subseteq Sids /\ done \subseteq Sids /\ rebooted \in 0..MaxSeatRestarts

\* Whoever sits in a seat is on the roster the messages are delivered by, and sits in the seat its
\* card is named for: no leave, detach, lost edge or restart leaves a seat to a stranger.
SeatedAreMembers ==
    \A r \in Roles : seat[r] # Free => seat[r] \in members /\ RoleOf[seat[r]] = r

\* One worker per surface: each live auto-spawned worker holds the claim it was spawned under.
WorkersHoldClaims ==
    \A s \in known : worker[s] # Free => claims[worker[s]] = s

\* Seats and surfaces are held by those who may: the two together.
SeatsHold == SeatedAreMembers /\ WorkersHoldClaims

\* A live holder that stays on the roster stays in its seat: no join, redrawn edge, mention or
\* revived worker displaces it.
LiveSeatKept ==
    [][\A r \in Roles : seat[r] \in known \cap members' => seat'[r] = seat[r]]_seatVars
=============================================================================
