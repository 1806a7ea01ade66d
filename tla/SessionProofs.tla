---------------------------- MODULE SessionProofs ---------------------------
(***************************************************************************)
(* The agent sessions, one concern at a time: the seats and claims of a    *)
(* thread, the requests they put to a person, the turns of a Codex         *)
(* session, the processes that outlive the server, the ledger of a thread  *)
(* with the cursors and the mentions of its sessions, and the shadow       *)
(* ledger of the writes the sessions make.                                 *)
(***************************************************************************)
EXTENDS Seats, Requests, CodexTurns, SessionHost, ThreadLog, ShadowLedger, DataProofs

-----------------------------------------------------------------------------
(***************************************************************************)
(* Seats and claims are held by those who may, for any number of sessions, *)
(* roles, documents and restarts.                                          *)
(*                                                                         *)
(* WorkersHoldClaims is not inductive alone: a session that is adopted     *)
(* after a restart becomes known without any claim, so the invariant must  *)
(* say that it is nobody's worker any more (WorkersAreKnown).              *)
(***************************************************************************)
\* A worker's surface is forgotten when its process ends and when the server does.
WorkersAreKnown == \A s \in Sids : worker[s] # Free => s \in known

SeatsInv == SeatsTypeOK /\ SeatedAreMembers /\ WorkersHoldClaims /\ WorkersAreKnown

\* Onboarding keeps the roster well formed, and whoever sits is a member of the right role.
LEMMA OnboardKeepsSeats ==
    ASSUME SeatsTypeOK, SeatedAreMembers,
           NEW s \in Sids, NEW byEdge \in BOOLEAN, Onboard(s, byEdge)
    PROVE  /\ members' \subseteq Sids /\ announced' \subseteq Sids
           /\ seat' \in [Roles -> Sids \cup {Free}]
           /\ SeatedAreMembers'
<1>1. RoleOf[s] \in Roles /\ s # Free
  BY SeatAssumption
<1>2. members' = members \cup {s} /\ announced' \subseteq announced \cup {s}
  BY DEF Onboard
<1>3. seat' = seat \/ seat' = [seat EXCEPT ![RoleOf[s]] = s]
  BY DEF Onboard
<1>4. seat \in [Roles -> Sids \cup {Free}] /\ members \subseteq Sids /\ announced \subseteq Sids
  BY DEF SeatsTypeOK
<1>5. SeatedAreMembers'
  BY <1>1, <1>2, <1>3, <1>4 DEF SeatedAreMembers
<1> QED
  BY <1>1, <1>2, <1>3, <1>4, <1>5

\* Nobody is left in a seat that its occupant gave up, and nobody else is moved.
LEMMA VacatedType ==
    ASSUME SeatsTypeOK, NEW s \in Sids
    PROVE  /\ Vacated(s) \in [Roles -> Sids \cup {Free}]
           /\ \A r \in Roles : Vacated(s)[r] = IF seat[r] = s THEN Free ELSE seat[r]
BY DEF Vacated, SeatsTypeOK

\* A worker spawned for a surface nobody live holds: the claim is its own, and no other's is lost.
LEMMA SpawnKeepsClaims ==
    ASSUME SeatsInv, NEW s \in Sids, NEW k \in Surfaces, SpawnWorker(s, k), claims[k] \notin known
    PROVE  SeatsInv'
<1>1. /\ s \notin used /\ used' = used \cup {s} /\ alive' = alive \cup {s} /\ known' = known \cup {s}
      /\ worker' = [worker EXCEPT ![s] = k] /\ claims' = [claims EXCEPT ![k] = s]
      /\ done' = done /\ rebooted' = rebooted
  BY DEF SpawnWorker, Launch
<1>2. s # Free
  BY SeatAssumption
<1>3. /\ members' \subseteq Sids /\ announced' \subseteq Sids
      /\ seat' \in [Roles -> Sids \cup {Free}]
      /\ edge' \in [Sids -> {"none", "pending", "open"}]
      /\ SeatedAreMembers'
  <2>1. CASE k \in Roles
    <3>1. Onboard(s, TRUE) /\ edge' = [edge EXCEPT ![s] = "open"]
      BY <2>1 DEF SpawnWorker
    <3>2. edge' \in [Sids -> {"none", "pending", "open"}]
      BY <3>1 DEF SeatsInv, SeatsTypeOK
    <3> QED
      BY <3>1, <3>2, OnboardKeepsSeats DEF SeatsInv
  <2>2. CASE k \notin Roles
    <3>1. members' = members /\ announced' = announced /\ seat' = seat /\ edge' = edge
      BY <2>2 DEF SpawnWorker
    <3> QED
      BY <3>1 DEF SeatsInv, SeatsTypeOK, SeatedAreMembers
  <2> QED
    BY <2>1, <2>2
<1>4. SeatsTypeOK'
  BY <1>1, <1>3 DEF SeatsInv, SeatsTypeOK
<1>5. WorkersHoldClaims'
  <2>1. SUFFICES ASSUME NEW t \in known', worker'[t] # Free
                 PROVE  claims'[worker'[t]] = t
    BY DEF WorkersHoldClaims
  <2>2. CASE t = s
    BY <1>1, <2>2 DEF SeatsInv, SeatsTypeOK
  <2>3. CASE t # s
    <3>1. t \in known /\ t \in Sids /\ worker'[t] = worker[t]
      BY <1>1, <2>3 DEF SeatsInv, SeatsTypeOK
    <3>2. claims[worker[t]] = t /\ worker[t] \in Surfaces
      BY <2>1, <3>1 DEF SeatsInv, SeatsTypeOK, WorkersHoldClaims
    <3>3. worker[t] # k
      BY <3>1, <3>2
    <3> QED
      BY <1>1, <3>1, <3>2, <3>3 DEF SeatsInv, SeatsTypeOK
  <2> QED
    BY <2>2, <2>3
<1>6. WorkersAreKnown'
  BY <1>1 DEF SeatsInv, SeatsTypeOK, WorkersAreKnown
<1> QED
  BY <1>3, <1>4, <1>5, <1>6 DEF SeatsInv

\* An empty thread satisfies the invariant.
LEMMA SeatsInvInit == SeatsInit => SeatsInv
<1> SUFFICES ASSUME SeatsInit PROVE SeatsInv
  OBVIOUS
<1>1. SeatsTypeOK
  BY SeatAssumption DEF SeatsInit, SeatsTypeOK, Unclaimed
<1>2. SeatedAreMembers /\ WorkersHoldClaims /\ WorkersAreKnown
  BY DEF SeatsInit, SeatedAreMembers, WorkersHoldClaims, WorkersAreKnown
<1> QED
  BY <1>1, <1>2 DEF SeatsInv

\* Every step of members, sessions and server keeps it.
LEMMA SeatsInvStep == SeatsInv /\ [SeatsNext]_seatVars => SeatsInv'
<1> SUFFICES ASSUME SeatsInv, [SeatsNext]_seatVars PROVE SeatsInv'
  OBVIOUS
<1> USE SeatAssumption
<1>0. SeatsTypeOK /\ SeatedAreMembers /\ WorkersHoldClaims /\ WorkersAreKnown
  BY DEF SeatsInv
<1>1. ASSUME NEW s \in Sids, Join(s) PROVE SeatsInv'
  <2>1. /\ Onboard(s, FALSE) /\ edge' = [edge EXCEPT ![s] = "open"]
        /\ UNCHANGED <<processes, done, rebooted>>
    BY <1>1 DEF Join
  <2>2. /\ members' \subseteq Sids /\ announced' \subseteq Sids
        /\ seat' \in [Roles -> Sids \cup {Free}] /\ SeatedAreMembers'
    BY <1>0, <2>1, OnboardKeepsSeats
  <2>3. edge' \in [Sids -> {"none", "pending", "open"}]
    BY <1>0, <2>1 DEF SeatsTypeOK
  <2> QED
    BY <1>0, <2>1, <2>2, <2>3
    DEF SeatsInv, SeatsTypeOK, WorkersHoldClaims, WorkersAreKnown, processes
<1>2. ASSUME NEW s \in Sids, EdgeShows(s) PROVE SeatsInv'
  <2>1. /\ Onboard(s, TRUE) /\ edge' = [edge EXCEPT ![s] = "open"]
        /\ UNCHANGED <<processes, done, rebooted>>
    BY <1>2 DEF EdgeShows
  <2>2. /\ members' \subseteq Sids /\ announced' \subseteq Sids
        /\ seat' \in [Roles -> Sids \cup {Free}] /\ SeatedAreMembers'
    BY <1>0, <2>1, OnboardKeepsSeats
  <2>3. edge' \in [Sids -> {"none", "pending", "open"}]
    BY <1>0, <2>1 DEF SeatsTypeOK
  <2> QED
    BY <1>0, <2>1, <2>2, <2>3
    DEF SeatsInv, SeatsTypeOK, WorkersHoldClaims, WorkersAreKnown, processes
<1>3. ASSUME NEW s \in Sids, Invite(s) PROVE SeatsInv'
  BY <1>0, <1>3 DEF Invite, processes, SeatsInv, SeatsTypeOK, SeatedAreMembers, WorkersHoldClaims, WorkersAreKnown
<1>4. ASSUME NEW s \in Sids, EdgeVanishes(s) PROVE SeatsInv'
  BY <1>0, <1>4 DEF EdgeVanishes, processes, SeatsInv, SeatsTypeOK, SeatedAreMembers, WorkersHoldClaims, WorkersAreKnown
<1>5. ASSUME NEW s \in Sids, Leave(s) PROVE SeatsInv'
  <2>1. SeatedAreMembers'
    BY <1>0, <1>5, VacatedType DEF Leave, SeatedAreMembers, SeatsTypeOK
  <2>2. SeatsTypeOK'
    BY <1>0, <1>5, VacatedType DEF Leave, processes, SeatsTypeOK
  <2>3. WorkersHoldClaims' /\ WorkersAreKnown'
    BY <1>0, <1>5 DEF Leave, processes, WorkersHoldClaims, WorkersAreKnown
  <2> QED
    BY <2>1, <2>2, <2>3 DEF SeatsInv
<1>6. ASSUME NEW s \in Sids, NEW finished \in BOOLEAN, Declare(s, finished) PROVE SeatsInv'
  BY <1>0, <1>6 DEF Declare, processes, SeatsInv, SeatsTypeOK, SeatedAreMembers, WorkersHoldClaims, WorkersAreKnown
<1>7. ASSUME NEW s \in Sids, Detach(s) PROVE SeatsInv'
  <2>1. SeatedAreMembers'
    BY <1>0, <1>7, VacatedType DEF Detach, SeatedAreMembers, SeatsTypeOK
  <2>2. SeatsTypeOK'
    BY <1>0, <1>7, VacatedType DEF Detach, processes, SeatsTypeOK
  <2>3. WorkersHoldClaims' /\ WorkersAreKnown'
    BY <1>0, <1>7 DEF Detach, processes, WorkersHoldClaims, WorkersAreKnown
  <2> QED
    BY <2>1, <2>2, <2>3 DEF SeatsInv
<1>8. ASSUME NEW s \in Sids, StartSession(s) PROVE SeatsInv'
  BY <1>0, <1>8
  DEF StartSession, Launch, roster, SeatsInv, SeatsTypeOK, SeatedAreMembers, WorkersHoldClaims, WorkersAreKnown
<1>9. ASSUME NEW s \in Sids, Exits(s) PROVE SeatsInv'
  <2>1. SeatsTypeOK'
    BY <1>0, <1>9 DEF Exits, Released, roster, SeatsTypeOK
  <2>2. SeatedAreMembers' /\ WorkersAreKnown'
    BY <1>0, <1>9 DEF Exits, roster, SeatsTypeOK, SeatedAreMembers, WorkersAreKnown
  <2>3. WorkersHoldClaims'
    BY <1>0, <1>9 DEF Exits, Released, SeatsTypeOK, WorkersHoldClaims
  <2> QED
    BY <2>1, <2>2, <2>3 DEF SeatsInv
<1>10. ASSUME NEW s \in Sids, Adopt(s) PROVE SeatsInv'
  BY <1>0, <1>10
  DEF Adopt, roster, SeatsInv, SeatsTypeOK, SeatedAreMembers, WorkersHoldClaims, WorkersAreKnown
<1>11. ASSUME NEW r \in Roles, Mention(r) PROVE SeatsInv'
  <2>1. PICK s \in Sids : SpawnWorker(s, r)
    BY <1>11 DEF Mention
  <2>2. claims[r] \notin known
    BY <1>0, <1>11 DEF Mention, MaySummon, SeatsTypeOK
  <2> QED
    BY <2>1, <2>2, SpawnKeepsClaims DEF Surfaces
<1>12. ASSUME NEW d \in Docs, DocActivity(d) PROVE SeatsInv'
  <2>1. PICK s \in Sids : SpawnWorker(s, d)
    BY <1>12 DEF DocActivity
  <2> QED
    BY <1>12, <2>1, SpawnKeepsClaims DEF Surfaces, DocActivity
<1>13. CASE RestartSeats
  <2>1. SeatsTypeOK'
    BY <1>0, <1>13 DEF RestartSeats, Unclaimed, SeatsTypeOK
  <2>2. SeatedAreMembers' /\ WorkersHoldClaims' /\ WorkersAreKnown'
    BY <1>0, <1>13 DEF RestartSeats, SeatsTypeOK, SeatedAreMembers, WorkersHoldClaims, WorkersAreKnown
  <2> QED
    BY <2>1, <2>2 DEF SeatsInv
<1>14. CASE UNCHANGED seatVars
  BY <1>0, <1>14
  DEF seatVars, processes, roster, SeatsInv, SeatsTypeOK, SeatedAreMembers, WorkersHoldClaims, WorkersAreKnown
<1> QED
  BY <1>1, <1>2, <1>3, <1>4, <1>5, <1>6, <1>7, <1>8, <1>9, <1>10, <1>11, <1>12, <1>13, <1>14
  DEF SeatsNext

\* The inductive invariant holds in every reachable state: the types, the seats, the claims, and
\* that only a known session still has a surface.
THEOREM SeatsInvariance == SeatsSpec => []SeatsInv
BY SeatsInvInit, SeatsInvStep, PTL DEF SeatsSpec

\* Whoever sits in a role's seat is on the roster and of that role, and each live auto-spawned
\* worker holds the claim it was spawned under (server-delivery.ts, auto-wake.js).
THEOREM SeatsAreHeld == SeatsSpec => []SeatsHold
<1>1. SeatsInv => SeatsHold
  BY DEF SeatsInv, SeatsHold
<1> QED
  BY <1>1, SeatsInvariance, PTL

\* No step displaces a live holder that stays on the roster (fillSeat, thread-ledger.js).
THEOREM LiveHoldersStay == SeatsSpec => LiveSeatKept
<1> DEFINE Kept == \A r \in Roles : seat[r] \in known \cap members' => seat'[r] = seat[r]
<1>1. ASSUME SeatsInv, [SeatsNext]_seatVars PROVE Kept
  <2> USE SeatAssumption
  <2>0. SeatsTypeOK
    BY <1>1 DEF SeatsInv
  <2>1. ASSUME NEW s \in Sids, NEW byEdge \in BOOLEAN, Onboard(s, byEdge) PROVE Kept
    BY <2>0, <2>1 DEF Onboard, MayTake, SeatsTypeOK
  <2>2. ASSUME NEW s \in Sids, members' = members \ {s}, seat' = Vacated(s) PROVE Kept
    BY <2>0, <2>2, VacatedType
  <2>3. ASSUME NEW s \in Sids, NEW k \in Surfaces, SpawnWorker(s, k) PROVE Kept
    <3>1. CASE k \in Roles
      BY <2>1, <2>3, <3>1 DEF SpawnWorker
    <3>2. CASE k \notin Roles
      BY <2>3, <3>2 DEF SpawnWorker
    <3> QED
      BY <3>1, <3>2
  <2>4. ASSUME UNCHANGED seat PROVE Kept
    BY <2>4
  <2>5. CASE \E s \in Sids : Join(s) \/ EdgeShows(s)
    BY <2>1, <2>5 DEF Join, EdgeShows
  <2>6. CASE \E s \in Sids : Leave(s) \/ Detach(s)
    BY <2>2, <2>6 DEF Leave, Detach
  <2>7. CASE \E s \in Sids : Invite(s) \/ EdgeVanishes(s) \/ Declare(s, TRUE) \/ Declare(s, FALSE)
    BY <2>4, <2>7 DEF Invite, EdgeVanishes, Declare
  <2>8. CASE \E s \in Sids : StartSession(s) \/ Exits(s) \/ Adopt(s)
    BY <2>4, <2>8 DEF StartSession, Exits, Adopt, roster
  <2>9. CASE \E r \in Roles : Mention(r)
    BY <2>3, <2>9 DEF Mention, Surfaces
  <2>10. CASE \E d \in Docs : DocActivity(d)
    BY <2>3, <2>10 DEF DocActivity, Surfaces
  <2>11. CASE RestartSeats \/ UNCHANGED seatVars
    BY <2>4, <2>11 DEF RestartSeats, seatVars, roster
  <2> QED
    BY <1>1, <2>5, <2>6, <2>7, <2>8, <2>9, <2>10, <2>11 DEF SeatsNext
<1>2. SeatsInv /\ [SeatsNext]_seatVars => [Kept]_seatVars
  BY <1>1
<1> QED
  BY <1>2, SeatsInvariance, PTL DEF SeatsSpec, LiveSeatKept

-----------------------------------------------------------------------------
(***************************************************************************)
(* A decision that was confirmed is the one the asker gets, if it has not  *)
(* hung up, for any number of requests and of restarts of the server.      *)
(*                                                                         *)
(* For a request answered on its own response that is nearly inductive.    *)
(* For a Codex approval it rests on an ordering: a request is not shown    *)
(* again once it was decided, because the event that shows it was handled  *)
(* before, and because a new server lists what the host holds only after   *)
(* the host took the answers of the old one.                               *)
(***************************************************************************)
Allowed(r) == <<r, "allow">> \in Range(answers)
ToBeShown(r) == <<"request", r>> \in Range(events)

AnswerSet == Codex \X (Outcomes \cup {"kill"})
EventSet == {"request", "resolved"} \X Codex

\* Codex approvals: what was decided is out of sight, and on its way to the host while it waits.
CodexDecided ==
    \A r \in Codex :
        /\ asker[r] = "waiting" <=> r \in held
        /\ asker[r] = "new" => promised[r] = "none" /\ r \notin shown /\ ~ToBeShown(r)
        /\ asker[r] = "allow" => promised[r] = "allow"
        /\ Allowed(r) => promised[r] = "allow"
        /\ r \in shown => ~ToBeShown(r)
        /\ promised[r] # "none" => r \notin shown /\ ~ToBeShown(r)
        /\ promised[r] # "none" /\ r \in held => <<r, promised[r]>> \in Range(answers)

\* A request is announced once.
AnnouncedOnce == \A r \in Codex : Once(events, <<"request", r>>)

\* What holds of a request that is answered on its own response: what is shown is waited for or its
\* asker hung up, what was decided was answered, and who hung up has no allow.
AnsweredWell(r) ==
    /\ r \in shown => asker[r] = "waiting" \/ r \in vanished
    /\ asker[r] = "allow" => promised[r] = "allow"
    /\ promised[r] # "none" => asker[r] = promised[r] \/ r \in vanished
    /\ r \in vanished => asker[r] = "deny"

HeldOpen == \A r \in Claude \cup Asks : AnsweredWell(r)

RequestsInv == RequestTypeOK /\ CodexDecided /\ AnnouncedOnce /\ HeldOpen


\* Without questions the invariant holds.
LEMMA RequestsInvInit == RequestInit => RequestsInv
<1> SUFFICES ASSUME RequestInit PROVE RequestsInv
  OBVIOUS
<1>1. Range(answers) = {} /\ Range(events) = {}
  BY DEF RequestInit, Range
<1>2. RequestTypeOK
  <2>1. answers \in Seq(AnswerSet) /\ events \in Seq(EventSet)
    BY DEF RequestInit
  <2> QED
    BY <2>1 DEF RequestInit, RequestTypeOK, AnswerSet, EventSet
<1>3. CodexDecided /\ HeldOpen
  BY <1>1 DEF RequestInit, CodexDecided, HeldOpen, AnsweredWell, Allowed, ToBeShown, Requests, Outcomes
<1>4. AnnouncedOnce
  BY DEF RequestInit, AnnouncedOnce, Once
<1> QED
  BY <1>2, <1>3, <1>4 DEF RequestsInv

\* An answer on a response is heard unless its asker hung up.
LEMMA HeardByOthers ==
    ASSUME NEW r, r \notin Codex, NEW outcome
    PROVE  HeardBy(r, outcome) = IF r \in vanished THEN asker ELSE [asker EXCEPT ![r] = outcome]
BY Zenon DEF HeardBy

\* Where an entry is settled: the answers grow by the outcome of a Codex approval.
LEMMA SettleKeeps ==
    ASSUME RequestsInv, NEW r \in shown, NEW outcome \in Outcomes, Settle(r, outcome)
    PROVE  /\ r \in Requests /\ shown' = shown \ {r}
           /\ asker' \in [Requests -> {"new", "waiting"} \cup Outcomes] /\ answers' \in Seq(AnswerSet)
           /\ r \in Codex => asker' = asker /\ Range(answers') = Range(answers) \cup {<<r, outcome>>}
           /\ r \notin Codex => answers' = answers /\ asker' = (IF r \in vanished THEN asker ELSE [asker EXCEPT ![r] = outcome])
<1>1. r \in Requests /\ answers \in Seq(AnswerSet) /\ asker \in [Requests -> {"new", "waiting"} \cup Outcomes]
  BY DEF RequestsInv, RequestTypeOK, AnswerSet
<1>2. CASE r \in Codex
  <2>0. HeardBy(r, outcome) = asker
    BY <1>2 DEF HeardBy
  <2>1. <<r, outcome>> \in AnswerSet /\ answers' = Append(answers, <<r, outcome>>) /\ asker' = asker
    BY <1>2, <2>0 DEF Settle, AnswerSet
  <2>2. /\ Append(answers, <<r, outcome>>) \in Seq(AnswerSet)
        /\ Range(Append(answers, <<r, outcome>>)) = Range(answers) \cup {<<r, outcome>>}
    BY <1>1, <2>1, AppendRange
  <2> QED
    BY <1>1, <1>2, <2>1, <2>2 DEF Settle
<1>3. CASE r \notin Codex
  <2>1. /\ shown' = shown \ {r} /\ answers' = answers
        /\ asker' = IF r \in vanished THEN asker ELSE [asker EXCEPT ![r] = outcome]
    BY <1>3, HeardByOthers DEF Settle
  <2>2. [asker EXCEPT ![r] = outcome] \in [Requests -> {"new", "waiting"} \cup Outcomes]
    BY <1>1
  <2> QED
    BY <1>1, <1>3, <2>1, <2>2
<1> QED
  BY <1>2, <1>3

\* Where the host settles what it holds: once, and the server is told.
LEMMA SettleHeldKeeps ==
    ASSUME RequestsInv, NEW r \in Codex, NEW outcome \in Outcomes, SettleHeld(r, outcome)
    PROVE  /\ asker' \in [Requests -> {"new", "waiting"} \cup Outcomes] /\ events' \in Seq(EventSet)
           /\ held' = held \ {r} /\ AnnouncedOnce'
           /\ \A q \in Codex : ToBeShown(q)' <=> ToBeShown(q)
           /\ IF r \in held THEN asker' = [asker EXCEPT ![r] = outcome] ELSE asker' = asker
<1>1. r \in Requests /\ events \in Seq(EventSet) /\ asker \in [Requests -> {"new", "waiting"} \cup Outcomes]
  BY DEF RequestsInv, RequestTypeOK, EventSet, Requests
<1>2. CASE r \in held
  <2>1. <<"resolved", r>> \in EventSet /\ events' = Append(events, <<"resolved", r>>)
        /\ held' = held \ {r} /\ asker' = [asker EXCEPT ![r] = outcome]
    BY <1>2 DEF SettleHeld, EventSet
  <2>2. events' \in Seq(EventSet) /\ Range(events') = Range(events) \cup {<<"resolved", r>>}
    <3> DEFINE e == <<"resolved", r>>
    <3>1. e \in EventSet /\ events' = Append(events, e) /\ events \in Seq(EventSet)
      BY <1>1, <2>1
    <3> HIDE DEF e
    <3>2. Append(events, e) \in Seq(EventSet) /\ Range(Append(events, e)) = Range(events) \cup {e}
      BY <3>1, AppendRange
    <3> QED
      BY <3>1, <3>2 DEF e
  <2>3. \A q \in Codex : <<"request", q>> # <<"resolved", r>>
    OBVIOUS
  <2>4. AnnouncedOnce'
    BY <1>1, <2>1, <2>3, AppendOnce DEF RequestsInv, AnnouncedOnce
  <2> QED
    BY <1>1, <1>2, <2>1, <2>2, <2>3, <2>4 DEF ToBeShown
<1>3. CASE r \notin held
  BY <1>1, <1>3 DEF SettleHeld, ToBeShown, RequestsInv, AnnouncedOnce, Once
<1> QED
  BY <1>2, <1>3

\* A person's decision keeps the invariant.
LEMMA DecideKeeps ==
    ASSUME RequestsInv, NEW r \in Requests, NEW outcome \in Outcomes, Decide(r, outcome)
    PROVE  RequestsInv'
<1>0. /\ r \in shown /\ promised' = [promised EXCEPT ![r] = outcome]
      /\ UNCHANGED <<held, events, ended, vanished, unclosed>> /\ Settle(r, outcome)
      /\ promised \in [Requests -> {"none"} \cup Outcomes] /\ outcome # "none"
  BY DEF Decide, RequestsInv, RequestTypeOK, Outcomes
<1>1. /\ shown' = shown \ {r}
      /\ asker' \in [Requests -> {"new", "waiting"} \cup Outcomes] /\ answers' \in Seq(AnswerSet)
      /\ r \in Codex => asker' = asker /\ Range(answers') = Range(answers) \cup {<<r, outcome>>}
      /\ r \notin Codex => answers' = answers /\ asker' = (IF r \in vanished THEN asker ELSE [asker EXCEPT ![r] = outcome])
  BY <1>0, SettleKeeps
<1>2. RequestTypeOK'
  BY <1>0, <1>1 DEF RequestsInv, RequestTypeOK, AnswerSet
<1>3. AnnouncedOnce' /\ \A q \in Codex : ToBeShown(q)' <=> ToBeShown(q)
  BY <1>0 DEF ToBeShown, AnnouncedOnce, RequestsInv, Once
<1>4. asker \in [Requests -> {"new", "waiting"} \cup Outcomes]
  BY DEF RequestsInv, RequestTypeOK
<1>5. CASE r \in Codex
  <2>1. promised[r] = "none" /\ ~ToBeShown(r) /\ asker[r] # "new" /\ ~Allowed(r) /\ asker[r] # "allow"
    BY <1>0, <1>5 DEF RequestsInv, CodexDecided
  <2>2. ASSUME NEW q \in Codex
        PROVE  /\ asker'[q] = "waiting" <=> q \in held'
               /\ asker'[q] = "new" => promised'[q] = "none" /\ q \notin shown' /\ ~ToBeShown(q)'
               /\ asker'[q] = "allow" => promised'[q] = "allow"
               /\ Allowed(q)' => promised'[q] = "allow"
               /\ q \in shown' => ~ToBeShown(q)'
               /\ promised'[q] # "none" => q \notin shown' /\ ~ToBeShown(q)'
               /\ promised'[q] # "none" /\ q \in held' => <<q, promised'[q]>> \in Range(answers')
    <3>0. q \in Requests
      BY DEF Requests
    <3>1. CASE q = r
      <4>1. promised'[q] = outcome
        BY <1>0, <3>0, <3>1
      <4>2. Allowed(q)' => outcome = "allow"
        BY <1>1, <1>5, <2>1, <3>1 DEF Allowed
      <4> QED
        BY <1>0, <1>1, <1>3, <1>5, <2>1, <3>1, <4>1, <4>2 DEF RequestsInv, CodexDecided
    <3>2. CASE q # r
      <4>1. promised'[q] = promised[q] /\ (Allowed(q)' <=> Allowed(q)) /\ (q \in shown' <=> q \in shown)
        BY <1>0, <1>1, <1>5, <3>0, <3>2 DEF Allowed
      <4> QED
        BY <1>0, <1>1, <1>3, <1>5, <4>1 DEF RequestsInv, CodexDecided
    <3> QED
      BY <3>1, <3>2
  <2>3. CodexDecided'
    BY <2>2 DEF CodexDecided
  <2>4. HeldOpen'
    BY RequestAssumption, <1>0, <1>1, <1>5 DEF RequestsInv, HeldOpen, AnsweredWell, Requests
  <2> QED
    BY <1>2, <1>3, <2>3, <2>4 DEF RequestsInv
<1>6. CASE r \notin Codex
  <2>1. CodexDecided'
    BY <1>0, <1>1, <1>3, <1>4, <1>6 DEF RequestsInv, CodexDecided, Allowed, Requests
  <2>2. HeldOpen'
    BY <1>0, <1>1, <1>4, <1>6 DEF RequestsInv, HeldOpen, AnsweredWell, Requests, Outcomes
  <2> QED
    BY <1>2, <1>3, <2>1, <2>2 DEF RequestsInv
<1> QED
  BY <1>5, <1>6

\* So does a hold that times out.
LEMMA TimesOutKeeps ==
    ASSUME RequestsInv, NEW r \in Requests, TimesOut(r)
    PROVE  RequestsInv'
<1>0. /\ r \in shown /\ promised' = promised
      /\ UNCHANGED <<held, events, ended, vanished, unclosed>> /\ Settle(r, "deny") /\ "deny" \in Outcomes
  BY DEF TimesOut, Outcomes
<1>1. /\ shown' = shown \ {r}
      /\ asker' \in [Requests -> {"new", "waiting"} \cup Outcomes] /\ answers' \in Seq(AnswerSet)
      /\ r \in Codex => asker' = asker /\ Range(answers') = Range(answers) \cup {<<r, "deny">>}
      /\ r \notin Codex => answers' = answers /\ asker' = (IF r \in vanished THEN asker ELSE [asker EXCEPT ![r] = "deny"])
  BY <1>0, SettleKeeps
<1>2. RequestTypeOK'
  BY <1>0, <1>1 DEF RequestsInv, RequestTypeOK, AnswerSet
<1>3. AnnouncedOnce' /\ \A q \in Codex : ToBeShown(q)' <=> ToBeShown(q)
  BY <1>0 DEF ToBeShown, AnnouncedOnce, RequestsInv, Once
<1>4. asker \in [Requests -> {"new", "waiting"} \cup Outcomes]
  BY DEF RequestsInv, RequestTypeOK
<1>5. CASE r \in Codex
  <2>1. \A q \in Codex : Allowed(q)' <=> Allowed(q)
    BY <1>1, <1>5 DEF Allowed
  <2>2. CodexDecided'
    BY <1>0, <1>1, <1>3, <1>5, <2>1 DEF RequestsInv, CodexDecided
  <2>3. HeldOpen'
    BY <1>0, <1>1, <1>5 DEF RequestsInv, HeldOpen, AnsweredWell
  <2> QED
    BY <1>2, <1>3, <2>2, <2>3 DEF RequestsInv
<1>6. CASE r \notin Codex
  <2>1. CodexDecided'
    BY <1>0, <1>1, <1>3, <1>4, <1>6 DEF RequestsInv, CodexDecided, Allowed, Requests
  <2>2. (asker[r] = "waiting" /\ promised[r] = "none") \/ r \in vanished
    BY <1>0, <1>6 DEF RequestsInv, RequestTypeOK, HeldOpen, AnsweredWell, Requests, Outcomes
  <2>3. HeldOpen'
    BY <1>0, <1>1, <1>4, <1>6, <2>2 DEF RequestsInv, HeldOpen, AnsweredWell, Requests
  <2> QED
    BY <1>2, <1>3, <2>1, <2>3 DEF RequestsInv
<1> QED
  BY <1>5, <1>6

\* The steps on a response: a question is asked, its asker hangs up, the server handles the close.
LEMMA ResponsesKeep ==
    ASSUME RequestsInv, NEW r \in Requests, Ask(r) \/ HangsUp(r) \/ Closes(r)
    PROVE  RequestsInv'
<1>0. /\ UNCHANGED <<held, answers, events, ended, promised>>
      /\ r \in Claude \cup Asks /\ r \notin Codex
      /\ \/ /\ asker[r] = "new" /\ UNCHANGED <<vanished, unclosed>>
            /\ \/ asker' = [asker EXCEPT ![r] = "waiting"] /\ shown' = shown \cup {r}
               \/ asker' = [asker EXCEPT ![r] = "deny"] /\ shown' = shown
         \/ /\ asker[r] = "waiting" /\ asker' = [asker EXCEPT ![r] = "deny"] /\ shown' = shown
            /\ vanished' = vanished \cup {r} /\ unclosed' = unclosed \cup ({r} \cap Claude)
         \/ /\ UNCHANGED <<asker, vanished>> /\ shown' = shown \ {r} /\ unclosed' = unclosed \ {r}
  BY RequestAssumption DEF Ask, HangsUp, Closes, RequestsInv, RequestTypeOK
<1>1. /\ asker \in [Requests -> {"new", "waiting"} \cup Outcomes]
      /\ vanished \subseteq Claude \cup Asks /\ unclosed \subseteq Claude \cap vanished
  BY DEF RequestsInv, RequestTypeOK
<1>2. RequestTypeOK'
  <2>1. asker' \in [Requests -> {"new", "waiting"} \cup Outcomes] /\ shown' \subseteq Requests
    BY <1>0, <1>1 DEF RequestsInv, RequestTypeOK, Outcomes
  <2>2. vanished' \subseteq Claude \cup Asks /\ unclosed' \subseteq Claude \cap vanished'
    BY <1>0, <1>1
  <2> QED
    BY <1>0, <2>1, <2>2 DEF RequestsInv, RequestTypeOK
<1>3. CodexDecided' /\ AnnouncedOnce'
  <2>1. \A q \in Codex : q # r /\ q \in Requests
    BY <1>0 DEF Requests
  <2>2. \A q \in Codex : asker'[q] = asker[q] /\ (q \in shown' <=> q \in shown)
    BY <1>0, <1>1, <2>1
  <2>3. \A q \in Codex : (Allowed(q)' <=> Allowed(q)) /\ (ToBeShown(q)' <=> ToBeShown(q))
    BY <1>0 DEF Allowed, ToBeShown
  <2> QED
    BY <1>0, <2>2, <2>3 DEF RequestsInv, CodexDecided, AnnouncedOnce
<1>4. ASSUME NEW q \in Claude \cup Asks PROVE AnsweredWell(q)'
  <2>1. AnsweredWell(q) /\ q \in Requests /\ AnsweredWell(r)
    BY <1>0 DEF RequestsInv, HeldOpen, Requests
  <2>2. CASE q # r
    <3>1. asker'[q] = asker[q] /\ (q \in shown' <=> q \in shown) /\ (q \in vanished' <=> q \in vanished)
      BY <1>0, <1>1, <2>1, <2>2
    <3> QED
      BY <1>0, <2>1, <3>1 DEF AnsweredWell
  <2>3. CASE q = r
    <3>1. asker[r] \in {"new", "waiting"} => promised[r] = "none" /\ r \notin vanished
      <4>1. promised[r] \in {"none", "allow", "deny"}
        BY DEF RequestsInv, RequestTypeOK, Outcomes
      <4> QED
        BY <2>1, <4>1 DEF AnsweredWell
    <3>2. CASE asker[r] = "new" /\ UNCHANGED <<vanished, unclosed>>
      BY <1>0, <1>1, <2>1, <2>3, <3>1, <3>2 DEF AnsweredWell
    <3>3. CASE asker[r] = "waiting" /\ asker' = [asker EXCEPT ![r] = "deny"] /\ vanished' = vanished \cup {r}
      BY <1>0, <1>1, <2>1, <2>3, <3>1, <3>3 DEF AnsweredWell
    <3>4. CASE UNCHANGED <<asker, vanished>> /\ shown' = shown \ {r}
      BY <1>0, <2>1, <2>3, <3>4 DEF AnsweredWell
    <3> QED
      BY <1>0, <3>2, <3>3, <3>4
  <2> QED
    BY <2>2, <2>3
<1>5. HeldOpen'
  BY <1>4 DEF HeldOpen
<1> QED
  BY <1>2, <1>3, <1>5 DEF RequestsInv

\* So does an approval the app-server raises: it is announced once, as it is new.
LEMMA RaiseKeeps ==
    ASSUME RequestsInv, NEW r \in Requests, Raise(r)
    PROVE  RequestsInv'
<1> DEFINE e == <<"request", r>>
<1>0. /\ r \in Codex /\ asker[r] = "new" /\ asker' = [asker EXCEPT ![r] = "waiting"]
      /\ held' = held \cup {r} /\ events' = Append(events, e) /\ e \in EventSet /\ events \in Seq(EventSet)
      /\ UNCHANGED <<shown, answers, ended, vanished, unclosed, promised>>
  BY DEF Raise, EventSet, RequestsInv, RequestTypeOK
<1>1. asker \in [Requests -> {"new", "waiting"} \cup Outcomes]
  BY DEF RequestsInv, RequestTypeOK
<1>2. promised[r] = "none" /\ r \notin shown /\ ~ToBeShown(r)
  BY <1>0 DEF RequestsInv, CodexDecided
<1>3. Append(events, e) \in Seq(EventSet) /\ Range(Append(events, e)) = Range(events) \cup {e}
  <2> HIDE DEF e
  <2> QED
    BY <1>0, AppendRange
<1>4. \A q \in Codex : ToBeShown(q)' <=> ToBeShown(q) \/ q = r
  BY <1>0, <1>3 DEF ToBeShown
<1>5. AnnouncedOnce'
  <2>1. ASSUME NEW q \in Codex PROVE Once(Append(events, e), <<"request", q>>)
    <3> DEFINE x == <<"request", q>>
    <3>1. x # e \/ x \notin Range(events)
      BY <1>2 DEF ToBeShown
    <3>2. Once(events, x)
      BY DEF RequestsInv, AnnouncedOnce
    <3> HIDE DEF e, x
    <3>3. Once(Append(events, e), x)
      BY <1>0, <3>1, <3>2, AppendOnce
    <3> QED
      BY <3>3 DEF x
  <2> QED
    BY <1>0, <2>1 DEF AnnouncedOnce
<1>6. RequestTypeOK'
  <2>1. events' \in Seq(EventSet)
    BY <1>0, <1>3
  <2> QED
    BY <1>0, <1>1, <2>1 DEF RequestsInv, RequestTypeOK, EventSet
<1>7. CodexDecided'
  BY <1>0, <1>1, <1>2, <1>4 DEF RequestsInv, CodexDecided, Allowed, Requests
<1>8. HeldOpen'
  BY RequestAssumption, <1>0, <1>1 DEF RequestsInv, HeldOpen, AnsweredWell, Requests
<1> QED
  BY <1>5, <1>6, <1>7, <1>8 DEF RequestsInv

\* The host settles what it holds: an allow only for a decision to allow.
LEMMA HostSettles ==
    ASSUME RequestsInv, NEW r \in Codex, NEW outcome \in Outcomes, SettleHeld(r, outcome),
           outcome = "allow" => promised[r] = "allow",
           UNCHANGED <<shown, ended, vanished, unclosed, promised>>,
           answers' \in Seq(AnswerSet), Range(answers') \subseteq Range(answers),
           \A x \in Range(answers) \ Range(answers') : x[1] = r
    PROVE  RequestsInv'
<1>1. /\ asker' \in [Requests -> {"new", "waiting"} \cup Outcomes] /\ events' \in Seq(EventSet)
      /\ held' = held \ {r} /\ AnnouncedOnce'
      /\ \A q \in Codex : ToBeShown(q)' <=> ToBeShown(q)
      /\ IF r \in held THEN asker' = [asker EXCEPT ![r] = outcome] ELSE asker' = asker
  BY SettleHeldKeeps
<1>2. asker \in [Requests -> {"new", "waiting"} \cup Outcomes] /\ r \in Requests /\ r \notin Claude \cup Asks
  BY RequestAssumption DEF RequestsInv, RequestTypeOK, Requests
<1>3. RequestTypeOK'
  BY <1>1 DEF RequestsInv, RequestTypeOK, AnswerSet, EventSet
<1>4. HeldOpen'
  BY <1>1, <1>2 DEF RequestsInv, HeldOpen, AnsweredWell, Requests
<1>5. ASSUME NEW q \in Codex
      PROVE  /\ asker'[q] = "waiting" <=> q \in held'
             /\ asker'[q] = "new" => promised'[q] = "none" /\ q \notin shown' /\ ~ToBeShown(q)'
             /\ asker'[q] = "allow" => promised'[q] = "allow"
             /\ Allowed(q)' => promised'[q] = "allow"
             /\ q \in shown' => ~ToBeShown(q)'
             /\ promised'[q] # "none" => q \notin shown' /\ ~ToBeShown(q)'
             /\ promised'[q] # "none" /\ q \in held' => <<q, promised'[q]>> \in Range(answers')
  <2>1. Allowed(q)' => Allowed(q)
    BY DEF Allowed
  <2>2. /\ asker[q] = "waiting" <=> q \in held
        /\ asker[q] = "new" => promised[q] = "none" /\ q \notin shown /\ ~ToBeShown(q)
        /\ asker[q] = "allow" => promised[q] = "allow"
        /\ Allowed(q) => promised[q] = "allow"
        /\ q \in shown => ~ToBeShown(q)
        /\ promised[q] # "none" => q \notin shown /\ ~ToBeShown(q)
        /\ promised[q] # "none" /\ q \in held => <<q, promised[q]>> \in Range(answers)
    BY DEF RequestsInv, CodexDecided
  <2>3. outcome \notin {"waiting", "new"}
    BY DEF Outcomes
  <2>4. promised[q] # "none" /\ q \in held' => <<q, promised[q]>> \in Range(answers')
    <3>1. q # r => <<q, promised[q]>>[1] # r
      OBVIOUS
    <3> QED
      BY <1>1, <2>2, <3>1
  <2>5. CASE q = r /\ r \in held
    BY <1>1, <1>2, <2>1, <2>2, <2>3, <2>4, <2>5
  <2>6. CASE q # r \/ r \notin held
    <3>1. CASE r \in held
      <4>1. q # r /\ asker' = [asker EXCEPT ![r] = outcome]
        BY <1>1, <2>6, <3>1
      <4>2. asker'[q] = asker[q] /\ q \in Requests
        BY <1>2, <4>1 DEF Requests
      <4>3. q \in held' <=> q \in held
        BY <1>1, <4>1
      <4> QED
        BY <1>1, <2>1, <2>2, <2>4, <4>2, <4>3
    <3>2. CASE r \notin held
      <4>1. asker' = asker /\ held' = held
        BY <1>1, <3>2
      <4> QED
        BY <1>1, <2>1, <2>2, <2>4, <4>1
    <3> QED
      BY <3>1, <3>2
  <2> QED
    BY <2>5, <2>6
<1>6. CodexDecided'
  BY <1>5 DEF CodexDecided
<1> QED
  BY <1>1, <1>3, <1>4, <1>6 DEF RequestsInv

\* So does the host when it takes an answer or abandons an approval.
LEMMA HostKeeps ==
    ASSUME RequestsInv, TakeAnswer \/ \E r \in Requests : Abandon(r)
    PROVE  RequestsInv'
<1>0. answers \in Seq(AnswerSet) /\ held \subseteq Codex /\ "deny" \in Outcomes /\ "allow" \in Outcomes
  BY DEF RequestsInv, RequestTypeOK, AnswerSet, Outcomes
<1>1. ASSUME NEW r \in Requests, Abandon(r) PROVE RequestsInv'
  <2>1. r \in Codex /\ SettleHeld(r, "deny") /\ UNCHANGED <<shown, answers, ended, vanished, unclosed, promised>>
    BY <1>0, <1>1 DEF Abandon
  <2> QED
    BY <1>0, <2>1, HostSettles
<1>2. CASE TakeAnswer
  <2> DEFINE x == Head(answers)
             outcome == IF x[2] = "kill" THEN "deny" ELSE x[2]
  <2>1. /\ answers # <<>> /\ answers' = Tail(answers) /\ SettleHeld(x[1], outcome)
        /\ UNCHANGED <<shown, ended, vanished, unclosed, promised>>
    BY <1>2 DEF TakeAnswer
  <2>2. x \in AnswerSet /\ Tail(answers) \in Seq(AnswerSet) /\ Range(answers) = Range(Tail(answers)) \cup {x}
    BY <1>0, <2>1, TailRange
  <2> HIDE DEF x
  <2>3. x[1] \in Codex /\ x[2] \in Outcomes \cup {"kill"} /\ x = <<x[1], x[2]>>
    BY <2>2 DEF AnswerSet
  <2>4. outcome \in Outcomes /\ (outcome = "allow" => x[2] = "allow")
    BY <2>3 DEF Outcomes
  <2>5. outcome = "allow" => promised[x[1]] = "allow"
    BY <2>2, <2>3, <2>4 DEF RequestsInv, CodexDecided, Allowed
  <2>6. /\ answers' \in Seq(AnswerSet) /\ Range(answers') \subseteq Range(answers)
        /\ \A y \in Range(answers) \ Range(answers') : y[1] = x[1]
    BY <2>1, <2>2
  <2> HIDE DEF outcome
  <2> QED
    BY <2>1, <2>3, <2>4, <2>5, <2>6, HostSettles
<1> QED
  BY <1>1, <1>2

\* So does the server when it folds the host's next event.
LEMMA FoldKeeps ==
    ASSUME RequestsInv, FoldRequestEvent
    PROVE  RequestsInv'
<1> DEFINE x == Head(events)
<1>0. /\ events # <<>> /\ events' = Tail(events) /\ events \in Seq(EventSet)
      /\ shown' = IF x[1] = "request" THEN shown \cup {x[2]} ELSE shown \ {x[2]}
      /\ UNCHANGED <<asker, held, answers, ended, vanished, unclosed, promised>>
  BY DEF FoldRequestEvent, RequestsInv, RequestTypeOK, EventSet
<1>1. x \in EventSet /\ Tail(events) \in Seq(EventSet) /\ Range(events) = Range(Tail(events)) \cup {x}
  BY <1>0, TailRange
<1>2. ASSUME NEW q \in Codex
      PROVE  Once(Tail(events), <<"request", q>>)
             /\ (x = <<"request", q>> => <<"request", q>> \notin Range(Tail(events)))
  <2> DEFINE y == <<"request", q>>
  <2>1. Once(events, y)
    BY DEF RequestsInv, AnnouncedOnce
  <2> HIDE DEF y
  <2>2. Once(Tail(events), y) /\ (Head(events) = y => y \notin Range(Tail(events)))
    BY <1>0, <2>1, TailOnce
  <2> QED
    BY <2>2 DEF y
<1> HIDE DEF x
<1>3. x[1] \in {"request", "resolved"} /\ x[2] \in Codex /\ x = <<x[1], x[2]>>
  BY <1>1 DEF EventSet
<1>4. AnnouncedOnce'
  BY <1>0, <1>2 DEF AnnouncedOnce
<1>5. \A q \in Codex : (ToBeShown(q)' => ToBeShown(q)) /\ (x = <<"request", q>> => ToBeShown(q) /\ ~ToBeShown(q)')
  BY <1>0, <1>1, <1>2 DEF ToBeShown
<1>6. RequestTypeOK'
  BY <1>0, <1>1, <1>3 DEF RequestsInv, RequestTypeOK, EventSet, Requests
<1>7. HeldOpen'
  BY RequestAssumption, <1>0, <1>3 DEF RequestsInv, HeldOpen, AnsweredWell
<1>8. CodexDecided'
  <2>1. ASSUME NEW q \in Codex, q \in shown', q \notin shown PROVE x = <<"request", q>>
    BY <1>0, <1>3, <2>1
  <2>2. \A q \in Codex : Allowed(q)' <=> Allowed(q)
    BY <1>0 DEF Allowed
  <2> QED
    BY <1>0, <1>5, <2>1, <2>2 DEF RequestsInv, CodexDecided
<1> QED
  BY <1>4, <1>6, <1>7, <1>8 DEF RequestsInv

\* The range of a concatenation is the union of the ranges.
LEMMA ConcatRange ==
    ASSUME NEW S, NEW s \in Seq(S), NEW t \in Seq(S)
    PROVE  s \o t \in Seq(S) /\ Range(s \o t) = Range(s) \cup Range(t)
<1>1. /\ DOMAIN s = 1..Len(s) /\ DOMAIN t = 1..Len(t) /\ Len(s) \in Nat /\ Len(t) \in Nat
      /\ DOMAIN (s \o t) = 1..(Len(s) + Len(t)) /\ s \o t \in Seq(S)
  OBVIOUS
<1>2. \A i \in 1..(Len(s) + Len(t)) : (s \o t)[i] = IF i <= Len(s) THEN s[i] ELSE t[i - Len(s)]
  OBVIOUS
<1>3. ASSUME NEW i \in 1..(Len(s) + Len(t)) PROVE (s \o t)[i] \in Range(s) \cup Range(t)
  <2>1. CASE i <= Len(s)
    <3>1. i \in DOMAIN s /\ (s \o t)[i] = s[i]
      BY <1>1, <1>2, <2>1
    <3> QED
      BY <3>1 DEF Range
  <2>2. CASE ~(i <= Len(s))
    <3>1. i - Len(s) \in DOMAIN t /\ (s \o t)[i] = t[i - Len(s)]
      BY <1>1, <1>2, <2>2
    <3> QED
      BY <3>1 DEF Range
  <2> QED
    BY <2>1, <2>2
<1>4. ASSUME NEW i \in 1..Len(s) PROVE s[i] \in Range(s \o t)
  <2>1. i \in DOMAIN (s \o t) /\ (s \o t)[i] = s[i]
    BY <1>1, <1>2
  <2> QED
    BY <2>1 DEF Range
<1>5. ASSUME NEW i \in 1..Len(t) PROVE t[i] \in Range(s \o t)
  <2>1. i + Len(s) \in DOMAIN (s \o t) /\ (s \o t)[i + Len(s)] = t[i]
    BY <1>1, <1>2
  <2> QED
    BY <2>1 DEF Range
<1>6. Range(s \o t) \subseteq Range(s) \cup Range(t)
  BY <1>1, <1>3 DEF Range
<1>7. Range(s) \subseteq Range(s \o t) /\ Range(t) \subseteq Range(s \o t)
  BY <1>1, <1>4, <1>5 DEF Range
<1> QED
  BY <1>1, <1>6, <1>7

\* The end of a session: what it asked is out of sight, and a refusal follows every answer.
LEMMA SessionEndsKeeps ==
    ASSUME RequestsInv, NEW r \in Requests, SessionEnds(r)
    PROVE  RequestsInv'
<1>1. CASE r \in Codex
  <2> DEFINE first == IF r \in shown THEN <<<<r, "deny">>>> ELSE <<>>
             last == <<<<r, "kill">>>>
  <2>0. /\ r \notin Claude /\ r \notin Asks /\ shown' = shown \ {r} /\ asker' = asker /\ answers' = answers \o first \o last
        /\ UNCHANGED <<held, events, vanished, unclosed, promised>> /\ ended' = ended \cup {r}
        /\ answers \in Seq(AnswerSet)
    BY RequestAssumption, <1>1 DEF SessionEnds, RequestsInv, RequestTypeOK, AnswerSet
  <2>1. <<r, "deny">> \in AnswerSet /\ <<r, "kill">> \in AnswerSet
    BY <1>1 DEF AnswerSet, Outcomes
  <2>2. first \in Seq(AnswerSet) /\ Range(first) \subseteq {<<r, "deny">>}
    BY <2>1 DEF Range
  <2>3. last \in Seq(AnswerSet) /\ Range(last) = {<<r, "kill">>}
    BY <2>1 DEF Range
  <2> HIDE DEF first, last
  <2>4. answers \o first \in Seq(AnswerSet) /\ Range(answers \o first) = Range(answers) \cup Range(first)
    BY <2>0, <2>2, ConcatRange
  <2>5. answers' \in Seq(AnswerSet) /\ Range(answers') = Range(answers) \cup Range(first) \cup Range(last)
    <3> DEFINE front == answers \o first
    <3>1. front \in Seq(AnswerSet) /\ Range(front) = Range(answers) \cup Range(first) /\ answers' = front \o last
      BY <2>0, <2>4
    <3> HIDE DEF front
    <3>2. front \o last \in Seq(AnswerSet) /\ Range(front \o last) = Range(front) \cup Range(last)
      BY <2>3, <3>1, ConcatRange
    <3> QED
      BY <3>1, <3>2
  <2>6. RequestTypeOK'
    BY <2>0, <2>5 DEF RequestsInv, RequestTypeOK, AnswerSet
  <2>7. AnnouncedOnce'
    BY <2>0 DEF RequestsInv, AnnouncedOnce
  <2>8. HeldOpen'
    BY <2>0 DEF RequestsInv, HeldOpen, AnsweredWell
  <2>9. ASSUME NEW q \in Codex PROVE (Allowed(q)' <=> Allowed(q)) /\ (ToBeShown(q)' <=> ToBeShown(q))
    BY <2>0, <2>2, <2>3, <2>5 DEF Allowed, ToBeShown
  <2>10. CodexDecided'
    BY <2>0, <2>5, <2>9 DEF RequestsInv, CodexDecided
  <2> QED
    BY <2>6, <2>7, <2>8, <2>10 DEF RequestsInv
<1>2. CASE r \notin Codex
  <2>0. /\ ended' = ended \cup {r} /\ UNCHANGED <<held, answers, events, vanished, unclosed, promised>>
        /\ shown' = IF r \in Asks THEN shown ELSE shown \ {r}
        /\ asker' = IF r \in Claude \cap shown /\ r \notin vanished THEN [asker EXCEPT ![r] = "deny"] ELSE asker
    <3>1. HeardBy(r, "deny") = IF r \in vanished THEN asker ELSE [asker EXCEPT ![r] = "deny"]
      BY <1>2, HeardByOthers
    <3> QED
      BY <1>2, <3>1 DEF SessionEnds
  <2>1. asker \in [Requests -> {"new", "waiting"} \cup Outcomes] /\ "deny" \in Outcomes
    BY DEF RequestsInv, RequestTypeOK, Outcomes
  <2>2. RequestTypeOK'
    BY <2>0, <2>1 DEF RequestsInv, RequestTypeOK
  <2>3. AnnouncedOnce'
    BY <2>0 DEF RequestsInv, AnnouncedOnce
  <2>4. \A q \in Codex : asker'[q] = asker[q] /\ q \in Requests /\ (q \in shown' <=> q \in shown)
    BY <1>2, <2>0, <2>1 DEF Requests
  <2>5. \A q \in Codex : (Allowed(q)' <=> Allowed(q)) /\ (ToBeShown(q)' <=> ToBeShown(q))
    BY <2>0 DEF Allowed, ToBeShown
  <2>6. CodexDecided'
    BY <2>0, <2>4, <2>5 DEF RequestsInv, CodexDecided
  <2>7. ASSUME NEW q \in Claude \cup Asks PROVE AnsweredWell(q)'
    <3>1. AnsweredWell(q) /\ q \in Requests
      BY DEF RequestsInv, HeldOpen, Requests
    <3>2. promised[q] \in {"none", "allow", "deny"}
      BY <3>1 DEF RequestsInv, RequestTypeOK, Outcomes
    <3>3. asker'[q] = IF q = r /\ r \in Claude \cap shown /\ r \notin vanished THEN "deny" ELSE asker[q]
      BY <2>0, <2>1, <3>1
    <3>4. CASE q # r \/ r \in Asks
      <4>1. asker'[q] = asker[q] /\ (q \in shown' <=> q \in shown)
        BY RequestAssumption, <2>0, <3>3, <3>4
      <4> QED
        BY <2>0, <3>1, <4>1 DEF AnsweredWell
    <3>5. CASE q = r /\ r \notin Asks
      BY <2>0, <3>1, <3>2, <3>3, <3>5 DEF AnsweredWell
    <3> QED
      BY <3>4, <3>5
  <2>8. HeldOpen'
    BY <2>7 DEF HeldOpen
  <2> QED
    BY <2>2, <2>3, <2>6, <2>8 DEF RequestsInv
<1> QED
  BY <1>1, <1>2

\* A new server shows what the host holds: none of it was decided, for the answers have arrived.
LEMMA RestartShowsKeeps ==
    ASSUME RequestsInv, RestartShows
    PROVE  RequestsInv'
<1>0. /\ answers = <<>> /\ events' = <<>> /\ shown' = held
      /\ asker' = [r \in Requests |-> IF r \in Claude \cup Asks /\ asker[r] = "waiting" THEN "deny" ELSE asker[r]]
      /\ UNCHANGED <<held, answers, ended, vanished, promised>> /\ unclosed' = {}
  BY DEF RestartShows
<1>1. asker \in [Requests -> {"new", "waiting"} \cup Outcomes] /\ "deny" \in Outcomes /\ held \subseteq Codex
  BY DEF RequestsInv, RequestTypeOK, Outcomes
<1>2. Range(answers) = {} /\ Range(events') = {}
  BY <1>0 DEF Range
<1>3. \A q \in Codex : q \in Requests /\ q \notin Claude \cup Asks /\ asker'[q] = asker[q]
  BY RequestAssumption, <1>0 DEF Requests
<1>4. RequestTypeOK'
  BY <1>0, <1>1 DEF RequestsInv, RequestTypeOK, Requests
<1>5. AnnouncedOnce'
  BY <1>0 DEF AnnouncedOnce, Once
<1>6. ASSUME NEW q \in Codex PROVE ~ToBeShown(q)' /\ ~Allowed(q) /\ ~Allowed(q)'
  BY <1>0, <1>2 DEF ToBeShown, Allowed
<1>7. CodexDecided'
  BY <1>0, <1>2, <1>3, <1>6 DEF RequestsInv, CodexDecided
<1>8. ASSUME NEW q \in Claude \cup Asks PROVE AnsweredWell(q)'
  <2>1. AnsweredWell(q)
    BY DEF RequestsInv, HeldOpen
  <2>2. promised[q] \in {"none", "allow", "deny"} /\ q \in Requests /\ q \notin held
    BY RequestAssumption, <1>1 DEF RequestsInv, RequestTypeOK, Requests, Outcomes
  <2>3. asker'[q] = IF asker[q] = "waiting" THEN "deny" ELSE asker[q]
    BY <1>0, <2>2
  <2> QED
    BY <1>0, <2>1, <2>2, <2>3 DEF AnsweredWell
<1>9. HeldOpen'
  BY <1>8 DEF HeldOpen, AnsweredWell
<1> QED
  BY <1>4, <1>5, <1>7, <1>9 DEF RequestsInv

\* Every step keeps the invariant.
LEMMA RequestsInvStep == RequestsInv /\ [RequestNext]_requestVars => RequestsInv'
<1> SUFFICES ASSUME RequestsInv, [RequestNext]_requestVars
             PROVE  RequestsInv'
  OBVIOUS
<1>1. ASSUME NEW r \in Requests, Ask(r) \/ HangsUp(r) \/ Closes(r) PROVE RequestsInv'
  BY <1>1, ResponsesKeep
<1>2. ASSUME NEW r \in Requests, Raise(r) PROVE RequestsInv'
  BY <1>2, RaiseKeeps
<1>3. ASSUME NEW r \in Requests, TimesOut(r) PROVE RequestsInv'
  BY <1>3, TimesOutKeeps
<1>4. ASSUME NEW r \in Requests, Abandon(r) PROVE RequestsInv'
  BY <1>4, HostKeeps
<1>5. ASSUME NEW r \in Requests, SessionEnds(r) PROVE RequestsInv'
  BY <1>5, SessionEndsKeeps
<1>6. ASSUME NEW r \in Requests, NEW outcome \in Outcomes, Decide(r, outcome) PROVE RequestsInv'
  BY <1>6, DecideKeeps
<1>7. CASE TakeAnswer
  BY <1>7, HostKeeps
<1>8. CASE FoldRequestEvent
  BY <1>8, FoldKeeps
<1>9. CASE RestartShows
  BY <1>9, RestartShowsKeeps
<1>10. CASE UNCHANGED requestVars
  BY <1>10 DEF requestVars, RequestsInv, RequestTypeOK, CodexDecided, AnnouncedOnce, Once, HeldOpen, AnsweredWell,
     Allowed, ToBeShown
<1> QED
  BY <1>1, <1>2, <1>3, <1>4, <1>5, <1>6, <1>7, <1>8, <1>9, <1>10 DEF RequestNext

\* What a person or member decided is what the asker gets, unless it hung up, and nothing else lets a
\* call through, nor does any decision once the asker hung up: the confirmation routes/permissions.ts
\* and routes/asks.ts return is kept whatever timers, ends of sessions and restarts of the server come
\* between, and where it is given to a connection nobody listens to any more, nothing is allowed by it.
THEOREM DecisionsStand == RequestSpec => []DecisionsHold
<1>1. RequestsInv => DecisionsHold
  <2> SUFFICES ASSUME RequestsInv, NEW r \in Requests
               PROVE  /\ asker[r] = "allow" => promised[r] = "allow" /\ r \notin vanished
                      /\ promised[r] # "none" /\ r \notin Codex \cup vanished => asker[r] = promised[r]
                      /\ promised[r] = "allow" /\ asker[r] = "waiting" => <<r, "allow">> \in Range(answers)
    BY DEF DecisionsHold
  <2>1. CASE r \in Codex
    <3>1. r \notin vanished
      BY RequestAssumption, <2>1 DEF RequestsInv, RequestTypeOK
    <3> QED
      BY <2>1, <3>1 DEF RequestsInv, CodexDecided
  <2>2. CASE r \in Claude \cup Asks
    BY <2>2 DEF RequestsInv, HeldOpen, AnsweredWell
  <2> QED
    BY <2>1, <2>2 DEF Requests
<1> QED
  BY <1>1, RequestsInvInit, RequestsInvStep, PTL DEF RequestSpec

-----------------------------------------------------------------------------
(***************************************************************************)
(* What may be answered is what is waited for.                             *)
(*                                                                         *)
(* The server shows a Codex approval by the host's events and takes it     *)
(* down by its own decision or by the host's next event, so the two sides  *)
(* agree only once nothing is under way. Until then, what is held but not  *)
(* shown has its event or its answer under way, and what is shown but no   *)
(* longer held has the event that takes it down under way, behind the one  *)
(* that shows it.                                                          *)
(***************************************************************************)
Answering(r) == \E outcome \in Outcomes \cup {"kill"} : <<r, outcome>> \in Range(answers)
TakenDown(r) == <<"resolved", r>> \in Range(events)

ShowsWhatIsHeld ==
    \A r \in Codex :
        /\ TakenDown(r) => asker[r] \in Outcomes
        /\ r \in held => r \in shown \/ ToBeShown(r) \/ Answering(r)
        /\ r \in shown \/ ToBeShown(r) => r \in held \/ TakenDown(r)

\* An approval is announced before it is resolved.
RequestFirst ==
    \A r \in Codex : \A i, j \in DOMAIN events :
        events[i] = <<"request", r>> /\ events[j] = <<"resolved", r>> => i < j

ShowsWhatIsOpen == \A r \in Claude \cup Asks : asker[r] = "waiting" => r \in shown

ShownInv == ShowsWhatIsHeld /\ RequestFirst /\ ShowsWhatIsOpen

\* Appending an event keeps the order, unless it announces what is already resolved.
LEMMA AppendInOrder ==
    ASSUME NEW s \in Seq(EventSet), NEW e \in EventSet, NEW a, NEW b, a # b,
           \A i, j \in DOMAIN s : s[i] = a /\ s[j] = b => i < j,
           e # a \/ b \notin Range(s)
    PROVE  \A i, j \in DOMAIN Append(s, e) : Append(s, e)[i] = a /\ Append(s, e)[j] = b => i < j
<1>1. DOMAIN s = 1..Len(s) /\ DOMAIN Append(s, e) = 1..(Len(s) + 1) /\ Len(s) \in Nat
  OBVIOUS
<1>2. \A i \in 1..Len(s) : Append(s, e)[i] = s[i]
  OBVIOUS
<1>3. Append(s, e)[Len(s) + 1] = e
  OBVIOUS
<1> SUFFICES ASSUME NEW i \in 1..(Len(s) + 1), NEW j \in 1..(Len(s) + 1),
                    Append(s, e)[i] = a, Append(s, e)[j] = b
             PROVE  i < j
  BY <1>1
<1>4. CASE i \in 1..Len(s) /\ j \in 1..Len(s)
  BY <1>1, <1>2, <1>4
<1>5. CASE i \in 1..Len(s) /\ j = Len(s) + 1
  BY <1>1, <1>5
<1>6. CASE i = Len(s) + 1
  <2>1. e = a /\ b \notin Range(s) /\ j # Len(s) + 1
    BY <1>3, <1>6
  <2>2. j \in DOMAIN s /\ s[j] = b
    BY <1>1, <1>2, <2>1
  <2> QED
    BY <2>1, <2>2 DEF Range
<1> QED
  BY <1>1, <1>4, <1>5, <1>6

\* Taking the first event keeps the order; after the second of the two there is no first one left.
LEMMA TailInOrder ==
    ASSUME NEW s \in Seq(EventSet), s # <<>>, NEW a, NEW b, a # b,
           \A i, j \in DOMAIN s : s[i] = a /\ s[j] = b => i < j
    PROVE  /\ \A i, j \in DOMAIN Tail(s) : Tail(s)[i] = a /\ Tail(s)[j] = b => i < j
           /\ Head(s) = b => a \notin Range(s)
<1>1. Len(s) \in Nat \ {0} /\ DOMAIN s = 1..Len(s) /\ DOMAIN Tail(s) = 1..(Len(s) - 1) /\ Head(s) = s[1]
  OBVIOUS
<1>2. \A i \in 1..(Len(s) - 1) : Tail(s)[i] = s[i + 1] /\ i + 1 \in 1..Len(s)
  BY <1>1
<1>3. \A i, j \in DOMAIN Tail(s) : Tail(s)[i] = a /\ Tail(s)[j] = b => i + 1 < j + 1
  BY <1>1, <1>2
<1>4. ASSUME Head(s) = b, NEW i \in 1..Len(s), s[i] = a PROVE FALSE
  <2>1. 1 \in DOMAIN s /\ s[1] = b /\ i \in DOMAIN s
    BY <1>1, <1>4
  <2>2. i < 1
    BY <1>4, <2>1
  <2> QED
    BY <1>1, <2>2
<1>5. Head(s) = b => a \notin Range(s)
  BY <1>1, <1>4 DEF Range
<1>6. \A i, j \in 1..(Len(s) - 1) : i + 1 < j + 1 => i < j
  BY <1>1
<1> QED
  BY <1>1, <1>3, <1>5, <1>6

\* At the start nothing is asked.
LEMMA ShownInvInit == RequestInit => ShownInv
<1> SUFFICES ASSUME RequestInit PROVE ShownInv
  OBVIOUS
<1>1. Range(answers) = {} /\ Range(events) = {}
  BY DEF RequestInit, Range
<1>2. RequestFirst
  BY DEF RequestInit, RequestFirst
<1> QED
  BY <1>1, <1>2 DEF RequestInit, ShownInv, ShowsWhatIsHeld, ShowsWhatIsOpen, TakenDown, ToBeShown, Requests

\* A step at the server: the answers only grow, by one for each approval it takes down.
LEMMA ServerKeepsShown ==
    ASSUME RequestsInv, ShownInv, NEW r \in Requests, Ask(r) \/ HangsUp(r) \/ Closes(r) \/ TimesOut(r) \/ SessionEnds(r)
                                                      \/ \E outcome \in Outcomes : Decide(r, outcome)
    PROVE  ShownInv'
<1>0. /\ asker \in [Requests -> {"new", "waiting"} \cup Outcomes] /\ answers \in Seq(AnswerSet)
      /\ shown \subseteq Requests /\ Codex \subseteq Requests /\ Codex \cap (Claude \cup Asks) = {}
      /\ Outcomes = {"allow", "deny"}
  BY RequestAssumption DEF RequestsInv, RequestTypeOK, AnswerSet, Requests, Outcomes
<1>1. UNCHANGED <<held, events>>
  BY DEF Ask, HangsUp, Closes, TimesOut, SessionEnds, Decide
<1> DEFINE Disposed ==
        /\ \A q \in Codex : asker'[q] = asker[q]
        /\ \A q \in Claude \cup Asks : asker'[q] = "waiting" => q \in shown'
        /\ \A q \in Codex : q \in shown' => q \in shown
        /\ \A q \in Codex : q \in shown /\ q \notin shown' => q = r /\ Answering(r)'
        /\ Range(answers) \subseteq Range(answers')
<1>2. Disposed
  <2>0. \A q \in Claude \cup Asks : asker[q] = "waiting" => q \in shown
    BY DEF ShownInv, ShowsWhatIsOpen
  <2>1. CASE Ask(r) \/ HangsUp(r) \/ Closes(r)
    <3>1. /\ r \in Claude \cup Asks /\ answers' = answers
          /\ \/ asker' = [asker EXCEPT ![r] = "waiting"] /\ shown' = shown \cup {r}
             \/ asker' = [asker EXCEPT ![r] = "deny"] /\ shown' = shown
             \/ r \in vanished /\ asker' = asker /\ shown' = shown \ {r}
      BY <2>1 DEF Ask, HangsUp, Closes, RequestsInv, RequestTypeOK
    <3>2. \A q \in Codex : q # r /\ q \in Requests
      BY <1>0, <3>1
    <3>3. \A q \in Codex : asker'[q] = asker[q] /\ (q \in shown' <=> q \in shown)
      BY <1>0, <3>1, <3>2
    <3>4. r \in vanished => asker[r] # "waiting"
      BY <3>1 DEF RequestsInv, HeldOpen, AnsweredWell
    <3>5. \A q \in Claude \cup Asks : asker'[q] = "waiting" => q \in shown'
      BY <1>0, <2>0, <3>1, <3>4 DEF Requests
    <3> QED
      BY <3>1, <3>3, <3>5
  <2>2. ASSUME NEW outcome \in Outcomes, r \in shown, Settle(r, outcome)
        PROVE  Disposed
    <3>1. /\ shown' = shown \ {r}
          /\ r \in Codex => asker' = asker /\ Range(answers') = Range(answers) \cup {<<r, outcome>>}
          /\ r \notin Codex => answers' = answers /\ asker' = (IF r \in vanished THEN asker ELSE [asker EXCEPT ![r] = outcome])
      BY <2>2, SettleKeeps
    <3>2. outcome # "waiting"
      BY <1>0
    <3>3. r \in Codex => Answering(r)'
      BY <3>1 DEF Answering
    <3>4. CASE r \in Codex
      <4>1. \A q \in Claude \cup Asks : q # r
        BY <1>0, <3>4
      <4> QED
        BY <2>0, <3>1, <3>3, <3>4, <4>1
    <3>5. CASE r \notin Codex
      <4>1. \A q \in Codex : asker'[q] = asker[q] /\ (q \in shown' <=> q \in shown)
        BY <1>0, <3>1, <3>5
      <4>2. \A q \in Claude \cup Asks : asker'[q] = "waiting" => q \in shown'
        <5>1. r \in vanished => asker[r] # "waiting"
          BY <1>0, <2>2, <3>5 DEF RequestsInv, HeldOpen, AnsweredWell, Requests
        <5> QED
          BY <1>0, <2>0, <3>1, <3>2, <3>5, <5>1 DEF Requests
      <4> QED
        BY <3>1, <3>5, <4>1, <4>2
    <3> QED
      BY <3>4, <3>5
  <2>3. CASE TimesOut(r) \/ \E outcome \in Outcomes : Decide(r, outcome)
    BY <1>0, <2>2, <2>3 DEF TimesOut, Decide
  <2>4. CASE SessionEnds(r) /\ r \in Codex
    <3> DEFINE first == IF r \in shown THEN <<<<r, "deny">>>> ELSE <<>>
               last == <<<<r, "kill">>>>
    <3>0. /\ r \notin Claude /\ r \notin Asks /\ shown' = shown \ {r} /\ asker' = asker /\ answers' = answers \o first \o last
      BY RequestAssumption, <2>4 DEF SessionEnds
    <3>1. <<r, "deny">> \in AnswerSet /\ <<r, "kill">> \in AnswerSet
      BY <2>4 DEF AnswerSet, Outcomes
    <3>2. first \in Seq(AnswerSet)
      BY <3>1
    <3>3. last \in Seq(AnswerSet) /\ Range(last) = {<<r, "kill">>}
      BY <3>1 DEF Range
    <3> HIDE DEF first, last
    <3>4. answers \o first \in Seq(AnswerSet) /\ Range(answers \o first) = Range(answers) \cup Range(first)
      BY <1>0, <3>2, ConcatRange
    <3>5. Range(answers') = Range(answers) \cup Range(first) \cup Range(last)
      <4> DEFINE front == answers \o first
      <4>1. front \in Seq(AnswerSet) /\ Range(front) = Range(answers) \cup Range(first) /\ answers' = front \o last
        BY <3>0, <3>4
      <4> HIDE DEF front
      <4>2. Range(front \o last) = Range(front) \cup Range(last)
        BY <3>3, <4>1, ConcatRange
      <4> QED
        BY <4>1, <4>2
    <3>6. Answering(r)'
      BY <3>3, <3>5 DEF Answering
    <3>7. \A q \in Claude \cup Asks : q # r
      BY <1>0, <2>4
    <3>8. Range(answers) \subseteq Range(answers')
      BY <3>5
    <3> QED
      BY <2>0, <3>0, <3>6, <3>7, <3>8
  <2>5. CASE SessionEnds(r) /\ r \notin Codex
    <3>1. /\ shown' = (IF r \in Asks THEN shown ELSE shown \ {r}) /\ answers' = answers
          /\ asker' = IF r \in Claude \cap shown /\ r \notin vanished THEN [asker EXCEPT ![r] = "deny"] ELSE asker
      <4>1. HeardBy(r, "deny") = IF r \in vanished THEN asker ELSE [asker EXCEPT ![r] = "deny"]
        BY <2>5, HeardByOthers
      <4> QED
        BY <2>5, <4>1 DEF SessionEnds
    <3>2. \A q \in Codex : asker'[q] = asker[q] /\ (q \in shown' <=> q \in shown)
      BY <1>0, <2>5, <3>1
    <3>3. r \in Claude /\ asker[r] = "waiting" => r \in shown /\ r \notin vanished
      BY <2>0 DEF RequestsInv, HeldOpen, AnsweredWell
    <3>4. ASSUME NEW q \in Claude \cup Asks, asker'[q] = "waiting" PROVE q \in shown'
      <4>1. q \in Requests /\ r \in Claude \cup Asks
        BY <2>5 DEF Requests
      <4>2. CASE q # r
        BY <1>0, <2>0, <3>1, <3>4, <4>1, <4>2
      <4>3. CASE q = r /\ r \in Asks
        BY RequestAssumption, <2>0, <3>1, <3>4, <4>3
      <4>4. CASE q = r /\ r \in Claude
        BY <1>0, <3>1, <3>3, <3>4, <4>1, <4>4
      <4> QED
        BY <4>1, <4>2, <4>3, <4>4
    <3> QED
      BY <3>1, <3>2, <3>4
  <2> QED
    BY <2>1, <2>3, <2>4, <2>5
<1>3. \A q \in Codex : Answering(q) => Answering(q)'
  BY <1>2 DEF Answering
<1>4. \A q \in Codex : (TakenDown(q)' <=> TakenDown(q)) /\ (ToBeShown(q)' <=> ToBeShown(q))
  BY <1>1 DEF TakenDown, ToBeShown
<1>5. ShowsWhatIsHeld'
  BY <1>1, <1>2, <1>3, <1>4 DEF ShownInv, ShowsWhatIsHeld
<1>6. RequestFirst'
  BY <1>1 DEF ShownInv, RequestFirst
<1>7. ShowsWhatIsOpen'
  BY <1>2 DEF ShowsWhatIsOpen
<1> QED
  BY <1>5, <1>6, <1>7 DEF ShownInv

\* The app-server asks: the event that shows it is under way.
LEMMA RaiseKeepsShown ==
    ASSUME RequestsInv, ShownInv, NEW r \in Requests, Raise(r)
    PROVE  ShownInv'
<1> DEFINE e == <<"request", r>>
<1>0. /\ r \in Codex /\ asker[r] = "new" /\ asker' = [asker EXCEPT ![r] = "waiting"]
      /\ held' = held \cup {r} /\ events' = Append(events, e) /\ e \in EventSet /\ events \in Seq(EventSet)
      /\ UNCHANGED <<shown, answers>> /\ asker \in [Requests -> {"new", "waiting"} \cup Outcomes]
      /\ Codex \subseteq Requests /\ Codex \cap (Claude \cup Asks) = {}
  BY RequestAssumption DEF Raise, EventSet, RequestsInv, RequestTypeOK, Requests
<1>1. Append(events, e) \in Seq(EventSet) /\ Range(Append(events, e)) = Range(events) \cup {e}
  <2> HIDE DEF e
  <2> QED
    BY <1>0, AppendRange
<1>2. \A q \in Codex : (ToBeShown(q)' <=> ToBeShown(q) \/ q = r) /\ (TakenDown(q)' <=> TakenDown(q))
  BY <1>0, <1>1 DEF ToBeShown, TakenDown
<1>3. ~TakenDown(r)
  BY <1>0 DEF ShownInv, ShowsWhatIsHeld, Outcomes
<1>4. \A q \in Codex : Answering(q)' <=> Answering(q)
  BY <1>0 DEF Answering
<1>5. ShowsWhatIsHeld'
  BY <1>0, <1>2, <1>3, <1>4 DEF ShownInv, ShowsWhatIsHeld
<1>6. RequestFirst'
  <2>1. ASSUME NEW q \in Codex
        PROVE  \A i, j \in DOMAIN events' : events'[i] = <<"request", q>> /\ events'[j] = <<"resolved", q>> => i < j
    <3> DEFINE a == <<"request", q>>
               b == <<"resolved", q>>
    <3>1. a # b /\ (e # a \/ b \notin Range(events))
      BY <1>3 DEF TakenDown
    <3>2. \A i, j \in DOMAIN events : events[i] = a /\ events[j] = b => i < j
      BY DEF ShownInv, RequestFirst
    <3> HIDE DEF a, b, e
    <3>3. \A i, j \in DOMAIN Append(events, e) : Append(events, e)[i] = a /\ Append(events, e)[j] = b => i < j
      BY <1>0, <3>1, <3>2, AppendInOrder
    <3> QED
      BY <1>0, <3>3 DEF a, b
  <2> QED
    BY <2>1 DEF RequestFirst
<1>7. ShowsWhatIsOpen'
  BY <1>0 DEF ShownInv, ShowsWhatIsOpen
<1> QED
  BY <1>5, <1>6, <1>7 DEF ShownInv

\* The host settles what it holds: the event that takes it down is under way.
LEMMA HostKeepsShown ==
    ASSUME RequestsInv, ShownInv, NEW r \in Codex, NEW outcome \in Outcomes, SettleHeld(r, outcome),
           UNCHANGED shown, \A x \in Range(answers) \ Range(answers') : x[1] = r
    PROVE  ShownInv'
<1> DEFINE e == <<"resolved", r>>
<1>0. /\ events \in Seq(EventSet) /\ asker \in [Requests -> {"new", "waiting"} \cup Outcomes]
      /\ Codex \subseteq Requests /\ Codex \cap (Claude \cup Asks) = {} /\ e \in EventSet
  BY RequestAssumption DEF EventSet, RequestsInv, RequestTypeOK, Requests
<1>1. \A q \in Codex : q # r /\ Answering(q) => Answering(q)'
  <2>1. ASSUME NEW q \in Codex, q # r, NEW o \in Outcomes \cup {"kill"}, <<q, o>> \in Range(answers)
        PROVE  <<q, o>> \in Range(answers')
    <3>1. <<q, o>>[1] # r
      BY <2>1
    <3> QED
      BY <2>1, <3>1
  <2> QED
    BY <2>1 DEF Answering
<1>2. CASE r \in held
  <2>1. held' = held \ {r} /\ asker' = [asker EXCEPT ![r] = outcome] /\ events' = Append(events, e)
    BY <1>2 DEF SettleHeld
  <2>2. Range(Append(events, e)) = Range(events) \cup {e}
    <3> HIDE DEF e
    <3> QED
      BY <1>0, AppendRange
  <2>3. \A q \in Codex : (TakenDown(q)' <=> TakenDown(q) \/ q = r) /\ (ToBeShown(q)' <=> ToBeShown(q))
    BY <2>1, <2>2 DEF ToBeShown, TakenDown
  <2>4. ShowsWhatIsHeld'
    BY <1>0, <1>1, <2>1, <2>3 DEF ShownInv, ShowsWhatIsHeld
  <2>5. RequestFirst'
    <3>1. ASSUME NEW q \in Codex
          PROVE  \A i, j \in DOMAIN events' : events'[i] = <<"request", q>> /\ events'[j] = <<"resolved", q>> => i < j
      <4> DEFINE a == <<"request", q>>
                 b == <<"resolved", q>>
      <4>1. a # b /\ e # a
        OBVIOUS
      <4>2. \A i, j \in DOMAIN events : events[i] = a /\ events[j] = b => i < j
        BY DEF ShownInv, RequestFirst
      <4> HIDE DEF a, b, e
      <4>3. \A i, j \in DOMAIN Append(events, e) : Append(events, e)[i] = a /\ Append(events, e)[j] = b => i < j
        BY <1>0, <4>1, <4>2, AppendInOrder
      <4> QED
        BY <2>1, <4>3 DEF a, b
    <3> QED
      BY <3>1 DEF RequestFirst
  <2>6. ShowsWhatIsOpen'
    BY <1>0, <2>1 DEF ShownInv, ShowsWhatIsOpen
  <2> QED
    BY <2>4, <2>5, <2>6 DEF ShownInv
<1>3. CASE r \notin held
  <2>1. UNCHANGED <<held, asker, events>>
    BY <1>3 DEF SettleHeld
  <2>2. \A q \in Codex : (TakenDown(q)' <=> TakenDown(q)) /\ (ToBeShown(q)' <=> ToBeShown(q))
    BY <2>1 DEF ToBeShown, TakenDown
  <2>3. ShowsWhatIsHeld'
    BY <1>1, <1>3, <2>1, <2>2 DEF ShownInv, ShowsWhatIsHeld
  <2>4. RequestFirst' /\ ShowsWhatIsOpen'
    BY <2>1 DEF ShownInv, RequestFirst, ShowsWhatIsOpen
  <2> QED
    BY <2>3, <2>4 DEF ShownInv
<1> QED
  BY <1>2, <1>3

\* The server folds the host's next event.
LEMMA FoldKeepsShown ==
    ASSUME RequestsInv, ShownInv, FoldRequestEvent
    PROVE  ShownInv'
<1> DEFINE x == Head(events)
<1>0. /\ events # <<>> /\ events' = Tail(events) /\ events \in Seq(EventSet)
      /\ shown' = IF x[1] = "request" THEN shown \cup {x[2]} ELSE shown \ {x[2]}
      /\ UNCHANGED <<asker, held, answers>>
  BY DEF FoldRequestEvent, RequestsInv, RequestTypeOK, EventSet
<1>1. x \in EventSet /\ Tail(events) \in Seq(EventSet) /\ Range(events) = Range(Tail(events)) \cup {x}
  BY <1>0, TailRange
<1>2. ASSUME NEW q \in Codex
      PROVE  /\ \A i, j \in DOMAIN Tail(events) :
                    Tail(events)[i] = <<"request", q>> /\ Tail(events)[j] = <<"resolved", q>> => i < j
             /\ x = <<"resolved", q>> => <<"request", q>> \notin Range(events)
  <2> DEFINE a == <<"request", q>>
             b == <<"resolved", q>>
  <2>1. a # b /\ \A i, j \in DOMAIN events : events[i] = a /\ events[j] = b => i < j
    BY DEF ShownInv, RequestFirst
  <2> HIDE DEF a, b
  <2>2. /\ \A i, j \in DOMAIN Tail(events) : Tail(events)[i] = a /\ Tail(events)[j] = b => i < j
        /\ Head(events) = b => a \notin Range(events)
    BY <1>0, <2>1, TailInOrder
  <2> QED
    BY <2>2 DEF a, b
<1> HIDE DEF x
<1>3. x[1] \in {"request", "resolved"} /\ x[2] \in Codex /\ x = <<x[1], x[2]>> /\ Codex \cap (Claude \cup Asks) = {}
  BY RequestAssumption, <1>1 DEF EventSet
<1>4. RequestFirst'
  BY <1>0, <1>2 DEF RequestFirst
<1>5. ShowsWhatIsOpen'
  BY <1>0, <1>3 DEF ShownInv, ShowsWhatIsOpen
<1>6. ASSUME NEW q \in Codex
      PROVE  /\ TakenDown(q)' => TakenDown(q)
             /\ ToBeShown(q)' => ToBeShown(q)
             /\ TakenDown(q) => TakenDown(q)' \/ x = <<"resolved", q>>
             /\ ToBeShown(q) => ToBeShown(q)' \/ x = <<"request", q>>
             /\ Answering(q)' <=> Answering(q)
             /\ x = <<"resolved", q>> => TakenDown(q) /\ ~ToBeShown(q)
             /\ x = <<"request", q>> => ToBeShown(q)
  BY <1>0, <1>1, <1>2 DEF TakenDown, ToBeShown, Answering
<1>7. ASSUME NEW q \in Codex
      PROVE  /\ x = <<"request", q>> => q \in shown'
             /\ x = <<"resolved", q>> => q \notin shown'
             /\ x # <<"request", q>> /\ x # <<"resolved", q>> => (q \in shown' <=> q \in shown)
  BY <1>0, <1>3
<1>8. \A q \in Codex : asker[q] = "waiting" <=> q \in held
  BY DEF RequestsInv, CodexDecided
<1>9. ASSUME NEW q \in Codex
      PROVE  /\ TakenDown(q)' => asker'[q] \in Outcomes
             /\ q \in held' => q \in shown' \/ ToBeShown(q)' \/ Answering(q)'
             /\ q \in shown' \/ ToBeShown(q)' => q \in held' \/ TakenDown(q)'
  <2>1. /\ TakenDown(q) => asker[q] \in Outcomes
        /\ q \in held => q \in shown \/ ToBeShown(q) \/ Answering(q)
        /\ q \in shown \/ ToBeShown(q) => q \in held \/ TakenDown(q)
    BY DEF ShownInv, ShowsWhatIsHeld
  <2>2. q \in held => ~TakenDown(q)
    BY <1>8, <2>1 DEF Outcomes
  <2>3. CASE x = <<"request", q>>
    <3>1. x # <<"resolved", q>>
      BY <2>3
    <3> QED
      BY <1>0, <1>6, <1>7, <2>1, <2>3, <3>1
  <2>4. CASE x = <<"resolved", q>>
    BY <1>0, <1>6, <1>7, <2>1, <2>2, <2>4
  <2>5. CASE x # <<"request", q>> /\ x # <<"resolved", q>>
    BY <1>0, <1>6, <1>7, <2>1, <2>5
  <2> QED
    BY <2>3, <2>4, <2>5
<1>10. ShowsWhatIsHeld'
  BY <1>9 DEF ShowsWhatIsHeld
<1> QED
  BY <1>4, <1>5, <1>10 DEF ShownInv

\* Every step keeps the two sides in agreement.
LEMMA ShownInvStep == RequestsInv /\ ShownInv /\ [RequestNext]_requestVars => ShownInv'
<1> SUFFICES ASSUME RequestsInv, ShownInv, [RequestNext]_requestVars
             PROVE  ShownInv'
  OBVIOUS
<1>1. ASSUME NEW r \in Requests, Ask(r) \/ HangsUp(r) \/ Closes(r) \/ TimesOut(r) \/ SessionEnds(r)
                                 \/ \E outcome \in Outcomes : Decide(r, outcome)
      PROVE  ShownInv'
  BY <1>1, ServerKeepsShown
<1>2. ASSUME NEW r \in Requests, Raise(r) PROVE ShownInv'
  BY <1>2, RaiseKeepsShown
<1>3. ASSUME NEW r \in Requests, Abandon(r) PROVE ShownInv'
  <2>1. /\ r \in Codex /\ SettleHeld(r, "deny") /\ UNCHANGED <<shown, answers>> /\ "deny" \in Outcomes
        /\ \A y \in Range(answers) \ Range(answers') : y[1] = r
    BY <1>3 DEF Abandon, RequestsInv, RequestTypeOK, Outcomes
  <2> QED
    BY <2>1, HostKeepsShown
<1>4. CASE TakeAnswer
  <2> DEFINE x == Head(answers)
             outcome == IF x[2] = "kill" THEN "deny" ELSE x[2]
  <2>1. /\ answers # <<>> /\ answers' = Tail(answers) /\ SettleHeld(x[1], outcome)
        /\ UNCHANGED shown /\ answers \in Seq(AnswerSet)
    BY <1>4 DEF TakeAnswer, RequestsInv, RequestTypeOK, AnswerSet
  <2>2. x \in AnswerSet /\ Range(answers) = Range(Tail(answers)) \cup {x}
    BY <2>1, TailRange
  <2> HIDE DEF x
  <2>3. x[1] \in Codex /\ outcome \in Outcomes
    BY <2>2 DEF AnswerSet, Outcomes
  <2>4. \A y \in Range(answers) \ Range(answers') : y[1] = x[1]
    BY <2>1, <2>2
  <2> HIDE DEF outcome
  <2> QED
    BY <2>1, <2>3, <2>4, HostKeepsShown
<1>5. CASE FoldRequestEvent
  BY <1>5, FoldKeepsShown
<1>6. CASE RestartShows
  <2>1. /\ events' = <<>> /\ shown' = held /\ held' = held
        /\ asker' = [r \in Requests |-> IF r \in Claude \cup Asks /\ asker[r] = "waiting" THEN "deny" ELSE asker[r]]
    BY <1>6 DEF RestartShows
  <2>2. \A q \in Codex : ~TakenDown(q)' /\ ~ToBeShown(q)'
    BY <2>1 DEF TakenDown, ToBeShown, Range
  <2> QED
    BY <2>1, <2>2 DEF ShownInv, ShowsWhatIsHeld, RequestFirst, ShowsWhatIsOpen, Requests
<1>7. CASE UNCHANGED requestVars
  BY <1>7 DEF requestVars, ShownInv, ShowsWhatIsHeld, RequestFirst, ShowsWhatIsOpen, TakenDown, ToBeShown, Answering
<1> QED
  BY <1>1, <1>2, <1>3, <1>4, <1>5, <1>6, <1>7 DEF RequestNext

\* A relay that hung up is shown only until the server has handled its response's close.
ClosesAwaited == \A r \in Claude : r \in shown /\ r \in vanished => r \in unclosed

LEMMA ClosesAwaitedInit == RequestInit => ClosesAwaited
BY DEF RequestInit, ClosesAwaited

LEMMA ClosesAwaitedStep == RequestsInv /\ ClosesAwaited /\ [RequestNext]_requestVars => ClosesAwaited'
<1> SUFFICES ASSUME RequestsInv, ClosesAwaited, [RequestNext]_requestVars
             PROVE  ClosesAwaited'
  OBVIOUS
<1> USE DEF ClosesAwaited
<1>1. \A r \in Claude \cup Asks : r \in vanished => asker[r] = "deny"
  BY DEF RequestsInv, HeldOpen, AnsweredWell
<1>2. CASE \E r \in Requests : Ask(r)
  BY <1>1, <1>2 DEF Ask
<1>3. CASE \E r \in Requests : HangsUp(r)
  BY <1>3 DEF HangsUp
<1>4. CASE \E r \in Requests : Closes(r)
  BY <1>4 DEF Closes
<1>5. CASE \E r \in Requests : TimesOut(r) \/ \E outcome \in Outcomes : Decide(r, outcome)
  BY <1>5 DEF TimesOut, Decide, Settle
<1>6. CASE \E r \in Requests : SessionEnds(r)
  BY <1>6 DEF SessionEnds
<1>7. CASE \E r \in Requests : Raise(r) \/ Abandon(r)
  BY <1>7 DEF Raise, Abandon
<1>8. CASE TakeAnswer \/ UNCHANGED requestVars
  BY <1>8 DEF TakeAnswer, requestVars
<1>9. CASE FoldRequestEvent
  <2>1. events # <<>> /\ events \in Seq(EventSet) /\ UNCHANGED <<vanished, unclosed>>
    BY <1>9 DEF FoldRequestEvent, RequestsInv, RequestTypeOK, EventSet
  <2>2. Head(events) \in EventSet
    BY <2>1
  <2>3. Head(events)[2] \in Codex
    BY <2>2 DEF EventSet
  <2>4. \A r \in Claude : r \in shown' => r \in shown
    BY RequestAssumption, <1>9, <2>3 DEF FoldRequestEvent
  <2> QED
    BY <2>1, <2>4
<1>10. CASE RestartShows
  BY RequestAssumption, <1>10 DEF RestartShows, RequestsInv, RequestTypeOK
<1> QED
  BY <1>2, <1>3, <1>4, <1>5, <1>6, <1>7, <1>8, <1>9, <1>10 DEF RequestNext

\* Once the traffic between server and host has come to rest and the closes of hung-up relays are
\* handled, what routes/permissions.ts and routes/asks.ts would take an answer for is exactly what
\* somebody waits for: no question is lost sight of by a timer, a hang-up, the end of a session or a new
\* server, and none lingers but an ask whose asker hung up.
THEOREM QuestionsStayInSight == RequestSpec => []ShownIsWaitedFor
<1>1. RequestsInv /\ ShownInv /\ ClosesAwaited => ShownIsWaitedFor
  <2> SUFFICES ASSUME RequestsInv, ShownInv, ClosesAwaited, answers = <<>>, events = <<>>, unclosed = {}
               PROVE  shown \ (Asks \cap vanished) = {r \in Requests : asker[r] = "waiting"}
    BY DEF ShownIsWaitedFor
  <2>1. Range(answers) = {} /\ Range(events) = {}
    BY DEF Range
  <2>2. \A r \in Codex : r \in shown <=> asker[r] = "waiting"
    BY <2>1 DEF RequestsInv, CodexDecided, ShownInv, ShowsWhatIsHeld, TakenDown, ToBeShown, Answering
  <2>3. \A r \in Claude \cup Asks : r \in shown \ (Asks \cap vanished) <=> asker[r] = "waiting"
    BY DEF RequestsInv, HeldOpen, AnsweredWell, ShownInv, ShowsWhatIsOpen, ClosesAwaited
  <2>4. shown \subseteq Requests
    BY DEF RequestsInv, RequestTypeOK
  <2> QED
    BY RequestAssumption, <2>2, <2>3, <2>4 DEF Requests
<1> QED
  BY <1>1, RequestsInvInit, RequestsInvStep, ShownInvInit, ShownInvStep, ClosesAwaitedInit, ClosesAwaitedStep, PTL
  DEF RequestSpec


-----------------------------------------------------------------------------
(***************************************************************************)
(* Once nothing is under way, the host, its router and the app-server      *)
(* agree on the turn of a Codex session, for any number of writes, spawns  *)
(* and timed-out requests, unless a notification or a kill crossed.        *)
(*                                                                         *)
(* What the router will believe is decided by the last notification of a   *)
(* turn in the stream; with none there, it holds the turn already.  An     *)
(* answer that started a turn is no exception, because the notification of *)
(* the start is right behind it.                                           *)
(***************************************************************************)
WriteOps == {"prompt", "steer", "interrupt"}

QueuesTyped ==
    /\ tail \in Seq(Inputs) /\ rpcs \in Seq(Rpcs) /\ stream \in Seq(CodexMessages)
    /\ awaited \in Rpcs \cup {NoRpc} /\ due \in CodexMessages \cup {NoRpc}

FlagsTyped == codexBusy \in BOOLEAN /\ bound \in BOOLEAN /\ crossed \in BOOLEAN

CodexTyped ==
    /\ QueuesTyped /\ FlagsTyped
    /\ turn \in Nat /\ turns \in Nat /\ activeTurn \in Nat
    /\ fate \in [Inputs -> {"new", "queued", "delivered", "reported"}]

\* The continuation that is due is that of the request that is awaited.
DueIsAwaited == due # NoRpc => due.op = "answer" /\ due.rpc = awaited

\* A queued write is on the tail, or is the one that awaits its answer.
QueuedIsKept ==
    \A w \in Inputs : fate[w] = "queued" =>
        w \in Range(tail) \/ (awaited # NoRpc /\ awaited.op # "start" /\ awaited.write = w)

\* A session that has no thread has no turn either, and waits for its spawn or for nothing.
Unbound ==
    codexEntry # "bound" =>
        /\ ~bound /\ activeTurn = 0 /\ turn = 0 /\ ~codexBusy
        /\ \A i \in DOMAIN stream : stream[i].op = "answer"
        /\ codexEntry = "none" => rpcs = <<>> /\ stream = <<>> /\ awaited = NoRpc /\ due = NoRpc
        /\ codexEntry = "spawning" =>
               /\ awaited # NoRpc /\ awaited.op = "start"
               /\ Len(rpcs) + Len(stream) + (IF due = NoRpc THEN 0 ELSE 1) = 1
               /\ \A i \in DOMAIN rpcs : rpcs[i] = awaited
               /\ \A i \in DOMAIN stream : stream[i].rpc = awaited

\* A session with a thread awaits writes only.
BoundAwaitsWrites ==
    /\ codexEntry \in {"none", "spawning", "bound"}
    /\ codexEntry = "bound" => bound /\ (awaited # NoRpc => awaited.op \in WriteOps)

TurnMark(m) == m.op \in {"started", "completed"}
MarkedTurn(m) == IF m.op = "started" THEN m.turn ELSE 0
LastMark(i) == TurnMark(stream[i]) /\ \A j \in DOMAIN stream : j > i => ~TurnMark(stream[j])
NoMarks == \A i \in DOMAIN stream : ~TurnMark(stream[i])

\* The last notification in the stream tells the turn that runs; with none, the router has it.
TurnTold ==
    /\ \A i \in DOMAIN stream : LastMark(i) => MarkedTurn(stream[i]) = turn
    /\ NoMarks => activeTurn = turn

\* A notification that a turn started names one.
StartsNameTurns == \A i \in DOMAIN stream : stream[i].op = "started" => stream[i].turn # 0

StartedBy(a, m) == m.op = "started" /\ m.turn = a.turn
StartsATurn(a) == a.op = "answer" /\ a.ok /\ a.rpc # NoRpc /\ a.rpc.op = "prompt"

\* Right behind an answer that started a turn comes the notification of it.
StartFollowsAnswer ==
    /\ \A i \in DOMAIN stream : StartsATurn(stream[i]) =>
           i + 1 \in DOMAIN stream /\ StartedBy(stream[i], stream[i + 1])
    /\ due # NoRpc /\ StartsATurn(due) => stream # <<>> /\ StartedBy(due, stream[1])

\* A session that is busy with no notification to come has a turn, or a prompt that may start one.
BusyTold ==
    NoMarks /\ codexBusy => turn # 0 \/ (awaited # NoRpc /\ awaited.op = "prompt")

Uncrossed ==
    /\ DueIsAwaited /\ QueuedIsKept /\ Unbound /\ BoundAwaitsWrites /\ TurnTold
    /\ StartsNameTurns /\ StartFollowsAnswer /\ BusyTold

CodexInv == CodexTyped /\ (~crossed => Uncrossed)

\* A request is no NoRpc.
LEMMA RpcsAreRequests ==
    ASSUME NEW op \in {"start", "prompt", "steer", "interrupt"}, NEW w \in Inputs \cup {NoRpc}, NEW t \in Nat
    PROVE  Rpc(op, w, t) \in Rpcs /\ Rpc(op, w, t) # NoRpc
  BY CodexAssumption DEF Rpcs, Rpc

\* A session begins with no turn and nothing under way.
LEMMA CodexStarts == CodexInit => CodexInv
<1> SUFFICES ASSUME CodexInit PROVE CodexInv
  OBVIOUS
<1>1. CodexTyped
  <2>1. QueuesTyped
    BY DEF CodexInit, QueuesTyped
  <2>3. /\ turn \in Nat /\ turns \in Nat /\ activeTurn \in Nat
    BY DEF CodexInit
  <2>2. FlagsTyped
    BY DEF CodexInit, FlagsTyped
  <2>4. fate \in [Inputs -> {"new", "queued", "delivered", "reported"}]
    BY DEF CodexInit
  <2> QED
    BY <2>1, <2>2, <2>3, <2>4 DEF CodexTyped
<1>2. DueIsAwaited /\ QueuedIsKept /\ Unbound /\ BoundAwaitsWrites
  BY DEF CodexInit, DueIsAwaited, QueuedIsKept, Unbound, BoundAwaitsWrites
<1>3. TurnTold /\ StartsNameTurns /\ StartFollowsAnswer /\ BusyTold
  BY DEF CodexInit, TurnTold, NoMarks, LastMark, StartsNameTurns, StartFollowsAnswer, BusyTold
<1> QED
  BY <1>1, <1>2, <1>3 DEF CodexInv, Uncrossed

\* The spawn sends its start, the first request of the session.
LEMMA SpawnCodexKeeps ==
    ASSUME CodexInv, SpawnCodex
    PROVE  CodexInv'
<1>0. PICK r : r = Rpc("start", NoRpc, 0)
  OBVIOUS
<1>1. r \in Rpcs /\ r # NoRpc /\ r.op = "start"
  BY <1>0, RpcsAreRequests DEF Rpc
<1>2. CodexTyped'
  <2>1. CodexTyped /\ rpcs' = Append(rpcs, r) /\ awaited' = r
    BY <1>0 DEF CodexInv, SpawnCodex, Await
  <2>2. QueuesTyped'
    BY <1>1, <2>1 DEF CodexTyped, QueuesTyped, SpawnCodex
  <2>3. FlagsTyped'
    BY <2>1 DEF CodexTyped, FlagsTyped, SpawnCodex
  <2> QED
    BY <2>1, <2>2, <2>3 DEF CodexTyped, SpawnCodex
<1>3. ASSUME ~crossed'
      PROVE  Uncrossed'
  <2>1. /\ Uncrossed /\ codexEntry = "none" /\ codexEntry' = "spawning"
        /\ rpcs = <<>> /\ stream = <<>> /\ due = NoRpc /\ awaited = NoRpc
        /\ turn = 0 /\ activeTurn = 0 /\ ~bound /\ ~codexBusy
    BY <1>3 DEF CodexInv, Uncrossed, SpawnCodex, Unbound
  <2>2. /\ rpcs' = <<r>> /\ stream' = <<>> /\ due' = NoRpc /\ awaited' = r
        /\ turn' = 0 /\ activeTurn' = 0 /\ ~bound' /\ ~codexBusy' /\ fate' = fate /\ tail' = tail
    BY <1>0, <2>1 DEF SpawnCodex, Await
  <2>3. DueIsAwaited' /\ QueuedIsKept' /\ Unbound' /\ BoundAwaitsWrites'
    BY <1>1, <2>1, <2>2
    DEF Uncrossed, DueIsAwaited, QueuedIsKept, Unbound, BoundAwaitsWrites
  <2>4. TurnTold' /\ StartsNameTurns' /\ StartFollowsAnswer' /\ BusyTold'
    BY <2>2 DEF TurnTold, NoMarks, LastMark, StartsNameTurns, StartFollowsAnswer, BusyTold
  <2> QED
    BY <2>3, <2>4 DEF Uncrossed
<1> QED
  BY <1>2, <1>3 DEF CodexInv

\* A write is queued on the tail.
LEMMA WriteCodexKeeps ==
    ASSUME CodexInv, NEW w \in Inputs, WriteCodex(w)
    PROVE  CodexInv'
<1>1. CodexTyped'
  <2>1. CodexTyped
    BY DEF CodexInv
  <2>2. QueuesTyped'
    BY <2>1 DEF CodexTyped, QueuesTyped, WriteCodex, server
  <2>3. FlagsTyped'
    BY <2>1 DEF CodexTyped, FlagsTyped, WriteCodex, router
  <2> QED
    BY <2>1, <2>2, <2>3 DEF CodexTyped, WriteCodex, router, server
<1>2. ASSUME ~crossed'
      PROVE  Uncrossed'
  <2>1. Uncrossed /\ tail \in Seq(Inputs)
    BY <1>2 DEF CodexInv, CodexTyped, QueuesTyped, WriteCodex
  <2>2. \A v : v \in Range(tail) \/ v = w => v \in Range(tail')
    <3>1. tail' = Append(tail, w)
      BY DEF WriteCodex
    <3>2. w = tail'[Len(tail) + 1] /\ Len(tail) + 1 \in DOMAIN tail'
      BY <2>1, <3>1
    <3>3. \A i \in DOMAIN tail : i \in DOMAIN tail' /\ tail'[i] = tail[i]
      BY <2>1, <3>1
    <3> QED
      BY <3>2, <3>3 DEF Range
  <2>3. QueuedIsKept'
    BY <2>1, <2>2 DEF Uncrossed, QueuedIsKept, WriteCodex, CodexInv, CodexTyped
  <2>4. DueIsAwaited' /\ Unbound' /\ BoundAwaitsWrites'
    BY <2>1 DEF Uncrossed, DueIsAwaited, Unbound, BoundAwaitsWrites, WriteCodex, router, server
  <2>5. TurnTold' /\ StartsNameTurns' /\ StartFollowsAnswer' /\ BusyTold'
    BY <2>1 DEF Uncrossed, TurnTold, NoMarks, LastMark, StartsNameTurns, StartFollowsAnswer, BusyTold,
                WriteCodex, router, server
  <2> QED
    BY <2>3, <2>4, <2>5 DEF Uncrossed
<1> QED
  BY <1>1, <1>2 DEF CodexInv

\* The head of the tail fails, or sends its request and awaits the answer.
LEMMA ApplyWriteKeeps ==
    ASSUME CodexInv, ApplyWrite
    PROVE  CodexInv'
<1>1. PICK w : w = Head(tail)
  OBVIOUS
<1>2. /\ w \in Inputs /\ tail' \in Seq(Inputs) /\ awaited = NoRpc /\ CodexTyped
      /\ \A v \in Range(tail) : v = w \/ v \in Range(tail')
  <2>1. tail \in Seq(Inputs) /\ tail # <<>> /\ tail' = Tail(tail) /\ awaited = NoRpc /\ CodexTyped
    BY DEF CodexInv, CodexTyped, QueuesTyped, ApplyWrite
  <2>2. w = tail[1] /\ \A i \in DOMAIN tail : i = 1 \/ (i - 1 \in DOMAIN tail' /\ tail'[i - 1] = tail[i])
    BY <1>1, <2>1
  <2> QED
    BY <1>1, <2>1, <2>2 DEF Range
<1>3. /\ UNCHANGED <<codexEntry, bound, activeTurn, due, stream, turn, turns, crossed>>
  BY DEF ApplyWrite
<1>4. \/ /\ ~codexBusy' /\ codexBusy' \in BOOLEAN /\ fate' = [fate EXCEPT ![w] = "reported"]
         /\ UNCHANGED <<awaited, rpcs>>
      \/ /\ bound /\ fate' = fate /\ codexBusy' \in BOOLEAN
         /\ awaited' \in Rpcs /\ awaited' # NoRpc /\ rpcs' = Append(rpcs, awaited')
         /\ awaited'.op \in WriteOps /\ awaited'.write = w
         /\ awaited'.op = "prompt" \/ codexBusy' = codexBusy
  <2>1. CASE w \in Prompts
    <3>1. ApplyPrompt(w)
      BY <1>1, <2>1 DEF ApplyWrite
    <3>2. CASE ~bound \/ (codexBusy <=> activeTurn = 0)
      BY <3>1, <3>2 DEF ApplyPrompt, Fail
    <3>3. CASE ~(~bound \/ (codexBusy <=> activeTurn = 0))
      <4>1. PICK r : r = IF codexBusy THEN Rpc("steer", w, activeTurn) ELSE Rpc("prompt", w, 0)
        OBVIOUS
      <4>2. /\ r \in Rpcs /\ r # NoRpc /\ r.op \in WriteOps /\ r.write = w
            /\ r.op = "prompt" \/ codexBusy
        BY <1>2, <4>1, RpcsAreRequests DEF CodexTyped, FlagsTyped, Rpc, WriteOps
      <4>3. awaited' = r /\ rpcs' = Append(rpcs, r) /\ codexBusy' = TRUE /\ fate' = fate
        BY <3>1, <3>3, <4>1 DEF ApplyPrompt, Await
      <4> QED
        BY <1>2, <3>3, <4>2, <4>3 DEF CodexTyped, FlagsTyped
    <3> QED
      BY <3>2, <3>3
  <2>2. CASE w \notin Prompts
    <3>1. ApplyInterrupt(w)
      BY <1>1, <2>2 DEF ApplyWrite
    <3>2. CASE ~bound \/ activeTurn = 0
      BY <3>1, <3>2 DEF ApplyInterrupt, Fail
    <3>3. CASE ~(~bound \/ activeTurn = 0)
      <4>1. PICK r : r = Rpc("interrupt", w, activeTurn)
        OBVIOUS
      <4>2. r \in Rpcs /\ r # NoRpc /\ r.op \in WriteOps /\ r.write = w
        BY <1>2, <4>1, RpcsAreRequests DEF CodexTyped, FlagsTyped, Rpc, WriteOps
      <4>3. awaited' = r /\ rpcs' = Append(rpcs, r) /\ codexBusy' = codexBusy /\ fate' = fate
        BY <3>1, <3>3, <4>1 DEF ApplyInterrupt, Await
      <4> QED
        BY <1>2, <3>3, <4>2, <4>3 DEF CodexTyped, FlagsTyped
    <3> QED
      BY <3>2, <3>3
  <2> QED
    BY <2>1, <2>2
<1>5. CodexTyped'
  <2>0. PICK a : a = awaited'
    OBVIOUS
  <2>01. a \in Rpcs \cup {NoRpc} /\ (rpcs' = rpcs \/ (a \in Rpcs /\ rpcs' = Append(rpcs, a)))
    BY <1>2, <1>4, <2>0 DEF CodexTyped, QueuesTyped
  <2>02. rpcs \in Seq(Rpcs)
    BY <1>2 DEF CodexTyped, QueuesTyped
  <2>03. rpcs' \in Seq(Rpcs)
    BY <2>01, <2>02
  <2>1. QueuesTyped'
    BY <1>2, <1>3, <2>0, <2>01, <2>02, <2>03 DEF CodexTyped, QueuesTyped
  <2>2. FlagsTyped'
    BY <1>2, <1>3, <1>4 DEF CodexTyped, FlagsTyped
  <2>3. fate' \in [Inputs -> {"new", "queued", "delivered", "reported"}]
    BY <1>2, <1>4 DEF CodexTyped
  <2> QED
    BY <1>2, <1>3, <2>1, <2>2, <2>3 DEF CodexTyped
<1>6. ASSUME ~crossed'
      PROVE  Uncrossed'
  <2>1. Uncrossed
    BY <1>3, <1>6 DEF CodexInv
  <2>2. due = NoRpc
    BY <1>2, <2>1, CodexAssumption DEF Uncrossed, DueIsAwaited, CodexTyped, QueuesTyped, CodexMessages, Rpcs
  <2>3. codexEntry = "spawning" => FALSE
    BY <1>2, <2>1 DEF Uncrossed, Unbound
  <2>4. DueIsAwaited' /\ Unbound' /\ BoundAwaitsWrites'
    BY <1>3, <1>4, <2>1, <2>2, <2>3 DEF Uncrossed, DueIsAwaited, Unbound, BoundAwaitsWrites
  <2>5. QueuedIsKept'
    BY <1>2, <1>4, <2>1 DEF Uncrossed, QueuedIsKept, CodexTyped, WriteOps
  <2>6. TurnTold' /\ StartsNameTurns' /\ StartFollowsAnswer'
    BY <1>3, <2>1 DEF Uncrossed, TurnTold, NoMarks, LastMark, StartsNameTurns, StartFollowsAnswer
  <2>7. BusyTold'
    BY <1>2, <1>3, <1>4, <2>1 DEF Uncrossed, BusyTold, NoMarks
  <2> QED
    BY <2>4, <2>5, <2>6, <2>7 DEF Uncrossed
<1> QED
  BY <1>5, <1>6 DEF CodexInv

\* What the app-server adds to the stream keeps what the stream tells, if its last notification is of
\* the turn that runs then, and an answer that starts a turn comes with the notification of it.
LEMMA StreamGrows ==
    ASSUME CodexTyped, TurnTold, StartsNameTurns, StartFollowsAnswer, BusyTold,
           UNCHANGED <<codexBusy, activeTurn, awaited, due>>,
           NEW more \in Seq(CodexMessages), stream' = stream \o more,
           \/ turn' = turn /\ \A i \in DOMAIN more : ~TurnMark(more[i])
           \/ more # <<>> /\ TurnMark(more[Len(more)]) /\ MarkedTurn(more[Len(more)]) = turn',
           \A i \in DOMAIN more : more[i].op = "started" => more[i].turn # 0,
           \A i \in DOMAIN more : StartsATurn(more[i]) =>
               i + 1 \in DOMAIN more /\ StartedBy(more[i], more[i + 1])
    PROVE  TurnTold' /\ StartsNameTurns' /\ StartFollowsAnswer' /\ BusyTold'
<1>1. /\ stream \in Seq(CodexMessages) /\ Len(stream) \in Nat /\ Len(more) \in Nat
      /\ DOMAIN stream = 1..Len(stream) /\ DOMAIN more = 1..Len(more)
  BY DEF CodexTyped, QueuesTyped
<1>2. /\ DOMAIN stream' = 1..(Len(stream) + Len(more))
      /\ \A i \in DOMAIN stream : stream'[i] = stream[i]
      /\ \A i \in DOMAIN more : stream'[Len(stream) + i] = more[i]
  BY <1>1
<1>3. \A k \in DOMAIN stream' : k \in DOMAIN stream \/ \E i \in DOMAIN more : k = Len(stream) + i
  <2> TAKE k \in DOMAIN stream'
  <2>1. CASE k > Len(stream)
    <3>1. k - Len(stream) \in DOMAIN more /\ k = Len(stream) + (k - Len(stream))
      BY <1>1, <1>2, <2>1
    <3> QED
      BY <3>1
  <2>2. CASE ~(k > Len(stream))
    BY <1>1, <1>2, <2>2
  <2> QED
    BY <2>1, <2>2
<1>4. StartsNameTurns'
  BY <1>2, <1>3 DEF StartsNameTurns
<1>5. StartFollowsAnswer'
  <2>1. \A i \in DOMAIN stream : i \in DOMAIN stream'
    BY <1>1, <1>2
  <2>2. ASSUME NEW k \in DOMAIN stream', StartsATurn(stream'[k])
        PROVE  k + 1 \in DOMAIN stream' /\ StartedBy(stream'[k], stream'[k + 1])
    <3>1. CASE k \in DOMAIN stream
      BY <1>2, <2>1, <2>2, <3>1 DEF StartFollowsAnswer
    <3>2. ASSUME NEW i \in DOMAIN more, k = Len(stream) + i
          PROVE  k + 1 \in DOMAIN stream' /\ StartedBy(stream'[k], stream'[k + 1])
      <4>1. i + 1 \in DOMAIN more /\ StartedBy(more[i], more[i + 1])
        BY <1>2, <2>2, <3>2
      <4>2. i \in 1..Len(more) /\ i + 1 \in 1..Len(more) /\ k = Len(stream) + i
        BY <1>1, <3>2, <4>1
      <4>3. k + 1 = Len(stream) + (i + 1) /\ k + 1 \in 1..(Len(stream) + Len(more))
        <5>1. PICK a \in Nat, b \in Nat : a = Len(stream) /\ b = Len(more)
          BY <1>1
        <5>2. i \in 1..b /\ i + 1 \in 1..b /\ k = a + i
          BY <4>2, <5>1
        <5>3. k + 1 = a + (i + 1) /\ k + 1 \in 1..(a + b)
          BY <5>2
        <5> QED
          BY <5>1, <5>3
      <4> QED
        BY <1>2, <3>2, <4>1, <4>3
    <3> QED
      BY <1>3, <3>1, <3>2
  <2>3. stream # <<>> => stream' # <<>> /\ stream'[1] = stream[1]
    BY <1>1, <1>2
  <2> QED
    BY <2>2, <2>3 DEF StartFollowsAnswer
<1>6. CASE turn' = turn /\ \A i \in DOMAIN more : ~TurnMark(more[i])
  <2>1. \A k \in DOMAIN stream' : TurnMark(stream'[k]) => k \in DOMAIN stream
    BY <1>2, <1>3, <1>6
  <2>2. \A i \in DOMAIN stream : i \in DOMAIN stream'
    BY <1>1, <1>2
  <2>3. NoMarks' <=> NoMarks
    BY <1>2, <2>1, <2>2 DEF NoMarks
  <2>4. \A k \in DOMAIN stream' : LastMark(k)' => k \in DOMAIN stream /\ LastMark(k)
    BY <1>2, <2>1, <2>2 DEF LastMark
  <2> QED
    BY <1>2, <1>4, <1>5, <1>6, <2>3, <2>4 DEF TurnTold, BusyTold
<1>7. CASE more # <<>> /\ TurnMark(more[Len(more)]) /\ MarkedTurn(more[Len(more)]) = turn'
  <2>1. PICK z : z = Len(stream) + Len(more)
    OBVIOUS
  <2>2. z \in DOMAIN stream' /\ stream'[z] = more[Len(more)] /\ \A k \in DOMAIN stream' : k = z \/ z > k
    <3>1. Len(more) \in 1..Len(more) /\ z \in 1..(Len(stream) + Len(more))
      BY <1>1, <1>7, <2>1
    <3>2. \A k \in 1..(Len(stream) + Len(more)) : k = z \/ z > k
      BY <1>1, <2>1
    <3> QED
      BY <1>1, <1>2, <2>1, <3>1, <3>2
  <2>3. ~NoMarks' /\ \A k \in DOMAIN stream' : LastMark(k)' => k = z
    BY <1>7, <2>2 DEF NoMarks, LastMark
  <2> QED
    BY <1>4, <1>5, <1>7, <2>2, <2>3 DEF TurnTold, BusyTold
<1> QED
  BY <1>6, <1>7

\* Steps of the app-server do not touch the session in the host.
LEMMA ServeRpcKeeps ==
    ASSUME CodexInv, ServeRpc
    PROVE  CodexInv'
<1>0. PICK r : r = Head(rpcs)
  OBVIOUS
<1>1. /\ CodexTyped /\ r \in Rpcs /\ rpcs # <<>> /\ rpcs' = Tail(rpcs) /\ rpcs' \in Seq(Rpcs)
      /\ UNCHANGED <<codexEntry, codexBusy, bound, activeTurn, tail, awaited, due, fate, crossed>>
  BY <1>0 DEF CodexInv, CodexTyped, QueuesTyped, ServeRpc, router
<1> DEFINE A(ok, t) == Message("answer", t, r, ok)
           Told(op, t) == Message(op, t, NoRpc, TRUE)
           Grown(more) ==
               /\ more \in Seq(CodexMessages) /\ stream' = stream \o more
               /\ \/ turn' = turn /\ \A i \in DOMAIN more : ~TurnMark(more[i])
                  \/ more # <<>> /\ TurnMark(more[Len(more)]) /\ MarkedTurn(more[Len(more)]) = turn'
               /\ \A i \in DOMAIN more : more[i].op = "started" => more[i].turn # 0
               /\ \A i \in DOMAIN more : StartsATurn(more[i]) =>
                      i + 1 \in DOMAIN more /\ StartedBy(more[i], more[i + 1])
               /\ turn' \in Nat /\ turns' \in Nat
               /\ r.op = "start" => turn' = turn /\ Len(more) = 1 /\ more[1].op = "answer" /\ more[1].rpc = r
<1>2. \A ok \in BOOLEAN, t \in Nat :
          /\ A(ok, t) \in CodexMessages /\ A(ok, t).op = "answer" /\ A(ok, t).rpc = r
          /\ A(ok, t).ok = ok /\ A(ok, t).turn = t
  BY <1>1 DEF Message, CodexMessages
<1>3. \A op \in {"started", "completed"}, t \in Nat :
          /\ Told(op, t) \in CodexMessages /\ Told(op, t).op = op /\ Told(op, t).turn = t
  BY DEF Message, CodexMessages
<1>4. turn \in Nat /\ turns \in Nat /\ stream \in Seq(CodexMessages)
  BY <1>1 DEF CodexTyped, QueuesTyped
<1> DEFINE OnlyAnswers ==
               \E ok \in BOOLEAN :
                   /\ stream' = Append(stream, A(ok, 0)) /\ turn' = turn /\ turns' = turns
                   /\ ok => r.op # "prompt"
           StartsOne ==
               /\ r.op = "prompt" /\ turn' = turns + 1 /\ turns' = turns + 1
               /\ stream' = stream \o <<A(TRUE, turns + 1), Told("started", turns + 1)>>
           StopsOrSteers ==
               /\ r.op \in {"steer", "interrupt"} /\ turns' = turns
               /\ turn' = IF r.op = "interrupt" /\ turn = r.turn THEN 0 ELSE turn
               /\ stream' = Append(stream, A(turn = r.turn, turn)) \o
                                IF turn' # turn THEN <<Told("completed", turn)>> ELSE <<>>
<1>5. OnlyAnswers \/ StartsOne \/ StopsOrSteers
  BY <1>0, <1>1 DEF ServeRpc
<1> HIDE DEF A, Told, Grown, OnlyAnswers, StartsOne, StopsOrSteers
<1>6. \A ok \in BOOLEAN, t \in Nat :
          (/\ stream' = Append(stream, A(ok, t)) /\ turn' = turn /\ turns' = turns
           /\ ok => r.op # "prompt")
          => Grown(<<A(ok, t)>>)
  <2> SUFFICES ASSUME NEW ok \in BOOLEAN, NEW t \in Nat,
                      stream' = Append(stream, A(ok, t)), turn' = turn, turns' = turns,
                      ok => r.op # "prompt"
               PROVE  Grown(<<A(ok, t)>>)
    OBVIOUS
  <2>1. PICK a \in CodexMessages :
            a = A(ok, t) /\ a.op = "answer" /\ a.rpc = r /\ (a.ok => r.op # "prompt")
    BY <1>2
  <2>2. stream' = stream \o <<a>>
    BY <1>4, <2>1
  <2>3. ~TurnMark(a) /\ ~StartsATurn(a)
    BY <2>1 DEF TurnMark, StartsATurn
  <2>4. Grown(<<a>>)
    BY <1>4, <2>1, <2>2, <2>3 DEF Grown
  <2> QED
    BY <2>1, <2>4
<1>7. \E more : Grown(more)
  <2>1. CASE OnlyAnswers
    BY <1>6, <2>1 DEF OnlyAnswers
  <2>2. CASE StartsOne
    <3>1. PICK t \in Nat : t = turns + 1 /\ t # 0
      BY <1>4
    <3>2. PICK a \in CodexMessages : a = A(TRUE, t) /\ a.op = "answer" /\ a.turn = t
      BY <1>2
    <3>3. PICK n \in CodexMessages : n = Told("started", t) /\ n.op = "started" /\ n.turn = t
      BY <1>3
    <3>4. TurnMark(n) /\ MarkedTurn(n) = t /\ StartedBy(a, n) /\ ~StartsATurn(n)
      BY <3>2, <3>3 DEF TurnMark, MarkedTurn, StartedBy, StartsATurn
    <3>5. stream' = stream \o <<a, n>> /\ turn' = t /\ turns' = t
      BY <2>2, <3>1, <3>2, <3>3 DEF StartsOne
    <3>6. /\ <<a, n>> \in Seq(CodexMessages) /\ Len(<<a, n>>) = 2 /\ DOMAIN <<a, n>> = 1..2
          /\ <<a, n>>[1] = a /\ <<a, n>>[2] = n /\ <<a, n>> # <<>>
      OBVIOUS
    <3>7. \A i \in 1..2 : i = 1 \/ i = 2
      OBVIOUS
    <3>8. \A i \in DOMAIN <<a, n>> : StartsATurn(<<a, n>>[i]) =>
              i + 1 \in DOMAIN <<a, n>> /\ StartedBy(<<a, n>>[i], <<a, n>>[i + 1])
      BY <3>4, <3>6, <3>7
    <3>9. \A i \in DOMAIN <<a, n>> : <<a, n>>[i].op = "started" => <<a, n>>[i].turn # 0
      <4>1. a.op # "started" /\ n.turn # 0
        BY <3>1, <3>2, <3>3
      <4>2. \A i \in DOMAIN <<a, n>> : <<a, n>>[i] = a \/ <<a, n>>[i] = n
        BY <3>6, <3>7
      <4> QED
        BY <4>1, <4>2
    <3> QED
      BY <2>2, <3>1, <3>4, <3>5, <3>6, <3>8, <3>9 DEF Grown, StartsOne
  <2>3. CASE StopsOrSteers
    <3>1. CASE turn' = turn
      <4>1. stream' = Append(stream, A(turn = r.turn, turn))
        BY <1>2, <1>4, <2>3, <3>1 DEF StopsOrSteers
      <4> QED
        BY <1>4, <1>6, <2>3, <3>1, <4>1 DEF StopsOrSteers
    <3>2. CASE turn' # turn
      <4>1. PICK a \in CodexMessages : a = A(turn = r.turn, turn) /\ a.op = "answer" /\ a.rpc = r
        BY <1>2, <1>4
      <4>2. PICK n \in CodexMessages : n = Told("completed", turn) /\ n.op = "completed"
        BY <1>3, <1>4
      <4>3. TurnMark(n) /\ MarkedTurn(n) = 0 /\ ~StartsATurn(n) /\ ~StartsATurn(a)
        BY <2>3, <4>1, <4>2 DEF TurnMark, MarkedTurn, StartsATurn, StopsOrSteers
      <4>4. stream' = stream \o <<a, n>> /\ turn' = 0
        BY <1>4, <2>3, <3>2, <4>1, <4>2 DEF StopsOrSteers
      <4>5. /\ <<a, n>> \in Seq(CodexMessages) /\ Len(<<a, n>>) = 2 /\ DOMAIN <<a, n>> = 1..2
            /\ <<a, n>>[1] = a /\ <<a, n>>[2] = n /\ <<a, n>> # <<>>
        OBVIOUS
      <4>6. \A i \in 1..2 : i = 1 \/ i = 2
        OBVIOUS
      <4>7. \A i \in DOMAIN <<a, n>> : <<a, n>>[i] = a \/ <<a, n>>[i] = n
        BY <4>5, <4>6
      <4>8. \A i \in DOMAIN <<a, n>> : ~StartsATurn(<<a, n>>[i]) /\ <<a, n>>[i].op # "started"
        BY <4>1, <4>2, <4>3, <4>7
      <4>9. /\ TurnMark(<<a, n>>[Len(<<a, n>>)]) /\ MarkedTurn(<<a, n>>[Len(<<a, n>>)]) = turn'
            /\ turn' \in Nat /\ turns' \in Nat /\ r.op # "start"
        BY <1>4, <2>3, <4>3, <4>4, <4>5 DEF StopsOrSteers
      <4> QED
        BY <4>4, <4>5, <4>8, <4>9 DEF Grown
    <3> QED
      BY <3>1, <3>2
  <2> QED
    BY <1>5, <2>1, <2>2, <2>3
<1>8. PICK more : Grown(more)
  BY <1>7
<1>81. /\ more \in Seq(CodexMessages) /\ stream' = stream \o more /\ turn' \in Nat /\ turns' \in Nat
       /\ r.op = "start" => turn' = turn /\ Len(more) = 1 /\ more[1].op = "answer" /\ more[1].rpc = r
  BY <1>8 DEF Grown
<1>9. CodexTyped'
  <2>1. QueuesTyped'
    BY <1>1, <1>4, <1>81 DEF CodexTyped, QueuesTyped
  <2>2. FlagsTyped'
    BY <1>1 DEF CodexTyped, FlagsTyped
  <2> QED
    BY <1>1, <1>81, <2>1, <2>2 DEF CodexTyped
<1>10. ASSUME ~crossed'
       PROVE  Uncrossed'
  <2>1. Uncrossed
    BY <1>1, <1>10 DEF CodexInv
  <2>2. TurnTold' /\ StartsNameTurns' /\ StartFollowsAnswer' /\ BusyTold'
    <3>1. TurnTold /\ StartsNameTurns /\ StartFollowsAnswer /\ BusyTold
      BY <2>1 DEF Uncrossed
    <3> QED
      BY <1>1, <1>8, <3>1, StreamGrows DEF Grown
  <2>3. DueIsAwaited' /\ QueuedIsKept' /\ BoundAwaitsWrites'
    BY <1>1, <2>1 DEF Uncrossed, DueIsAwaited, QueuedIsKept, BoundAwaitsWrites
  <2>4. Unbound'
    <3>1. CASE codexEntry = "none"
      BY <1>1, <2>1, <3>1 DEF Uncrossed, Unbound
    <3>2. CASE codexEntry = "spawning"
      <4>1. /\ \A i \in DOMAIN rpcs : rpcs[i] = awaited
            /\ Len(rpcs) + Len(stream) + (IF due = NoRpc THEN 0 ELSE 1) = 1
            /\ awaited # NoRpc /\ awaited.op = "start"
            /\ ~bound /\ activeTurn = 0 /\ turn = 0 /\ ~codexBusy
        BY <2>1, <3>2 DEF Uncrossed, Unbound
      <4>2. Len(rpcs) \in Nat /\ Len(stream) \in Nat /\ Len(rpcs) > 0 /\ rpcs \in Seq(Rpcs)
        BY <1>1, <1>4 DEF CodexTyped, QueuesTyped
      <4>3. stream = <<>> /\ due = NoRpc /\ Len(rpcs) = 1
        <5>1. PICK d \in {0, 1} : d = IF due = NoRpc THEN 0 ELSE 1
          OBVIOUS
        <5>11. Len(rpcs) + Len(stream) + d = 1
          BY <4>1, <5>1
        <5>12. PICK x \in Nat, y \in Nat : x = Len(rpcs) /\ y = Len(stream)
          BY <4>2
        <5>13. x > 0 /\ x + y + d = 1
          BY <4>2, <5>11, <5>12
        <5>14. x = 1 /\ y = 0 /\ d = 0
          BY <5>1, <5>13
        <5>2. Len(stream) = 0 /\ d = 0 /\ Len(rpcs) = 1
          BY <5>12, <5>14
        <5> QED
          BY <1>4, <5>1, <5>2
      <4>4. r.op = "start"
        BY <1>0, <4>1, <4>2
      <4>41. r = awaited
        BY <1>0, <4>1, <4>2
      <4>5. stream' = more /\ rpcs' = <<>> /\ Len(more) = 1 /\ more[1].op = "answer" /\ more[1].rpc = r
            /\ turn' = turn
        BY <1>1, <1>81, <4>2, <4>3, <4>4
      <4>6. /\ \A i \in DOMAIN stream' : stream'[i].op = "answer" /\ stream'[i].rpc = awaited'
            /\ \A i \in DOMAIN rpcs' : rpcs'[i] = awaited'
            /\ Len(rpcs') + Len(stream') + (IF due' = NoRpc THEN 0 ELSE 1) = 1
        <5>1. more \in Seq(CodexMessages) /\ DOMAIN more = 1..1
          BY <1>81, <4>5
        <5> QED
          BY <1>1, <4>3, <4>41, <4>5, <5>1
      <4> QED
        BY <1>1, <3>2, <4>1, <4>5, <4>6 DEF Unbound
    <3>3. CASE codexEntry = "bound"
      BY <1>1, <3>3 DEF Unbound
    <3> QED
      BY <2>1, <3>1, <3>2, <3>3 DEF Uncrossed, BoundAwaitsWrites
  <2> QED
    BY <2>2, <2>3, <2>4 DEF Uncrossed
<1> QED
  BY <1>9, <1>10 DEF CodexInv

LEMMA CompleteTurnKeeps ==
    ASSUME CodexInv, CompleteTurn
    PROVE  CodexInv'
<1>1. PICK n : n = Message("completed", turn, NoRpc, TRUE)
  OBVIOUS
<1>2. /\ CodexTyped /\ turn # 0 /\ turn \in Nat /\ stream \in Seq(CodexMessages) /\ n \in CodexMessages
      /\ TurnMark(n) /\ MarkedTurn(n) = 0 /\ ~StartsATurn(n) /\ n.op # "started"
  BY <1>1 DEF CodexInv, CodexTyped, QueuesTyped, CompleteTurn, Message, CodexMessages, TurnMark,
              MarkedTurn, StartsATurn
<1>3. /\ turn' = 0 /\ stream' = stream \o <<n>>
      /\ UNCHANGED <<codexEntry, codexBusy, bound, activeTurn, tail, awaited, due, rpcs, turns, fate, crossed>>
  <2>1. stream' = Append(stream, n)
    BY <1>1 DEF CompleteTurn
  <2>2. stream' = stream \o <<n>>
    BY <1>2, <2>1
  <2> QED
    BY <2>2 DEF CompleteTurn, router
<1>4. CodexTyped'
  <2>1. QueuesTyped'
    BY <1>2, <1>3 DEF CodexTyped, QueuesTyped
  <2>2. FlagsTyped'
    BY <1>2, <1>3 DEF CodexTyped, FlagsTyped
  <2> QED
    BY <1>2, <1>3, <2>1, <2>2 DEF CodexTyped
<1>5. ASSUME ~crossed'
      PROVE  Uncrossed'
  <2>1. Uncrossed /\ TurnTold /\ StartsNameTurns /\ StartFollowsAnswer /\ BusyTold
    BY <1>3, <1>5 DEF CodexInv, Uncrossed
  <2>2. TurnTold' /\ StartsNameTurns' /\ StartFollowsAnswer' /\ BusyTold'
    <3>1. /\ <<n>> \in Seq(CodexMessages) /\ <<n>> # <<>> /\ <<n>>[Len(<<n>>)] = n
          /\ \A i \in DOMAIN <<n>> : <<n>>[i] = n
      BY <1>2
    <3> QED
      BY <1>2, <1>3, <2>1, <3>1, StreamGrows
  <2>3. DueIsAwaited' /\ QueuedIsKept' /\ BoundAwaitsWrites' /\ Unbound'
    BY <1>2, <1>3, <2>1 DEF Uncrossed, DueIsAwaited, QueuedIsKept, BoundAwaitsWrites, Unbound
  <2> QED
    BY <2>2, <2>3 DEF Uncrossed
<1> QED
  BY <1>4, <1>5 DEF CodexInv

\* The head of the stream is gone, the rest moves up.
LEMMA StreamShifts ==
    ASSUME NEW S, NEW s \in Seq(S), s # <<>>, NEW t, t = Tail(s)
    PROVE  /\ t \in Seq(S) /\ s[1] \in S /\ Head(s) = s[1]
           /\ \A i \in DOMAIN t : i + 1 \in DOMAIN s /\ t[i] = s[i + 1]
           /\ \A i \in DOMAIN s : i = 1 \/ (i - 1 \in DOMAIN t /\ t[i - 1] = s[i])
  OBVIOUS

\* The next message: an answer makes a continuation due, a notification is folded.
LEMMA ReceiveMessageKeeps ==
    ASSUME CodexInv, ReceiveMessage
    PROVE  CodexInv'
<1>0. PICK m : m = Head(stream)
  OBVIOUS
<1>1. /\ CodexTyped /\ stream # <<>> /\ stream \in Seq(CodexMessages) /\ stream' = Tail(stream)
      /\ UNCHANGED <<codexEntry, bound, tail, awaited, rpcs, turn, turns, fate>>
      /\ crossed' = (crossed \/ due # NoRpc) /\ crossed \in BOOLEAN
  BY DEF CodexInv, CodexTyped, QueuesTyped, FlagsTyped, ReceiveMessage
<1>2. /\ stream' \in Seq(CodexMessages) /\ m \in CodexMessages /\ m = stream[1]
      /\ \A i \in DOMAIN stream' : i + 1 \in DOMAIN stream /\ stream'[i] = stream[i + 1]
      /\ \A i \in DOMAIN stream : i = 1 \/ (i - 1 \in DOMAIN stream' /\ stream'[i - 1] = stream[i])
      /\ 1 \in DOMAIN stream
  <2>1. 1 \in DOMAIN stream
    BY <1>1
  <2> QED
    BY <1>0, <1>1, <2>1, StreamShifts
<1>3. \/ /\ m.op = "answer" /\ due' = IF m.rpc = awaited THEN m ELSE due
         /\ UNCHANGED <<codexBusy, activeTurn>>
      \/ /\ m.op = "started" /\ due' = due
         /\ activeTurn' = IF bound THEN m.turn ELSE activeTurn
         /\ codexBusy' = IF codexEntry # "none" THEN TRUE ELSE codexBusy
      \/ /\ m.op = "completed" /\ due' = due
         /\ activeTurn' = IF bound THEN 0 ELSE activeTurn
         /\ codexBusy' = IF codexEntry # "none" THEN FALSE ELSE codexBusy
  BY <1>0 DEF ReceiveMessage
<1>4. CodexTyped'
  <2>1. due' \in CodexMessages \cup {NoRpc}
    BY <1>1, <1>2, <1>3 DEF CodexTyped, QueuesTyped
  <2>2. QueuesTyped'
    BY <1>1, <1>2, <2>1 DEF CodexTyped, QueuesTyped
  <2>3. codexBusy' \in BOOLEAN
    BY <1>1, <1>3 DEF CodexTyped, FlagsTyped
  <2>4. crossed' \in BOOLEAN
    BY <1>1
  <2>5. FlagsTyped'
    BY <1>1, <2>3, <2>4 DEF CodexTyped, FlagsTyped
  <2>6. activeTurn' \in Nat
    <3>1. m.turn \in Nat /\ activeTurn \in Nat
      BY <1>1, <1>2 DEF CodexTyped, CodexMessages
    <3>2. activeTurn' \in {m.turn, 0, activeTurn}
      BY <1>3
    <3> QED
      BY <3>1, <3>2
  <2> QED
    BY <1>1, <2>2, <2>5, <2>6 DEF CodexTyped
<1>5. ASSUME ~crossed'
      PROVE  Uncrossed'
  <2>1. Uncrossed /\ due = NoRpc
    BY <1>1, <1>5 DEF CodexInv
  <2>2. StartsNameTurns'
    BY <1>2, <2>1 DEF Uncrossed, StartsNameTurns
  <2>3. \A i \in DOMAIN stream' : StartsATurn(stream'[i]) =>
            i + 1 \in DOMAIN stream' /\ StartedBy(stream'[i], stream'[i + 1])
    <3> TAKE i \in DOMAIN stream'
    <3> HAVE StartsATurn(stream'[i])
    <3>1. i \in Nat \ {0}
      BY <1>2
    <3>2. i + 1 \in DOMAIN stream /\ stream'[i] = stream[i + 1]
      BY <1>2
    <3>3. (i + 1) + 1 \in DOMAIN stream /\ StartedBy(stream[i + 1], stream[(i + 1) + 1])
      BY <2>1, <3>2 DEF Uncrossed, StartFollowsAnswer
    <3>4. (i + 1) + 1 # 1 /\ ((i + 1) + 1) - 1 = i + 1
      BY <3>1
    <3> QED
      BY <1>2, <3>2, <3>3, <3>4
  <2>4. \A i \in DOMAIN stream' : LastMark(i)' => LastMark(i + 1)
    <3> TAKE i \in DOMAIN stream'
    <3> HAVE LastMark(i)'
    <3>1. i \in Nat /\ \A j \in DOMAIN stream : j \in Nat
      BY <1>1, <1>2
    <3>2. ASSUME NEW j \in DOMAIN stream, j > i + 1
          PROVE  ~TurnMark(stream[j])
      <4>1. j # 1 /\ j - 1 > i
        BY <3>1, <3>2
      <4> QED
        BY <1>2, <4>1 DEF LastMark
    <3> QED
      BY <1>2, <3>2 DEF LastMark
  <2>5. NoMarks' => \A j \in DOMAIN stream : j # 1 => ~TurnMark(stream[j])
    BY <1>2 DEF NoMarks
  <2>6. \A i \in DOMAIN stream' : LastMark(i)' => MarkedTurn(stream'[i]) = turn'
    BY <1>1, <1>2, <2>1, <2>4 DEF Uncrossed, TurnTold
  <2>7. CASE m.op = "answer"
    <3>1. /\ due' = (IF m.rpc = awaited THEN m ELSE NoRpc) /\ UNCHANGED <<codexBusy, activeTurn>>
          /\ ~TurnMark(m)
      BY <1>3, <2>1, <2>7 DEF TurnMark
    <3>2. NoMarks' => NoMarks
      BY <1>2, <2>5, <3>1 DEF NoMarks
    <3>3. TurnTold' /\ BusyTold'
      BY <1>1, <2>1, <2>6, <3>1, <3>2 DEF Uncrossed, TurnTold, BusyTold
    <3>4. DueIsAwaited' /\ QueuedIsKept' /\ BoundAwaitsWrites'
      BY <1>1, <2>1, <2>7, <3>1 DEF Uncrossed, DueIsAwaited, QueuedIsKept, BoundAwaitsWrites
    <3>5. StartFollowsAnswer'
      <4>1. ASSUME due' # NoRpc, StartsATurn(due')
            PROVE  stream' # <<>> /\ StartedBy(due', stream'[1])
        <5>1. 1 + 1 \in DOMAIN stream /\ StartedBy(m, stream[1 + 1])
          BY <1>2, <2>1, <3>1, <4>1 DEF Uncrossed, StartFollowsAnswer
        <5>2. 1 \in DOMAIN stream' /\ stream'[1] = stream[1 + 1]
          BY <1>2, <5>1
        <5> QED
          BY <1>2, <3>1, <4>1, <5>1, <5>2
      <4> QED
        BY <2>3, <4>1 DEF StartFollowsAnswer
    <3>6. Unbound'
      <4>1. CASE codexEntry = "spawning"
        <5>1. /\ Len(rpcs) + Len(stream) + 0 = 1 /\ Len(rpcs) \in Nat /\ Len(stream) \in Nat
              /\ rpcs \in Seq(Rpcs) /\ m.rpc = awaited
          BY <1>1, <1>2, <2>1, <4>1 DEF Uncrossed, Unbound, CodexTyped, QueuesTyped
        <5>2. Len(stream) > 0
          BY <1>1, <5>1
        <5>21. PICK x \in Nat, y \in Nat : x = Len(rpcs) /\ y = Len(stream)
          BY <5>1
        <5>22. x + y + 0 = 1 /\ y > 0
          BY <5>1, <5>2, <5>21
        <5>23. x = 0 /\ y = 1
          BY <5>22
        <5>3. Len(rpcs) = 0 /\ Len(stream) = 1
          BY <5>21, <5>23
        <5>4. rpcs' = <<>> /\ stream' = <<>> /\ due' = m
          BY <1>1, <3>1, <5>1, <5>3
        <5>5. m # NoRpc
          BY <1>2, CodexAssumption
        <5>6. Len(rpcs') + Len(stream') + (IF due' = NoRpc THEN 0 ELSE 1) = 1
          BY <5>4, <5>5
        <5>7. /\ \A i \in DOMAIN stream' : stream'[i].op = "answer" /\ stream'[i].rpc = awaited'
              /\ \A i \in DOMAIN rpcs' : rpcs'[i] = awaited'
          BY <5>4
        <5>8. /\ ~bound /\ activeTurn = 0 /\ turn = 0 /\ ~codexBusy
              /\ awaited # NoRpc /\ awaited.op = "start"
          BY <2>1, <4>1 DEF Uncrossed, Unbound
        <5> QED
          BY <1>1, <3>1, <4>1, <5>6, <5>7, <5>8 DEF Unbound
      <4>2. CASE codexEntry # "spawning"
        BY <1>1, <1>2, <2>1, <3>1, <4>2 DEF Uncrossed, Unbound
      <4> QED
        BY <4>1, <4>2
    <3> QED
      BY <2>2, <3>3, <3>4, <3>5, <3>6 DEF Uncrossed
  <2>8. CASE m.op # "answer"
    <3>1. codexEntry = "bound" /\ bound
      BY <1>2, <2>1, <2>8 DEF Uncrossed, Unbound, BoundAwaitsWrites
    <3>2. /\ due' = NoRpc /\ TurnMark(m) /\ activeTurn' = MarkedTurn(m)
          /\ codexBusy' <=> m.op = "started"
      BY <1>3, <2>1, <2>8, <3>1 DEF TurnMark, MarkedTurn
    <3>3. NoMarks' => MarkedTurn(m) = turn
      <4>1. NoMarks' => LastMark(1)
        BY <1>2, <2>5, <3>2 DEF LastMark
      <4> QED
        BY <1>2, <2>1, <4>1 DEF Uncrossed, TurnTold
    <3>4. TurnTold'
      BY <1>1, <2>6, <3>2, <3>3 DEF TurnTold
    <3>5. BusyTold'
      <4>1. m.op = "started" => MarkedTurn(m) # 0
        BY <1>2, <2>1 DEF Uncrossed, StartsNameTurns, MarkedTurn
      <4> QED
        BY <1>1, <3>2, <3>3, <4>1 DEF BusyTold
    <3>6. DueIsAwaited' /\ QueuedIsKept' /\ BoundAwaitsWrites' /\ Unbound'
      BY <1>1, <2>1, <3>1, <3>2 DEF Uncrossed, DueIsAwaited, QueuedIsKept, BoundAwaitsWrites, Unbound
    <3>7. StartFollowsAnswer'
      BY <2>3, <3>2 DEF StartFollowsAnswer
    <3> QED
      BY <2>2, <3>4, <3>5, <3>6, <3>7 DEF Uncrossed
  <2> QED
    BY <2>7, <2>8
<1> QED
  BY <1>4, <1>5 DEF CodexInv

\* The continuation of the awaited request settles its write, or binds the session.
LEMMA ContinueKeeps ==
    ASSUME CodexInv, Continue
    PROVE  CodexInv'
<1>0. PICK a : a = due
  OBVIOUS
<1>1. PICK r : r = a.rpc
  OBVIOUS
<1>2. /\ CodexTyped /\ a \in CodexMessages /\ due # NoRpc /\ due' = NoRpc /\ awaited' = NoRpc
      /\ UNCHANGED <<tail, rpcs, stream, turn, turns, crossed>>
  BY <1>0 DEF CodexInv, CodexTyped, QueuesTyped, Continue, server
<1>3. \/ /\ r.op = "start" /\ bound' = a.ok
         /\ codexEntry' = IF ~a.ok THEN "none" ELSE IF codexEntry = "spawning" THEN "bound" ELSE codexEntry
         /\ UNCHANGED <<codexBusy, activeTurn, fate>>
      \/ /\ r.op \in WriteOps /\ Settled(r.write, a.ok) /\ UNCHANGED <<codexEntry, bound>>
         /\ activeTurn' = IF r.op = "prompt" /\ a.ok THEN a.turn ELSE activeTurn
  BY <1>0, <1>1 DEF Continue, WriteOps
<1>4. a.ok \in BOOLEAN /\ a.turn \in Nat
  BY <1>2 DEF CodexMessages
<1>5. CodexTyped'
  <2>1. QueuesTyped'
    BY <1>2 DEF CodexTyped, QueuesTyped
  <2>2. FlagsTyped'
    <3>1. codexBusy' \in BOOLEAN
      BY <1>2, <1>3, <1>4 DEF CodexTyped, FlagsTyped, Settled
    <3>2. bound' \in BOOLEAN
      BY <1>2, <1>3, <1>4 DEF CodexTyped, FlagsTyped
    <3> QED
      BY <1>2, <3>1, <3>2 DEF CodexTyped, FlagsTyped
  <2>3. fate' \in [Inputs -> {"new", "queued", "delivered", "reported"}]
    BY <1>2, <1>3, <1>4 DEF CodexTyped, Settled
  <2>4. activeTurn' \in Nat
    <3>1. activeTurn' \in {a.turn, activeTurn}
      BY <1>3
    <3> QED
      BY <1>2, <1>4, <3>1 DEF CodexTyped
  <2> QED
    BY <1>2, <2>1, <2>2, <2>3, <2>4 DEF CodexTyped
<1>6. ASSUME ~crossed'
      PROVE  Uncrossed'
  <2>1. Uncrossed /\ a.op = "answer" /\ r = awaited
    BY <1>0, <1>1, <1>2, <1>6 DEF CodexInv, Uncrossed, DueIsAwaited
  <2>2. r \in Rpcs /\ r # NoRpc
    BY <1>1, <1>2, <2>1, CodexAssumption DEF CodexMessages
  <2>3. StartsNameTurns' /\ StartFollowsAnswer' /\ DueIsAwaited'
    BY <1>2, <2>1 DEF Uncrossed, StartsNameTurns, StartFollowsAnswer, DueIsAwaited
  <2>4. \A i \in DOMAIN stream' : LastMark(i)' => MarkedTurn(stream'[i]) = turn'
    BY <1>2, <2>1 DEF Uncrossed, TurnTold, LastMark
  <2>5. CASE r.op = "start"
    <3>1. codexEntry = "spawning"
      BY <1>2, <2>1, <2>2, <2>5 DEF Uncrossed, BoundAwaitsWrites, Unbound, WriteOps
    <3>2. /\ Len(rpcs) + Len(stream) + 1 = 1 /\ ~bound /\ activeTurn = 0 /\ turn = 0 /\ ~codexBusy
      BY <1>2, <2>1, <3>1 DEF Uncrossed, Unbound
    <3>3. rpcs \in Seq(Rpcs) /\ stream \in Seq(CodexMessages)
      BY <1>2 DEF CodexTyped, QueuesTyped
    <3>4. PICK x \in Nat, y \in Nat : x = Len(rpcs) /\ y = Len(stream)
      BY <3>3
    <3>41. x + y + 1 = 1
      BY <3>2, <3>4
    <3>5. x = 0 /\ y = 0
      BY <3>41
    <3>51. Len(rpcs) = 0 /\ Len(stream) = 0
      BY <3>4, <3>5
    <3>52. rpcs = <<>> /\ stream = <<>>
      BY <3>3, <3>51
    <3>6. rpcs' = <<>> /\ stream' = <<>>
      BY <1>2, <3>52
    <3>7. /\ codexEntry' = (IF a.ok THEN "bound" ELSE "none") /\ bound' = a.ok
          /\ UNCHANGED <<codexBusy, activeTurn, fate>>
      BY <1>3, <2>5, <3>1 DEF WriteOps
    <3>8. Unbound' /\ BoundAwaitsWrites'
      BY <1>2, <3>2, <3>6, <3>7 DEF Unbound, BoundAwaitsWrites
    <3>9. QueuedIsKept'
      BY <1>2, <2>1, <2>5, <3>7 DEF Uncrossed, QueuedIsKept
    <3>10. TurnTold' /\ BusyTold'
      BY <1>2, <2>4, <3>2, <3>7 DEF TurnTold, BusyTold
    <3> QED
      BY <2>3, <3>8, <3>9, <3>10 DEF Uncrossed
  <2>6. CASE r.op \in WriteOps
    <3>1. /\ codexBusy' = (codexBusy /\ a.ok) /\ UNCHANGED <<codexEntry, bound>>
          /\ fate' = [fate EXCEPT ![r.write] = IF a.ok THEN "delivered" ELSE "reported"]
          /\ activeTurn' = IF r.op = "prompt" /\ a.ok THEN a.turn ELSE activeTurn
      BY <1>3, <2>6 DEF WriteOps, Settled
    <3>2. codexEntry = "bound"
      BY <2>1, <2>2, <2>6 DEF Uncrossed, Unbound, BoundAwaitsWrites, WriteOps
    <3>3. Unbound' /\ BoundAwaitsWrites'
      BY <1>2, <2>1, <3>1, <3>2 DEF Uncrossed, Unbound, BoundAwaitsWrites
    <3>4. QueuedIsKept'
      <4>1. fate \in [Inputs -> {"new", "queued", "delivered", "reported"}]
        BY <1>2 DEF CodexTyped
      <4>2. ASSUME NEW w \in Inputs, fate'[w] = "queued"
            PROVE  w # r.write /\ fate[w] = "queued"
        BY <3>1, <4>1, <4>2
      <4> QED
        BY <1>2, <2>1, <4>2 DEF Uncrossed, QueuedIsKept
    <3>5. r.op = "prompt" /\ a.ok => ~NoMarks
      <4>1. ASSUME r.op = "prompt", a.ok
            PROVE  ~NoMarks
        <5>1. StartsATurn(due)
          BY <1>0, <1>1, <2>1, <2>2, <4>1 DEF StartsATurn
        <5>2. stream # <<>> /\ stream[1].op = "started" /\ stream \in Seq(CodexMessages)
          BY <1>2, <2>1, <5>1 DEF Uncrossed, StartFollowsAnswer, StartedBy, CodexTyped, QueuesTyped
        <5>3. 1 \in DOMAIN stream
          BY <5>2
        <5> QED
          BY <5>2, <5>3 DEF NoMarks, TurnMark
      <4> QED
        BY <4>1
    <3>6. NoMarks' <=> NoMarks
      BY <1>2 DEF NoMarks
    <3>7. TurnTold'
      BY <1>2, <2>1, <2>4, <3>1, <3>5, <3>6 DEF Uncrossed, TurnTold
    <3>8. BusyTold'
      BY <1>2, <2>1, <3>1, <3>5, <3>6 DEF Uncrossed, BusyTold
    <3> QED
      BY <2>3, <3>3, <3>4, <3>7, <3>8 DEF Uncrossed
  <2> QED
    BY <2>2, <2>5, <2>6 DEF Rpcs, WriteOps
<1> QED
  BY <1>5, <1>6 DEF CodexInv

\* A write whose request timed out is reported, and the session counts as idle.
LEMMA RpcTimesOutKeeps ==
    ASSUME CodexInv, RpcTimesOut
    PROVE  CodexInv'
<1>1. /\ CodexTyped /\ awaited # NoRpc /\ awaited.op # "start" /\ due = NoRpc /\ awaited' = NoRpc
      /\ ~codexBusy' /\ fate' = [fate EXCEPT ![awaited.write] = "reported"]
      /\ UNCHANGED <<codexEntry, bound, activeTurn, tail, due, rpcs, stream, turn, turns, crossed>>
  BY DEF CodexInv, RpcTimesOut, Settled, server
<1>2. CodexTyped'
  <2>1. QueuesTyped'
    BY <1>1 DEF CodexTyped, QueuesTyped
  <2>2. codexBusy' = FALSE
    BY DEF RpcTimesOut, Settled
  <2>3. FlagsTyped'
    BY <1>1, <2>2 DEF CodexTyped, FlagsTyped
  <2> QED
    BY <1>1, <2>1, <2>3 DEF CodexTyped
<1>3. ASSUME ~crossed'
      PROVE  Uncrossed'
  <2>1. Uncrossed
    BY <1>1, <1>3 DEF CodexInv
  <2>2. codexEntry = "bound"
    BY <1>1, <2>1 DEF Uncrossed, Unbound, BoundAwaitsWrites
  <2>3. DueIsAwaited' /\ BoundAwaitsWrites' /\ Unbound'
    BY <1>1, <2>1, <2>2 DEF Uncrossed, DueIsAwaited, BoundAwaitsWrites, Unbound
  <2>4. QueuedIsKept'
    <3>1. fate \in [Inputs -> {"new", "queued", "delivered", "reported"}]
      BY <1>1 DEF CodexTyped
    <3>2. ASSUME NEW w \in Inputs, fate'[w] = "queued"
          PROVE  w # awaited.write /\ fate[w] = "queued"
      BY <1>1, <3>1, <3>2
    <3> QED
      BY <1>1, <2>1, <3>2 DEF Uncrossed, QueuedIsKept
  <2>5. TurnTold' /\ StartsNameTurns' /\ StartFollowsAnswer' /\ BusyTold'
    BY <1>1, <2>1 DEF Uncrossed, TurnTold, NoMarks, LastMark, StartsNameTurns, StartFollowsAnswer, BusyTold
  <2> QED
    BY <2>3, <2>4, <2>5 DEF Uncrossed
<1> QED
  BY <1>2, <1>3 DEF CodexInv

\* A drain leaves no write queued.
LEMMA DrainReports ==
    ASSUME CodexTyped, Drain
    PROVE  /\ fate' \in [Inputs -> {"new", "queued", "delivered", "reported"}]
           /\ \A w \in Inputs : fate'[w] # "queued"
<1>1. \A w \in Inputs : fate'[w] = IF fate[w] = "queued" THEN "reported" ELSE fate[w]
  BY DEF Drain
<1>2. \A w \in Inputs : fate'[w] \in {"new", "delivered", "reported"}
  BY <1>1 DEF CodexTyped
<1>3. fate' = [w \in Inputs |-> fate'[w]]
  BY DEF Drain
<1> QED
  BY <1>2, <1>3

\* A session that ended has nothing under way.
LEMMA CodexEndKeeps ==
    ASSUME CodexInv, codexEntry' = "none", ~bound', activeTurn' = 0, ~codexBusy', awaited' = NoRpc,
           due' = NoRpc, rpcs' = <<>>, stream' = <<>>, turn' = 0,
           \A w \in Inputs : fate'[w] # "queued"
    PROVE  Uncrossed'
<1>1. DueIsAwaited' /\ QueuedIsKept' /\ Unbound' /\ BoundAwaitsWrites'
  BY DEF DueIsAwaited, QueuedIsKept, Unbound, BoundAwaitsWrites
<1>2. TurnTold' /\ StartsNameTurns' /\ StartFollowsAnswer' /\ BusyTold'
  BY DEF TurnTold, NoMarks, LastMark, StartsNameTurns, StartFollowsAnswer, BusyTold
<1> QED
  BY <1>1, <1>2 DEF Uncrossed

LEMMA KillCodexKeeps ==
    ASSUME CodexInv, KillCodex
    PROVE  CodexInv'
<1>1. /\ CodexTyped /\ codexEntry # "none" /\ crossed' = (crossed \/ codexEntry = "spawning")
      /\ codexEntry' = "none" /\ bound' = FALSE /\ activeTurn' = 0 /\ codexBusy' = FALSE
      /\ tail' = <<>> /\ turns' = turns
  BY DEF CodexInv, KillCodex
<1>2. IF codexEntry = "bound"
      THEN awaited' = NoRpc /\ due' = NoRpc /\ rpcs' = <<>> /\ stream' = <<>> /\ turn' = 0
      ELSE UNCHANGED <<awaited, due, rpcs, stream, turn>>
  BY DEF KillCodex
<1>3. /\ fate' \in [Inputs -> {"new", "queued", "delivered", "reported"}]
      /\ \A w \in Inputs : fate'[w] # "queued"
  BY <1>1, DrainReports DEF KillCodex
<1>4. CodexTyped'
  <2>1. QueuesTyped' /\ turn' \in Nat
    <3>1. CASE codexEntry = "bound"
      BY <1>1, <1>2, <3>1 DEF CodexTyped, QueuesTyped
    <3>2. CASE codexEntry # "bound"
      BY <1>1, <1>2, <3>2 DEF CodexTyped, QueuesTyped
    <3> QED
      BY <3>1, <3>2
  <2>2. crossed' \in BOOLEAN
    BY <1>1 DEF CodexTyped, FlagsTyped
  <2>3. FlagsTyped'
    BY <1>1, <2>2 DEF FlagsTyped
  <2> QED
    BY <1>1, <1>3, <2>1, <2>3 DEF CodexTyped
<1>5. ASSUME ~crossed'
      PROVE  Uncrossed'
  <2>1. codexEntry = "bound"
    BY <1>1, <1>5 DEF CodexInv, Uncrossed, BoundAwaitsWrites
  <2> QED
    BY <1>1, <1>2, <1>3, <2>1, CodexEndKeeps
<1> QED
  BY <1>4, <1>5 DEF CodexInv

LEMMA AppServerExitsKeeps ==
    ASSUME CodexInv, AppServerExits
    PROVE  CodexInv'
<1>1. /\ CodexTyped /\ crossed' = crossed
      /\ codexEntry' = "none" /\ bound' = FALSE /\ activeTurn' = 0 /\ codexBusy' = FALSE
      /\ tail' = <<>> /\ turns' = turns
      /\ awaited' = NoRpc /\ due' = NoRpc /\ rpcs' = <<>> /\ stream' = <<>> /\ turn' = 0
  BY DEF CodexInv, AppServerExits
<1>2. /\ fate' \in [Inputs -> {"new", "queued", "delivered", "reported"}]
      /\ \A w \in Inputs : fate'[w] # "queued"
  BY <1>1, DrainReports DEF AppServerExits
<1>3. CodexTyped'
  <2>1. QueuesTyped'
    BY <1>1 DEF QueuesTyped
  <2>2. FlagsTyped'
    BY <1>1 DEF CodexTyped, FlagsTyped
  <2> QED
    BY <1>1, <1>2, <2>1, <2>2 DEF CodexTyped
<1> QED
  BY <1>1, <1>2, <1>3, CodexEndKeeps DEF CodexInv

\* No step of a session breaks it: one lemma for every action.
LEMMA CodexInvStep == CodexInv /\ [CodexNext]_codexVars => CodexInv'
<1> SUFFICES ASSUME CodexInv, [CodexNext]_codexVars
             PROVE  CodexInv'
  OBVIOUS
<1>1. CASE UNCHANGED codexVars
  <2>1. UNCHANGED <<codexEntry, codexBusy, bound, activeTurn, tail, awaited, due, rpcs, stream, turn,
                    turns, fate, crossed>>
    BY <1>1 DEF codexVars, router, server
  <2>2. CodexTyped'
    BY <2>1 DEF CodexInv, CodexTyped, QueuesTyped, FlagsTyped
  <2>3. Uncrossed => Uncrossed'
    BY <2>1 DEF Uncrossed, DueIsAwaited, QueuedIsKept, Unbound, BoundAwaitsWrites, TurnTold, NoMarks,
                LastMark, StartsNameTurns, StartFollowsAnswer, BusyTold
  <2> QED
    BY <2>1, <2>2, <2>3 DEF CodexInv
<1>2. CASE CodexNext
  BY <1>2, SpawnCodexKeeps, ApplyWriteKeeps, ServeRpcKeeps, CompleteTurnKeeps, ReceiveMessageKeeps,
     ContinueKeeps, RpcTimesOutKeeps, KillCodexKeeps, AppServerExitsKeeps, WriteCodexKeeps DEF CodexNext
<1> QED
  BY <1>1, <1>2

\* Once nothing is under way, the host, its router and the app-server agree on the turn, and no input is
\* left without its outcome, unless a notification overtook an answer or a kill met a spawn.
THEOREM CodexTurnsAgree == CodexSpec => []TurnViewsAgree
<1>1. CodexInv => TurnViewsAgree
  <2> SUFFICES ASSUME CodexInv, AtRest, ~crossed
               PROVE  /\ activeTurn = turn
                      /\ codexBusy => turn # 0
                      /\ bound => codexEntry = "bound"
                      /\ tail = <<>> => \A w \in Inputs : fate[w] # "queued"
    BY DEF TurnViewsAgree
  <2>1. Uncrossed /\ stream = <<>> /\ awaited = NoRpc
    BY DEF CodexInv, AtRest
  <2>2. NoMarks
    BY <2>1 DEF NoMarks
  <2>3. activeTurn = turn /\ (codexBusy => turn # 0)
    BY <2>1, <2>2 DEF Uncrossed, TurnTold, BusyTold
  <2>4. bound => codexEntry = "bound"
    BY <2>1 DEF Uncrossed, Unbound
  <2>5. ASSUME tail = <<>>
        PROVE  \A w \in Inputs : fate[w] # "queued"
    BY <2>1, <2>5 DEF Uncrossed, QueuedIsKept, Range
  <2> QED
    BY <2>3, <2>4, <2>5
<1> QED
  BY <1>1, CodexStarts, CodexInvStep, PTL DEF CodexSpec


-----------------------------------------------------------------------------
(***************************************************************************)
(* Once nothing is under way, the server's live sessions are the host's    *)
(* processes, whatever died and came back; one that is shown running has   *)
(* work; a marker tells how a session ended.  For any number of sessions,  *)
(* prompts and deaths.                                                     *)
(*                                                                         *)
(* The frames on the socket make up the difference between the two views:  *)
(* what a live session lacks in the host is to be spawned or has its end   *)
(* under way, what runs unseen is to be killed or is in the list to come.  *)
(***************************************************************************)
HostRequests ==
    [op : {"spawn", "user", "kill"}, id : SessionIds]
        \cup [op : {"ack"}, ids : SUBSET SessionIds] \cup [op : {"list", "close"}]
ExitRecords == [op : {"exit"}, id : SessionIds, reason : {"self", "killed"}]
Listings ==
    [op : {"list"}, exits : SUBSET ExitRecords, procs : [SessionIds -> {"gone", "running", "idle"}]]
HostFrames == [op : {"line", "result", "refused"}, id : SessionIds] \cup ExitRecords \cup Listings
Procs == [busy : BOOLEAN, pending : Nat, killed : BOOLEAN]

HostTyped ==
    /\ children \in [SessionIds -> Procs \cup {NoProc}] /\ exits \in SUBSET ExitRecords
    /\ toHost \in Seq(HostRequests) /\ toServer \in Seq(HostFrames)
    /\ phase \in {"boot", "relink", "ready"}

LinkTyped == linked \in BOOLEAN /\ attached \in BOOLEAN

ServerTyped ==
    /\ live \in [SessionIds -> [status : {"none", "idle", "running", "exited"}, of : Nat]]
    /\ hooks \in [SessionIds -> Nat] /\ objects \in [SessionIds -> Nat]
    /\ marker \in [SessionIds -> {"none", "done", "crashed", "terminated"}]
    /\ overlapped \in SUBSET SessionIds

HasProcess(id) == children[id] # NoProc
HasWork(id) == HasProcess(id) /\ children[id].pending > 0
Requested(op, id) == \E i \in DOMAIN toHost : toHost[i] = Frame(op, id)
TellsEnd(f, id) == f.op \in {"exit", "refused"} /\ f.id = id
EndsAfter(p, id) == \E q \in DOMAIN toServer : q > p /\ TellsEnd(toServer[q], id)
RestsAfter(p, id) ==
    \E q \in DOMAIN toServer : q > p /\ (TellsEnd(toServer[q], id) \/ toServer[q] = Frame("result", id))

\* The socket: a server that is linked is attached, and waits for one list unless it is ready.
SocketOK ==
    /\ linked => attached /\ \A i \in DOMAIN toHost : toHost[i].op # "close"
    /\ ~linked => toServer = <<>> /\ phase # "ready" /\ (phase = "relink" => ~attached)
    /\ linked => \A i \in DOMAIN toHost :
           toHost[i].op = "list" => i = 1 /\ phase # "ready" /\ \A q \in DOMAIN toServer : toServer[q].op # "list"
    /\ \A p, q \in DOMAIN toServer : toServer[p].op = "list" /\ toServer[q].op = "list" => p = q
    /\ phase = "ready" => \A q \in DOMAIN toServer : toServer[q].op # "list"

\* A live session hears its process.
AliveIsHeard == \A id \in SessionIds : Alive(id) => hooks[id] # 0 /\ hooks[id] = live[id].of

\* A busy process has a prompt to answer.
BusyHasWork == \A id \in SessionIds : HasProcess(id) /\ children[id].busy => HasWork(id)

\* A server that boots has no session but those it started before the list came.
BootIsBlank ==
    phase = "boot" => \A id \in SessionIds :
        /\ ~linked \/ id \notin overlapped => live[id].status = "none"
        /\ linked /\ id \notin overlapped => ~Requested("spawn", id)

\* A new host has no process until it is asked for one.
NewHostIsEmpty ==
    phase = "relink" =>
        /\ exits = {}
        /\ ~linked \/ (\E i \in DOMAIN toHost : toHost[i].op = "list") => \A id \in SessionIds : ~HasProcess(id)
        /\ \A id \in SessionIds \ overlapped : ~HasProcess(id) /\ ~Requested("spawn", id)
        /\ \A p \in DOMAIN toServer : toServer[p].op = "list" =>
               \A id \in SessionIds : toServer[p].procs[id] = "gone"

\* A live session has its process, or will have, or will be told that it has none.
AliveHasProcess ==
    linked /\ phase # "relink" => \A id \in SessionIds :
        Alive(id) => HasProcess(id) \/ Requested("spawn", id) \/ EndsAfter(0, id)

\* A prompt on its way that a process will be there to take.
PromptComing(id) ==
    \E i \in DOMAIN toHost : toHost[i] = Frame("user", id) /\
        (HasProcess(id) \/ \E j \in DOMAIN toHost : j < i /\ toHost[j] = Frame("spawn", id))

\* A session shown running has work, or a prompt or what brings it to rest is under way.
RunningWillRest ==
    linked /\ phase # "relink" => \A id \in SessionIds :
        live[id].status = "running" => HasWork(id) \/ PromptComing(id) \/ RestsAfter(0, id)

\* A line of work is followed by what brings the session to rest, unless the process still works.
LinesAreFollowed ==
    \A p \in DOMAIN toServer, id \in SessionIds : toServer[p] = Frame("line", id) =>
        HasWork(id) \/ RestsAfter(p, id)

\* What a list says is so, or what changed is told behind it.
ListsTell ==
    \A p \in DOMAIN toServer : toServer[p].op = "list" => \A id \in SessionIds :
        /\ toServer[p].procs[id] # "gone" => HasProcess(id) \/ EndsAfter(p, id)
        /\ toServer[p].procs[id] = "running" => HasWork(id) \/ RestsAfter(p, id)

\* ... and what a new server makes of it is right.
ListsAreComplete ==
    phase = "boot" => \A p \in DOMAIN toServer : toServer[p].op = "list" =>
        /\ exits \subseteq toServer[p].exits
        /\ \A id \in SessionIds \ overlapped :
               /\ HasProcess(id) => toServer[p].procs[id] # "gone"
               /\ toServer[p].procs[id] # "gone" =>
                      marker[id] # "crashed" /\ \A x \in toServer[p].exits : x.id # id

\* A spawn finds no process of its id, nor anything of an earlier one under way.
SpawnsAreAlone ==
    \A id \in SessionIds \ overlapped : \A j \in DOMAIN toHost : toHost[j] = Frame("spawn", id) =>
        /\ ~HasProcess(id)
        /\ \A i \in DOMAIN toHost : i < j => toHost[i] # Frame("spawn", id) /\ toHost[i] # Frame("kill", id)
        /\ \A q \in DOMAIN toServer : toServer[q].op # "list" => toServer[q].id # id

\* An end that is told is that of the only process there was.
EndsAreTrue ==
    \A id \in SessionIds \ overlapped : \A q \in DOMAIN toServer :
        /\ toServer[q] # Frame("refused", id)
        /\ toServer[q].op = "exit" /\ toServer[q].id = id => ~HasProcess(id)

\* An exit in the backlog is acknowledged before the session is spawned again.
Acked(id, j) == \E i \in DOMAIN toHost : i < j /\ toHost[i].op = "ack" /\ id \in toHost[i].ids
BacklogIsOld ==
    \A x \in exits : x.id \notin overlapped =>
        /\ ~HasProcess(x.id)
        /\ \A j \in DOMAIN toHost : toHost[j] = Frame("spawn", x.id) => Acked(x.id, j)
BacklogIsAcked ==
    linked /\ phase = "ready" => \A x \in exits : Acked(x.id, Len(toHost) + 1)

KilledIsUnderWay(id) ==
    \/ Requested("kill", id) \/ (HasProcess(id) /\ children[id].killed)
    \/ \E q \in DOMAIN toServer : toServer[q] = Exit(id, "killed")

MarkersTrue ==
    \A id \in SessionIds \ overlapped :
        /\ marker[id] = "crashed" => ~HasProcess(id) /\ ~Requested("spawn", id) /\ ~Alive(id)
        /\ KilledIsUnderWay(id) => marker[id] # "none"
        /\ live[id].status = "exited" => marker[id] # "none"

\* A process the server does not show is to be killed.
UnseenIsKilled ==
    linked /\ phase = "ready" => \A id \in SessionIds \ overlapped :
        /\ HasProcess(id) /\ ~children[id].killed => Alive(id) \/ Requested("kill", id)
        /\ \A j \in DOMAIN toHost : toHost[j] = Frame("spawn", id) =>
               Alive(id) \/ \E i \in DOMAIN toHost : i > j /\ toHost[i] = Frame("kill", id)

HostInv ==
    /\ HostTyped /\ LinkTyped /\ ServerTyped /\ SocketOK /\ AliveIsHeard /\ BusyHasWork /\ BootIsBlank /\ NewHostIsEmpty
    /\ AliveHasProcess /\ RunningWillRest /\ LinesAreFollowed /\ ListsTell /\ ListsAreComplete
    /\ SpawnsAreAlone /\ EndsAreTrue /\ BacklogIsOld /\ BacklogIsAcked /\ MarkersTrue /\ UnseenIsKilled

\* Frames are told apart by what they say and whom they are for.
LEMMA FramesAre ==
    /\ \A op, id : Frame(op, id).op = op /\ Frame(op, id).id = id
    /\ \A id, reason : /\ Exit(id, reason).op = "exit" /\ Exit(id, reason).id = id
                       /\ Exit(id, reason).reason = reason
    /\ \A op \in {"spawn", "user", "kill"}, id \in SessionIds : Frame(op, id) \in HostRequests
    /\ \A op \in {"line", "result", "refused"}, id \in SessionIds : Frame(op, id) \in HostFrames
    /\ \A id \in SessionIds, reason \in {"self", "killed"} :
           Exit(id, reason) \in ExitRecords /\ Exit(id, reason) \in HostFrames
  BY DEF Frame, Exit, HostRequests, HostFrames, ExitRecords

LEMMA RequestsAre ==
    ASSUME NEW r \in HostRequests
    PROVE  /\ r.op \in {"spawn", "user", "kill", "ack", "list", "close"}
           /\ r.op \in {"spawn", "user", "kill"} => r.id \in SessionIds /\ r = Frame(r.op, r.id)
           /\ r.op = "ack" => r.ids \subseteq SessionIds
  BY DEF HostRequests, Frame

LEMMA EventsAre ==
    ASSUME NEW f \in HostFrames
    PROVE  /\ f.op \in {"line", "result", "refused", "exit", "list"}
           /\ f.op # "list" => f.id \in SessionIds
           /\ f.op \in {"line", "result", "refused"} => f = Frame(f.op, f.id)
           /\ f.op = "exit" => f.reason \in {"self", "killed"} /\ f = Exit(f.id, f.reason)
           /\ f.op = "list" => f \in Listings
  BY DEF HostFrames, ExitRecords, Listings, Frame, Exit

\* One more at the end of a queue, one less at its head.
LEMMA QueueGrows ==
    ASSUME NEW S, NEW s \in Seq(S), NEW e \in S, NEW t, t = Append(s, e)
    PROVE  /\ t \in Seq(S)
           /\ \A i \in DOMAIN s : i \in DOMAIN t /\ t[i] = s[i] /\ i \in Nat /\ i > 0 /\ i < Len(s) + 1
           /\ \A i \in DOMAIN t : i \in DOMAIN s \/ (i = Len(s) + 1 /\ t[i] = e)
           /\ Len(s) + 1 \in DOMAIN t /\ t[Len(s) + 1] = e /\ Len(s) + 1 > 0 /\ Len(s) \in Nat
           /\ Len(t) = Len(s) + 1
  OBVIOUS

LEMMA QueueShifts ==
    ASSUME NEW S, NEW s \in Seq(S), s # <<>>, NEW t, t = Tail(s)
    PROVE  /\ t \in Seq(S) /\ 1 \in DOMAIN s /\ Head(s) = s[1] /\ s[1] \in S
           /\ \A i \in DOMAIN t : i \in Nat /\ i > 0 /\ i + 1 \in DOMAIN s /\ t[i] = s[i + 1]
           /\ \A i \in DOMAIN s : i \in Nat /\ (i = 1 \/ (i > 1 /\ i - 1 \in DOMAIN t /\ t[i - 1] = s[i]))
           /\ Len(s) \in Nat /\ Len(t) \in Nat /\ Len(t) + 1 = Len(s)
  OBVIOUS

\* An event reaches the server that is linked, behind all others.
LEMMA EventGrows ==
    ASSUME HostTyped, SocketOK, NEW f \in HostFrames, Event(f)
    PROVE  /\ toServer' \in Seq(HostFrames)
           /\ \A q \in DOMAIN toServer : q \in DOMAIN toServer' /\ toServer'[q] = toServer[q]
           /\ \A q \in DOMAIN toServer' : q \in Nat /\ q > 0 /\
                  (q \in DOMAIN toServer \/ (toServer'[q] = f /\ linked))
           /\ linked => \E n \in DOMAIN toServer' :
                  n > 0 /\ toServer'[n] = f /\ \A q \in DOMAIN toServer : n > q
           /\ \A p, q \in DOMAIN toServer' : p \in DOMAIN toServer \/ q \in DOMAIN toServer \/ p = q
<1>1. toServer \in Seq(HostFrames)
  BY DEF HostTyped
<1>2. CASE linked
  <2>1. toServer' = Append(toServer, f)
    BY <1>2 DEF SocketOK, Event
  <2>2. PICK n : n = Len(toServer) + 1
    OBVIOUS
  <2> QED
    BY <1>1, <1>2, <2>1, <2>2, QueueGrows
<1>3. CASE ~linked
  BY <1>1, <1>3 DEF Event
<1> QED
  BY <1>2, <1>3

\* What is told stays told while events are added.
LEMMA TellingsStay ==
    ASSUME \A q \in DOMAIN toServer : q \in DOMAIN toServer' /\ toServer'[q] = toServer[q]
    PROVE  \A p, id : /\ EndsAfter(p, id) => EndsAfter(p, id)'
                      /\ RestsAfter(p, id) => RestsAfter(p, id)'
  BY DEF EndsAfter, RestsAfter, TellsEnd

\* What a step of a process does to the frames, its id aside.
LEMMA ProcessKeeps ==
    ASSUME HostInv, NEW id \in SessionIds, HasProcess(id),
           NEW f \in HostFrames, Event(f), f.op \in {"line", "result", "exit"}, f.id = id,
           NEW c \in Procs \cup {NoProc}, children' = [children EXCEPT ![id] = c],
           f.op = "exit" <=> c = NoProc,
           f.op = "exit" => f.reason = IF children[id].killed THEN "killed" ELSE "self",
           c # NoProc => c.killed = children[id].killed /\ (c.busy => c.pending > 0),
           f.op = "line" => HasWork(id) /\ c = children[id],
           exits' \in SUBSET ExitRecords,
           \/ exits' = exits
           \/ ~attached /\ c = NoProc /\ \A x \in exits' : x \in exits \/ x.id = id,
           UNCHANGED <<linked, attached, toHost, phase, live, hooks, objects, marker, overlapped>>
    PROVE  HostInv'
<1>1. HostTyped /\ LinkTyped /\ SocketOK /\ (linked => attached)
  BY DEF HostInv, SocketOK
<1>2. children \in [SessionIds -> Procs \cup {NoProc}]
  BY <1>1 DEF HostTyped
<1>3. children'[id] = c /\ \A i \in SessionIds : i # id => children'[i] = children[i]
  BY <1>2
<1>4. /\ toServer' \in Seq(HostFrames)
      /\ \A q \in DOMAIN toServer : q \in DOMAIN toServer' /\ toServer'[q] = toServer[q]
      /\ \A q \in DOMAIN toServer' : q \in Nat /\ q > 0 /\
             (q \in DOMAIN toServer \/ (toServer'[q] = f /\ linked))
      /\ linked => \E n \in DOMAIN toServer' :
             n > 0 /\ toServer'[n] = f /\ \A q \in DOMAIN toServer : n > q
  BY <1>1, EventGrows
<1>5. \A p, i : /\ EndsAfter(p, i) => EndsAfter(p, i)'
                /\ RestsAfter(p, i) => RestsAfter(p, i)'
  BY <1>4, TellingsStay
<1>6. \A i \in SessionIds : HasProcess(i)' => HasProcess(i) /\ children'[i].killed = children[i].killed
  BY <1>3 DEF HasProcess
<1>7. linked /\ c = NoProc => \A p \in DOMAIN toServer \cup {0} : EndsAfter(p, id)'
  BY <1>4 DEF EndsAfter, TellsEnd
<1>8. linked /\ f.op # "line" => \A p \in DOMAIN toServer \cup {0} : RestsAfter(p, id)'
  <2>1. f.op # "line" => TellsEnd(f, id) \/ f = Frame("result", id)
    BY EventsAre DEF TellsEnd
  <2> QED
    BY <1>4, <2>1 DEF RestsAfter, TellsEnd
<1>9. \A i \in SessionIds, p \in DOMAIN toServer \cup {0} : linked =>
          /\ HasProcess(i) => HasProcess(i)' \/ EndsAfter(p, i)'
          /\ HasWork(i) => HasWork(i)' \/ RestsAfter(p, i)'
  BY <1>3, <1>7, <1>8 DEF HasProcess, HasWork
<1>10. HostTyped' /\ LinkTyped' /\ ServerTyped'
  <2>1. children' \in [SessionIds -> Procs \cup {NoProc}]
    BY <1>2
  <2>2. HostTyped'
    BY <1>1, <1>4, <2>1 DEF HostTyped
  <2> QED
    BY <1>1, <2>2 DEF HostInv, LinkTyped, ServerTyped
<1>11. SocketOK'
  <2>1. \A q \in DOMAIN toServer' : toServer'[q].op = "list" => q \in DOMAIN toServer /\ toServer[q].op = "list"
    BY <1>4
  <2>2. ~linked => toServer' = <<>>
    BY <1>1 DEF SocketOK, Event
  <2> QED
    BY <1>1, <2>1, <2>2 DEF SocketOK
<1>12. AliveIsHeard' /\ BootIsBlank'
  BY DEF HostInv, AliveIsHeard, BootIsBlank, Alive, Requested
<1>13. BusyHasWork'
  BY <1>3 DEF HostInv, BusyHasWork, HasProcess, HasWork
<1>14. NewHostIsEmpty'
  <2>1. phase = "relink" => linked /\ exits' = exits
    BY <1>1 DEF HostInv, NewHostIsEmpty
  <2>2. \A q \in DOMAIN toServer' : toServer'[q].op = "list" => q \in DOMAIN toServer /\ toServer'[q] = toServer[q]
    BY <1>4
  <2> QED
    BY <1>6, <2>1, <2>2 DEF HostInv, NewHostIsEmpty, Requested
<1>15. AliveHasProcess'
  BY <1>5, <1>9 DEF HostInv, AliveHasProcess, Alive, Requested
<1>16. RunningWillRest'
  <2>1. \A i \in SessionIds : linked /\ PromptComing(i) => PromptComing(i)' \/ RestsAfter(0, i)'
    <3>1. \A i \in SessionIds : PromptComing(i) /\ (HasProcess(i) => HasProcess(i)') => PromptComing(i)'
      BY DEF PromptComing
    <3>2. \A i \in SessionIds : HasProcess(i) /\ ~HasProcess(i)' => i = id /\ c = NoProc
      BY <1>3 DEF HasProcess
    <3> QED
      BY <1>8, <3>1, <3>2
  <2> QED
    BY <1>5, <1>9, <2>1 DEF HostInv, RunningWillRest
<1>17. LinesAreFollowed'
  <2> SUFFICES ASSUME NEW p \in DOMAIN toServer', NEW i \in SessionIds, toServer'[p] = Frame("line", i)
               PROVE  HasWork(i)' \/ RestsAfter(p, i)'
    BY DEF LinesAreFollowed
  <2>1. CASE p \in DOMAIN toServer
    <3>1. HasWork(i) \/ RestsAfter(p, i)
      BY <1>4, <2>1 DEF HostInv, LinesAreFollowed
    <3>2. linked
      BY <1>1, <2>1 DEF SocketOK
    <3> QED
      BY <1>5, <1>9, <2>1, <3>1, <3>2
  <2>2. CASE p \notin DOMAIN toServer
    <3>1. f = Frame("line", i)
      BY <1>4, <2>2
    <3>2. f.op = "line" /\ i = id
      BY <3>1, FramesAre
    <3> QED
      BY <1>3, <3>2 DEF HasWork, HasProcess
  <2> QED
    BY <2>1, <2>2
<1>18. ListsTell'
  <2> SUFFICES ASSUME NEW p \in DOMAIN toServer', toServer'[p].op = "list", NEW i \in SessionIds
               PROVE  /\ toServer'[p].procs[i] # "gone" => HasProcess(i)' \/ EndsAfter(p, i)'
                      /\ toServer'[p].procs[i] = "running" => HasWork(i)' \/ RestsAfter(p, i)'
    BY DEF ListsTell
  <2>1. p \in DOMAIN toServer /\ toServer'[p] = toServer[p] /\ linked
    BY <1>1, <1>4 DEF SocketOK
  <2> QED
    BY <1>5, <1>9, <2>1 DEF HostInv, ListsTell
<1>19. ListsAreComplete'
  <2> SUFFICES ASSUME phase = "boot", NEW p \in DOMAIN toServer', toServer'[p].op = "list"
               PROVE  /\ exits' \subseteq toServer'[p].exits
                      /\ \A i \in SessionIds \ overlapped :
                             /\ HasProcess(i)' => toServer'[p].procs[i] # "gone"
                             /\ toServer'[p].procs[i] # "gone" =>
                                    marker[i] # "crashed" /\ \A x \in toServer'[p].exits : x.id # i
    BY DEF ListsAreComplete
  <2>1. p \in DOMAIN toServer /\ toServer'[p] = toServer[p] /\ linked
    BY <1>1, <1>4 DEF SocketOK
  <2> QED
    BY <1>1, <1>6, <2>1 DEF HostInv, ListsAreComplete
<1>20. SpawnsAreAlone'
  BY <1>4, <1>6 DEF HostInv, SpawnsAreAlone
<1>21. EndsAreTrue'
  <2>1. \A i \in SessionIds : f # Frame("refused", i)
    BY FramesAre
  <2> QED
    BY <1>3, <1>4, <1>6, <2>1 DEF HostInv, EndsAreTrue, HasProcess
<1>22. BacklogIsOld'
  <2>1. \A x \in exits : x.id \in SessionIds
    BY <1>1 DEF HostTyped, ExitRecords
  <2>2. \A x \in exits' : x.id \in SessionIds
    BY DEF ExitRecords
  <2>3. c = NoProc => ~HasProcess(id)'
    BY <1>3 DEF HasProcess
  <2>4. id \notin overlapped => \A j \in DOMAIN toHost : toHost[j] # Frame("spawn", id)
    BY DEF HostInv, SpawnsAreAlone
  <2> QED
    BY <1>6, <2>1, <2>2, <2>3, <2>4 DEF HostInv, BacklogIsOld, Acked
<1>23. BacklogIsAcked'
  BY <1>1 DEF HostInv, BacklogIsAcked, Acked
<1>24. MarkersTrue'
  <2>1. \A i \in SessionIds : KilledIsUnderWay(i)' => KilledIsUnderWay(i)
    <3> SUFFICES ASSUME NEW i \in SessionIds, KilledIsUnderWay(i)'
                 PROVE  KilledIsUnderWay(i)
      OBVIOUS
    <3>1. CASE Requested("kill", i)'
      BY <3>1 DEF Requested, KilledIsUnderWay
    <3>2. CASE (HasProcess(i) /\ children[i].killed)'
      BY <1>6, <3>2 DEF KilledIsUnderWay
    <3>3. ASSUME NEW q \in DOMAIN toServer', toServer'[q] = Exit(i, "killed")
          PROVE  KilledIsUnderWay(i)
      <4>1. CASE q \in DOMAIN toServer
        BY <1>4, <3>3, <4>1 DEF KilledIsUnderWay
      <4>2. CASE q \notin DOMAIN toServer
        <5>1. f = Exit(i, "killed")
          BY <1>4, <3>3, <4>2
        <5>2. i = id /\ f.op = "exit" /\ f.reason = "killed"
          BY <5>1, FramesAre
        <5> QED
          BY <5>2 DEF KilledIsUnderWay
      <4> QED
        BY <4>1, <4>2
    <3> QED
      BY <3>1, <3>2, <3>3 DEF KilledIsUnderWay
  <2> QED
    BY <1>6, <2>1 DEF HostInv, MarkersTrue, Requested, Alive
<1>25. UnseenIsKilled'
  BY <1>6 DEF HostInv, UnseenIsKilled, Requested, Alive
<1> QED
  BY <1>10, <1>11, <1>12, <1>13, <1>14, <1>15, <1>16, <1>17, <1>18, <1>19, <1>20, <1>21, <1>22, <1>23,
     <1>24, <1>25 DEF HostInv

LEMMA WorksKeeps ==
    ASSUME HostInv, NEW id \in SessionIds, Works(id)
    PROVE  HostInv'
<1>1. PICK f : f = Frame("line", id)
  OBVIOUS
<1>2. f \in HostFrames /\ f.op = "line" /\ f.id = id
  BY <1>1, FramesAre
<1>3. PICK c : c = children[id]
  OBVIOUS
<1>4. /\ HasProcess(id) /\ c \in Procs /\ children' = [children EXCEPT ![id] = c] /\ HasWork(id)
      /\ exits \in SUBSET ExitRecords /\ c # NoProc
  BY <1>3 DEF HostInv, HostTyped, Works, HasProcess, HasWork
<1>5. c.busy => c.pending > 0
  BY <1>3, <1>4 DEF HostInv, BusyHasWork, HasWork
<1>6. /\ Event(f) /\ exits' = exits
      /\ UNCHANGED <<linked, attached, toHost, phase, live, hooks, objects, marker, overlapped>>
  BY <1>1 DEF Works, serverVars
<1> QED
  BY <1>2, <1>3, <1>4, <1>5, <1>6, ProcessKeeps

LEMMA TurnDoneKeeps ==
    ASSUME HostInv, NEW id \in SessionIds, TurnDone(id)
    PROVE  HostInv'
<1>1. PICK f : f = Frame("result", id)
  OBVIOUS
<1>2. f \in HostFrames /\ f.op = "result" /\ f.id = id
  BY <1>1, FramesAre
<1>3. PICK left \in 0..children[id].pending - 1 :
          children' = [children EXCEPT ![id].busy = FALSE, ![id].pending = left]
  BY DEF TurnDone
<1>4. /\ HasProcess(id) /\ children[id] \in Procs /\ children \in [SessionIds -> Procs \cup {NoProc}]
      /\ exits \in SUBSET ExitRecords
  BY DEF HostInv, HostTyped, TurnDone, HasProcess
<1>5. PICK c : c = [children[id] EXCEPT !.busy = FALSE, !.pending = left]
  OBVIOUS
<1>6. c \in Procs /\ c.killed = children[id].killed /\ c.busy = FALSE
  BY <1>3, <1>4, <1>5 DEF Procs
<1>7. children' = [children EXCEPT ![id] = c]
  BY <1>3, <1>4, <1>5
<1>8. c # NoProc
  BY <1>6, HostAssumption DEF Procs
<1>9. /\ Event(f) /\ exits' = exits
      /\ UNCHANGED <<linked, attached, toHost, phase, live, hooks, objects, marker, overlapped>>
  BY <1>1 DEF TurnDone, serverVars
<1> QED
  BY <1>2, <1>4, <1>6, <1>7, <1>8, <1>9, ProcessKeeps

LEMMA ProcessExitsKeeps ==
    ASSUME HostInv, NEW id \in SessionIds, ProcessExits(id)
    PROVE  HostInv'
<1>1. PICK reason \in {"self", "killed"} : reason = IF children[id].killed THEN "killed" ELSE "self"
  OBVIOUS
<1>2. PICK f : f = Exit(id, reason)
  OBVIOUS
<1>3. f \in HostFrames /\ f \in ExitRecords /\ f.op = "exit" /\ f.id = id /\ f.reason = reason
  BY <1>2, FramesAre
<1>4. /\ HasProcess(id) /\ children' = [children EXCEPT ![id] = NoProc] /\ Event(f)
      /\ exits' = IF attached THEN exits ELSE exits \cup {f}
      /\ UNCHANGED <<linked, attached, toHost, phase, live, hooks, objects, marker, overlapped>>
  BY <1>1, <1>2 DEF ProcessExits, RecordExit, HasProcess, serverVars
<1>5. exits \in SUBSET ExitRecords
  BY DEF HostInv, HostTyped
<1>6. /\ exits' \in SUBSET ExitRecords
      /\ exits' = exits \/ (~attached /\ \A x \in exits' : x \in exits \/ x.id = id)
  BY <1>3, <1>4, <1>5
<1> QED
  BY <1>1, <1>3, <1>4, <1>6, ProcessKeeps

LEMMA HostStarts == HostInit => HostInv
<1> SUFFICES ASSUME HostInit PROVE HostInv
  OBVIOUS
<1>1. HostTyped
  <2>1. children \in [SessionIds -> Procs \cup {NoProc}] /\ exits \in SUBSET ExitRecords
    BY DEF HostInit
  <2>2. toHost \in Seq(HostRequests) /\ toServer \in Seq(HostFrames)
    BY DEF HostInit
  <2> QED
    BY <2>1, <2>2 DEF HostInit, HostTyped
<1>10. LinkTyped
  BY DEF HostInit, LinkTyped
<1>2. ServerTyped
  BY DEF HostInit, ServerTyped
<1>3. SocketOK /\ AliveIsHeard /\ BusyHasWork /\ BootIsBlank /\ NewHostIsEmpty
  BY DEF HostInit, SocketOK, AliveIsHeard, BusyHasWork, BootIsBlank, NewHostIsEmpty, Alive, HasProcess, Requested
<1>4. AliveHasProcess /\ RunningWillRest /\ LinesAreFollowed /\ ListsTell /\ ListsAreComplete
  BY DEF HostInit, AliveHasProcess, RunningWillRest, LinesAreFollowed, ListsTell, ListsAreComplete
<1>5. SpawnsAreAlone /\ EndsAreTrue /\ BacklogIsOld /\ BacklogIsAcked /\ UnseenIsKilled
  BY DEF HostInit, SpawnsAreAlone, EndsAreTrue, BacklogIsOld, BacklogIsAcked, UnseenIsKilled
<1>6. MarkersTrue
  BY DEF HostInit, MarkersTrue, KilledIsUnderWay, Requested, HasProcess
<1> QED
  BY <1>1, <1>2, <1>3, <1>4, <1>5, <1>6, <1>10 DEF HostInv

\* What a request behind all others leaves as it is.
LEMMA RequestKeeps ==
    ASSUME HostInv, NEW f \in HostRequests, f.op \in {"spawn", "user", "kill"}, toHost' = Append(toHost, f),
           UNCHANGED <<children, exits, linked, attached, toServer, phase>>
    PROVE  /\ HostTyped' /\ LinkTyped' /\ SocketOK' /\ BusyHasWork' /\ LinesAreFollowed' /\ ListsTell'
           /\ BacklogIsAcked'
           /\ \A i \in DOMAIN toHost : i \in DOMAIN toHost' /\ toHost'[i] = toHost[i]
           /\ \E n \in DOMAIN toHost' :
                  /\ n = Len(toHost) + 1 /\ toHost'[n] = f /\ \A i \in DOMAIN toHost : n > i
                  /\ \A i \in DOMAIN toHost' : i \in DOMAIN toHost \/ i = n
           /\ \A op, i : /\ Requested(op, i) => Requested(op, i)'
                         /\ Requested(op, i)' => Requested(op, i) \/ f = Frame(op, i)
           /\ \A i : PromptComing(i) => PromptComing(i)'
<1>1. HostTyped /\ toHost \in Seq(HostRequests)
  BY DEF HostInv, HostTyped
<1>2. PICK n : n = Len(toHost) + 1
  OBVIOUS
<1>3. /\ toHost' \in Seq(HostRequests) /\ n \in DOMAIN toHost' /\ toHost'[n] = f /\ n > 0
      /\ \A i \in DOMAIN toHost : i \in DOMAIN toHost' /\ toHost'[i] = toHost[i] /\ n > i
      /\ \A i \in DOMAIN toHost' : i \in DOMAIN toHost \/ (i = n /\ toHost'[i] = f)
      /\ n \in Nat /\ Len(toHost') = n
  BY <1>1, <1>2, QueueGrows
<1>4. HostTyped' /\ LinkTyped'
  BY <1>1, <1>3 DEF HostInv, HostTyped, LinkTyped
<1>5. SocketOK'
  BY <1>3 DEF HostInv, SocketOK
<1>6. BusyHasWork' /\ LinesAreFollowed' /\ ListsTell'
  BY DEF HostInv, BusyHasWork, LinesAreFollowed, ListsTell, HasProcess, HasWork, EndsAfter, RestsAfter, TellsEnd
<1>7. BacklogIsAcked'
  <2>1. \A i \in DOMAIN toHost : i < Len(toHost) + 1 => i < Len(toHost') + 1
    BY <1>2, <1>3
  <2> QED
    BY <1>3, <2>1 DEF HostInv, BacklogIsAcked, Acked
<1>8. \A op, i : /\ Requested(op, i) => Requested(op, i)'
                 /\ Requested(op, i)' => Requested(op, i) \/ f = Frame(op, i)
  BY <1>3 DEF Requested
<1>9. \A i : PromptComing(i) => PromptComing(i)'
  <2>1. \A i : HasProcess(i)' <=> HasProcess(i)
    BY DEF HasProcess
  <2> QED
    BY <1>3, <2>1 DEF PromptComing
<1> QED
  BY <1>2, <1>3, <1>4, <1>5, <1>6, <1>7, <1>8, <1>9

LEMMA StartKeeps ==
    ASSUME HostInv, NEW id \in SessionIds, Start(id)
    PROVE  HostInv'
<1>1. PICK f : f = Frame("spawn", id)
  OBVIOUS
<1>2. f \in HostRequests /\ f.op = "spawn" /\ f.id = id
  BY <1>1, FramesAre
<1>3. PICK k : k = objects[id] + 1
  OBVIOUS
<1>4. /\ linked /\ toHost' = Append(toHost, f) /\ ~Alive(id)
      /\ objects' = [objects EXCEPT ![id] = k]
      /\ live' = [live EXCEPT ![id] = [status |-> "idle", of |-> k]]
      /\ hooks' = [hooks EXCEPT ![id] = k] /\ marker' = [marker EXCEPT ![id] = "none"]
      /\ UNCHANGED <<children, exits, linked, attached, toServer, phase>>
      /\ overlapped' = IF Quiesced(id) /\ phase = "ready" THEN overlapped ELSE overlapped \cup {id}
  <2>1. ServerTyped
    BY DEF HostInv
  <2>2. objects' = [objects EXCEPT ![id] = k]
    BY <1>3 DEF Start
  <2>3. objects'[id] = k
    BY <2>1, <2>2 DEF ServerTyped
  <2> QED
    BY <1>1, <2>2, <2>3 DEF Start
<1>5. /\ HostTyped' /\ LinkTyped' /\ SocketOK' /\ BusyHasWork' /\ LinesAreFollowed' /\ ListsTell'
      /\ BacklogIsAcked'
      /\ \A op, i : /\ Requested(op, i) => Requested(op, i)'
                    /\ Requested(op, i)' => Requested(op, i) \/ f = Frame(op, i)
      /\ \A i : PromptComing(i) => PromptComing(i)'
  BY <1>2, <1>4, RequestKeeps
<1>6. PICK n \in DOMAIN toHost' :
          /\ n = Len(toHost) + 1 /\ toHost'[n] = f
          /\ \A i \in DOMAIN toHost : n > i /\ i \in DOMAIN toHost' /\ toHost'[i] = toHost[i]
          /\ \A i \in DOMAIN toHost' : i \in DOMAIN toHost \/ i = n
  BY <1>2, <1>4, RequestKeeps
<1>7. /\ ServerTyped /\ k \in Nat /\ k # 0
      /\ live'[id].status = "idle" /\ live'[id].of = k /\ hooks'[id] = k /\ marker'[id] = "none"
      /\ \A i \in SessionIds : i # id =>
             live'[i] = live[i] /\ hooks'[i] = hooks[i] /\ marker'[i] = marker[i]
  BY <1>3, <1>4 DEF HostInv, ServerTyped
<1>8. \A i \in SessionIds : i \notin overlapped' => i \notin overlapped /\ (i = id => Quiesced(id) /\ phase = "ready")
  BY <1>4
<1>9. \A i \in SessionIds : i # id => f # Frame("spawn", i) /\ f # Frame("kill", i) /\ f # Frame("user", i)
  BY <1>2, FramesAre
<1>10. ServerTyped'
  <2>1. live' \in [SessionIds -> [status : {"none", "idle", "running", "exited"}, of : Nat]]
    <3>1. [status |-> "idle", of |-> k] \in [status : {"none", "idle", "running", "exited"}, of : Nat]
      BY <1>7
    <3> QED
      BY <1>4, <1>7, <3>1 DEF ServerTyped
  <2>2. overlapped' \in SUBSET SessionIds
    BY <1>4, <1>7 DEF ServerTyped
  <2> QED
    BY <1>4, <1>7, <2>1, <2>2 DEF ServerTyped
<1>11. AliveIsHeard'
  BY <1>7 DEF HostInv, AliveIsHeard, Alive
<1>12. BootIsBlank' /\ NewHostIsEmpty'
  <2>1. \A i \in SessionIds : i # id /\ Requested("spawn", i)' => Requested("spawn", i)
    BY <1>5, <1>9
  <2>2. BootIsBlank'
    BY <1>4, <1>7, <1>8, <2>1 DEF HostInv, BootIsBlank
  <2>3. (\E i \in DOMAIN toHost' : toHost'[i].op = "list") => \E i \in DOMAIN toHost : toHost[i].op = "list"
    BY <1>2, <1>6
  <2> QED
    BY <1>4, <1>8, <2>1, <2>2, <2>3 DEF HostInv, NewHostIsEmpty, HasProcess
<1>13. AliveHasProcess'
  <2>1. Requested("spawn", id)'
    BY <1>1, <1>6 DEF Requested
  <2> QED
    BY <1>4, <1>5, <1>7, <2>1 DEF HostInv, AliveHasProcess, Alive, HasProcess, EndsAfter, TellsEnd
<1>14. RunningWillRest'
  BY <1>4, <1>5, <1>7 DEF HostInv, RunningWillRest, HasWork, HasProcess, RestsAfter, TellsEnd
<1>15. ListsAreComplete'
  BY <1>4, <1>7, <1>8 DEF HostInv, ListsAreComplete, HasProcess
<1>16. SpawnsAreAlone'
  <2> SUFFICES ASSUME NEW i \in SessionIds \ overlapped', NEW j \in DOMAIN toHost', toHost'[j] = Frame("spawn", i)
               PROVE  /\ ~HasProcess(i)
                      /\ \A l \in DOMAIN toHost' : l < j => toHost'[l] # Frame("spawn", i) /\ toHost'[l] # Frame("kill", i)
                      /\ \A q \in DOMAIN toServer : toServer[q].op # "list" => toServer[q].id # i
    BY <1>4 DEF SpawnsAreAlone, HasProcess
  <2>1. CASE j \in DOMAIN toHost
    <3>1. \A l \in DOMAIN toHost' : l < j => l \in DOMAIN toHost
      <4>1. n > j /\ j \in Nat /\ n \in Nat
        BY <1>6, <2>1 DEF HostInv, HostTyped
      <4> QED
        BY <1>6, <4>1
    <3> QED
      BY <1>6, <1>8, <2>1, <3>1 DEF HostInv, SpawnsAreAlone
  <2>2. CASE j \notin DOMAIN toHost
    <3>1. j = n /\ i = id /\ Quiesced(id)
      BY <1>6, <1>8, <1>9, <2>2
    <3>2. /\ ~HasProcess(id)
          /\ \A l \in DOMAIN toHost : toHost[l] # Frame("spawn", id) /\ toHost[l] # Frame("kill", id)
          /\ \A q \in DOMAIN toServer : toServer[q].op # "list" => toServer[q].id # id
      BY <3>1, FramesAre DEF Quiesced, HasProcess
    <3>3. \A l \in DOMAIN toHost' : l < j => l \in DOMAIN toHost
      BY <1>6, <3>1
    <3> QED
      BY <1>6, <3>1, <3>2, <3>3
  <2> QED
    BY <2>1, <2>2
<1>17. EndsAreTrue'
  BY <1>4, <1>8 DEF HostInv, EndsAreTrue, HasProcess
<1>18. BacklogIsOld'
  <2> SUFFICES ASSUME NEW x \in exits, x.id \notin overlapped'
               PROVE  /\ ~HasProcess(x.id)
                      /\ \A j \in DOMAIN toHost' : toHost'[j] = Frame("spawn", x.id) => Acked(x.id, j)'
    BY <1>4 DEF BacklogIsOld, HasProcess
  <2>1. x.id \in SessionIds
    BY DEF HostInv, HostTyped, ExitRecords
  <2>2. \A j \in DOMAIN toHost : Acked(x.id, j) => Acked(x.id, j)'
    BY <1>6 DEF Acked
  <2>3. ~HasProcess(x.id) /\ \A j \in DOMAIN toHost : toHost[j] = Frame("spawn", x.id) => Acked(x.id, j)
    BY <1>8, <2>1 DEF HostInv, BacklogIsOld
  <2>4. x.id = id => Acked(x.id, n)'
    <3>1. x.id = id => Acked(x.id, n)
      BY <1>4, <1>6, <1>8, <2>1 DEF HostInv, BacklogIsAcked
    <3> QED
      BY <1>6, <3>1 DEF Acked
  <2> QED
    BY <1>6, <1>9, <2>1, <2>2, <2>3, <2>4
<1>19. MarkersTrue'
  <2> SUFFICES ASSUME NEW i \in SessionIds \ overlapped'
               PROVE  (/\ marker[i] = "crashed" => ~HasProcess(i) /\ ~Requested("spawn", i) /\ ~Alive(i)
                       /\ KilledIsUnderWay(i) => marker[i] # "none"
                       /\ live[i].status = "exited" => marker[i] # "none")'
    BY DEF MarkersTrue
  <2>1. CASE i # id
    <3>1. (Requested("spawn", i)' <=> Requested("spawn", i)) /\ (Requested("kill", i)' <=> Requested("kill", i))
      BY <1>5, <1>9, <2>1
    <3>2. KilledIsUnderWay(i)' <=> KilledIsUnderWay(i)
      BY <1>4, <3>1 DEF KilledIsUnderWay, HasProcess
    <3> QED
      BY <1>4, <1>7, <1>8, <2>1, <3>1, <3>2 DEF HostInv, MarkersTrue, HasProcess, Alive
  <2>2. CASE i = id
    <3>1. Quiesced(id)
      BY <1>8, <2>2
    <3>2. ~Requested("kill", id) /\ ~HasProcess(id) /\ \A q \in DOMAIN toServer : toServer[q] # Exit(id, "killed")
      BY <3>1, FramesAre DEF Quiesced, Requested, HasProcess
    <3>3. f # Frame("kill", id)
      BY <1>2, FramesAre
    <3>4. ~KilledIsUnderWay(id)'
      BY <1>4, <1>5, <3>2, <3>3 DEF KilledIsUnderWay, HasProcess
    <3> QED
      BY <1>7, <2>2, <3>4
  <2> QED
    BY <2>1, <2>2
<1>20. UnseenIsKilled'
  <2> SUFFICES ASSUME phase = "ready", NEW i \in SessionIds \ overlapped', ~Alive(i)'
               PROVE  /\ HasProcess(i) /\ ~children[i].killed => Requested("kill", i)'
                      /\ \A j \in DOMAIN toHost' : toHost'[j] = Frame("spawn", i) =>
                             \E l \in DOMAIN toHost' : l > j /\ toHost'[l] = Frame("kill", i)
    BY <1>4 DEF UnseenIsKilled, HasProcess
  <2>1. i # id /\ ~Alive(i) /\ i \notin overlapped
    BY <1>7, <1>8 DEF Alive
  <2>2. /\ HasProcess(i) /\ ~children[i].killed => Requested("kill", i)
        /\ \A j \in DOMAIN toHost : toHost[j] = Frame("spawn", i) =>
               \E l \in DOMAIN toHost : l > j /\ toHost[l] = Frame("kill", i)
    BY <1>4, <2>1 DEF HostInv, UnseenIsKilled
  <2> QED
    BY <1>5, <1>6, <1>9, <2>1, <2>2
<1> QED
  BY <1>5, <1>10, <1>11, <1>12, <1>13, <1>14, <1>15, <1>16, <1>17, <1>18, <1>19, <1>20 DEF HostInv

LEMMA PromptKeeps ==
    ASSUME HostInv, NEW id \in SessionIds, Prompt(id)
    PROVE  HostInv'
<1>1. PICK f : f = Frame("user", id)
  OBVIOUS
<1>2. f \in HostRequests /\ f.op = "user" /\ f.id = id
  BY <1>1, FramesAre
<1>3. /\ Alive(id) /\ live' = [live EXCEPT ![id].status = "running"]
      /\ toHost' = IF linked THEN Append(toHost, f) ELSE toHost
      /\ UNCHANGED <<children, exits, linked, attached, toServer, phase, hooks, objects, marker, overlapped>>
  BY <1>1 DEF Prompt
<1>4. /\ HostTyped' /\ LinkTyped' /\ SocketOK' /\ BusyHasWork' /\ LinesAreFollowed' /\ ListsTell'
      /\ BacklogIsAcked'
      /\ \A op, i : /\ Requested(op, i) => Requested(op, i)'
                    /\ Requested(op, i)' => Requested(op, i) \/ f = Frame(op, i)
      /\ \A i : PromptComing(i) => PromptComing(i)'
      /\ \A i \in DOMAIN toHost : i \in DOMAIN toHost' /\ toHost'[i] = toHost[i]
      /\ \A i \in DOMAIN toHost' : i \in DOMAIN toHost \/ (toHost'[i] = f /\ \A j \in DOMAIN toHost : i > j)
      /\ linked => \E n \in DOMAIN toHost' : toHost'[n] = f /\ \A i \in DOMAIN toHost : n > i
  <2>1. CASE linked
    <3>1. toHost' = Append(toHost, f)
      BY <1>3, <2>1
    <3> QED
      BY <1>2, <1>3, <3>1, RequestKeeps
  <2>2. CASE ~linked
    <3>1. toHost' = toHost
      BY <1>3, <2>2
    <3> QED
      BY <1>3, <2>2, <3>1 DEF HostInv, HostTyped, LinkTyped, SocketOK, BusyHasWork, LinesAreFollowed, ListsTell,
                   BacklogIsAcked, Requested, PromptComing, HasProcess, HasWork, EndsAfter, RestsAfter, TellsEnd
  <2> QED
    BY <2>1, <2>2
<1>5. /\ ServerTyped /\ live'[id].status = "running" /\ live'[id].of = live[id].of
      /\ \A i \in SessionIds : i # id => live'[i] = live[i]
  BY <1>3 DEF HostInv, ServerTyped
<1>6. \A i \in SessionIds : Alive(i)' <=> Alive(i)
  BY <1>3, <1>5 DEF Alive
<1>7. \A i : f # Frame("spawn", i) /\ f # Frame("kill", i)
  BY <1>2, FramesAre
<1>8. \A op, i : op # "user" => (Requested(op, i)' <=> Requested(op, i))
  BY <1>2, <1>4, FramesAre
<1>9. ServerTyped'
  BY <1>3, <1>5 DEF ServerTyped
<1>10. AliveIsHeard'
  BY <1>3, <1>5, <1>6 DEF HostInv, AliveIsHeard
<1>11. BootIsBlank' /\ NewHostIsEmpty'
  <2>1. phase = "boot" => linked /\ id \in overlapped
    BY <1>3 DEF HostInv, BootIsBlank, Alive
  <2>2. BootIsBlank'
    BY <1>3, <1>5, <1>8, <2>1 DEF HostInv, BootIsBlank
  <2>3. (\E i \in DOMAIN toHost' : toHost'[i].op = "list") => \E i \in DOMAIN toHost : toHost[i].op = "list"
    BY <1>2, <1>4
  <2> QED
    BY <1>3, <1>8, <2>2, <2>3 DEF HostInv, NewHostIsEmpty, HasProcess
<1>12. AliveHasProcess'
  BY <1>3, <1>6, <1>8 DEF HostInv, AliveHasProcess, HasProcess, EndsAfter, TellsEnd
<1>13. RunningWillRest'
  <2>1. linked /\ phase # "relink" => PromptComing(id)' \/ RestsAfter(0, id)'
    <3> SUFFICES ASSUME linked, phase # "relink"
                 PROVE  PromptComing(id)' \/ RestsAfter(0, id)'
      OBVIOUS
    <3>1. HasProcess(id) \/ Requested("spawn", id) \/ EndsAfter(0, id)
      BY <1>3 DEF HostInv, AliveHasProcess
    <3>2. EndsAfter(0, id) => RestsAfter(0, id)'
      BY <1>3 DEF EndsAfter, RestsAfter, TellsEnd
    <3>3. HasProcess(id) \/ Requested("spawn", id) => PromptComing(id)'
      BY <1>1, <1>3, <1>4 DEF PromptComing, Requested, HasProcess
    <3> QED
      BY <3>1, <3>2, <3>3
  <2>2. \A i \in SessionIds : i # id => live'[i].status = live[i].status
    BY <1>5
  <2> QED
    BY <1>3, <1>4, <2>1, <2>2 DEF HostInv, RunningWillRest, HasWork, HasProcess, RestsAfter, TellsEnd
<1>14. ListsAreComplete' /\ EndsAreTrue'
  BY <1>3 DEF HostInv, ListsAreComplete, EndsAreTrue, HasProcess
<1>15. \A j \in DOMAIN toHost' : \A i : toHost'[j] = Frame("spawn", i) =>
           j \in DOMAIN toHost /\ toHost[j] = Frame("spawn", i)
  BY <1>4, <1>7
<1>16. SpawnsAreAlone' /\ BacklogIsOld'
  <2>1. SpawnsAreAlone'
    BY <1>3, <1>4, <1>7, <1>15 DEF HostInv, SpawnsAreAlone, HasProcess
  <2>2. \A i, j : Acked(i, j) => Acked(i, j)'
    BY <1>4 DEF Acked
  <2> QED
    BY <1>3, <1>15, <2>1, <2>2 DEF HostInv, BacklogIsOld, HasProcess
<1>17. MarkersTrue'
  <2>1. \A i \in SessionIds : KilledIsUnderWay(i)' <=> KilledIsUnderWay(i)
    BY <1>3, <1>8 DEF KilledIsUnderWay, HasProcess
  <2>2. \A i \in SessionIds : live'[i].status = "exited" => live[i].status = "exited"
    BY <1>5
  <2> QED
    BY <1>3, <1>6, <1>8, <2>1, <2>2 DEF HostInv, MarkersTrue, HasProcess
<1>18. UnseenIsKilled'
  BY <1>3, <1>4, <1>6, <1>8, <1>15 DEF HostInv, UnseenIsKilled, HasProcess
<1> QED
  BY <1>4, <1>9, <1>10, <1>11, <1>12, <1>13, <1>14, <1>16, <1>17, <1>18 DEF HostInv

LEMMA EndKeeps ==
    ASSUME HostInv, NEW id \in SessionIds, End(id)
    PROVE  HostInv'
<1>1. PICK f : f = Frame("kill", id)
  OBVIOUS
<1>2. f \in HostRequests /\ f.op = "kill" /\ f.id = id
  BY <1>1, FramesAre
<1>3. /\ Alive(id) /\ live' = [live EXCEPT ![id].status = "none"] /\ marker' = [marker EXCEPT ![id] = "done"]
      /\ toHost' = IF linked THEN Append(toHost, f) ELSE toHost
      /\ UNCHANGED <<children, exits, linked, attached, toServer, phase, hooks, objects, overlapped>>
  BY <1>1 DEF End
<1>4. /\ HostTyped' /\ LinkTyped' /\ SocketOK' /\ BusyHasWork' /\ LinesAreFollowed' /\ ListsTell'
      /\ BacklogIsAcked'
      /\ \A op, i : /\ Requested(op, i) => Requested(op, i)'
                    /\ Requested(op, i)' => Requested(op, i) \/ f = Frame(op, i)
      /\ \A i : PromptComing(i) => PromptComing(i)'
      /\ \A i \in DOMAIN toHost : i \in DOMAIN toHost' /\ toHost'[i] = toHost[i]
      /\ \A i \in DOMAIN toHost' : i \in DOMAIN toHost \/ (toHost'[i] = f /\ \A j \in DOMAIN toHost : i > j)
      /\ linked => \E n \in DOMAIN toHost' : toHost'[n] = f /\ \A i \in DOMAIN toHost : n > i
  <2>1. CASE linked
    <3>1. toHost' = Append(toHost, f)
      BY <1>3, <2>1
    <3> QED
      BY <1>2, <1>3, <3>1, RequestKeeps
  <2>2. CASE ~linked
    <3>1. toHost' = toHost
      BY <1>3, <2>2
    <3> QED
      BY <1>3, <2>2, <3>1 DEF HostInv, HostTyped, LinkTyped, SocketOK, BusyHasWork, LinesAreFollowed, ListsTell,
                   BacklogIsAcked, Requested, PromptComing, HasProcess, HasWork, EndsAfter, RestsAfter, TellsEnd
  <2> QED
    BY <2>1, <2>2
<1>5. /\ ServerTyped /\ live'[id].status = "none" /\ live'[id].of = live[id].of /\ marker'[id] = "done"
      /\ \A i \in SessionIds : i # id => live'[i] = live[i] /\ marker'[i] = marker[i]
  BY <1>3 DEF HostInv, ServerTyped
<1>6. \A i \in SessionIds : Alive(i)' <=> Alive(i) /\ i # id
  BY <1>3, <1>5 DEF Alive
<1>7. \A i : f # Frame("spawn", i) /\ (i # id => f # Frame("kill", i))
  BY <1>2, FramesAre
<1>8. \A i : /\ Requested("spawn", i)' <=> Requested("spawn", i)
             /\ i # id => (Requested("kill", i)' <=> Requested("kill", i))
  BY <1>4, <1>7
<1>9. ServerTyped'
  BY <1>3, <1>5 DEF ServerTyped
<1>10. AliveIsHeard'
  BY <1>3, <1>5, <1>6 DEF HostInv, AliveIsHeard
<1>11. phase = "boot" => id \in overlapped
  BY <1>3 DEF HostInv, BootIsBlank, Alive
<1>12. BootIsBlank' /\ NewHostIsEmpty'
  <2>1. BootIsBlank'
    BY <1>3, <1>5, <1>8, <1>11 DEF HostInv, BootIsBlank
  <2>2. (\E i \in DOMAIN toHost' : toHost'[i].op = "list") => \E i \in DOMAIN toHost : toHost[i].op = "list"
    BY <1>2, <1>4
  <2> QED
    BY <1>3, <1>8, <2>1, <2>2 DEF HostInv, NewHostIsEmpty, HasProcess
<1>13. AliveHasProcess'
  BY <1>3, <1>6, <1>8 DEF HostInv, AliveHasProcess, HasProcess, EndsAfter, TellsEnd
<1>14. RunningWillRest'
  BY <1>3, <1>4, <1>5 DEF HostInv, RunningWillRest, HasWork, HasProcess, RestsAfter, TellsEnd
<1>15. ListsAreComplete' /\ EndsAreTrue'
  BY <1>3, <1>5, <1>11 DEF HostInv, ListsAreComplete, EndsAreTrue, HasProcess
<1>16. \A j \in DOMAIN toHost' : \A i : toHost'[j] = Frame("spawn", i) =>
           j \in DOMAIN toHost /\ toHost[j] = Frame("spawn", i)
  BY <1>4, <1>7
<1>17. \A l \in DOMAIN toHost', j \in DOMAIN toHost : l < j => l \in DOMAIN toHost
  <2>1. \A l \in DOMAIN toHost' : l \in Nat
    BY <1>4 DEF HostTyped
  <2>2. \A l \in DOMAIN toHost : l \in Nat
    BY DEF HostInv, HostTyped
  <2> QED
    BY <1>4, <2>1, <2>2
<1>18. SpawnsAreAlone' /\ BacklogIsOld'
  <2>1. SpawnsAreAlone'
    BY <1>3, <1>4, <1>16, <1>17 DEF HostInv, SpawnsAreAlone, HasProcess
  <2>2. \A i, j : Acked(i, j) => Acked(i, j)'
    BY <1>4 DEF Acked
  <2> QED
    BY <1>3, <1>16, <2>1, <2>2 DEF HostInv, BacklogIsOld, HasProcess
<1>19. MarkersTrue'
  <2>1. \A i \in SessionIds : i # id => (KilledIsUnderWay(i)' <=> KilledIsUnderWay(i))
    BY <1>3, <1>8 DEF KilledIsUnderWay, HasProcess
  <2> QED
    BY <1>3, <1>5, <1>6, <1>8, <2>1 DEF HostInv, MarkersTrue, HasProcess
<1>20. UnseenIsKilled'
  <2> SUFFICES ASSUME linked, phase = "ready", NEW i \in SessionIds \ overlapped, ~Alive(i)'
               PROVE  /\ HasProcess(i) /\ ~children[i].killed => Requested("kill", i)'
                      /\ \A j \in DOMAIN toHost' : toHost'[j] = Frame("spawn", i) =>
                             \E l \in DOMAIN toHost' : l > j /\ toHost'[l] = Frame("kill", i)
    BY <1>3 DEF UnseenIsKilled, HasProcess
  <2>1. CASE i = id
    BY <1>1, <1>4, <1>16, <2>1 DEF Requested
  <2>2. CASE i # id
    BY <1>4, <1>6, <1>16, <2>2 DEF HostInv, UnseenIsKilled
  <2> QED
    BY <2>1, <2>2
<1> QED
  BY <1>4, <1>9, <1>10, <1>12, <1>13, <1>14, <1>15, <1>18, <1>19, <1>20 DEF HostInv

\* What the host does with the request at the head of its queue.
LEMMA HeadIsServed ==
    ASSUME HostInv, Serve, NEW r, r = toHost[1]
    PROVE  /\ HostTyped' /\ r \in HostRequests /\ 1 \in DOMAIN toHost /\ attached
           /\ attached' = (r.op # "close")
           /\ UNCHANGED <<linked, phase, live, hooks, objects, marker, overlapped>>
           /\ exits' \subseteq exits
           /\ r.op = "ack" => \A x \in exits' : x.id \notin r.ids
           /\ r.op = "list" => UNCHANGED <<children, exits>>
           /\ \A i \in SessionIds :
                  /\ HasProcess(i) => HasProcess(i)'
                  /\ HasWork(i) => HasWork(i)'
                  /\ HasProcess(i)' /\ ~HasProcess(i) => r = Frame("spawn", i)
                  /\ r = Frame("spawn", i) => HasProcess(i)'
                  /\ r = Frame("user", i) /\ HasProcess(i) => HasWork(i)'
                  /\ HasProcess(i)' /\ children'[i].busy => HasWork(i)'
                  /\ HasProcess(i)' /\ children'[i].killed =>
                         (HasProcess(i) /\ children[i].killed) \/ r = Frame("kill", i)
                  /\ HasProcess(i)' /\ ~children'[i].killed =>
                         (HasProcess(i) /\ ~children[i].killed /\ r # Frame("kill", i)) \/ r = Frame("spawn", i)
           /\ \A q \in DOMAIN toServer : q \in DOMAIN toServer' /\ toServer'[q] = toServer[q]
           /\ \A q \in DOMAIN toServer' : q \in Nat /\ q > 0 /\
                  (\/ q \in DOMAIN toServer
                   \/ linked /\ r.op = "list" /\ toServer'[q] = Listing
                   \/ linked /\ \E i \in SessionIds :
                          toServer'[q] = Frame("refused", i) /\ r = Frame("spawn", i) /\ HasProcess(i))
           /\ \A p, q \in DOMAIN toServer' : p \in DOMAIN toServer \/ q \in DOMAIN toServer \/ p = q
<1>1. HostTyped /\ SocketOK /\ BusyHasWork
  BY DEF HostInv
<1>2. /\ toHost' \in Seq(HostRequests) /\ 1 \in DOMAIN toHost /\ r \in HostRequests /\ r = Head(toHost)
  <2>1. toHost \in Seq(HostRequests) /\ toHost # <<>> /\ toHost' = Tail(toHost)
    BY <1>1 DEF HostTyped, Serve
  <2> QED
    BY <2>1, QueueShifts
<1>3. /\ attached /\ attached' = (r.op # "close")
      /\ UNCHANGED <<linked, phase, live, hooks, objects, marker, overlapped>>
  BY <1>2 DEF Serve, serverVars
<1>4. /\ r.op \in {"spawn", "user", "kill", "ack", "list", "close"}
      /\ r.op \in {"spawn", "user", "kill"} => r.id \in SessionIds /\ r = Frame(r.op, r.id)
      /\ r.op = "ack" => r.ids \subseteq SessionIds
  BY <1>2, RequestsAre
<1>5. /\ children \in [SessionIds -> Procs \cup {NoProc}] /\ exits \in SUBSET ExitRecords
      /\ toServer \in Seq(HostFrames)
  BY <1>1 DEF HostTyped
<1>6. r.op \in {"spawn", "user", "kill"} => \A op, i : r = Frame(op, i) <=> op = r.op /\ i = r.id
  BY <1>4 DEF Frame
<1>7. r.op \notin {"spawn", "user", "kill"} => \A op \in {"spawn", "user", "kill"} : \A i : r # Frame(op, i)
  BY FramesAre
<1>8. toServer' = toServer =>
          /\ \A q \in DOMAIN toServer : q \in DOMAIN toServer' /\ toServer'[q] = toServer[q]
          /\ \A q \in DOMAIN toServer' : q \in Nat /\ q > 0 /\ q \in DOMAIN toServer
  BY <1>5
<1>9. ASSUME UNCHANGED children
      PROVE  \A i \in SessionIds :
                 /\ HasProcess(i)' <=> HasProcess(i)
                 /\ HasWork(i)' <=> HasWork(i)
                 /\ HasProcess(i)' /\ children'[i].busy => HasWork(i)'
                 /\ children'[i] = children[i]
  BY <1>1, <1>9 DEF HasProcess, HasWork, BusyHasWork
<1>10. ASSUME NEW c \in Procs, children' = [children EXCEPT ![r.id] = c], r.id \in SessionIds
       PROVE  /\ children' \in [SessionIds -> Procs \cup {NoProc}]
              /\ children'[r.id] = c /\ c # NoProc
              /\ \A i \in SessionIds \ {r.id} : children'[i] = children[i]
  BY <1>5, <1>10, HostAssumption DEF Procs
<1>11. CASE r.op = "close"
  <2>1. UNCHANGED <<children, exits, toServer>>
    BY <1>2, <1>11 DEF Serve
  <2>2. HostTyped'
    BY <1>1, <1>2, <1>3, <2>1 DEF HostTyped
  <2> QED
    BY <1>2, <1>3, <1>7, <1>8, <1>9, <1>11, <2>1, <2>2
<1>12. CASE r.op = "spawn" /\ ~HasProcess(r.id)
  <2>1. PICK c : c = [busy |-> FALSE, pending |-> 0, killed |-> FALSE]
    OBVIOUS
  <2>2. c \in Procs /\ c.busy = FALSE /\ c.killed = FALSE
    BY <2>1 DEF Procs
  <2>3. /\ children' = [children EXCEPT ![r.id] = c] /\ UNCHANGED <<toServer, exits>>
    BY <1>2, <1>12, <2>1 DEF Serve, Spawn, HasProcess
  <2>4. /\ children' \in [SessionIds -> Procs \cup {NoProc}]
        /\ children'[r.id] = c /\ c # NoProc
        /\ \A i \in SessionIds \ {r.id} : children'[i] = children[i]
    BY <1>4, <1>10, <1>12, <2>2, <2>3
  <2>5. HostTyped'
    BY <1>1, <1>2, <1>3, <2>3, <2>4 DEF HostTyped
  <2>6. \A i \in SessionIds :
            /\ HasProcess(i) => HasProcess(i)'
            /\ HasWork(i) => HasWork(i)'
            /\ HasProcess(i)' /\ ~HasProcess(i) => i = r.id
            /\ i = r.id => HasProcess(i)'
            /\ HasProcess(i)' /\ children'[i].busy => HasWork(i)'
            /\ HasProcess(i)' /\ children'[i].killed => HasProcess(i) /\ children[i].killed
            /\ HasProcess(i)' /\ ~children'[i].killed => (HasProcess(i) /\ ~children[i].killed) \/ i = r.id
    BY <1>1, <1>12, <2>2, <2>4 DEF HasProcess, HasWork, BusyHasWork
  <2> QED
    BY <1>2, <1>3, <1>4, <1>6, <1>8, <1>12, <2>3, <2>5, <2>6
<1>13. CASE r.op = "spawn" /\ HasProcess(r.id)
  <2>1. PICK f : f = Frame("refused", r.id)
    OBVIOUS
  <2>2. f \in HostFrames
    BY <1>4, <1>13, <2>1, FramesAre
  <2>3. Event(f) /\ UNCHANGED <<children, exits>>
    BY <1>2, <1>13, <2>1 DEF Serve, Spawn, HasProcess
  <2>4. /\ toServer' \in Seq(HostFrames)
        /\ \A q \in DOMAIN toServer : q \in DOMAIN toServer' /\ toServer'[q] = toServer[q]
        /\ \A q \in DOMAIN toServer' : q \in Nat /\ q > 0 /\
               (q \in DOMAIN toServer \/ (toServer'[q] = f /\ linked))
        /\ \A p, q \in DOMAIN toServer' : p \in DOMAIN toServer \/ q \in DOMAIN toServer \/ p = q
    BY <1>1, <2>2, <2>3, EventGrows
  <2>5. HostTyped'
    BY <1>1, <1>2, <1>3, <2>3, <2>4 DEF HostTyped
  <2>6. \A i \in SessionIds :
                 /\ HasProcess(i)' <=> HasProcess(i)
                 /\ HasWork(i)' <=> HasWork(i)
                 /\ HasProcess(i)' /\ children'[i].busy => HasWork(i)'
                 /\ children'[i] = children[i]
    BY <1>9, <2>3
  <2> QED
    BY <1>2, <1>3, <1>4, <1>6, <1>13, <2>1, <2>3, <2>4, <2>5, <2>6
<1>14. CASE r.op = "list"
  <2>1. PICK f : f = Listing
    OBVIOUS
  <2>2. f \in HostFrames
    <3>1. f \in Listings
      BY <1>5, <2>1 DEF Listing, Listings
    <3> QED
      BY <3>1 DEF HostFrames
  <2>3. Event(f) /\ UNCHANGED <<children, exits>>
    BY <1>2, <1>14, <2>1 DEF Serve
  <2>4. /\ toServer' \in Seq(HostFrames)
        /\ \A q \in DOMAIN toServer : q \in DOMAIN toServer' /\ toServer'[q] = toServer[q]
        /\ \A q \in DOMAIN toServer' : q \in Nat /\ q > 0 /\
               (q \in DOMAIN toServer \/ (toServer'[q] = f /\ linked))
        /\ \A p, q \in DOMAIN toServer' : p \in DOMAIN toServer \/ q \in DOMAIN toServer \/ p = q
    BY <1>1, <2>2, <2>3, EventGrows
  <2>5. HostTyped'
    BY <1>1, <1>2, <1>3, <2>3, <2>4 DEF HostTyped
  <2>6. \A i \in SessionIds :
                 /\ HasProcess(i)' <=> HasProcess(i)
                 /\ HasWork(i)' <=> HasWork(i)
                 /\ HasProcess(i)' /\ children'[i].busy => HasWork(i)'
                 /\ children'[i] = children[i]
    BY <1>9, <2>3
  <2> QED
    BY <1>2, <1>3, <1>7, <1>14, <2>1, <2>3, <2>4, <2>5, <2>6
<1>15. CASE r.op = "ack"
  <2>1. UNCHANGED <<children, toServer>> /\ exits' = {x \in exits : x.id \notin r.ids}
    BY <1>2, <1>15 DEF Serve
  <2>2. HostTyped'
    <3>1. exits' \in SUBSET ExitRecords
      BY <1>5, <2>1
    <3> QED
      BY <1>1, <1>2, <1>3, <2>1, <3>1 DEF HostTyped
  <2>3. exits' \subseteq exits /\ \A x \in exits' : x.id \notin r.ids
    BY <2>1
  <2> QED
    BY <1>2, <1>3, <1>7, <1>8, <1>9, <1>15, <2>1, <2>2, <2>3
<1>16. CASE r.op \in {"user", "kill"} /\ ~HasProcess(r.id)
  <2>1. UNCHANGED <<children, exits, toServer>>
    BY <1>2, <1>16 DEF Serve, HasProcess
  <2>2. HostTyped'
    BY <1>1, <1>2, <1>3, <2>1 DEF HostTyped
  <2>3. \A i \in SessionIds :
                 /\ HasProcess(i)' <=> HasProcess(i)
                 /\ HasWork(i)' <=> HasWork(i)
                 /\ HasProcess(i)' /\ children'[i].busy => HasWork(i)'
                 /\ children'[i] = children[i]
    BY <1>9, <2>1
  <2> QED
    BY <1>2, <1>3, <1>4, <1>6, <1>8, <1>16, <2>1, <2>2, <2>3
<1>17. CASE r.op \in {"user", "kill"} /\ HasProcess(r.id)
  <2>1. PICK c : c = IF r.op = "user"
                     THEN [children[r.id] EXCEPT !.busy = TRUE, !.pending = @ + 1]
                     ELSE [children[r.id] EXCEPT !.killed = TRUE]
    OBVIOUS
  <2>2. children[r.id] \in Procs
    BY <1>4, <1>5, <1>17 DEF HasProcess
  <2>3. /\ c \in Procs
        /\ r.op = "user" => c.pending > 0 /\ c.killed = children[r.id].killed
        /\ r.op = "kill" => c.pending = children[r.id].pending /\ c.busy = children[r.id].busy /\ c.killed = TRUE
    <3>1. CASE r.op = "user"
      <4>1. PICK k \in Nat : k = children[r.id].pending
        BY <2>2 DEF Procs
      <4>2. c = [children[r.id] EXCEPT !.busy = TRUE, !.pending = k + 1]
        BY <2>1, <3>1, <4>1
      <4>3. k + 1 \in Nat /\ k + 1 > 0
        OBVIOUS
      <4> QED
        BY <2>2, <3>1, <4>2, <4>3 DEF Procs
    <3>2. CASE r.op = "kill"
      BY <2>1, <2>2, <3>2 DEF Procs
    <3> QED
      BY <1>17, <3>1, <3>2
  <2>4. children' = [children EXCEPT ![r.id] = c] /\ UNCHANGED <<exits, toServer>>
    <3>1. CASE r.op = "user"
      <4>1. /\ children' = [children EXCEPT ![r.id].busy = TRUE, ![r.id].pending = @ + 1]
            /\ UNCHANGED <<exits, toServer>>
        BY <1>2, <1>17, <3>1 DEF Serve, HasProcess
      <4> QED
        BY <1>4, <1>5, <1>17, <2>1, <2>2, <3>1, <4>1 DEF Procs
    <3>2. CASE r.op = "kill"
      <4>1. /\ children' = [children EXCEPT ![r.id].killed = TRUE]
            /\ UNCHANGED <<exits, toServer>>
        BY <1>2, <1>17, <3>2 DEF Serve, HasProcess
      <4> QED
        BY <1>4, <1>5, <1>17, <2>1, <2>2, <3>2, <4>1 DEF Procs
    <3> QED
      BY <1>17, <3>1, <3>2
  <2>5. /\ children' \in [SessionIds -> Procs \cup {NoProc}]
        /\ children'[r.id] = c /\ c # NoProc
        /\ \A i \in SessionIds \ {r.id} : children'[i] = children[i]
    BY <1>4, <1>10, <1>17, <2>3, <2>4
  <2>6. HostTyped'
    BY <1>1, <1>2, <1>3, <2>4, <2>5 DEF HostTyped
  <2>7. \A i \in SessionIds : (HasProcess(i)' <=> HasProcess(i)) /\ (HasWork(i) => HasWork(i)')
    BY <1>4, <1>17, <2>3, <2>5 DEF HasProcess, HasWork
  <2>8. \A i \in SessionIds : HasProcess(i)' /\ children'[i].busy => HasWork(i)'
    BY <1>1, <1>4, <1>17, <2>3, <2>5 DEF HasProcess, HasWork, BusyHasWork
  <2>9. \A i \in SessionIds : r.op = "user" /\ i = r.id => HasWork(i)'
    BY <2>3, <2>5 DEF HasProcess, HasWork
  <2>10. \A i \in SessionIds :
             /\ HasProcess(i)' /\ children'[i].killed => (HasProcess(i) /\ children[i].killed) \/ (r.op = "kill" /\ i = r.id)
             /\ HasProcess(i)' /\ ~children'[i].killed => HasProcess(i) /\ ~children[i].killed /\ ~(r.op = "kill" /\ i = r.id)
    BY <1>4, <1>17, <2>3, <2>5 DEF HasProcess
  <2> QED
    BY <1>2, <1>3, <1>4, <1>6, <1>8, <1>17, <2>4, <2>6, <2>7, <2>8, <2>9, <2>10
<1> QED
  BY <1>4, <1>11, <1>12, <1>13, <1>14, <1>15, <1>16, <1>17

LEMMA HandleKeeps ==
    ASSUME HostInv, Serve
    PROVE  HostInv'
<1>1. PICK r : r = toHost[1]
  OBVIOUS
<1>2. /\ HostTyped' /\ r \in HostRequests /\ 1 \in DOMAIN toHost /\ attached
      /\ attached' = (r.op # "close")
      /\ UNCHANGED <<linked, phase, live, hooks, objects, marker, overlapped>>
      /\ exits' \subseteq exits
      /\ r.op = "ack" => \A x \in exits' : x.id \notin r.ids
      /\ r.op = "list" => UNCHANGED <<children, exits>>
      /\ \A q \in DOMAIN toServer : q \in DOMAIN toServer' /\ toServer'[q] = toServer[q]
      /\ \A q \in DOMAIN toServer' : q \in Nat /\ q > 0 /\
             (\/ q \in DOMAIN toServer
              \/ linked /\ r.op = "list" /\ toServer'[q] = Listing
              \/ linked /\ \E i \in SessionIds :
                     toServer'[q] = Frame("refused", i) /\ r = Frame("spawn", i) /\ HasProcess(i))
      /\ \A p, q \in DOMAIN toServer' : p \in DOMAIN toServer \/ q \in DOMAIN toServer \/ p = q
  BY <1>1, HeadIsServed
<1>3. \A i \in SessionIds :
          /\ HasProcess(i) => HasProcess(i)'
          /\ HasWork(i) => HasWork(i)'
          /\ HasProcess(i)' /\ ~HasProcess(i) => r = Frame("spawn", i)
          /\ r = Frame("spawn", i) => HasProcess(i)'
          /\ r = Frame("user", i) /\ HasProcess(i) => HasWork(i)'
          /\ HasProcess(i)' /\ children'[i].busy => HasWork(i)'
          /\ HasProcess(i)' /\ children'[i].killed =>
                 (HasProcess(i) /\ children[i].killed) \/ r = Frame("kill", i)
          /\ HasProcess(i)' /\ ~children'[i].killed =>
                 (HasProcess(i) /\ ~children[i].killed /\ r # Frame("kill", i)) \/ r = Frame("spawn", i)
  BY <1>1, HeadIsServed
<1>4. /\ \A i \in DOMAIN toHost' : i \in Nat /\ i > 0 /\ i + 1 \in DOMAIN toHost /\ toHost'[i] = toHost[i + 1]
      /\ \A i \in DOMAIN toHost : i \in Nat /\ (i = 1 \/ (i > 1 /\ i - 1 \in DOMAIN toHost' /\ toHost'[i - 1] = toHost[i]))
      /\ Len(toHost) \in Nat /\ Len(toHost') + 1 = Len(toHost) /\ Len(toHost') \in Nat
  <2>1. toHost \in Seq(HostRequests) /\ toHost # <<>> /\ toHost' = Tail(toHost)
    BY DEF HostInv, HostTyped, Serve
  <2> QED
    BY <2>1, QueueShifts
<1>5. \A op, i : /\ Requested(op, i)' => Requested(op, i)
                 /\ Requested(op, i) => Requested(op, i)' \/ r = Frame(op, i)
                 /\ r = Frame(op, i) => Requested(op, i)
  BY <1>1, <1>2, <1>4 DEF Requested
<1>6. \A p, i : /\ EndsAfter(p, i) => EndsAfter(p, i)'
                /\ RestsAfter(p, i) => RestsAfter(p, i)'
  BY <1>2, TellingsStay
<1>7. /\ linked => r.op # "close"
      /\ linked /\ r.op = "list" => phase # "ready" /\ \A q \in DOMAIN toServer : toServer[q].op # "list"
  BY <1>1, <1>2 DEF HostInv, SocketOK
<1>8. \A i \in SessionIds \ overlapped : r = Frame("spawn", i) =>
          ~HasProcess(i) /\ \A q \in DOMAIN toServer : toServer[q].op # "list" => toServer[q].id # i
  BY <1>1, <1>2 DEF HostInv, SpawnsAreAlone
<1>9. Listing.op = "list"
  BY DEF Listing
<1>10. \A q \in DOMAIN toServer' : toServer'[q].op = "list" =>
           q \in DOMAIN toServer \/ (linked /\ r.op = "list" /\ toServer'[q] = Listing)
  BY <1>2, FramesAre
<1>11. LinkTyped' /\ ServerTyped' /\ AliveIsHeard'
  BY <1>2 DEF HostInv, LinkTyped, ServerTyped, AliveIsHeard, Alive
<1>12. BusyHasWork'
  BY <1>3 DEF BusyHasWork
<1>13. \A i \in DOMAIN toHost' : linked => toHost'[i].op # "list" /\ toHost'[i].op # "close"
  <2>1. \A i \in DOMAIN toHost' : i + 1 # 1
    BY <1>4
  <2> QED
    BY <1>4, <2>1 DEF HostInv, SocketOK
<1>14. SocketOK'
  <2>1. ~linked => toServer' = <<>>
    <3>1. ~linked => toServer = <<>> /\ toServer' \in Seq(HostFrames)
      BY <1>2 DEF HostInv, HostTyped, SocketOK
    <3>2. ~linked => 1 \notin DOMAIN toServer'
      <4>1. 1 \notin DOMAIN << >>
        OBVIOUS
      <4> QED
        BY <1>2, <3>1, <4>1
    <3> QED
      BY <3>1, <3>2
  <2>2. \A p, q \in DOMAIN toServer' : toServer'[p].op = "list" /\ toServer'[q].op = "list" => p = q
    <3> SUFFICES ASSUME NEW p \in DOMAIN toServer', NEW q \in DOMAIN toServer',
                        toServer'[p].op = "list", toServer'[q].op = "list"
                 PROVE  p = q
      OBVIOUS
    <3>1. CASE p \in DOMAIN toServer /\ q \in DOMAIN toServer
      BY <1>2, <3>1 DEF HostInv, SocketOK
    <3>2. CASE ~(p \in DOMAIN toServer /\ q \in DOMAIN toServer)
      <4>1. linked /\ r.op = "list"
        BY <1>10, <3>2
      <4>2. p \notin DOMAIN toServer /\ q \notin DOMAIN toServer
        BY <1>2, <1>7, <4>1
      <4> QED
        BY <1>2, <4>2
    <3> QED
      BY <3>1, <3>2
  <2>3. phase = "ready" => \A q \in DOMAIN toServer' : toServer'[q].op # "list"
    BY <1>2, <1>7, <1>10 DEF HostInv, SocketOK
  <2> QED
    BY <1>2, <1>7, <1>13, <2>1, <2>2, <2>3 DEF HostInv, SocketOK
<1>15. BootIsBlank'
  BY <1>2, <1>5 DEF HostInv, BootIsBlank
<1>16. NewHostIsEmpty'
  <2> SUFFICES ASSUME phase = "relink"
               PROVE  /\ exits' = {}
                      /\ linked /\ \A i \in DOMAIN toHost' : toHost'[i].op # "list"
                      /\ \A id \in SessionIds \ overlapped : ~HasProcess(id)' /\ ~Requested("spawn", id)'
                      /\ \A p \in DOMAIN toServer' : toServer'[p].op = "list" =>
                             \A id \in SessionIds : toServer'[p].procs[id] = "gone"
    BY <1>2 DEF NewHostIsEmpty
  <2>1. linked
    BY <1>2 DEF HostInv, SocketOK
  <2>2. \A id \in SessionIds \ overlapped : ~HasProcess(id)' /\ ~Requested("spawn", id)'
    BY <1>3, <1>5 DEF HostInv, NewHostIsEmpty
  <2>3. r.op = "list" => \A id \in SessionIds : Listing.procs[id] = "gone"
    <3>1. r.op = "list" => \A id \in SessionIds : ~HasProcess(id)
      BY <1>1, <1>2 DEF HostInv, NewHostIsEmpty
    <3> QED
      BY <3>1 DEF Listing, HasProcess
  <2>4. \A p \in DOMAIN toServer' : toServer'[p].op = "list" =>
            \A id \in SessionIds : toServer'[p].procs[id] = "gone"
    BY <1>2, <1>10, <2>3 DEF HostInv, NewHostIsEmpty
  <2> QED
    BY <1>2, <1>13, <2>1, <2>2, <2>4 DEF HostInv, NewHostIsEmpty
<1>17. AliveHasProcess'
  BY <1>2, <1>3, <1>5, <1>6 DEF HostInv, AliveHasProcess, Alive
<1>18. RunningWillRest'
  <2>1. \A id \in SessionIds : PromptComing(id) => HasWork(id)' \/ PromptComing(id)'
    <3> SUFFICES ASSUME NEW id \in SessionIds, PromptComing(id)
                 PROVE  HasWork(id)' \/ PromptComing(id)'
      OBVIOUS
    <3>1. PICK i \in DOMAIN toHost : toHost[i] = Frame("user", id) /\
              (HasProcess(id) \/ \E j \in DOMAIN toHost : j < i /\ toHost[j] = Frame("spawn", id))
      BY DEF PromptComing
    <3>2. CASE i = 1
      <4>1. HasProcess(id)
        BY <1>4, <3>1, <3>2
      <4> QED
        BY <1>1, <1>3, <3>1, <3>2, <4>1
    <3>3. CASE i # 1
      <4>1. i - 1 \in DOMAIN toHost' /\ toHost'[i - 1] = Frame("user", id)
        BY <1>4, <3>1, <3>3
      <4>2. CASE HasProcess(id)
        BY <1>3, <4>1, <4>2 DEF PromptComing
      <4>3. ASSUME NEW j \in DOMAIN toHost, j < i, toHost[j] = Frame("spawn", id)
            PROVE  PromptComing(id)'
        <5>1. j = 1 => HasProcess(id)'
          BY <1>1, <1>3, <4>3
        <5>2. j # 1 => j - 1 \in DOMAIN toHost' /\ toHost'[j - 1] = Frame("spawn", id) /\ j - 1 < i - 1
          BY <1>4, <3>1, <4>3
        <5> QED
          BY <4>1, <5>1, <5>2 DEF PromptComing
      <4> QED
        BY <3>1, <4>2, <4>3
    <3> QED
      BY <3>2, <3>3
  <2> QED
    BY <1>2, <1>3, <1>6, <2>1 DEF HostInv, RunningWillRest
<1>19. LinesAreFollowed'
  <2> SUFFICES ASSUME NEW p \in DOMAIN toServer', NEW id \in SessionIds, toServer'[p] = Frame("line", id)
               PROVE  HasWork(id)' \/ RestsAfter(p, id)'
    BY DEF LinesAreFollowed
  <2>1. p \in DOMAIN toServer /\ toServer[p] = Frame("line", id)
    BY <1>2, <1>9, FramesAre
  <2> QED
    BY <1>3, <1>6, <2>1 DEF HostInv, LinesAreFollowed
<1>20. r.op = "list" => \A id \in SessionIds :
           /\ Listing.procs[id] # "gone" <=> HasProcess(id)
           /\ Listing.procs[id] = "running" => HasProcess(id) /\ children[id].busy
           /\ Listing.exits = exits
  BY DEF Listing, HasProcess
<1>21. ListsTell'
  <2> SUFFICES ASSUME NEW p \in DOMAIN toServer', toServer'[p].op = "list", NEW id \in SessionIds
               PROVE  /\ toServer'[p].procs[id] # "gone" => HasProcess(id)' \/ EndsAfter(p, id)'
                      /\ toServer'[p].procs[id] = "running" => HasWork(id)' \/ RestsAfter(p, id)'
    BY DEF ListsTell
  <2>1. CASE p \in DOMAIN toServer
    BY <1>2, <1>3, <1>6, <2>1 DEF HostInv, ListsTell
  <2>2. CASE p \notin DOMAIN toServer
    <3>1. r.op = "list" /\ toServer'[p] = Listing
      BY <1>10, <2>2
    <3> QED
      BY <1>3, <1>20, <3>1 DEF HostInv, BusyHasWork
  <2> QED
    BY <2>1, <2>2
<1>22. ListsAreComplete'
  <2> SUFFICES ASSUME phase = "boot", NEW p \in DOMAIN toServer', toServer'[p].op = "list"
               PROVE  /\ exits' \subseteq toServer'[p].exits
                      /\ \A id \in SessionIds \ overlapped :
                             /\ HasProcess(id)' => toServer'[p].procs[id] # "gone"
                             /\ toServer'[p].procs[id] # "gone" =>
                                    marker[id] # "crashed" /\ \A x \in toServer'[p].exits : x.id # id
    BY <1>2 DEF ListsAreComplete
  <2>1. linked
    <3>1. toServer' # <<>>
      BY <1>2
    <3> QED
      BY <1>2, <1>14, <3>1 DEF SocketOK
  <2>2. \A id \in SessionIds \ overlapped : HasProcess(id)' => HasProcess(id)
    BY <1>3, <1>5, <2>1 DEF HostInv, BootIsBlank
  <2>3. CASE p \in DOMAIN toServer
    BY <1>2, <2>2, <2>3 DEF HostInv, ListsAreComplete
  <2>4. CASE p \notin DOMAIN toServer
    <3>1. r.op = "list" /\ toServer'[p] = Listing
      BY <1>10, <2>4
    <3>2. \A id \in SessionIds \ overlapped : HasProcess(id) => marker[id] # "crashed" /\ \A x \in exits : x.id # id
      BY DEF HostInv, MarkersTrue, BacklogIsOld
    <3>3. Listing.exits = exits
      BY DEF Listing
    <3> QED
      BY <1>2, <1>20, <2>2, <3>1, <3>2, <3>3
  <2> QED
    BY <2>3, <2>4
<1>23. SpawnsAreAlone'
  <2> SUFFICES ASSUME NEW id \in SessionIds \ overlapped, NEW j \in DOMAIN toHost', toHost'[j] = Frame("spawn", id)
               PROVE  /\ ~HasProcess(id)'
                      /\ \A i \in DOMAIN toHost' : i < j => toHost'[i] # Frame("spawn", id) /\ toHost'[i] # Frame("kill", id)
                      /\ \A q \in DOMAIN toServer' : toServer'[q].op # "list" => toServer'[q].id # id
    BY <1>2 DEF SpawnsAreAlone
  <2>1. /\ j + 1 \in DOMAIN toHost /\ toHost[j + 1] = Frame("spawn", id) /\ 1 < j + 1
        /\ \A i \in DOMAIN toHost' : i + 1 \in DOMAIN toHost /\ toHost'[i] = toHost[i + 1] /\ (i < j => i + 1 < j + 1)
    BY <1>4
  <2>2. /\ ~HasProcess(id) /\ r # Frame("spawn", id)
        /\ \A i \in DOMAIN toHost : i < j + 1 => toHost[i] # Frame("spawn", id) /\ toHost[i] # Frame("kill", id)
        /\ \A q \in DOMAIN toServer : toServer[q].op # "list" => toServer[q].id # id
    BY <1>1, <1>2, <2>1 DEF HostInv, SpawnsAreAlone
  <2>3. \A q \in DOMAIN toServer' : toServer'[q].op # "list" => toServer'[q].id # id
    BY <1>2, <1>9, <2>2, FramesAre
  <2> QED
    BY <1>3, <2>1, <2>2, <2>3
<1>24. EndsAreTrue'
  <2> SUFFICES ASSUME NEW id \in SessionIds \ overlapped, NEW q \in DOMAIN toServer'
               PROVE  /\ toServer'[q] # Frame("refused", id)
                      /\ toServer'[q].op = "exit" /\ toServer'[q].id = id => ~HasProcess(id)'
    BY <1>2 DEF EndsAreTrue
  <2>1. CASE q \in DOMAIN toServer
    <3>1. /\ toServer[q] # Frame("refused", id)
          /\ toServer[q].op = "exit" /\ toServer[q].id = id => ~HasProcess(id)
      BY <2>1 DEF HostInv, EndsAreTrue
    <3>2. toServer[q].op = "exit" /\ toServer[q].id = id => r # Frame("spawn", id)
      BY <1>8, <2>1
    <3> QED
      BY <1>2, <1>3, <2>1, <3>1, <3>2
  <2>2. CASE q \notin DOMAIN toServer
    <3>1. \A i \in SessionIds : toServer'[q] = Frame("refused", i) => toServer'[q].op # "exit"
      BY FramesAre
    <3>2. \A i \in SessionIds : Frame("refused", i) = Frame("refused", id) => i = id
      BY FramesAre
    <3>3. toServer'[q] = Listing => toServer'[q].op # "exit" /\ toServer'[q] # Frame("refused", id)
      BY <1>9, FramesAre
    <3> QED
      BY <1>2, <1>8, <2>2, <3>1, <3>2, <3>3
  <2> QED
    BY <2>1, <2>2
<1>25. \A id, j : (\E i \in DOMAIN toHost : i < j + 1 /\ toHost[i].op = "ack" /\ id \in toHost[i].ids) /\ j \in Nat
           /\ (r.op = "ack" => id \notin r.ids) => Acked(id, j)'
  <2> SUFFICES ASSUME NEW id, NEW j \in Nat, r.op = "ack" => id \notin r.ids,
                      NEW i \in DOMAIN toHost, i < j + 1, toHost[i].op = "ack", id \in toHost[i].ids
               PROVE  Acked(id, j)'
    OBVIOUS
  <2>1. i # 1
    BY <1>1
  <2>2. i - 1 \in DOMAIN toHost' /\ toHost'[i - 1] = toHost[i] /\ i - 1 < j
    BY <1>4, <2>1
  <2> QED
    BY <2>2 DEF Acked
<1>26. BacklogIsOld'
  <2> SUFFICES ASSUME NEW x \in exits', x.id \notin overlapped
               PROVE  /\ ~HasProcess(x.id)'
                      /\ \A j \in DOMAIN toHost' : toHost'[j] = Frame("spawn", x.id) => Acked(x.id, j)'
    BY <1>2 DEF BacklogIsOld
  <2>1. x \in exits /\ x.id \in SessionIds
    BY <1>2 DEF HostInv, HostTyped, ExitRecords
  <2>2. /\ ~HasProcess(x.id)
        /\ \A j \in DOMAIN toHost : toHost[j] = Frame("spawn", x.id) =>
               \E i \in DOMAIN toHost : i < j /\ toHost[i].op = "ack" /\ x.id \in toHost[i].ids
    BY <2>1 DEF HostInv, BacklogIsOld, Acked
  <2>3. r # Frame("spawn", x.id)
    <3>1. \A i \in DOMAIN toHost : ~(i < 1)
      BY <1>4
    <3> QED
      BY <1>1, <1>2, <2>2, <3>1
  <2>4. \A j \in DOMAIN toHost' : toHost'[j] = Frame("spawn", x.id) => Acked(x.id, j)'
    BY <1>2, <1>4, <1>25, <2>2
  <2> QED
    BY <1>3, <2>1, <2>2, <2>3, <2>4
<1>27. BacklogIsAcked'
  <2> SUFFICES ASSUME linked, phase = "ready", NEW x \in exits'
               PROVE  Acked(x.id, Len(toHost) + 1)'
    BY <1>2 DEF BacklogIsAcked
  <2>1. \E i \in DOMAIN toHost : i < Len(toHost) + 1 /\ toHost[i].op = "ack" /\ x.id \in toHost[i].ids
    BY <1>2 DEF HostInv, BacklogIsAcked, Acked
  <2>2. PICK j \in Nat : j = Len(toHost') + 1
    BY <1>4
  <2>3. Acked(x.id, j)'
    BY <1>2, <1>4, <1>25, <2>1, <2>2
  <2> QED
    BY <2>2, <2>3
<1>28. MarkersTrue'
  <2>1. \A id \in SessionIds : KilledIsUnderWay(id)' => KilledIsUnderWay(id)
    <3> SUFFICES ASSUME NEW id \in SessionIds, KilledIsUnderWay(id)'
                 PROVE  KilledIsUnderWay(id)
      OBVIOUS
    <3>1. CASE Requested("kill", id)'
      BY <1>5, <3>1 DEF KilledIsUnderWay
    <3>2. CASE (HasProcess(id) /\ children[id].killed)'
      BY <1>3, <1>5, <3>2 DEF KilledIsUnderWay
    <3>3. ASSUME NEW q \in DOMAIN toServer', toServer'[q] = Exit(id, "killed")
          PROVE  KilledIsUnderWay(id)
      <4>1. q \in DOMAIN toServer /\ toServer[q] = Exit(id, "killed")
        BY <1>2, <1>9, <3>3, FramesAre
      <4> QED
        BY <4>1 DEF KilledIsUnderWay
    <3> QED
      BY <3>1, <3>2, <3>3 DEF KilledIsUnderWay
  <2> QED
    BY <1>2, <1>3, <1>5, <2>1 DEF HostInv, MarkersTrue, Alive
<1>29. UnseenIsKilled'
  <2> SUFFICES ASSUME linked, phase = "ready", NEW id \in SessionIds \ overlapped, ~Alive(id)
               PROVE  /\ HasProcess(id)' /\ ~children'[id].killed => Requested("kill", id)'
                      /\ \A j \in DOMAIN toHost' : toHost'[j] = Frame("spawn", id) =>
                             \E i \in DOMAIN toHost' : i > j /\ toHost'[i] = Frame("kill", id)
    BY <1>2 DEF UnseenIsKilled, Alive
  <2>1. /\ HasProcess(id) /\ ~children[id].killed => Requested("kill", id)
        /\ \A j \in DOMAIN toHost : toHost[j] = Frame("spawn", id) =>
               \E i \in DOMAIN toHost : i > j /\ toHost[i] = Frame("kill", id)
    BY DEF HostInv, UnseenIsKilled
  <2>2. \A i \in DOMAIN toHost, j \in Nat : i > j + 1 /\ j >= 0 =>
            i - 1 \in DOMAIN toHost' /\ toHost'[i - 1] = toHost[i] /\ i - 1 > j
    BY <1>4
  <2>3. r = Frame("spawn", id) => Requested("kill", id)'
    <3>1. r = Frame("spawn", id) => \E i \in DOMAIN toHost : i > 1 /\ toHost[i] = Frame("kill", id)
      BY <1>1, <1>2, <2>1
    <3>2. \A i \in DOMAIN toHost : i > 1 => i - 1 \in DOMAIN toHost' /\ toHost'[i - 1] = toHost[i]
      BY <1>4
    <3> QED
      BY <3>1, <3>2 DEF Requested
  <2>4. HasProcess(id)' /\ ~children'[id].killed => Requested("kill", id)'
    BY <1>3, <1>5, <2>1, <2>3
  <2>5. \A j \in DOMAIN toHost' : toHost'[j] = Frame("spawn", id) =>
            \E i \in DOMAIN toHost' : i > j /\ toHost'[i] = Frame("kill", id)
    BY <1>4, <2>1, <2>2
  <2> QED
    BY <2>4, <2>5
<1> QED
  BY <1>2, <1>11, <1>12, <1>14, <1>15, <1>16, <1>17, <1>18, <1>19, <1>21, <1>22, <1>23, <1>24, <1>26, <1>27,
     <1>28, <1>29 DEF HostInv

\* What any frame that is received leaves as it is.
LEMMA FrameTaken ==
    ASSUME HostInv, linked, toServer # <<>>, toServer' = Tail(toServer), NEW f, f = toServer[1],
           UNCHANGED <<children, exits, linked, attached, overlapped>>,
           phase' = (IF f.op = "list" THEN "ready" ELSE phase),
           NEW ids \in SUBSET SessionIds,
           toHost' = toHost \/ toHost' = Append(toHost, [op |-> "ack", ids |-> ids])
    PROVE  /\ HostTyped' /\ LinkTyped' /\ SocketOK' /\ BusyHasWork' /\ LinesAreFollowed' /\ ListsTell'
           /\ SpawnsAreAlone' /\ EndsAreTrue' /\ BacklogIsOld'
           /\ f \in HostFrames /\ 1 \in DOMAIN toServer
           /\ \A q \in DOMAIN toServer' : q + 1 \in DOMAIN toServer /\ toServer'[q] = toServer[q + 1]
           /\ \A i : /\ EndsAfter(1, i) => EndsAfter(0, i)'
                     /\ RestsAfter(1, i) => RestsAfter(0, i)'
                     /\ EndsAfter(0, i) => TellsEnd(f, i) \/ EndsAfter(0, i)'
                     /\ RestsAfter(0, i) => TellsEnd(f, i) \/ f = Frame("result", i) \/ RestsAfter(0, i)'
           /\ \A i \in SessionIds :
                  /\ HasProcess(i)' <=> HasProcess(i)
                  /\ HasWork(i)' <=> HasWork(i)
                  /\ KilledIsUnderWay(i)' => KilledIsUnderWay(i)
                  /\ PromptComing(i) => PromptComing(i)'
                  /\ \A op \in {"spawn", "user", "kill"} : Requested(op, i)' <=> Requested(op, i)
           /\ \A i \in DOMAIN toHost : i \in DOMAIN toHost' /\ toHost'[i] = toHost[i] /\ i \in Nat /\ i < Len(toHost) + 1
           /\ \A j \in DOMAIN toHost', op \in {"spawn", "user", "kill"} : \A i : toHost'[j] = Frame(op, i) =>
                  j \in DOMAIN toHost /\ toHost[j] = Frame(op, i)
<1>1. HostTyped /\ SocketOK /\ toHost \in Seq(HostRequests) /\ toServer \in Seq(HostFrames)
  BY DEF HostInv, HostTyped
<1>2. /\ toServer' \in Seq(HostFrames) /\ 1 \in DOMAIN toServer /\ f \in HostFrames
      /\ \A q \in DOMAIN toServer' : q \in Nat /\ q > 0 /\ q + 1 \in DOMAIN toServer /\ toServer'[q] = toServer[q + 1]
      /\ \A q \in DOMAIN toServer : q \in Nat /\ (q = 1 \/ (q > 1 /\ q - 1 \in DOMAIN toServer' /\ toServer'[q - 1] = toServer[q]))
  BY <1>1, QueueShifts
<1>3. PICK a : a = [op |-> "ack", ids |-> ids]
  OBVIOUS
<1>4. a \in HostRequests /\ a.op = "ack"
  BY <1>3 DEF HostRequests
<1>5. /\ toHost' \in Seq(HostRequests)
      /\ \A i \in DOMAIN toHost : i \in DOMAIN toHost' /\ toHost'[i] = toHost[i] /\ i \in Nat /\ i < Len(toHost) + 1
      /\ \A i \in DOMAIN toHost' : i \in DOMAIN toHost \/ toHost'[i] = a
  <2>1. CASE toHost' = toHost
    BY <1>1, <2>1
  <2>2. CASE toHost' = Append(toHost, a)
    BY <1>1, <1>4, <2>2, QueueGrows
  <2> QED
    BY <1>3, <2>1, <2>2
<1>6. \A j \in DOMAIN toHost', op \in {"spawn", "user", "kill"} : \A i : toHost'[j] = Frame(op, i) =>
          j \in DOMAIN toHost /\ toHost[j] = Frame(op, i)
  BY <1>4, <1>5, FramesAre
<1>7. \A op \in {"spawn", "user", "kill"} : \A i : Requested(op, i)' <=> Requested(op, i)
  BY <1>5, <1>6 DEF Requested
<1>8. \A i \in SessionIds : (HasProcess(i)' <=> HasProcess(i)) /\ (HasWork(i)' <=> HasWork(i))
  BY DEF HasProcess, HasWork
<1>9. \A i \in SessionIds : PromptComing(i) => PromptComing(i)'
  BY <1>5, <1>8 DEF PromptComing
<1>10. \A i \in SessionIds : KilledIsUnderWay(i)' => KilledIsUnderWay(i)
  <2> SUFFICES ASSUME NEW i \in SessionIds, KilledIsUnderWay(i)'
               PROVE  KilledIsUnderWay(i)
    OBVIOUS
  <2>1. CASE Requested("kill", i)'
    BY <1>7, <2>1 DEF KilledIsUnderWay
  <2>2. CASE (HasProcess(i) /\ children[i].killed)'
    BY <2>2 DEF KilledIsUnderWay, HasProcess
  <2>3. ASSUME NEW q \in DOMAIN toServer', toServer'[q] = Exit(i, "killed")
        PROVE  KilledIsUnderWay(i)
    BY <1>2, <2>3 DEF KilledIsUnderWay
  <2> QED
    BY <2>1, <2>2, <2>3 DEF KilledIsUnderWay
<1>11. ASSUME NEW p \in Nat, NEW k, k = p + 1
       PROVE  \A i : /\ EndsAfter(k, i) => EndsAfter(p, i)'
                     /\ RestsAfter(k, i) => RestsAfter(p, i)'
  <2> SUFFICES ASSUME NEW i, NEW q \in DOMAIN toServer, q > k
               PROVE  /\ TellsEnd(toServer[q], i) => EndsAfter(p, i)'
                      /\ TellsEnd(toServer[q], i) \/ toServer[q] = Frame("result", i) => RestsAfter(p, i)'
    BY DEF EndsAfter, RestsAfter
  <2>1. q - 1 \in DOMAIN toServer' /\ toServer'[q - 1] = toServer[q] /\ q - 1 > p
    BY <1>2, <1>11
  <2>2. \A g : TellsEnd(g, i)' <=> TellsEnd(g, i)
    BY DEF TellsEnd
  <2>3. TellsEnd(toServer[q], i) => EndsAfter(p, i)'
    BY <2>1 DEF EndsAfter, TellsEnd
  <2>4. TellsEnd(toServer[q], i) \/ toServer[q] = Frame("result", i) => RestsAfter(p, i)'
    BY <2>1 DEF RestsAfter, TellsEnd
  <2> QED
    BY <2>3, <2>4
<1>12. \A i : /\ EndsAfter(1, i) => EndsAfter(0, i)'
              /\ RestsAfter(1, i) => RestsAfter(0, i)'
  <2>1. 0 \in Nat /\ 0 + 1 = 1
    OBVIOUS
  <2> QED
    BY <1>11, <2>1
<1>13. \A i : /\ EndsAfter(0, i) => TellsEnd(f, i) \/ EndsAfter(0, i)'
              /\ RestsAfter(0, i) => TellsEnd(f, i) \/ f = Frame("result", i) \/ RestsAfter(0, i)'
  <2> SUFFICES ASSUME NEW i
               PROVE  /\ EndsAfter(0, i) => TellsEnd(f, i) \/ EndsAfter(1, i)
                      /\ RestsAfter(0, i) => TellsEnd(f, i) \/ f = Frame("result", i) \/ RestsAfter(1, i)
    BY <1>12
  <2> QED
    BY <1>2 DEF EndsAfter, RestsAfter
<1>14. HostTyped' /\ LinkTyped' /\ BusyHasWork'
  BY <1>1, <1>2, <1>5, <1>8 DEF HostInv, HostTyped, LinkTyped, BusyHasWork
<1>15. SocketOK'
  <2>1. \A i \in DOMAIN toHost' : toHost'[i].op # "close"
    BY <1>1, <1>4, <1>5 DEF SocketOK
  <2>2. \A i \in DOMAIN toHost' : toHost'[i].op = "list" =>
            i = 1 /\ phase # "ready" /\ f.op # "list" /\ \A q \in DOMAIN toServer : toServer[q].op # "list"
    BY <1>1, <1>2, <1>4, <1>5 DEF SocketOK
  <2>3. \A p, q \in DOMAIN toServer' : toServer'[p].op = "list" /\ toServer'[q].op = "list" => p = q
    <3> SUFFICES ASSUME NEW p \in DOMAIN toServer', NEW q \in DOMAIN toServer',
                        toServer'[p].op = "list", toServer'[q].op = "list"
                 PROVE  p = q
      OBVIOUS
    <3>1. p + 1 = q + 1
      BY <1>1, <1>2 DEF SocketOK
    <3> QED
      BY <1>2, <3>1
  <2>4. f.op = "list" => \A q \in DOMAIN toServer' : toServer'[q].op # "list"
    <3> SUFFICES ASSUME f.op = "list", NEW q \in DOMAIN toServer', toServer'[q].op = "list"
                 PROVE  FALSE
      OBVIOUS
    <3>1. q + 1 = 1
      BY <1>1, <1>2 DEF SocketOK
    <3> QED
      BY <1>2, <3>1
  <2>5. phase = "ready" => \A q \in DOMAIN toServer' : toServer'[q].op # "list"
    BY <1>1, <1>2 DEF SocketOK
  <2>6. \A i \in DOMAIN toHost' : toHost'[i].op = "list" =>
            i = 1 /\ phase' # "ready" /\ \A q \in DOMAIN toServer' : toServer'[q].op # "list"
    BY <1>2, <2>2
  <2> QED
    BY <1>1, <2>1, <2>3, <2>4, <2>5, <2>6 DEF SocketOK
<1>16. LinesAreFollowed'
  <2> SUFFICES ASSUME NEW p \in DOMAIN toServer', NEW i \in SessionIds, toServer'[p] = Frame("line", i)
               PROVE  HasWork(i)' \/ RestsAfter(p, i)'
    BY DEF LinesAreFollowed
  <2>0. PICK k : k = p + 1
    OBVIOUS
  <2>1. HasWork(i) \/ RestsAfter(k, i)
    BY <1>2, <2>0 DEF HostInv, LinesAreFollowed
  <2> QED
    BY <1>2, <1>8, <1>11, <2>0, <2>1
<1>17. ListsTell'
  <2> SUFFICES ASSUME NEW p \in DOMAIN toServer', toServer'[p].op = "list", NEW i \in SessionIds
               PROVE  /\ toServer'[p].procs[i] # "gone" => HasProcess(i)' \/ EndsAfter(p, i)'
                      /\ toServer'[p].procs[i] = "running" => HasWork(i)' \/ RestsAfter(p, i)'
    BY DEF ListsTell
  <2>0. PICK k : k = p + 1
    OBVIOUS
  <2>1. /\ toServer'[p].procs[i] # "gone" => HasProcess(i) \/ EndsAfter(k, i)
        /\ toServer'[p].procs[i] = "running" => HasWork(i) \/ RestsAfter(k, i)
    BY <1>2, <2>0 DEF HostInv, ListsTell
  <2> QED
    BY <1>2, <1>8, <1>11, <2>0, <2>1
<1>18. SpawnsAreAlone'
  <2> SUFFICES ASSUME NEW i \in SessionIds \ overlapped, NEW j \in DOMAIN toHost', toHost'[j] = Frame("spawn", i)
               PROVE  /\ ~HasProcess(i)
                      /\ \A l \in DOMAIN toHost' : l < j => toHost'[l] # Frame("spawn", i) /\ toHost'[l] # Frame("kill", i)
                      /\ \A q \in DOMAIN toServer' : toServer'[q].op # "list" => toServer'[q].id # i
    BY DEF SpawnsAreAlone, HasProcess
  <2>1. j \in DOMAIN toHost /\ toHost[j] = Frame("spawn", i)
    BY <1>6
  <2>2. /\ ~HasProcess(i)
        /\ \A l \in DOMAIN toHost : l < j => toHost[l] # Frame("spawn", i) /\ toHost[l] # Frame("kill", i)
        /\ \A q \in DOMAIN toServer : toServer[q].op # "list" => toServer[q].id # i
    BY <2>1 DEF HostInv, SpawnsAreAlone
  <2> QED
    BY <1>2, <1>6, <2>2
<1>19. EndsAreTrue'
  BY <1>2, <1>8 DEF HostInv, EndsAreTrue
<1>20. BacklogIsOld'
  <2> SUFFICES ASSUME NEW x \in exits, x.id \notin overlapped
               PROVE  /\ ~HasProcess(x.id)
                      /\ \A j \in DOMAIN toHost' : toHost'[j] = Frame("spawn", x.id) => Acked(x.id, j)'
    BY DEF BacklogIsOld, HasProcess
  <2>1. /\ ~HasProcess(x.id)
        /\ \A j \in DOMAIN toHost : toHost[j] = Frame("spawn", x.id) => Acked(x.id, j)
    BY DEF HostInv, BacklogIsOld
  <2>2. \A i, j : Acked(i, j) => Acked(i, j)'
    BY <1>5 DEF Acked
  <2> QED
    BY <1>6, <2>1, <2>2
<1>21. \A i \in SessionIds :
           /\ HasProcess(i)' <=> HasProcess(i)
           /\ HasWork(i)' <=> HasWork(i)
           /\ KilledIsUnderWay(i)' => KilledIsUnderWay(i)
           /\ PromptComing(i) => PromptComing(i)'
           /\ \A op \in {"spawn", "user", "kill"} : Requested(op, i)' <=> Requested(op, i)
  BY <1>7, <1>8, <1>9, <1>10
<1>22. \A q \in DOMAIN toServer' : q + 1 \in DOMAIN toServer /\ toServer'[q] = toServer[q + 1]
  BY <1>2
<1>23. \A i \in DOMAIN toHost : i \in DOMAIN toHost' /\ toHost'[i] = toHost[i] /\ i \in Nat /\ i < Len(toHost) + 1
  BY <1>5
<1>24. \A i : /\ EndsAfter(1, i) => EndsAfter(0, i)'
              /\ RestsAfter(1, i) => RestsAfter(0, i)'
              /\ EndsAfter(0, i) => TellsEnd(f, i) \/ EndsAfter(0, i)'
              /\ RestsAfter(0, i) => TellsEnd(f, i) \/ f = Frame("result", i) \/ RestsAfter(0, i)'
  BY <1>12, <1>13
<1> QED
  BY <1>2, <1>6, <1>14, <1>15, <1>16, <1>17, <1>18, <1>19, <1>20, <1>21, <1>22, <1>23, <1>24

\* A live session among those that have exited is shown so; the others stay.
LEMMA ExitedDoes ==
    ASSUME HostInv, NEW S \in SUBSET SessionIds, NEW reason, Exited(S, reason), UNCHANGED <<objects, overlapped>>
    PROVE  /\ ServerTyped' /\ AliveIsHeard'
           /\ \A i \in SessionIds :
                  /\ hooks'[i] = IF i \in S THEN 0 ELSE hooks[i]
                  /\ i \in S /\ Alive(i) =>
                         /\ live'[i].status = "exited"
                         /\ marker'[i] = IF reason = "self" THEN "crashed" ELSE marker[i]
                  /\ ~(i \in S /\ Alive(i)) => live'[i] = live[i] /\ marker'[i] = marker[i]
                  /\ Alive(i)' <=> Alive(i) /\ i \notin S
<1>1. ServerTyped
  BY DEF HostInv
<1>2. \A i \in SessionIds : Heard(i) <=> Alive(i)
  BY DEF HostInv, AliveIsHeard, Heard
<1>3. /\ hooks' = [i \in SessionIds |-> IF i \in S THEN 0 ELSE hooks[i]]
      /\ live' = [i \in SessionIds |->
             IF i \in S /\ Heard(i) THEN [live[i] EXCEPT !.status = "exited"] ELSE live[i]]
      /\ marker' = [i \in SessionIds |->
             IF i \in S /\ Heard(i) /\ reason = "self" THEN "crashed" ELSE marker[i]]
  BY DEF Exited
<1>4. \A i \in SessionIds :
          /\ live[i] \in [status : {"none", "idle", "running", "exited"}, of : Nat]
          /\ hooks[i] \in Nat /\ marker[i] \in {"none", "done", "crashed", "terminated"}
  BY <1>1 DEF ServerTyped
<1>5. \A i \in SessionIds :
          /\ hooks'[i] = IF i \in S THEN 0 ELSE hooks[i]
          /\ i \in S /\ Alive(i) =>
                 /\ live'[i].status = "exited" /\ live'[i] = [live[i] EXCEPT !.status = "exited"]
                 /\ marker'[i] = IF reason = "self" THEN "crashed" ELSE marker[i]
          /\ ~(i \in S /\ Alive(i)) => live'[i] = live[i] /\ marker'[i] = marker[i]
  BY <1>2, <1>3, <1>4
<1>6. \A i \in SessionIds :
          /\ live'[i] \in [status : {"none", "idle", "running", "exited"}, of : Nat]
          /\ hooks'[i] \in Nat /\ marker'[i] \in {"none", "done", "crashed", "terminated"}
  <2> SUFFICES ASSUME NEW i \in SessionIds
               PROVE  /\ live'[i] \in [status : {"none", "idle", "running", "exited"}, of : Nat]
                      /\ hooks'[i] \in Nat /\ marker'[i] \in {"none", "done", "crashed", "terminated"}
    OBVIOUS
  <2>1. [live[i] EXCEPT !.status = "exited"] \in [status : {"none", "idle", "running", "exited"}, of : Nat]
    BY <1>4
  <2>2. live'[i] = live[i] \/ live'[i] = [live[i] EXCEPT !.status = "exited"]
    BY <1>5
  <2>3. hooks'[i] \in Nat /\ marker'[i] \in {"none", "done", "crashed", "terminated"}
    <3>1. hooks'[i] \in {0, hooks[i]} /\ marker'[i] \in {"crashed", marker[i]}
      BY <1>3
    <3> QED
      BY <1>4, <3>1
  <2> QED
    BY <1>4, <2>1, <2>2, <2>3
<1>7. ServerTyped'
  <2>1. live' \in [SessionIds -> [status : {"none", "idle", "running", "exited"}, of : Nat]]
    BY <1>3, <1>6
  <2>2. hooks' \in [SessionIds -> Nat] /\ marker' \in [SessionIds -> {"none", "done", "crashed", "terminated"}]
    BY <1>3, <1>6
  <2> QED
    BY <1>1, <2>1, <2>2 DEF ServerTyped
<1>8. \A i \in SessionIds : Alive(i)' <=> Alive(i) /\ i \notin S
  BY <1>5 DEF Alive
<1>9. AliveIsHeard'
  BY <1>5, <1>8 DEF HostInv, AliveIsHeard
<1> QED
  BY <1>5, <1>7, <1>8, <1>9

LEMMA LineKeeps ==
    ASSUME HostInv, linked, toServer # <<>>, toServer' = Tail(toServer),
           NEW f, f = toServer[1], f.op \in {"line", "result"}, FoldLine(f),
           UNCHANGED <<children, exits, linked, attached, overlapped>>
    PROVE  HostInv'
<1>1. UNCHANGED <<hooks, objects, marker, phase, toHost>>
  BY DEF FoldLine
<1>2. /\ HostTyped' /\ LinkTyped' /\ SocketOK' /\ BusyHasWork' /\ LinesAreFollowed' /\ ListsTell'
      /\ SpawnsAreAlone' /\ EndsAreTrue' /\ BacklogIsOld'
      /\ f \in HostFrames /\ 1 \in DOMAIN toServer
      /\ \A q \in DOMAIN toServer' : q + 1 \in DOMAIN toServer /\ toServer'[q] = toServer[q + 1]
      /\ \A i : /\ EndsAfter(0, i) => TellsEnd(f, i) \/ EndsAfter(0, i)'
                /\ RestsAfter(0, i) => TellsEnd(f, i) \/ f = Frame("result", i) \/ RestsAfter(0, i)'
                /\ RestsAfter(1, i) => RestsAfter(0, i)'
      /\ \A i \in SessionIds :
             /\ HasProcess(i)' <=> HasProcess(i)
             /\ HasWork(i)' <=> HasWork(i)
             /\ KilledIsUnderWay(i)' => KilledIsUnderWay(i)
             /\ PromptComing(i) => PromptComing(i)'
             /\ \A op \in {"spawn", "user", "kill"} : Requested(op, i)' <=> Requested(op, i)
  <2>1. PICK ids \in SUBSET SessionIds : ids = {}
    OBVIOUS
  <2>2. phase' = (IF f.op = "list" THEN "ready" ELSE phase)
    BY <1>1
  <2> QED
    BY <1>1, <2>2, FrameTaken
<1>3. /\ f.id \in SessionIds /\ f = Frame(f.op, f.id)
      /\ \A i : ~TellsEnd(f, i) /\ (f = Frame("result", i) <=> i = f.id /\ f.op = "result")
  BY <1>2, EventsAre DEF TellsEnd, Frame
<1>4. PICK s \in {"idle", "running"} : s = IF f.op = "result" THEN "idle" ELSE "running"
  OBVIOUS
<1>5. /\ ServerTyped
      /\ live' = IF Alive(f.id) THEN [live EXCEPT ![f.id].status = s] ELSE live
  <2>1. Heard(f.id) <=> Alive(f.id)
    BY <1>3 DEF HostInv, AliveIsHeard, Heard
  <2> QED
    BY <1>4, <2>1 DEF HostInv, FoldLine
<1>6. /\ Alive(f.id) => live'[f.id].status = s /\ live'[f.id].of = live[f.id].of
      /\ \A i \in SessionIds : i # f.id \/ ~Alive(f.id) => live'[i] = live[i]
      /\ ServerTyped'
  <2>1. CASE Alive(f.id)
    <3>1. live' = [live EXCEPT ![f.id].status = s]
      BY <1>5, <2>1
    <3>2. PICK c : c = [live[f.id] EXCEPT !.status = s]
      OBVIOUS
    <3>3. live[f.id] \in [status : {"none", "idle", "running", "exited"}, of : Nat]
      BY <1>3, <1>5 DEF ServerTyped
    <3>4. /\ c \in [status : {"none", "idle", "running", "exited"}, of : Nat]
          /\ c.status = s /\ c.of = live[f.id].of
      BY <1>4, <3>2, <3>3
    <3>5. live' = [live EXCEPT ![f.id] = c]
      BY <1>3, <1>5, <3>1, <3>2 DEF ServerTyped
    <3>6. live' \in [SessionIds -> [status : {"none", "idle", "running", "exited"}, of : Nat]]
      BY <1>5, <3>4, <3>5 DEF ServerTyped
    <3> QED
      BY <1>1, <1>3, <1>5, <2>1, <3>4, <3>5, <3>6 DEF ServerTyped
  <2>2. CASE ~Alive(f.id)
    BY <1>1, <1>5, <2>2 DEF ServerTyped
  <2> QED
    BY <2>1, <2>2
<1>7. \A i \in SessionIds : Alive(i)' <=> Alive(i)
  BY <1>3, <1>4, <1>6 DEF Alive
<1>8. AliveIsHeard'
  BY <1>1, <1>6, <1>7 DEF HostInv, AliveIsHeard
<1>9. \A i \in SessionIds : ~Alive(i) => live'[i] = live[i]
  BY <1>6
<1>10. BootIsBlank'
  BY <1>1, <1>2, <1>9 DEF HostInv, BootIsBlank, Alive
<1>11. NewHostIsEmpty' /\ ListsAreComplete'
  <2>1. NewHostIsEmpty'
    BY <1>1, <1>2 DEF HostInv, NewHostIsEmpty
  <2> QED
    BY <1>1, <1>2, <2>1 DEF HostInv, ListsAreComplete
<1>12. AliveHasProcess'
  BY <1>1, <1>2, <1>3, <1>7 DEF HostInv, AliveHasProcess
<1>13. RunningWillRest'
  <2> SUFFICES ASSUME linked, phase # "relink", NEW i \in SessionIds, live'[i].status = "running"
               PROVE  HasWork(i)' \/ PromptComing(i)' \/ RestsAfter(0, i)'
    BY <1>1 DEF RunningWillRest
  <2>1. CASE i = f.id /\ Alive(i)
    <3>1. f = Frame("line", i)
      BY <1>3, <1>4, <1>6, <2>1
    <3>2. HasWork(i) \/ RestsAfter(1, i)
      BY <1>2, <3>1 DEF HostInv, LinesAreFollowed
    <3> QED
      BY <1>2, <3>2
  <2>2. CASE ~(i = f.id /\ Alive(i))
    <3>1. live[i].status = "running" /\ i # f.id
      BY <1>6, <2>2 DEF Alive
    <3>2. HasWork(i) \/ PromptComing(i) \/ RestsAfter(0, i)
      BY <3>1 DEF HostInv, RunningWillRest
    <3> QED
      BY <1>2, <1>3, <3>1, <3>2
  <2> QED
    BY <2>1, <2>2
<1>14. BacklogIsAcked'
  BY <1>1 DEF HostInv, BacklogIsAcked, Acked
<1>15. MarkersTrue'
  <2>1. \A i \in SessionIds : live'[i].status = "exited" => live[i].status = "exited"
    BY <1>7, <1>9 DEF Alive
  <2> QED
    BY <1>1, <1>2, <1>7, <2>1 DEF HostInv, MarkersTrue
<1>16. UnseenIsKilled'
  BY <1>1, <1>2, <1>7 DEF HostInv, UnseenIsKilled
<1> QED
  BY <1>2, <1>6, <1>8, <1>10, <1>11, <1>12, <1>13, <1>14, <1>15, <1>16 DEF HostInv

\* The end of a process is told, or that there is none.
LEMMA ExitKeeps ==
    ASSUME HostInv, linked, toServer # <<>>, toServer' = Tail(toServer),
           NEW f, f = toServer[1], f.op \in {"exit", "refused"},
           NEW reason, reason = (IF f.op = "exit" THEN f.reason ELSE "self"), Exited({f.id}, reason),
           UNCHANGED <<children, exits, linked, attached, overlapped, objects, phase, toHost>>
    PROVE  HostInv'
<1>1. /\ HostTyped' /\ LinkTyped' /\ SocketOK' /\ BusyHasWork' /\ LinesAreFollowed' /\ ListsTell'
      /\ SpawnsAreAlone' /\ EndsAreTrue' /\ BacklogIsOld'
      /\ f \in HostFrames /\ 1 \in DOMAIN toServer
      /\ \A q \in DOMAIN toServer' : q + 1 \in DOMAIN toServer /\ toServer'[q] = toServer[q + 1]
      /\ \A i : /\ EndsAfter(0, i) => TellsEnd(f, i) \/ EndsAfter(0, i)'
                /\ RestsAfter(0, i) => TellsEnd(f, i) \/ f = Frame("result", i) \/ RestsAfter(0, i)'
      /\ \A i \in SessionIds :
             /\ HasProcess(i)' <=> HasProcess(i)
             /\ HasWork(i)' <=> HasWork(i)
             /\ KilledIsUnderWay(i)' => KilledIsUnderWay(i)
             /\ PromptComing(i) => PromptComing(i)'
             /\ \A op \in {"spawn", "user", "kill"} : Requested(op, i)' <=> Requested(op, i)
  <2>1. PICK ids \in SUBSET SessionIds : ids = {}
    OBVIOUS
  <2>2. phase' = (IF f.op = "list" THEN "ready" ELSE phase)
    OBVIOUS
  <2> QED
    BY <2>2, FrameTaken
<1>2. /\ f.id \in SessionIds
      /\ f.op = "exit" => f = Exit(f.id, reason)
      /\ f.op = "refused" => f = Frame("refused", f.id)
      /\ \A i : (TellsEnd(f, i) <=> i = f.id) /\ f # Frame("result", i)
      /\ reason \in {"self", "killed"}
  BY <1>1, EventsAre, FramesAre DEF TellsEnd
<1>3. /\ ServerTyped' /\ AliveIsHeard'
      /\ \A i \in SessionIds :
             /\ i = f.id /\ Alive(i) =>
                    /\ live'[i].status = "exited"
                    /\ marker'[i] = IF reason = "self" THEN "crashed" ELSE marker[i]
             /\ ~(i = f.id /\ Alive(i)) => live'[i] = live[i] /\ marker'[i] = marker[i]
             /\ Alive(i)' <=> Alive(i) /\ i # f.id
  <2>1. PICK S \in SUBSET SessionIds : S = {f.id}
    BY <1>2
  <2>2. Exited(S, reason)
    BY <2>1
  <2>3. /\ ServerTyped' /\ AliveIsHeard'
        /\ \A i \in SessionIds :
               /\ i \in S /\ Alive(i) =>
                      /\ live'[i].status = "exited"
                      /\ marker'[i] = IF reason = "self" THEN "crashed" ELSE marker[i]
               /\ ~(i \in S /\ Alive(i)) => live'[i] = live[i] /\ marker'[i] = marker[i]
               /\ Alive(i)' <=> Alive(i) /\ i \notin S
    BY <2>2, ExitedDoes
  <2>4. \A i : i \in S <=> i = f.id
    BY <2>1
  <2> QED
    BY <2>3, <2>4
<1>4. f.id \notin overlapped => f.op = "exit" /\ ~HasProcess(f.id) /\ ~Requested("spawn", f.id)
  <2>1. f.id \notin overlapped => f.op = "exit" /\ ~HasProcess(f.id)
    BY <1>1, <1>2 DEF HostInv, EndsAreTrue
  <2> QED
    BY <1>1, <1>2, <2>1 DEF HostInv, SpawnsAreAlone, Requested
<1>5. BootIsBlank' /\ NewHostIsEmpty'
  <2>1. BootIsBlank'
    BY <1>1, <1>3 DEF HostInv, BootIsBlank, Alive
  <2> QED
    BY <1>1, <2>1 DEF HostInv, NewHostIsEmpty
<1>6. AliveHasProcess'
  BY <1>1, <1>2, <1>3 DEF HostInv, AliveHasProcess
<1>7. RunningWillRest'
  <2>1. \A i \in SessionIds : live'[i].status = "running" => live[i].status = "running" /\ i # f.id
    BY <1>3 DEF Alive
  <2> QED
    BY <1>1, <1>2, <2>1 DEF HostInv, RunningWillRest
<1>8. ListsAreComplete'
  <2>1. phase = "boot" => \A i \in SessionIds \ overlapped : marker'[i] = marker[i]
    BY <1>3 DEF HostInv, BootIsBlank, Alive
  <2> QED
    BY <1>1, <2>1 DEF HostInv, ListsAreComplete
<1>9. BacklogIsAcked'
  BY DEF HostInv, BacklogIsAcked, Acked
<1>10. MarkersTrue'
  <2> SUFFICES ASSUME NEW i \in SessionIds \ overlapped
               PROVE  (/\ marker[i] = "crashed" => ~HasProcess(i) /\ ~Requested("spawn", i) /\ ~Alive(i)
                       /\ KilledIsUnderWay(i) => marker[i] # "none"
                       /\ live[i].status = "exited" => marker[i] # "none")'
    BY DEF MarkersTrue
  <2>1. /\ marker[i] = "crashed" => ~HasProcess(i) /\ ~Requested("spawn", i) /\ ~Alive(i)
        /\ KilledIsUnderWay(i) => marker[i] # "none"
        /\ live[i].status = "exited" => marker[i] # "none"
    BY DEF HostInv, MarkersTrue
  <2>2. CASE ~(i = f.id /\ Alive(i))
    BY <1>1, <1>3, <2>1, <2>2
  <2>3. CASE i = f.id /\ Alive(i)
    <3>1. reason = "killed" => KilledIsUnderWay(i)
      BY <1>1, <1>2, <1>4, <2>3 DEF KilledIsUnderWay
    <3>2. marker'[i] # "none"
      BY <1>2, <1>3, <2>1, <2>3, <3>1
    <3> QED
      BY <1>1, <1>3, <1>4, <2>3, <3>2
  <2> QED
    BY <2>2, <2>3
<1>11. UnseenIsKilled'
  <2> SUFFICES ASSUME linked, phase = "ready", NEW i \in SessionIds \ overlapped, ~Alive(i)'
               PROVE  /\ HasProcess(i)' /\ ~children[i].killed => Requested("kill", i)'
                      /\ \A j \in DOMAIN toHost : toHost[j] = Frame("spawn", i) =>
                             \E l \in DOMAIN toHost : l > j /\ toHost[l] = Frame("kill", i)
    BY DEF UnseenIsKilled
  <2>1. CASE i = f.id
    BY <1>1, <1>4, <2>1 DEF Requested
  <2>2. CASE i # f.id
    BY <1>1, <1>3, <2>2 DEF HostInv, UnseenIsKilled
  <2> QED
    BY <2>1, <2>2
<1> QED
  BY <1>1, <1>3, <1>5, <1>6, <1>7, <1>8, <1>9, <1>10, <1>11 DEF HostInv

\* A new server adopts what the host runs, and stamps and acknowledges the ends nobody heard.
LEMMA AttachKeeps ==
    ASSUME HostInv, linked, toServer # <<>>, toServer' = Tail(toServer),
           NEW f, f = toServer[1], f.op = "list", phase = "boot", phase' = "ready", Attach(f),
           UNCHANGED <<children, exits, linked, attached, overlapped>>
    PROVE  HostInv'
<1>1. PICK ids : ids = AckedExits(f)
  OBVIOUS
<1>2. toHost' = Append(toHost, [op |-> "ack", ids |-> ids])
  BY <1>1 DEF Attach
<1>3. f \in Listings
  <2>1. f \in HostFrames
    BY DEF HostInv, HostTyped
  <2> QED
    BY <2>1, EventsAre
<1>4. /\ ids \in SUBSET SessionIds /\ \A x \in f.exits : x \in ExitRecords /\ x.id \in ids /\ x.id \in SessionIds
      /\ \A i \in SessionIds : f.procs[i] \in {"gone", "running", "idle"}
  BY <1>1, <1>3 DEF AckedExits, Listings, ExitRecords
<1>5. /\ HostTyped' /\ LinkTyped' /\ SocketOK' /\ BusyHasWork' /\ LinesAreFollowed' /\ ListsTell'
      /\ SpawnsAreAlone' /\ EndsAreTrue' /\ BacklogIsOld' /\ 1 \in DOMAIN toServer
      /\ \A i : /\ EndsAfter(1, i) => EndsAfter(0, i)'
                /\ RestsAfter(1, i) => RestsAfter(0, i)'
                /\ EndsAfter(0, i) => TellsEnd(f, i) \/ EndsAfter(0, i)'
                /\ RestsAfter(0, i) => TellsEnd(f, i) \/ f = Frame("result", i) \/ RestsAfter(0, i)'
      /\ \A i \in SessionIds :
             /\ HasProcess(i)' <=> HasProcess(i)
             /\ HasWork(i)' <=> HasWork(i)
             /\ KilledIsUnderWay(i)' => KilledIsUnderWay(i)
             /\ PromptComing(i) => PromptComing(i)'
             /\ \A op \in {"spawn", "user", "kill"} : Requested(op, i)' <=> Requested(op, i)
  BY <1>2, <1>4, FrameTaken
<1>6. \A i : ~TellsEnd(f, i) /\ f # Frame("result", i)
  BY FramesAre DEF TellsEnd
<1>7. \A i \in SessionIds :
          /\ f.procs[i] # "gone" => HasProcess(i) \/ EndsAfter(1, i)
          /\ f.procs[i] = "running" => HasWork(i) \/ RestsAfter(1, i)
  BY <1>5 DEF HostInv, ListsTell
<1>8. /\ exits \subseteq f.exits
      /\ \A i \in SessionIds \ overlapped :
             /\ HasProcess(i) => f.procs[i] # "gone"
             /\ f.procs[i] # "gone" => marker[i] # "crashed" /\ \A x \in f.exits : x.id # i
             /\ live[i].status = "none" /\ ~Requested("spawn", i)
  BY <1>5 DEF HostInv, ListsAreComplete, BootIsBlank
<1>9. PICK new \in SUBSET SessionIds :
          new = {i \in SessionIds : f.procs[i] # "gone" /\ live[i].status = "none"}
  OBVIOUS
<1>10. /\ live' = [i \in SessionIds |->
              IF i \in new THEN [status |-> f.procs[i], of |-> objects[i] + 1] ELSE live[i]]
       /\ objects' = [i \in SessionIds |-> IF i \in new THEN objects[i] + 1 ELSE objects[i]]
       /\ hooks' = [i \in SessionIds |-> IF i \in new THEN objects'[i] ELSE hooks[i]]
       /\ marker' = [i \in SessionIds |-> Stamp(f, i)]
  BY <1>9 DEF Attach, Adopted
<1>11. ServerTyped
  BY DEF HostInv
<1>12. \A i \in SessionIds :
           /\ i \in new => /\ live'[i].status = f.procs[i] /\ live'[i].of = objects[i] + 1
                           /\ hooks'[i] = objects[i] + 1 /\ Alive(i)'
           /\ i \notin new => live'[i] = live[i] /\ hooks'[i] = hooks[i] /\ (Alive(i)' <=> Alive(i))
  <2> SUFFICES ASSUME NEW i \in SessionIds
               PROVE  /\ i \in new => /\ live'[i].status = f.procs[i] /\ live'[i].of = objects[i] + 1
                                      /\ hooks'[i] = objects[i] + 1 /\ Alive(i)'
                      /\ i \notin new => live'[i] = live[i] /\ hooks'[i] = hooks[i] /\ (Alive(i)' <=> Alive(i))
    OBVIOUS
  <2>1. CASE i \in new
    <3>1. live'[i] = [status |-> f.procs[i], of |-> objects[i] + 1] /\ hooks'[i] = objects[i] + 1
      BY <1>10, <2>1
    <3>2. f.procs[i] \in {"running", "idle"}
      BY <1>4, <1>9, <2>1
    <3> QED
      BY <2>1, <3>1, <3>2 DEF Alive
  <2>2. CASE i \notin new
    BY <1>10, <2>2 DEF Alive
  <2> QED
    BY <2>1, <2>2
<1>13. ServerTyped'
  <2>1. \A i \in SessionIds : objects[i] + 1 \in Nat
    BY <1>11 DEF ServerTyped
  <2>2. \A i \in SessionIds : live'[i] \in [status : {"none", "idle", "running", "exited"}, of : Nat]
    <3> SUFFICES ASSUME NEW i \in SessionIds
                 PROVE  live'[i] \in [status : {"none", "idle", "running", "exited"}, of : Nat]
      OBVIOUS
    <3>1. i \in new => [status |-> f.procs[i], of |-> objects[i] + 1] \in [status : {"none", "idle", "running", "exited"}, of : Nat]
      BY <1>4, <1>9, <2>1
    <3>2. live[i] \in [status : {"none", "idle", "running", "exited"}, of : Nat]
      BY <1>11 DEF ServerTyped
    <3>3. live'[i] = IF i \in new THEN [status |-> f.procs[i], of |-> objects[i] + 1] ELSE live[i]
      BY <1>10
    <3> QED
      BY <3>1, <3>2, <3>3
  <2>3. live' \in [SessionIds -> [status : {"none", "idle", "running", "exited"}, of : Nat]]
    BY <1>10, <2>2
  <2>4. objects' \in [SessionIds -> Nat]
    BY <1>10, <1>11, <2>1 DEF ServerTyped
  <2>5. hooks' \in [SessionIds -> Nat]
    BY <1>10, <1>11, <2>4 DEF ServerTyped
  <2>6. \A i \in SessionIds : Stamp(f, i) \in {"none", "done", "crashed", "terminated"}
    BY <1>11 DEF Stamp, ServerTyped
  <2>7. marker' \in [SessionIds -> {"none", "done", "crashed", "terminated"}]
    BY <1>10, <2>6
  <2> QED
    BY <1>11, <2>3, <2>4, <2>5, <2>7 DEF ServerTyped
<1>14. AliveIsHeard'
  <2>1. \A i \in SessionIds : objects[i] + 1 # 0
    BY <1>11 DEF ServerTyped
  <2> QED
    BY <1>12, <2>1 DEF HostInv, AliveIsHeard
<1>15. BootIsBlank' /\ NewHostIsEmpty' /\ ListsAreComplete'
  BY DEF BootIsBlank, NewHostIsEmpty, ListsAreComplete
<1>16. AliveHasProcess'
  <2>1. \A i \in SessionIds : i \in new => HasProcess(i)' \/ EndsAfter(0, i)'
    BY <1>5, <1>7, <1>9
  <2>2. \A i \in SessionIds : Alive(i) => HasProcess(i)' \/ Requested("spawn", i)' \/ EndsAfter(0, i)'
    BY <1>5, <1>6 DEF HostInv, AliveHasProcess
  <2> QED
    BY <1>12, <2>1, <2>2 DEF AliveHasProcess
<1>17. RunningWillRest'
  <2>1. \A i \in SessionIds : i \in new /\ f.procs[i] = "running" => HasWork(i)' \/ RestsAfter(0, i)'
    BY <1>5, <1>7
  <2>2. \A i \in SessionIds : live[i].status = "running" => HasWork(i)' \/ PromptComing(i)' \/ RestsAfter(0, i)'
    BY <1>5, <1>6 DEF HostInv, RunningWillRest
  <2> QED
    BY <1>12, <2>1, <2>2 DEF RunningWillRest
<1>18. BacklogIsAcked'
  <2>1. PICK a : a = [op |-> "ack", ids |-> ids]
    OBVIOUS
  <2>2. a \in HostRequests /\ a.op = "ack" /\ a.ids = ids
    BY <1>4, <2>1 DEF HostRequests
  <2>3. PICK n : n = Len(toHost) + 1
    OBVIOUS
  <2>4. n \in DOMAIN toHost' /\ toHost'[n] = a /\ n < Len(toHost') + 1
    <3>1. toHost \in Seq(HostRequests)
      BY DEF HostInv, HostTyped
    <3>2. n \in DOMAIN toHost' /\ toHost'[n] = a /\ Len(toHost') = n /\ n \in Nat
      BY <1>2, <2>1, <2>2, <2>3, <3>1, QueueGrows
    <3> QED
      BY <3>2
  <2> QED
    BY <1>4, <1>8, <2>2, <2>4 DEF BacklogIsAcked, Acked
<1>19. \A i \in SessionIds :
           /\ marker[i] # "none" => marker'[i] = marker[i]
           /\ marker'[i] = "crashed" => marker[i] = "crashed" \/ \E x \in f.exits : x.id = i
  BY <1>10, FramesAre DEF Stamp
<1>20. MarkersTrue'
  <2> SUFFICES ASSUME NEW i \in SessionIds \ overlapped
               PROVE  (/\ marker[i] = "crashed" => ~HasProcess(i) /\ ~Requested("spawn", i) /\ ~Alive(i)
                       /\ KilledIsUnderWay(i) => marker[i] # "none"
                       /\ live[i].status = "exited" => marker[i] # "none")'
    BY DEF MarkersTrue
  <2>1. KilledIsUnderWay(i) => marker[i] # "none"
    BY DEF HostInv, MarkersTrue
  <2>2. marker'[i] = "crashed" => f.procs[i] = "gone"
    BY <1>8, <1>19
  <2>3. f.procs[i] = "gone" => ~HasProcess(i)' /\ ~Requested("spawn", i)' /\ ~Alive(i)'
    BY <1>5, <1>8, <1>9, <1>12 DEF Alive
  <2>4. live'[i].status # "exited"
    BY <1>4, <1>8, <1>12
  <2> QED
    BY <1>5, <1>19, <2>1, <2>2, <2>3, <2>4
<1>21. UnseenIsKilled'
  <2>1. \A i \in SessionIds \ overlapped : HasProcess(i)' => Alive(i)'
    BY <1>5, <1>8, <1>9, <1>12
  <2>2. \A i \in SessionIds \ overlapped : ~Requested("spawn", i)'
    BY <1>5, <1>8
  <2> QED
    BY <2>1, <2>2 DEF UnseenIsKilled, Requested
<1> QED
  BY <1>5, <1>13, <1>14, <1>15, <1>16, <1>17, <1>18, <1>20, <1>21 DEF HostInv

\* After the death of the host a server knows its sessions gone.
LEMMA RelinkKeeps ==
    ASSUME HostInv, linked, toServer # <<>>, toServer' = Tail(toServer),
           NEW f, f = toServer[1], f.op = "list", phase = "relink", phase' = "ready", Relink(f),
           UNCHANGED <<children, exits, linked, attached, overlapped>>
    PROVE  HostInv'
<1>1. UNCHANGED <<objects, toHost>>
  BY DEF Relink
<1>2. /\ HostTyped' /\ LinkTyped' /\ SocketOK' /\ BusyHasWork' /\ LinesAreFollowed' /\ ListsTell'
      /\ SpawnsAreAlone' /\ EndsAreTrue' /\ BacklogIsOld' /\ 1 \in DOMAIN toServer
      /\ \A i \in SessionIds :
             /\ HasProcess(i)' <=> HasProcess(i)
             /\ KilledIsUnderWay(i)' => KilledIsUnderWay(i)
             /\ \A op \in {"spawn", "user", "kill"} : Requested(op, i)' <=> Requested(op, i)
  <2>1. PICK ids \in SUBSET SessionIds : ids = {}
    OBVIOUS
  <2>2. phase' = (IF f.op = "list" THEN "ready" ELSE phase)
    OBVIOUS
  <2> QED
    BY <1>1, <2>2, FrameTaken
<1>3. /\ exits = {} /\ \A i \in SessionIds : f.procs[i] = "gone"
      /\ \A i \in SessionIds \ overlapped : ~HasProcess(i) /\ ~Requested("spawn", i)
  BY <1>2 DEF HostInv, NewHostIsEmpty
<1>4. PICK S \in SUBSET SessionIds : S = {i \in SessionIds : hooks[i] # 0 /\ f.procs[i] = "gone"}
  OBVIOUS
<1>5. Exited(S, "self")
  BY <1>4 DEF Relink
<1>6. \A i \in SessionIds : Alive(i) => i \in S
  BY <1>3, <1>4 DEF HostInv, AliveIsHeard
<1>7. /\ ServerTyped' /\ AliveIsHeard'
      /\ \A i \in SessionIds :
             /\ Alive(i) => marker'[i] = "crashed"
             /\ ~Alive(i) => live'[i] = live[i] /\ marker'[i] = marker[i]
             /\ ~Alive(i)'
  <2>1. /\ ServerTyped' /\ AliveIsHeard'
        /\ \A i \in SessionIds :
               /\ i \in S /\ Alive(i) => marker'[i] = IF "self" = "self" THEN "crashed" ELSE marker[i]
               /\ ~(i \in S /\ Alive(i)) => live'[i] = live[i] /\ marker'[i] = marker[i]
               /\ Alive(i)' <=> Alive(i) /\ i \notin S
    BY <1>1, <1>5, ExitedDoes
  <2> QED
    BY <1>6, <2>1
<1>8. BootIsBlank' /\ NewHostIsEmpty' /\ ListsAreComplete'
  BY DEF BootIsBlank, NewHostIsEmpty, ListsAreComplete
<1>9. AliveHasProcess' /\ RunningWillRest'
  BY <1>7 DEF AliveHasProcess, RunningWillRest, Alive
<1>10. BacklogIsAcked'
  BY <1>3 DEF BacklogIsAcked
<1>11. MarkersTrue'
  <2> SUFFICES ASSUME NEW i \in SessionIds \ overlapped
               PROVE  (/\ marker[i] = "crashed" => ~HasProcess(i) /\ ~Requested("spawn", i) /\ ~Alive(i)
                       /\ KilledIsUnderWay(i) => marker[i] # "none"
                       /\ live[i].status = "exited" => marker[i] # "none")'
    BY DEF MarkersTrue
  <2>1. /\ KilledIsUnderWay(i) => marker[i] # "none"
        /\ live[i].status = "exited" => marker[i] # "none"
    BY DEF HostInv, MarkersTrue
  <2> QED
    BY <1>2, <1>3, <1>7, <2>1
<1>12. UnseenIsKilled'
  BY <1>1, <1>2, <1>3 DEF UnseenIsKilled, Requested
<1> QED
  BY <1>2, <1>7, <1>8, <1>9, <1>10, <1>11, <1>12 DEF HostInv

LEMMA ReceiveKeeps ==
    ASSUME HostInv, Receive
    PROVE  HostInv'
<1>1. /\ linked /\ toServer # <<>> /\ toServer' = Tail(toServer)
      /\ UNCHANGED <<children, exits, linked, attached, overlapped>>
  BY DEF Receive
<1>2. PICK f : f = toServer[1]
  OBVIOUS
<1>3. f = Head(toServer) /\ f \in HostFrames
  BY <1>1, <1>2 DEF HostInv, HostTyped
<1>4. \/ f.op \in {"line", "result"} /\ FoldLine(f)
      \/ f.op = "exit" /\ Exited({f.id}, f.reason) /\ UNCHANGED <<objects, phase, toHost>>
      \/ f.op = "refused" /\ Exited({f.id}, "self") /\ UNCHANGED <<objects, phase, toHost>>
      \/ f.op = "list" /\ phase' = "ready" /\ IF phase = "boot" THEN Attach(f) ELSE Relink(f)
  BY <1>3 DEF Receive
<1>5. CASE f.op \in {"line", "result"} /\ FoldLine(f)
  BY <1>1, <1>2, <1>5, LineKeeps
<1>6. CASE f.op = "exit" /\ Exited({f.id}, f.reason) /\ UNCHANGED <<objects, phase, toHost>>
  <2>1. PICK reason : reason = IF f.op = "exit" THEN f.reason ELSE "self"
    OBVIOUS
  <2>2. Exited({f.id}, reason) /\ f.op \in {"exit", "refused"}
    BY <1>6, <2>1
  <2> QED
    BY <1>1, <1>2, <1>6, <2>1, <2>2, ExitKeeps
<1>7. CASE f.op = "refused" /\ Exited({f.id}, "self") /\ UNCHANGED <<objects, phase, toHost>>
  <2>1. PICK reason : reason = IF f.op = "exit" THEN f.reason ELSE "self"
    OBVIOUS
  <2>2. Exited({f.id}, reason) /\ f.op \in {"exit", "refused"}
    BY <1>7, <2>1
  <2> QED
    BY <1>1, <1>2, <1>7, <2>1, <2>2, ExitKeeps
<1>8. CASE f.op = "list" /\ phase' = "ready" /\ IF phase = "boot" THEN Attach(f) ELSE Relink(f)
  <2>1. CASE phase = "boot"
    BY <1>1, <1>2, <1>8, <2>1, AttachKeeps
  <2>2. CASE phase # "boot"
    <3>1. phase = "relink"
      <4>1. 1 \in DOMAIN toServer
        BY <1>1 DEF HostInv, HostTyped
      <4> QED
        BY <1>2, <1>8, <2>2, <4>1 DEF HostInv, HostTyped, SocketOK
    <3>2. Relink(f)
      BY <1>8, <2>2
    <3> QED
      BY <1>1, <1>2, <1>8, <3>1, <3>2, RelinkKeeps
  <2> QED
    BY <2>1, <2>2
<1> QED
  BY <1>4, <1>5, <1>6, <1>7, <1>8

LEMMA LinkKeeps ==
    ASSUME HostInv, Link
    PROVE  HostInv'
<1>1. PICK r : r = [op |-> "list"]
  OBVIOUS
<1>2. r \in HostRequests /\ r.op = "list"
  BY <1>1 DEF HostRequests
<1>3. /\ ~linked /\ ~attached /\ linked' = TRUE /\ attached' = TRUE /\ toHost' = <<r>>
      /\ UNCHANGED <<children, exits, toServer, live, hooks, objects, marker, phase, overlapped>>
  BY <1>1 DEF Link, serverVars
<1>4. /\ toHost' \in Seq(HostRequests)
      /\ \A i \in DOMAIN toHost' : i = 1 /\ toHost'[i].op = "list"
  BY <1>2, <1>3
<1>5. toServer = <<>> /\ phase # "ready" /\ DOMAIN toServer = {}
  BY <1>3 DEF HostInv, SocketOK
<1>6. \A op \in {"spawn", "user", "kill"} : \A i : ~Requested(op, i)' /\ \A j \in DOMAIN toHost' : toHost'[j] # Frame(op, i)
  BY <1>4, FramesAre DEF Requested
<1>7. \A i : (HasProcess(i)' <=> HasProcess(i)) /\ (Alive(i)' <=> Alive(i))
  BY <1>3 DEF HasProcess, Alive
<1>8. HostTyped' /\ LinkTyped' /\ ServerTyped'
  BY <1>3, <1>4 DEF HostInv, HostTyped, LinkTyped, ServerTyped
<1>9. SocketOK'
  BY <1>3, <1>4, <1>5 DEF SocketOK
<1>10. AliveIsHeard' /\ BusyHasWork'
  BY <1>3, <1>7 DEF HostInv, AliveIsHeard, BusyHasWork, HasWork
<1>11. phase = "boot" => \A i \in SessionIds : live[i].status = "none"
  BY <1>3 DEF HostInv, BootIsBlank
<1>12. BootIsBlank' /\ NewHostIsEmpty'
  <2>1. NewHostIsEmpty'
    BY <1>3, <1>5, <1>6, <1>7 DEF HostInv, NewHostIsEmpty
  <2> QED
    BY <1>3, <1>6, <1>11, <2>1 DEF BootIsBlank
<1>13. AliveHasProcess' /\ RunningWillRest'
  <2>1. phase # "relink" => phase = "boot"
    BY <1>5 DEF HostInv, HostTyped
  <2> QED
    BY <1>3, <1>11, <2>1 DEF AliveHasProcess, RunningWillRest, Alive
<1>14. LinesAreFollowed' /\ ListsTell' /\ ListsAreComplete' /\ EndsAreTrue'
  BY <1>3, <1>5 DEF LinesAreFollowed, ListsTell, ListsAreComplete, EndsAreTrue
<1>15. SpawnsAreAlone' /\ BacklogIsAcked' /\ UnseenIsKilled'
  BY <1>3, <1>5, <1>6 DEF SpawnsAreAlone, BacklogIsAcked, UnseenIsKilled
<1>16. BacklogIsOld'
  BY <1>3, <1>6, <1>7 DEF HostInv, BacklogIsOld
<1>17. MarkersTrue'
  <2>1. \A i \in SessionIds : KilledIsUnderWay(i)' => KilledIsUnderWay(i)
    BY <1>3, <1>5, <1>6, <1>7 DEF KilledIsUnderWay
  <2> QED
    BY <1>3, <1>6, <1>7, <2>1 DEF HostInv, MarkersTrue
<1> QED
  BY <1>8, <1>9, <1>10, <1>12, <1>13, <1>14, <1>15, <1>16, <1>17 DEF HostInv

LEMMA ServerDiesKeeps ==
    ASSUME HostInv, ServerDies
    PROVE  HostInv'
<1>1. PICK r : r = [op |-> "close"]
  OBVIOUS
<1>2. r \in HostRequests /\ r.op = "close"
  BY <1>1 DEF HostRequests
<1>3. /\ live' = [i \in SessionIds |-> [status |-> "none", of |-> 0]]
      /\ hooks' = [i \in SessionIds |-> 0] /\ phase' = "boot" /\ linked' = FALSE /\ toServer' = <<>>
      /\ toHost' = IF linked THEN Append(toHost, r) ELSE toHost
      /\ UNCHANGED <<children, exits, attached, objects, marker, overlapped>>
  BY <1>1 DEF ServerDies
<1>4. DOMAIN toServer' = {}
  BY <1>3
<1>5. /\ toHost' \in Seq(HostRequests)
      /\ \A i \in DOMAIN toHost : i \in DOMAIN toHost' /\ toHost'[i] = toHost[i]
      /\ \A i \in DOMAIN toHost' : i \in DOMAIN toHost \/ toHost'[i] = r
  <2>1. toHost \in Seq(HostRequests)
    BY DEF HostInv, HostTyped
  <2>2. CASE linked
    BY <1>2, <1>3, <2>1, <2>2, QueueGrows
  <2>3. CASE ~linked
    BY <1>3, <2>1, <2>3
  <2> QED
    BY <2>2, <2>3
<1>6. \A op \in {"spawn", "user", "kill"} : \A j \in DOMAIN toHost' : \A i : toHost'[j] = Frame(op, i) =>
          j \in DOMAIN toHost /\ toHost[j] = Frame(op, i)
  BY <1>2, <1>5, FramesAre
<1>7. \A op \in {"spawn", "user", "kill"} : \A i : Requested(op, i)' => Requested(op, i)
  BY <1>6 DEF Requested
<1>8. \A i : HasProcess(i)' <=> HasProcess(i)
  BY <1>3 DEF HasProcess
<1>9. \A i \in SessionIds : live'[i].status = "none" /\ ~Alive(i)'
  BY <1>3 DEF Alive
<1>10. HostTyped' /\ LinkTyped'
  <2>1. toServer' \in Seq(HostFrames)
    BY <1>3
  <2>2. HostTyped'
    BY <1>3, <1>5, <2>1 DEF HostInv, HostTyped
  <2> QED
    BY <1>3, <2>2 DEF HostInv, LinkTyped
<1>11. ServerTyped'
  BY <1>3 DEF HostInv, ServerTyped
<1>12. SocketOK' /\ BootIsBlank' /\ NewHostIsEmpty'
  BY <1>3, <1>4, <1>9 DEF SocketOK, BootIsBlank, NewHostIsEmpty
<1>13. AliveIsHeard' /\ AliveHasProcess' /\ RunningWillRest' /\ BacklogIsAcked' /\ UnseenIsKilled'
  BY <1>3, <1>9 DEF AliveIsHeard, AliveHasProcess, RunningWillRest, BacklogIsAcked, UnseenIsKilled
<1>14. BusyHasWork'
  BY <1>3, <1>8 DEF HostInv, BusyHasWork, HasWork
<1>15. LinesAreFollowed' /\ ListsTell' /\ ListsAreComplete' /\ EndsAreTrue'
  BY <1>4 DEF LinesAreFollowed, ListsTell, ListsAreComplete, EndsAreTrue
<1>16. SpawnsAreAlone'
  <2> SUFFICES ASSUME NEW i \in SessionIds \ overlapped, NEW j \in DOMAIN toHost', toHost'[j] = Frame("spawn", i)
               PROVE  /\ ~HasProcess(i)
                      /\ \A l \in DOMAIN toHost' : l < j => toHost'[l] # Frame("spawn", i) /\ toHost'[l] # Frame("kill", i)
    BY <1>3, <1>4, <1>8 DEF SpawnsAreAlone
  <2>1. j \in DOMAIN toHost /\ toHost[j] = Frame("spawn", i)
    BY <1>6
  <2> QED
    BY <1>6, <2>1 DEF HostInv, SpawnsAreAlone
<1>17. BacklogIsOld'
  <2>1. \A i, j : Acked(i, j) => Acked(i, j)'
    BY <1>5 DEF Acked
  <2> QED
    BY <1>3, <1>6, <1>8, <2>1 DEF HostInv, BacklogIsOld
<1>18. MarkersTrue'
  <2>1. \A i \in SessionIds : KilledIsUnderWay(i)' => KilledIsUnderWay(i)
    BY <1>3, <1>4, <1>7, <1>8 DEF KilledIsUnderWay
  <2> QED
    BY <1>3, <1>7, <1>8, <1>9, <2>1 DEF HostInv, MarkersTrue
<1> QED
  BY <1>10, <1>11, <1>12, <1>13, <1>14, <1>15, <1>16, <1>17, <1>18 DEF HostInv

LEMMA HostDiesKeeps ==
    ASSUME HostInv, HostDies
    PROVE  HostInv'
<1>1. /\ children' = [i \in SessionIds |-> NoProc] /\ exits' = {} /\ linked' = FALSE /\ attached' = FALSE
      /\ toHost' = <<>> /\ toServer' = <<>> /\ phase' = IF linked THEN "relink" ELSE phase
      /\ UNCHANGED <<live, hooks, objects, marker, overlapped>>
  BY DEF HostDies
<1>2. DOMAIN toHost' = {} /\ DOMAIN toServer' = {}
  BY <1>1
<1>3. \A i \in SessionIds : ~HasProcess(i)' /\ (Alive(i)' <=> Alive(i)) /\ ~KilledIsUnderWay(i)' /\ ~Requested("spawn", i)'
  BY <1>1, <1>2 DEF HasProcess, Alive, KilledIsUnderWay, Requested
<1>4. HostTyped'
  <2>1. children' \in [SessionIds -> Procs \cup {NoProc}] /\ exits' \in SUBSET ExitRecords
    BY <1>1
  <2>2. toHost' \in Seq(HostRequests) /\ toServer' \in Seq(HostFrames)
    BY <1>1
  <2> QED
    BY <1>1, <2>1, <2>2 DEF HostInv, HostTyped
<1>5. LinkTyped' /\ ServerTyped'
  BY <1>1 DEF HostInv, LinkTyped, ServerTyped
<1>6. SocketOK'
  BY <1>1, <1>2 DEF HostInv, SocketOK
<1>7. BootIsBlank' /\ NewHostIsEmpty'
  BY <1>1, <1>2, <1>3 DEF HostInv, BootIsBlank, NewHostIsEmpty
<1>8. AliveIsHeard' /\ BusyHasWork' /\ AliveHasProcess' /\ RunningWillRest' /\ BacklogIsAcked' /\ UnseenIsKilled'
  BY <1>1, <1>3 DEF HostInv, AliveIsHeard, BusyHasWork, AliveHasProcess, RunningWillRest, BacklogIsAcked, UnseenIsKilled
<1>9. LinesAreFollowed' /\ ListsTell' /\ ListsAreComplete' /\ EndsAreTrue'
  BY <1>2 DEF LinesAreFollowed, ListsTell, ListsAreComplete, EndsAreTrue
<1>10. SpawnsAreAlone' /\ BacklogIsOld'
  BY <1>1, <1>2 DEF SpawnsAreAlone, BacklogIsOld
<1>11. MarkersTrue'
  BY <1>1, <1>3 DEF HostInv, MarkersTrue
<1> QED
  BY <1>4, <1>5, <1>6, <1>7, <1>8, <1>9, <1>10, <1>11 DEF HostInv

\* No step leaves the two views unaccounted for: one lemma for every action.
LEMMA HostInvKept == HostInv /\ [HostNext]_hostVars => HostInv'
<1> SUFFICES ASSUME HostInv, [HostNext]_hostVars PROVE HostInv'
  OBVIOUS
<1>1. ASSUME NEW id \in SessionIds,
             Start(id) \/ Prompt(id) \/ End(id) \/ Works(id) \/ TurnDone(id) \/ ProcessExits(id)
      PROVE  HostInv'
  BY <1>1, StartKeeps, PromptKeeps, EndKeeps, WorksKeeps, TurnDoneKeeps, ProcessExitsKeeps
<1>2. CASE Link \/ Serve \/ Receive \/ ServerDies \/ HostDies
  BY <1>2, LinkKeeps, HandleKeeps, ReceiveKeeps, ServerDiesKeeps, HostDiesKeeps
<1>3. CASE UNCHANGED hostVars
  <2>1. UNCHANGED <<children, exits, linked, attached, toHost, toServer, phase, live, hooks, objects, marker, overlapped>>
    BY <1>3 DEF hostVars, serverVars
  <2>2. HostTyped' /\ LinkTyped' /\ ServerTyped' /\ SocketOK' /\ AliveIsHeard' /\ BusyHasWork' /\ BootIsBlank' /\ NewHostIsEmpty'
    BY <2>1 DEF HostInv, HostTyped, LinkTyped, ServerTyped, SocketOK, AliveIsHeard, BusyHasWork, BootIsBlank,
               NewHostIsEmpty, Alive, HasProcess, HasWork, Requested
  <2>3. AliveHasProcess' /\ RunningWillRest' /\ LinesAreFollowed' /\ ListsTell' /\ ListsAreComplete'
    BY <2>1 DEF HostInv, AliveHasProcess, RunningWillRest, LinesAreFollowed, ListsTell, ListsAreComplete, Alive, HasProcess,
               HasWork, Requested, PromptComing, EndsAfter, RestsAfter, TellsEnd
  <2>4. SpawnsAreAlone' /\ EndsAreTrue' /\ BacklogIsOld' /\ BacklogIsAcked' /\ UnseenIsKilled'
    BY <2>1 DEF HostInv, SpawnsAreAlone, EndsAreTrue, BacklogIsOld, BacklogIsAcked, UnseenIsKilled, HasProcess, Acked, Requested, Alive
  <2>5. MarkersTrue'
    BY <2>1 DEF HostInv, MarkersTrue, KilledIsUnderWay, HasProcess, Requested, Alive
  <2> QED
    BY <2>2, <2>3, <2>4, <2>5 DEF HostInv
<1> QED
  BY <1>1, <1>2, <1>3 DEF HostNext

LEMMA ViewsAgreeAtRest == HostInv => SessionsTrue
<1> SUFFICES ASSUME HostInv PROVE SessionsTrue
  OBVIOUS
<1>1. ASSUME NothingUnderWay
      PROVE  /\ DOMAIN toHost = {} /\ DOMAIN toServer = {} /\ linked /\ phase = "ready"
             /\ \A i : ~EndsAfter(0, i) /\ ~RestsAfter(0, i) /\ ~PromptComing(i)
             /\ \A op, i : ~Requested(op, i)
  BY <1>1 DEF NothingUnderWay, EndsAfter, RestsAfter, PromptComing, Requested
<1>2. ServerKnowsProcesses
  <2> SUFFICES ASSUME NothingUnderWay, NEW id \in SessionIds \ overlapped
               PROVE  /\ Alive(id) => HasProcess(id) /\ Heard(id)
                      /\ HasProcess(id) /\ ~children[id].killed => Alive(id)
    BY DEF ServerKnowsProcesses, HasProcess
  <2>1. Alive(id) => HasProcess(id)
    BY <1>1 DEF HostInv, AliveHasProcess
  <2>2. Alive(id) => Heard(id)
    BY DEF HostInv, AliveIsHeard, Heard
  <2>3. HasProcess(id) /\ ~children[id].killed => Alive(id)
    BY <1>1 DEF HostInv, UnseenIsKilled
  <2> QED
    BY <2>1, <2>2, <2>3
<1>3. RunningHasWork
  <2>1. NothingUnderWay => \A id \in SessionIds : live[id].status = "running" => HasWork(id)
    BY <1>1 DEF HostInv, RunningWillRest
  <2> QED
    BY <2>1 DEF RunningHasWork, HasWork, HasProcess
<1>4. MarkersTellTheEnd
  BY DEF HostInv, MarkersTrue, MarkersTellTheEnd
<1> QED
  BY <1>2, <1>3, <1>4 DEF SessionsTrue

\* Whatever died and came back, once nothing is under way the server's sessions are the host's
\* processes, a session shown running has work, and a marker tells how its session ended.
THEOREM SessionsStayTrue == HostSpec => []SessionsTrue
<1>1. HostInit => HostInv
  BY HostStarts
<1>2. HostInv /\ [HostNext]_hostVars => HostInv'
  BY HostInvKept
<1>3. HostInv => SessionsTrue
  BY ViewsAgreeAtRest
<1> QED
  BY <1>1, <1>2, <1>3, PTL DEF HostSpec

-----------------------------------------------------------------------------
(***************************************************************************)
(* One thread, for all sets of sends and sessions and every cap of the     *)
(* tail: first what the sequence operators return.                         *)
(***************************************************************************)
\* All lines but the last, and the last.
LEMMA FrontOf ==
    ASSUME NEW S, NEW s \in Seq(S), s # <<>>
    PROVE  /\ Len(s) \in Nat \ {0}
           /\ Front(s) \in Seq(S) /\ Len(Front(s)) = Len(s) - 1
           /\ \A i \in 1..(Len(s) - 1) : Front(s)[i] = s[i]
           /\ Last(s) = s[Len(s)] /\ Last(s) \in S
<1> DEFINE n == Len(s) - 1
<1>1. Len(s) \in Nat \ {0} /\ s[Len(s)] \in S
  OBVIOUS
<1>2. n \in Nat /\ n <= Len(s)
  BY <1>1
<1> HIDE DEF n
<1>3. SubSeq(s, 1, n) \in Seq(S) /\ Len(SubSeq(s, 1, n)) = n /\ \A i \in 1..n : SubSeq(s, 1, n)[i] = s[i]
  BY <1>1, <1>2
<1> QED
  BY <1>1, <1>3 DEF Front, Last, n

\* Two sequences are equal when they say the same at every position.
LEMMA SameSeq ==
    ASSUME NEW S, NEW s \in Seq(S), NEW t \in Seq(S), Len(s) = Len(t), \A i \in 1..Len(s) : s[i] = t[i]
    PROVE  s = t
OBVIOUS

LEMMA AppendOf ==
    ASSUME NEW S, NEW s \in Seq(S), NEW e \in S
    PROVE  /\ Append(s, e) \in Seq(S) /\ Len(Append(s, e)) = Len(s) + 1 /\ Append(s, e) # <<>>
           /\ Len(s) \in Nat
           /\ \A i \in 1..Len(s) : Append(s, e)[i] = s[i]
           /\ Append(s, e)[Len(s) + 1] = e
           /\ Front(Append(s, e)) = s /\ Last(Append(s, e)) = e
<1>1. /\ Append(s, e) \in Seq(S) /\ Len(Append(s, e)) = Len(s) + 1 /\ Append(s, e) # <<>>
      /\ Len(s) \in Nat
      /\ \A i \in 1..Len(s) : Append(s, e)[i] = s[i]
      /\ Append(s, e)[Len(s) + 1] = e
  OBVIOUS
<1> DEFINE t == Append(s, e)
<1> HIDE DEF t
<1>2. /\ Len(t) \in Nat \ {0} /\ Front(t) \in Seq(S) /\ Len(Front(t)) = Len(t) - 1
      /\ \A i \in 1..(Len(t) - 1) : Front(t)[i] = t[i]
      /\ Last(t) = t[Len(t)]
  BY <1>1, FrontOf DEF t
<1>3. Len(Front(t)) = Len(s) /\ \A i \in 1..Len(Front(t)) : Front(t)[i] = s[i]
  BY <1>1, <1>2 DEF t
<1>4. Front(t) = s
  BY <1>2, <1>3, SameSeq
<1> QED
  BY <1>1, <1>2, <1>4 DEF t

LEMMA AppendFront ==
    ASSUME NEW S, NEW s \in Seq(S), s # <<>>
    PROVE  Append(Front(s), Last(s)) = s
<1> DEFINE f == Front(s)
           e == Last(s)
<1>1. /\ Len(s) \in Nat \ {0} /\ f \in Seq(S) /\ Len(f) = Len(s) - 1
      /\ \A i \in 1..(Len(s) - 1) : f[i] = s[i]
      /\ e = s[Len(s)] /\ e \in S
  BY FrontOf
<1> HIDE DEF f, e
<1>2. /\ Append(f, e) \in Seq(S) /\ Len(Append(f, e)) = Len(f) + 1
      /\ \A i \in 1..Len(f) : Append(f, e)[i] = f[i]
      /\ Append(f, e)[Len(f) + 1] = e
  BY <1>1, AppendOf
<1>3. \A i \in 1..Len(s) : Append(f, e)[i] = s[i]
  BY <1>1, <1>2
<1> QED
  BY <1>1, <1>2, <1>3, SameSeq DEF f, e

\* The tail in memory: how much shorter than the log, and what it holds where.
Cut(log) == IF Len(log) > MaxThreadMsgs THEN Len(log) - MaxThreadMsgs ELSE 0

LEMMA TailOfIs ==
    ASSUME NEW S, NEW log \in Seq(S)
    PROVE  /\ Cut(log) \in Nat /\ Len(log) \in Nat /\ Cut(log) <= Len(log)
           /\ TailOf(log) \in Seq(S) /\ Len(TailOf(log)) = Len(log) - Cut(log)
           /\ \A k \in 1..(Len(log) - Cut(log)) : k + Cut(log) \in 1..Len(log) /\ TailOf(log)[k] = log[k + Cut(log)]
           /\ Len(log) # 0 => Cut(log) < Len(log)
<1>0. MaxThreadMsgs \in Nat /\ MaxThreadMsgs > 0 /\ Len(log) \in Nat
  BY ThreadAssumption
<1>1. CASE Len(log) > MaxThreadMsgs
  <2>1. TailOf(log) = SubSeq(log, Len(log) - MaxThreadMsgs + 1, Len(log)) /\ Cut(log) = Len(log) - MaxThreadMsgs
    BY <1>1 DEF TailOf, Cut
  <2> DEFINE m == Len(log) - MaxThreadMsgs + 1
             n == Len(log)
  <2>2. m \in 1..n /\ n \in 1..Len(log) /\ n - m + 1 = MaxThreadMsgs
    BY <1>0, <1>1
  <2>3. /\ SubSeq(log, m, n) \in Seq(S) /\ Len(SubSeq(log, m, n)) = n - m + 1
        /\ \A k \in 1..(n - m + 1) : SubSeq(log, m, n)[k] = log[m + k - 1]
    <3> HIDE DEF m, n
    <3> QED
      BY <2>2
  <2>4. \A k \in 1..MaxThreadMsgs : m + k - 1 = k + Cut(log) /\ k + Cut(log) \in 1..Len(log)
    BY <1>0, <1>1, <2>1
  <2>5. Len(log) - Cut(log) = MaxThreadMsgs /\ Cut(log) \in Nat /\ Cut(log) < Len(log)
    BY <1>0, <1>1, <2>1
  <2> QED
    BY <1>0, <2>1, <2>2, <2>3, <2>4, <2>5
<1>2. CASE ~(Len(log) > MaxThreadMsgs)
  BY <1>0, <1>2 DEF TailOf, Cut
<1> QED
  BY <1>1, <1>2

\* A line after the tail, cut again, is the tail of the longer log.
LEMMA TailOfGrows ==
    ASSUME NEW S, NEW log \in Seq(S), NEW e \in S
    PROVE  TailOf(Append(TailOf(log), e)) = TailOf(Append(log, e))
<1> DEFINE s == TailOf(log)
           t == Append(s, e)
           long == Append(log, e)
<1>1. /\ Cut(log) \in Nat /\ Len(log) \in Nat /\ Cut(log) <= Len(log)
      /\ s \in Seq(S) /\ Len(s) = Len(log) - Cut(log)
      /\ \A k \in 1..(Len(log) - Cut(log)) : k + Cut(log) \in 1..Len(log) /\ s[k] = log[k + Cut(log)]
  BY TailOfIs
<1> HIDE DEF s
<1>2. /\ t \in Seq(S) /\ Len(t) = Len(s) + 1
      /\ \A i \in 1..Len(s) : t[i] = s[i]
      /\ t[Len(s) + 1] = e
  BY <1>1, AppendOf
<1>3. /\ long \in Seq(S) /\ Len(long) = Len(log) + 1
      /\ \A i \in 1..Len(log) : long[i] = log[i]
      /\ long[Len(log) + 1] = e
  BY AppendOf
<1> HIDE DEF t, long
<1>4. /\ Cut(t) \in Nat /\ Cut(t) <= Len(t) /\ TailOf(t) \in Seq(S) /\ Len(TailOf(t)) = Len(t) - Cut(t)
      /\ \A k \in 1..(Len(t) - Cut(t)) : k + Cut(t) \in 1..Len(t) /\ TailOf(t)[k] = t[k + Cut(t)]
  BY <1>2, TailOfIs
<1>5. /\ Cut(long) \in Nat /\ Cut(long) <= Len(long) /\ TailOf(long) \in Seq(S)
      /\ Len(TailOf(long)) = Len(long) - Cut(long)
      /\ \A k \in 1..(Len(long) - Cut(long)) : k + Cut(long) \in 1..Len(long) /\ TailOf(long)[k] = long[k + Cut(long)]
  BY <1>3, TailOfIs
<1>6. Cut(long) = Cut(log) + Cut(t)
  <2>1. MaxThreadMsgs \in Nat /\ MaxThreadMsgs > 0
    BY ThreadAssumption
  <2>2. CASE Len(log) > MaxThreadMsgs
    <3>1. Cut(log) = Len(log) - MaxThreadMsgs
      BY <2>2 DEF Cut
    <3>2. Len(t) = MaxThreadMsgs + 1 /\ Len(long) = Len(log) + 1
      BY <1>1, <1>2, <1>3, <2>1, <3>1
    <3>3. Cut(t) = 1 /\ Cut(long) = Len(log) + 1 - MaxThreadMsgs
      BY <1>1, <2>1, <2>2, <3>2 DEF Cut
    <3> QED
      BY <1>1, <2>1, <3>1, <3>3
  <2>3. CASE ~(Len(log) > MaxThreadMsgs)
    <3>1. Cut(log) = 0
      BY <2>3 DEF Cut
    <3>2. Len(t) = Len(long)
      BY <1>1, <1>2, <1>3, <3>1
    <3> QED
      BY <1>4, <3>1, <3>2 DEF Cut
  <2> QED
    BY <2>2, <2>3
<1>7. Len(t) - Cut(t) = Len(long) - Cut(long)
  <2>1. /\ Len(s) = Len(log) - Cut(log) /\ Len(t) = Len(s) + 1 /\ Len(long) = Len(log) + 1
        /\ Cut(long) = Cut(log) + Cut(t)
    BY <1>1, <1>2, <1>3, <1>6
  <2>2. Len(log) \in Nat /\ Cut(log) \in Nat /\ Cut(t) \in Nat
    BY <1>1, <1>4
  <2> QED
    BY <2>1, <2>2
<1>8. ASSUME NEW i \in 1..Len(t) PROVE i + Cut(log) \in 1..Len(long) /\ t[i] = long[i + Cut(log)]
  <2>1. CASE i = Len(s) + 1
    <3>1. i + Cut(log) = Len(log) + 1
      BY <1>1, <2>1
    <3> QED
      BY <1>1, <1>2, <1>3, <2>1, <3>1
  <2>2. CASE i # Len(s) + 1
    <3>1. i \in 1..Len(s) /\ i \in 1..(Len(log) - Cut(log))
      BY <1>1, <1>2, <2>2
    <3>2. t[i] = s[i] /\ s[i] = log[i + Cut(log)] /\ i + Cut(log) \in 1..Len(log)
      BY <1>1, <1>2, <3>1
    <3> QED
      BY <1>1, <1>3, <3>2
  <2> QED
    BY <2>1, <2>2
<1>9. ASSUME NEW k \in 1..Len(TailOf(t)) PROVE TailOf(t)[k] = TailOf(long)[k]
  <2>1. k \in 1..(Len(t) - Cut(t)) /\ k \in 1..(Len(long) - Cut(long))
    BY <1>4, <1>7, <1>9
  <2>2. TailOf(t)[k] = t[k + Cut(t)] /\ k + Cut(t) \in 1..Len(t) /\ TailOf(long)[k] = long[k + Cut(long)]
    BY <1>4, <1>5, <2>1
  <2>3. k + Cut(t) + Cut(log) = k + Cut(long)
    BY <1>1, <1>4, <1>6
  <2>4. t[k + Cut(t)] = long[k + Cut(t) + Cut(log)]
    BY <1>8, <2>2
  <2> QED
    BY <2>2, <2>3, <2>4
<1>10. Len(TailOf(t)) = Len(TailOf(long))
  BY <1>4, <1>5, <1>7
<1>11. TailOf(t) = TailOf(long)
  <2> DEFINE x == TailOf(t)
             y == TailOf(long)
  <2> HIDE DEF x, y
  <2>1. x \in Seq(S) /\ y \in Seq(S) /\ Len(x) = Len(y) /\ \A i \in 1..Len(x) : x[i] = y[i]
    BY <1>4, <1>5, <1>9, <1>10 DEF x, y
  <2>2. x = y
    BY <2>1, SameSeq
  <2> QED
    BY <2>2 DEF x, y
<1> QED
  BY <1>11 DEF t, long, s

\* LinesAt of all positions is the file itself.
LEMMA LinesAtAll ==
    ASSUME NEW S, NEW lines \in Seq(S)
    PROVE  LinesAt(lines, DOMAIN lines) = lines
<1> DEFINE at == DOMAIN lines
<1>1. at = 1..Len(lines) /\ Len(lines) \in Nat
  OBVIOUS
<1>2. PICK g : UpTo(g, lines, at, Len(lines)) /\ LinesAt(lines, at) = g[Len(lines)]
  BY LinesAtIsUpTo
<1> HIDE DEF at
<1> DEFINE Good(n) == g[n] \in Seq(S) /\ Len(g[n]) = n /\ \A k \in 1..n : g[n][k] = lines[k]
           P == {n \in Nat : n <= Len(lines) => Good(n)}
<1>3. 0 \in P
  <2>1. g[0] = <<>>
    BY <1>1, <1>2 DEF UpTo
  <2>2. <<>> \in Seq(S) /\ Len(<<>>) = 0 /\ 1..0 = {}
    OBVIOUS
  <2>3. Good(0)
    BY <2>1, <2>2
  <2> QED
    BY <2>3
<1>4. ASSUME NEW n \in Nat, n \in P PROVE n + 1 \in P
  <2> SUFFICES ASSUME n + 1 <= Len(lines) PROVE Good(n + 1)
    OBVIOUS
  <2>1. n + 1 \in 0..Len(lines) /\ n + 1 \in at /\ n + 1 # 0 /\ n + 1 - 1 = n /\ n <= Len(lines)
    BY <1>1
  <2>2. g[n + 1] = Pick(g[n + 1 - 1], lines, at, n + 1)
    BY <1>2, <2>1 DEF UpTo
  <2>3. g[n + 1] = Append(g[n], lines[n + 1])
    BY <2>1, <2>2 DEF Pick
  <2>4. Good(n)
    BY <1>4, <2>1
  <2>5. lines[n + 1] \in S
    BY <1>1, <2>1
  <2>6. /\ g[n + 1] \in Seq(S) /\ Len(g[n + 1]) = n + 1
        /\ \A i \in 1..n : g[n + 1][i] = g[n][i]
        /\ g[n + 1][n + 1] = lines[n + 1]
    <3> HIDE DEF P
    <3>1. g[n] \in Seq(S) /\ Len(g[n]) = n
      BY <2>4
    <3> QED
      BY <2>3, <2>5, <3>1, AppendOf
  <2>7. \A k \in 1..(n + 1) : k = n + 1 \/ k \in 1..n
    OBVIOUS
  <2> QED
    BY <2>4, <2>6, <2>7
<1>5. \A n \in Nat : n \in P
  <2> HIDE DEF P
  <2> QED
    BY <1>3, <1>4, NaturalInduction
<1>6. Good(Len(lines))
  BY <1>1, <1>5
<1> DEFINE out == g[Len(lines)]
<1>7. out \in Seq(S) /\ Len(out) = Len(lines) /\ \A k \in 1..Len(out) : out[k] = lines[k]
  BY <1>6
<1> HIDE DEF out
<1>8. out = lines
  BY <1>7, SameSeq
<1> QED
  BY <1>2, <1>8 DEF at, out


-----------------------------------------------------------------------------
(***************************************************************************)
(* The ledger, its tail in memory and the sends that wait.                 *)
(*                                                                         *)
(* That no send is written twice is known, of a send with a postId,        *)
(* because the tail is searched under the lock; of any other, because it   *)
(* is tried once, so the invariant follows it from the queue to the        *)
(* ledger.                                                                 *)
(***************************************************************************)
\* The lines that are fsynced.
Landed == IF writing = NoLine THEN ledger ELSE Front(ledger)

SendsOf(log) == {log[i].send : i \in DOMAIN log}

\* Counted 1, 2, 3, ...
Numbered(log) == \A i \in DOMAIN log : log[i].seq = i

\* Between two lines of one send the tail has passed.
Apart(log) == \A i, j \in DOMAIN log : i < j /\ log[i].send = log[j].send => j - i > MaxThreadMsgs

LogTyped ==
    /\ ledger \in Seq(Lines) /\ msgs \in Seq(Lines) /\ queue \in Seq(Sends) /\ fanout \in Seq(Sends)
    /\ writing \in Lines \cup {NoLine} /\ accepted \subseteq Sends /\ tries \in [Sends -> Nat]

\* The line under way is the ledger's last, written for the head of the queue.
Underway ==
    writing # NoLine =>
        ledger # <<>> /\ Last(ledger) = writing /\ queue # <<>> /\ Head(queue) = writing.send

\* A send that is not retried is in one place: nowhere yet, in the queue, or in the ledger.
WaitsOnce ==
    \A p \in Sends \ Keyed :
        /\ tries[p] \in {0, 1} /\ Once(queue, p)
        /\ tries[p] = 0 => p \notin Range(queue) /\ p \notin SendsOf(ledger)
        /\ p \in Range(queue) /\ p \in SendsOf(ledger) => writing # NoLine /\ writing.send = p

LogInv ==
    /\ LogTyped /\ Underway
    /\ Numbered(ledger) /\ msgs = TailOf(Landed)
    /\ accepted \subseteq SendsOf(Landed)
    /\ Apart(ledger) /\ WaitsOnce

LEMMA LinesAre == \A l \in Lines : l.seq \in Nat \ {0} /\ l.send \in Sends
BY DEF Lines

\* One more line.
LEMMA AppendLine ==
    ASSUME NEW log \in Seq(Lines), NEW l \in Lines
    PROVE  /\ SendsOf(Append(log, l)) = SendsOf(log) \cup {l.send}
           /\ Numbered(log) /\ l.seq = Len(log) + 1 => Numbered(Append(log, l))
<1>1. /\ DOMAIN log = 1..Len(log) /\ DOMAIN Append(log, l) = 1..(Len(log) + 1)
      /\ Len(log) \in Nat
      /\ \A i \in 1..Len(log) : Append(log, l)[i] = log[i]
      /\ Append(log, l)[Len(log) + 1] = l
  OBVIOUS
<1>2. \A i : i \in 1..(Len(log) + 1) <=> i \in 1..Len(log) \/ i = Len(log) + 1
  BY <1>1
<1>3. SendsOf(Append(log, l)) = SendsOf(log) \cup {l.send}
  BY <1>1, <1>2 DEF SendsOf
<1>4. Numbered(log) /\ l.seq = Len(log) + 1 => Numbered(Append(log, l))
  BY <1>1, <1>2 DEF Numbered
<1> QED
  BY <1>3, <1>4

\* One line less.
LEMMA DropLine ==
    ASSUME NEW log \in Seq(Lines), log # <<>>
    PROVE  /\ Front(log) \in Seq(Lines) /\ SendsOf(Front(log)) \subseteq SendsOf(log)
           /\ Numbered(log) => Numbered(Front(log))
           /\ Apart(log) => Apart(Front(log))
<1>1. /\ Front(log) \in Seq(Lines) /\ Len(log) \in Nat \ {0} /\ Len(Front(log)) = Len(log) - 1
      /\ \A i \in 1..(Len(log) - 1) : Front(log)[i] = log[i]
  BY FrontOf
<1>2. DOMAIN Front(log) = 1..(Len(log) - 1) /\ DOMAIN log = 1..Len(log)
  BY <1>1
<1>3. \A i \in 1..(Len(log) - 1) : i \in 1..Len(log)
  BY <1>1
<1>4. SendsOf(Front(log)) \subseteq SendsOf(log)
  BY <1>1, <1>2, <1>3 DEF SendsOf
<1>5. Numbered(log) => Numbered(Front(log))
  BY <1>1, <1>2, <1>3 DEF Numbered
<1>6. Apart(log) => Apart(Front(log))
  BY <1>1, <1>2, <1>3 DEF Apart
<1> QED
  BY <1>1, <1>4, <1>5, <1>6

\* The tail of a numbered log: where its lines are, and the newest seq.
LEMMA TailNumbered ==
    ASSUME NEW log \in Seq(Lines), Numbered(log)
    PROVE  /\ LastSeq(TailOf(log)) = Len(log)
           /\ \A i \in DOMAIN TailOf(log) : /\ i + Cut(log) \in DOMAIN log
                                           /\ TailOf(log)[i] = log[i + Cut(log)]
                                           /\ TailOf(log)[i].seq = i + Cut(log)
           /\ DOMAIN TailOf(log) = 1..(Len(log) - Cut(log))
<1> DEFINE recent == TailOf(log)
<1>1. /\ Cut(log) \in Nat /\ Len(log) \in Nat /\ Cut(log) <= Len(log)
      /\ recent \in Seq(Lines) /\ Len(recent) = Len(log) - Cut(log)
      /\ \A k \in 1..(Len(log) - Cut(log)) : k + Cut(log) \in 1..Len(log) /\ recent[k] = log[k + Cut(log)]
      /\ Len(log) # 0 => Cut(log) < Len(log)
  BY TailOfIs
<1> HIDE DEF recent
<1>2. DOMAIN recent = 1..(Len(log) - Cut(log)) /\ DOMAIN log = 1..Len(log)
  BY <1>1
<1>3. \A i \in DOMAIN recent : /\ i + Cut(log) \in DOMAIN log
                             /\ recent[i] = log[i + Cut(log)] /\ recent[i].seq = i + Cut(log)
  BY <1>1, <1>2 DEF Numbered
<1>4. LastSeq(recent) = Len(log)
  <2>1. CASE Len(log) = 0
    <3>1. recent = <<>>
      BY <1>1, <2>1
    <3> QED
      BY <2>1, <3>1 DEF LastSeq
  <2>2. CASE Len(log) # 0
    <3>1. Len(recent) \in DOMAIN recent /\ Len(recent) + Cut(log) = Len(log) /\ recent # <<>>
      BY <1>1, <1>2, <2>2
    <3>2. Last(recent) = recent[Len(recent)]
      BY <1>1, <3>1, FrontOf
    <3>3. recent[Len(recent)].seq = Len(log)
      BY <1>3, <3>1
    <3> QED
      BY <3>1, <3>2, <3>3 DEF LastSeq
  <2> QED
    BY <2>1, <2>2
<1> QED
  BY <1>2, <1>3, <1>4 DEF recent

\* How the ledger, what has landed and the tail stand to one another.
LEMMA LandedIs ==
    ASSUME LogInv
    PROVE  /\ Landed \in Seq(Lines) /\ Numbered(Landed) /\ Len(Landed) \in Nat
           /\ writing = NoLine => Landed = ledger
           /\ writing # NoLine => /\ writing \in Lines /\ writing.send \in Sends
                                  /\ ledger = Append(Landed, writing) /\ writing.seq = Len(Landed) + 1
           /\ msgs = TailOf(Landed) /\ LastSeq(msgs) = Len(Landed)
           /\ \A i \in DOMAIN msgs : /\ i + Cut(Landed) \in DOMAIN Landed
                                     /\ msgs[i] = Landed[i + Cut(Landed)] /\ msgs[i].seq = i + Cut(Landed)
           /\ Cut(Landed) \in Nat /\ DOMAIN msgs = 1..(Len(Landed) - Cut(Landed))
<1>1. ledger \in Seq(Lines) /\ Numbered(ledger) /\ msgs = TailOf(Landed) /\ Underway
  BY DEF LogInv, LogTyped
<1>2. /\ Landed \in Seq(Lines) /\ Numbered(Landed)
      /\ writing = NoLine => Landed = ledger
      /\ writing # NoLine => /\ writing \in Lines /\ writing.send \in Sends
                             /\ ledger = Append(Landed, writing) /\ writing.seq = Len(Landed) + 1
  <2>1. CASE writing = NoLine
    BY <1>1, <2>1 DEF Landed
  <2>2. CASE writing # NoLine
    <3>1. ledger # <<>> /\ Last(ledger) = writing /\ writing \in Lines /\ Landed = Front(ledger)
      BY <1>1, <2>2 DEF Underway, Landed, LogInv, LogTyped
    <3>2. /\ Len(ledger) \in Nat \ {0} /\ Landed \in Seq(Lines) /\ Len(Landed) = Len(ledger) - 1
          /\ Last(ledger) = ledger[Len(ledger)]
      BY <1>1, <3>1, FrontOf
    <3>3. ledger = Append(Landed, writing)
      BY <1>1, <3>1, AppendFront
    <3>4. writing.seq = Len(Landed) + 1
      <4>1. Len(ledger) \in DOMAIN ledger
        BY <1>1, <3>2
      <4> QED
        BY <1>1, <3>1, <3>2, <4>1 DEF Numbered
    <3>5. Numbered(Landed)
      BY <1>1, <3>1, DropLine
    <3> QED
      BY <2>2, <3>1, <3>2, <3>3, <3>4, <3>5, LinesAre
  <2> QED
    BY <2>1, <2>2
<1>3. Cut(Landed) \in Nat /\ Len(Landed) \in Nat
  BY <1>2, TailOfIs
<1> HIDE DEF Landed
<1> QED
  BY <1>1, <1>2, <1>3, TailNumbered

LEMMA LogInvInit == ThreadInit => LogInv
<1> SUFFICES ASSUME ThreadInit PROVE LogInv
  OBVIOUS
<1>1. /\ ledger = <<>> /\ msgs = <<>> /\ queue = <<>> /\ writing = NoLine /\ fanout = <<>>
      /\ tries = [p \in Sends |-> 0] /\ accepted = {}
  BY DEF ThreadInit
<1>2. \A S : <<>> \in Seq(S)
  OBVIOUS
<1>3. DOMAIN <<>> = {} /\ Len(<<>>) = 0
  OBVIOUS
<1>4. LogTyped
  <2>1. ledger \in Seq(Lines) /\ msgs \in Seq(Lines) /\ queue \in Seq(Sends) /\ fanout \in Seq(Sends)
    BY <1>1, <1>2
  <2> QED
    BY <1>1, <2>1 DEF LogTyped
<1>5. Landed = <<>> /\ TailOf(<<>>) = <<>>
  <2>1. ~(0 > MaxThreadMsgs)
    BY ThreadAssumption
  <2> QED
    BY <1>1, <1>3, <2>1 DEF Landed, TailOf
<1>6. Numbered(ledger) /\ Apart(ledger) /\ SendsOf(ledger) = {}
  BY <1>1, <1>3 DEF Numbered, Apart, SendsOf
<1>7. Range(queue) = {} /\ \A p : Once(queue, p)
  BY <1>1, <1>3 DEF Range, Once
<1> QED
  BY <1>1, <1>4, <1>5, <1>6, <1>7 DEF LogInv, Underway, WaitsOnce


\* A send found by its postId is in the ledger already.
LEMMA DupIsLanded ==
    ASSUME LogInv, NEW p \in Sends, NEW i \in Dup(p)
    PROVE  /\ p \in Keyed /\ p \in SendsOf(Landed) /\ msgs[i] \in Lines
           /\ msgs[i].seq \in DOMAIN Landed /\ Landed[msgs[i].seq] = msgs[i] /\ msgs[i].send = p
<1>1. i \in DOMAIN msgs /\ p \in Keyed /\ msgs[i].send = p
  BY DEF Dup
<1>2. i + Cut(Landed) \in DOMAIN Landed /\ msgs[i] = Landed[i + Cut(Landed)] /\ msgs[i].seq = i + Cut(Landed)
  BY <1>1, LandedIs
<1>3. msgs[i] \in Lines
  BY <1>1 DEF LogInv, LogTyped
<1> QED
  BY <1>1, <1>2, <1>3 DEF SendsOf

\* A send that is not found is far behind, or was never written.
LEMMA NotFoundIsApart ==
    ASSUME LogInv, writing = NoLine, NEW p \in Sends, p \in Range(queue), Dup(p) = {},
           NEW i \in DOMAIN ledger, ledger[i].send = p
    PROVE  Len(ledger) + 1 - i > MaxThreadMsgs
<1>1. ledger \in Seq(Lines) /\ DOMAIN ledger = 1..Len(ledger) /\ Len(ledger) \in Nat
  BY DEF LogInv, LogTyped
<1>2. p \in SendsOf(ledger)
  BY DEF SendsOf
<1>3. p \in Keyed
  BY <1>2 DEF LogInv, WaitsOnce
<1>4. /\ Landed = ledger /\ Cut(ledger) \in Nat /\ DOMAIN msgs = 1..(Len(ledger) - Cut(ledger))
      /\ \A k \in DOMAIN msgs : msgs[k] = ledger[k + Cut(ledger)]
  BY LandedIs
<1>5. ~(i > Cut(ledger))
  <2> SUFFICES ASSUME i > Cut(ledger) PROVE FALSE
    OBVIOUS
  <2>1. i - Cut(ledger) \in DOMAIN msgs /\ i - Cut(ledger) + Cut(ledger) = i
    BY <1>1, <1>4
  <2>2. msgs[i - Cut(ledger)] = ledger[i]
    BY <1>4, <2>1
  <2>3. i - Cut(ledger) \in Dup(p)
    BY <1>3, <2>1, <2>2 DEF Dup
  <2> QED
    BY <2>3
<1>6. MaxThreadMsgs \in Nat /\ i \in 1..Len(ledger)
  BY <1>1, ThreadAssumption
<1>7. CASE Len(ledger) > MaxThreadMsgs
  <2>1. Cut(ledger) = Len(ledger) - MaxThreadMsgs
    BY <1>7 DEF Cut
  <2> QED
    BY <1>1, <1>5, <1>6, <2>1
<1>8. CASE ~(Len(ledger) > MaxThreadMsgs)
  <2>1. Cut(ledger) = 0
    BY <1>8 DEF Cut
  <2> QED
    BY <1>1, <1>5, <1>6, <2>1
<1> QED
  BY <1>7, <1>8

\* An attempt queues a send: of one that is not retried, the only one.
LEMMA PostKeepsLog ==
    ASSUME LogInv, NEW p \in Sends, Post(p)
    PROVE  LogInv'
<1>1. /\ tries' = [tries EXCEPT ![p] = @ + 1] /\ queue' = Append(queue, p)
      /\ tries[p] < IF p \in Keyed THEN MaxTries ELSE 1
      /\ UNCHANGED <<ledger, msgs, writing, accepted, fanout>>
  BY DEF Post, MayTry
<1>2. /\ queue \in Seq(Sends) /\ tries \in [Sends -> Nat] /\ tries[p] \in Nat
  BY DEF LogInv, LogTyped
<1>3. queue' \in Seq(Sends) /\ Range(queue') = Range(queue) \cup {p}
  BY <1>1, <1>2, AppendRange
<1>4. LogTyped'
  BY <1>1, <1>2, <1>3 DEF LogInv, LogTyped
<1>5. queue # <<>> => queue' # <<>> /\ Head(queue') = Head(queue)
  BY <1>1, <1>2
<1>6. Underway'
  BY <1>1, <1>5 DEF LogInv, Underway
<1>7. WaitsOnce'
  <2> SUFFICES ASSUME NEW x \in Sends \ Keyed
               PROVE  /\ tries'[x] \in {0, 1} /\ Once(queue', x)
                      /\ tries'[x] = 0 => x \notin Range(queue') /\ x \notin SendsOf(ledger')
                      /\ x \in Range(queue') /\ x \in SendsOf(ledger') => writing' # NoLine /\ writing'.send = x
    BY DEF WaitsOnce
  <2>1. /\ tries[x] \in {0, 1} /\ Once(queue, x)
        /\ tries[x] = 0 => x \notin Range(queue) /\ x \notin SendsOf(ledger)
        /\ x \in Range(queue) /\ x \in SendsOf(ledger) => writing # NoLine /\ writing.send = x
    BY DEF LogInv, WaitsOnce
  <2>2. CASE x = p
    <3>1. tries[x] = 0 /\ tries'[x] = 1
      BY <1>1, <1>2, <2>1, <2>2
    <3>2. Once(queue', x)
      BY <1>1, <1>2, <2>1, <3>1, AppendOnce
    <3> QED
      BY <1>1, <2>1, <3>1, <3>2
  <2>3. CASE x # p
    <3>1. Once(queue', x)
      BY <1>1, <1>2, <2>1, <2>3, AppendOnce
    <3> QED
      BY <1>1, <1>2, <1>3, <2>1, <2>3, <3>1
  <2> QED
    BY <2>2, <2>3
<1> QED
  BY <1>1, <1>4, <1>6, <1>7 DEF LogInv, Landed

\* The head's line is written.
LEMMA BeginKeepsLog ==
    ASSUME LogInv, BeginAppend
    PROVE  LogInv' /\ ledger' = Append(ledger, writing') /\ writing' \in Lines /\ Landed' = ledger
<1> DEFINE p == Head(queue)
           l == Line(LastSeq(msgs) + 1, Head(queue))
<1>1. /\ queue # <<>> /\ writing = NoLine /\ Dup(p) = {}
      /\ ledger' = Written(ledger, l) /\ writing' = l
      /\ UNCHANGED <<msgs, queue, tries, accepted, fanout>>
  BY DEF BeginAppend
<1>2. ledger \in Seq(Lines) /\ queue \in Seq(Sends) /\ Len(ledger) \in Nat
  BY DEF LogInv, LogTyped
<1>3. p \in Sends /\ Range(queue) = Range(Tail(queue)) \cup {p}
  BY <1>1, <1>2, TailRange
<1> HIDE DEF p
<1>4. LastSeq(msgs) = Len(ledger) /\ Landed = ledger
  BY <1>1, LandedIs
<1>5. l \in Lines /\ l.send = p /\ l.seq = Len(ledger) + 1
  BY <1>2, <1>3, <1>4 DEF Line, Lines, p
<1> HIDE DEF l
<1>6. ledger' = Append(ledger, l)
  <2>1. ledger # <<>> => Last(ledger) \in Lines
    BY <1>2, FrontOf
  <2> QED
    BY <1>1, <2>1, LineAssumption DEF Written
<1>7. /\ ledger' \in Seq(Lines) /\ ledger' # <<>> /\ Len(ledger') = Len(ledger) + 1
      /\ \A i \in 1..Len(ledger) : ledger'[i] = ledger[i]
      /\ ledger'[Len(ledger) + 1] = l
      /\ Front(ledger') = ledger /\ Last(ledger') = l
  BY <1>2, <1>5, <1>6, AppendOf
<1>8. SendsOf(ledger') = SendsOf(ledger) \cup {p} /\ Numbered(ledger')
  BY <1>2, <1>5, <1>6, AppendLine DEF LogInv
<1>9. LogTyped'
  BY <1>1, <1>5, <1>7 DEF LogInv, LogTyped
<1>10. Underway'
  BY <1>1, <1>5, <1>7 DEF Underway, p
<1>11. Landed' = ledger
  BY <1>1, <1>5, <1>7, LineAssumption DEF Landed
<1>12. Apart(ledger')
  <2> SUFFICES ASSUME NEW i \in DOMAIN ledger', NEW j \in DOMAIN ledger', i < j, ledger'[i].send = ledger'[j].send
               PROVE  j - i > MaxThreadMsgs
    BY DEF Apart
  <2>1. DOMAIN ledger' = 1..(Len(ledger) + 1) /\ DOMAIN ledger = 1..Len(ledger)
    BY <1>2, <1>7
  <2>2. i \in DOMAIN ledger /\ ledger'[i] = ledger[i]
    BY <1>2, <1>7, <2>1
  <2>3. CASE j = Len(ledger) + 1
    <3>1. ledger[i].send = p /\ p \in Range(queue)
      BY <1>3, <1>5, <1>7, <2>2, <2>3
    <3> QED
      BY <1>1, <1>3, <2>2, <2>3, <3>1, NotFoundIsApart
  <2>4. CASE j # Len(ledger) + 1
    <3>1. j \in DOMAIN ledger /\ ledger'[j] = ledger[j]
      BY <1>2, <1>7, <2>1, <2>4
    <3> QED
      BY <2>2, <3>1 DEF LogInv, Apart
  <2> QED
    BY <2>3, <2>4
<1>13. WaitsOnce'
  <2> SUFFICES ASSUME NEW x \in Sends \ Keyed
               PROVE  /\ tries'[x] \in {0, 1} /\ Once(queue', x)
                      /\ tries'[x] = 0 => x \notin Range(queue') /\ x \notin SendsOf(ledger')
                      /\ x \in Range(queue') /\ x \in SendsOf(ledger') => writing' # NoLine /\ writing'.send = x
    BY DEF WaitsOnce
  <2>1. /\ tries[x] \in {0, 1} /\ Once(queue, x)
        /\ tries[x] = 0 => x \notin Range(queue) /\ x \notin SendsOf(ledger)
        /\ ~(x \in Range(queue) /\ x \in SendsOf(ledger))
    BY <1>1 DEF LogInv, WaitsOnce
  <2> QED
    BY <1>1, <1>3, <1>5, <1>8, <2>1, LineAssumption
<1>14. accepted' \subseteq SendsOf(Landed') /\ msgs' = TailOf(Landed')
  BY <1>1, <1>4, <1>11 DEF LogInv
<1>15. LogInv'
  BY <1>8, <1>9, <1>10, <1>12, <1>13, <1>14 DEF LogInv
<1> QED
  BY <1>1, <1>5, <1>6, <1>11, <1>15

\* An answer takes the head from the queue.
LEMMA AnsweredPops ==
    ASSUME LogInv, queue # <<>>, queue' = Tail(queue), NEW p, p = Head(queue)
    PROVE  /\ p \in Sends /\ queue' \in Seq(Sends) /\ Range(queue') \subseteq Range(queue)
           /\ \A x : Once(queue, x) => Once(queue', x)
           /\ Once(queue, p) => p \notin Range(queue')
<1>1. queue \in Seq(Sends)
  BY DEF LogInv, LogTyped
<1>2. /\ Head(queue) \in Sends /\ Tail(queue) \in Seq(Sends)
      /\ Range(queue) = Range(Tail(queue)) \cup {Head(queue)}
  BY <1>1, TailRange
<1>3. \A x : Once(queue, x) => Once(Tail(queue), x) /\ (Head(queue) = x => x \notin Range(Tail(queue)))
  BY <1>1, TailOnce
<1> QED
  BY <1>2, <1>3

\* What an answer does to the wakes that wait.
LEMMA AnsweredWakes ==
    ASSUME LogInv, NEW p \in Sends, NEW n, Answered(p, n)
    PROVE  fanout' \in Seq(Sends) /\ Range(fanout) \subseteq Range(fanout') /\ (p \notin CardOnly => p \in Range(fanout'))
<1>1. fanout \in Seq(Sends) /\ fanout' = IF p \in CardOnly THEN fanout ELSE Append(fanout, p)
  BY DEF LogInv, LogTyped, Answered
<1>2. Append(fanout, p) \in Seq(Sends) /\ Range(Append(fanout, p)) = Range(fanout) \cup {p}
  BY <1>1, AppendRange
<1> QED
  BY <1>1, <1>2

\* The line has landed: the tail takes it up.
LEMMA EndKeepsLog ==
    ASSUME LogInv, EndAppend
    PROVE  LogInv' /\ Landed' = ledger
<1> DEFINE p == writing.send
<1>1. /\ writing # NoLine /\ msgs' = TailOf(Append(msgs, writing)) /\ writing' = NoLine
      /\ Answered(p, writing.seq) /\ UNCHANGED <<ledger, tries>>
  BY DEF EndAppend
<1>2. queue' = Tail(queue) /\ accepted' = accepted \cup {p}
  BY <1>1 DEF Answered
<1>3. /\ writing \in Lines /\ p \in Sends /\ Landed \in Seq(Lines) /\ ledger = Append(Landed, writing)
      /\ msgs = TailOf(Landed)
  BY <1>1, LandedIs
<1>4. queue # <<>> /\ Head(queue) = p
  BY <1>1 DEF LogInv, Underway
<1>5. fanout' \in Seq(Sends)
  BY <1>1, <1>3, AnsweredWakes
<1> HIDE DEF p
<1>6. Landed' = ledger
  BY <1>1 DEF Landed
<1>7. msgs' = TailOf(ledger)
  BY <1>1, <1>3, TailOfGrows
<1>8. SendsOf(ledger) = SendsOf(Landed) \cup {p}
  BY <1>3, AppendLine DEF p
<1>9. /\ queue' \in Seq(Sends) /\ Range(queue') \subseteq Range(queue)
      /\ \A x : Once(queue, x) => Once(queue', x)
      /\ Once(queue, p) => p \notin Range(queue')
  BY <1>2, <1>4, AnsweredPops
<1>10. ledger \in Seq(Lines)
  BY DEF LogInv, LogTyped
<1>11. LogTyped'
  <2>1. msgs' \in Seq(Lines)
    BY <1>7, <1>10, TailOfIs
  <2> QED
    BY <1>1, <1>2, <1>3, <1>5, <1>9, <2>1 DEF LogInv, LogTyped
<1>12. Underway' /\ Numbered(ledger') /\ Apart(ledger')
  BY <1>1 DEF Underway, LogInv
<1>13. msgs' = TailOf(Landed') /\ accepted' \subseteq SendsOf(Landed')
  BY <1>2, <1>6, <1>7, <1>8 DEF LogInv
<1>14. WaitsOnce'
  <2> SUFFICES ASSUME NEW x \in Sends \ Keyed
               PROVE  /\ tries'[x] \in {0, 1} /\ Once(queue', x)
                      /\ tries'[x] = 0 => x \notin Range(queue') /\ x \notin SendsOf(ledger')
                      /\ ~(x \in Range(queue') /\ x \in SendsOf(ledger'))
    BY DEF WaitsOnce
  <2>1. /\ tries[x] \in {0, 1} /\ Once(queue, x)
        /\ tries[x] = 0 => x \notin Range(queue) /\ x \notin SendsOf(ledger)
        /\ x \in Range(queue) /\ x \in SendsOf(ledger) => x = p
    BY DEF LogInv, WaitsOnce, p
  <2> QED
    BY <1>1, <1>9, <2>1
<1> QED
  BY <1>6, <1>11, <1>12, <1>13, <1>14 DEF LogInv

\* The head leaves the queue without a line: it was found, or its append threw.
LEMMA PopKeepsLog ==
    ASSUME LogInv, AnswerDup \/ AppendFails
    PROVE  LogInv' /\ Landed' = Landed
<1>1. /\ queue # <<>> /\ writing = NoLine /\ queue' = Tail(queue)
      /\ UNCHANGED <<ledger, msgs, writing, tries>>
  BY DEF AnswerDup, AppendFails, Answered
<1> DEFINE p == Head(queue)
<1>2. /\ p \in Sends /\ queue' \in Seq(Sends) /\ Range(queue') \subseteq Range(queue)
      /\ \A x : Once(queue, x) => Once(queue', x)
  BY <1>1, AnsweredPops
<1>3. accepted' \subseteq Sends /\ accepted' \subseteq SendsOf(Landed) /\ fanout' \in Seq(Sends)
  <2>1. CASE AppendFails
    BY <2>1 DEF AppendFails, LogInv, LogTyped
  <2>2. CASE AnswerDup
    <3> HIDE DEF p
    <3>1. PICK i \in Dup(p) : Answered(p, msgs[i].seq)
      BY <2>2 DEF AnswerDup, p
    <3>2. p \in SendsOf(Landed)
      BY <1>2, DupIsLanded
    <3>3. accepted' = accepted \cup {p}
      BY <3>1 DEF Answered
    <3>4. fanout' \in Seq(Sends)
      BY <1>2, <3>1, AnsweredWakes
    <3> QED
      BY <1>2, <3>2, <3>3, <3>4 DEF LogInv, LogTyped
  <2> QED
    BY <2>1, <2>2
<1>4. Landed' = Landed
  BY <1>1 DEF Landed
<1>5. LogTyped'
  BY <1>1, <1>2, <1>3 DEF LogInv, LogTyped
<1>6. WaitsOnce'
  <2> SUFFICES ASSUME NEW x \in Sends \ Keyed
               PROVE  /\ tries'[x] \in {0, 1} /\ Once(queue', x)
                      /\ tries'[x] = 0 => x \notin Range(queue') /\ x \notin SendsOf(ledger')
                      /\ ~(x \in Range(queue') /\ x \in SendsOf(ledger'))
    BY DEF WaitsOnce
  <2>1. /\ tries[x] \in {0, 1} /\ Once(queue, x)
        /\ tries[x] = 0 => x \notin Range(queue) /\ x \notin SendsOf(ledger)
        /\ ~(x \in Range(queue) /\ x \in SendsOf(ledger))
    BY <1>1 DEF LogInv, WaitsOnce
  <2> QED
    BY <1>1, <1>2, <2>1
<1> QED
  BY <1>1, <1>3, <1>4, <1>5, <1>6 DEF LogInv, Underway


\* A log without damaged lines is read whole.
LEMMA ReadableIsAll ==
    ASSUME NEW log \in Seq(Lines)
    PROVE  Readable(log) = log
<1>1. \A i \in DOMAIN log : log[i] \in Lines
  OBVIOUS
<1>2. {i \in DOMAIN log : log[i] \notin {TornLine, GarbageLine}} = DOMAIN log
  BY <1>1, LineAssumption
<1> QED
  BY <1>2, LinesAtAll DEF Readable

\* A restart finds all that landed.
LEMMA RestartKeepsLog ==
    ASSUME LogInv, "torn" \notin ThreadFaults, RestartServer
    PROVE  /\ LogInv' /\ Landed' = ledger' /\ forgotten' = Len(ledger')
           /\ "lost" \notin ThreadFaults => ledger' = ledger
<1>1. /\ ledger' \in Survivors /\ msgs' = TailOf(Readable(ledger'))
      /\ queue' = <<>> /\ writing' = NoLine /\ fanout' = <<>> /\ forgotten' = LastSeq(msgs')
      /\ UNCHANGED <<tries, accepted>>
  BY DEF RestartServer
<1>2. /\ ledger \in Seq(Lines) /\ Numbered(ledger) /\ Apart(ledger) /\ accepted \subseteq SendsOf(Landed)
  BY DEF LogInv, LogTyped
<1>3. ledger' = ledger \/ (writing # NoLine /\ ledger # <<>> /\ ledger' = Front(ledger) /\ "lost" \in ThreadFaults)
  BY <1>1 DEF Survivors
<1>4. /\ ledger' \in Seq(Lines) /\ Numbered(ledger') /\ Apart(ledger') /\ SendsOf(ledger') \subseteq SendsOf(ledger)
  BY <1>2, <1>3, DropLine
<1>5. SendsOf(Landed) \subseteq SendsOf(ledger')
  <2>1. CASE ledger' = Front(ledger) /\ writing # NoLine
    BY <2>1 DEF Landed
  <2>2. CASE ledger' = ledger
    BY <1>2, <2>2, DropLine DEF Landed, LogInv, Underway
  <2> QED
    BY <1>3, <2>1, <2>2
<1>6. Landed' = ledger'
  BY <1>1 DEF Landed
<1>7. msgs' = TailOf(ledger')
  BY <1>1, <1>4, ReadableIsAll
<1>8. \A S : <<>> \in Seq(S)
  OBVIOUS
<1>9. LogTyped'
  <2>1. msgs' \in Seq(Lines)
    BY <1>4, <1>7, TailOfIs
  <2>2. queue' \in Seq(Sends) /\ fanout' \in Seq(Sends)
    BY <1>1, <1>8
  <2> QED
    BY <1>1, <1>4, <2>1, <2>2 DEF LogInv, LogTyped
<1>10. Range(queue') = {} /\ \A x : Once(queue', x)
  <2>1. DOMAIN <<>> = {}
    OBVIOUS
  <2> QED
    BY <1>1, <2>1 DEF Range, Once
<1>11. WaitsOnce'
  <2>1. \A x \in Sends \ Keyed : tries[x] \in {0, 1} /\ (tries[x] = 0 => x \notin SendsOf(ledger))
    BY DEF LogInv, WaitsOnce
  <2> QED
    BY <1>1, <1>4, <1>10, <2>1 DEF WaitsOnce
<1>12. LogInv'
  BY <1>1, <1>2, <1>4, <1>5, <1>6, <1>7, <1>9, <1>11 DEF LogInv, Underway
<1>13. LastSeq(msgs') = Len(ledger')
  BY <1>4, <1>7, TailNumbered
<1> QED
  BY <1>1, <1>3, <1>6, <1>12, <1>13


\* What wakes and reads leave alone.
LEMMA ReadersKeepLog ==
    ASSUME LogInv,
           Wake \/ (\E s \in Sessions : TurnEnds(s) \/ Prompted(s) \/ ReadInbox(s) \/ SaveCursor(s))
             \/ UNCHANGED threadVars
    PROVE  LogInv' /\ UNCHANGED <<ledger, writing>>
<1>1. UNCHANGED <<ledger, msgs, queue, writing, tries, accepted>>
  BY DEF Wake, TurnEnds, Prompted, ReadInbox, SaveCursor, threadVars
<1>2. fanout' \in Seq(Sends)
  <2>1. fanout \in Seq(Sends)
    BY DEF LogInv, LogTyped
  <2>2. fanout # <<>> => Tail(fanout) \in Seq(Sends)
    BY <2>1, TailRange
  <2> QED
    BY <2>1, <2>2 DEF Wake, TurnEnds, Prompted, ReadInbox, SaveCursor, threadVars
<1>3. LogTyped'
  BY <1>1, <1>2 DEF LogInv, LogTyped
<1> QED
  BY <1>1, <1>3 DEF LogInv, Underway, WaitsOnce, Landed

LEMMA LogInvStep ==
    ASSUME LogInv, "torn" \notin ThreadFaults, [ThreadNext]_threadVars
    PROVE  LogInv'
<1>1. CASE \E p \in Sends : Post(p)
  BY <1>1, PostKeepsLog
<1>2. CASE BeginAppend
  BY <1>2, BeginKeepsLog
<1>3. CASE EndAppend
  BY <1>3, EndKeepsLog
<1>4. CASE AnswerDup \/ AppendFails
  BY <1>4, PopKeepsLog
<1>5. CASE Wake \/ (\E s \in Sessions : TurnEnds(s) \/ Prompted(s) \/ ReadInbox(s) \/ SaveCursor(s))
             \/ UNCHANGED threadVars
  BY <1>5, ReadersKeepLog
<1>6. CASE RestartServer
  BY <1>6, RestartKeepsLog
<1> QED
  BY <1>1, <1>2, <1>3, <1>4, <1>5, <1>6 DEF ThreadNext

\* Posts, appends that throw, retries and restarts leave the ledger counted and its tail in memory,
\* and write no send twice within the tail, if no crash tears a line: appendThreadMsg under
\* withThreadLock (app/server-delivery.ts).
THEOREM ThreadsStayTrue ==
    ASSUME "torn" \notin ThreadFaults
    PROVE  ThreadSpec => []ThreadsTrue
<1>1. LogInv => ThreadsTrue
  BY DEF LogInv, Numbered, Landed, Apart, ThreadsTrue, LogIsLedgerTail, RetriesWriteOnce
<1>2. LogInv /\ [ThreadNext]_threadVars => LogInv'
  BY LogInvStep
<1> QED
  BY <1>1, <1>2, LogInvInit, PTL DEF ThreadSpec

\* A post that was answered 200 is on disk after any restart, if no crash tears a line: the route
\* answers only after the fsync (app/routes/threads.ts).
THEOREM AnsweredPostsSurvive ==
    ASSUME "torn" \notin ThreadFaults
    PROVE  ThreadSpec => []AcceptedSurvives
<1>1. LogInv => AcceptedSurvives
  <2> SUFFICES ASSUME LogInv, NEW p \in accepted
               PROVE  \E i \in DOMAIN Readable(ledger) : Readable(ledger)[i].send = p
    BY DEF AcceptedSurvives
  <2>1. ledger \in Seq(Lines) /\ p \in SendsOf(Landed)
    BY DEF LogInv, LogTyped
  <2>2. SendsOf(Landed) \subseteq SendsOf(ledger)
    BY <2>1, DropLine DEF Landed, LogInv, Underway
  <2> QED
    BY <2>1, <2>2, ReadableIsAll DEF SendsOf
<1>2. LogInv /\ [ThreadNext]_threadVars => LogInv'
  BY LogInvStep
<1> QED
  BY <1>1, <1>2, LogInvInit, PTL DEF ThreadSpec

-----------------------------------------------------------------------------
(***************************************************************************)
(* Cursors.  A restart takes a session back to the cursor it saved, so     *)
(* that one must be earned as well: it may even be ahead, when a read from *)
(* disk saw a line that had not landed and the next came from memory.  And *)
(* no cursor is ahead of the ledger, or the next line would be behind it   *)
(* unseen.                                                                 *)
(***************************************************************************)
CursorTyped ==
    /\ read \in [Sessions -> Nat] /\ saved \in [Sessions -> Nat] /\ served \in [Sessions -> SUBSET Lines]

\* What session s may have passed when its cursor stands at n.
Earned(s, n) ==
    /\ n <= Len(ledger)
    /\ \A i \in DOMAIN ledger :
           i <= n /\ Author[ledger[i].send] # s /\ ledger[i].send \notin CardOnly => ledger[i] \in served[s]

CursorInv ==
    /\ CursorTyped
    /\ \A s \in Sessions : Earned(s, read[s]) /\ Earned(s, saved[s])

LEMMA CursorInvInit == ThreadInit => CursorInv
<1> SUFFICES ASSUME ThreadInit PROVE CursorInv
  OBVIOUS
<1>1. ledger = <<>> /\ read = [s \in Sessions |-> 0] /\ saved = read /\ served = [s \in Sessions |-> {}]
  BY DEF ThreadInit
<1>2. DOMAIN <<>> = {} /\ Len(<<>>) = 0
  OBVIOUS
<1> QED
  BY <1>1, <1>2 DEF CursorInv, CursorTyped, Earned

\* An answer moves the author's cursor over its own line, and only when nothing else is unread.
LEMMA AnsweredKeepsCursors ==
    ASSUME LogInv, CursorInv, NEW p \in Sends, NEW n \in DOMAIN ledger, ledger[n].send = p, Answered(p, n),
           UNCHANGED <<ledger, saved, served>>
    PROVE  CursorInv' /\ read' \in [Sessions -> Nat] /\ \A s \in Sessions : read[s] <= read'[s]
<1>0. ledger \in Seq(Lines) /\ DOMAIN ledger = 1..Len(ledger) /\ Len(ledger) \in Nat /\ n \in Nat \ {0} /\ n <= Len(ledger)
  BY DEF LogInv, LogTyped
<1>1. CursorTyped /\ \A s \in Sessions : Earned(s, read[s]) /\ Earned(s, saved[s])
  BY DEF CursorInv
<1>2. CASE Author[p] \in Sessions /\ p \notin CardOnly
  <2> DEFINE a == Author[p]
  <2>1. read' = [read EXCEPT ![a] = SenderCursor(read[a], n)] /\ a \in Sessions
    BY <1>2 DEF Answered
  <2> HIDE DEF a
  <2>2. read[a] \in Nat /\ SenderCursor(read[a], n) \in Nat /\ read[a] <= SenderCursor(read[a], n)
    BY <1>0, <1>1, <2>1 DEF CursorTyped, SenderCursor
  <2>3. /\ read' \in [Sessions -> Nat] /\ read'[a] = SenderCursor(read[a], n)
        /\ \A s \in Sessions : s # a => read'[s] = read[s]
    BY <1>1, <2>1, <2>2 DEF CursorTyped
  <2>4. \A s \in Sessions : read[s] <= read'[s]
    BY <1>1, <2>2, <2>3 DEF CursorTyped
  <2>5. \A s \in Sessions : Earned(s, saved[s])'
    BY <1>1 DEF Earned
  <2>6. ASSUME NEW s \in Sessions PROVE Earned(s, read[s])'
    <3>1. CASE s # a \/ read'[s] = read[s]
      BY <1>1, <2>3, <3>1 DEF Earned
    <3>2. CASE s = a /\ read'[s] # read[s]
      <4>1. read[s] = n - 1 /\ read'[s] = n
        BY <2>3, <3>2 DEF SenderCursor
      <4>2. Earned(s, read[s]) /\ Author[ledger[n].send] = s
        BY <1>1, <3>2 DEF a
      <4>3. \A i \in DOMAIN ledger : i <= n => i = n \/ i <= n - 1
        BY <1>0
      <4> QED
        BY <1>0, <4>1, <4>2, <4>3 DEF Earned
    <3> QED
      BY <3>1, <3>2
  <2> QED
    BY <1>1, <2>3, <2>4, <2>5, <2>6 DEF CursorInv, CursorTyped
<1>3. CASE ~(Author[p] \in Sessions /\ p \notin CardOnly)
  <2>1. read' = read
    BY <1>3 DEF Answered
  <2>2. \A s \in Sessions : read[s] <= read[s]
    BY <1>1 DEF CursorTyped
  <2> QED
    BY <1>1, <2>1, <2>2 DEF CursorInv, CursorTyped, Earned
<1> QED
  BY <1>2, <1>3


\* What a consuming read serves from has every line between the cursor and its own last line.
LEMMA BacklogCovers ==
    ASSUME LogInv, CursorTyped, NEW s \in Sessions, Backlog(s) # <<>>
    PROVE  /\ Backlog(s) \in Seq(Lines) /\ LastSeq(Backlog(s)) \in Nat
           /\ LastSeq(Backlog(s)) <= Len(ledger) /\ Len(Landed) <= LastSeq(Backlog(s))
           /\ \A i \in DOMAIN ledger :
                  read[s] < i /\ i <= LastSeq(Backlog(s)) => \E j \in DOMAIN Backlog(s) : Backlog(s)[j] = ledger[i]
<1>1. /\ ledger \in Seq(Lines) /\ Numbered(ledger) /\ read[s] \in Nat /\ msgs \in Seq(Lines)
      /\ DOMAIN ledger = 1..Len(ledger) /\ Len(ledger) \in Nat
  BY DEF LogInv, LogTyped, CursorTyped
<1>2. /\ Landed \in Seq(Lines) /\ Numbered(Landed) /\ Len(Landed) \in Nat /\ DOMAIN Landed = 1..Len(Landed)
      /\ LastSeq(msgs) = Len(Landed) /\ Cut(Landed) \in Nat
      /\ DOMAIN msgs = 1..(Len(Landed) - Cut(Landed))
      /\ \A i \in DOMAIN msgs : msgs[i] = Landed[i + Cut(Landed)] /\ msgs[i].seq = i + Cut(Landed)
  BY LandedIs
<1>3. Len(Landed) <= Len(ledger) /\ \A i \in 1..Len(Landed) : ledger[i] = Landed[i]
  <2>1. CASE writing = NoLine
    BY <1>1, <2>1, LandedIs
  <2>2. CASE writing # NoLine
    <3>1. ledger = Append(Landed, writing) /\ writing \in Lines
      BY <2>2, LandedIs
    <3> HIDE DEF Landed
    <3> QED
      BY <1>2, <3>1, AppendOf
  <2> QED
    BY <2>1, <2>2
<1>4. CASE msgs # <<>> /\ Head(msgs).seq > read[s] + 1
  <2>1. Backlog(s) = ledger /\ ledger # <<>>
    BY <1>1, <1>4, ReadableIsAll DEF Backlog
  <2>2. LastSeq(ledger) = Len(ledger)
    <3>1. Last(ledger) = ledger[Len(ledger)] /\ Len(ledger) \in Nat \ {0}
      BY <1>1, <2>1, FrontOf
    <3>2. Len(ledger) \in DOMAIN ledger
      BY <1>1, <3>1
    <3> QED
      BY <1>1, <2>1, <3>1, <3>2 DEF LastSeq, Numbered
  <2> QED
    BY <1>1, <1>3, <2>1, <2>2
<1>5. CASE ~(msgs # <<>> /\ Head(msgs).seq > read[s] + 1)
  <2>1. Backlog(s) = msgs /\ msgs # <<>>
    BY <1>5 DEF Backlog
  <2>2. 1 \in DOMAIN msgs /\ Head(msgs) = msgs[1]
    <3>1. Len(msgs) # 0 /\ DOMAIN msgs = 1..Len(msgs) /\ Len(msgs) \in Nat
      BY <1>1, <2>1
    <3> QED
      BY <1>1, <2>1, <3>1
  <2>3. 1 + Cut(Landed) <= read[s] + 1
    BY <1>1, <1>2, <1>5, <2>1, <2>2
  <2>4. ASSUME NEW i \in DOMAIN ledger, read[s] < i, i <= Len(Landed)
        PROVE  \E j \in DOMAIN msgs : msgs[j] = ledger[i]
    <3>1. i - Cut(Landed) \in DOMAIN msgs /\ i - Cut(Landed) + Cut(Landed) = i /\ i \in 1..Len(Landed)
      BY <1>1, <1>2, <2>3, <2>4
    <3>2. msgs[i - Cut(Landed)] = ledger[i]
      BY <1>2, <1>3, <3>1
    <3> QED
      BY <3>1, <3>2
  <2> QED
    BY <1>1, <1>2, <1>3, <2>1, <2>4
<1> QED
  BY <1>4, <1>5

\* A consuming read earns what its cursor passes.
LEMMA ReadKeepsCursors ==
    ASSUME LogInv, CursorInv, NEW s \in Sessions, ReadInbox(s)
    PROVE  CursorInv'
<1> DEFINE log == Backlog(s)
           new == {log[i] : i \in {j \in DOMAIN log : log[j].seq > read[s] /\ log[j].send \notin CardOnly}}
           n == LastSeq(log)
<1>1. /\ log # <<>> /\ served' = [served EXCEPT ![s] = @ \cup new] /\ read' = [read EXCEPT ![s] = n]
      /\ UNCHANGED <<ledger, saved>>
  BY DEF ReadInbox
<1>2. CursorTyped /\ \A x \in Sessions : Earned(x, read[x]) /\ Earned(x, saved[x])
  BY DEF CursorInv
<1>3. /\ log \in Seq(Lines) /\ n \in Nat /\ n <= Len(ledger)
      /\ \A i \in DOMAIN ledger : read[s] < i /\ i <= n => \E j \in DOMAIN log : log[j] = ledger[i]
  BY <1>1, <1>2, BacklogCovers
<1> HIDE DEF log, n
<1>4. new \subseteq Lines
  BY <1>3
<1>5. /\ DOMAIN ledger = 1..Len(ledger) /\ Len(ledger) \in Nat /\ Numbered(ledger) /\ read[s] \in Nat
  BY <1>2 DEF LogInv, LogTyped, CursorTyped
<1>6. ASSUME NEW i \in DOMAIN ledger, read[s] < i, i <= n, ledger[i].send \notin CardOnly
      PROVE  ledger[i] \in new
  <2>1. PICK j \in DOMAIN log : log[j] = ledger[i]
    BY <1>3, <1>6
  <2>2. log[j].seq > read[s]
    BY <1>5, <1>6, <2>1 DEF Numbered
  <2> QED
    BY <1>6, <2>1, <2>2
<1> HIDE DEF new
<1>7. /\ read' \in [Sessions -> Nat] /\ read'[s] = n /\ \A x \in Sessions : x # s => read'[x] = read[x]
      /\ served' \in [Sessions -> SUBSET Lines] /\ served'[s] = served[s] \cup new
      /\ \A x \in Sessions : x # s => served'[x] = served[x]
  BY <1>1, <1>2, <1>3, <1>4 DEF CursorTyped
<1>8. CursorTyped'
  BY <1>1, <1>2, <1>7 DEF CursorTyped
<1>9. \A x \in Sessions : served[x] \subseteq served'[x]
  BY <1>7
<1>10. ASSUME NEW x \in Sessions PROVE Earned(x, read[x])' /\ Earned(x, saved[x])'
  <2>1. Earned(x, saved[x])'
    BY <1>1, <1>2, <1>9 DEF Earned
  <2>2. CASE x # s
    BY <1>1, <1>2, <1>7, <1>9, <2>1, <2>2 DEF Earned
  <2>3. CASE x = s
    <3>1. ASSUME NEW i \in DOMAIN ledger, i <= n, Author[ledger[i].send] # s, ledger[i].send \notin CardOnly
          PROVE  ledger[i] \in served'[s]
      <4>1. CASE i <= read[s]
        BY <1>2, <1>9, <3>1, <4>1 DEF Earned
      <4>2. CASE ~(i <= read[s])
        <5>1. read[s] < i
          BY <1>5, <4>2
        <5> QED
          BY <1>6, <1>7, <3>1, <5>1
      <4> QED
        BY <4>1, <4>2
    <3>2. Earned(x, read[x])'
      BY <1>1, <1>3, <1>7, <2>3, <3>1 DEF Earned
    <3> QED
      BY <2>1, <3>2
  <2> QED
    BY <2>2, <2>3
<1> QED
  BY <1>8, <1>10 DEF CursorInv

LEMMA CursorInvStep ==
    ASSUME LogInv, CursorInv, "torn" \notin ThreadFaults, "lost" \notin ThreadFaults, [ThreadNext]_threadVars
    PROVE  CursorInv'
<1>0. /\ CursorTyped /\ \A s \in Sessions : Earned(s, read[s]) /\ Earned(s, saved[s])
      /\ ledger \in Seq(Lines) /\ DOMAIN ledger = 1..Len(ledger) /\ Len(ledger) \in Nat
  BY DEF CursorInv, LogInv, LogTyped
<1>1. CASE UNCHANGED <<ledger, read, saved, served>>
  BY <1>0, <1>1 DEF CursorInv, CursorTyped, Earned
<1>2. CASE \E p \in Sends : Post(p)
  BY <1>1, <1>2 DEF Post, history
<1>3. CASE AppendFails \/ Wake \/ (\E s \in Sessions : TurnEnds(s) \/ Prompted(s)) \/ UNCHANGED threadVars
  BY <1>1, <1>3 DEF AppendFails, Wake, TurnEnds, Prompted, history, threadVars
<1>4. CASE BeginAppend
  <2>1. ledger' = Append(ledger, writing') /\ writing' \in Lines
    BY <1>4, BeginKeepsLog
  <2>2. UNCHANGED <<read, saved, served>>
    BY <1>4 DEF BeginAppend, history
  <2>3. /\ ledger' \in Seq(Lines) /\ Len(ledger') = Len(ledger) + 1
        /\ \A i \in 1..Len(ledger) : ledger'[i] = ledger[i]
    BY <1>0, <2>1, AppendOf
  <2>4. ASSUME NEW s \in Sessions, NEW n \in Nat, Earned(s, n)
        PROVE  /\ n <= Len(ledger')
               /\ \A i \in DOMAIN ledger' :
                      i <= n /\ Author[ledger'[i].send] # s /\ ledger'[i].send \notin CardOnly => ledger'[i] \in served[s]
    <3>1. n <= Len(ledger) /\ DOMAIN ledger' = 1..(Len(ledger) + 1)
      BY <2>3, <2>4 DEF Earned
    <3>2. \A i \in DOMAIN ledger' : i <= n => i \in DOMAIN ledger /\ ledger'[i] = ledger[i]
      BY <1>0, <2>3, <3>1
    <3> QED
      BY <1>0, <2>3, <2>4, <3>1, <3>2 DEF Earned
  <2>5. \A s \in Sessions : Earned(s, read[s])' /\ Earned(s, saved[s])'
    BY <1>0, <2>2, <2>4 DEF CursorTyped, Earned
  <2> QED
    BY <1>0, <2>2, <2>5 DEF CursorInv, CursorTyped
<1>5. CASE EndAppend
  <2>1. /\ writing # NoLine /\ Answered(writing.send, writing.seq) /\ UNCHANGED <<ledger, saved, served>>
    BY <1>5 DEF EndAppend, history
  <2>2. /\ writing \in Lines /\ writing.send \in Sends /\ ledger = Append(Landed, writing)
        /\ writing.seq = Len(Landed) + 1 /\ Landed \in Seq(Lines)
    BY <2>1, LandedIs
  <2>3. writing.seq \in DOMAIN ledger /\ ledger[writing.seq] = writing
    <3> HIDE DEF Landed
    <3>1. Len(ledger) = Len(Landed) + 1 /\ Len(Landed) \in Nat /\ ledger[Len(Landed) + 1] = writing
      BY <2>2, AppendOf
    <3> QED
      BY <1>0, <2>2, <3>1
  <2> QED
    BY <2>1, <2>2, <2>3, AnsweredKeepsCursors
<1>6. CASE AnswerDup
  <2> DEFINE p == Head(queue)
  <2>1. queue # <<>> /\ writing = NoLine /\ UNCHANGED <<ledger, saved, served>>
    BY <1>6 DEF AnswerDup, history
  <2>2. p \in Sends
    BY <2>1, TailRange DEF LogInv, LogTyped
  <2>3. PICK i \in Dup(p) : Answered(p, msgs[i].seq)
    BY <1>6 DEF AnswerDup
  <2> HIDE DEF p
  <2>4. msgs[i].seq \in DOMAIN ledger /\ ledger[msgs[i].seq].send = p
    BY <2>1, <2>2, DupIsLanded, LandedIs
  <2> QED
    BY <2>1, <2>2, <2>3, <2>4, AnsweredKeepsCursors
<1>7. CASE \E s \in Sessions : ReadInbox(s)
  BY <1>7, ReadKeepsCursors
<1>8. CASE \E s \in Sessions : SaveCursor(s)
  <2>1. PICK s \in Sessions : SaveCursor(s)
    BY <1>8
  <2>2. saved' = [saved EXCEPT ![s] = read[s]] /\ UNCHANGED <<ledger, read, served>>
    BY <2>1 DEF SaveCursor, history
  <2>3. /\ saved' \in [Sessions -> Nat]
        /\ \A x \in Sessions : saved'[x] = saved[x] \/ saved'[x] = read[x]
    BY <1>0, <2>2 DEF CursorTyped
  <2>4. \A x \in Sessions : Earned(x, read[x])' /\ Earned(x, saved[x])'
    BY <1>0, <2>2, <2>3 DEF Earned
  <2> QED
    BY <1>0, <2>2, <2>3, <2>4 DEF CursorInv, CursorTyped
<1>9. CASE RestartServer
  <2>1. ledger' = ledger
    BY <1>9, RestartKeepsLog
  <2>2. read' = saved /\ UNCHANGED <<saved, served>>
    BY <1>9 DEF RestartServer
  <2> QED
    BY <1>0, <2>1, <2>2 DEF CursorInv, CursorTyped, Earned
<1> QED
  BY <1>2, <1>3, <1>4, <1>5, <1>6, <1>7, <1>8, <1>9 DEF ThreadNext


-----------------------------------------------------------------------------
(***************************************************************************)
(* Mentions.  A wake, a turn's end and a read each settle all a session    *)
(* has in the tail at once: it is told of the newest line, or has none     *)
(* unread, or its cursor stands there.                                     *)
(***************************************************************************)
MentionTyped == told \in [Sessions -> Nat] /\ nudge \in [Sessions -> BOOLEAN] /\ forgotten \in Nat

\* Session s has read the line, was told of it or will be, or need not be.
Reaches(m, s) ==
    \/ m.seq <= forgotten \/ m.seq <= read[s] \/ m.seq <= told[s]
    \/ m.send \in CardOnly \/ nudge[s] \/ m.send \in Range(fanout)

Mentioned(m) == Tagged[m.send] \ {Author[m.send]}

MentionInv ==
    /\ MentionTyped
    /\ \A m \in Range(msgs) : \A s \in Mentioned(m) : Reaches(m, s)

LEMMA MentionInvInit == ThreadInit => MentionInv
<1> SUFFICES ASSUME ThreadInit PROVE MentionInv
  OBVIOUS
<1>1. msgs = <<>> /\ told = [s \in Sessions |-> 0] /\ nudge = [s \in Sessions |-> FALSE] /\ forgotten = 0
  BY DEF ThreadInit
<1>2. DOMAIN <<>> = {}
  OBVIOUS
<1> QED
  BY <1>1, <1>2 DEF MentionInv, MentionTyped, Range

\* A line of the tail, and who it mentions.
LEMMA TailLines ==
    ASSUME LogInv, NEW m \in Range(msgs)
    PROVE  m \in Lines /\ m.seq \in Nat /\ m.seq <= LastSeq(msgs) /\ LastSeq(msgs) \in Nat /\ Mentioned(m) \subseteq Sessions
<1>1. PICK i \in DOMAIN msgs : m = msgs[i]
  BY DEF Range
<1>2. /\ Landed \in Seq(Lines) /\ Len(Landed) \in Nat /\ LastSeq(msgs) = Len(Landed) /\ Cut(Landed) \in Nat
      /\ i + Cut(Landed) \in DOMAIN Landed /\ msgs[i].seq = i + Cut(Landed) /\ DOMAIN Landed = 1..Len(Landed)
  BY LandedIs
<1>3. m \in Lines
  BY <1>1 DEF LogInv, LogTyped
<1>4. m.seq \in Nat /\ m.seq <= Len(Landed)
  BY <1>1, <1>2
<1>5. Tagged[m.send] \subseteq Sessions
  BY <1>3, LinesAre, ThreadAssumption
<1> QED
  BY <1>2, <1>3, <1>4, <1>5 DEF Mentioned

\* Cursors and fan-out that only grow keep what was reached.
LEMMA MentionsGrow ==
    ASSUME LogInv, CursorTyped, MentionInv, UNCHANGED <<msgs, told, nudge, forgotten>>,
           read' \in [Sessions -> Nat], \A s \in Sessions : read[s] <= read'[s],
           Range(fanout) \subseteq Range(fanout')
    PROVE  MentionInv'
<1> SUFFICES ASSUME NEW m \in Range(msgs), NEW s \in Mentioned(m)
             PROVE  Reaches(m, s)'
  BY DEF MentionInv, MentionTyped, Mentioned
<1>1. m.seq \in Nat /\ s \in Sessions
  BY TailLines
<1>2. Reaches(m, s) /\ read[s] \in Nat /\ read'[s] \in Nat /\ read[s] <= read'[s]
  BY <1>1 DEF MentionInv, CursorTyped
<1>3. m.seq <= read[s] => m.seq <= read'[s]
  BY <1>1, <1>2
<1> QED
  BY <1>2, <1>3 DEF Reaches

\* What landed last is in the tail, with lines that were there.
LEMMA TailTakesUp ==
    ASSUME NEW log \in Seq(Lines), NEW l \in Lines
    PROVE  Range(TailOf(Append(log, l))) \subseteq Range(TailOf(log)) \cup {l}
<1> DEFINE s == TailOf(log)
           t == Append(s, l)
<1>1. s \in Seq(Lines)
  BY TailOfIs
<1>2. TailOf(Append(log, l)) = TailOf(t)
  BY TailOfGrows
<1>3. t \in Seq(Lines) /\ Range(t) = Range(s) \cup {l}
  <2> HIDE DEF s
  <2> QED
    BY <1>1, AppendRange
<1> HIDE DEF t
<1>4. Range(TailOf(t)) \subseteq Range(t)
  <2>1. /\ TailOf(t) \in Seq(Lines) /\ Len(TailOf(t)) = Len(t) - Cut(t)
        /\ \A k \in 1..(Len(t) - Cut(t)) : k + Cut(t) \in 1..Len(t) /\ TailOf(t)[k] = t[k + Cut(t)]
    BY <1>3, TailOfIs
  <2>2. DOMAIN TailOf(t) = 1..(Len(t) - Cut(t)) /\ DOMAIN t = 1..Len(t)
    BY <1>3, <2>1
  <2> QED
    BY <2>1, <2>2 DEF Range
<1> QED
  BY <1>2, <1>3, <1>4 DEF s

\* A session with nothing unread, or told of the newest line, is reached by all.
LEMMA SettledAreReached ==
    ASSUME LogInv, NEW m \in Range(msgs), NEW s \in Sessions, Unread(s) = {}
    PROVE  m.seq <= read[s] \/ m.send \in CardOnly \/ read[s] \notin Nat
<1>1. PICK i \in DOMAIN msgs : m = msgs[i]
  BY DEF Range
<1>2. ~(msgs[i].seq > read[s]) \/ msgs[i].send \in CardOnly
  BY DEF Unread
<1>3. m.seq \in Nat
  BY TailLines
<1> QED
  BY <1>1, <1>2, <1>3

LEMMA WakeReaches ==
    ASSUME LogInv, CursorTyped, MentionInv, Wake
    PROVE  MentionInv'
<1> DEFINE p == Head(fanout)
           woken == Woken(p)
           flushed == woken \ busy
           prompted == {s \in flushed : Unread(s) # {}}
<1>1. /\ fanout # <<>> /\ fanout' = Tail(fanout)
      /\ nudge' = [s \in Sessions |-> IF s \in woken THEN s \in busy ELSE nudge[s]]
      /\ told' = [s \in Sessions |-> IF s \in prompted THEN LastSeq(msgs) ELSE told[s]]
      /\ UNCHANGED <<msgs, read, forgotten>>
  BY DEF Wake, Flush
<1>2. fanout \in Seq(Sends) /\ MentionTyped
  BY DEF LogInv, LogTyped, MentionInv
<1>3. p \in Sends /\ Range(fanout) = Range(fanout') \cup {p}
  BY <1>1, <1>2, TailRange
<1>4. LastSeq(msgs) \in Nat
  BY LandedIs
<1> HIDE DEF p, flushed, prompted, woken
<1>5. MentionTyped'
  <2>1. \A s \in Sessions : told[s] \in Nat /\ nudge[s] \in BOOLEAN
    BY <1>2 DEF MentionTyped
  <2>2. told' \in [Sessions -> Nat]
    BY <1>1, <1>4, <2>1
  <2>3. ASSUME NEW s \in Sessions
        PROVE  (IF s \in woken THEN s \in busy ELSE nudge[s]) \in BOOLEAN
    <3>1. (s \in busy) \in BOOLEAN
      OBVIOUS
    <3>2. nudge[s] \in BOOLEAN
      BY <2>1
    <3>3. CASE s \in woken
      BY <3>1, <3>3, Zenon
    <3>4. CASE s \notin woken
      BY <3>2, <3>4, Zenon
    <3> QED
      BY <3>3, <3>4, Zenon
  <2>4. nudge' \in [Sessions -> BOOLEAN]
    BY <1>1, <2>3, Zenon
  <2> QED
    BY <1>1, <1>2, <2>2, <2>4 DEF MentionTyped
<1>6. ASSUME NEW m \in Range(msgs), NEW s \in Mentioned(m)
      PROVE  Reaches(m, s)'
  <2>1. m.seq \in Nat /\ m.seq <= LastSeq(msgs) /\ s \in Sessions /\ read[s] \in Nat /\ Reaches(m, s)
    BY TailLines DEF MentionInv, CursorTyped
  <2>2. CASE s \in flushed
    <3>1. CASE Unread(s) # {}
      <4>1. told'[s] = LastSeq(msgs)
        BY <1>1, <2>1, <2>2, <3>1 DEF prompted
      <4> QED
        BY <2>1, <4>1 DEF Reaches
    <3>2. CASE Unread(s) = {}
      BY <1>1, <2>1, <3>2, SettledAreReached DEF Reaches
    <3> QED
      BY <3>1, <3>2
  <2>3. CASE s \in woken /\ s \in busy
    BY <1>1, <2>1, <2>3 DEF Reaches
  <2>4. CASE s \notin woken
    <3>1. m.send # p
      <4>1. m.send = p => s \in woken
        BY <2>1 DEF Mentioned, Woken, woken
      <4> QED
        BY <2>4, <4>1
    <3>2. nudge'[s] = nudge[s] /\ told'[s] = told[s]
      BY <1>1, <2>1, <2>4 DEF prompted, flushed
    <3> QED
      BY <1>1, <1>3, <2>1, <3>1, <3>2 DEF Reaches
  <2> QED
    BY <2>2, <2>3, <2>4 DEF flushed
<1> QED
  BY <1>1, <1>5, <1>6 DEF MentionInv, Mentioned

LEMMA TurnEndReaches ==
    ASSUME LogInv, CursorTyped, MentionInv, NEW s \in Sessions, TurnEnds(s)
    PROVE  MentionInv'
<1> DEFINE prompted == nudge[s] /\ Unread(s) # {}
<1>1. /\ nudge' = [nudge EXCEPT ![s] = FALSE]
      /\ told' = IF prompted THEN [told EXCEPT ![s] = LastSeq(msgs)] ELSE told
      /\ UNCHANGED <<msgs, read, fanout, forgotten>>
  BY DEF TurnEnds
<1>2. MentionTyped /\ LastSeq(msgs) \in Nat
  BY LandedIs DEF MentionInv
<1>3. MentionTyped'
  BY <1>1, <1>2 DEF MentionTyped
<1>4. ASSUME NEW m \in Range(msgs), NEW x \in Mentioned(m)
      PROVE  Reaches(m, x)'
  <2>1. m.seq \in Nat /\ m.seq <= LastSeq(msgs) /\ x \in Sessions /\ read[x] \in Nat /\ Reaches(m, x)
    BY TailLines DEF MentionInv, CursorTyped
  <2>2. CASE x # s
    <3>1. nudge'[x] = nudge[x] /\ told'[x] = told[x]
      BY <1>1, <1>2, <2>1, <2>2 DEF MentionTyped
    <3> QED
      BY <1>1, <2>1, <3>1 DEF Reaches
  <2>3. CASE x = s /\ prompted
    <3>1. told'[x] = LastSeq(msgs)
      BY <1>1, <1>2, <2>1, <2>3 DEF MentionTyped
    <3> QED
      BY <2>1, <3>1 DEF Reaches
  <2>4. CASE x = s /\ ~prompted
    <3>1. told' = told
      BY <1>1, <2>4
    <3>2. CASE nudge[s]
      <4>1. Unread(s) = {}
        BY <2>4, <3>2
      <4> QED
        BY <1>1, <2>1, <2>4, <4>1, SettledAreReached DEF Reaches
    <3>3. CASE ~nudge[s]
      BY <1>1, <2>1, <2>4, <3>1, <3>3 DEF Reaches
    <3> QED
      BY <3>2, <3>3
  <2> QED
    BY <2>2, <2>3, <2>4
<1> QED
  BY <1>1, <1>3, <1>4 DEF MentionInv, Mentioned

LEMMA MentionInvStep ==
    ASSUME LogInv, CursorInv, MentionInv, "torn" \notin ThreadFaults, [ThreadNext]_threadVars, LogInv'
    PROVE  MentionInv'
<1>0. /\ CursorTyped /\ MentionTyped /\ read \in [Sessions -> Nat]
      /\ \A s \in Sessions : read[s] <= read[s]
  BY DEF CursorInv, CursorTyped, MentionInv
<1>1. CASE UNCHANGED <<msgs, told, nudge, forgotten, read, fanout>>
  BY <1>0, <1>1, MentionsGrow
<1>2. CASE \/ \E p \in Sends : Post(p)
           \/ BeginAppend \/ AppendFails
           \/ \E s \in Sessions : Prompted(s) \/ SaveCursor(s)
           \/ UNCHANGED threadVars
  BY <1>1, <1>2 DEF Post, BeginAppend, AppendFails, Prompted, SaveCursor, history, threadVars
<1>3. ASSUME NEW p \in Sends, NEW n \in DOMAIN ledger, ledger[n].send = p, Answered(p, n),
             UNCHANGED <<ledger, saved, served>>
      PROVE  /\ read' \in [Sessions -> Nat] /\ \A s \in Sessions : read[s] <= read'[s]
             /\ Range(fanout) \subseteq Range(fanout') /\ (p \notin CardOnly => p \in Range(fanout'))
  BY <1>3, AnsweredKeepsCursors, AnsweredWakes
<1>4. CASE EndAppend
  <2>1. /\ writing # NoLine /\ Answered(writing.send, writing.seq) /\ msgs' = TailOf(Append(msgs, writing))
        /\ UNCHANGED <<ledger, saved, served, told, nudge, forgotten>>
    BY <1>4 DEF EndAppend, history
  <2>2. /\ writing \in Lines /\ writing.send \in Sends /\ ledger = Append(Landed, writing)
        /\ writing.seq = Len(Landed) + 1 /\ Landed \in Seq(Lines) /\ msgs = TailOf(Landed)
        /\ ledger \in Seq(Lines)
    BY <2>1, LandedIs DEF LogInv, LogTyped
  <2>3. writing.seq \in DOMAIN ledger /\ ledger[writing.seq] = writing
    <3> HIDE DEF Landed
    <3>1. Len(ledger) = Len(Landed) + 1 /\ Len(Landed) \in Nat /\ ledger[Len(Landed) + 1] = writing
      BY <2>2, AppendOf
    <3> QED
      BY <2>2, <3>1
  <2>4. /\ read' \in [Sessions -> Nat] /\ \A s \in Sessions : read[s] <= read'[s]
        /\ Range(fanout) \subseteq Range(fanout')
        /\ writing.send \notin CardOnly => writing.send \in Range(fanout')
    BY <1>3, <2>1, <2>2, <2>3
  <2>5. PICK l : l = writing
    OBVIOUS
  <2>6. Range(msgs') \subseteq Range(msgs) \cup {l}
    <3>1. msgs' = TailOf(Append(Landed, writing))
      BY <2>1, <2>2, TailOfGrows
    <3> QED
      BY <2>2, <2>5, <3>1, TailTakesUp
  <2>7. ASSUME NEW m \in Range(msgs), NEW s \in Mentioned(m) PROVE Reaches(m, s)'
    <3>1. m.seq \in Nat /\ s \in Sessions
      BY TailLines
    <3>2. Reaches(m, s) /\ read[s] \in Nat /\ read'[s] \in Nat /\ read[s] <= read'[s]
      BY <1>0, <2>4, <3>1 DEF MentionInv
    <3>3. m.seq <= read[s] => m.seq <= read'[s]
      BY <3>1, <3>2
    <3> QED
      BY <2>1, <2>4, <3>2, <3>3 DEF Reaches
  <2>8. ASSUME NEW s \in Mentioned(l) PROVE Reaches(l, s)'
    BY <2>4, <2>5 DEF Reaches
  <2>9. \A m \in Range(msgs') : \A s \in Mentioned(m) : Reaches(m, s)'
    BY <2>6, <2>7, <2>8
  <2>10. MentionTyped'
    BY <1>0, <2>1 DEF MentionTyped
  <2> QED
    BY <2>9, <2>10 DEF MentionInv, Mentioned
<1>5. CASE AnswerDup
  <2> DEFINE p == Head(queue)
  <2>1. queue # <<>> /\ writing = NoLine /\ UNCHANGED <<ledger, msgs, saved, served, told, nudge, forgotten>>
    BY <1>5 DEF AnswerDup, history
  <2>2. p \in Sends
    BY <2>1, TailRange DEF LogInv, LogTyped
  <2>3. PICK i \in Dup(p) : Answered(p, msgs[i].seq)
    BY <1>5 DEF AnswerDup
  <2> HIDE DEF p
  <2>4. msgs[i].seq \in DOMAIN ledger /\ ledger[msgs[i].seq].send = p
    BY <2>1, <2>2, DupIsLanded, LandedIs
  <2>5. /\ read' \in [Sessions -> Nat] /\ \A s \in Sessions : read[s] <= read'[s]
        /\ Range(fanout) \subseteq Range(fanout')
    BY <1>3, <2>1, <2>2, <2>3, <2>4
  <2> QED
    BY <1>0, <2>1, <2>5, MentionsGrow
<1>6. CASE Wake
  BY <1>0, <1>6, WakeReaches
<1>7. CASE \E s \in Sessions : TurnEnds(s)
  BY <1>0, <1>7, TurnEndReaches
<1>8. CASE \E s \in Sessions : ReadInbox(s)
  <2>1. PICK s \in Sessions : ReadInbox(s)
    BY <1>8
  <2> DEFINE n == LastSeq(Backlog(s))
  <2>2. /\ Backlog(s) # <<>> /\ read' = [read EXCEPT ![s] = n]
        /\ UNCHANGED <<msgs, told, nudge, forgotten, fanout>>
    BY <2>1 DEF ReadInbox
  <2>3. n \in Nat /\ Len(Landed) <= n
    BY <1>0, <2>2, BacklogCovers
  <2> HIDE DEF n
  <2>4. LastSeq(msgs) = Len(Landed) /\ Len(Landed) \in Nat
    BY LandedIs
  <2>5. ASSUME NEW m \in Range(msgs), NEW x \in Mentioned(m) PROVE Reaches(m, x)'
    <3>1. m.seq \in Nat /\ x \in Sessions /\ m.seq <= LastSeq(msgs) /\ Reaches(m, x)
      BY TailLines DEF MentionInv
    <3>2. CASE x = s
      <4>1. read'[x] = n /\ m.seq <= n
        BY <1>0, <2>2, <2>3, <2>4, <3>1, <3>2
      <4> QED
        BY <4>1 DEF Reaches
    <3>3. CASE x # s
      <4>1. read'[x] = read[x]
        BY <1>0, <2>2, <3>1, <3>3
      <4> QED
        BY <2>2, <3>1, <4>1 DEF Reaches
    <3> QED
      BY <3>2, <3>3
  <2> QED
    BY <1>0, <2>2, <2>5 DEF MentionInv, MentionTyped, Mentioned
<1>9. CASE RestartServer
  <2>1. /\ Landed' = ledger' /\ forgotten' = LastSeq(msgs')
        /\ nudge' = [s \in Sessions |-> FALSE] /\ UNCHANGED told
    BY <1>9, RestartKeepsLog DEF RestartServer
  <2>2. \A m \in Range(msgs') : m.seq \in Nat /\ m.seq <= LastSeq(msgs') /\ LastSeq(msgs') \in Nat
    <3>1. ledger' \in Seq(Lines) /\ Numbered(ledger') /\ msgs' = TailOf(ledger')
      BY <2>1 DEF LogInv, LogTyped
    <3> DEFINE log == ledger'
               recent == TailOf(log)
    <3>2. /\ LastSeq(recent) = Len(log) /\ Len(log) \in Nat /\ Cut(log) \in Nat
          /\ \A i \in DOMAIN recent : i + Cut(log) \in DOMAIN log /\ recent[i].seq = i + Cut(log)
      <4> HIDE DEF log
      <4>1. log \in Seq(Lines) /\ Numbered(log)
        BY <3>1 DEF log
      <4> QED
        BY <4>1, TailNumbered, TailOfIs
    <3>3. DOMAIN log = 1..Len(log)
      BY <3>1
    <3>4. \A i \in DOMAIN recent : recent[i].seq \in Nat /\ recent[i].seq <= Len(log)
      <4> HIDE DEF recent, log
      <4> QED
        BY <3>2, <3>3
    <3> QED
      BY <3>1, <3>2, <3>4 DEF Range
  <2>3. forgotten' \in Nat
    BY <1>9, RestartKeepsLog DEF LogInv, LogTyped
  <2>4. MentionTyped'
    BY <1>0, <2>1, <2>3 DEF MentionTyped
  <2> QED
    BY <2>1, <2>2, <2>4 DEF MentionInv, Reaches
<1> QED
  BY <1>2, <1>4, <1>5, <1>6, <1>7, <1>8, <1>9 DEF ThreadNext

\* A member's cursor passes no message it was not served, and every mention is read, told, owed or on
\* its way, if the machine does not stop under a write: computeInbox and wakeThreadMembers
\* (app/routes/inbox.ts, app/server-delivery.ts).
THEOREM MembersAreReached ==
    ASSUME "torn" \notin ThreadFaults, "lost" \notin ThreadFaults
    PROVE  ThreadSpec => []MembersReached
<1> DEFINE Inv == LogInv /\ CursorInv /\ MentionInv
<1>1. ThreadInit => Inv
  BY LogInvInit, CursorInvInit, MentionInvInit
<1>2. Inv /\ [ThreadNext]_threadVars => Inv'
  BY LogInvStep, CursorInvStep, MentionInvStep
<1>3. Inv => MembersReached
  <2> SUFFICES ASSUME LogInv, CursorInv, MentionInv PROVE MembersReached
    OBVIOUS
  <2>1. CursorEarned
    BY DEF CursorInv, Earned, CursorEarned, LogInv, Numbered
  <2>2. MentionsReach
    BY DEF MentionInv, Mentioned, Reaches, MentionsReach, Range
  <2> QED
    BY <2>1, <2>2 DEF MembersReached
<1> QED
  BY <1>1, <1>2, <1>3, PTL DEF ThreadSpec

-----------------------------------------------------------------------------
(***************************************************************************)
(* The shadow ledger, for all sets of files and sessions.                  *)
(*                                                                         *)
(* That nothing is forgotten at rest is known because every file that      *)
(* differs from the ledger has its commit to come: the watcher has seen    *)
(* something, a claim is held, or a job in the chain takes the file in the *)
(* version it has now.  A claim that a commit gives up although the file   *)
(* was written again behind it is the case to argue (WrittenBehind).       *)
(***************************************************************************)
Jobs == {FloorCommit(paths) : paths \in SUBSET Paths} \cup {PathCommit(s, p) : s \in Editors, p \in Paths}

LedgerTyped ==
    /\ disk \in [Paths -> Nat] /\ index \in [Paths -> Nat] /\ head \in [Paths -> Nat]
    /\ blame \in [Paths -> Editors \cup {External}]
    /\ noticed \in BOOLEAN /\ timer \in BOOLEAN /\ staged \in BOOLEAN
    /\ claimed \subseteq Paths /\ chain \in Seq(Jobs)
    /\ pendingEdits \in [Editors -> SUBSET Paths] /\ edited \in [Editors -> SUBSET Paths]
    /\ ledgerCounts \in [write : Nat, edit : Nat, fault : Nat]
    /\ staged => chain # <<>>

\* Versions only grow on their way from the disk to a commit.
Ordered == \A p \in Paths : head[p] <= index[p] /\ index[p] <= disk[p] /\ disk[p] <= ledgerCounts.write

\* Job i has yet to stage file p, or has staged it as it is.
WillTake(i, p) == p \in StagedPaths(chain[i]) /\ (i > 1 \/ ~staged \/ index[p] = disk[p])

SeenToCome(p) == noticed \/ timer \/ p \in unseen
Awaited == \A p \in Dirty : SeenToCome(p) \/ p \in claimed \/ \E i \in DOMAIN chain : WillTake(i, p)

\* A file that is written after its session's commit has staged it: the claim covers it no longer.
WrittenBehind ==
    staged => \A p \in chain[1].paths :
        index[p] # disk[p] => SeenToCome(p) \/ \E i \in DOMAIN chain : i > 1 /\ p \in StagedPaths(chain[i])

\* A session's commit is of a file it has edited.
JobsEarned == \A i \in DOMAIN chain : chain[i].by # External => chain[i].paths \subseteq edited[chain[i].by]

\* What is in the index and not in the last commit was staged by the commit that runs.
IndexIsTheRunning ==
    ~littered => \A p \in Paths : index[p] # head[p] => staged /\ p \in StagedPaths(chain[1])

LedgerInv ==
    LedgerTyped /\ Ordered /\ Awaited /\ WrittenBehind /\ JobsEarned /\ IndexIsTheRunning /\ CommitsTruthful

LEMMA JobsAre ==
    ASSUME NEW job \in Jobs
    PROVE  /\ job.by \in Editors \cup {External} /\ job.paths \subseteq Paths /\ job.exclude \subseteq Paths
           /\ job.paths \subseteq StagedPaths(job) /\ StagedPaths(job) \subseteq Paths
           /\ job.by = External => job.paths = {} /\ StagedPaths(job) = Paths \ job.exclude
           /\ job.by # External => StagedPaths(job) = job.paths
<1>1. CASE \E paths \in SUBSET Paths : job = FloorCommit(paths)
  BY <1>1 DEF FloorCommit, StagedPaths
<1>2. CASE \E s \in Editors, p \in Paths : job = PathCommit(s, p)
  BY <1>2, LedgerAssumption DEF PathCommit, StagedPaths
<1> QED
  BY <1>1, <1>2 DEF Jobs

LEMMA JobsOfChain ==
    ASSUME LedgerTyped
    PROVE  /\ Len(chain) \in Nat /\ DOMAIN chain = 1..Len(chain)
           /\ \A i \in DOMAIN chain : chain[i] \in Jobs
           /\ chain # <<>> => 1 \in DOMAIN chain
BY DEF LedgerTyped

\* A job more.
LEMMA ChainGrows ==
    ASSUME LedgerTyped, NEW job \in Jobs
    PROVE  /\ Append(chain, job) \in Seq(Jobs) /\ Append(chain, job) # <<>>
           /\ DOMAIN Append(chain, job) = 1..(Len(chain) + 1)
           /\ \A i \in DOMAIN chain : i \in DOMAIN Append(chain, job) /\ Append(chain, job)[i] = chain[i]
           /\ Append(chain, job)[Len(chain) + 1] = job
<1>1. chain \in Seq(Jobs)
  BY DEF LedgerTyped
<1> QED
  BY <1>1

\* The first job less.
LEMMA ChainShrinks ==
    ASSUME LedgerTyped, chain # <<>>
    PROVE  /\ Tail(chain) \in Seq(Jobs) /\ DOMAIN Tail(chain) = 1..(Len(chain) - 1)
           /\ \A i \in 1..(Len(chain) - 1) : i + 1 \in DOMAIN chain /\ Tail(chain)[i] = chain[i + 1]
           /\ \A i \in DOMAIN chain : i > 1 => i - 1 \in 1..(Len(chain) - 1) /\ Tail(chain)[i - 1] = chain[i]
<1>1. chain \in Seq(Jobs) /\ Len(chain) \in Nat \ {0} /\ DOMAIN chain = 1..Len(chain)
  BY DEF LedgerTyped
<1>2. Tail(chain) \in Seq(Jobs) /\ Len(Tail(chain)) = Len(chain) - 1
  BY <1>1
<1>3. DOMAIN Tail(chain) = 1..(Len(chain) - 1)
  BY <1>2
<1>4. \A i \in 1..(Len(chain) - 1) : i + 1 \in DOMAIN chain /\ Tail(chain)[i] = chain[i + 1]
  BY <1>1
<1>5. \A i \in DOMAIN chain : i > 1 => i - 1 \in 1..(Len(chain) - 1) /\ (i - 1) + 1 = i
  BY <1>1
<1> QED
  BY <1>2, <1>3, <1>4, <1>5

\* The chain of a server that has just begun: one job, which leaves nothing out.
LEMMA FirstFloor ==
    /\ FloorCommit({}) \in Jobs /\ StagedPaths(FloorCommit({})) = Paths
    /\ FloorCommit({}).by = External /\ FloorCommit({}).paths = {}
    /\ <<FloorCommit({})>> \in Seq(Jobs) /\ DOMAIN <<FloorCommit({})>> = {1}
    /\ <<FloorCommit({})>>[1] = FloorCommit({}) /\ <<FloorCommit({})>> # <<>>
<1>1. FloorCommit({}) \in Jobs /\ StagedPaths(FloorCommit({})) = Paths
      /\ FloorCommit({}).by = External /\ FloorCommit({}).paths = {}
  BY DEF Jobs, FloorCommit, StagedPaths
<1>2. \A job \in Jobs : <<job>> \in Seq(Jobs) /\ DOMAIN <<job>> = {1} /\ <<job>>[1] = job /\ <<job>> # <<>>
  OBVIOUS
<1> QED
  BY <1>1, <1>2

LEMMA LedgerInvInit == LedgerInit => LedgerInv
<1> SUFFICES ASSUME LedgerInit PROVE LedgerInv
  OBVIOUS
<1>1. /\ disk = [p \in Paths |-> 0] /\ index = disk /\ head = disk /\ blame = [p \in Paths |-> External]
      /\ noticed = FALSE /\ timer = FALSE /\ claimed = {} /\ chain = <<FloorCommit({})>> /\ staged = FALSE
      /\ pendingEdits = [s \in Editors |-> {}] /\ edited = [s \in Editors |-> {}]
      /\ ledgerCounts = [write |-> 0, edit |-> 0, fault |-> 0]
  BY DEF LedgerInit
<1>2. LedgerTyped
  BY <1>1, FirstFloor DEF LedgerTyped
<1>3. Ordered
  BY <1>1 DEF Ordered
<1>4. Awaited /\ WrittenBehind
  BY <1>1 DEF Awaited, WrittenBehind, Dirty
<1>5. JobsEarned
  BY <1>1, FirstFloor DEF JobsEarned
<1>6. IndexIsTheRunning /\ CommitsTruthful
  BY <1>1 DEF IndexIsTheRunning, CommitsTruthful
<1> QED
  BY <1>2, <1>3, <1>4, <1>5, <1>6 DEF LedgerInv

\* One more of what is counted.
LEMMA CountsGrow ==
    ASSUME NEW c \in [write : Nat, edit : Nat, fault : Nat], NEW what \in {"write", "edit", "fault"}, NEW c1,
           c1 = [c EXCEPT ![what] = @ + 1]
    PROVE  /\ c1 \in [write : Nat, edit : Nat, fault : Nat]
           /\ c1.write = IF what = "write" THEN c.write + 1 ELSE c.write
<1>1. CASE what = "write"
  <2>1. c1 = [c EXCEPT !.write = c.write + 1]
    BY <1>1
  <2> QED
    BY <1>1, <2>1
<1>2. CASE what = "edit"
  <2>1. c1 = [c EXCEPT !.edit = c.edit + 1]
    BY <1>2
  <2> QED
    BY <1>2, <2>1
<1>3. CASE what = "fault"
  <2>1. c1 = [c EXCEPT !.fault = c.fault + 1]
    BY <1>3
  <2> QED
    BY <1>3, <2>1
<1> QED
  BY <1>1, <1>2, <1>3

\* A write is seen or is missed, and is newer than all there is.
LEMMA WriteKeeps ==
    ASSUME LedgerInv, NEW p \in Paths, WriteFile(p)
    PROVE  LedgerInv'
<1>1. LedgerTyped
  BY DEF LedgerInv
<1>2. /\ ledgerCounts' = [ledgerCounts EXCEPT !["write"] = @ + 1]
      /\ disk' = [disk EXCEPT ![p] = ledgerCounts'.write]
      /\ noticed' = TRUE \/ p \in unseen'
      /\ unseen \subseteq unseen'
      /\ noticed' \in {TRUE, noticed}
      /\ UNCHANGED <<index, head, blame, timer, claimed, chain, staged, pendingEdits, edited, littered>>
  BY DEF WriteFile, Counted, chainVars
<1>3. /\ ledgerCounts'.write = ledgerCounts.write + 1 /\ ledgerCounts.write \in Nat
      /\ ledgerCounts' \in [write : Nat, edit : Nat, fault : Nat]
      /\ disk'[p] = ledgerCounts.write + 1 /\ \A q \in Paths : q # p => disk'[q] = disk[q]
      /\ disk' \in [Paths -> Nat]
  <2>1. /\ ledgerCounts'.write = ledgerCounts.write + 1
        /\ ledgerCounts' \in [write : Nat, edit : Nat, fault : Nat]
    BY <1>1, <1>2, CountsGrow DEF LedgerTyped
  <2>2. ledgerCounts.write \in Nat /\ disk \in [Paths -> Nat]
    BY <1>1 DEF LedgerTyped
  <2> QED
    BY <1>2, <2>1, <2>2
<1>4. LedgerTyped'
  BY <1>1, <1>2, <1>3 DEF LedgerTyped
<1>5. Ordered'
  BY <1>1, <1>2, <1>3 DEF LedgerInv, LedgerTyped, Ordered
<1>6. SeenToCome(p)' /\ \A q \in Paths : SeenToCome(q) => SeenToCome(q)'
  <2>1. noticed' = TRUE \/ noticed' = noticed
    BY <1>2
  <2>2. SeenToCome(p)'
    BY <1>2 DEF SeenToCome
  <2>3. ASSUME NEW q \in Paths, SeenToCome(q) PROVE SeenToCome(q)'
    BY <1>2, <2>1, <2>3 DEF SeenToCome
  <2> QED
    BY <2>2, <2>3
<1>7. Awaited'
  <2> SUFFICES ASSUME NEW q \in Paths, q # p, disk[q] # head[q]
               PROVE  SeenToCome(q)' \/ q \in claimed \/ \E i \in DOMAIN chain : WillTake(i, q)'
    BY <1>2, <1>3, <1>6 DEF Awaited, Dirty
  <2>1. SeenToCome(q) \/ q \in claimed \/ \E i \in DOMAIN chain : WillTake(i, q)
    BY DEF LedgerInv, Awaited, Dirty
  <2>2. \A i \in DOMAIN chain : WillTake(i, q) => WillTake(i, q)'
    BY <1>2, <1>3 DEF WillTake, StagedPaths
  <2> QED
    BY <1>6, <2>1, <2>2
<1>8. WrittenBehind'
  <2> SUFFICES ASSUME staged, NEW q \in chain[1].paths, index[q] # disk'[q]
               PROVE  SeenToCome(q)' \/ \E i \in DOMAIN chain : i > 1 /\ q \in StagedPaths(chain[i])
    BY <1>2 DEF WrittenBehind, StagedPaths
  <2>1. q \in Paths
    BY <1>1, JobsOfChain, JobsAre DEF LedgerTyped
  <2> QED
    BY <1>3, <1>6, <2>1 DEF LedgerInv, WrittenBehind
<1>9. JobsEarned' /\ IndexIsTheRunning' /\ CommitsTruthful'
  BY <1>2 DEF LedgerInv, JobsEarned, IndexIsTheRunning, CommitsTruthful, StagedPaths
<1> QED
  BY <1>4, <1>5, <1>7, <1>8, <1>9 DEF LedgerInv

\* The settle timer takes the notice over, and its commit the timer: of a file it leaves out, the claim
\* stands, or it is let go of.
LEMMA SettlingKeeps ==
    ASSUME LedgerInv, Settles \/ WatchReady
    PROVE  LedgerInv'
<1>1. /\ noticed \/ timer => noticed' \/ timer'
      /\ noticed' \in {noticed, FALSE} /\ timer' \in {timer, TRUE}
      /\ UNCHANGED <<disk, index, head, blame, claimed, chain, staged, pendingEdits, edited, unseen, littered,
                     ledgerCounts>>
  <2>1. CASE Settles
    BY <2>1 DEF Settles, treeVars, chainVars
  <2>2. CASE WatchReady
    BY <2>2 DEF WatchReady, treeVars, chainVars
  <2> QED
    BY <2>1, <2>2
<1>2. LedgerTyped' /\ Ordered' /\ JobsEarned' /\ IndexIsTheRunning' /\ CommitsTruthful'
  BY <1>1 DEF LedgerInv, LedgerTyped, Ordered, JobsEarned, IndexIsTheRunning, CommitsTruthful, StagedPaths
<1>3. \A p \in Paths : SeenToCome(p) => SeenToCome(p)'
  BY <1>1 DEF SeenToCome
<1>4. Awaited'
  BY <1>1, <1>3 DEF LedgerInv, Awaited, Dirty, WillTake, StagedPaths
<1>5. WrittenBehind'
  <2> SUFFICES ASSUME staged, NEW q \in chain[1].paths, index[q] # disk[q]
               PROVE  SeenToCome(q)' \/ \E i \in DOMAIN chain : i > 1 /\ q \in StagedPaths(chain[i])
    BY <1>1 DEF WrittenBehind, StagedPaths
  <2>1. q \in Paths
    BY JobsOfChain, JobsAre DEF LedgerInv, LedgerTyped
  <2> QED
    BY <1>3, <2>1 DEF LedgerInv, WrittenBehind
<1> QED
  BY <1>2, <1>4, <1>5 DEF LedgerInv

LEMMA FireKeeps ==
    ASSUME LedgerInv, Fire
    PROVE  LedgerInv'
<1>0. PICK job : job = FloorCommit(claimed)
  OBVIOUS
<1>1. LedgerTyped
  BY DEF LedgerInv
<1>2. /\ chain' = Append(chain, job) /\ timer' = FALSE
      /\ unseen' = unseen \cup (claimed \cap Committing \cap Dirty)
      /\ UNCHANGED <<disk, index, head, blame, noticed, claimed, staged, pendingEdits, edited, littered,
                     ledgerCounts>>
  BY <1>0 DEF Fire, treeVars
<1>3. job \in Jobs /\ job.by = External /\ StagedPaths(job) = Paths \ claimed
  <2>1. claimed \in SUBSET Paths
    BY <1>1 DEF LedgerTyped
  <2>2. job \in Jobs
    BY <1>0, <2>1 DEF Jobs
  <2>3. job.by = External /\ job.exclude = claimed
    BY <1>0 DEF FloorCommit
  <2> QED
    BY <2>2, <2>3 DEF StagedPaths
<1>4. /\ chain' \in Seq(Jobs) /\ chain' # <<>> /\ DOMAIN chain' = 1..(Len(chain) + 1)
      /\ \A i \in DOMAIN chain : i \in DOMAIN chain' /\ chain'[i] = chain[i]
      /\ chain'[Len(chain) + 1] = job
  BY <1>1, <1>2, <1>3, ChainGrows
<1>5. Len(chain) \in Nat /\ DOMAIN chain = 1..Len(chain) /\ (chain # <<>> => 1 \in DOMAIN chain)
      /\ (staged => 1 \in DOMAIN chain /\ Len(chain) >= 1)
  BY <1>1, JobsOfChain DEF LedgerTyped
<1>6. LedgerTyped'
  BY <1>1, <1>2, <1>4 DEF LedgerTyped
<1>7. Ordered' /\ CommitsTruthful'
  BY <1>2 DEF LedgerInv, Ordered, CommitsTruthful
<1>8. JobsEarned'
  BY <1>2, <1>3, <1>4, <1>5 DEF LedgerInv, JobsEarned
<1>9. IndexIsTheRunning'
  BY <1>2, <1>4, <1>5 DEF LedgerInv, IndexIsTheRunning, StagedPaths
<1>10. ASSUME NEW p \in Paths, p \notin claimed
       PROVE  /\ Len(chain) + 1 \in DOMAIN chain' /\ p \in StagedPaths(chain'[Len(chain) + 1])
              /\ Len(chain) + 1 > 1 \/ ~staged
  BY <1>3, <1>4, <1>5, <1>10
<1>11. Awaited'
  <2> SUFFICES ASSUME NEW p \in Paths, p \notin claimed
               PROVE  \E i \in DOMAIN chain' : WillTake(i, p)'
    BY <1>2 DEF Awaited, Dirty
  <2> QED
    BY <1>2, <1>10 DEF WillTake
<1>12. WrittenBehind'
  <2> SUFFICES ASSUME staged, NEW p \in chain[1].paths, index[p] # disk[p]
               PROVE  p \in unseen' \/ \E i \in DOMAIN chain' : i > 1 /\ p \in StagedPaths(chain'[i])
    BY <1>2, <1>4, <1>5 DEF WrittenBehind, SeenToCome, StagedPaths
  <2>1. p \in Paths /\ chain[1] \in Jobs
    BY <1>1, <1>5, JobsOfChain, JobsAre
  <2>2. CASE p \in claimed
    <3>1. p \in Committing
      BY <1>5 DEF Committing
    <3>2. p \in Dirty
      BY <1>1, <2>1 DEF LedgerInv, LedgerTyped, Ordered, Dirty
    <3> QED
      BY <1>2, <2>2, <3>1, <3>2
  <2>3. CASE p \notin claimed
    BY <1>5, <1>10, <2>1, <2>3
  <2> QED
    BY <2>2, <2>3
<1> QED
  BY <1>6, <1>7, <1>8, <1>9, <1>11, <1>12 DEF LedgerInv

\* A tool call claims its file; its result queues the commit; a session that ends leaves its claims.
LEMMA ToolsKeep ==
    ASSUME LedgerInv,
           \/ \E s \in Editors : EditorDies(s)
           \/ \E p \in Paths, s \in Editors : ToolUse(s, p)
    PROVE  LedgerInv'
<1>1. LedgerTyped
  BY DEF LedgerInv
<1>2. /\ claimed \subseteq claimed' /\ claimed' \subseteq Paths
      /\ pendingEdits' \in [Editors -> SUBSET Paths]
      /\ ledgerCounts' \in [write : Nat, edit : Nat, fault : Nat] /\ ledgerCounts'.write = ledgerCounts.write
      /\ UNCHANGED <<disk, index, head, blame, noticed, timer, chain, staged, edited, unseen, littered>>
  <2>1. CASE \E s \in Editors : EditorDies(s)
    BY <1>1, <2>1 DEF EditorDies, treeVars, watchVars, chainVars, LedgerTyped
  <2>2. CASE \E p \in Paths, s \in Editors : ToolUse(s, p)
    <3>1. PICK p \in Paths, s \in Editors : ToolUse(s, p)
      BY <2>2
    <3>2. ledgerCounts' = [ledgerCounts EXCEPT !["edit"] = @ + 1]
      BY <3>1 DEF ToolUse, Counted
    <3>3. ledgerCounts' \in [write : Nat, edit : Nat, fault : Nat] /\ ledgerCounts'.write = ledgerCounts.write
      BY <1>1, <3>2, CountsGrow DEF LedgerTyped
    <3>4. pendingEdits' \in [Editors -> SUBSET Paths]
      BY <1>1, <3>1 DEF ToolUse, LedgerTyped
    <3> QED
      BY <1>1, <3>1, <3>3, <3>4 DEF ToolUse, treeVars, watchVars, chainVars, LedgerTyped
  <2> QED
    BY <2>1, <2>2
<1>3. LedgerTyped'
  BY <1>1, <1>2 DEF LedgerTyped
<1>4. Ordered' /\ JobsEarned' /\ IndexIsTheRunning' /\ CommitsTruthful' /\ WrittenBehind'
  BY <1>2 DEF LedgerInv, Ordered, JobsEarned, IndexIsTheRunning, CommitsTruthful, WrittenBehind, SeenToCome, StagedPaths
<1>5. Awaited'
  BY <1>2 DEF LedgerInv, Awaited, Dirty, WillTake, SeenToCome, StagedPaths
<1> QED
  BY <1>3, <1>4, <1>5 DEF LedgerInv

LEMMA ResultKeeps ==
    ASSUME LedgerInv, NEW s \in Editors, NEW p \in Paths, ToolResult(s, p)
    PROVE  LedgerInv'
<1>0. PICK job : job = PathCommit(s, p)
  OBVIOUS
<1>1. LedgerTyped
  BY DEF LedgerInv
<1>2. /\ chain' = Append(chain, job)
      /\ pendingEdits' = [pendingEdits EXCEPT ![s] = @ \ {p}] /\ edited' = [edited EXCEPT ![s] = @ \cup {p}]
      /\ UNCHANGED <<disk, index, head, blame, noticed, timer, claimed, staged, unseen, littered, ledgerCounts>>
  BY <1>0 DEF ToolResult, treeVars, watchVars
<1>3. job \in Jobs /\ job.by = s /\ job.paths = {p} /\ s # External
  <2>1. job \in Jobs
    BY <1>0 DEF Jobs
  <2> QED
    BY <1>0, <2>1, LedgerAssumption DEF PathCommit
<1>4. /\ chain' \in Seq(Jobs) /\ chain' # <<>> /\ DOMAIN chain' = 1..(Len(chain) + 1)
      /\ \A i \in DOMAIN chain : i \in DOMAIN chain' /\ chain'[i] = chain[i]
      /\ chain'[Len(chain) + 1] = job
  BY <1>1, <1>2, <1>3, ChainGrows
<1>5. /\ Len(chain) \in Nat /\ DOMAIN chain = 1..Len(chain)
      /\ staged => 1 \in DOMAIN chain
  BY <1>1, JobsOfChain DEF LedgerTyped
<1>6. /\ edited' \in [Editors -> SUBSET Paths] /\ p \in edited'[s]
      /\ \A t \in Editors : edited[t] \subseteq edited'[t]
      /\ pendingEdits' \in [Editors -> SUBSET Paths]
  BY <1>1, <1>2 DEF LedgerTyped
<1>7. LedgerTyped'
  BY <1>1, <1>2, <1>4, <1>6 DEF LedgerTyped
<1>8. Ordered'
  BY <1>2 DEF LedgerInv, Ordered
<1>9. CommitsTruthful'
  BY <1>1, <1>2, <1>6 DEF LedgerInv, LedgerTyped, CommitsTruthful
<1>10. JobsEarned'
  <2> SUFFICES ASSUME NEW i \in DOMAIN chain', chain'[i].by # External
               PROVE  chain'[i].paths \subseteq edited'[chain'[i].by]
    BY DEF JobsEarned
  <2>1. CASE i = Len(chain) + 1
    BY <1>3, <1>4, <1>6, <2>1
  <2>2. CASE i # Len(chain) + 1
    <3>1. i \in DOMAIN chain /\ chain'[i] = chain[i]
      BY <1>4, <1>5, <2>2
    <3>2. chain[i].by \in Editors
      BY <1>1, <3>1, JobsOfChain, JobsAre
    <3> QED
      BY <1>6, <3>1, <3>2 DEF LedgerInv, JobsEarned
  <2> QED
    BY <2>1, <2>2
<1>11. IndexIsTheRunning'
  BY <1>2, <1>4, <1>5 DEF LedgerInv, IndexIsTheRunning, StagedPaths
<1>12. Awaited'
  <2> SUFFICES ASSUME NEW q \in Dirty, ~SeenToCome(q), q \notin claimed
               PROVE  \E i \in DOMAIN chain' : WillTake(i, q)'
    BY <1>2 DEF Awaited, Dirty, SeenToCome
  <2>1. PICK i \in DOMAIN chain : WillTake(i, q)
    BY DEF LedgerInv, Awaited
  <2>2. WillTake(i, q)'
    BY <1>2, <1>4, <2>1 DEF WillTake, StagedPaths
  <2> QED
    BY <1>4, <2>1, <2>2
<1>13. WrittenBehind'
  BY <1>2, <1>4, <1>5 DEF LedgerInv, WrittenBehind, SeenToCome, StagedPaths
<1> QED
  BY <1>7, <1>8, <1>9, <1>10, <1>11, <1>12, <1>13 DEF LedgerInv

\* The first job takes its files as they are.
LEMMA StageKeeps ==
    ASSUME LedgerInv, Stage
    PROVE  LedgerInv'
<1>1. LedgerTyped
  BY DEF LedgerInv
<1>2. /\ chain # <<>> /\ ~staged /\ staged' = TRUE
      /\ index' = [p \in Paths |-> IF p \in StagedPaths(chain[1]) THEN disk[p]
                                   ELSE IF p \in chain[1].exclude THEN head[p] ELSE index[p]]
      /\ UNCHANGED <<disk, head, blame, noticed, timer, claimed, chain, pendingEdits, edited, unseen, littered,
                     ledgerCounts>>
  BY DEF Stage, watchVars
<1>3. LedgerTyped'
  <2>1. index' \in [Paths -> Nat]
    BY <1>1, <1>2 DEF LedgerTyped
  <2> QED
    BY <1>1, <1>2, <2>1 DEF LedgerTyped
<1>4. Ordered'
  <2> SUFFICES ASSUME NEW p \in Paths
               PROVE  head[p] <= index'[p] /\ index'[p] <= disk[p] /\ disk[p] <= ledgerCounts.write
    BY <1>2 DEF Ordered
  <2>1. head[p] \in Nat /\ index[p] \in Nat /\ disk[p] \in Nat
    BY <1>1 DEF LedgerTyped
  <2>2. head[p] <= index[p] /\ index[p] <= disk[p] /\ disk[p] <= ledgerCounts.write
    BY DEF LedgerInv, Ordered
  <2>3. index'[p] \in {disk[p], head[p], index[p]}
    BY <1>2
  <2> QED
    BY <2>1, <2>2, <2>3
<1>5. \A p \in Paths : p \in StagedPaths(chain[1]) => index'[p] = disk[p]
  BY <1>2
<1>6. Awaited'
  <2> SUFFICES ASSUME NEW p \in Paths, p \in Dirty
               PROVE  SeenToCome(p) \/ p \in claimed \/ \E i \in DOMAIN chain : WillTake(i, p)'
    BY <1>2 DEF Awaited, Dirty, SeenToCome
  <2>1. \A i \in DOMAIN chain : WillTake(i, p) => WillTake(i, p)'
    <3> SUFFICES ASSUME NEW i \in DOMAIN chain, p \in StagedPaths(chain[i]) PROVE i > 1 \/ index'[p] = disk[p]
      BY <1>2 DEF WillTake, StagedPaths
    <3>1. i = 1 \/ i > 1
      BY <1>1, JobsOfChain
    <3> QED
      BY <1>5, <3>1
  <2> QED
    BY <2>1 DEF LedgerInv, Awaited
<1>7. WrittenBehind'
  <2>1. \A p \in chain[1].paths : p \in Paths /\ p \in StagedPaths(chain[1])
    BY <1>1, <1>2, JobsOfChain, JobsAre
  <2> QED
    BY <1>2, <1>5, <2>1 DEF WrittenBehind
<1>8. JobsEarned' /\ CommitsTruthful'
  BY <1>2 DEF LedgerInv, JobsEarned, CommitsTruthful
<1>9. IndexIsTheRunning'
  BY <1>2 DEF LedgerInv, IndexIsTheRunning, StagedPaths
<1> QED
  BY <1>3, <1>4, <1>6, <1>7, <1>8, <1>9 DEF LedgerInv

LEMMA ChainTailKeeps ==
    ASSUME LedgerTyped, JobsEarned, chain # <<>>, chain' = Tail(chain), UNCHANGED edited
    PROVE  chain' \in Seq(Jobs) /\ JobsEarned'
BY ChainShrinks DEF JobsEarned

\* git commit: what was staged is what the ledger holds.
LEMMA CommitKeeps ==
    ASSUME LedgerInv, CommitStaged
    PROVE  LedgerInv'
<1>1. LedgerTyped
  BY DEF LedgerInv
<1>2. /\ chain # <<>> /\ staged /\ FirstDone /\ head' = index
      /\ chain' = Tail(chain) /\ staged' = FALSE /\ claimed' = claimed \ chain[1].paths
      /\ blame' = [p \in Paths |-> IF index[p] # head[p] THEN chain[1].by ELSE blame[p]]
      /\ unseen' = {p \in unseen : ~(p \in StagedPaths(chain[1]) /\ disk[p] = index[p])}
      /\ UNCHANGED <<disk, index, noticed, timer, pendingEdits, edited, littered, ledgerCounts>>
  BY DEF CommitStaged, FirstDone, watchVars
<1>3. /\ 1 \in DOMAIN chain /\ chain[1] \in Jobs /\ chain[1].by \in Editors \cup {External}
      /\ chain[1].paths \subseteq Paths
      /\ chain[1].by = External => chain[1].paths = {}
      /\ chain[1].by # External => StagedPaths(chain[1]) = chain[1].paths
  BY <1>1, <1>2, JobsOfChain, JobsAre
<1>4. chain' \in Seq(Jobs) /\ JobsEarned'
  BY <1>1, <1>2, ChainTailKeeps DEF LedgerInv
<1>5. blame' \in [Paths -> Editors \cup {External}]
  BY <1>1, <1>2, <1>3 DEF LedgerTyped
<1>6. LedgerTyped'
  BY <1>1, <1>2, <1>4, <1>5 DEF LedgerTyped
<1>7. Ordered'
  BY <1>1, <1>2 DEF LedgerInv, LedgerTyped, Ordered
<1>8. Awaited'
  <2> SUFFICES ASSUME NEW p \in Paths, disk[p] # index[p]
               PROVE  SeenToCome(p)' \/ p \in claimed' \/ \E i \in DOMAIN chain' : WillTake(i, p)'
    BY <1>2 DEF Awaited, Dirty
  <2>1. p \in unseen => p \in unseen'
    BY <1>2
  <2>2. disk[p] # head[p]
    BY <1>1 DEF LedgerInv, LedgerTyped, Ordered
  <2>3. SeenToCome(p) \/ p \in claimed \/ \E i \in DOMAIN chain : WillTake(i, p)
    BY <2>2 DEF LedgerInv, Awaited, Dirty
  <2>4. SeenToCome(p) => SeenToCome(p)'
    BY <1>2, <2>1 DEF SeenToCome
  <2>5. ASSUME NEW i \in DOMAIN chain, i > 1, p \in StagedPaths(chain[i])
        PROVE  \E j \in DOMAIN chain' : WillTake(j, p)'
    <3>1. i - 1 \in DOMAIN chain' /\ chain'[i - 1] = chain[i]
      BY <1>1, <1>2, <2>5, ChainShrinks
    <3>2. WillTake(i - 1, p)'
      BY <1>2, <2>5, <3>1 DEF WillTake, StagedPaths
    <3> QED
      BY <3>1, <3>2
  <2>6. CASE p \in chain[1].paths
    BY <1>2, <2>4, <2>5, <2>6 DEF LedgerInv, WrittenBehind
  <2>7. CASE p \notin chain[1].paths
    <3>1. ASSUME NEW i \in DOMAIN chain, WillTake(i, p) PROVE i > 1 /\ p \in StagedPaths(chain[i])
      BY <1>1, <1>2, <3>1, JobsOfChain DEF WillTake
    <3> QED
      BY <1>2, <2>3, <2>4, <2>5, <2>7, <3>1
  <2> QED
    BY <2>6, <2>7
<1>9. WrittenBehind'
  BY <1>2 DEF WrittenBehind
<1>10. IndexIsTheRunning'
  BY <1>2 DEF IndexIsTheRunning
<1>11. CommitsTruthful'
  <2> SUFFICES ASSUME NEW p \in Paths, ~littered, blame'[p] # External
               PROVE  p \in edited[blame'[p]]
    BY <1>2 DEF CommitsTruthful
  <2>1. CASE index[p] # head[p]
    <3>1. blame'[p] = chain[1].by
      BY <1>2, <2>1
    <3>2. p \in StagedPaths(chain[1])
      BY <2>1 DEF LedgerInv, IndexIsTheRunning
    <3> QED
      BY <1>3, <3>1, <3>2 DEF LedgerInv, JobsEarned
  <2>2. CASE index[p] = head[p]
    BY <1>2, <2>2 DEF LedgerInv, CommitsTruthful
  <2> QED
    BY <2>1, <2>2
<1> QED
  BY <1>4, <1>6, <1>7, <1>8, <1>9, <1>10, <1>11 DEF LedgerInv

\* A step of git fails: the files of the job are let go of.
LEMMA FailureKeeps ==
    ASSUME LedgerInv, GitFails
    PROVE  LedgerInv'
<1>1. LedgerTyped
  BY DEF LedgerInv
<1>2. /\ chain # <<>>
      /\ chain' = Tail(chain) /\ staged' = FALSE /\ claimed' = claimed \ chain[1].paths
      /\ ledgerCounts' = [ledgerCounts EXCEPT !["fault"] = @ + 1]
      /\ littered' = (littered \/ staged) /\ unseen' = unseen \cup (StagedPaths(chain[1]) \cap Dirty)
      /\ UNCHANGED <<disk, index, head, blame, noticed, timer, pendingEdits, edited>>
  BY DEF GitFails, FirstDone, Counted, treeVars, watchVars
<1>3. /\ ledgerCounts' \in [write : Nat, edit : Nat, fault : Nat] /\ ledgerCounts'.write = ledgerCounts.write
  BY <1>1, <1>2, CountsGrow DEF LedgerTyped
<1>4. 1 \in DOMAIN chain /\ chain[1].paths \subseteq StagedPaths(chain[1])
  BY <1>1, <1>2, JobsOfChain, JobsAre
<1>5. chain' \in Seq(Jobs) /\ JobsEarned'
  BY <1>1, <1>2, ChainTailKeeps DEF LedgerInv
<1>6. LedgerTyped'
  BY <1>1, <1>2, <1>3, <1>5 DEF LedgerTyped
<1>7. Ordered'
  BY <1>2, <1>3 DEF LedgerInv, Ordered
<1>8. Awaited'
  <2> SUFFICES ASSUME NEW p \in Dirty, p \notin StagedPaths(chain[1])
               PROVE  SeenToCome(p)' \/ p \in claimed' \/ \E i \in DOMAIN chain' : WillTake(i, p)'
    BY <1>2 DEF Awaited, Dirty, SeenToCome
  <2>1. SeenToCome(p) => SeenToCome(p)'
    BY <1>2 DEF SeenToCome
  <2>2. p \in claimed => p \in claimed'
    BY <1>2, <1>4
  <2>3. ASSUME NEW i \in DOMAIN chain, WillTake(i, p) PROVE \E j \in DOMAIN chain' : WillTake(j, p)'
    <3>1. i > 1 /\ p \in StagedPaths(chain[i])
      BY <1>1, <2>3, JobsOfChain DEF WillTake
    <3>2. i - 1 \in DOMAIN chain' /\ chain'[i - 1] = chain[i]
      BY <1>1, <1>2, <3>1, ChainShrinks
    <3>3. WillTake(i - 1, p)'
      BY <1>2, <3>1, <3>2 DEF WillTake, StagedPaths
    <3> QED
      BY <3>2, <3>3
  <2> QED
    BY <2>1, <2>2, <2>3 DEF LedgerInv, Awaited
<1>9. WrittenBehind'
  BY <1>2 DEF WrittenBehind
<1>10. IndexIsTheRunning' /\ CommitsTruthful'
  BY <1>2 DEF LedgerInv, IndexIsTheRunning, CommitsTruthful
<1> QED
  BY <1>5, <1>6, <1>7, <1>8, <1>9, <1>10 DEF LedgerInv

\* A new server's first commit leaves nothing out.
LEMMA RestartKeepsLedger ==
    ASSUME LedgerInv, RestartLedger
    PROVE  LedgerInv'
<1>1. LedgerTyped
  BY DEF LedgerInv
<1>2. /\ noticed' = FALSE /\ timer' = FALSE /\ claimed' = {}
      /\ chain' = <<FloorCommit({})>> /\ staged' = FALSE /\ pendingEdits' = [s \in Editors |-> {}]
      /\ littered' = (littered \/ staged)
      /\ ledgerCounts' = [ledgerCounts EXCEPT !["fault"] = @ + 1]
      /\ UNCHANGED <<disk, index, head, blame, edited, unseen>>
  BY DEF RestartLedger, Counted, treeVars
<1>3. /\ ledgerCounts' \in [write : Nat, edit : Nat, fault : Nat] /\ ledgerCounts'.write = ledgerCounts.write
  BY <1>1, <1>2, CountsGrow DEF LedgerTyped
<1>4. LedgerTyped'
  BY <1>1, <1>2, <1>3, FirstFloor DEF LedgerTyped
<1>5. Ordered'
  BY <1>2, <1>3 DEF LedgerInv, Ordered
<1>6. JobsEarned'
  BY <1>2, FirstFloor DEF JobsEarned
<1>7. Awaited'
  <2>1. 1 \in DOMAIN chain' /\ chain'[1] = FloorCommit({})
    BY <1>2, FirstFloor
  <2>2. \A p \in Paths : p \in StagedPaths(chain'[1])
    BY <2>1, FirstFloor
  <2>3. \A p \in Paths : WillTake(1, p)'
    BY <1>2, <2>2 DEF WillTake, StagedPaths
  <2> QED
    BY <2>1, <2>3 DEF Awaited, Dirty
<1>8. WrittenBehind' /\ IndexIsTheRunning' /\ CommitsTruthful'
  BY <1>2 DEF LedgerInv, WrittenBehind, IndexIsTheRunning, CommitsTruthful
<1> QED
  BY <1>4, <1>5, <1>6, <1>7, <1>8 DEF LedgerInv

LEMMA LedgerInvStep == LedgerInv /\ [LedgerNext]_ledgerVars => LedgerInv'
<1> SUFFICES ASSUME LedgerInv, [LedgerNext]_ledgerVars PROVE LedgerInv'
  OBVIOUS
<1>1. ASSUME NEW p \in Paths, WriteFile(p) PROVE LedgerInv'
  BY <1>1, WriteKeeps
<1>2. CASE Settles \/ WatchReady
  BY <1>2, SettlingKeeps
<1>3. CASE Fire
  BY <1>3, FireKeeps
<1>4. CASE (\E s \in Editors : EditorDies(s)) \/ \E p \in Paths, s \in Editors : ToolUse(s, p)
  BY <1>4, ToolsKeep
<1>5. ASSUME NEW p \in Paths, NEW s \in Editors, ToolResult(s, p) PROVE LedgerInv'
  BY <1>5, ResultKeeps
<1>6. CASE Stage
  BY <1>6, StageKeeps
<1>7. CASE CommitStaged
  BY <1>7, CommitKeeps
<1>8. CASE GitFails
  BY <1>8, FailureKeeps
<1>9. CASE RestartLedger
  BY <1>9, RestartKeepsLedger
<1>10. CASE UNCHANGED ledgerVars
  BY <1>10 DEF LedgerInv, LedgerTyped, Ordered, Awaited, Dirty, WillTake, SeenToCome, WrittenBehind, JobsEarned,
               IndexIsTheRunning, CommitsTruthful, StagedPaths, ledgerVars, treeVars, watchVars, chainVars
<1> QED
  BY <1>1, <1>2, <1>3, <1>4, <1>5, <1>6, <1>7, <1>8, <1>9, <1>10 DEF LedgerNext

\* At rest every file is in the ledger as it is on disk, or claimed, or let go of, and a commit names a
\* session only for a file it has edited: fire, the attributed commits and the lock's chain
\* (app/shadow-git.js, app/server-orchestration.ts), through failing steps and restarts.
THEOREM LedgerStaysTrue == LedgerSpec => []LedgerHolds
<1>1. LedgerInv => LedgerHolds
  <2> SUFFICES ASSUME LedgerInv, ~noticed, ~timer, chain = <<>> PROVE Dirty \subseteq claimed \cup unseen
    BY DEF LedgerHolds, FloorComplete, LedgerInv
  <2>1. DOMAIN chain = {}
    OBVIOUS
  <2> QED
    BY <2>1 DEF LedgerInv, Awaited, SeenToCome
<1> QED
  BY <1>1, LedgerInvInit, LedgerInvStep, PTL DEF LedgerSpec
=============================================================================
