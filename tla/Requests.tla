----------------------------- MODULE Requests ------------------------------
(***************************************************************************)
(* Questions held open for an answer: a Claude tool call that waits for    *)
(* the human's permission on an HTTP request, a Codex approval that the    *)
(* session host holds and the server only shows, an ask one member puts to *)
(* another (routes/permissions.ts, routes/asks.ts, permission-prompt-mcp   *)
(* .js, codex-projection.ts, session-host.js, server-sessions.ts).         *)
(***************************************************************************)
EXTENDS Integers, SequencesExt

CONSTANTS
    Claude,             \* requests a permission relay posts
    Codex,              \* approvals the host holds
    Asks,               \* questions between members
    MaxRequestRestarts  \* bound: server restarts

ASSUME RequestAssumption ==
    /\ MaxRequestRestarts \in Nat
    /\ Claude \cap Codex = {} /\ Claude \cap Asks = {} /\ Codex \cap Asks = {}

Requests == Claude \cup Codex \cup Asks

VARIABLES
    asker,      \* what the asker of a request knows: not asked, waiting, or its answer
    shown,      \* pendingPermissions and pendingAsks: what a person or member may answer
    held,       \* codexRequests: what the host waits for
    answers,    \* answers on their way to the host
    events,     \* events on their way from the host
    ended,      \* the requests whose session has ended: of an ask, the session it is put to
    vanished,   \* the requests whose asker hung up while it was waiting
    unclosed,   \* of those, the ones whose response's close the server has yet to handle
    promised,   \* history: what the decision route confirmed
    requestRestarts

requestVars == <<asker, shown, held, answers, events, ended, vanished, unclosed, promised,
                 requestRestarts>>

Outcomes == {"allow", "deny"}

RequestInit ==
    /\ asker = [r \in Requests |-> "new"] /\ promised = [r \in Requests |-> "none"]
    /\ shown = {} /\ held = {} /\ answers = <<>> /\ events = <<>>
    /\ ended = {} /\ vanished = {} /\ unclosed = {} /\ requestRestarts = 0

\* handlePermissionRequest, handleThreadAsk: held open on the response. Where the session is no longer
\* live there is an error instead, which the relay turns into a denial.
Ask(r) ==
    /\ r \in Claude \cup Asks /\ asker[r] = "new"
    /\ IF r \in ended THEN asker' = [asker EXCEPT ![r] = "deny"] /\ UNCHANGED shown
       ELSE asker' = [asker EXCEPT ![r] = "waiting"] /\ shown' = shown \cup {r}
    /\ UNCHANGED <<held, answers, events, ended, vanished, unclosed, promised, requestRestarts>>

\* The app-server asks: the host keeps the request and says so.
Raise(r) ==
    /\ r \in Codex \ ended /\ asker[r] = "new"
    /\ asker' = [asker EXCEPT ![r] = "waiting"]
    /\ held' = held \cup {r} /\ events' = Append(events, <<"request", r>>)
    /\ UNCHANGED <<shown, answers, ended, vanished, unclosed, promised, requestRestarts>>

\* What whoever waits on a response has when an outcome is written to it; nobody waits where the asker
\* hung up, and a Codex approval is answered to the host.
HeardBy(r, outcome) == IF r \in Codex \cup vanished THEN asker ELSE [asker EXCEPT ![r] = outcome]

\* Faulty variant of Settle: the entry is left for its timer to clear.
SettleLater(r, outcome) ==
    /\ shown' = IF r \in Codex THEN shown \ {r} ELSE shown
    /\ asker' = HeardBy(r, outcome)
    /\ answers' = IF r \in Codex THEN Append(answers, <<r, outcome>>) ELSE answers

\* settlePermission, settleAsk: the entry goes, whoever hears of it.
Settle(r, outcome) ==
    /\ shown' = shown \ {r}
    /\ asker' = HeardBy(r, outcome)
    /\ answers' = IF r \in Codex THEN Append(answers, <<r, outcome>>) ELSE answers

\* handlePermissionDecision, handleThreadReply: 404 when the request is no longer pending, else 200,
\* heard or not. The reply to an ask is an "allow", its time-out a "deny".
Decide(r, outcome) ==
    /\ r \in shown /\ (r \in Asks => outcome = "allow")
    /\ Settle(r, outcome)
    /\ promised' = [promised EXCEPT ![r] = outcome]
    /\ UNCHANGED <<held, events, ended, vanished, unclosed, requestRestarts>>

\* The hold's timer.
TimesOut(r) ==
    /\ r \in shown /\ Settle(r, "deny")
    /\ UNCHANGED <<held, events, ended, vanished, unclosed, promised, requestRestarts>>

\* The asker's end goes: the relay gives up, its session is killed, the connection is cut. The relay
\* has a denial, the asker of an ask nothing. Only a permission's response has a handler for its close,
\* which runs some time later; an answer lost on its way is one written after this.
HangsUp(r) ==
    /\ r \in Claude \cup Asks /\ asker[r] = "waiting"
    /\ asker' = [asker EXCEPT ![r] = "deny"]
    /\ vanished' = vanished \cup {r} /\ unclosed' = unclosed \cup ({r} \cap Claude)
    /\ UNCHANGED <<shown, held, answers, events, ended, promised, requestRestarts>>

\* Faulty variant of Closes: the entry of a vanished relay stays.
ClosesOpen(r) ==
    /\ r \in unclosed /\ unclosed' = unclosed \ {r}
    /\ UNCHANGED <<asker, shown, held, answers, events, ended, vanished, promised, requestRestarts>>

\* handlePermissionRequest's handler of the response's close: the entry goes, if it is there still.
Closes(r) ==
    /\ r \in unclosed /\ unclosed' = unclosed \ {r}
    /\ shown' = shown \ {r}
    /\ UNCHANGED <<asker, held, answers, events, ended, vanished, promised, requestRestarts>>

\* settleCodexRequest: once; the server is told.
SettleHeld(r, outcome) ==
    IF r \in held
    THEN /\ held' = held \ {r} /\ asker' = [asker EXCEPT ![r] = outcome]
         /\ events' = Append(events, <<"resolved", r>>)
    ELSE UNCHANGED <<held, asker, events>>

\* The host takes an answer; the kill of a session refuses what it asked.
TakeAnswer ==
    /\ answers # <<>> /\ answers' = Tail(answers)
    /\ SettleHeld(Head(answers)[1], IF Head(answers)[2] = "kill" THEN "deny" ELSE Head(answers)[2])
    /\ UNCHANGED <<shown, ended, vanished, unclosed, promised, requestRestarts>>

\* The app-server exits: what it asked is refused in the host.
Abandon(r) ==
    /\ r \in held /\ SettleHeld(r, "deny")
    /\ UNCHANGED <<shown, answers, ended, vanished, unclosed, promised, requestRestarts>>

\* foldCodexEvent: a request is shown, a resolved one is taken down.
FoldRequestEvent ==
    /\ events # <<>> /\ events' = Tail(events)
    /\ LET r == Head(events)[2]
       IN  shown' = IF Head(events)[1] = "request" THEN shown \cup {r} ELSE shown \ {r}
    /\ UNCHANGED <<asker, held, answers, ended, vanished, unclosed, promised, requestRestarts>>

\* endSession: denySessionPermissions, then the kill. An ask put to the session keeps its entry.
SessionEnds(r) ==
    /\ r \notin ended /\ ended' = ended \cup {r}
    /\ shown' = IF r \in Asks THEN shown ELSE shown \ {r}
    /\ asker' = IF r \in Claude \cap shown THEN HeardBy(r, "deny") ELSE asker
    /\ answers' = IF r \notin Codex THEN answers
                  ELSE answers \o (IF r \in shown THEN <<<<r, "deny">>>> ELSE <<>>) \o <<<<r, "kill">>>>
    /\ UNCHANGED <<held, events, vanished, unclosed, promised, requestRestarts>>

\* Faulty variant of RestartShows: nothing the host holds is shown again.
RestartForgets ==
    /\ requestRestarts < MaxRequestRestarts /\ requestRestarts' = requestRestarts + 1
    /\ answers = <<>> /\ events' = <<>> /\ shown' = {} /\ unclosed' = {}
    /\ asker' = [r \in Requests |->
           IF r \in Claude \cup Asks /\ asker[r] = "waiting" THEN "deny" ELSE asker[r]]
    /\ UNCHANGED <<held, answers, ended, vanished, promised>>

\* A new server: the connections are cut, and what the host still holds is shown again. The
\* answers already written reach the host first.
RestartShows ==
    /\ requestRestarts < MaxRequestRestarts /\ requestRestarts' = requestRestarts + 1
    /\ answers = <<>> /\ events' = <<>>
    /\ shown' = held /\ unclosed' = {}
    /\ asker' = [r \in Requests |->
           IF r \in Claude \cup Asks /\ asker[r] = "waiting" THEN "deny" ELSE asker[r]]
    /\ UNCHANGED <<held, answers, ended, vanished, promised>>

RequestNext ==
    \/ \E r \in Requests :
           \/ Ask(r) \/ Raise(r) \/ TimesOut(r) \/ HangsUp(r) \/ Closes(r) \/ Abandon(r) \/ SessionEnds(r)
           \/ \E outcome \in Outcomes : Decide(r, outcome)
    \/ TakeAnswer \/ FoldRequestEvent \/ RestartShows

RequestFairness ==
    /\ \A r \in Requests : WF_requestVars(TimesOut(r))
    /\ WF_requestVars(TakeAnswer) /\ WF_requestVars(FoldRequestEvent)

RequestSpec == RequestInit /\ [][RequestNext]_requestVars /\ RequestFairness

RequestTypeOK ==
    /\ asker \in [Requests -> {"new", "waiting"} \cup Outcomes]
    /\ shown \subseteq Requests /\ held \subseteq Codex /\ ended \subseteq Requests
    /\ vanished \subseteq Claude \cup Asks /\ unclosed \subseteq Claude \cap vanished
    /\ answers \in Seq(Codex \X (Outcomes \cup {"kill"})) /\ events \in Seq({"request", "resolved"} \X Codex)
    /\ promised \in [Requests -> {"none"} \cup Outcomes]

\* Once nothing is under way, neither an answer nor an event nor the close of a response, what may be
\* answered is exactly what is waited for, but for asks whose asker hung up, which nothing takes down
\* before their timer.
ShownIsWaitedFor ==
    answers = <<>> /\ events = <<>> /\ unclosed = {} =>
        shown \ (Asks \cap vanished) = {r \in Requests : asker[r] = "waiting"}

\* An allow reaches the asker only by way of a decision. A decision that was confirmed is what the
\* asker has, unless it hung up: then it has no allow, whatever was confirmed to whoever decided. Or
\* it is on its way to the host, where the asker may by then have been refused.
DecisionsHold ==
    \A r \in Requests :
        /\ asker[r] = "allow" => promised[r] = "allow" /\ r \notin vanished
        /\ promised[r] # "none" /\ r \notin Codex \cup vanished => asker[r] = promised[r]
        /\ promised[r] = "allow" /\ asker[r] = "waiting" => <<r, "allow">> \in Range(answers)

\* Nobody waits for ever, and nobody is asked for ever: the timers run, also those of askers that hung
\* up, and both ends handle what reaches them. (The requests are finitely many, so this says that some
\* time nobody waits any more and nothing is shown.)
EveryQuestionEnds == <>[](\A r \in Requests : asker[r] # "waiting" /\ r \notin shown)
=============================================================================
