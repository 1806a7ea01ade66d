----------------------------- MODULE ThreadLog -----------------------------
(***************************************************************************)
(* One thread: posts that queue behind the per-thread lock, the durable    *)
(* append, the in-memory tail it feeds, the sessions that are woken and    *)
(* read on their own cursors, clients that retry, a server that restarts   *)
(* (server-delivery.ts, thread-ledger.js, routes/threads.ts, inbox.ts,     *)
(* cas-guard.js).                                                          *)
(*                                                                         *)
(* A send is one logical message: who wrote it and whom it addresses do    *)
(* not change between its retries.                                         *)
(***************************************************************************)
EXTENDS Integers, LogLines, SequencesExt, FiniteSets

CONSTANTS
    Sends,          \* the logical messages of a run
    Sessions,       \* the live sessions, all members of the thread
    Author,         \* send -> its author, a session or the human at the card
    Tagged,         \* send -> the sessions it @-mentions
    Broadcasts,     \* the sends tagged @all
    CardOnly,       \* the sends that are intents, ask echoes or edits
    Keyed,          \* the sends that carry a postId and are retried
    Quiet,          \* the sessions whose seat level is not "all"
    MaxThreadMsgs,  \* the cap of the in-memory tail (MAX_THREAD_MSGS)
    MaxTries,       \* bound: attempts per keyed send
    MaxRestarts,    \* bound: server restarts
    ThreadFaults,   \* "append": an append throws; "lost", "torn": the machine stops, and of the line
                    \* that is written and not yet fsynced nothing, or a part, is left
    TornLine,       \* a line without its newline
    GarbageLine,    \* a line that does not parse
    NoLine

ASSUME ThreadAssumption ==
    /\ MaxThreadMsgs \in Nat \ {0} /\ MaxTries \in Nat \ {0} /\ MaxRestarts \in Nat
    /\ Tagged \in [Sends -> SUBSET Sessions] /\ DOMAIN Author = Sends
    /\ Broadcasts \subseteq Sends /\ CardOnly \subseteq Sends /\ Keyed \subseteq Sends
    /\ Quiet \subseteq Sessions /\ ThreadFaults \subseteq {"append", "lost", "torn"}

VARIABLES
    ledger,     \* the .jsonl on disk, oldest line first
    msgs,       \* threadLogs.get(threadId): the in-memory tail
    queue,      \* the sends waiting in the thread's promise chain, the head holding the lock
    writing,    \* the line the head has written and not yet fsynced
    tries,      \* attempts a client has made at a send
    accepted,   \* the sends some attempt was answered 200
    fanout,     \* the deferred wakes, first come first served
    read,       \* LiveSession.read[threadId]
    saved,      \* the cursors the session ledger holds
    saveDue,    \* the sessions with a debounced save pending
    nudge,      \* LiveSession.nudge
    busy,       \* the sessions that are running a turn
    restarts,
    served,     \* history: the lines each session was served
    told,       \* history: the newest seq a nudge told a session of
    forgotten   \* history: the newest seq when the server last restarted

history == <<served, told, forgotten>>
threadVars == <<ledger, msgs, queue, writing, tries, accepted, fanout, read, saved, saveDue,
                nudge, busy, restarts, served, told, forgotten>>

Line(n, p) == [seq |-> n, send |-> p]
Lines == [seq : Nat \ {0}, send : Sends]

ASSUME LineAssumption == TornLine \notin Lines /\ GarbageLine \notin Lines /\ NoLine \notin Lines

LastSeq(log) == IF log = <<>> THEN 0 ELSE Last(log).seq

\* readThreadLog skips a line that does not parse.
Readable(log) == LinesAt(log, {i \in DOMAIN log : log[i] \notin {TornLine, GarbageLine}})

\* Faulty variant of TailOf: the cap is off by one.
TailOneMore(log) ==
    IF Len(log) > MaxThreadMsgs + 1 THEN SubSeq(log, Len(log) - MaxThreadMsgs, Len(log)) ELSE log

\* The tail the server keeps in memory.
TailOf(log) ==
    IF Len(log) > MaxThreadMsgs THEN SubSeq(log, Len(log) - MaxThreadMsgs + 1, Len(log)) ELSE log

ThreadInit ==
    /\ ledger = <<>> /\ msgs = <<>> /\ queue = <<>> /\ writing = NoLine /\ fanout = <<>>
    /\ tries = [p \in Sends |-> 0] /\ accepted = {} /\ restarts = 0
    /\ read = [s \in Sessions |-> 0] /\ saved = read /\ saveDue = {}
    /\ nudge = [s \in Sessions |-> FALSE] /\ busy = {}
    /\ served = [s \in Sessions |-> {}] /\ told = [s \in Sessions |-> 0] /\ forgotten = 0

-----------------------------------------------------------------------------
(***************************************************************************)
(* Posting.                                                                *)
(***************************************************************************)
\* unreadMentions: what blocks s from posting, by the tail in memory.
UnreadMentions(s) ==
    {i \in DOMAIN msgs : /\ msgs[i].seq > read[s]
                         /\ msgs[i].send \notin CardOnly
                         /\ Author[msgs[i].send] # s
                         /\ s \in Tagged[msgs[i].send]}

\* The guard W11 refuses a session's post over a mention it has not read; the human is exempt,
\* and a card-only line does not come this way.
Refused(p) == Author[p] \in Sessions /\ p \notin CardOnly /\ UnreadMentions(Author[p]) # {}

\* The client's retry loop: only a send with a postId is tried again, and only while it has no
\* answer. A session posts from within a turn.
MayTry(p) ==
    /\ tries[p] < IF p \in Keyed THEN MaxTries ELSE 1
    /\ p \notin accepted /\ (Author[p] \in Sessions => Author[p] \in busy)

\* An attempt at a send: checked, then queued behind the thread's lock.
Post(p) ==
    /\ MayTry(p) /\ ~Refused(p)
    /\ tries' = [tries EXCEPT ![p] = @ + 1]
    /\ queue' = Append(queue, p)
    /\ UNCHANGED <<ledger, msgs, writing, accepted, fanout, read, saved, saveDue, nudge, busy,
                   restarts, history>>

\* Faulty variant of Dup: a retry is never recognised.
NeverDup(p) == {}

\* The lines of the tail that carry the send's postId.
Dup(p) == {i \in DOMAIN msgs : p \in Keyed /\ msgs[i].send = p}

\* A line written to a file whose last line is torn is glued to it, and neither parses.
Written(log, l) ==
    IF log # <<>> /\ Last(log) = TornLine THEN Append(Front(log), GarbageLine) ELSE Append(log, l)

\* Faulty variant of BeginAppend: the seq is minted without waiting for the write under way.
BeginAppendUnlocked ==
    /\ queue # <<>> /\ Dup(Head(queue)) = {}
    /\ LET l == Line(LastSeq(msgs) + 1, Head(queue))
       IN  ledger' = Written(ledger, l) /\ writing' = l
    /\ UNCHANGED <<msgs, queue, tries, accepted, fanout, read, saved, saveDue, nudge, busy,
                   restarts, history>>

\* appendThreadMsg under the lock, up to the awaited fsync.
BeginAppend ==
    /\ queue # <<>> /\ writing = NoLine /\ Dup(Head(queue)) = {}
    /\ LET l == Line(LastSeq(msgs) + 1, Head(queue))
       IN  ledger' = Written(ledger, l) /\ writing' = l
    /\ UNCHANGED <<msgs, queue, tries, accepted, fanout, read, saved, saveDue, nudge, busy,
                   restarts, history>>

\* Faulty variant of SenderCursor: the sender's cursor always moves to its own post.
SenderCursorJumps(at, own) == own

\* senderCursorAfterPost: a sender that was caught up has read its own post, any other holds.
SenderCursor(at, own) == IF at = own - 1 THEN own ELSE at

\* The post at n is answered 200: the sender's cursor, the wake left for the next tick.
Answered(p, n) ==
    /\ accepted' = accepted \cup {p}
    /\ IF Author[p] \in Sessions /\ p \notin CardOnly
       THEN /\ read' = [read EXCEPT ![Author[p]] = SenderCursor(@, n)]
            /\ saveDue' = saveDue \cup {Author[p]}
       ELSE UNCHANGED <<read, saveDue>>
    /\ fanout' = IF p \in CardOnly THEN fanout ELSE Append(fanout, p)
    /\ queue' = Tail(queue)

\* The append is durable: only now is the message live.
EndAppend ==
    /\ writing # NoLine
    /\ msgs' = TailOf(Append(msgs, writing))
    /\ writing' = NoLine
    /\ Answered(writing.send, writing.seq)
    /\ UNCHANGED <<ledger, tries, saved, nudge, busy, restarts, history>>

\* A retry of a post that already landed is answered with that post.
AnswerDup ==
    /\ queue # <<>> /\ writing = NoLine /\ Dup(Head(queue)) # {}
    /\ \E i \in Dup(Head(queue)) : Answered(Head(queue), msgs[i].seq)
    /\ UNCHANGED <<ledger, msgs, writing, tries, saved, nudge, busy, restarts, history>>

\* Faulty variant of AppendFails: the failed append is answered 200 all the same.
AppendFailsQuietly ==
    /\ "append" \in ThreadFaults /\ queue # <<>> /\ writing = NoLine /\ Dup(Head(queue)) = {}
    /\ queue' = Tail(queue) /\ accepted' = accepted \cup {Head(queue)}
    /\ UNCHANGED <<ledger, msgs, writing, tries, fanout, read, saved, saveDue, nudge, busy,
                   restarts, history>>

\* The append threw before it wrote anything: 500, nothing published, no one woken.
AppendFails ==
    /\ "append" \in ThreadFaults /\ queue # <<>> /\ writing = NoLine /\ Dup(Head(queue)) = {}
    /\ queue' = Tail(queue)
    /\ UNCHANGED <<ledger, msgs, writing, tries, accepted, fanout, read, saved, saveDue, nudge,
                   busy, restarts, history>>

-----------------------------------------------------------------------------
(***************************************************************************)
(* Waking and reading.                                                     *)
(***************************************************************************)
\* wakesSeat, over the members other than the sender.
Woken(p) ==
    {s \in Sessions \ {Author[p]} :
        s \in Tagged[p] \/ (p \in Broadcasts /\ s \notin Quiet)}

Unread(s) == {i \in DOMAIN msgs : msgs[i].seq > read[s] /\ msgs[i].send \notin CardOnly}

\* flushNudge for the sessions of S: the flag is spent, and one with unread messages is prompted.
Flush(S) ==
    LET prompted == {s \in S : Unread(s) # {}}
    IN  /\ busy' = busy \cup prompted
        /\ told' = [s \in Sessions |-> IF s \in prompted THEN LastSeq(msgs) ELSE told[s]]

\* Faulty variant of Wake: a busy member is skipped, it will read at its own turn end.
WakeIdleOnly ==
    /\ fanout # <<>> /\ fanout' = Tail(fanout)
    /\ Flush(Woken(Head(fanout)) \ busy)
    /\ UNCHANGED <<ledger, msgs, queue, writing, tries, accepted, read, saved, saveDue, nudge,
                   restarts, served, forgotten>>

\* wakeThreadMembers: the idle members are flushed now, the busy ones owe a nudge.
Wake ==
    /\ fanout # <<>> /\ fanout' = Tail(fanout)
    /\ LET woken == Woken(Head(fanout))
       IN  /\ nudge' = [s \in Sessions |-> IF s \in woken THEN s \in busy ELSE nudge[s]]
           /\ Flush(woken \ busy)
    /\ UNCHANGED <<ledger, msgs, queue, writing, tries, accepted, read, saved, saveDue, restarts,
                   served, forgotten>>

\* The turn's result: idle, and a nudge that is owed fires - which starts the next turn.
TurnEnds(s) ==
    /\ s \in busy
    /\ nudge' = [nudge EXCEPT ![s] = FALSE]
    /\ LET prompted == nudge[s] /\ Unread(s) # {}
       IN  /\ busy' = IF prompted THEN busy ELSE busy \ {s}
           /\ told' = IF prompted THEN [told EXCEPT ![s] = LastSeq(msgs)] ELSE told
    /\ UNCHANGED <<ledger, msgs, queue, writing, tries, accepted, fanout, read, saved, saveDue,
                   restarts, served, forgotten>>

\* Someone prompts an idle session at its card.
Prompted(s) ==
    /\ s \notin busy /\ busy' = busy \cup {s}
    /\ UNCHANGED <<ledger, msgs, queue, writing, tries, accepted, fanout, read, saved, saveDue,
                   nudge, restarts, history>>

\* What a consuming read serves from: the tail, or the whole ledger when the tail starts past
\* the reader's cursor.
Backlog(s) ==
    IF msgs # <<>> /\ Head(msgs).seq > read[s] + 1 THEN Readable(ledger) ELSE msgs

\* A consuming GET /api/inbox: everything past the cursor, which then stands at the newest line.
ReadInbox(s) ==
    /\ s \in busy
    /\ LET log == Backlog(s)
       IN  /\ log # <<>>
           /\ served' = [served EXCEPT ![s] =
                  @ \cup {log[i] : i \in {j \in DOMAIN log : /\ log[j].seq > read[s]
                                                                 /\ log[j].send \notin CardOnly}}]
           /\ read' = [read EXCEPT ![s] = LastSeq(log)]
    /\ saveDue' = saveDue \cup {s}
    /\ UNCHANGED <<ledger, msgs, queue, writing, tries, accepted, fanout, saved, nudge, busy,
                   restarts, told, forgotten>>

\* The debounced save of a session's cursors fires.
SaveCursor(s) ==
    /\ s \in saveDue /\ saveDue' = saveDue \ {s}
    /\ saved' = [saved EXCEPT ![s] = read[s]]
    /\ UNCHANGED <<ledger, msgs, queue, writing, tries, accepted, fanout, read, nudge, busy,
                   restarts, history>>

-----------------------------------------------------------------------------
(***************************************************************************)
(* Restart.                                                                *)
(***************************************************************************)
\* What the crash leaves of a line under way: all of it, or, by the fault, none of it or a part.
Survivors ==
    IF writing = NoLine \/ ledger = <<>> \/ Last(ledger) # writing THEN {ledger}
    ELSE {ledger}
         \cup (IF "lost" \in ThreadFaults THEN {Front(ledger)} ELSE {})
         \cup IF "torn" \in ThreadFaults THEN {Append(Front(ledger), TornLine)} ELSE {}

\* The server dies; its successor re-seeds the tail from the ledger and adopts the sessions with
\* the cursors they saved. Queued posts, deferred wakes and nudges are gone.
RestartServer ==
    /\ restarts < MaxRestarts /\ restarts' = restarts + 1
    /\ ledger' \in Survivors
    /\ msgs' = TailOf(Readable(ledger'))
    /\ queue' = <<>> /\ writing' = NoLine /\ fanout' = <<>>
    /\ nudge' = [s \in Sessions |-> FALSE]
    /\ read' = saved /\ saveDue' = {}
    /\ forgotten' = LastSeq(msgs')
    /\ UNCHANGED <<tries, accepted, saved, busy, served, told>>

ThreadNext ==
    \/ \E p \in Sends : Post(p)
    \/ BeginAppend \/ EndAppend \/ AnswerDup \/ AppendFails
    \/ Wake
    \/ \E s \in Sessions : TurnEnds(s) \/ Prompted(s) \/ ReadInbox(s) \/ SaveCursor(s)
    \/ RestartServer

ThreadSpec == ThreadInit /\ [][ThreadNext]_threadVars

-----------------------------------------------------------------------------
ThreadTypeOK ==
    /\ ledger \in Seq(Lines \cup {TornLine, GarbageLine})
    /\ msgs \in Seq(Lines) /\ Len(msgs) <= MaxThreadMsgs
    /\ queue \in Seq(Sends) /\ writing \in Lines \cup {NoLine} /\ fanout \in Seq(Sends)
    /\ tries \in [Sends -> 0..MaxTries] /\ accepted \subseteq Sends /\ restarts \in 0..MaxRestarts
    /\ read \in [Sessions -> Nat] /\ saved \in [Sessions -> Nat] /\ saveDue \subseteq Sessions
    /\ nudge \in [Sessions -> BOOLEAN] /\ busy \subseteq Sessions
    /\ served \in [Sessions -> SUBSET Lines] /\ told \in [Sessions -> Nat] /\ forgotten \in Nat

\* The ledger counts 1, 2, 3, ... and the memory is exactly its tail, short of the one line still
\* being written: no concurrent posts mint one seq twice, and no reader is shown a message that
\* is not on disk.
LogIsLedgerTail ==
    LET landed == IF writing = NoLine THEN ledger ELSE Front(ledger)
    IN  /\ \A i \in DOMAIN ledger : ledger[i].seq = i
        /\ msgs = TailOf(landed)

\* A 200 means the message is on disk and survives any restart.
AcceptedSurvives ==
    \A p \in accepted : \E i \in DOMAIN Readable(ledger) : Readable(ledger)[i].send = p

\* Whatever attempts time out, fail or cross a restart, a keyed send is written once - as long as
\* its first line is still in the tail that is searched for it.
RetriesWriteOnce ==
    \A i, j \in DOMAIN ledger :
        i < j /\ ledger[i].send = ledger[j].send => j - i > MaxThreadMsgs

\* A cursor passes a peer's message only when the session was served it: an interleaved post, an
\* overflowing tail or a restart never swallows one.
CursorEarned ==
    \A s \in Sessions : \A i \in DOMAIN ledger :
        /\ ledger[i].seq <= read[s] /\ Author[ledger[i].send] # s
        /\ ledger[i].send \notin CardOnly
        => ledger[i] \in served[s]

\* Since the last restart, no mention of a session is left behind: it has been read, the session
\* was told of it, owes itself a nudge, or the wake is on its way.
MentionsReach ==
    \A i \in DOMAIN msgs : \A s \in Tagged[msgs[i].send] \ {Author[msgs[i].send]} :
        \/ msgs[i].seq <= forgotten \/ msgs[i].seq <= read[s] \/ msgs[i].seq <= told[s]
        \/ msgs[i].send \in CardOnly \/ nudge[s]
        \/ \E j \in DOMAIN fanout : fanout[j] = msgs[i].send

\* What a person reads in a thread is what its ledger holds, and a send that is repeated is in it once.
ThreadsTrue == LogIsLedgerTail /\ RetriesWriteOnce

\* What a member of a thread has not read reaches it: no cursor passes a message that was not served,
\* and a mention is told or owed.
MembersReached == CursorEarned /\ MentionsReach
=============================================================================
