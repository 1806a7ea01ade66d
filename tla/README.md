# Foolscap: a TLA+ verification project

Foolscap is a shared canvas on which people (in browser tabs) and agents (over HTTP) edit one board
of records, talk in threads, and run notebooks. This directory models two layers of it. The first is
what everything rests on: how a change of the board is described, committed, sequenced, stored,
broadcast, folded, undone and rolled back. The second is what is built on the board: its cards and
pointer tools, threads and their seats, questions put to people, agent processes, kernels, notebook
cells, annotated documents, files and their history, and the dev stack that keeps it all up. The
TLA+ modules are translated from the code; TLC checks them on small instances and TLAPS proves what
they promise, liveness aside, for all instances (section 4).

All paths below are relative to `src/`.

## 1. Inventory

| part | code | state | operations |
|---|---|---|---|
| record diffs | `core/src/diff.ts` | none (a `DiffBuffer` per transaction) | touch, build, invert, apply, squash |
| store and editor | `core/src/store.ts`, `editor.ts`, `log.ts` | record atoms, the open buffer, version, last seq | commit, tryCommit, gesture begin / frame / end / cancel, applyDiffAsChange |
| undo | `core/src/undo.ts` | undo and redo stacks | the channel-2 listener, undo, redo, forget |
| tab persistence | `core/src/persist.ts` | in-memory log, write chain, debounce timer | append, hydrate, snapshot, adoptSeq |
| board engine | `app/board-engine.ts` | per board: live store, watermark, dedup ring | hydrate, commitBoardCommand, appendTabEvent, reconcile, drop |
| board files | `app/board-persist.js` | `events.jsonl`, `snapshot.json`, last compaction | append, read, save, compact, import, clear |
| board routes | `app/routes/board-persist.ts` | none | boot, log?since, event, snapshot, import, delete |
| delivery | `app/server-delivery.ts` | sockets, announced memberships | dispatchBusCommand, commitTabEvent, broadcastBusDiff, wakes |
| tab sync | `app/src/remote-store.ts`, `agentBus.ts`, `bus-convergence.ts`, `feeds.ts`, `App.tsx` | retry loop, socket, running catch-up | post and retry, classify a frame, catch up, reconnect, reload, roll back |
| element commands | `core/src/commands.ts`, `records.ts` | node, layout and edge records | add, remove, look, raise, wire, unwire |
| interaction tools | `interaction/src/`, pinned cards in `app/src/NodeView.tsx` | active tool, tool states, pointer, pan, edge scroll, open gesture | pointer and key events, tool switches |
| threads | `app/thread-ledger.js`, `cas-guard.js`, `routes/{threads,inbox}.ts`, `server-delivery.ts` | ledger file, in-memory tail, cursors, nudges, promise chain per thread | post, retry, wake, read, restart |
| seats and claims | `app/server-delivery.ts`, `thread-ledger.js`, `auto-wake.js`, `server-orchestration.ts` | roster, role seats, member edges, surface claims | join, invite, leave, detach, summon, exit, adopt |
| questions | `app/routes/{asks,permissions}.ts`, `permission-prompt-mcp.js`, `codex-projection.ts` | pending requests, approvals the host holds | ask, decide, time out, hang up, handle the close, end, restart |
| session host | `app/session-host*.js`, `session-proc.js`, `server-sessions.ts` | processes, exits nobody heard, the server's live sessions and markers | start, prompt, end, adopt, reconnect |
| Codex sessions | `app/codex-*.js`, `session-host.js` | busy flag, active turn, write chain, awaited request | prompt, steer, interrupt, time out, kill |
| kernels | `app/server-kernel.ts`, `jupyter-host.js`, `routes/kernel.ts` | kernel registry, starts in flight, idle timers | run, restart, shut down, sweep, reap |
| notebook cells | `app/src/notebook-runtime.ts` | cell states, panes, exports, timers, jobs | sync, run, reply, publish, tear down |
| dev stack | `app/dev-supervisor.js` | the vite child, respawn timers, restarts that wait, teardown | crash, respawn, bounce, stop, kill |
| shadow ledger | `app/shadow-git.js`, `server-orchestration.ts` | tree, index and head, settle timer, claims, commit chain | write, settle, tool call and result, stage, commit, fail, restart |
| annotations | `app/annotations.js`, `anchors.js`, `annotation-reanchor.js`, `doc-watch.js`, `routes/annotations.ts` | event ledger, document text, the "ask" watcher | create, answer, resolve, reopen, re-anchor, accept, reject, heal, watch and unwatch by hand |
| files in a tab | `app/src/{content,loader,feeds}.ts`, `server-fs.ts`, `vite-fs-plugin.ts`, `routes/files.ts` | cached body, tombstone, listing, watches, requests out | pin, watch, fetch, save, drop, reconnect |
| scheduled work | `app/standing-jobs.js`, `doc-*.js`, `coordinator-heartbeat.js` | due times | tick, fire |
| renderer, feeds, plumbing | `app/src/*.tsx`, `app/server-*.ts`, `app/card-types/` | projections | presentation and I/O |

How they interact. A user's gesture writes a tab's store at once; the editor emits one diff to its
listeners (undo, the snapshot timer) and appends one event at a *provisional* seq. The event is
posted by a write chain that never has two requests out and retries until answered. The server gives
the event the board's next seq, appends it, folds it into its live store, broadcasts the diff to the
other tabs and answers with the seq, which the tab adopts. An agent's command takes the same path
from the server on. A tab folds a frame only when it is the next one; a gap or a reconnection makes
it fetch the log past its watermark. Tabs also save snapshots, which boots start from and compaction
relies on.

Above the board, a post to a thread is written under a per-thread lock, then wakes the members it
addresses; a member reads from its own cursor. A member's card is wired to the thread by an edge on the
board, and the roster in the thread's ledger follows it. A mention of a role may spawn a session; sessions
run in a host process that outlives the server, so a new server adopts what it finds. Sessions ask people
for permission through requests that are held open. Notebook cells run in the page, in a worker, or on
Jupyter kernels a broker in the server starts.

What is hard here: gestures that stay open while other changes land; undo among foreign changes; two
sequencers (the tab's and the server's); a server that answers, or does not, between an append and
its broadcast; writes that fail or are cut short; lost answers and resends against an in-memory
dedup ring; stale snapshots; compaction under readers that are behind; reloads and restarts. And above:
two posts that await their writes at once; retries across a restart; wakes that meet a running turn;
members that join, leave and are revived in any order; an answer racing a timeout, a hang-up or the end
of the asker; two processes - server and host - dying in turn; notifications that overtake answers; runs,
edits and replies of cells that cross.

What each part must promise:

* diffs: invertible, and exact about the transaction they describe;
* editor: the diff stream carries exactly the committed store, whatever a gesture does meanwhile,
  and the version never misses a change;
* undo: an unbroken path back over what only this user wrote;
* engine and files: together they are one sequence of whole commits, which no fault shows through;
* catch-up: complete for a tab within the kept tail;
* tabs: edits are neither lost nor reordered, readers show a real state of the board, all converge;
* cards: whole or gone, and no removal leaves a wire without an end;
* tools: no press leaves a gesture, a preview or a timer behind it;
* threads: a 200 is durable, a retry is written once, no message is skipped by a cursor, no mention is
  left behind;
* seats: held by members, not taken from the living; one worker per surface;
* questions: an allow is always somebody's decision, a confirmed decision holds, and every question ends;
* sessions: the server's view agrees with the host's once nothing is under way, and every end is told;
* Codex: router, host and app-server agree on the turn;
* kernels: one per notebook, and every run is answered;
* cells: a pane that looks settled shows what its inputs are now, and no cell waits for nobody;
* dev stack: a server runs or is due, there is one of it, and one stop ends everything;
* shadow ledger: every settled change is committed, under the name of who made it;
* annotations: what the ledger says of the text is so, and a quote that can be found is found at once;
* files in a tab: what is shown is what is on disk once nothing is under way.

`PROJECT.json` lists every component with its status and every hazard with the line it bites at.

## 2. Modules

| module | models | notes |
|---|---|---|
| `RecordsDiff` | the diff algebra | constants `Ids`, `Vals`, `Absent`; a value is a record *object*, since `build` compares with `!==` |
| `Editor` | one tab's store, editor and log counter | one action per operation; a handler is any set of writes of at most `MaxWrite` ids |
| `UndoManager` | undo over `Editor` | extends it; the listener is part of the emitting step because `emit` is synchronous |
| `RollBack` | refused edits over `UndoManager` | adds the queue of unanswered events, `Ack` and `Reject` |
| `LogLines` | reading a line file whole | the lines at a set of positions, by a recursive function |
| `BoardEngine` | the live store over the files | one action per server operation; synchronous file operations make a request one step |
| `BoardState` | the abstract board | one copy of the records, one counter, the last saved snapshot; whole commits, and saves that leave each record as it was or as they state it |
| `BoardService` | `BoardEngine` under all its HTTP clients | adds what clients know (`posted`, `settled`) and the history variables `recorded`, `truth`, `restated`; a save may say anything as of any seq, since the route compares seqs only; refines `BoardState` |
| `BoardSync` | `BoardEngine` with several tabs and agents | adds tabs, sockets, frames, catch-ups, the retry queue |
| `Elements` | the default commands over `RecordsDiff` | a card is a node and a layout record; one tab with undo, and a peer whose records lag, whose diffs the tab applies as they come |
| `Tools` | interaction manager, tools, pinned cards | one action per DOM event; hits are nondeterministic, coordinates left out |
| `ThreadLog` | one thread: posts, ledger, wakes, reads, restart | the append is two steps, since the lock is held across its await |
| `Seats` | roster, seats, edges, sessions, claims | one thread, any roles and documents |
| `Requests` | permission requests, approvals, asks | answers and events between server and host are queues; an asker's hang-up and the server's handling of the closed response are two steps, and only a permission has the second |
| `SessionHost` | host, server and the socket between them | three queues of frames; both may die |
| `CodexTurns` | one Codex session in the host | the app-server is external: it answers each request and notifies |
| `Kernels` | the kernel broker | the gateway is external: it lists, creates and deletes |
| `Cells` | the notebook runtime of one page | two cards and a data file; one record for the runtime's state; the functions of the scheduler, which call each other on one thread, are steps on a stack of calls still to be made |
| `Supervisor` | the owner of the dev stack | a step is one turn of the event loop with the continuations it resolves |
| `ShadowLedger` | the shadow git ledger of one root | a version of a file is a number; staging and committing are two steps, since git runs outside the process |
| `Annotations` | one document's annotations | a text is a sequence of words; which fuzzy match is near enough is left open |
| `FileCache` | one file and its folder in one tab | the file is the number of its last change; requests answer in any order |
| `*Proofs` | theorems (section 4) | `DataProofs` about `RecordsDiff`, `LogLines` and sequences; `BoardEngineProofs`, `BoardServiceProofs`, `BoardSyncProofs`; `EditorProofs` up to `RollBack`; `SessionProofs` about `Seats`, `Requests`, `CodexTurns`, `SessionHost`, `ThreadLog`, `ShadowLedger`; `PartsProofs` about `Tools`, `Kernels`, `Supervisor`, `Elements`, `FileCache`, `Annotations`, `Cells`; `TypesProofs` about the types of all parts of `MCParts` |
| `MC*` | TLC instances | symmetry sets, and a view for `RollBack`; `MCParts` puts thirteen parts side by side |

Correspondence of state:

* `RecordsDiff`: the three maps of a `RecordsDiff` are one function from the touched ids to
  `[from, to]`; `from = Absent` is `added`, `to = Absent` is `removed`.
* `Editor`: `atoms`, `buffer`, `version` are `Store`'s fields; `owner` is the `GestureHandle`
  (source, parent); `lastSeq` is the log's. `emitted` and `event` are what the last step put on
  channels 2 and 3. `mirror` (a consumer applying every emitted diff) and `inbound` (ids that only
  remote diffs have put in the open buffer) are history variables.
* `UndoManager`: `undos`, `redos`; each entry also names the event it undoes (`of`), which the code
  does not keep. `initial` and `foreign` are history variables.
* `BoardEngine`: `log` is `events.jsonl` line by line, `Torn` a line that does not parse; `snap` is
  `snapshot.json`; `entry` the `BoardEngineEntry`; `lastCut` the process's `lastCompactWatermark`.
* `BoardSync`: per tab `tstore`, `lastSeq`, `queue` (the promise chain: event and snapshot jobs),
  `answer` (the response to the head of the queue), `dirty` (the debounce timer), `undos`, `conn`,
  `bus` (frames in flight), `catchUp` (the running fetch). `minted`, `acked`, `gone` are history
  variables.

* `Elements`: `store` is the tab's record store, `acts` and `redone` its undo manager's stacks, `peer` the records
  the other writer's commands run over. `loose` and `revived` are history variables: wires left without an end by an
  undo, by two writers of whom one did not know them, or drawn so; and cards of which an update put a removed record back.
* `Tools`: `buffer` is the store's open gesture; `selectState`, `shapeState`, `hud` the tools' and pinned
  cards' states; `activeTool`, `pointerDown`, `midPan`, `edgeArmed` and the space flags the manager's.
* `ThreadLog`: `ledger` is the thread's `.jsonl`, `msgs` the in-memory tail, `queue` its promise chain,
  `writing` the line between write and fsync, `read` and `saved` the cursors in memory and on disk,
  `nudge` the owed nudges, `fanout` the deferred wakes. `served`, `told`, `forgotten` are history.
* `Seats`: `members` and `seat` are the ledger's, `edge` the board's, `claims` auto-wake's, `known` and
  `worker` the server's live sessions, `alive` the host's processes.
* `Requests`: `shown` is what the server offers to be answered, `held` what the host waits for, `vanished` the
  requests whose asker hung up, `unclosed` those of them whose closed response the server has yet to handle. `promised`
  is history: what the decision route confirmed.
* `SessionHost`: `children` and `exits` are the host's, `live`, `hooks` and `marker` the server's;
  `overlapped` is history: ids started before an earlier process of theirs was gone or the list had come.
* `CodexTurns`: `activeTurn`, `bound` are the router's, `codexBusy`, `codexEntry`, `tail` the host's, `turn`,
  `rpcs`, `stream` the app-server's. `fate` and `crossed` are history.
* `Kernels`: `liveKernel`, `start`, `pending`, `idle` are the broker's registries, `gateway` what runs.
* `Cells`: the fields of `nb` are the maps of `NB`; `missed` and `orphaned` are history (section 6).
* `Supervisor`: `viteChild`, `restarting`, `fastCrashes`, `everUp` are the supervisor's; `up` what it has been
  told runs, `bounces` the restarts that wait for a vite's exit, `doomed` what the teardown waits for.
  `asked` and `restartsCrossed` are history.
* `ShadowLedger`: `disk`, `index`, `head` are git's three trees, `chain` the lock's promise chain, `claimed` the
  claims, `timer` and `ready` the watcher's. `blame`, `edited`, `unseen`, `littered` are history.
* `Annotations`: `annoLog` is the ledger file, `text` the document, `askArmed` whether its "ask" watcher is in
  the watch table. `applied`, `unrecorded`, `forsaken`, `lingers` are history.
* `FileCache`: `cached`, `gone`, `listed` are the entries of the loader's maps, `watching` the subscription,
  `watcher` the server's, `watchFrames` its events under way, `fileCalls` the requests. `shownAt` and
  `excused` are history.

Abstractions, and what they leave out:

* In `Editor` a command handler is any set of writes; `Elements` has the ones the program registers.
* An event's type, payload, actor, timestamp and parent are left out of `BoardEngine`; its seq is
  always present (the seqless legacy formats of `hydrate` and the fold are not modelled).
* The server's store version is left out; no route answers differently for it.
* The tabs of `BoardSync` edit in whole commits; gestures are `Editor`'s subject.
* A POST of a page that is being reloaded has arrived, or never does, by the time the new page boots.
* `BoardSync` starts on a board whose tabs are loaded and whose boot flush is stored.
* A message of `ThreadLog` has no text; its author, mentions and kind are constants of the send. Messages
  the inbox leaves out for its byte budget count as served: the answer says they are there.
* `Seats` leaves out history modes, onboarding cursors and the lifetime of an announcement's memory.
* A process of `SessionHost` is its prompts: how many it has to answer and whether it is busy.
* A kill of a Codex session is one step of `CodexTurns`. In the code it awaits the interrupt
  (`app/session-host.js:424-440`); a prompt that is written meanwhile is not modelled. Nor is `thread/status/changed`.
* `Kernels` keeps its registries for the life of the server; a re-evaluation of the vite plugin, which would start
  them anew, is not modelled.
* A cell of `Cells` is what it reads, a policy and a realm; a value is a parity of its inputs, enough to
  tell a value that is out of date from one that is not.
* `Supervisor` leaves out the probe for a twin stack, the control client and the log. Its vites always spawn: a
  spawn that fails has an `error` and no `exit`, which `app/dev-supervisor.js:182` waits for, so nothing would respawn it.
* `ShadowLedger` has one root; the provisioning of its object store and the file filter are left out.
* `Annotations` keeps one "ask" watcher; pause and resume of a watcher, replies, escalations to threads and long
  quotes are left out. `watch` and `unwatch` by hand, and a marker that cannot be written or removed, are in.
* A peer of `Elements` that catches up takes the tab's records as they are at that moment, whole; how diffs of two tabs
  merge in the server's order is `BoardSync`'s subject.
* `FileCache` has one file; a body is the number of the change that wrote it.

## 3. Runs

| run | instance | shows |
|---|---|---|
| `editor` | 2 records, 2 objects, 3 emissions, 3 events | the mirror, buffer, emission and version properties |
| `rollback` | 2 records, 1 object, 3 emissions, 2 events, one id per write | the undo stack's path property with gestures, redos, foreign diffs and refusals |
| `service` | 1 record, 1 event id, seqs to 3, failing appends and folds, saves of any content | live store = fold of the files but for what a save restated, increasing seqs, complete catch-up, refinement of `BoardState` |
| `service_faults` | 2 event ids, half-written imports too | the dedup window, monotone watermarks |
| `sync` | 2 records, writer tab and reader tab, 2 edits, drops, restarts, compactions | the reader always shows the log as of its watermark; everything converges |
| `sync_safety` | 1 tab, 2 edits, commands, lost answers, restarts, reloads, undos | order, no lost edit, earned watermarks |
| `sync_live` | 2 tabs, drops and lost answers, fair | edits are acknowledged, tabs catch up |
| `parts` | thirteen parts, one per behaviour: 2 cards and a wire, 3 posts, 2 sessions and a role, 3 questions, ... | what section 1 asks of cards, tools, threads, seats, questions, sessions, Codex, kernels, cells, the dev stack, the shadow ledger, annotations and files |
| `race`, `resurrect`, `once`, `torn` | | the four disagreements of section 6, each a counterexample |

Bounds. One record with one object already tells present from absent and the order of two writes
apart, and two of each give coalescing, inversion and independent records, so larger sets only
repeat. `RingCap`, `KeepTail` and `MinDrop` are 1 in the service runs, so that eviction and
compaction both happen within three seqs (in the code 512, 2000 and 500); in the `sync` runs
`KeepTail` is 3 so that no reader falls behind the kept tail, which `CatchUpComplete` shows to be the
condition, and in `sync_safety` it is 1. `MaxSeq`, `MaxVersion`, `MaxLines`, `MaxQueue` and
`MaxFrames` bound counters and queues in the guards; a step that would pass one is not taken, which
is why the `BoardSync` runs, where a bounded world runs out of work, do not check deadlock. `service`
allows one event id and `service_faults` two, since most service properties do not depend on which
event it is and the dedup window does.

`parts`. The thirteen modules share no variable, so one run suffices: `PartsInit` chooses the part that
moves, the others stay in their initial states, and the state space is the sum of theirs, not the
product. Per part: two cards and one wire are one removal away from every dangling wire, and one command
with undo and redo against any command of a peer that lags gives every crossing of two writers; there are two looks because
an update needs one to update from. Three posts of which
one mentions the session, one is the session's own and one is card-only, with a tail of two messages, two
attempts and one restart, overflow the tail and cross the retry with the restart. Two sessions of one role
with a document compete for one seat and one claim. One request of each kind - and of each end, a decision, a timer, a hang-up, the end of its session - meets one restart. One
session id with one death of each side and two prompts has every order of deaths around an exit (the
instance with two server deaths passes too, apart from this run: it only repeats the adoption). Three writes, of which one interrupts, with three spawns and one timeout, give every crossing of
answers and notifications. Three runs on two notebooks share a start and meet another notebook's sweep.
Two presses of pinned cards besides the canvas pointer let a gesture meet another's. Two cards with three
cells and a file have a chain across cards, a cycle, a debounced, a manual and an in-page cell; `MaxNested` bounds the calls the scheduler makes in one turn, and no turn of this
instance makes as many as 20. Five vites with two restart
requests and a limit of two fast crashes have a respawn, a bounce and the giving up cross in every order.
Two files, one session with two tool calls, one write of somebody else and one fault - a failing git step
or a restart - let every commit meet another's claim. Two questions and a suggestion on a document of at most
three words, three events, of which three are read back, and one edit from outside. Three changes or pins
and one fault of a socket or request, with a card of the file and one of its folder; four (1.4 million
states) pass as well. Several named properties of the run are conjunctions of the modules' own -
`SessionsTrue`, `ThreadsTrue`, `MembersReached`, `LedgerHolds`, `CellsCurrent`, and, in `MCParts`, `EverythingEnds`.
`CHECK_DEADLOCK FALSE`: a bounded part runs out of work.

Why `sync` has no `"command"` and no `"undo"` among its hazards: with them `Converges` does not
hold of the code (section 6). `sync_safety` has both; its properties are those that survive. What a snapshot
that such a tab saves does to the server is `service`'s subject, where a save says anything as of any seq. `service`
leaves the half-written import out, which breaks `LiveIsFold` in the code. `service_faults` has a `VIEW` without `truth`
and `restated`: no guard and neither of its properties reads them.

Fairness (`sync_live`). Weak fairness of the browser's and server's own steps (`PostEvent`,
`PostSnapshot`, `Receive`, `ServeCatchUp`, `FoldCatchUp`, `Connect`): the event loop runs what is
ready, `requestRetry` (`app/src/remote-store.ts:39-55`) never gives up, and a closed socket is
reopened after two seconds (`app/src/feeds.ts:150-156`). Strong fairness of `Ack`: the network may
lose any answer but not every one. Nothing is assumed of users, agents, drops or losses.

Fairness (`parts`, for `EverythingEnds`). Weak fairness of the hold's timer of each question
(`app/routes/permissions.ts:35-45`, `app/routes/asks.ts:36-73`), which runs whether or not the asker is still there, of the
host that takes an answer and of the
server that folds an event (`RequestFairness`): timers and sockets on one machine. None is needed of the close of a
response: the timer ends what no close takes down. Weak fairness of the
steps of a kernel's start, of its socket's opening or failing, of a delete, of the close of a socket that
is closing or whose kernel is gone, and of the completion of a cell (`KernelFairness`): each is a bounded
request to the gateway, and a cell's code is assumed to terminate or to be interrupted, since the broker
puts no limit on it. The last is generous for a run that a restart of its kernel crosses or whose kernel dies without
its socket closing: the gateway, which is external, is assumed to answer or to close. Weak fairness of the kill that a teardown sends a vite it has waited for, and of the
supervisor's exit (`SupervisorFairness`): both waits have time limits (`KILL_TIMEOUT_MS`, and the requests to
the sidecars). Nothing is assumed of people, sessions or restarts.

Histories that except. Some properties hold except where the code does not keep them, and the exception is
a history variable, so that it cannot hide more than it says: `restated` (`LiveIsFold`, `CatchUpComplete`),
`loose` and `revived` (`ElementsWhole`), `vanished` (`ShownIsWaitedFor`, `DecisionsHold`), `forgotten` (`MentionsReach`), `overlapped` (`SessionHost`), `crossed` (`TurnViewsAgree`), `missed` and `orphaned`
(`Cells`), `restartsCrossed` (`OneStack`), `unseen` and `littered` (`LedgerHolds`), `unrecorded`,
`forsaken` and `lingers` (`LedgerTrue`), `excused` (`CardsShowDisk`). Section 6 says what happens there. In `parts` an append to a thread fails with
nothing written, or the machine stops before the fsync and the line is lost; the torn line is run `torn`. With three posts and a
tail of two, no read falls back to the file while a line is written and not synced; section 6 says what it would find.

Every property has a mutant: a plausible bug in a mapped definition (its "faulty variant", kept
beside the definition) under which TLC finds the property violated. `PROJECT.json` pairs them.

## 4. Proofs

`DataProofs` proves, for all `Ids`, `Vals` and `Absent` with `Absent \notin Vals`, that a diff
followed by its inverse changes nothing, that a transaction's diff is based on the records before it
and leads to those after it, and that a squash composes.

`EditorProofs` proves, from `NoBuffer \notin Buffers`, the bounds being naturals and
`GestureSources \subseteq Sources`, that the five properties of the `editor` run hold of `Spec` for
every instance. The inductive invariant is the conjunction of `TypeOK`, `MirrorIsCommitted`,
`BufferIsLive` and the fact that an open buffer has a gesture that owns it: the mirror is the committed store only because a commit's diff is built from values
the buffer agrees with, and a cancel restores the committed store only because an open buffer's
current values are the live atoms. The action properties `EmissionsChain` and `VersionToken` follow
step by step from that invariant: a step that emits applies the same diff to the mirror and to what
is committed, and a step that does not emit leaves the committed store alone.

Two modules hold what the other proofs keep needing. `DataProofs` is also about `LinesAt`, the recursive
function that reads a file whole and keeps the lines at some positions: its elements are the kept lines, in
their order, and `FoldRecords` of it is the fold of the kept lines. The library's induction theorems take
an operator as a parameter; here the two inductions needed, on the length of a file, are done with a set
in its place: the least natural number outside a set of good lengths is no successor of a good one
(`LeastNatural`, `NaturalInduction`). Queues of things that come once are its third subject
(`AppendOnce`, `TailOnce`). `BoardEngineProofs` says what the server's operations do
to the fold and to the watermark: an appended event is folded last (`FoldOfAppend`), a torn line changes nothing, a
later snapshot leaves every record as it was or as the snapshot states it (`FoldOfLater`), two snapshots of one seq that
agree on a record fold to the same there (`FoldOfAgreeing`), a compaction drops only what the snapshot absorbed.

`BoardServiceProofs` proves all seven properties of the service runs for every set of records, ids and bounds
(`BoundAssumption`, `NoIdAssumption`, `MarkerAssumption`, `AbsentAssumption`).

* `DedupWindow`: whether the next id is a resend is decided by the ring, so the invariant (`WindowInv`) adds that the
  ring is a window of what was recorded since the hydrate: its ids are the last ones, all of them or `RingCap`.
* `LiveIsFold`, `SeqsIncrease`, `CatchUpComplete` and the refinement of `BoardState` rest on one invariant, `BoardInv`. It
  adds to the first two that no seq `truth` knows is ahead of the files (`Known`), and that folding the log past any
  of them, within the kept tail, gives the board (`CaughtUp`) - record by record, but for those in `restated`. A save is
  not assumed to say what was committed: a record on which it differs joins `restated` (`Restates`), and leaves it with
  the next commit that touches it, whose event every later fold applies after the save. That the others still fold to the board
  is `CaughtUp` at the save's seq. Compaction preserves `LiveIsFold` only
  because of `CaughtUp`: what it drops is what the snapshot absorbed. The refinement needs no exception: the abstract board says what a save
  may do (`Save`), a record of it wins or loses but never mixes. These four theorems assume
  `"import" \notin Faults`: a half-written import leaves the resident store as it was (section 6).
* `WatermarksAdvance` needs no more than types and the watermark of the resident store, half-written imports
  included.

`BoardSyncProofs` proves six properties of the sync runs for every set of tabs, of records and of
ids, and every bound. The first four hold under every set of hazards:

* `TypeOK` and `NoEditLost` (`SavedInv`). An acknowledged edit is durable because the answer on its way names
  a durable seq (`AnswerTrue`), and that of a resend does because what the ring remembers is durable
  (`RingDurable`), up to what a snapshot `KeepTail` further on allows to go.
* `OrderKept` (`OrderInv`). Two events of one tab are in the log in the order they were minted because the queue holds
  a tail of what the tab minted, in its order (`BehindIt`, `QueuedOnce`), only its head may be logged already
  (`NotYetLogged`), and no id is minted twice (`Fresh`, `MintedOnce`).
* `WatermarkEarned` (`EarnedInv`). A watermark rises by an edit, which is then queued, or to a seq the server gave out: every
  seq in a frame, reply, answer or snapshot is at most the server's, or counted by the unlogged events
  queued before it (`SeqsSeen`, `Pending`).
* `ReadersFollow` (`ReadInv`), if no page is reloaded and the log is never compacted below a reader (`KeepTail >=
  MaxSeq`; run `sync` has both). A reader's store *shows* the events up to its watermark: every
  record is as the last of them that touches it left it (`Shows`). Frames, replies and resent events are events of the
  log (`FramesTrue`, `RepliesTrue`, `ResendsTrue`), and a reply has all events between what was asked for and its
  last one, so folding its part past the watermark skips nothing although frames moved the watermark
  while it was on its way.
* `Converges` (`ConvergeInv`), if one tab writes, any number read, and of the hazards sockets drop, the server restarts and the
  log is compacted (`Alone`; run `sync` is an instance). Each hazard left out breaks it in the code (section 6). The writer's
  provisional seqs are the server's: the log holds the writer's edits, in order and without a gap, up to the server's watermark, and
  the queue holds the rest (`InStep`, `Contiguous`, `WriterAhead`). So what the writer will have committed is a set of events that
  is known before they are sent (`Plan`), and every store and snapshot, its own, a reader's, a queued one, the files' and the live
  store's, shows that set up to its seq (`WriterShows`, `SnapshotsShow`, `FilesShow`, `LiveShows`). That a reader ends at
  the last of them is `Covered`: whatever is past its watermark is in a frame, is in a reply, will be asked for, or
  leaves a gap that asks for it.

`SessionProofs` proves `SeatsHold` and `LiveSeatKept` for all sets of sessions, roles and documents
(`SeatAssumption`). The invariant adds to the types and to the two halves of `SeatsHold` that only a known
session still has a surface it was spawned for: without it, an adoption could bring back a worker whose
claim went with the server.

`PartsProofs` proves `PressesClean` for every set of presses that are not tools (`PressesAssumption`).
`GesturesHeld` speaks of the set of holders; the proof replaces it by the three kinds of holder
(`HoldersAreHeld`) and adds that the pan of the middle button and the press of the left one exclude each
other, because the release of a pan leaves the rest of the manager alone.

`PartsProofs` proves `OneKernelPerNotebook` for all sets of notebooks and runs and any bounds. That a start
finds no kernel is known because a start in flight is what every other run joins; so the invariant
relates three things: a notebook with a start in flight has no entry in the registry, an opening socket
is the one its start waits for, an open one is the registry's.

`SessionProofs` proves `DecisionsHold` for all sets of requests. An asker that hangs up may still be shown, so a decision
may be confirmed that nobody hears (`vanished`); for all others a confirmed decision is what the asker has, because the entry goes
with the first answer. The case that needs an argument is an
approval the host holds: the server must not be able to offer it twice, or a second decision could
contradict the first. The invariant says so by order: an approval is announced once, is not shown while
its announcement is still to come, and once decided is neither shown nor announced again, while its
decision is on its way for as long as the host holds it. A restart keeps this because the new server
lists what the host holds after the host took the old one's answers.

`ShownIsWaitedFor` speaks of the moments when nothing is under way, the handling of a closed response included, and
excepts the asks whose asker hung up: their route has no handler of the close (`app/routes/asks.ts:36-73`), so
they stay shown until their timer. What makes these moments consistent is the order of
the host's events (`ShownInv`): what is held but not shown has its event or its answer under way, what is shown but no
longer held has the event that takes it down under way, and never before the one that shows it.

`EditorProofs` proves `OwnHistoryUndoable` of `RollBackSpec`, that is with gestures, inbound diffs, answers and
refusals, for all records and any length of history. The property is stated with the nearest entry above that touches a
record; the invariant (`UndoInv`) says the same of neighbours - of the entries that touch a record, each starts
where the next one up ends, the top one at what the mirror holds, the bottom of the undo stack at the record's
first value (`Linked`, `Bottoms`). In that form a push, a pop and the loss of an entry that does not touch the record keep it.
A refusal that removes an entry which does touch the record makes the record foreign, as the rollback itself is a foreign diff.

`PartsProofs` proves `ElementsWhole` for all sets of cards, wires and looks, from the three kinds of ids being apart
(`ElementAssumption`). What an undo does to a card was decided when its command ran, so the invariant speaks of the
stacks: every diff on them adds a card's node and layout together or neither, and takes them together or neither
(`CardDiffs`). A diff is put whatever the store holds by now (`Applied`), so a card stays whole under it unless the diff updates one of
its records and that record is gone: then the card is in `revived`. The peer's cards are as whole as the tab's, `revived`
aside, since the peer's records are the tab's of some moment and its own commands since; and a wire whose end
goes unnoticed is one on which the two differ (`loose`).

`SessionProofs` proves `ThreadsTrue`, `AcceptedSurvives` and `MembersReached` for all sets of sends and sessions, any tail, any
number of attempts and restarts.

* `ThreadsTrue`, `AcceptedSurvives` (`LogInv`): the n-th line of the ledger has seq n, the tail in memory is the tail of the lines that
  have landed - all but the one between its write and its fsync, which is the ledger's last and the head of the queue's
  - and a send without a key is in one place: not tried, in the queue, or in the ledger. They assume `"torn" \notin
  ThreadFaults`: a torn line breaks them in the code (run `torn`).
* `CursorEarned` (`CursorInv`): not only the cursor in memory but the saved one must be earned, as a restart
  brings it back; it may even be ahead of the other, when a read from the file saw a line that had not landed and the next read came from
  memory. And no cursor is ahead of the ledger, or the next line would be behind it unseen. That is what fails when the machine stops
  before the fsync (section 6), so this theorem assumes `"lost" \notin ThreadFaults` as well.
* `MentionsReach` (`MentionInv`): a wake, a turn's end and a read each settle everything a session has in the tail, so
  no mention is left when a later one has been told.

`PartsProofs` proves `OneStack` for any number of vites, restarts and
tolerated crashes (`SupervisorAssumption`). An exit during a restart is ignored by the crash handler
(`app/dev-supervisor.js`), so a stack without a server (`ServerKept`) could arise if the flag outlived the exits it waits for.
The invariant says it does not: while `restarting` is up, some vite whose exit brings a new one still runs
(`RestartAwaits`), and a vite whose exit is awaited is one that runs (`AwaitedRun`). `OneVite` needs that a
respawn is pending only while no vite runs, and that the one restart waits for the held vite.

`SessionProofs` proves `TurnViewsAgree` for all inputs, and any number of spawns and timeouts, given that `NoRpc` is no request and
no message. The router believes what it read last, so at rest the last notification in the stream must decide what it will believe. The
invariant (`CodexInv`) says so: while notifications are in the stream the last of them is the turn's
state, with none there the router holds that state itself, and the start of a turn is notified right behind the
answer that names it. A queued input is on the tail, or is the one whose answer is awaited.

`SessionProofs` proves `SessionsTrue` for all sets of session ids and any number of objects, prompts and deaths of either side, given
that `NoProc` is no process record. The two processes agree only when the socket is silent; the invariant (`HostInv`) says for
every moment that the frames on the socket make up the difference. A live session without a process is
to be spawned or its end is on the way (`AliveHasProcess`); a session shown running without work has a prompt, its result or
its end to come (`RunningWillRest`); a process the server does not hold is to be killed (`UnseenIsKilled`). Where a
restarted side still waits for the list, the list makes up the difference. Lists tell what ran when they were made, and nothing
that has ended since without its exit behind them (`ListsTell`, `ListsAreComplete`); an exit recorded while nobody listened belongs to an
old object, and is acknowledged (`BacklogIsOld`, `BacklogIsAcked`); a marker names the way the process ended.

`PartsProofs` proves `CardsShowDisk` for any number of changes and faults, given that `NotRead` is no version, no
listing and no answer. Three things may be stale, a body, a tombstone and a listing; for each the invariant
(`CacheInv`) says at every moment: the watcher has yet to tell of the last change, or the
last event under way tells of it, or it is asked for and not yet served, or is in an answer under way, or the tab
shows it, or the tab is excused. No answer and nothing cached is newer than the disk (`NoNewer`).

`SessionProofs` proves `LedgerHolds` for all sets of paths and sessions and any number of writes, edits and faults. The
floor is complete at rest because every dirty file has a commit to come (`Awaited`): a notice or a timer, a claim, or
a job of the chain that will take its present version. The case that needs care is a
write behind the staging of a session's own commit, which gives the claim up (`WrittenBehind`): that write has its notice, is in a
later job, or is let go of (`unseen`). That commits name the right session rests on what the
jobs of the chain were queued for (`JobsEarned`), and on the index being the head but for what the running
commit staged (`IndexIsTheRunning`), unless a failing step left something in it (`littered`).

`PartsProofs` proves `LedgerTrue` and `HealsAtOnce` for all sets of annotations, texts and replacements, any edits and events, and
any length of the tail that is read (`AnnotationAssumption`; in run `parts` the tail holds all three events). The invariant
(`NoteInv`) has to say what a longer ledger does to what is read of it. One event more may push another annotation's
creation out of the tail; that a fold which begins later knows fewer annotations but says the same of
those it knows (`LaterFold`) holds because an annotation is created once (`CreatedOnce`). That a healing moves
anchors and decides nothing (`HealingKeeps`) is shown for any number of its events, since it writes one for each
annotation it found; where a quote is found matters only in that the quote is there (`AnchorStands`, `FoundIsQuote`). A
suggestion whose accept was not written can be accepted again, so how often it is in the text is counted with that
accept (`AppliedIsTold`). The inductions, on the number of events, are done as for `LinesAt`.

`PartsProofs` proves `CellsCurrent` for all cards, cells, texts, files and values and every function `Eval`, any number
of edits and crashes, and turns of any length (`CellsAssumption`). A turn of the page is a chain of calls, and
between a changed export and the marks it causes a pane is out of date, so the invariant (`Sound`) holds in the middle of a
turn too, and speaks of what the calls still to be made owe: the cells they will mark, the cards whose cycles they will look
for, the cells whose return is not over, the cards they will tick. Each function of the scheduler pays what it was
called for and may leave new debts (`TriggerKeeps` and its like); at the end of the turn nothing is owed. That a tick may stop
when no cell is ready rests on a fact about graphs (`NoneReadyNoneQueued`): where nothing runs and none of the
queued cells is ready, each waits for another, so they are a cycle, whose cells are never queued.

What the proofs changed. They found the model wrong where TLC had not looked. `Cells`: a cell queued while a run of its own is in
flight is taken off the queue by the reply, whatever queued it, so `missed` is now set where that happens (`Trigger`), for a
queued cell only then; `NobodyStranded` had a queued
cell wait for one it reads; a manual cell marked in the queue leaves it without waking its readers, so what holds, and is now said, is that
some cell of the card runs, whose return starts them. `Annotations`: two cases of a decision
overlapped. `UNION A \ B` is read differently by SANY and by `tlapm` and has parentheses everywhere.

`TypesProofs` proves `TypesOK`: `PartsSpec` is a behaviour of every part (`PartsStep`), and each keeps its types. What needs an
argument is that what is bounded keeps its bound, because a bound is often checked in one place and used up in another.
A session's prompts are counted over the socket, its process and the results under way (`PromptsBounded`), and a step moves
one from place to place or loses it; this takes lemmas on how often a value occurs in a sequence (`OccurrencesTail`). The
supervisor's respawns and vites stay within what was spawned (`StackBounds`); every message of a Codex session names a turn that was
started (`TurnsNamed`); a thread's tail is within its cap on a torn disk too, since what is read back are the lines that
parse (`ReadableAreLines`). The bounds are parameters of the models; they are natural numbers, some of them not 0, and no more is assumed of them.

Only model-checked: liveness (`EditsLand`, `TabsCatchUp`, `EverythingEnds`), which with `ENABLED` is outside the
prover's reach.

## 5. Not modelled

`PROJECT.json` names every component with its reason. In short: presentation, formatting, feeds and
pure I/O are left aside for good; scheduled jobs and worktrees are planned (section 7).

## 6. Where the code and its documentation part

Shown by runs:

1. `race` / `Converges` (`app/src/agentBus.ts:57`). A tab gives its edit the next seq before the
   server does. A command the server commits at that very seq reaches the tab as a frame it already
   "has", so the tab never shows it. The snapshot the tab then saves is stamped with a seq whose
   commit it does not contain, so the files lose the command too, while the live store keeps it: in `BoardService` a save
   that puts a record in `restated` (`core/src/persist.ts:233-236` argues the stamp is safe).
2. `resurrect` / `UndoNeverResurrects` (`core/src/undo.ts:12-14`). Undo of an update brings a record
   back that somebody else has removed.
3. `once` / `ExactlyOnce` (`app/board-engine.ts:260-262`). A resend after a restart is appended twice.
4. `torn` / `AcceptedSurvives` (`app/thread-ledger.js:93-102`). A line torn by a crash swallows the next post,
   which was answered 200 (`app/routes/threads.ts:154-155`); `appendBoardEvent` repairs such a tail.

Met while modelling, each reproducible with the modules by changing the constants or properties of a
run, and not given a run of its own:

| what | how to see it |
|---|---|
| An inbound diff that joins an open gesture is appended to this tab's own event (`app/src/agentBus.ts:9-13` says it never is). | `RemoteNeverEchoed` as a property of `MCEditor.cfg` |
| After a refusal the undo entry forgotten is the topmost of its key, which may be a later edit's (`core/src/undo.ts:62-68`). | `RejectedIsForgotten` as an invariant of `MCRollBack.cfg` |
| An import whose snapshot write throws leaves the resident store behind the files (`app/board-engine.ts:135`). | `"import"` in `Faults` of `MCBoardService.cfg`: `LiveIsFold` |
| A catch-up trigger that comes during a run is ignored, though the answer on its way may predate what it asked for (`app/src/agentBus.ts:36`). | `"lateReply"`, `"drop"`, `"command"` in `MCBoardSync.cfg` without writers: `Converges` |
| A tab behind the kept tail gets an incomplete catch-up and no notice of it (`app/board-persist.js:203-205`). | `KeepTail = 0` with `"command"`, `"drop"`, `"compact"`, no writers: `Converges` |
| A snapshot as of a committed seq whose records are not those of that commit is written, and the resident store keeps its own: the route compares seqs, and a store is dropped only for a file that is ahead (`app/routes/board-persist.ts:56-86`, `app/board-engine.ts:156`, against `app/board-engine.ts:23-25`). Such a snapshot comes from a tab that raced a command, and from one that has undone or redone, which append no event (acknowledged in `docs/undo-scrubbing-and-history.md:58-59`). | `LiveIsFold` without its `id \in restated` |
| Commits between a page's boot fetch and its first connection are not asked for (`app/src/feeds.ts:146-147` against `app/src/agentBus.ts:31-33`). | `"command"`, `"reload"`, no writers: `Converges` |
| A resent event that was already caught up is folded twice by its peers; reconciling the pending queue by id (`docs/board-engine-stage3-commit-over-the-wire.md:185-191`) is not implemented. | `"lostAck"`, `"restart"`, `"drop"`, one tab, `MaxSeq = 4`: `Converges` |
| A commit made while a gesture is open logs an event with an empty diff, and cancelling the gesture reverts it (`core/src/editor.ts:37-43`). | `Commit` from a state with an open buffer in `Editor` |

Met in the newer parts; where a property excepts one, the history variable is named:

| what | where |
|---|---|
| A write that lands and whose fsync throws is answered 500 and not remembered: its retry is written again. | `app/server-delivery.ts:191-200` |
| An inbox read that falls back to the file is served a post whose fsync is still out, before it is "live" (`app/server-delivery.ts:191-192`). When the machine stops then, the line is gone, its seq goes to the next post, and the session's saved cursor has passed it (`app/cas-guard.js:58-59` has that excluded by construction): `CursorEarned` as the invariant of `MCThreadLogTorn.cfg` with all four posts in `Sends`, `MaxThreadMsgs = 1`, `Keyed = {}` and `ThreadFaults = {"lost"}`. | `app/routes/inbox.ts:125` |
| A restart forgets owed nudges and deferred wakes; the member reads the mention only when something else prompts it (`forgotten`). | `app/server-delivery.ts:213-321` |
| A mention of a role whose claimed worker has left its seat nudges nobody. | `app/routes/threads.ts:290` |
| A "done" intent survives leaving and rejoining, so the next detach sweep removes the member again. | `app/server-orchestration.ts:638` |
| A member's edge left on the board by the sweep records its membership again at the next boot. | `app/server-snapshot.ts:85-90` |
| Undoing the removal of a card may bring back a wire whose other end a peer has removed (`loose`). | `core/src/commands.ts:54` |
| A card removed by one writer while another draws a wire to it leaves the wire without an end: each removal takes the wires its own writer knows (`loose`). | `core/src/commands.ts:54` |
| An update of a record that is gone puts it back: a peer's move or rename, or the undo of one, of a card removed meanwhile leaves half a card, a node without a layout or a layout without its node (`revived`). | `core/src/store.ts:115-121, 178-188` |
| A permission decided between the relay's abort and the server's handling of the closed response is confirmed to whoever decided and heard by nobody; the relay has denied (`vanished`). | `app/routes/permissions.ts:46-57`, `app/permission-prompt-mcp.js:54-64` |
| An ask whose asker has hung up stays shown until its timer, as the route has no handler of the close, and a reply to it is answered 200 and reaches nobody (`vanished`). | `app/routes/asks.ts:36-73, 112-120` |
| A session resumed before the host's list has come, or while its last process is still going, is refused by the host and shown crashed, or is missed by the adoption (`overlapped`). | `app/server-sessions.ts:725-836` |
| The notification of a turn's end in the same chunk as the answer that started it is handled first; the router then holds on to a finished turn and refuses every prompt (`crossed`). | `app/codex-session-router.js:107-108` |
| A kill in the middle of a Codex spawn leaves a thread bound to no session (`crossed`). | `app/session-host.js:242-244` |
| The sweep of a new server deletes a kernel another notebook has just created. | `app/server-kernel.ts:211-216` |
| A start whose socket fails leaves its kernel on the gateway until the next server's sweep. | `app/server-kernel.ts:314-317` |
| An idle timer re-armed by a restart's answer outlives its kernel and reaps the notebook's next one. | `app/server-kernel.ts:426-428` |
| A manual cell dirtied while its run is in flight is marked current by the reply; a cell queued while its run is in flight, as the next row and a broken cycle leave it, is taken off the queue by that run's reply (`missed`). | `app/src/notebook-runtime.ts:764-785, 912-972` |
| A superseded reply spends the redo of the run that superseded it (`missed`). | `app/src/notebook-runtime.ts:975-983` |
| A crashed worker settles its own cells and does not call the scheduler: cells queued behind them wait (`orphaned`). | `app/src/notebook-runtime.ts:326-336` |
| A card that closes tells none of the cells elsewhere that read its exports; cycles across cards are not found. | `app/src/notebook-runtime.ts:1068-1093` |
| A restart asked for during a respawn, another restart or a stop, or of a vite that is deaf to SIGTERM, leaves two vites, or one that outlives the stack (`restartsCrossed`; `app/dev-supervisor.js:10` has "ONE Ctrl-C reaps everything"). | `app/dev-supervisor.js:185, 233-237` |
| A session that dies inside a tool call leaves its claim for ever: the floor never commits that file again (`docs/shadow-git-ledger.md:127` has it complete). | `app/server-orchestration.ts:993` |
| A write while the attributed commit of its file runs is excluded by the floor and missed by the commit; with no later event it stays uncommitted (`unseen`). | `app/shadow-git.js` |
| A commit that fails after `git add` leaves the files staged; the next commit takes them under its own author (`littered`). | `app/shadow-git.js` |
| A write between the reconciling commit and the end of the watcher's first scan is seen by neither (`unseen`). | `app/shadow-git.js` |
| A blocking question that is reopened does not arm its watcher again: its answer wakes nobody (`forsaken`). | `app/routes/annotations.ts` |
| A watcher's marker that cannot be written is not noticed: the question is asked, and its answer wakes nobody (`forsaken`). One that cannot be removed outlives the last question (`lingers`). | `app/doc-watch.js:50-58, 104-118` |
| An accept whose ledger write fails leaves the text changed and the suggestion open; accepting it again splices it in twice (`unrecorded`). | `app/routes/annotations.ts` |
| After a reconnection, or after a time without a watch, what the tab holds is not fetched again (`excused`). | `app/src/feeds.ts`, `app/src/loader.ts` |
| A listing asked for while one is under way is dropped, though that one may have been served already (`excused`). | `app/src/loader.ts` |
| Answers to two refetches, or to a save and a refetch, may come in the wrong order, and the older one stays (`excused`). | `app/src/loader.ts`, `app/src/content.ts` |

## 7. Plan

1. Done: `RecordsDiff`, `Editor`, `UndoManager`, `RollBack`; `BoardEngine`, `BoardState`,
   `BoardService`, `BoardSync`; the runs above; the proofs of section 4.
2. Done: `Elements`, `Tools`, `ThreadLog`, `Seats`, `Requests`, `SessionHost`, `CodexTurns`, `Kernels`, `Cells`; the
   run `parts`; their proofs.
3. Done: `Supervisor`, `ShadowLedger`, `Annotations`, `FileCache` as further parts of `parts`, and their
   proofs.
4. Extend the model: standing jobs and the coordinator's heartbeat; worktrees and their claims; the folds that
   render a thread.
5. State `Hydrate`: `Persistence.hydrate`, the server's fold and the boot payload as three
   definitions of one function, legacy seqless logs included, checked against each other.
