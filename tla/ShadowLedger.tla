---------------------------- MODULE ShadowLedger ----------------------------
(***************************************************************************)
(* The shadow git ledger of one root: a watcher that commits what settles, *)
(* leaving to a session's own commit the files its tool calls have         *)
(* claimed, all commits in a chain (shadow-git.js, server-orchestration.ts).*)
(*                                                                         *)
(* A write gives a file a new version; git's index and HEAD hold versions. *)
(***************************************************************************)
EXTENDS Integers, Sequences, FiniteSets

CONSTANTS
    Paths, Editors,     \* files of the root; sessions whose tools edit them
    External,           \* the floor's author
    MaxWrites, MaxEdits, MaxLedgerFaults    \* bounds: the faults are commits that fail and restarts

ASSUME LedgerAssumption ==
    /\ External \notin Editors
    /\ MaxWrites \in Nat /\ MaxEdits \in Nat /\ MaxLedgerFaults \in Nat

VARIABLES
    disk, index, head,  \* path -> version
    blame,              \* path -> the author of the commit that holds head's version
    noticed,            \* whether the watcher has seen a write it has yet to tell of
    ready,              \* whether the watcher's initial scan is over
    timer,              \* whether the settle timer runs
    claimed,
    chain,              \* the lock's chain of commits: [by, path, exclude]; path is a set
    staged,             \* whether the chain's first commit has staged its files
    pendingEdits,       \* session -> the paths of its calls without a result
    edited,             \* history: the edits of each session that have a result
    unseen,             \* history: files the floor has let go of
    littered,           \* history: a commit failed or was cut short after its files were staged
    ledgerCounts        \* writes, edits and faults so far

treeVars == <<disk, index, head, blame>>
watchVars == <<noticed, ready, timer>>
chainVars == <<chain, staged>>
ledgerVars == <<treeVars, watchVars, claimed, chainVars, pendingEdits, edited, unseen, littered, ledgerCounts>>

Counted(what, bound) ==
    ledgerCounts[what] < bound /\ ledgerCounts' = [ledgerCounts EXCEPT ![what] = @ + 1]

FloorCommit(exclude) == [by |-> External, paths |-> {}, exclude |-> exclude]
PathCommit(s, p) == [by |-> s, paths |-> {p}, exclude |-> {}]

\* syncShadowRoots: the reconciling commit is queued, then the watch begins.
LedgerInit ==
    /\ disk = [p \in Paths |-> 0] /\ index = disk /\ head = disk /\ blame = [p \in Paths |-> External]
    /\ noticed = FALSE /\ ready = FALSE /\ timer = FALSE /\ claimed = {}
    /\ chain = <<FloorCommit({})>> /\ staged = FALSE
    /\ pendingEdits = [s \in Editors |-> {}] /\ edited = [s \in Editors |-> {}]
    /\ unseen = {} /\ littered = FALSE
    /\ ledgerCounts = [write |-> 0, edit |-> 0, fault |-> 0]

\* Anybody writes a file; before the watcher's scan is over the write may go unseen.
WriteFile(p) ==
    /\ Counted("write", MaxWrites) /\ disk' = [disk EXCEPT ![p] = ledgerCounts'.write]
    /\ \/ noticed' = TRUE /\ UNCHANGED unseen
       \/ ~ready /\ unseen' = unseen \cup {p} /\ UNCHANGED noticed
    /\ UNCHANGED <<index, head, blame, ready, timer, claimed, chainVars, pendingEdits, edited, littered>>

WatchReady ==
    /\ ~ready /\ ready' = TRUE
    /\ UNCHANGED <<treeVars, noticed, timer, claimed, chainVars, pendingEdits, edited, unseen, littered,
                   ledgerCounts>>

\* settle: every event starts the timer again.
Settles ==
    /\ noticed /\ noticed' = FALSE /\ timer' = TRUE
    /\ UNCHANGED <<treeVars, ready, claimed, chainVars, pendingEdits, edited, unseen, littered, ledgerCounts>>

\* The paths of attributed commits that are queued or run.
Committing == UNION {chain[i].paths : i \in DOMAIN chain}

Dirty == {p \in Paths : disk[p] # head[p]}

\* fire: the claims of this moment are what the commit will leave out, whenever it runs.  A claim that
\* only its running commit still holds keeps a later write from both.
Fire ==
    /\ timer /\ timer' = FALSE /\ chain' = Append(chain, FloorCommit(claimed))
    /\ unseen' = unseen \cup (claimed \cap Committing \cap Dirty)
    /\ UNCHANGED <<treeVars, noticed, ready, claimed, staged, pendingEdits, edited, littered, ledgerCounts>>

\* foldShadowEdits on a tool call.
ToolUse(s, p) ==
    /\ p \notin pendingEdits[s] /\ Counted("edit", MaxEdits)
    /\ claimed' = claimed \cup {p} /\ pendingEdits' = [pendingEdits EXCEPT ![s] = @ \cup {p}]
    /\ UNCHANGED <<treeVars, watchVars, chainVars, edited, unseen, littered>>

\* Faulty variant of ToolResult: a result only releases the claim.
ToolResultReleases(s, p) ==
    /\ p \in pendingEdits[s] /\ pendingEdits' = [pendingEdits EXCEPT ![s] = @ \ {p}]
    /\ edited' = [edited EXCEPT ![s] = @ \cup {p}] /\ claimed' = claimed \ {p}
    /\ UNCHANGED <<treeVars, watchVars, chainVars, unseen, littered, ledgerCounts>>

\* ... and on its result: the path's own commit.
ToolResult(s, p) ==
    /\ p \in pendingEdits[s] /\ pendingEdits' = [pendingEdits EXCEPT ![s] = @ \ {p}]
    /\ edited' = [edited EXCEPT ![s] = @ \cup {p}] /\ chain' = Append(chain, PathCommit(s, p))
    /\ UNCHANGED <<treeVars, watchVars, claimed, staged, unseen, littered, ledgerCounts>>

\* A session ends inside a call: its claim is nobody's to release.
EditorDies(s) ==
    /\ pendingEdits[s] # {} /\ pendingEdits' = [pendingEdits EXCEPT ![s] = {}]
    /\ UNCHANGED <<treeVars, watchVars, claimed, chainVars, edited, unseen, littered, ledgerCounts>>

\* Faulty variant of StagedPaths: the whole tree under the session's name.
StagedAll(job) == Paths \ job.exclude

\* What a commit stages: its paths, or every file but those it leaves out.
StagedPaths(job) == IF job.by = External THEN Paths \ job.exclude ELSE job.paths

\* What is left out is unstaged again.
Stage ==
    /\ chain # <<>> /\ ~staged /\ staged' = TRUE
    /\ index' = [p \in Paths |-> IF p \in StagedPaths(chain[1]) THEN disk[p]
                                 ELSE IF p \in chain[1].exclude THEN head[p] ELSE index[p]]
    /\ UNCHANGED <<disk, head, blame, watchVars, claimed, chain, pendingEdits, edited, unseen, littered,
                   ledgerCounts>>

\* The chain goes on whatever became of its first commit, which gives up the claim of its path.
FirstDone == chain' = Tail(chain) /\ staged' = FALSE /\ claimed' = claimed \ chain[1].paths

\* git commit takes the whole index.
CommitStaged ==
    /\ chain # <<>> /\ staged /\ FirstDone /\ head' = index
    /\ blame' = [p \in Paths |-> IF index[p] # head[p] THEN chain[1].by ELSE blame[p]]
    /\ unseen' = {p \in unseen : ~(p \in StagedPaths(chain[1]) /\ disk[p] = index[p])}
    /\ UNCHANGED <<disk, index, watchVars, pendingEdits, edited, littered, ledgerCounts>>

\* One of git's steps fails, before anything is staged or after; nothing is tried again.
GitFails ==
    /\ chain # <<>> /\ Counted("fault", MaxLedgerFaults) /\ FirstDone
    /\ littered' = (littered \/ staged) /\ unseen' = unseen \cup (StagedPaths(chain[1]) \cap Dirty)
    /\ UNCHANGED <<treeVars, watchVars, pendingEdits, edited>>

RestartLedger ==
    /\ Counted("fault", MaxLedgerFaults)
    /\ noticed' = FALSE /\ ready' = FALSE /\ timer' = FALSE /\ claimed' = {}
    /\ chain' = <<FloorCommit({})>> /\ staged' = FALSE /\ pendingEdits' = [s \in Editors |-> {}]
    /\ littered' = (littered \/ staged) /\ UNCHANGED <<treeVars, edited, unseen>>

LedgerNext ==
    \/ \E p \in Paths : WriteFile(p) \/ \E s \in Editors : ToolUse(s, p) \/ ToolResult(s, p)
    \/ \E s \in Editors : EditorDies(s)
    \/ WatchReady \/ Settles \/ Fire \/ Stage \/ CommitStaged \/ GitFails \/ RestartLedger

LedgerSpec == LedgerInit /\ [][LedgerNext]_ledgerVars

-----------------------------------------------------------------------------
LedgerTypeOK ==
    /\ {disk, index, head} \subseteq [Paths -> 0..MaxWrites] /\ blame \in [Paths -> Editors \cup {External}]
    /\ noticed \in BOOLEAN /\ ready \in BOOLEAN /\ timer \in BOOLEAN /\ staged \in BOOLEAN /\ littered \in BOOLEAN
    /\ claimed \subseteq Paths /\ unseen \subseteq Paths
    /\ pendingEdits \in [Editors -> SUBSET Paths] /\ edited \in [Editors -> SUBSET Paths]
    /\ \A i \in DOMAIN chain : chain[i].paths \subseteq Paths /\ chain[i].exclude \subseteq Paths
    /\ staged => chain # <<>>

\* What a file's last commit says of its author is true: a session is named only for a file it has
\* edited, unless a failed commit left files of others staged.
CommitsTruthful ==
    \A p \in Paths : ~littered /\ blame[p] # External => p \in edited[blame[p]]

\* The floor is complete: once nothing is on its way, a file that differs from the ledger is claimed,
\* or is one the floor has let go of.
FloorComplete ==
    ~noticed /\ ~timer /\ chain = <<>> => Dirty \subseteq claimed \cup unseen

\* The floor of the shadow ledger is complete and names its authors truly.
LedgerHolds == CommitsTruthful /\ FloorComplete
=============================================================================
