---------------------------- MODULE TypesProofs -----------------------------
(***************************************************************************)
(* Every reachable state of the thirteen parts that MCParts runs is well   *)
(* typed, for all values of the constants.  Five of them have that in the  *)
(* invariants of their own proofs; here are the other eight.  A type       *)
(* invariant says more than kinds of values: what a model bounds - a       *)
(* queue, a cache, a counter - keeps its bound, and what names a turn, a   *)
(* version or a process names one that there has been.                     *)
(***************************************************************************)
EXTENDS MCParts, PartsProofs, SessionProofs, FiniteSetTheorems, FunctionTheorems
-----------------------------------------------------------------------------
(***************************************************************************)
(* The elements of a board.                                                *)
(***************************************************************************)
CommandsCounted == issued \in 0..MaxActs

\* Every reachable state of a tab's records and of its undo and redo stacks is well typed.
THEOREM ElementsKeepTypes == ElementsSpec => []ElementsTypeOK
<1>1. CommandsCounted /\ [ElementsNext]_elementVars => CommandsCounted'
  <2> SUFFICES ASSUME issued \in 0..MaxActs, [ElementsNext]_elementVars PROVE issued' \in 0..MaxActs
    BY DEF CommandsCounted
  <2>1. CASE Command
    BY <2>1, ElementAssumption DEF Command
  <2>2. CASE Remote \/ PeerCatchesUp \/ Undo \/ Redo \/ UNCHANGED elementVars
    BY <2>2 DEF Remote, PeerCatchesUp, Undo, Redo, Step, elementVars
  <2> QED
    BY <2>1, <2>2 DEF ElementsNext
<1>2. ElementsInit => CommandsCounted
  BY ElementAssumption DEF ElementsInit, CommandsCounted
<1>3. ASSUME NEW good, NEW d \in CardDiffs(good) PROVE IsDiff(d)
  <2>1. d \in Diffs
    BY DEF CardDiffs
  <2>2. PICK S \in SUBSET Ids : d \in [S -> Change]
    BY <2>1 DEF Diffs
  <2>3. \A id \in DOMAIN d : d[id].from \in Slot /\ d[id].to \in Slot
    BY <2>2 DEF Change, Touch
  <2> QED
    BY <2>2, <2>3 DEF Slot, IsDiff
<1>4. ElementsInv /\ CommandsCounted => ElementsTypeOK
  <2> SUFFICES ASSUME ElementsInv, CommandsCounted PROVE ElementsTypeOK
    OBVIOUS
  <2>1. acts \in Seq(CardDiffs(GoodCards)) /\ redone \in Seq(CardDiffs(GoodCards))
    BY DEF ElementsInv
  <2>2. /\ \A i \in DOMAIN acts : acts[i] \in CardDiffs(GoodCards)
        /\ \A i \in DOMAIN redone : redone[i] \in CardDiffs(GoodCards)
    BY <2>1
  <2> QED
    BY <1>3, <2>2 DEF ElementsInv, SoundRecords, ElementsTypeOK, CommandsCounted
<1> QED
  BY <1>1, <1>2, <1>4, ElementsInvInit, ElementsInvStep, PTL DEF ElementsSpec

-----------------------------------------------------------------------------
(***************************************************************************)
(* The shadow ledger.                                                      *)
(***************************************************************************)
WritesBounded ==
    /\ ledgerCounts.write <= MaxWrites
    /\ ready \in BOOLEAN /\ littered \in BOOLEAN /\ unseen \subseteq Paths

LEMMA WritesStep == LedgerInv /\ WritesBounded /\ [LedgerNext]_ledgerVars => WritesBounded'
<1> SUFFICES ASSUME LedgerInv, WritesBounded, [LedgerNext]_ledgerVars PROVE WritesBounded'
  OBVIOUS
<1>0. ledgerCounts \in [write : Nat, edit : Nat, fault : Nat] /\ claimed \subseteq Paths /\ staged \in BOOLEAN
  BY DEF LedgerInv, LedgerTyped
<1>1. ASSUME NEW p \in Paths, WriteFile(p) PROVE WritesBounded'
  <2>1. ledgerCounts'.write <= MaxWrites
    BY <1>0, <1>1, LedgerAssumption DEF WriteFile, Counted
  <2> QED
    BY <1>1, <2>1 DEF WriteFile, WritesBounded
<1>2. CASE Settles \/ WatchReady \/ Fire \/ Stage \/ CommitStaged
  BY <1>0, <1>2
  DEF Settles, WatchReady, Fire, Stage, CommitStaged, WritesBounded, treeVars, watchVars, chainVars
<1>3. ASSUME NEW s \in Editors,
             EditorDies(s) \/ \E p \in Paths : ToolUse(s, p) \/ ToolResult(s, p)
      PROVE  WritesBounded'
  <2>1. ledgerCounts'.write = ledgerCounts.write
    BY <1>0, <1>3 DEF EditorDies, ToolUse, ToolResult, Counted
  <2> QED
    BY <1>3, <2>1 DEF EditorDies, ToolUse, ToolResult, WritesBounded, watchVars
<1>4. CASE GitFails \/ RestartLedger
  <2>1. ledgerCounts'.write = ledgerCounts.write
    BY <1>0, <1>4 DEF GitFails, RestartLedger, Counted
  <2>2. ready' \in BOOLEAN /\ littered' \in BOOLEAN
    BY <1>0, <1>4 DEF GitFails, RestartLedger, watchVars, WritesBounded
  <2>3. unseen' \subseteq Paths
    BY <1>4 DEF GitFails, RestartLedger, Dirty, WritesBounded
  <2> QED
    BY <2>1, <2>2, <2>3 DEF WritesBounded
<1>5. CASE UNCHANGED ledgerVars
  BY <1>5 DEF WritesBounded, ledgerVars, watchVars
<1> QED
  BY <1>1, <1>2, <1>3, <1>4, <1>5 DEF LedgerNext

\* Every reachable state of the shadow ledger is well typed, and no tree has a version nobody wrote.
THEOREM LedgerKeepsTypes == LedgerSpec => []LedgerTypeOK
<1>1. LedgerInit => WritesBounded
  <2> SUFFICES ASSUME LedgerInit PROVE WritesBounded
    OBVIOUS
  <2>1. ledgerCounts.write = 0 /\ ready = FALSE /\ littered = FALSE /\ unseen = {}
    BY DEF LedgerInit
  <2>2. ledgerCounts.write <= MaxWrites
    BY <2>1, LedgerAssumption
  <2> QED
    BY <2>1, <2>2 DEF WritesBounded
<1>2. LedgerInv /\ WritesBounded => LedgerTypeOK
  <2> SUFFICES ASSUME LedgerInv, WritesBounded PROVE LedgerTypeOK
    OBVIOUS
  <2>1. /\ disk \in [Paths -> Nat] /\ index \in [Paths -> Nat] /\ head \in [Paths -> Nat]
        /\ ledgerCounts.write \in Nat /\ ledgerCounts.write <= MaxWrites /\ MaxWrites \in Nat
    BY LedgerAssumption DEF LedgerInv, LedgerTyped, WritesBounded
  <2>2. \A p \in Paths : head[p] <= MaxWrites /\ index[p] <= MaxWrites /\ disk[p] <= MaxWrites
    BY <2>1 DEF LedgerInv, Ordered
  <2>3. disk \in [Paths -> 0..MaxWrites] /\ index \in [Paths -> 0..MaxWrites] /\ head \in [Paths -> 0..MaxWrites]
    BY <2>1, <2>2
  <2>4. chain \in Seq(Jobs)
    BY DEF LedgerInv, LedgerTyped
  <2>5. \A i \in DOMAIN chain : chain[i] \in Jobs
    BY <2>4
  <2>6. \A i \in DOMAIN chain : chain[i].paths \subseteq Paths /\ chain[i].exclude \subseteq Paths
    BY <2>5 DEF Jobs, FloorCommit, PathCommit
  <2> QED
    BY <2>3, <2>6 DEF LedgerInv, LedgerTyped, WritesBounded, LedgerTypeOK
<1> QED
  BY <1>1, <1>2, LedgerInvInit, LedgerInvStep, WritesStep, PTL DEF LedgerSpec

-----------------------------------------------------------------------------
(***************************************************************************)
(* A file in a tab.  Every change and every pinned card is one input; a    *)
(* body is the number of a change; and a request that another one stands   *)
(* for is not made.                                                        *)
(***************************************************************************)
\* Of the requests that are made once there is one.
AskedOnce(S) ==
    \A by \in {"lazy", "listing", "save"} : \A call, again \in S : call.by = by /\ again.by = by => call = again

TabBounds ==
    /\ pins \in Nat /\ onDisk.at + pins <= MaxCacheInputs
    /\ cached # NotRead => cached <= onDisk.at
    /\ pinned \subseteq CardKinds /\ excused \subseteq ShownParts
    /\ AskedOnce(fileCalls)

\* A request by CallOnce is no second one.
LEMMA CallOnceOnce ==
    ASSUME NEW S, AskedOnce(S), NEW by, Asked(by) = {}, S = fileCalls, NEW call, call.by = by
    PROVE  AskedOnce(S \cup {call})
BY DEF AskedOnce, Asked

LEMMA TabBegins == FileCacheInit => TabBounds
<1> SUFFICES ASSUME FileCacheInit PROVE TabBounds
  OBVIOUS
<1>1. onDisk.at = 0 /\ pins = 0 /\ cached = NotRead /\ pinned = {} /\ excused = {} /\ fileCalls = {}
  BY DEF FileCacheInit
<1>2. AskedOnce(fileCalls)
  BY <1>1 DEF AskedOnce
<1> QED
  BY <1>1, <1>2, FileCacheAssumption DEF TabBounds

\* A change of the file is an input.
LEMMA ChangeBounded ==
    ASSUME CacheInv, TabBounds, NEW there \in BOOLEAN, ChangedTo(there), UNCHANGED <<pinned, cached, pins>>
    PROVE  /\ onDisk'.at \in Nat /\ onDisk'.at + pins' <= MaxCacheInputs
           /\ cached' # NotRead => cached' <= onDisk'.at
           /\ pinned' \subseteq CardKinds /\ excused' \subseteq ShownParts
<1>1. onDisk.at \in Nat /\ pins \in Nat /\ cached \in Nat \cup {NotRead}
  BY DEF CacheInv, CacheTyped, FileStates, TabBounds
<1>2. onDisk'.at = onDisk.at + 1 /\ onDisk.at + pins < MaxCacheInputs
  BY DEF ChangedTo, InputsLeft
<1>3. excused' \subseteq ShownParts
  BY DEF ChangedTo, MissedIf, TabBounds
<1> QED
  BY <1>1, <1>2, <1>3, FileCacheAssumption DEF TabBounds

LEMMA TabStep == CacheInv /\ TabBounds /\ [FileCacheNext]_cacheVars => TabBounds'
<1> SUFFICES ASSUME CacheInv, TabBounds, [FileCacheNext]_cacheVars PROVE TabBounds'
  OBVIOUS
<1>0. /\ onDisk.at \in Nat /\ pins \in Nat /\ cached \in Nat \cup {NotRead} /\ MaxCacheInputs \in Nat
      /\ AskedOnce(fileCalls) /\ excused \subseteq ShownParts /\ pinned \subseteq CardKinds
  BY FileCacheAssumption DEF CacheInv, CacheTyped, FileStates, TabBounds
<1>1. ASSUME NEW there \in BOOLEAN, ChangeFile(there) PROVE TabBounds'
  BY <1>0, <1>1, ChangeBounded DEF ChangeFile, TabBounds
<1>2. CASE SaveFile
  <2> DEFINE call == [Call("save", 0) EXCEPT !.got = onDisk']
  <2>1. call.by = "save" /\ Asked("save") = {} /\ fileCalls' = fileCalls \cup {call}
    BY <1>2 DEF SaveFile, Call
  <2>2. AskedOnce(fileCalls')
    BY <1>0, <2>1, CallOnceOnce
  <2>3. ChangedTo(TRUE) /\ UNCHANGED <<pinned, cached, pins>>
    BY <1>2 DEF SaveFile
  <2> QED
    BY <1>0, <2>2, <2>3, ChangeBounded DEF TabBounds
<1>3. CASE Scanned \/ WatcherTells \/ Drops \/ Reconnects \/ WatchCloses
  <2>1. UNCHANGED <<onDisk, pins, cached, pinned, fileCalls>>
    BY <1>3 DEF Scanned, WatcherTells, Drops, Reconnects, WatchCloses, tabVars
  <2>2. excused' \subseteq ShownParts
    BY <1>0, <1>3
    DEF Scanned, WatcherTells, Drops, Reconnects, WatchCloses, tabVars, MissedIf, ShownParts
  <2> QED
    BY <2>1, <2>2 DEF TabBounds
<1>4. CASE OnWatchEvent
  <2> DEFINE frame == Head(watchFrames)
  <2>1. PICK call, again :
           /\ fileCalls' = fileCalls \cup call \cup again /\ call \in {{}, CallOnce("listing")}
           /\ again \in {{}, {Call("watch", frame.at)}}
    BY <1>4 DEF OnWatchEvent
  <2>2. AskedOnce(fileCalls \cup call)
    <3>1. CASE call = {}
      BY <1>0, <3>1
    <3>2. CASE call = CallOnce("listing") /\ Asked("listing") = {}
      <4>1. call = {Call("listing", 0)} /\ Call("listing", 0).by = "listing"
        BY <3>2 DEF CallOnce, Call
      <4> QED
        BY <1>0, <3>2, <4>1, CallOnceOnce
    <3>3. CASE call = CallOnce("listing") /\ Asked("listing") # {}
      BY <1>0, <3>3 DEF CallOnce
    <3> QED
      BY <2>1, <3>1, <3>2, <3>3
  <2>3. AskedOnce(fileCalls')
    BY <2>1, <2>2 DEF AskedOnce, Call
  <2>4. UNCHANGED <<onDisk, pins, cached, pinned>> /\ excused' \subseteq ShownParts
    BY <1>0, <1>4 DEF OnWatchEvent, ShownParts
  <2> QED
    BY <1>0, <2>3, <2>4 DEF TabBounds
<1>5. ASSUME NEW card \in CardKinds, Pin(card) PROVE TabBounds'
  <2>1. PICK by \in {"lazy", "listing"} : fileCalls' \in {fileCalls, fileCalls \cup CallOnce(by)}
    BY <1>5 DEF Pin, CardKinds
  <2>2. AskedOnce(fileCalls')
    <3>1. CASE fileCalls' = fileCalls \/ Asked(by) # {}
      BY <1>0, <2>1, <3>1 DEF CallOnce
    <3>2. CASE fileCalls' = fileCalls \cup CallOnce(by) /\ Asked(by) = {}
      <4>1. CallOnce(by) = {Call(by, 0)} /\ Call(by, 0).by = by
        BY <3>2 DEF CallOnce, Call
      <4> QED
        BY <1>0, <3>2, <4>1, CallOnceOnce
    <3> QED
      BY <2>1, <3>1, <3>2
  <2>3. pins' = pins + 1 /\ onDisk.at + pins < MaxCacheInputs /\ UNCHANGED <<onDisk, cached, excused>>
        /\ pinned' = pinned \cup {card}
    BY <1>5 DEF Pin, InputsLeft
  <2> QED
    BY <1>0, <2>2, <2>3 DEF TabBounds
<1>6. ASSUME NEW card \in CardKinds, Unpin(card) PROVE TabBounds'
  BY <1>0, <1>6 DEF Unpin, TabBounds, tabVars
<1>7. ASSUME NEW call \in fileCalls, ServesCall(call) PROVE TabBounds'
  <2> DEFINE handed == [call EXCEPT !.got = onDisk]
  <2>1. handed.by = call.by /\ fileCalls' = (fileCalls \ {call}) \cup {handed}
    BY <1>7 DEF ServesCall, CacheInv, CacheTyped, Calls
  <2>2. AskedOnce(fileCalls')
    BY <1>0, <2>1 DEF AskedOnce
  <2> QED
    BY <1>0, <1>7, <2>2 DEF ServesCall, TabBounds
<1>8. ASSUME NEW call \in fileCalls, AnswerCall(call) PROVE TabBounds'
  <2>1. /\ call.got # NotRead /\ fileCalls' = fileCalls \ {call}
        /\ cached' = (IF SetsBody(call) THEN call.got.at ELSE cached)
        /\ UNCHANGED <<onDisk, pins, pinned>>
    BY <1>8 DEF AnswerCall
  <2>2. call.got.at <= onDisk.at
    BY <2>1 DEF CacheInv, Dated, NoNewer
  <2>3. excused' \subseteq ShownParts
    BY <1>0, <1>8 DEF AnswerCall, ShownParts
  <2>4. AskedOnce(fileCalls')
    BY <1>0, <2>1 DEF AskedOnce
  <2> QED
    BY <1>0, <2>1, <2>2, <2>3, <2>4 DEF TabBounds
<1>9. ASSUME NEW call \in fileCalls, CallFails(call) PROVE TabBounds'
  <2>1. excused' \subseteq ShownParts /\ fileCalls' = fileCalls \ {call}
    BY <1>0, <1>9 DEF CallFails, ShownParts
  <2>2. AskedOnce(fileCalls')
    BY <1>0, <2>1 DEF AskedOnce
  <2> QED
    BY <1>0, <1>9, <2>1, <2>2 DEF CallFails, TabBounds
<1>10. CASE UNCHANGED cacheVars
  BY <1>0, <1>10 DEF cacheVars, tabVars, TabBounds
<1> QED
  BY <1>1, <1>2, <1>3, <1>4, <1>5, <1>6, <1>7, <1>8, <1>9, <1>10 DEF FileCacheNext

\* Every reachable state of a file in a tab is well typed, and of the requests that another stands for
\* there is one at most.
THEOREM FileCacheKeepsTypes == FileCacheSpec => []FileCacheTypeOK
<1>1. CacheInv /\ TabBounds => FileCacheTypeOK
  <2> SUFFICES ASSUME CacheInv, TabBounds PROVE FileCacheTypeOK
    OBVIOUS
  <2>1. /\ onDisk \in FileStates /\ toldFile \in FileStates /\ pins \in Nat
        /\ onDisk.at \in Nat /\ toldFile.at \in Nat /\ toldFile.at <= onDisk.at
        /\ onDisk.at + pins <= MaxCacheInputs /\ MaxCacheInputs \in Nat
    BY FileCacheAssumption DEF CacheInv, CacheTyped, FileStates, Dated, NoNewer, TabBounds
  <2>2. onDisk.at \in 0..MaxCacheInputs /\ toldFile.at \in 0..MaxCacheInputs
    BY <2>1
  <2>3. /\ onDisk \in [there : BOOLEAN, at : 0..MaxCacheInputs]
        /\ toldFile \in [there : BOOLEAN, at : 0..MaxCacheInputs]
    BY <2>1, <2>2 DEF FileStates
  <2>4. cached \in 0..MaxCacheInputs \cup {NotRead}
    BY <2>1 DEF CacheInv, CacheTyped, TabBounds
  <2>5. \A by \in {"lazy", "listing", "save"} : \A c, d \in Asked(by) : c = d
    BY DEF TabBounds, AskedOnce, Asked
  <2>6. watchFrames # <<>> => socketUp /\ watching
    BY DEF CacheInv, WatchKept
  <2> QED
    BY <2>3, <2>4, <2>5, <2>6 DEF CacheInv, CacheTyped, TabBounds, FileCacheTypeOK
<1> QED
  BY <1>1, CacheInit, CacheInvStep, TabBegins, TabStep, PTL DEF FileCacheSpec

-----------------------------------------------------------------------------
(***************************************************************************)
(* The kernels.  Whatever is on the gateway, to be deleted or in a sweep   *)
(* was created by this broker or one before it.                            *)
(***************************************************************************)
KernelsKnown == gateway \subseteq Created /\ deletes \subseteq Created /\ sweep \subseteq Created

RunsTyped ==
    /\ pending \in [KernelIds -> SUBSET Runs]
    /\ run \in [Runs -> {"new", "waiting", "executing", "ended", "lost"}]
    /\ reconciled \in BOOLEAN /\ brokers \in 0..MaxBrokerRestarts

\* A kernel that was created stays so.
LEMMA CreatedStays == RegistryInv /\ [KernelsNext]_kernelVars => Created \subseteq Created'
<1> SUFFICES ASSUME RegistryInv, [KernelsNext]_kernelVars PROVE Created \subseteq Created'
  OBVIOUS
<1> USE DEF Created
<1>0. socket \in [KernelIds -> SocketStates]
  BY DEF RegistryInv, RegistryOK
<1>1. ASSUME NEW r \in Runs, RunCell(r) PROVE Created \subseteq Created'
  BY <1>1 DEF RunCell
<1>2. ASSUME NEW n \in Notebooks, StartSteps(n) PROVE Created \subseteq Created'
  <2>1. CASE CreateKernel(n)
    BY <1>0, <2>1 DEF CreateKernel
  <2>2. CASE ~CreateKernel(n)
    BY <1>2, <2>2 DEF StartSteps, GatewayUp, GatewayDown, SweepLists, SweepDeletes, CreateFails
  <2> QED
    BY <2>1, <2>2
<1>3. ASSUME NEW k \in KernelIds, SocketOpens(k) \/ SocketFails(k) \/ SocketCloses(k)
      PROVE  Created \subseteq Created'
  BY <1>0, <1>3 DEF SocketOpens, SocketFails, SocketCloses
<1>4. ASSUME NEW k \in KernelIds,
             KernelRestarted(k) \/ GatewayDeletes(k) \/ \E r \in Runs : CellDone(r, k)
      PROVE  Created \subseteq Created'
  BY <1>4 DEF KernelRestarted, GatewayDeletes, CellDone
<1>5. ASSUME NEW n, NEW timers, Shutdown(n, timers) PROVE Created \subseteq Created'
  BY <1>0, <1>5 DEF Shutdown
<1>6. ASSUME NEW n \in Notebooks, RestartKernel(n) \/ ShutdownKernel(n) PROVE Created \subseteq Created'
  BY <1>5, <1>6 DEF RestartKernel, ShutdownKernel
<1>7. ASSUME NEW k \in KernelIds, IdleReap(k) PROVE Created \subseteq Created'
  BY <1>5, <1>7 DEF IdleReap
<1>8. CASE RestartBroker \/ UNCHANGED kernelVars
  BY <1>0, <1>8 DEF RestartBroker, kernelVars
<1> QED
  BY <1>1, <1>2, <1>3, <1>4, <1>6, <1>7, <1>8 DEF KernelsNext

LEMMA KnownStep ==
    RegistryInv /\ TimersOK /\ KernelsKnown /\ [KernelsNext]_kernelVars => KernelsKnown'
<1> SUFFICES ASSUME RegistryInv, TimersOK, KernelsKnown, [KernelsNext]_kernelVars PROVE KernelsKnown'
  OBVIOUS
<1>0. Created \subseteq Created'
  BY CreatedStays
\* The registry names kernels that were created.
<1>1. \A n \in Notebooks : liveKernel[n] # 0 => liveKernel[n] \in Created
  BY DEF RegistryInv, RegistryOK, RegistryNamesOwn, Created
<1>2. ASSUME NEW r \in Runs, RunCell(r) PROVE KernelsKnown'
  BY <1>0, <1>2 DEF RunCell, KernelsKnown, gatewayVars
<1>3. ASSUME NEW n \in Notebooks, StartSteps(n) PROVE KernelsKnown'
  <2>1. CASE CreateKernel(n)
    <3>1. PICK k \in KernelIds : gateway' = gateway \cup {k} /\ socket' = [socket EXCEPT ![k] = "opening"]
      BY <2>1 DEF CreateKernel
    <3>2. k \in Created'
      BY <3>1 DEF Created, RegistryInv, RegistryOK
    <3> QED
      BY <1>0, <2>1, <3>1, <3>2 DEF CreateKernel, KernelsKnown
  <2>2. CASE GatewayUp(n)
    <3>1. sweep' \subseteq Created
      BY <1>1, <2>2 DEF GatewayUp, KernelsKnown
    <3> QED
      BY <1>0, <2>2, <3>1 DEF GatewayUp, KernelsKnown, gatewayVars
  <2>3. CASE GatewayDown(n) \/ SweepLists(n) \/ SweepDeletes(n) \/ CreateFails(n)
    BY <1>0, <2>3 DEF GatewayDown, SweepLists, SweepDeletes, CreateFails, KernelsKnown, gatewayVars
  <2> QED
    BY <1>3, <2>1, <2>2, <2>3 DEF StartSteps
<1>4. ASSUME NEW k \in KernelIds, SocketOpens(k) \/ SocketFails(k) \/ SocketCloses(k) PROVE KernelsKnown'
  BY <1>0, <1>4 DEF SocketOpens, SocketFails, SocketCloses, KernelsKnown, gatewayVars, startVars
<1>5. ASSUME NEW k \in KernelIds,
             KernelRestarted(k) \/ GatewayDeletes(k) \/ \E r \in Runs : CellDone(r, k)
      PROVE  KernelsKnown'
  BY <1>0, <1>5 DEF KernelRestarted, GatewayDeletes, CellDone, KernelsKnown, gatewayVars, startVars
<1>6. ASSUME NEW n \in Notebooks, NEW timers, Shutdown(n, timers) PROVE KernelsKnown'
  BY <1>0, <1>1, <1>6 DEF Shutdown, KernelsKnown
<1>7. ASSUME NEW n \in Notebooks, RestartKernel(n) \/ ShutdownKernel(n) PROVE KernelsKnown'
  BY <1>0, <1>6, <1>7 DEF RestartKernel, ShutdownKernel, KernelsKnown, gatewayVars, startVars
<1>8. ASSUME NEW k \in KernelIds, IdleReap(k) PROVE KernelsKnown'
  <2>1. owner[k] \in Notebooks
    BY <1>8 DEF IdleReap, TimersOK, Created, RegistryInv, CreatedAreOwned
  <2> QED
    BY <1>6, <1>8, <2>1 DEF IdleReap
<1>9. CASE RestartBroker \/ UNCHANGED kernelVars
  BY <1>0, <1>9 DEF RestartBroker, KernelsKnown, kernelVars, gatewayVars, startVars
<1> QED
  BY <1>2, <1>3, <1>4, <1>5, <1>7, <1>8, <1>9 DEF KernelsNext

LEMMA RunsTypedStep == RunsTyped /\ [KernelsNext]_kernelVars => RunsTyped'
<1> SUFFICES ASSUME RunsTyped, [KernelsNext]_kernelVars PROVE RunsTyped'
  OBVIOUS
<1> DEFINE Typed(p, r) == /\ p \in [KernelIds -> SUBSET Runs]
                          /\ r \in [Runs -> {"new", "waiting", "executing", "ended", "lost"}]
<1>0. Typed(pending, run)
  BY DEF RunsTyped
<1>1. \A R : /\ Typed(pending, Turned(R, "ended")) /\ Typed(pending, Turned(R, "waiting"))
             /\ Typed(pending, Turned(R, "lost"))
  BY <1>0 DEF Turned
<1>2. ASSUME NEW R \in SUBSET Runs, NEW k, NEW armed, Begin(R, k, armed) PROVE Typed(pending', run')
  <2>1. PICK G \in SUBSET R :
           /\ pending' = [pending EXCEPT ![k] = @ \cup G]
           /\ run' = [r \in Runs |-> IF r \in G THEN "executing" ELSE Turned(R, "ended")[r]]
    BY <1>2 DEF Begin
  <2>2. pending' \in [KernelIds -> SUBSET Runs]
    BY <1>0, <2>1
  <2>3. Turned(R, "ended") \in [Runs -> {"new", "waiting", "executing", "ended", "lost"}]
    BY <1>1
  <2>4. run' \in [Runs -> {"new", "waiting", "executing", "ended", "lost"}]
    BY <2>1, <2>3
  <2> QED
    BY <2>2, <2>4
<1>3. ASSUME NEW k, Resolved(k) PROVE Typed(pending', run')
  BY <1>0, <1>1, <1>3 DEF Resolved
<1>4. ASSUME NEW r \in Runs, RunCell(r) PROVE RunsTyped'
  <2>1. Typed(pending', run')
    BY <1>1, <1>2, <1>4 DEF RunCell
  <2> QED
    BY <1>4, <2>1 DEF RunCell, RunsTyped
<1>5. ASSUME NEW n \in Notebooks, StartSteps(n) PROVE RunsTyped'
  <2>1. Typed(pending', run')
    BY <1>0, <1>1, <1>5
    DEF StartSteps, GatewayUp, GatewayDown, SweepLists, SweepDeletes, CreateKernel, CreateFails
  <2>2. reconciled' \in BOOLEAN /\ brokers' = brokers
    BY <1>5
    DEF StartSteps, GatewayUp, GatewayDown, SweepLists, SweepDeletes, CreateKernel, CreateFails, RunsTyped
  <2> QED
    BY <2>1, <2>2 DEF RunsTyped
<1>6. ASSUME NEW k \in KernelIds, SocketOpens(k) \/ SocketFails(k) \/ SocketCloses(k) PROVE RunsTyped'
  <2>1. Waiting(owner[k]) \in SUBSET Runs
    BY DEF Waiting
  <2>2. Typed(pending', run')
    BY <1>0, <1>1, <1>2, <1>3, <1>6, <2>1 DEF SocketOpens, SocketFails, SocketCloses
  <2> QED
    BY <1>6, <2>2 DEF SocketOpens, SocketFails, SocketCloses, RunsTyped, startVars
<1>7. ASSUME NEW r \in Runs, NEW k \in KernelIds, CellDone(r, k) PROVE RunsTyped'
  <2>1. Typed(pending', run')
    BY <1>0, <1>1, <1>7 DEF CellDone
  <2> QED
    BY <1>7, <2>1 DEF CellDone, RunsTyped, startVars
<1>8. ASSUME NEW k \in KernelIds, KernelRestarted(k) \/ GatewayDeletes(k) \/ IdleReap(k) PROVE RunsTyped'
  BY <1>8 DEF KernelRestarted, GatewayDeletes, IdleReap, Shutdown, RunsTyped, startVars
<1>9. ASSUME NEW n \in Notebooks, RestartKernel(n) \/ ShutdownKernel(n) PROVE RunsTyped'
  <2>1. Typed(pending', run')
    BY <1>0, <1>3, <1>9 DEF RestartKernel, ShutdownKernel, Shutdown
  <2> QED
    BY <1>9, <2>1 DEF RestartKernel, ShutdownKernel, Shutdown, RunsTyped, startVars
<1>10. CASE RestartBroker
  <2>1. Typed(pending', run')
    BY <1>1, <1>10 DEF RestartBroker
  <2>2. brokers' \in 0..MaxBrokerRestarts /\ reconciled' = FALSE
    BY <1>10, KernelAssumption DEF RestartBroker, RunsTyped
  <2> QED
    BY <2>1, <2>2 DEF RunsTyped
<1>11. CASE UNCHANGED kernelVars
  BY <1>11 DEF RunsTyped, kernelVars, startVars
<1> QED
  BY <1>4, <1>5, <1>6, <1>7, <1>8, <1>9, <1>10, <1>11 DEF KernelsNext

\* Every reachable state of the kernel broker is well typed, and names only kernels that were created.
THEOREM KernelsKeepTypes == KernelsInit /\ [][KernelsNext]_kernelVars => []KernelsTypeOK
<1>1. KernelsInit => TimersOK /\ KernelsKnown /\ RunsTyped
  <2> SUFFICES ASSUME KernelsInit PROVE TimersOK /\ KernelsKnown /\ RunsTyped
    OBVIOUS
  <2>1. TimersOK /\ KernelsKnown
    BY DEF KernelsInit, TimersOK, KernelsKnown
  <2>2. pending \in [KernelIds -> SUBSET Runs] /\ brokers = 0 /\ reconciled = FALSE
    BY DEF KernelsInit
  <2>3. run \in [Runs -> {"new", "waiting", "executing", "ended", "lost"}]
    BY DEF KernelsInit
  <2>4. brokers \in 0..MaxBrokerRestarts
    BY <2>2, KernelAssumption
  <2> QED
    BY <2>1, <2>2, <2>3, <2>4 DEF RunsTyped
<1>2. RegistryInv /\ TimersOK /\ KernelsKnown /\ RunsTyped => KernelsTypeOK
  <2> SUFFICES ASSUME RegistryInv, TimersOK, KernelsKnown, RunsTyped PROVE KernelsTypeOK
    OBVIOUS
  <2>1. KernelIds \cup {0} = 0..MaxKernels
    BY KernelAssumption DEF KernelIds
  <2> QED
    BY <2>1 DEF RegistryInv, RegistryOK, SocketStates, StartSteps0, TimersOK, KernelsKnown, RunsTyped,
                KernelsTypeOK
<1> QED
  BY <1>1, <1>2, RegistryInvInit, RegistryInvStep, TimersStep, KnownStep, RunsTypedStep, PTL

-----------------------------------------------------------------------------
(***************************************************************************)
(* The dev supervisor.  That its counters keep their bounds rests on what  *)
(* they count: a respawn is due for a vite that is gone, a restart that    *)
(* waits was requested, and fast crashes are counted until the last one    *)
(* tears the stack down.                                                   *)
(***************************************************************************)
StackBounds ==
    /\ seasoned \subseteq 1..vitesSpawned /\ killed \subseteq 1..vitesSpawned
    /\ everUp \in BOOLEAN /\ reap \in BOOLEAN /\ asked \in BOOLEAN
    /\ requests \in 0..MaxBounces /\ \A i \in ViteIds : bounces[i] <= requests
    /\ fastCrashes \in 0..MaxFastCrashes /\ (teardown = "no" => fastCrashes < MaxFastCrashes)
    /\ Cardinality(up) + respawns <= vitesSpawned

\* The vites that run are finitely many.
LEMMA UpAreCounted ==
    ASSUME NEW n \in Nat, NEW running \in SUBSET (1..n)
    PROVE  /\ IsFiniteSet(running) /\ Cardinality(running) \in Nat
           /\ \A i \in running : Cardinality(running \ {i}) = Cardinality(running) - 1
<1>1. IsFiniteSet(1..n)
  BY FS_Interval
<1>2. IsFiniteSet(running)
  BY <1>1, FS_Subset
<1> QED
  BY <1>2, FS_CardinalityType, FS_RemoveElement

\* n vites started in a row are n vites more.
LEMMA SpawnCounts ==
    ASSUME vitesSpawned \in Nat, NEW n \in Nat, NEW running \in SUBSET (1..vitesSpawned), NEW child,
           SpawnVite(n, running, child)
    PROVE  /\ vitesSpawned' = vitesSpawned + n /\ Cardinality(up') \in Nat
           /\ Cardinality(up') <= Cardinality(running) + n
<1> DEFINE new == (vitesSpawned + 1)..(vitesSpawned + n)
<1>1. vitesSpawned' = vitesSpawned + n /\ up' = running \cup new
  BY DEF SpawnVite
<1>2. IsFiniteSet(new) /\ Cardinality(new) = n
  <2>1. \A i, j \in Int : IsFiniteSet(i..j) /\ Cardinality(i..j) = IF i > j THEN 0 ELSE j - i + 1
    BY FS_Interval
  <2>2. vitesSpawned + 1 \in Int /\ vitesSpawned + n \in Int
    OBVIOUS
  <2>3. /\ IsFiniteSet(new)
        /\ Cardinality(new) = IF vitesSpawned + 1 > vitesSpawned + n THEN 0
                              ELSE vitesSpawned + n - (vitesSpawned + 1) + 1
    BY <2>1, <2>2
  <2> QED
    BY <2>3
<1>3. IsFiniteSet(running) /\ Cardinality(running) \in Nat
  BY UpAreCounted
<1> HIDE DEF new
<1>4. /\ IsFiniteSet(up') /\ Cardinality(up') = Cardinality(running) + n - Cardinality(running \cap new)
  BY <1>1, <1>2, <1>3, FS_Union
<1>5. IsFiniteSet(running \cap new)
  BY <1>3, FS_Intersection
<1>6. Cardinality(running \cap new) \in Nat /\ Cardinality(up') \in Nat
  BY <1>4, <1>5, FS_CardinalityType
<1> QED
  BY <1>1, <1>3, <1>4, <1>6

LEMMA BoundsBegin == SupervisorInit => StackBounds
<1> SUFFICES ASSUME SupervisorInit PROVE StackBounds
  OBVIOUS
<1>1. Cardinality(up) = 1
  BY FS_Singleton DEF SupervisorInit
<1>2. bounces = [i \in ViteIds |-> 0]
  BY DEF SupervisorInit
<1>3. \A i \in ViteIds : bounces[i] = 0
  BY <1>2
<1>4. /\ vitesSpawned = 1 /\ seasoned = {} /\ killed = {} /\ everUp = FALSE /\ reap = FALSE /\ asked = FALSE
      /\ requests = 0 /\ fastCrashes = 0 /\ respawns = 0
  BY DEF SupervisorInit
<1>5. MaxBounces \in Nat /\ MaxFastCrashes \in Nat /\ 0 < MaxFastCrashes
  BY SupervisorAssumption
<1>6. requests \in 0..MaxBounces /\ fastCrashes \in 0..MaxFastCrashes /\ fastCrashes < MaxFastCrashes
  BY <1>4, <1>5
<1>7. \A i \in ViteIds : bounces[i] <= requests
  BY <1>3, <1>4
<1>8. Cardinality(up) + respawns <= vitesSpawned
  BY <1>1, <1>4
<1> QED
  BY <1>4, <1>6, <1>7, <1>8 DEF StackBounds

LEMMA SeasonsBounded == ASSUME StackInv, StackBounds, NEW i \in ViteIds, Seasons(i) PROVE StackBounds'
BY DEF StackInv, StackOK, StackBounds, Seasons, teardownVars

LEMMA EndsBounded == ASSUME StackInv, StackBounds, Stop \/ SupervisorExits PROVE StackBounds'
BY DEF StackInv, StackOK, StackBounds, Stop, SupervisorExits, viteVars

LEMMA RespawnBounded == ASSUME StackInv, StackBounds, Respawn PROVE StackBounds'
<1> DEFINE n == IF teardown = "no" THEN 1 ELSE 0
<1>1. vitesSpawned \in Nat /\ up \in SUBSET (1..vitesSpawned) /\ respawns \in Nat
  BY DEF StackInv, StackOK, ViteIds
<1>2. n \in Nat /\ n <= 1 /\ SpawnVite(n, up, viteChild)
  BY DEF Respawn
<1>3. /\ vitesSpawned' = vitesSpawned + n /\ Cardinality(up') \in Nat
      /\ Cardinality(up') <= Cardinality(up) + n
  BY <1>1, <1>2, SpawnCounts
<1>4. Cardinality(up) \in Nat
  BY <1>1, UpAreCounted
<1>5. Cardinality(up') + respawns' <= vitesSpawned'
  BY <1>1, <1>2, <1>3, <1>4 DEF StackBounds, Respawn
<1>6. seasoned' \subseteq 1..vitesSpawned' /\ killed' \subseteq 1..vitesSpawned'
  BY <1>1, <1>2, <1>3 DEF StackBounds, Respawn
<1> QED
  BY <1>5, <1>6 DEF StackBounds, Respawn, teardownVars

LEMMA BounceBounded == ASSUME StackInv, StackBounds, BounceVite PROVE StackBounds'
<1>1. /\ vitesSpawned \in Nat /\ up \in SUBSET (1..vitesSpawned) /\ respawns \in Nat
      /\ bounces \in [ViteIds -> Nat] /\ requests \in Nat
  BY DEF StackInv, StackOK, StackBounds, ViteIds
<1>2. /\ requests' = requests + 1 /\ requests' \in 0..MaxBounces
      /\ UNCHANGED <<seasoned, killed, everUp, reap, asked, teardown, fastCrashes, respawns>>
  BY <1>1, SupervisorAssumption DEF BounceVite, teardownVars
<1>3. Cardinality(up) \in Nat
  BY <1>1, UpAreCounted
<1>4. CASE viteChild # 0 /\ bounces' = [bounces EXCEPT ![viteChild] = @ + 1] /\ UNCHANGED <<up, vitesSpawned>>
  <2>1. \A i \in ViteIds : bounces'[i] <= requests'
    BY <1>1, <1>2, <1>4 DEF StackBounds
  <2> QED
    BY <1>2, <1>4, <2>1 DEF StackBounds
<1>5. CASE SpawnVite(1, up, 0) /\ UNCHANGED bounces
  <2>1. /\ vitesSpawned' = vitesSpawned + 1 /\ Cardinality(up') \in Nat
        /\ Cardinality(up') <= Cardinality(up) + 1
    BY <1>1, <1>5, SpawnCounts
  <2>2. Cardinality(up') + respawns' <= vitesSpawned'
    BY <1>1, <1>2, <1>3, <2>1 DEF StackBounds
  <2>3. seasoned' \subseteq 1..vitesSpawned' /\ killed' \subseteq 1..vitesSpawned'
    BY <1>1, <1>2, <2>1 DEF StackBounds
  <2>4. \A i \in ViteIds : bounces'[i] <= requests'
    BY <1>1, <1>2, <1>5 DEF StackBounds
  <2> QED
    BY <1>2, <2>2, <2>3, <2>4 DEF StackBounds
<1> QED
  BY <1>4, <1>5 DEF BounceVite

LEMMA KillBounded == ASSUME StackInv, StackBounds, NEW i \in ViteIds, KillTimesOut(i) PROVE StackBounds'
<1>1. /\ vitesSpawned \in Nat /\ up \in SUBSET (1..vitesSpawned) /\ respawns \in Nat
      /\ bounces \in [ViteIds -> Nat] /\ bounces[i] \in Nat /\ requests \in Nat /\ i \in up
      /\ teardown \in {"no", "vite", "sidecars", "exited"}
  BY DEF StackInv, StackOK, StackBounds, ViteIds, KillTimesOut
<1>2. /\ killed' = killed \cup {i} /\ SpawnVite(bounces[i], up, viteChild) /\ bounces' = [bounces EXCEPT ![i] = 0]
      /\ teardown' = (IF doomed = i THEN "sidecars" ELSE teardown)
      /\ UNCHANGED <<seasoned, everUp, reap, asked, fastCrashes, respawns, requests>>
  BY DEF KillTimesOut, Bounced
<1>3. /\ vitesSpawned' = vitesSpawned + bounces[i] /\ Cardinality(up') \in Nat
      /\ Cardinality(up') <= Cardinality(up) + bounces[i]
  BY <1>1, <1>2, SpawnCounts
<1>4. Cardinality(up) \in Nat
  BY <1>1, UpAreCounted
<1>5. Cardinality(up') + respawns' <= vitesSpawned'
  BY <1>1, <1>2, <1>3, <1>4 DEF StackBounds
<1>6. seasoned' \subseteq 1..vitesSpawned' /\ killed' \subseteq 1..vitesSpawned'
  BY <1>1, <1>2, <1>3 DEF StackBounds
<1>7. \A j \in ViteIds : bounces'[j] <= requests'
  BY <1>1, <1>2 DEF StackBounds
<1>8. fastCrashes' \in 0..MaxFastCrashes /\ (teardown' = "no" => fastCrashes' < MaxFastCrashes)
  BY <1>2 DEF StackBounds
<1> QED
  BY <1>2, <1>5, <1>6, <1>7, <1>8 DEF StackBounds

LEMMA ViteExitBounded == ASSUME StackInv, StackBounds, NEW i \in ViteIds, ViteExits(i) PROVE StackBounds'
<1> DEFINE child == IF viteChild = i THEN 0 ELSE viteChild
           crashed == IF i \in seasoned THEN 0 ELSE fastCrashes + 1
<1>1. /\ vitesSpawned \in Nat /\ up \in SUBSET (1..vitesSpawned) /\ respawns \in Nat
      /\ bounces \in [ViteIds -> Nat] /\ bounces[i] \in Nat /\ requests \in Nat /\ i \in up
      /\ fastCrashes \in Nat
  BY DEF StackInv, StackOK, StackBounds, ViteIds, ViteExits
<1>2. /\ SpawnVite(bounces[i], up \ {i}, child) /\ bounces' = [bounces EXCEPT ![i] = 0]
      /\ UNCHANGED <<seasoned, killed, everUp, requests>> /\ Missed(i, child)
  BY DEF ViteExits, Bounced
\* An exit that was intended, one that brings a respawn, and the last one.
<1>3. \/ /\ teardown # "no" \/ restarting
         /\ UNCHANGED <<fastCrashes, respawns, reap, asked>>
         /\ teardown' = (IF teardown = "vite" /\ doomed = i THEN "sidecars" ELSE teardown)
      \/ /\ teardown = "no" /\ fastCrashes' = crashed /\ crashed < MaxFastCrashes
         /\ respawns' = respawns + 1 /\ UNCHANGED <<teardown, reap, asked>>
      \/ /\ teardown = "no" /\ fastCrashes' = crashed
         /\ reap' = everUp /\ teardown' \in {"sidecars", "vite"} /\ UNCHANGED <<asked, respawns>>
  BY <1>2 DEF Missed, teardownVars, ReapsWhenGivingUp
<1>4. crashed \in Nat /\ crashed <= fastCrashes + 1
  BY <1>1
<1> HIDE DEF crashed
<1>5. fastCrashes' \in 0..MaxFastCrashes /\ (teardown' = "no" => fastCrashes' < MaxFastCrashes)
  BY <1>1, <1>3, <1>4, SupervisorAssumption DEF StackBounds
<1>6. respawns' \in Nat /\ respawns' <= respawns + 1 /\ asked' \in BOOLEAN /\ reap' \in BOOLEAN
  BY <1>1, <1>3 DEF StackBounds
<1>7. /\ up \ {i} \in SUBSET (1..vitesSpawned)
      /\ Cardinality(up) \in Nat /\ Cardinality(up \ {i}) = Cardinality(up) - 1
  BY <1>1, UpAreCounted
<1>8. /\ vitesSpawned' = vitesSpawned + bounces[i] /\ Cardinality(up') \in Nat
      /\ Cardinality(up') <= Cardinality(up \ {i}) + bounces[i]
  BY <1>1, <1>2, <1>7, SpawnCounts
<1>9. Cardinality(up') + respawns' <= vitesSpawned'
  BY <1>1, <1>6, <1>7, <1>8 DEF StackBounds
<1>10. seasoned' \subseteq 1..vitesSpawned' /\ killed' \subseteq 1..vitesSpawned'
  BY <1>1, <1>2, <1>8 DEF StackBounds
<1>11. \A j \in ViteIds : bounces'[j] <= requests'
  BY <1>1, <1>2 DEF StackBounds
<1> QED
  BY <1>2, <1>5, <1>6, <1>9, <1>10, <1>11 DEF StackBounds

LEMMA BoundsStep == StackInv /\ StackBounds /\ [SupervisorNext]_supervisorVars => StackBounds'
<1> SUFFICES ASSUME StackInv, StackBounds, [SupervisorNext]_supervisorVars PROVE StackBounds'
  OBVIOUS
<1>1. CASE UNCHANGED supervisorVars
  BY <1>1 DEF StackBounds, supervisorVars, viteVars, teardownVars
<1>2. CASE \E i \in ViteIds : Seasons(i) \/ ViteExits(i) \/ KillTimesOut(i)
  BY <1>2, SeasonsBounded, ViteExitBounded, KillBounded
<1>3. CASE Respawn \/ BounceVite
  BY <1>3, RespawnBounded, BounceBounded
<1>4. CASE Stop \/ SupervisorExits
  BY <1>4, EndsBounded
<1> QED
  BY <1>1, <1>2, <1>3, <1>4 DEF SupervisorNext

\* Every reachable state of the dev supervisor is well typed, its counters within their bounds.
THEOREM SupervisorKeepsTypes == SupervisorInit /\ [][SupervisorNext]_supervisorVars => []SupervisorTypeOK
<1>1. StackInv /\ StackBounds => SupervisorTypeOK
  <2> SUFFICES ASSUME StackInv, StackBounds PROVE SupervisorTypeOK
    OBVIOUS
  <2>1. /\ vitesSpawned \in ViteIds /\ up \in SUBSET (1..vitesSpawned) /\ respawns \in Nat
        /\ vitesSpawned \in Nat /\ vitesSpawned <= MaxVites
        /\ bounces \in [ViteIds -> Nat]
    BY SupervisorAssumption DEF StackInv, StackOK, ViteIds
  <2>2. Cardinality(up) \in Nat
    BY <2>1, UpAreCounted
  <2>3. respawns \in 0..MaxVites
    BY <2>1, <2>2, SupervisorAssumption DEF StackBounds
  <2>4. bounces \in [ViteIds -> 0..MaxBounces]
    BY <2>1, SupervisorAssumption DEF StackBounds
  <2> QED
    BY <2>1, <2>3, <2>4 DEF StackInv, StackOK, AwaitedRun, StackBounds, SupervisorTypeOK
<1> QED
  BY <1>1, InitHolds, NextHolds, BoundsBegin, BoundsStep, PTL

-----------------------------------------------------------------------------
(***************************************************************************)
(* A Codex session.  The turn that runs and the turn the router believes   *)
(* active are turns the app-server has started, because every message and  *)
(* every answer names one of those.                                        *)
(***************************************************************************)
TurnsNamed ==
    /\ codexEntry \in {"none", "spawning", "bound"}
    /\ turn <= turns /\ activeTurn <= turns
    /\ \A i \in DOMAIN stream : stream[i].turn <= turns
    /\ due # NoRpc => due.turn <= turns

LEMMA MessagesJoin ==
    ASSUME NEW n \in Nat, NEW s \in Seq(CodexMessages), NEW t \in Seq(CodexMessages),
           \A i \in DOMAIN s : s[i].turn <= n, \A i \in DOMAIN t : t[i].turn <= n
    PROVE  \A i \in DOMAIN (s \o t) : (s \o t)[i].turn <= n
<1>1. /\ Len(s) \in Nat /\ Len(t) \in Nat /\ DOMAIN s = 1..Len(s) /\ DOMAIN t = 1..Len(t)
      /\ DOMAIN (s \o t) = 1..Len(s) + Len(t)
      /\ \A i \in 1..Len(s) + Len(t) : (s \o t)[i] = IF i <= Len(s) THEN s[i] ELSE t[i - Len(s)]
  OBVIOUS
<1> SUFFICES ASSUME NEW i \in 1..Len(s) + Len(t) PROVE (s \o t)[i].turn <= n
  BY <1>1
<1>2. CASE i <= Len(s)
  BY <1>1, <1>2
<1>3. CASE ~(i <= Len(s))
  <2>1. i - Len(s) \in DOMAIN t
    BY <1>1, <1>3
  <2> QED
    BY <1>1, <1>3, <2>1
<1> QED
  BY <1>2, <1>3

\* One message more.
LEMMA MessageJoins ==
    ASSUME NEW n \in Nat, NEW s \in Seq(CodexMessages), NEW m \in CodexMessages,
           \A i \in DOMAIN s : s[i].turn <= n, m.turn <= n
    PROVE  \A i \in DOMAIN Append(s, m) : Append(s, m)[i].turn <= n
<1>1. /\ Len(s) \in Nat /\ DOMAIN s = 1..Len(s) /\ DOMAIN Append(s, m) = 1..Len(s) + 1
      /\ \A i \in 1..Len(s) : Append(s, m)[i] = s[i]
      /\ Append(s, m)[Len(s) + 1] = m
  OBVIOUS
<1> QED
  BY <1>1

\* One message or two.
LEMMA FewMessages ==
    ASSUME NEW n \in Nat, NEW m \in CodexMessages, m.turn <= n, NEW k \in CodexMessages, k.turn <= n
    PROVE  /\ <<m, k>> \in Seq(CodexMessages) /\ \A i \in DOMAIN <<m, k>> : <<m, k>>[i].turn <= n
           /\ <<m>> \in Seq(CodexMessages) /\ \A i \in DOMAIN <<m>> : <<m>>[i].turn <= n
<1>1. DOMAIN <<m, k>> = {1, 2} /\ <<m, k>>[1] = m /\ <<m, k>>[2] = k
  OBVIOUS
<1>2. DOMAIN <<m>> = {1} /\ <<m>>[1] = m
  OBVIOUS
<1>3. <<m, k>> \in Seq(CodexMessages) /\ <<m>> \in Seq(CodexMessages)
  OBVIOUS
<1> QED
  BY <1>1, <1>2, <1>3

LEMMA MessagesAre ==
    ASSUME NEW t \in Nat, NEW ok \in BOOLEAN
    PROVE  /\ \A r \in Rpcs : Message("answer", t, r, ok) \in CodexMessages
           /\ \A op \in {"started", "completed"} : Message(op, t, NoRpc, ok) \in CodexMessages
           /\ \A op, r : Message(op, t, r, ok).turn = t
  BY DEF Message, CodexMessages

LEMMA TurnsServed ==
    ASSUME CodexTyped, TurnsNamed, ServeRpc
    PROVE  TurnsNamed'
<1> DEFINE r == Head(rpcs)
           Verdict(ok, t) == Message("answer", t, r, ok)
<1>1. /\ r \in Rpcs /\ stream \in Seq(CodexMessages) /\ turn \in Nat /\ turns \in Nat /\ turn <= turns
      /\ activeTurn \in Nat /\ turns <= turns + 1 /\ 0 <= turns
  <2>1. rpcs # <<>> /\ rpcs \in Seq(Rpcs)
    BY DEF ServeRpc, CodexTyped, QueuesTyped
  <2> QED
    BY <2>1 DEF CodexTyped, QueuesTyped, TurnsNamed
<1>2. UNCHANGED <<codexEntry, activeTurn, due>>
  BY DEF ServeRpc, router
<1>3. \A i \in DOMAIN stream : stream[i] \in CodexMessages /\ stream[i].turn \in Nat /\ stream[i].turn <= turns
  <2>1. \A i \in DOMAIN stream : stream[i] \in CodexMessages
    BY <1>1
  <2>2. \A m \in CodexMessages : m.turn \in Nat
    BY DEF CodexMessages
  <2> QED
    BY <2>1, <2>2 DEF TurnsNamed
<1>4. CASE /\ stream' \in {Append(stream, Verdict(FALSE, 0)), Append(stream, Verdict(TRUE, 0))}
           /\ UNCHANGED <<turn, turns>>
  <2>1. ASSUME NEW ok \in BOOLEAN
        PROVE  Verdict(ok, 0) \in CodexMessages /\ Verdict(ok, 0).turn <= turns
    <3>1. 0 \in Nat
      OBVIOUS
    <3>2. Verdict(ok, 0) \in CodexMessages /\ Verdict(ok, 0).turn = 0
      BY <1>1, <3>1, MessagesAre
    <3> QED
      BY <1>1, <3>2
  <2>2. TRUE \in BOOLEAN /\ FALSE \in BOOLEAN
    OBVIOUS
  <2> HIDE DEF Verdict
  <2>3. \A i \in DOMAIN stream' : stream'[i].turn <= turns
    BY <1>1, <1>3, <1>4, <2>1, <2>2, MessageJoins
  <2> QED
    BY <1>2, <1>4, <2>3 DEF TurnsNamed
<1>5. CASE /\ turn' = turns + 1 /\ turns' = turns + 1
           /\ stream' = stream \o <<Verdict(TRUE, turn'), Message("started", turn', NoRpc, TRUE)>>
  <2> DEFINE n == turns + 1
             more == <<Verdict(TRUE, n), Message("started", n, NoRpc, TRUE)>>
  <2>1. n \in Nat /\ n <= n /\ turn' <= turns'
    BY <1>1, <1>5
  <2>2. /\ Verdict(TRUE, n) \in CodexMessages /\ Message("started", n, NoRpc, TRUE) \in CodexMessages
        /\ Verdict(TRUE, n).turn = n /\ Message("started", n, NoRpc, TRUE).turn = n
    <3>1. TRUE \in BOOLEAN
      OBVIOUS
    <3> HIDE DEF n
    <3> QED
      BY <1>1, <2>1, <3>1, MessagesAre
  <2>3. more \in Seq(CodexMessages) /\ \A i \in DOMAIN more : more[i].turn <= n
    <3> HIDE DEF n, Verdict
    <3> QED
      BY <2>1, <2>2, FewMessages
  <2>4. \A i \in DOMAIN stream : stream[i].turn <= n
    BY <1>1, <1>3
  <2>5. stream' = stream \o more /\ turns' = n
    BY <1>5
  <2> HIDE DEF n, more
  <2>6. \A i \in DOMAIN stream' : stream'[i].turn <= n
    BY <1>1, <2>1, <2>3, <2>4, <2>5, MessagesJoin
  <2>7. activeTurn <= n
    BY <1>1 DEF TurnsNamed, n
  <2>8. due # NoRpc => due.turn <= n
    <3>1. due # NoRpc => due.turn \in Nat /\ due.turn <= turns
      BY DEF CodexTyped, QueuesTyped, CodexMessages, TurnsNamed
    <3> QED
      BY <1>1, <3>1 DEF n
  <2> QED
    BY <1>2, <2>1, <2>5, <2>6, <2>7, <2>8 DEF TurnsNamed
<1>6. CASE /\ turn' = IF r.op = "interrupt" /\ turn = r.turn THEN 0 ELSE turn
           /\ stream' = Append(stream, Verdict(turn = r.turn, turn)) \o
                  IF turn' # turn THEN <<Message("completed", turn, NoRpc, TRUE)>> ELSE <<>>
           /\ turns' = turns
  <2> DEFINE said == Append(stream, Verdict(turn = r.turn, turn))
             more == IF turn' # turn THEN <<Message("completed", turn, NoRpc, TRUE)>> ELSE <<>>
  <2>1. (turn = r.turn) \in BOOLEAN /\ TRUE \in BOOLEAN
    OBVIOUS
  <2>2. /\ Verdict(turn = r.turn, turn) \in CodexMessages /\ Verdict(turn = r.turn, turn).turn = turn
        /\ Message("completed", turn, NoRpc, TRUE) \in CodexMessages
        /\ Message("completed", turn, NoRpc, TRUE).turn = turn
    BY <1>1, <2>1, MessagesAre
  <2> HIDE DEF Verdict
  <2>3. said \in Seq(CodexMessages) /\ \A i \in DOMAIN said : said[i].turn <= turns
    BY <1>1, <1>3, <2>2, MessageJoins
  <2>4. more \in Seq(CodexMessages) /\ \A i \in DOMAIN more : more[i].turn <= turns
    <3>1. CASE turn' = turn
      BY <3>1
    <3>2. CASE turn' # turn
      BY <1>1, <2>2, <3>2, FewMessages
    <3> QED
      BY <3>1, <3>2
  <2>5. stream' = said \o more
    BY <1>6
  <2> HIDE DEF said, more
  <2>6. \A i \in DOMAIN stream' : stream'[i].turn <= turns
    BY <1>1, <2>3, <2>4, <2>5, MessagesJoin
  <2>7. turn' <= turns
    BY <1>1, <1>6
  <2> QED
    BY <1>2, <1>6, <2>6, <2>7 DEF TurnsNamed
<1> QED
  BY <1>4, <1>5, <1>6 DEF ServeRpc

LEMMA TurnsNamedStep == CodexTyped /\ TurnsNamed /\ [CodexNext]_codexVars => TurnsNamed'
<1> SUFFICES ASSUME CodexTyped, TurnsNamed, [CodexNext]_codexVars PROVE TurnsNamed'
  OBVIOUS
<1>0. /\ stream \in Seq(CodexMessages) /\ turn \in Nat /\ turns \in Nat /\ activeTurn \in Nat
      /\ 0 <= turns /\ turn <= turns
  BY DEF CodexTyped, QueuesTyped, TurnsNamed
<1>1. ASSUME UNCHANGED <<stream, turn, turns, activeTurn>>,
             codexEntry' \in {"none", "spawning", "bound"}, due' \in {due, NoRpc}
      PROVE  TurnsNamed'
  BY <1>1 DEF TurnsNamed
<1>2. CASE SpawnCodex \/ ApplyWrite \/ RpcTimesOut \/ \E i \in Inputs : WriteCodex(i)
  <2>1. UNCHANGED <<stream, turn, turns, activeTurn, due>> /\ codexEntry' \in {codexEntry, "spawning"}
    BY <1>2 DEF SpawnCodex, ApplyWrite, RpcTimesOut, WriteCodex, router, server
  <2> QED
    BY <1>1, <2>1 DEF TurnsNamed
<1>3. CASE UNCHANGED codexVars
  BY <1>1, <1>3 DEF TurnsNamed, codexVars, router, server
<1>4. CASE CompleteTurn
  <2> DEFINE m == Message("completed", turn, NoRpc, TRUE)
  <2>1. turn' = 0 /\ stream' = Append(stream, m) /\ UNCHANGED <<turns, due, codexEntry, activeTurn>>
    BY <1>4 DEF CompleteTurn, router
  <2>2. m \in CodexMessages /\ m.turn = turn
    <3>1. TRUE \in BOOLEAN
      OBVIOUS
    <3> QED
      BY <1>0, <3>1, MessagesAre
  <2> HIDE DEF m
  <2>3. \A i \in DOMAIN stream' : stream'[i].turn <= turns
    BY <1>0, <2>1, <2>2, MessageJoins DEF TurnsNamed
  <2> QED
    BY <1>0, <2>1, <2>3 DEF TurnsNamed
<1>5. CASE ReceiveMessage
  <2> DEFINE m == Head(stream)
  <2>1. /\ stream # <<>> /\ stream' = Tail(stream) /\ UNCHANGED <<turn, turns, codexEntry>>
        /\ due' \in {due, m} /\ activeTurn' \in {activeTurn, m.turn, 0}
    BY <1>5 DEF ReceiveMessage
  <2>2. /\ m = stream[1] /\ 1 \in DOMAIN stream
        /\ \A i \in DOMAIN stream' : i + 1 \in DOMAIN stream /\ stream'[i] = stream[i + 1]
    BY <1>0, <2>1
  <2>3. m.turn <= turns /\ \A i \in DOMAIN stream' : stream'[i].turn <= turns
    BY <2>2 DEF TurnsNamed
  <2> HIDE DEF m
  <2> QED
    BY <1>0, <2>1, <2>3 DEF TurnsNamed
<1>6. CASE Continue
  <2>1. /\ UNCHANGED <<stream, turn, turns>> /\ due' = NoRpc /\ due # NoRpc
        /\ activeTurn' \in {activeTurn, due.turn} /\ codexEntry' \in {"none", "bound", codexEntry}
    BY <1>6 DEF Continue, server
  <2> QED
    BY <2>1 DEF TurnsNamed
<1>7. CASE KillCodex \/ AppServerExits
  <2>1. /\ turns' = turns /\ codexEntry' = "none" /\ activeTurn' = 0 /\ turn' \in {turn, 0}
        /\ due' \in {due, NoRpc} /\ stream' \in {stream, <<>>}
    BY <1>7 DEF KillCodex, AppServerExits
  <2>2. \A i \in DOMAIN stream' : stream'[i].turn <= turns
    BY <2>1 DEF TurnsNamed
  <2> QED
    BY <1>0, <2>1, <2>2 DEF TurnsNamed
<1> QED
  BY <1>2, <1>3, <1>4, <1>5, <1>6, <1>7, TurnsServed DEF CodexNext

\* Every reachable state of a Codex session is well typed, and no turn is named that never started.
THEOREM CodexKeepsTypes == CodexSpec => []CodexTypeOK
<1>1. CodexInit => TurnsNamed
  <2> SUFFICES ASSUME CodexInit PROVE TurnsNamed
    OBVIOUS
  <2>1. codexEntry = "none" /\ turn = 0 /\ turns = 0 /\ activeTurn = 0 /\ stream = <<>> /\ due = NoRpc
    BY DEF CodexInit
  <2> QED
    BY <2>1 DEF TurnsNamed
<1>2. CodexInv /\ TurnsNamed => CodexTypeOK
  <2> SUFFICES ASSUME CodexTyped, TurnsNamed PROVE CodexTypeOK
    BY DEF CodexInv
  <2>1. turn \in 0..turns /\ activeTurn \in 0..turns
    BY DEF CodexTyped, TurnsNamed
  <2> QED
    BY <2>1 DEF CodexTyped, QueuesTyped, FlagsTyped, TurnsNamed, CodexTypeOK
<1>3. CodexInv /\ TurnsNamed /\ [CodexNext]_codexVars => TurnsNamed'
  BY TurnsNamedStep DEF CodexInv
<1> QED
  BY <1>1, <1>2, <1>3, CodexStarts, CodexInvStep, PTL DEF CodexSpec

-----------------------------------------------------------------------------
(***************************************************************************)
(* The session host.  A prompt is accepted while fewer than MaxPending of  *)
(* its session are not finished, and from then on it moves: from the       *)
(* socket into its process, from there into a result under way.  A step    *)
(* passes one on, or loses it, and makes none.                             *)
(***************************************************************************)
Occurrences(s, x) == Cardinality({i \in DOMAIN s : s[i] = x})
InProcess(id) == IF children[id] = NoProc THEN 0 ELSE children[id].pending
PromptsBounded == \A id \in SessionIds : Pending(id) <= MaxPending

LEMMA OccurrencesAre ==
    ASSUME NEW S, NEW s \in Seq(S), NEW x
    PROVE  IsFiniteSet({i \in DOMAIN s : s[i] = x}) /\ Occurrences(s, x) \in Nat
<1>1. Len(s) \in Nat /\ DOMAIN s = 1..Len(s)
  OBVIOUS
<1>2. IsFiniteSet(1..Len(s))
  <2>1. \A i, j \in Int : IsFiniteSet(i..j)
    BY FS_Interval
  <2> QED
    BY <1>1, <2>1
<1>3. IsFiniteSet({i \in DOMAIN s : s[i] = x})
  BY <1>1, <1>2, FS_Subset
<1> QED
  BY <1>3, FS_CardinalityType DEF Occurrences

\* A frame at the end of a queue is one more of its kind.
LEMMA OccurrencesAppend ==
    ASSUME NEW S, NEW s \in Seq(S), NEW x, NEW y \in S
    PROVE  Occurrences(Append(s, y), x) = Occurrences(s, x) + IF y = x THEN 1 ELSE 0
<1> DEFINE old == {i \in DOMAIN s : s[i] = x}
           new == {i \in DOMAIN Append(s, y) : Append(s, y)[i] = x}
<1>1. /\ Len(s) \in Nat /\ DOMAIN s = 1..Len(s) /\ DOMAIN Append(s, y) = 1..Len(s) + 1
      /\ \A i \in 1..Len(s) : Append(s, y)[i] = s[i]
      /\ Append(s, y)[Len(s) + 1] = y
  OBVIOUS
<1>2. IsFiniteSet(old) /\ Occurrences(s, x) \in Nat
  BY OccurrencesAre
<1>3. new = IF y = x THEN old \cup {Len(s) + 1} ELSE old
  BY <1>1
<1>4. Len(s) + 1 \notin old
  BY <1>1
<1> HIDE DEF old
<1>5. Cardinality(old \cup {Len(s) + 1}) = Cardinality(old) + 1
  BY <1>2, <1>4, FS_AddElement
<1>6. Cardinality(new) = Cardinality(old) + IF y = x THEN 1 ELSE 0
  <2>1. Cardinality(old) \in Nat
    BY <1>2, FS_CardinalityType
  <2> HIDE DEF new
  <2> QED
    BY <1>3, <1>5, <2>1
<1> QED
  BY <1>6 DEF Occurrences, old

\* The first frame taken off a queue is one fewer of its kind.
LEMMA OccurrencesTail ==
    ASSUME NEW S, NEW s \in Seq(S), s # <<>>, NEW x
    PROVE  Occurrences(Tail(s), x) = Occurrences(s, x) - IF Head(s) = x THEN 1 ELSE 0
<1> DEFINE old == {i \in DOMAIN s : s[i] = x}
           new == {i \in DOMAIN Tail(s) : Tail(s)[i] = x}
           shift == [i \in new |-> i + 1]
<1>1. /\ Len(s) \in Nat \ {0} /\ DOMAIN s = 1..Len(s) /\ DOMAIN Tail(s) = 1..Len(s) - 1
      /\ \A i \in 1..Len(s) - 1 : Tail(s)[i] = s[i + 1]
      /\ Head(s) = s[1] /\ Tail(s) \in Seq(S)
  OBVIOUS
<1>2. IsFiniteSet(old) /\ IsFiniteSet(new)
  BY <1>1, OccurrencesAre
<1>3. ExistsBijection(new, old \ {1})
  <2>1. \A i \in new : i \in 1..Len(s) - 1 /\ i + 1 \in old \ {1}
    BY <1>1
  <2>2. \A j \in old \ {1} : j - 1 \in new /\ (j - 1) + 1 = j
    BY <1>1
  <2>3. \A i, j \in new : i + 1 = j + 1 => i = j
    BY <2>1
  <2>4. shift \in [new -> old \ {1}]
    BY <2>1
  <2>5. shift \in Injection(new, old \ {1})
    BY <2>3, <2>4 DEF Injection, IsInjective
  <2>6. shift \in Surjection(new, old \ {1})
    BY <2>2, <2>4 DEF Surjection
  <2> QED
    BY <2>5, <2>6 DEF ExistsBijection, Bijection
<1>4. 1 \in old <=> Head(s) = x
  BY <1>1
<1> HIDE DEF old, new
<1>5. Cardinality(old \ {1}) = Cardinality(new)
  BY <1>2, <1>3, FS_Bijection
<1>6. Cardinality(old \ {1}) = IF 1 \in old THEN Cardinality(old) - 1 ELSE Cardinality(old)
  BY <1>2, FS_RemoveElement
<1>7. Cardinality(old) \in Nat
  BY <1>2, FS_CardinalityType
<1>8. Cardinality(new) = Cardinality(old) - IF Head(s) = x THEN 1 ELSE 0
  BY <1>4, <1>5, <1>6, <1>7
<1> QED
  BY <1>8 DEF Occurrences, old, new

LEMMA OccurrencesEmpty == \A x : Occurrences(<<>>, x) = 0
<1>1. \A x : {i \in DOMAIN <<>> : <<>>[i] = x} = {}
  OBVIOUS
<1> QED
  BY <1>1, FS_EmptySet DEF Occurrences

\* What is pending of a session is in one of three places.
LEMMA PendingIs ==
    ASSUME HostTyped, NEW id \in SessionIds
    PROVE  /\ Occurrences(toHost, Frame("user", id)) \in Nat
           /\ Occurrences(toServer, Frame("result", id)) \in Nat
           /\ InProcess(id) \in Nat
           /\ Pending(id) = Occurrences(toHost, Frame("user", id))
                  + Occurrences(toServer, Frame("result", id)) + InProcess(id)
<1>1. /\ Occurrences(toHost, Frame("user", id)) \in Nat
      /\ Occurrences(toServer, Frame("result", id)) \in Nat
  BY OccurrencesAre DEF HostTyped
<1>2. InProcess(id) \in Nat
  BY DEF InProcess, HostTyped, Procs
<1> QED
  BY <1>1, <1>2 DEF Pending, Occurrences, InProcess

\* ... before a step and after it.
LEMMA PendingIsLater ==
    ASSUME HostTyped', NEW id \in SessionIds
    PROVE  /\ Occurrences(toHost', Frame("user", id)) \in Nat
           /\ Occurrences(toServer', Frame("result", id)) \in Nat
           /\ InProcess(id)' \in Nat
           /\ Pending(id)' = Occurrences(toHost', Frame("user", id))
                  + Occurrences(toServer', Frame("result", id)) + InProcess(id)'
<1>1. /\ Occurrences(toHost', Frame("user", id)) \in Nat
      /\ Occurrences(toServer', Frame("result", id)) \in Nat
  BY OccurrencesAre DEF HostTyped
<1>2. InProcess(id)' \in Nat
  BY DEF InProcess, HostTyped, Procs
<1> QED
  BY <1>1, <1>2 DEF Pending, Occurrences, InProcess

\* A frame that tells of no prompt adds none, one way or the other.
LEMMA OtherFrames ==
    ASSUME HostTyped, NEW id \in SessionIds
    PROVE  /\ \A f \in HostRequests : f.op # "user" =>
                  Occurrences(Append(toHost, f), Frame("user", id)) = Occurrences(toHost, Frame("user", id))
           /\ \A f \in HostFrames : f.op # "result" =>
                  Occurrences(Append(toServer, f), Frame("result", id)) = Occurrences(toServer, Frame("result", id))
<1>1. \A x \in Nat : x + 0 = x
  OBVIOUS
<1>2. /\ Occurrences(toHost, Frame("user", id)) \in Nat
      /\ Occurrences(toServer, Frame("result", id)) \in Nat
  BY PendingIs
<1>3. Frame("user", id).op = "user" /\ Frame("result", id).op = "result"
  BY FramesAre
<1>4. toHost \in Seq(HostRequests) /\ toServer \in Seq(HostFrames)
  BY DEF HostTyped
<1>5. ASSUME NEW f \in HostRequests, f.op # "user"
      PROVE  Occurrences(Append(toHost, f), Frame("user", id)) = Occurrences(toHost, Frame("user", id))
  BY <1>1, <1>2, <1>3, <1>4, <1>5, OccurrencesAppend
<1>6. ASSUME NEW f \in HostFrames, f.op # "result"
      PROVE  Occurrences(Append(toServer, f), Frame("result", id)) = Occurrences(toServer, Frame("result", id))
  BY <1>1, <1>2, <1>3, <1>4, <1>6, OccurrencesAppend
<1> QED
  BY <1>5, <1>6

\* A host's event to the server, or to no one.
LEMMA EventAddsNone ==
    ASSUME HostTyped, NEW f \in HostFrames, f.op # "result", Event(f), NEW id \in SessionIds
    PROVE  Occurrences(toServer', Frame("result", id)) = Occurrences(toServer, Frame("result", id))
BY OtherFrames DEF Event

\* Where no place gains a prompt, none is gained.
LEMMA NoneGained ==
    ASSUME HostTyped, HostTyped', PromptsBounded, MaxPending \in Nat,
           \A id \in SessionIds :
               /\ Occurrences(toHost', Frame("user", id)) <= Occurrences(toHost, Frame("user", id))
               /\ Occurrences(toServer', Frame("result", id)) <= Occurrences(toServer, Frame("result", id))
               /\ InProcess(id)' <= InProcess(id)
    PROVE  PromptsBounded'
<1> SUFFICES ASSUME NEW id \in SessionIds PROVE Pending(id)' <= MaxPending
  BY DEF PromptsBounded
<1>1. Pending(id) <= MaxPending
  BY DEF PromptsBounded
<1> QED
  BY <1>1, PendingIs, PendingIsLater


\* What is pending grows by as much as its places do.
LEMMA Sums ==
    \A i, j, k, n, m \in Nat : i <= j + 1 /\ j + k + n + 1 <= m => i + k + n <= m
  OBVIOUS

LEMMA ServeSums ==
    \A i, j, k, n, q, m \in Nat : i = j - 1 /\ n <= q + 1 /\ j + k + q <= m => i + k + n <= m
  OBVIOUS

LEMMA AddsNothing == \A n \in Nat : n + 0 = n
  OBVIOUS

LEMMA TurnSums ==
    \A i, j, k, n, q, m \in Nat : i <= j + 1 /\ n <= q - 1 /\ k + j + q <= m => k + i + n <= m
  OBVIOUS

LEMMA PromptsBegin == HostInit => PromptsBounded
<1> SUFFICES ASSUME HostInit, NEW id \in SessionIds PROVE Pending(id) <= MaxPending
  BY DEF PromptsBounded
<1>1. toHost = <<>> /\ toServer = <<>> /\ children[id] = NoProc
  BY DEF HostInit
<1>2. Pending(id) = Occurrences(<<>>, Frame("user", id)) + Occurrences(<<>>, Frame("result", id)) + 0
  BY <1>1 DEF Pending, Occurrences
<1>3. Pending(id) = 0 + 0 + 0
  BY <1>2, OccurrencesEmpty
<1> QED
  BY <1>3, HostAssumption

\* The server's steps but its prompts.
LEMMA ServerGainsNone ==
    ASSUME HostInv, HostTyped', PromptsBounded,
           Link \/ ServerDies \/ Receive \/ \E id \in SessionIds : Start(id) \/ End(id)
    PROVE  PromptsBounded'
<1>0. HostTyped /\ MaxPending \in Nat /\ ServerTyped
  BY HostAssumption DEF HostInv
<1>1. ASSUME NEW id \in SessionIds
      PROVE  /\ Occurrences(toHost, Frame("user", id)) \in Nat
             /\ Occurrences(toServer, Frame("result", id)) \in Nat
  BY <1>0, PendingIs
<1>2. ASSUME NEW s \in SessionIds, Start(s) \/ End(s), NEW id \in SessionIds
      PROVE  /\ Occurrences(toHost', Frame("user", id)) = Occurrences(toHost, Frame("user", id))
             /\ toServer' = toServer /\ children' = children
  <2>1. /\ toServer' = toServer /\ children' = children
        /\ toHost' \in {toHost, Append(toHost, Frame("spawn", s)), Append(toHost, Frame("kill", s))}
    BY <1>2 DEF Start, End
  <2>2. /\ Frame("spawn", s) \in HostRequests /\ Frame("spawn", s).op # "user"
        /\ Frame("kill", s) \in HostRequests /\ Frame("kill", s).op # "user"
    BY FramesAre
  <2> QED
    BY <1>0, <2>1, <2>2, OtherFrames
<1>3. ASSUME Link, NEW id \in SessionIds
      PROVE  /\ Occurrences(toHost', Frame("user", id)) = 0
             /\ toServer' = toServer /\ children' = children
  <2> DEFINE hello == [op |-> "list"]
  <2>1. toServer' = toServer /\ children' = children /\ toHost' = <<hello>>
    BY <1>3 DEF Link
  <2>2. hello # Frame("user", id)
    BY FramesAre
  <2>3. {i \in DOMAIN <<hello>> : <<hello>>[i] = Frame("user", id)} = {}
    BY <2>2
  <2> QED
    BY <2>1, <2>3, FS_EmptySet DEF Occurrences
<1>4. ASSUME ServerDies, NEW id \in SessionIds
      PROVE  /\ Occurrences(toHost', Frame("user", id)) = Occurrences(toHost, Frame("user", id))
             /\ Occurrences(toServer', Frame("result", id)) = 0 /\ children' = children
  <2> DEFINE close == [op |-> "close"]
  <2>1. toServer' = <<>> /\ children' = children /\ toHost' \in {toHost, Append(toHost, close)}
    BY <1>4 DEF ServerDies
  <2>2. close \in HostRequests /\ close.op # "user"
    BY DEF HostRequests
  <2> HIDE DEF close
  <2> QED
    BY <1>0, <2>1, <2>2, OtherFrames, OccurrencesEmpty
<1>5. ASSUME Receive, NEW id \in SessionIds
      PROVE  /\ Occurrences(toHost', Frame("user", id)) = Occurrences(toHost, Frame("user", id))
             /\ Occurrences(toServer', Frame("result", id)) <= Occurrences(toServer, Frame("result", id))
             /\ children' = children
  <2>1. toServer # <<>> /\ toServer' = Tail(toServer) /\ children' = children /\ toServer \in Seq(HostFrames)
    BY <1>0, <1>5 DEF Receive, HostTyped
  <2>2. Occurrences(toServer', Frame("result", id)) <= Occurrences(toServer, Frame("result", id))
    BY <1>1, <2>1, OccurrencesTail
  <2>3. ASSUME toHost' # toHost
        PROVE  \E ids \in SUBSET SessionIds : toHost' = Append(toHost, [op |-> "ack", ids |-> ids])
    <3>1. Head(toServer).op = "list" /\ phase = "boot" /\ Attach(Head(toServer))
      BY <1>5, <2>3 DEF Receive, FoldLine, Relink
    <3>2. toHost' = Append(toHost, [op |-> "ack", ids |-> AckedExits(Head(toServer))])
      BY <3>1 DEF Attach
    <3>3. Head(toServer) \in HostFrames
      BY <2>1
    <3>4. Head(toServer).exits \subseteq ExitRecords
      BY <3>1, <3>3 DEF HostFrames, Listings, ExitRecords
    <3>5. AckedExits(Head(toServer)) \subseteq SessionIds
      BY <3>4 DEF AckedExits, ExitRecords
    <3> QED
      BY <3>2, <3>5
  <2>4. ASSUME NEW ids \in SUBSET SessionIds
        PROVE  LET ack == [op |-> "ack", ids |-> ids] IN ack \in HostRequests /\ ack.op # "user"
    BY DEF HostRequests
  <2>5. Occurrences(toHost', Frame("user", id)) = Occurrences(toHost, Frame("user", id))
    BY <1>0, <2>3, <2>4, OtherFrames
  <2> QED
    BY <2>1, <2>2, <2>5
<1>6. \A id \in SessionIds : children' = children => InProcess(id)' = InProcess(id) /\ InProcess(id) \in Nat
  BY <1>0, PendingIs DEF InProcess
<1>7. \A n \in Nat : n <= n /\ 0 <= n
  OBVIOUS
<1> QED
  BY <1>0, <1>1, <1>2, <1>3, <1>4, <1>5, <1>6, <1>7, NoneGained

\* A prompt is one more of its session, which has room for it.
LEMMA PromptIsBounded ==
    ASSUME HostInv, HostTyped', PromptsBounded, NEW s \in SessionIds, Prompt(s)
    PROVE  PromptsBounded'
<1>0. HostTyped /\ MaxPending \in Nat /\ toHost \in Seq(HostRequests)
  BY HostAssumption DEF HostInv, HostTyped
<1>1. /\ Pending(s) < MaxPending /\ toServer' = toServer /\ children' = children
      /\ toHost' \in {toHost, Append(toHost, Frame("user", s))}
  BY DEF Prompt
<1> SUFFICES ASSUME NEW id \in SessionIds PROVE Pending(id)' <= MaxPending
  BY DEF PromptsBounded
<1>2. /\ Occurrences(toServer', Frame("result", id)) = Occurrences(toServer, Frame("result", id))
      /\ InProcess(id)' = InProcess(id)
  BY <1>1 DEF InProcess
<1>3. Frame("user", s) \in HostRequests
  BY FramesAre
<1>4. /\ Occurrences(toHost, Frame("user", id)) \in Nat
      /\ Occurrences(toServer, Frame("result", id)) \in Nat /\ InProcess(id) \in Nat
      /\ Pending(id) = Occurrences(toHost, Frame("user", id))
             + Occurrences(toServer, Frame("result", id)) + InProcess(id)
      /\ Pending(id)' = Occurrences(toHost', Frame("user", id))
             + Occurrences(toServer, Frame("result", id)) + InProcess(id)
      /\ Pending(id) <= MaxPending
  BY <1>0, <1>2, PendingIs, PendingIsLater DEF PromptsBounded
<1>5. CASE id = s
  <2>1. Occurrences(Append(toHost, Frame("user", s)), Frame("user", s)) = Occurrences(toHost, Frame("user", s)) + 1
    BY <1>0, <1>3, OccurrencesAppend
  <2>2. Occurrences(toHost', Frame("user", id)) <= Occurrences(toHost, Frame("user", id)) + 1
    <3>1. \A n \in Nat : n <= n + 1 /\ n + 1 <= n + 1
      OBVIOUS
    <3>2. CASE toHost' = toHost
      BY <1>4, <3>1, <3>2
    <3>3. CASE toHost' = Append(toHost, Frame("user", s))
      <4>1. Occurrences(toHost', Frame("user", id)) = Occurrences(toHost, Frame("user", id)) + 1
        BY <1>5, <2>1, <3>3
      <4> QED
        BY <1>4, <3>1, <4>1
    <3> QED
      BY <1>1, <3>2, <3>3
  <2>3. Pending(id) + 1 <= MaxPending /\ Occurrences(toHost', Frame("user", id)) \in Nat
    BY <1>0, <1>1, <1>4, <1>5, PendingIsLater
  <2> QED
    BY <1>0, <1>4, <2>2, <2>3, Sums
<1>6. CASE id # s
  <2>1. Frame("user", s) # Frame("user", id)
    BY <1>6, FramesAre
  <2>2. Occurrences(Append(toHost, Frame("user", s)), Frame("user", id)) = Occurrences(toHost, Frame("user", id)) + 0
    BY <1>0, <1>3, <2>1, OccurrencesAppend
  <2>3. Occurrences(Append(toHost, Frame("user", s)), Frame("user", id)) = Occurrences(toHost, Frame("user", id))
    BY <1>4, <2>2, AddsNothing
  <2>4. Occurrences(toHost', Frame("user", id)) = Occurrences(toHost, Frame("user", id))
    BY <1>1, <2>3
  <2> QED
    BY <1>4, <2>4
<1> QED
  BY <1>5, <1>6

\* A process passes on results, at most one for the prompts a turn has answered.
LEMMA ProcessGainsNone ==
    ASSUME HostInv, HostTyped', PromptsBounded, NEW s \in SessionIds,
           Works(s) \/ TurnDone(s) \/ ProcessExits(s)
    PROVE  PromptsBounded'
<1>0. HostTyped /\ MaxPending \in Nat /\ toServer \in Seq(HostFrames)
      /\ children \in [SessionIds -> Procs \cup {NoProc}] /\ NoProc \notin Procs
  BY HostAssumption DEF HostInv, HostTyped, Procs
<1>1. \A n \in Nat : n <= n /\ 0 <= n
  OBVIOUS
<1>2. \A id \in SessionIds :
        /\ Occurrences(toHost, Frame("user", id)) \in Nat
        /\ Occurrences(toServer, Frame("result", id)) \in Nat /\ InProcess(id) \in Nat
  BY <1>0, PendingIs
<1>3. CASE Works(s)
  <2>1. toHost' = toHost /\ children' = children /\ Event(Frame("line", s))
    BY <1>3 DEF Works
  <2>2. Frame("line", s) \in HostFrames /\ Frame("line", s).op # "result"
    BY FramesAre
  <2>3. \A id \in SessionIds :
          /\ Occurrences(toServer', Frame("result", id)) = Occurrences(toServer, Frame("result", id))
          /\ InProcess(id)' = InProcess(id)
    BY <1>0, <2>1, <2>2, EventAddsNone DEF InProcess
  <2> QED
    BY <1>0, <1>1, <1>2, <2>1, <2>3, NoneGained
<1>4. CASE ProcessExits(s)
  <2>1. PICK reason \in {"self", "killed"} :
          toHost' = toHost /\ children' = [children EXCEPT ![s] = NoProc] /\ Event(Exit(s, reason))
    BY <1>4 DEF ProcessExits, RecordExit
  <2>2. Exit(s, reason) \in HostFrames /\ Exit(s, reason).op # "result"
    BY FramesAre DEF HostFrames, ExitRecords, Exit
  <2>3. \A id \in SessionIds :
          Occurrences(toServer', Frame("result", id)) = Occurrences(toServer, Frame("result", id))
    BY <1>0, <2>1, <2>2, EventAddsNone
  <2>4. \A id \in SessionIds : InProcess(id)' = InProcess(id) \/ InProcess(id)' = 0
    BY <1>0, <2>1 DEF InProcess
  <2> QED
    BY <1>0, <1>1, <1>2, <2>1, <2>3, <2>4, NoneGained
<1>5. CASE TurnDone(s)
  <2> DEFINE result == Frame("result", s)
  <2>1. PICK left \in 0..children[s].pending - 1 :
          children' = [children EXCEPT ![s].busy = FALSE, ![s].pending = left]
    BY <1>5 DEF TurnDone
  <2>2. /\ children[s] # NoProc /\ children[s].pending > 0 /\ toHost' = toHost
        /\ toServer' \in {toServer, Append(toServer, result)} /\ result \in HostFrames
    BY <1>5, FramesAre DEF TurnDone, Event
  <2>3. children[s] \in Procs /\ children[s].pending \in Nat /\ left \in Nat /\ left <= children[s].pending - 1
    BY <1>0, <2>1, <2>2 DEF Procs
  <2>4. children'[s] = [children[s] EXCEPT !.busy = FALSE, !.pending = left]
    BY <1>0, <2>1
  <2>5. children'[s] \in Procs /\ children'[s].pending = left
    BY <2>3, <2>4 DEF Procs
  <2>6. InProcess(s)' <= InProcess(s) - 1
    BY <1>0, <2>2, <2>3, <2>5 DEF InProcess
  <2>7. \A id \in SessionIds \ {s} : InProcess(id)' = InProcess(id)
    BY <1>0, <2>1 DEF InProcess
  <2> SUFFICES ASSUME NEW id \in SessionIds PROVE Pending(id)' <= MaxPending
    BY DEF PromptsBounded
  <2>8. /\ Pending(id) = Occurrences(toHost, Frame("user", id))
               + Occurrences(toServer, Frame("result", id)) + InProcess(id)
        /\ Pending(id)' = Occurrences(toHost, Frame("user", id))
               + Occurrences(toServer', Frame("result", id)) + InProcess(id)'
        /\ Pending(id) <= MaxPending /\ InProcess(id)' \in Nat
        /\ Occurrences(toServer', Frame("result", id)) \in Nat
    BY <1>0, <2>2, PendingIs, PendingIsLater DEF PromptsBounded
  <2>9. CASE id = s
    <3>1. Occurrences(Append(toServer, result), result) = Occurrences(toServer, result) + 1
      BY <1>0, <2>2, OccurrencesAppend
    <3>2. Occurrences(toServer', Frame("result", id)) <= Occurrences(toServer, Frame("result", id)) + 1
      <4>1. \A n \in Nat : n <= n + 1 /\ n + 1 <= n + 1
        OBVIOUS
      <4>2. CASE toServer' = toServer
        BY <1>2, <4>1, <4>2
      <4>3. CASE toServer' = Append(toServer, result)
        <5>1. Occurrences(toServer', Frame("result", id)) = Occurrences(toServer, Frame("result", id)) + 1
          BY <2>9, <3>1, <4>3
        <5> QED
          BY <1>2, <4>1, <5>1
      <4> QED
        BY <2>2, <4>2, <4>3
    <3> HIDE DEF result
    <3> QED
      BY <1>0, <1>2, <2>6, <2>8, <2>9, <3>2, TurnSums
  <2>10. CASE id # s
    <3>1. result # Frame("result", id)
      BY <2>10, FramesAre
    <3>2. Occurrences(Append(toServer, result), Frame("result", id)) = Occurrences(toServer, Frame("result", id)) + 0
      BY <1>0, <2>2, <3>1, OccurrencesAppend
    <3>3. Occurrences(Append(toServer, result), Frame("result", id)) = Occurrences(toServer, Frame("result", id))
      BY <1>2, <3>2, AddsNothing
    <3> HIDE DEF result
    <3>4. Occurrences(toServer', Frame("result", id)) = Occurrences(toServer, Frame("result", id))
      BY <2>2, <3>3
    <3>5. InProcess(id)' = InProcess(id)
      BY <2>7, <2>10
    <3> QED
      BY <2>8, <3>4, <3>5
  <2> QED
    BY <2>9, <2>10
<1> QED
  BY <1>3, <1>4, <1>5


\* The host takes the next request: a prompt moves into its process, or is lost.
LEMMA ServeGainsNone ==
    ASSUME HostInv, HostTyped', PromptsBounded, Serve
    PROVE  PromptsBounded'
<1> DEFINE r == Head(toHost)
<1>0. HostTyped /\ MaxPending \in Nat /\ toHost \in Seq(HostRequests)
      /\ children \in [SessionIds -> Procs \cup {NoProc}] /\ NoProc \notin Procs
  BY HostAssumption DEF HostInv, HostTyped, Procs
<1>1. toHost # <<>> /\ toHost' = Tail(toHost) /\ r \in HostRequests
  BY <1>0 DEF Serve
<1>2. \A id \in SessionIds :
        /\ Occurrences(toHost, Frame("user", id)) \in Nat
        /\ Occurrences(toHost', Frame("user", id)) \in Nat
        /\ Occurrences(toServer, Frame("result", id)) \in Nat /\ InProcess(id) \in Nat
        /\ Occurrences(toHost', Frame("user", id)) =
               Occurrences(toHost, Frame("user", id)) - IF r = Frame("user", id) THEN 1 ELSE 0
  BY <1>0, <1>1, PendingIs, PendingIsLater, OccurrencesTail
<1>3. \A id \in SessionIds :
        Occurrences(toServer', Frame("result", id)) = Occurrences(toServer, Frame("result", id))
  <2> SUFFICES ASSUME NEW id \in SessionIds
               PROVE  Occurrences(toServer', Frame("result", id)) = Occurrences(toServer, Frame("result", id))
    OBVIOUS
  <2>1. CASE toServer' = toServer
    BY <2>1
  <2>2. CASE toServer' # toServer
    <3>1. \/ r.op = "spawn" /\ Event(Frame("refused", r.id))
          \/ r.op = "list" /\ Event(Listing)
      BY <2>2 DEF Serve, Spawn
    <3>2. r.op = "spawn" => Frame("refused", r.id) \in HostFrames /\ Frame("refused", r.id).op # "result"
      BY <1>1, RequestsAre, FramesAre
    <3>3. Listing \in HostFrames /\ Listing.op # "result"
      BY <1>0 DEF Listing, HostFrames, Listings, HostTyped
    <3> QED
      BY <1>0, <3>1, <3>2, <3>3, EventAddsNone
  <2> QED
    BY <2>1, <2>2
<1>4. CASE r.op # "user"
  <2>1. \A id \in SessionIds : InProcess(id)' = InProcess(id) \/ InProcess(id)' = 0
    <3>1. CASE children' = children
      BY <3>1 DEF InProcess
    <3>2. CASE r.op = "spawn" /\ children' # children
      <4>1. children' = [children EXCEPT ![r.id] = [busy |-> FALSE, pending |-> 0, killed |-> FALSE]]
        BY <3>2 DEF Serve, Spawn
      <4> QED
        BY <1>0, <4>1 DEF InProcess
    <3>3. CASE r.op = "kill" /\ children' # children
      <4>1. r.id \in SessionIds
        BY <1>1, <3>3, RequestsAre
      <4>2. children[r.id] # NoProc /\ children' = [children EXCEPT ![r.id].killed = TRUE]
        BY <3>3 DEF Serve
      <4>3. children[r.id] \in Procs
        BY <1>0, <4>1, <4>2
      <4>4. /\ children'[r.id] = [children[r.id] EXCEPT !.killed = TRUE]
            /\ \A id \in SessionIds \ {r.id} : children'[id] = children[id]
        BY <1>0, <4>1, <4>2
      <4>5. children'[r.id] \in Procs /\ children'[r.id].pending = children[r.id].pending
        BY <4>3, <4>4 DEF Procs
      <4> QED
        BY <1>0, <4>2, <4>4, <4>5 DEF InProcess
    <3>4. children' = children \/ r.op = "spawn" \/ r.op = "kill"
      BY <1>4 DEF Serve
    <3> QED
      BY <3>1, <3>2, <3>3, <3>4
  <2>2. \A id \in SessionIds : r # Frame("user", id)
    BY <1>4, FramesAre
  <2>3. \A n \in Nat : n - 0 <= n /\ n <= n /\ 0 <= n
    OBVIOUS
  <2>4. \A id \in SessionIds :
          /\ Occurrences(toHost', Frame("user", id)) <= Occurrences(toHost, Frame("user", id))
          /\ Occurrences(toServer', Frame("result", id)) <= Occurrences(toServer, Frame("result", id))
          /\ InProcess(id)' <= InProcess(id)
    BY <1>2, <1>3, <2>1, <2>2, <2>3
  <2> QED
    BY <1>0, <2>4, NoneGained
<1>5. CASE r.op = "user"
  <2>1. r.id \in SessionIds /\ r = Frame("user", r.id)
    BY <1>1, <1>5, RequestsAre
  <2>2. children' = IF children[r.id] = NoProc THEN children
                    ELSE [children EXCEPT ![r.id].busy = TRUE, ![r.id].pending = @ + 1]
    BY <1>5 DEF Serve
  <2>3. ASSUME NEW id \in SessionIds, id = r.id
        PROVE  InProcess(id)' \in {InProcess(id), InProcess(id) + 1}
    <3>1. CASE children[r.id] = NoProc
      BY <2>2, <2>3, <3>1 DEF InProcess
    <3>2. CASE children[r.id] # NoProc
      <4>1. children[r.id] \in Procs
        BY <1>0, <2>1, <3>2
      <4>2. children'[r.id] = [children[r.id] EXCEPT !.busy = TRUE, !.pending = @ + 1]
        BY <1>0, <2>1, <2>2, <3>2
      <4> HIDE DEF r
      <4>3. /\ children[r.id].pending \in Nat
            /\ children'[r.id] = [busy |-> TRUE, pending |-> children[r.id].pending + 1, killed |-> children[r.id].killed]
        BY <4>1, <4>2 DEF Procs
      <4>4. children'[r.id].pending = children[r.id].pending + 1
        BY <4>3
      <4>5. children'[r.id] # NoProc
        <5>1. children'[r.id] \in Procs
          BY <4>1, <4>3 DEF Procs
        <5> QED
          BY <1>0, <5>1
      <4> QED
        BY <2>3, <3>2, <4>4, <4>5 DEF InProcess
    <3> QED
      BY <3>1, <3>2
  <2>4. \A id \in SessionIds \ {r.id} : InProcess(id)' = InProcess(id)
    BY <1>0, <2>2 DEF InProcess
  <2> HIDE DEF r
  <2> SUFFICES ASSUME NEW id \in SessionIds PROVE Pending(id)' <= MaxPending
    BY DEF PromptsBounded
  <2>5. /\ Pending(id) = Occurrences(toHost, Frame("user", id))
               + Occurrences(toServer, Frame("result", id)) + InProcess(id)
        /\ Pending(id)' = Occurrences(toHost', Frame("user", id))
               + Occurrences(toServer, Frame("result", id)) + InProcess(id)'
        /\ Pending(id) <= MaxPending /\ InProcess(id)' \in Nat
    BY <1>0, <1>3, PendingIs, PendingIsLater DEF PromptsBounded
  <2>6. CASE id = r.id
    <3>1. Occurrences(toHost', Frame("user", id)) = Occurrences(toHost, Frame("user", id)) - 1
      BY <1>2, <2>1, <2>6
    <3>2. InProcess(id)' <= InProcess(id) + 1
      <4>1. InProcess(id)' \in {InProcess(id), InProcess(id) + 1}
        BY <2>3, <2>6
      <4>2. \A n \in Nat : n <= n + 1 /\ n + 1 <= n + 1
        OBVIOUS
      <4> QED
        BY <1>2, <4>1, <4>2
    <3> QED
      BY <1>0, <1>2, <2>5, <3>1, <3>2, ServeSums
  <2>7. CASE id # r.id
    <3>1. r # Frame("user", id)
      BY <2>1, <2>7, FramesAre
    <3>2. Occurrences(toHost', Frame("user", id)) = Occurrences(toHost, Frame("user", id)) - 0
      BY <1>2, <3>1
    <3>3. Occurrences(toHost', Frame("user", id)) = Occurrences(toHost, Frame("user", id))
      BY <1>2, <3>2
    <3> QED
      BY <2>4, <2>5, <2>7, <3>3
  <2> QED
    BY <2>6, <2>7
<1> QED
  BY <1>4, <1>5

LEMMA HostDeathGainsNone ==
    ASSUME HostInv, HostTyped', HostDies
    PROVE  PromptsBounded'
<1> SUFFICES ASSUME NEW id \in SessionIds PROVE Pending(id)' <= MaxPending
  BY DEF PromptsBounded
<1>1. toHost' = <<>> /\ toServer' = <<>> /\ children'[id] = NoProc
  BY DEF HostDies
<1>2. Pending(id)' = Occurrences(<<>>, Frame("user", id)) + Occurrences(<<>>, Frame("result", id)) + 0
  BY <1>1 DEF Pending, Occurrences
<1>3. Pending(id)' = 0 + 0 + 0
  BY <1>2, OccurrencesEmpty
<1> QED
  BY <1>3, HostAssumption

LEMMA PromptsKept == HostInv /\ HostInv' /\ PromptsBounded /\ [HostNext]_hostVars => PromptsBounded'
<1> SUFFICES ASSUME HostInv, HostInv', PromptsBounded, [HostNext]_hostVars PROVE PromptsBounded'
  OBVIOUS
<1>0. HostTyped'
  BY DEF HostInv
<1>1. CASE UNCHANGED hostVars
  <2>1. toHost' = toHost /\ toServer' = toServer /\ children' = children
    BY <1>1 DEF hostVars
  <2> QED
    BY <2>1 DEF PromptsBounded, Pending
<1> QED
  BY <1>0, <1>1, ServerGainsNone, PromptIsBounded, ProcessGainsNone, ServeGainsNone, HostDeathGainsNone
  DEF HostNext

\* Every reachable state of the session host is well typed, and no session ever has more prompts to
\* answer than it was let have.
THEOREM HostKeepsTypes == HostSpec => []HostTypeOK
<1>1. HostInv /\ PromptsBounded => HostTypeOK
  <2> SUFFICES ASSUME HostInv, PromptsBounded PROVE HostTypeOK
    OBVIOUS
  <2>1. HostTyped /\ LinkTyped /\ ServerTyped /\ MaxPending \in Nat /\ NoProc \notin Procs
    BY HostAssumption DEF HostInv, Procs
  <2>2. ASSUME NEW id \in SessionIds
        PROVE  children[id] \in {NoProc} \cup [busy : BOOLEAN, pending : 0..MaxPending, killed : BOOLEAN]
    <3>1. children[id] \in Procs \cup {NoProc}
      BY <2>1 DEF HostTyped
    <3>2. Pending(id) <= MaxPending /\ InProcess(id) <= Pending(id) /\ InProcess(id) \in Nat /\ Pending(id) \in Nat
      BY <2>1, PendingIs DEF PromptsBounded
    <3>3. InProcess(id) \in 0..MaxPending
      BY <2>1, <3>2
    <3>4. ASSUME children[id] # NoProc
          PROVE  children[id] \in [busy : BOOLEAN, pending : 0..MaxPending, killed : BOOLEAN]
      <4>1. children[id] \in Procs /\ children[id].pending \in 0..MaxPending
        BY <3>1, <3>3, <3>4 DEF InProcess
      <4> QED
        BY <4>1 DEF Procs
    <3> QED
      BY <3>4
  <2>3. children \in [SessionIds -> {NoProc} \cup [busy : BOOLEAN, pending : 0..MaxPending, killed : BOOLEAN]]
    BY <2>1, <2>2 DEF HostTyped
  <2> QED
    BY <2>1, <2>3 DEF HostTyped, LinkTyped, ServerTyped, HostTypeOK, ExitRecords
<1> QED
  BY <1>1, HostStarts, HostInvKept, PromptsBegin, PromptsKept, PTL DEF HostSpec

-----------------------------------------------------------------------------
(***************************************************************************)
(* A thread, its ledger torn or not: what is read back from a ledger are   *)
(* lines, because one that does not parse is skipped.                      *)
(***************************************************************************)
DiskLines == Lines \cup {TornLine, GarbageLine}

LogTypeOK ==
    /\ ledger \in Seq(DiskLines) /\ msgs \in Seq(Lines) /\ Len(msgs) <= MaxThreadMsgs
    /\ writing \in Lines \cup {NoLine}

PostTypeOK ==
    /\ queue \in Seq(Sends) /\ fanout \in Seq(Sends)
    /\ tries \in [Sends -> 0..MaxTries] /\ accepted \subseteq Sends /\ restarts \in 0..MaxRestarts

ReadTypeOK ==
    /\ read \in [Sessions -> Nat] /\ saved \in [Sessions -> Nat] /\ saveDue \subseteq Sessions
    /\ served \in [Sessions -> SUBSET Lines]

WakeTypeOK ==
    /\ nudge \in [Sessions -> BOOLEAN] /\ busy \subseteq Sessions
    /\ told \in [Sessions -> Nat] /\ forgotten \in Nat

ThreadParts == LogTypeOK /\ PostTypeOK /\ ReadTypeOK /\ WakeTypeOK

LEMMA ThreadPartsAre == ThreadParts => ThreadTypeOK
  BY DEF ThreadParts, LogTypeOK, PostTypeOK, ReadTypeOK, WakeTypeOK, ThreadTypeOK, DiskLines

LEMMA ReadableAreLines ==
    ASSUME NEW log \in Seq(DiskLines)
    PROVE  Readable(log) \in Seq(Lines)
<1> DEFINE at == {i \in DOMAIN log : log[i] \notin {TornLine, GarbageLine}}
           out == LinesAt(log, at)
<1>1. at \in SUBSET (1..Len(log)) /\ \A i \in at : log[i] \in Lines
  BY DEF DiskLines
<1>2. PICK f : out \in Seq(DiskLines) /\ Picks(f, out, log, at)
  <2> HIDE DEF at
  <2> QED
    BY <1>1, LinesAtPicks
<1> HIDE DEF at, out
<1>3. \A k \in 1..Len(out) : out[k] \in Lines
  BY <1>1, <1>2 DEF Picks
<1>4. out \in Seq(Lines)
  BY <1>2, <1>3
<1> QED
  BY <1>4 DEF Readable, out, at

LEMMA TailIsCapped ==
    ASSUME NEW log \in Seq(Lines)
    PROVE  TailOf(log) \in Seq(Lines) /\ Len(TailOf(log)) <= MaxThreadMsgs
<1>1. /\ Len(log) \in Nat /\ TailOf(log) \in Seq(Lines) /\ Len(TailOf(log)) = Len(log) - Cut(log)
  BY TailOfIs
<1>2. MaxThreadMsgs \in Nat
  BY ThreadAssumption
<1> QED
  BY <1>1, <1>2 DEF Cut

LEMMA LastSeqIsNat ==
    ASSUME NEW log \in Seq(Lines)
    PROVE  LastSeq(log) \in Nat /\ \A p \in Sends : Line(LastSeq(log) + 1, p) \in Lines
<1>1. LastSeq(log) \in Nat
  <2>1. CASE log = <<>>
    BY <2>1 DEF LastSeq
  <2>2. CASE log # <<>>
    BY <2>2, FrontOf, LinesAre DEF LastSeq
  <2> QED
    BY <2>1, <2>2
<1>2. LastSeq(log) + 1 \in Nat \ {0}
  BY <1>1
<1> QED
  BY <1>1, <1>2 DEF Line, Lines

\* A post is queued, is written, or fails.
LEMMA PostingTyped ==
    ASSUME ThreadParts, (\E p \in Sends : Post(p)) \/ BeginAppend \/ AppendFails
    PROVE  ThreadParts'
<1>0. LogTypeOK /\ PostTypeOK /\ ReadTypeOK /\ WakeTypeOK
  BY DEF ThreadParts
<1>1. ASSUME NEW p \in Sends, Post(p) PROVE ThreadParts'
  <2>1. tries' = [tries EXCEPT ![p] = @ + 1] /\ queue' = Append(queue, p)
    BY <1>1 DEF Post
  <2>2. tries[p] \in Nat /\ tries[p] + 1 \in 0..MaxTries
    BY <1>0, <1>1, ThreadAssumption DEF Post, MayTry, PostTypeOK
  <2>3. tries' \in [Sends -> 0..MaxTries]
    BY <1>0, <2>1, <2>2 DEF PostTypeOK
  <2>4. PostTypeOK'
    BY <1>0, <1>1, <2>1, <2>3 DEF PostTypeOK, Post
  <2> QED
    BY <1>0, <1>1, <2>4 DEF ThreadParts, LogTypeOK, ReadTypeOK, WakeTypeOK, Post, history
<1>2. CASE BeginAppend
  <2>1. PICK l : l = Line(LastSeq(msgs) + 1, Head(queue))
    OBVIOUS
  <2>2. l \in Lines
    <3>1. Head(queue) \in Sends /\ msgs \in Seq(Lines)
      BY <1>0, <1>2 DEF BeginAppend, PostTypeOK, LogTypeOK
    <3> QED
      BY <2>1, <3>1, LastSeqIsNat
  <2>3. ledger' = Written(ledger, l) /\ writing' = l
    BY <1>2, <2>1 DEF BeginAppend
  <2>4. Written(ledger, l) \in Seq(DiskLines)
    <3>1. l \in DiskLines /\ GarbageLine \in DiskLines /\ ledger \in Seq(DiskLines)
      BY <1>0, <2>2 DEF DiskLines, LogTypeOK
    <3>2. Append(ledger, l) \in Seq(DiskLines)
      BY <3>1
    <3>3. ASSUME ledger # <<>> PROVE Append(Front(ledger), GarbageLine) \in Seq(DiskLines)
      BY <3>1, <3>3, FrontOf
    <3> QED
      BY <3>2, <3>3 DEF Written
  <2>5. LogTypeOK'
    BY <1>0, <1>2, <2>2, <2>3, <2>4 DEF LogTypeOK, BeginAppend
  <2> QED
    BY <1>0, <1>2, <2>5 DEF ThreadParts, PostTypeOK, ReadTypeOK, WakeTypeOK, BeginAppend, history
<1>3. CASE AppendFails
  <2>1. PostTypeOK'
    BY <1>0, <1>3 DEF PostTypeOK, AppendFails
  <2> QED
    BY <1>0, <1>3, <2>1 DEF ThreadParts, LogTypeOK, ReadTypeOK, WakeTypeOK, AppendFails, history
<1> QED
  BY <1>1, <1>2, <1>3

LEMMA AnsweredTyped ==
    ASSUME ThreadParts, queue # <<>>, NEW p \in Sends, NEW n \in Nat, Answered(p, n),
           UNCHANGED <<tries, saved, restarts, served>>
    PROVE  PostTypeOK' /\ ReadTypeOK'
<1>0. PostTypeOK /\ ReadTypeOK
  BY DEF ThreadParts
<1>1. queue' \in Seq(Sends) /\ fanout' \in Seq(Sends) /\ accepted' \subseteq Sends
  BY <1>0 DEF PostTypeOK, Answered
<1>2. read' \in [Sessions -> Nat] /\ saveDue' \subseteq Sessions
  <2>1. CASE Author[p] \in Sessions /\ p \notin CardOnly
    <3>1. /\ read' = [read EXCEPT ![Author[p]] = SenderCursor(@, n)]
          /\ saveDue' = saveDue \cup {Author[p]}
      BY <2>1 DEF Answered
    <3>2. \A k \in Nat : SenderCursor(k, n) \in Nat
      BY DEF SenderCursor
    <3> QED
      BY <1>0, <2>1, <3>1, <3>2 DEF ReadTypeOK
  <2>2. CASE ~(Author[p] \in Sessions /\ p \notin CardOnly)
    BY <1>0, <2>2 DEF Answered, ReadTypeOK
  <2> QED
    BY <2>1, <2>2
<1> QED
  BY <1>0, <1>1, <1>2 DEF PostTypeOK, ReadTypeOK

\* A post is answered, its line landed now or before. A line under way has its send in the queue.
LEMMA AnsweringTyped ==
    ASSUME ThreadParts, writing # NoLine => queue # <<>>, EndAppend \/ AnswerDup
    PROVE  ThreadParts'
<1>0. LogTypeOK /\ PostTypeOK /\ ReadTypeOK /\ WakeTypeOK
  BY DEF ThreadParts
<1>1. CASE EndAppend
  <2>1. writing \in Lines /\ writing.send \in Sends /\ writing.seq \in Nat /\ queue # <<>>
    BY <1>0, <1>1, LinesAre DEF EndAppend, LogTypeOK
  <2>2. PostTypeOK' /\ ReadTypeOK'
    BY <1>1, <2>1, AnsweredTyped DEF EndAppend, history
  <2>3. Append(msgs, writing) \in Seq(Lines)
    BY <1>0, <2>1 DEF LogTypeOK
  <2>4. LogTypeOK'
    BY <1>0, <1>1, <2>3, TailIsCapped DEF EndAppend, LogTypeOK
  <2> QED
    BY <1>0, <1>1, <2>2, <2>4 DEF ThreadParts, WakeTypeOK, EndAppend, history
<1>2. CASE AnswerDup
  <2>1. PICK i \in Dup(Head(queue)) : Answered(Head(queue), msgs[i].seq)
    BY <1>2 DEF AnswerDup
  <2>2. queue # <<>> /\ Head(queue) \in Sends /\ msgs[i].seq \in Nat
    BY <1>0, <1>2, LinesAre DEF AnswerDup, Dup, LogTypeOK, PostTypeOK
  <2>3. PostTypeOK' /\ ReadTypeOK'
    BY <1>2, <2>1, <2>2, AnsweredTyped DEF AnswerDup, history
  <2> QED
    BY <1>0, <1>2, <2>3 DEF ThreadParts, LogTypeOK, WakeTypeOK, AnswerDup, history
<1> QED
  BY <1>1, <1>2

\* Sessions are woken, work and read.
LEMMA WakingTyped ==
    ASSUME ThreadParts, Wake \/ \E s \in Sessions : TurnEnds(s) \/ Prompted(s)
    PROVE  ThreadParts'
<1>0. LogTypeOK /\ PostTypeOK /\ ReadTypeOK /\ WakeTypeOK /\ LastSeq(msgs) \in Nat
  BY LastSeqIsNat DEF ThreadParts, LogTypeOK
<1>1. CASE Wake
  <2>1. PICK woken : /\ woken = Woken(Head(fanout)) /\ Flush(woken \ busy)
                     /\ nudge' = [s \in Sessions |-> IF s \in woken THEN s \in busy ELSE nudge[s]]
    BY <1>1 DEF Wake
  <2>2. woken \subseteq Sessions
    BY <2>1 DEF Woken
  <2>3. busy' \subseteq Sessions /\ told' \in [Sessions -> Nat]
    BY <1>0, <2>1, <2>2 DEF Flush, WakeTypeOK
  <2>4. nudge' \in [Sessions -> BOOLEAN]
    <3>1. ASSUME NEW s \in Sessions PROVE (IF s \in woken THEN s \in busy ELSE nudge[s]) \in BOOLEAN
      <4>1. (s \in busy) \in BOOLEAN /\ nudge[s] \in BOOLEAN
        BY <1>0 DEF WakeTypeOK
      <4> QED
        BY <4>1, Zenon
    <3> QED
      BY <2>1, <3>1
  <2>5. WakeTypeOK'
    BY <1>0, <1>1, <2>3, <2>4 DEF WakeTypeOK, Wake
  <2>6. fanout' \in Seq(Sends)
    BY <1>0, <1>1 DEF PostTypeOK, Wake
  <2> QED
    BY <1>0, <1>1, <2>5, <2>6 DEF ThreadParts, LogTypeOK, PostTypeOK, ReadTypeOK, Wake
<1>2. ASSUME NEW s \in Sessions, TurnEnds(s) PROVE ThreadParts'
  <2>1. /\ nudge' = [nudge EXCEPT ![s] = FALSE] /\ busy' \subseteq busy
        /\ told' \in {told, [told EXCEPT ![s] = LastSeq(msgs)]}
    BY <1>2 DEF TurnEnds
  <2>2. WakeTypeOK'
    BY <1>0, <1>2, <2>1 DEF WakeTypeOK, TurnEnds
  <2> QED
    BY <1>0, <1>2, <2>2 DEF ThreadParts, LogTypeOK, PostTypeOK, ReadTypeOK, TurnEnds
<1>3. ASSUME NEW s \in Sessions, Prompted(s) PROVE ThreadParts'
  <2>1. WakeTypeOK'
    BY <1>0, <1>3 DEF WakeTypeOK, Prompted, history
  <2> QED
    BY <1>0, <1>3, <2>1 DEF ThreadParts, LogTypeOK, PostTypeOK, ReadTypeOK, Prompted, history
<1> QED
  BY <1>1, <1>2, <1>3

LEMMA ReadingTyped ==
    ASSUME ThreadParts, NEW s \in Sessions, ReadInbox(s) \/ SaveCursor(s)
    PROVE  ThreadParts'
<1>0. LogTypeOK /\ PostTypeOK /\ ReadTypeOK /\ WakeTypeOK
  BY DEF ThreadParts
<1>1. CASE ReadInbox(s)
  <2>1. PICK log : /\ log = Backlog(s) /\ read' = [read EXCEPT ![s] = LastSeq(log)]
                   /\ served' = [served EXCEPT ![s] = @ \cup {log[i] : i \in {j \in DOMAIN log :
                          log[j].seq > read[s] /\ log[j].send \notin CardOnly}}]
    BY <1>1 DEF ReadInbox
  <2>2. log \in Seq(Lines)
    BY <1>0, <2>1, ReadableAreLines DEF Backlog, LogTypeOK
  <2>3. LastSeq(log) \in Nat
    BY <2>2, LastSeqIsNat
  <2>4. {log[i] : i \in {j \in DOMAIN log : log[j].seq > read[s] /\ log[j].send \notin CardOnly}} \subseteq Lines
    BY <2>2
  <2>5. served' \in [Sessions -> SUBSET Lines] /\ read' \in [Sessions -> Nat]
    BY <1>0, <2>1, <2>3, <2>4 DEF ReadTypeOK
  <2>6. ReadTypeOK'
    BY <1>0, <1>1, <2>5 DEF ReadTypeOK, ReadInbox
  <2> QED
    BY <1>0, <1>1, <2>6 DEF ThreadParts, LogTypeOK, PostTypeOK, WakeTypeOK, ReadInbox
<1>2. CASE SaveCursor(s)
  <2>1. ReadTypeOK'
    BY <1>0, <1>2 DEF ReadTypeOK, SaveCursor, history
  <2> QED
    BY <1>0, <1>2, <2>1 DEF ThreadParts, LogTypeOK, PostTypeOK, WakeTypeOK, SaveCursor, history
<1> QED
  BY <1>1, <1>2

\* Whatever is left of a line that was under way, the tail is read back from what parses.
LEMMA RestartTyped ==
    ASSUME ThreadParts, RestartServer
    PROVE  ThreadParts'
<1>0. LogTypeOK /\ PostTypeOK /\ ReadTypeOK /\ WakeTypeOK
  BY DEF ThreadParts
<1>1. ledger' \in Seq(DiskLines)
  <2>1. ledger \in Seq(DiskLines) /\ TornLine \in DiskLines
    BY <1>0 DEF LogTypeOK, DiskLines
  <2>2. ledger # <<>> => Front(ledger) \in Seq(DiskLines)
    BY <2>1, FrontOf
  <2>3. ledger # <<>> => Append(Front(ledger), TornLine) \in Seq(DiskLines)
    BY <2>1, <2>2
  <2>4. \/ ledger' = ledger
        \/ ledger # <<>> /\ ledger' = Front(ledger)
        \/ ledger # <<>> /\ ledger' = Append(Front(ledger), TornLine)
    BY DEF RestartServer, Survivors
  <2> QED
    BY <2>1, <2>2, <2>3, <2>4
<1>2. Readable(ledger') \in Seq(Lines)
  BY <1>1, ReadableAreLines
<1>3. msgs' \in Seq(Lines) /\ Len(msgs') <= MaxThreadMsgs
  BY <1>2, TailIsCapped DEF RestartServer
<1>4. LogTypeOK'
  BY <1>1, <1>3 DEF LogTypeOK, RestartServer
<1>5. restarts' \in 0..MaxRestarts
  <2>1. restarts' = restarts + 1 /\ restarts < MaxRestarts /\ restarts \in Nat /\ MaxRestarts \in Nat
    BY <1>0, ThreadAssumption DEF RestartServer, PostTypeOK
  <2> QED
    BY <2>1
<1>6. PostTypeOK'
  BY <1>0, <1>5 DEF PostTypeOK, RestartServer
<1>7. ReadTypeOK'
  BY <1>0 DEF ReadTypeOK, RestartServer
<1>8. forgotten' \in Nat
  BY <1>3, LastSeqIsNat DEF RestartServer
<1>9. nudge' \in [Sessions -> BOOLEAN]
  <2>1. nudge' = [s \in Sessions |-> FALSE] /\ FALSE \in BOOLEAN
    BY DEF RestartServer
  <2> QED
    BY <2>1
<1>10. WakeTypeOK'
  BY <1>0, <1>8, <1>9 DEF WakeTypeOK, RestartServer
<1> QED
  BY <1>4, <1>6, <1>7, <1>10 DEF ThreadParts

\* A line under way has its send at the head of the queue.
UnderWayIsQueued == writing # NoLine => queue # <<>>

LEMMA UnderWayStep == ThreadParts /\ UnderWayIsQueued /\ [ThreadNext]_threadVars => UnderWayIsQueued'
<1> SUFFICES ASSUME ThreadParts, UnderWayIsQueued, [ThreadNext]_threadVars PROVE UnderWayIsQueued'
  OBVIOUS
<1>1. ASSUME NEW p \in Sends, Post(p) PROVE UnderWayIsQueued'
  <2>1. queue' = Append(queue, p) /\ queue \in Seq(Sends)
    BY <1>1 DEF Post, ThreadParts, PostTypeOK
  <2> QED
    BY <2>1 DEF UnderWayIsQueued
<1>2. CASE EndAppend \/ AnswerDup \/ AppendFails \/ RestartServer
  BY <1>2 DEF EndAppend, AnswerDup, AppendFails, RestartServer, UnderWayIsQueued
<1>3. CASE BeginAppend
  BY <1>3 DEF BeginAppend, UnderWayIsQueued
<1>4. CASE \/ Wake \/ UNCHANGED threadVars
           \/ \E s \in Sessions : TurnEnds(s) \/ Prompted(s) \/ ReadInbox(s) \/ SaveCursor(s)
  BY <1>4 DEF Wake, TurnEnds, Prompted, ReadInbox, SaveCursor, threadVars, UnderWayIsQueued
<1> QED
  BY <1>1, <1>2, <1>3, <1>4 DEF ThreadNext

\* Every reachable state of a thread is well typed, on a disk that tears lines too, and the tail in
\* memory never outgrows its cap.
THEOREM ThreadKeepsTypes == ThreadSpec => []ThreadTypeOK
<1>1. ThreadInit => ThreadParts /\ UnderWayIsQueued
  <2> SUFFICES ASSUME ThreadInit PROVE ThreadParts /\ UnderWayIsQueued
    OBVIOUS
  <2>0. /\ 0 \in 0..MaxTries /\ 0 \in 0..MaxRestarts /\ 0 <= MaxThreadMsgs /\ Len(<<>>) = 0 /\ FALSE \in BOOLEAN
    BY ThreadAssumption
  <2>1. LogTypeOK
    BY <2>0 DEF ThreadInit, LogTypeOK
  <2>2. PostTypeOK
    BY <2>0 DEF ThreadInit, PostTypeOK
  <2>3. ReadTypeOK
    BY DEF ThreadInit, ReadTypeOK
  <2>4. WakeTypeOK
    BY <2>0 DEF ThreadInit, WakeTypeOK
  <2> QED
    BY <2>1, <2>2, <2>3, <2>4 DEF ThreadInit, ThreadParts, UnderWayIsQueued
<1>2. ThreadParts /\ UnderWayIsQueued /\ [ThreadNext]_threadVars => ThreadParts'
  <2>1. ThreadParts /\ UNCHANGED threadVars => ThreadParts'
    BY DEF threadVars, ThreadParts, LogTypeOK, PostTypeOK, ReadTypeOK, WakeTypeOK
  <2> QED
    BY <2>1, PostingTyped, AnsweringTyped, WakingTyped, ReadingTyped, RestartTyped
    DEF ThreadNext, UnderWayIsQueued
<1> QED
  BY <1>1, <1>2, UnderWayStep, ThreadPartsAre, PTL DEF ThreadSpec

-----------------------------------------------------------------------------
(***************************************************************************)
(* The parts together.  A behaviour of MCParts is a behaviour of every     *)
(* part, of which all but one stand still.                                 *)
(***************************************************************************)
LEMMA PartsBegin ==
    PartsInit =>
        /\ ElementsInit /\ ThreadInit /\ SeatsInit /\ RequestInit /\ HostInit /\ CodexInit /\ KernelsInit
        /\ ToolsInit /\ CellsInit /\ SupervisorInit /\ LedgerInit /\ AnnotationsInit /\ FileCacheInit
  BY DEF PartsInit

LEMMA PartsStep ==
    [PartsNext]_partVars =>
        /\ [ElementsNext]_elementVars /\ [ThreadNext]_threadVars /\ [SeatsNext]_seatVars
        /\ [RequestNext]_requestVars /\ [HostNext]_hostVars /\ [CodexNext]_codexVars
        /\ [KernelsNext]_kernelVars /\ [ToolsNext]_toolVars /\ [CellsNext]_cellVars
        /\ [SupervisorNext]_supervisorVars /\ [LedgerNext]_ledgerVars /\ [AnnotationsNext]_noteVars
        /\ [FileCacheNext]_cacheVars
  BY DEF PartsNext, partVars

\* The type invariants of all the parts.
EveryTypeOK ==
    /\ ElementsTypeOK /\ ThreadTypeOK /\ SeatsTypeOK /\ RequestTypeOK /\ HostTypeOK /\ CodexTypeOK
    /\ KernelsTypeOK /\ ToolsTypeOK /\ CellsTypeOK /\ SupervisorTypeOK /\ LedgerTypeOK
    /\ AnnotationsTypeOK /\ FileCacheTypeOK

PartNamed ==
    part \in {"elements", "thread", "seats", "requests", "host", "codex", "kernels", "tools",
              "cells", "supervisor", "ledger", "notes", "cache"}

\* Every reachable state of every part is well typed, for all values of the constants: a stack of
\* processes, a queue or a buffer of values that do not belong there is in none of them, and what
\* the model bounds keeps its bound.
THEOREM TypesHold == PartsSpec => []TypesOK
<1>1. ElementsSpec => []ElementsTypeOK
  BY ElementsKeepTypes
<1>2. ThreadSpec => []ThreadTypeOK
  BY ThreadKeepsTypes
<1>3. SeatsInit /\ [][SeatsNext]_seatVars => []SeatsTypeOK
  <2>1. SeatsSpec => []SeatsInv
    BY SeatsInvariance
  <2>2. SeatsInv => SeatsTypeOK
    BY DEF SeatsInv
  <2> QED
    BY <2>1, <2>2, PTL DEF SeatsSpec
<1>4. RequestInit /\ [][RequestNext]_requestVars => []RequestTypeOK
  <2>1. RequestsInv => RequestTypeOK
    BY DEF RequestsInv
  <2> QED
    BY <2>1, RequestsInvInit, RequestsInvStep, PTL
<1>5. HostSpec => []HostTypeOK
  BY HostKeepsTypes
<1>6. CodexSpec => []CodexTypeOK
  BY CodexKeepsTypes
<1>7. KernelsInit /\ [][KernelsNext]_kernelVars => []KernelsTypeOK
  BY KernelsKeepTypes
<1>8. ToolsInit /\ [][ToolsNext]_toolVars => []ToolsTypeOK
  <2>1. ToolsInv => ToolsTypeOK
    BY DEF ToolsInv
  <2> QED
    BY <2>1, ToolsInvInit, ToolsInvStep, PTL
<1>9. CellsSpec => []CellsTypeOK
  BY CellsKeepTypes
<1>10. SupervisorInit /\ [][SupervisorNext]_supervisorVars => []SupervisorTypeOK
  BY SupervisorKeepsTypes
<1>11. LedgerSpec => []LedgerTypeOK
  BY LedgerKeepsTypes
<1>12. AnnotationsSpec => []AnnotationsTypeOK
  BY AnnotationsKeepTypes
<1>13. FileCacheSpec => []FileCacheTypeOK
  BY FileCacheKeepsTypes
<1>14. PartsSpec => []EveryTypeOK
  <2>1. EveryTypeOK <=>
            /\ ElementsTypeOK /\ ThreadTypeOK /\ SeatsTypeOK /\ RequestTypeOK /\ HostTypeOK /\ CodexTypeOK
            /\ KernelsTypeOK /\ ToolsTypeOK /\ CellsTypeOK /\ SupervisorTypeOK /\ LedgerTypeOK
            /\ AnnotationsTypeOK /\ FileCacheTypeOK
    BY DEF EveryTypeOK
  <2> QED
    BY <1>1, <1>2, <1>3, <1>4, <1>5, <1>6, <1>7, <1>8, <1>9, <1>10, <1>11, <1>12, <1>13, <2>1,
       PartsBegin, PartsStep, PTL
    DEF PartsSpec, ElementsSpec, ThreadSpec, HostSpec, CodexSpec, CellsSpec, LedgerSpec,
        AnnotationsSpec, FileCacheSpec
<1>15. PartsSpec => []PartNamed
  <2>1. PartsInit => PartNamed
    BY DEF PartsInit, PartNamed
  <2>2. PartNamed /\ [PartsNext]_partVars => PartNamed'
    BY DEF PartNamed, PartsNext, partVars
  <2> QED
    BY <2>1, <2>2, PTL DEF PartsSpec
<1>16. EveryTypeOK /\ PartNamed => TypesOK
  BY DEF EveryTypeOK, PartNamed, TypesOK
<1> QED
  BY <1>14, <1>15, <1>16, PTL

=============================================================================
