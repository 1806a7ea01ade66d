----------------------------- MODULE FileCache -----------------------------
(***************************************************************************)
(* One file, and the folder it lies in, as a tab shows them: a cache that  *)
(* is filled on demand, kept current by a watch that rides the tab's       *)
(* socket, written by saves (content.ts, loader.ts, feeds.ts, server-fs.ts,*)
(* vite-fs-plugin.ts, routes/files.ts).                                    *)
(*                                                                         *)
(* The file is what its last change left: whether it is there, and "at",   *)
(* the number of that change, for its bytes.                               *)
(***************************************************************************)
EXTENDS Integers, Sequences

CONSTANTS
    MaxCacheInputs,     \* bound: changes of the file and cards pinned
    MaxCacheFaults,     \* bound: sockets dropped and calls failed
    NotRead                          \* no value: not cached, not listed, a call not served

ASSUME FileCacheAssumption ==
    /\ MaxCacheInputs \in Nat /\ MaxCacheFaults \in Nat
    /\ NotRead \notin BOOLEAN \cup Nat \cup [there : BOOLEAN, at : Nat]

CardKinds == {"file", "folder"}
ShownParts == {"body", "gone", "listing"}

VARIABLES
    onDisk,     \* the file: [there, at]
    socketUp,     \* whether the tab's socket is open
    watcher,    \* the server's watcher of the folder: "off", "scanning" or "ready"
    toldFile,       \* the file as the watcher knows it
    watchFrames,\* the watch events under way
    pinned,     \* the cards the board has: of the file, of its folder
    watching,   \* whether the tab is subscribed to the folder's watch
    cached, gone, listed,   \* what the tab shows: the body, a tombstone, whether the folder lists the file
    fileCalls,  \* requests under way: [by, since, got]; since is the event that caused a refetch
    shownAt,    \* history: the changes that cached and gone were last set from
    excused,    \* history: what the tab missed, or had overwritten by an older answer
    pins, cacheFaults

tabVars == <<cached, gone, listed, fileCalls, shownAt, excused>>
cacheVars == <<onDisk, socketUp, watcher, toldFile, watchFrames, pinned, watching, tabVars, pins, cacheFaults>>

FileCacheInit ==
    /\ onDisk \in [there : BOOLEAN, at : {0}] /\ toldFile = onDisk
    /\ socketUp = TRUE /\ watcher = "off" /\ watchFrames = <<>> /\ pinned = {} /\ watching = FALSE
    /\ cached = NotRead /\ gone = FALSE /\ listed = NotRead /\ fileCalls = {}
    /\ shownAt = [body |-> 0, gone |-> 0] /\ excused = {} /\ pins = 0 /\ cacheFaults = 0

InputsLeft == onDisk.at + pins < MaxCacheInputs
Fault == cacheFaults < MaxCacheFaults /\ cacheFaults' = cacheFaults + 1

Call(by, since) == [by |-> by, since |-> since, got |-> NotRead]
Asked(by) == {call \in fileCalls : call.by = by}
CallOnce(by) == IF Asked(by) = {} THEN {Call(by, 0)} ELSE {}

\* The tab shows, holds or has asked for something that a change can make stale.
HasShown == pinned # {} \/ cached # NotRead \/ gone \/ listed # NotRead \/ fileCalls # {}
MissedIf(cond) == excused' = excused \cup (IF cond /\ HasShown THEN ShownParts ELSE {})

\* The file gets new bytes, or goes; a watch that is not up misses it.
ChangedTo(there) ==
    /\ InputsLeft /\ onDisk' = [there |-> there, at |-> onDisk.at + 1]
    /\ MissedIf(watcher # "ready")

\* By an editor, an agent's tool, git, or the rename and delete routes.
ChangeFile(there) ==
    /\ onDisk.there \/ there
    /\ ChangedTo(there)
    /\ UNCHANGED <<socketUp, watcher, toldFile, watchFrames, pinned, watching, cached, gone, listed, fileCalls,
                   shownAt, pins, cacheFaults>>

-----------------------------------------------------------------------------
(***************************************************************************)
(* The watch.                                                              *)
(***************************************************************************)
Scanned ==
    /\ watcher = "scanning" /\ watcher' = "ready" /\ toldFile' = onDisk
    /\ UNCHANGED <<onDisk, socketUp, watchFrames, pinned, watching, tabVars, pins, cacheFaults>>

EventType(old, new) == IF old.there /\ new.there THEN "change" ELSE IF new.there THEN "add" ELSE "unlink"

\* The watcher tells what has become of the file since it last told; of one that came and went it
\* says nothing, of one that went and came that it changed, though a request may have seen it between.
WatcherTells ==
    /\ watcher = "ready" /\ toldFile # onDisk /\ toldFile' = onDisk
    /\ watchFrames' = IF toldFile.there \/ onDisk.there
                      THEN Append(watchFrames, [type |-> EventType(toldFile, onDisk), at |-> onDisk.at])
                      ELSE watchFrames
    /\ excused' = excused \cup (IF ~toldFile.there /\ ~onDisk.there THEN ShownParts
                                ELSE IF toldFile.there = onDisk.there /\ onDisk.at > toldFile.at + 1 THEN {"listing"}
                                ELSE {})
    /\ UNCHANGED <<onDisk, socketUp, watcher, pinned, watching, cached, gone, listed, fileCalls, shownAt,
                   pins, cacheFaults>>

\* Whether the watch has news that has not reached the tab.
NewsUnderWay == watcher = "ready" /\ (toldFile # onDisk \/ watchFrames # <<>>)

Drops ==
    /\ socketUp /\ Fault
    /\ socketUp' = FALSE /\ watcher' = "off" /\ watchFrames' = <<>> /\ MissedIf(NewsUnderWay)
    /\ UNCHANGED <<onDisk, toldFile, pinned, watching, cached, gone, listed, fileCalls, shownAt, pins>>

\* Faulty variant of Reconnects: the watches are not armed again.
ReconnectsUnarmed ==
    /\ ~socketUp /\ socketUp' = TRUE
    /\ UNCHANGED <<onDisk, watcher, toldFile, watchFrames, pinned, watching, tabVars, pins, cacheFaults>>

\* onopen arms the watches again; nothing is fetched again.
Reconnects ==
    /\ ~socketUp /\ socketUp' = TRUE /\ watcher' = IF watching THEN "scanning" ELSE "off"
    /\ UNCHANGED <<onDisk, toldFile, watchFrames, pinned, watching, tabVars, pins, cacheFaults>>

-----------------------------------------------------------------------------
(***************************************************************************)
(* The cards.                                                              *)
(***************************************************************************)
\* A card asks for what the tab does not hold; the folder is watched from the next turn on.
Pin(card) ==
    /\ InputsLeft /\ pins' = pins + 1 /\ card \notin pinned /\ pinned' = pinned \cup {card} /\ watching' = TRUE
    /\ watcher' = IF socketUp /\ ~watching THEN "scanning" ELSE watcher
    /\ fileCalls' = fileCalls \cup (CASE card = "file" /\ cached = NotRead   -> CallOnce("lazy")
                                      [] card = "folder" /\ listed = NotRead -> CallOnce("listing")
                                      [] OTHER                              -> {})
    /\ UNCHANGED <<onDisk, socketUp, toldFile, watchFrames, cached, gone, listed, shownAt, excused,
                   cacheFaults>>

Unpin(card) ==
    /\ card \in pinned /\ pinned' = pinned \ {card}
    /\ UNCHANGED <<onDisk, socketUp, watcher, toldFile, watchFrames, watching, tabVars, pins, cacheFaults>>

\* WATCH_CLOSE_SETTLE_MS after nothing needs the folder any more.
WatchCloses ==
    /\ watching /\ pinned = {} /\ watching' = FALSE /\ watcher' = "off" /\ watchFrames' = <<>>
    /\ MissedIf(NewsUnderWay)
    /\ UNCHANGED <<onDisk, socketUp, toldFile, pinned, cached, gone, listed, fileCalls, shownAt, pins,
                   cacheFaults>>

\* refreshListing: a request that is under way stands for the new one, even one that was served before.
Relisted(frame) == frame.type # "change" /\ (listed # NotRead \/ "folder" \in pinned)
ListsTooEarly == \E call \in Asked("listing") : call.got # NotRead

\* onWatchEvent: a file without a card is nothing to it.
OnWatchEvent ==
    /\ socketUp /\ watchFrames # <<>> /\ watchFrames' = Tail(watchFrames)
    /\ LET frame == Head(watchFrames)
           carded == "file" \in pinned
       IN  /\ fileCalls' = fileCalls \cup (IF Relisted(frame) THEN CallOnce("listing") ELSE {})
                 \cup (IF carded /\ frame.type # "unlink" THEN {Call("watch", frame.at)} ELSE {})
           /\ excused' = excused \cup (IF frame.type # "change" /\ ListsTooEarly THEN {"listing"} ELSE {})
                                 \cup (IF ~carded /\ HasShown THEN {"body", "gone"} ELSE {})
           /\ gone' = IF carded THEN frame.type = "unlink" ELSE gone
           /\ shownAt' = IF carded THEN [shownAt EXCEPT !.gone = frame.at] ELSE shownAt
    /\ UNCHANGED <<onDisk, socketUp, watcher, toldFile, pinned, watching, cached, listed, pins, cacheFaults>>

\* writeFileContent, up to the write in handleFileWrite, which asks for no baseVersion.
SaveFile ==
    /\ "file" \in pinned /\ Asked("save") = {} /\ ChangedTo(TRUE)
    /\ fileCalls' = fileCalls \cup {[Call("save", 0) EXCEPT !.got = onDisk']}
    /\ UNCHANGED <<socketUp, watcher, toldFile, watchFrames, pinned, watching, cached, gone, listed, shownAt,
                   pins, cacheFaults>>

-----------------------------------------------------------------------------
(***************************************************************************)
(* The requests.                                                           *)
(***************************************************************************)
\* handleFile, handleLs.
ServesCall(call) ==
    /\ call.got = NotRead /\ fileCalls' = (fileCalls \ {call}) \cup {[call EXCEPT !.got = onDisk]}
    /\ UNCHANGED <<onDisk, socketUp, watcher, toldFile, watchFrames, pinned, watching, cached, gone, listed, shownAt,
                   excused, pins, cacheFaults>>

\* What an answer sets: a body if the file was there, a tombstone by the card's own fetch only.
SetsBody(call) == call.by # "listing" /\ call.got.there
SetsGone(call) == call.by = "lazy"

\* An answer comes, in whatever order; one that was read before what is shown overwrites it.
AnswerCall(call) ==
    /\ call.got # NotRead /\ fileCalls' = fileCalls \ {call}
    /\ LET older(part, sets) == IF sets /\ call.got.at < shownAt[part] THEN {part} ELSE {}
       IN  /\ cached' = IF SetsBody(call) THEN call.got.at ELSE cached
           /\ gone' = IF SetsGone(call) THEN ~call.got.there ELSE gone
           /\ listed' = IF call.by = "listing" THEN call.got.there ELSE listed
           /\ shownAt' = [body |-> IF SetsBody(call) THEN call.got.at ELSE shownAt.body,
                          gone |-> IF SetsGone(call) THEN call.got.at ELSE shownAt.gone]
           /\ excused' = excused \cup older("body", SetsBody(call)) \cup older("gone", SetsGone(call))
    /\ UNCHANGED <<onDisk, socketUp, watcher, toldFile, watchFrames, pinned, watching, pins, cacheFaults>>

\* The network, or a server that is restarting, loses the call or its answer.
CallFails(call) ==
    /\ Fault /\ fileCalls' = fileCalls \ {call}
    /\ excused' = excused \cup (CASE call.by = "save"    -> {}
                                  [] call.by = "listing" -> {"listing"}
                                  [] OTHER               -> {"body", "gone"})
    /\ UNCHANGED <<onDisk, socketUp, watcher, toldFile, watchFrames, pinned, watching, cached, gone,
                   listed, shownAt, pins>>

FileCacheNext ==
    \/ \E there \in BOOLEAN : ChangeFile(there)
    \/ Scanned \/ WatcherTells \/ Drops \/ Reconnects \/ WatchCloses \/ OnWatchEvent \/ SaveFile
    \/ \E card \in CardKinds : Pin(card) \/ Unpin(card)
    \/ \E call \in fileCalls : ServesCall(call) \/ AnswerCall(call) \/ CallFails(call)

FileCacheSpec == FileCacheInit /\ [][FileCacheNext]_cacheVars

-----------------------------------------------------------------------------
FileCacheTypeOK ==
    /\ onDisk \in [there : BOOLEAN, at : 0..MaxCacheInputs] /\ toldFile \in [there : BOOLEAN, at : 0..MaxCacheInputs]
    /\ watcher \in {"off", "scanning", "ready"} /\ pinned \subseteq CardKinds /\ excused \subseteq ShownParts
    /\ cached \in 0..MaxCacheInputs \cup {NotRead} /\ gone \in BOOLEAN /\ listed \in BOOLEAN \cup {NotRead}
    /\ \A by \in {"lazy", "listing", "save"} : \A c, d \in Asked(by) : c = d
    /\ watchFrames # <<>> => socketUp /\ watching

\* The tab shows the disk.  A card on a connected tab has its watch, however often the socket and the
\* card came and went; and once nothing is under way, the body, the tombstone and the listing are the
\* file's, unless the tab missed a change, or an older answer came last.
CardsShowDisk ==
    /\ socketUp /\ pinned # {} => watcher # "off"
    /\ socketUp /\ watcher = "ready" /\ toldFile = onDisk /\ watchFrames = <<>> /\ fileCalls = {} =>
           /\ "file" \in pinned =>
                  /\ "gone" \notin excused => gone = ~onDisk.there
                  /\ "body" \notin excused /\ onDisk.there => cached = onDisk.at
           /\ "folder" \in pinned /\ "listing" \notin excused => listed = onDisk.there
=============================================================================
