------------------------------ MODULE RollBack ------------------------------
(***************************************************************************)
(* Rolling an optimistic edit back: RemoteEventStore.append hands an event *)
(* the server refused (4xx) to onReject (App.tsx), the only caller of      *)
(* UndoManager.forget.  Later edits are already applied, and queued behind *)
(* the refused one, when the answer arrives.                               *)
(***************************************************************************)
EXTENDS UndoManager

VARIABLES
    outbox,   \* this tab's events the server has not answered yet, oldest first
    rejected  \* seqs of the events the server refused

rollVars == <<allVars, outbox, rejected>>

RollBackTypeOK ==
    /\ UndoTypeOK
    /\ outbox \in Seq(Event)
    /\ rejected \subseteq Nat

RollBackInit == UndoInit /\ outbox = <<>> /\ rejected = {}

\* Faulty variant of TabStep: a durable write is queued for a step that appended no event.
TabStepQueuesAlways ==
    /\ UndoNext
    /\ outbox' = Append(outbox, event')
    /\ UNCHANGED rejected

\* Persistence.append: every event appended to the log is queued for the server.
TabStep ==
    /\ UndoNext
    /\ outbox' = IF event' = Nothing THEN outbox ELSE Append(outbox, event')
    /\ UNCHANGED rejected

\* The durable write of the oldest queued event succeeded.
Ack ==
    /\ outbox # <<>>
    /\ outbox' = Tail(outbox)
    /\ UNCHANGED <<allVars, rejected>>

\* onReject: re-apply the refused event's inverse as "remote", then forget its undo entry.
Reject ==
    /\ outbox # <<>>
    /\ LET refused == Head(outbox)
       IN  /\ Transact(targets(invertDiff(refused.diff)), "remote")
           /\ NoRecord
           /\ inbound' = IF Idle THEN {} ELSE inbound \cup (DOMAIN refused.diff \ DOMAIN buffer)
           /\ undos' = forget(refused.diff)
           /\ foreign' = foreign \cup DOMAIN refused.diff
           /\ rejected' = rejected \cup {refused.seq}
    /\ outbox' = Tail(outbox)
    /\ UNCHANGED <<owner, redos, initial>>

RollBackNext == TabStep \/ Ack \/ Reject

RollBackSpec == RollBackInit /\ [][RollBackNext]_rollVars

-----------------------------------------------------------------------------
(***************************************************************************)
(* undo.ts:62-68: after a roll-back "a later Ctrl-Z would then revert      *)
(* something already gone (double-apply). So forget that void entry": no   *)
(* refused edit is left on the undo stack.                                 *)
(***************************************************************************)
RejectedIsForgotten == \A i \in DOMAIN undos : undos[i].of \notin rejected
=============================================================================
