------------------------------- MODULE Tools -------------------------------
(***************************************************************************)
(* The interaction layer of a tab (interaction/src): bindDom filters the   *)
(* pointers of the canvas, InteractionManager.dispatch routes them to the  *)
(* active tool, the tools open gestures on the one buffer the store has,   *)
(* and the pinned cards (app/src/NodeView.tsx) open gestures of their own  *)
(* from listeners on the window.                                           *)
(*                                                                         *)
(* Where the pointer is becomes what it hits (hit), whether it moved past  *)
(* the drag threshold (far), whether it is at the edge of the viewport     *)
(* (edge) and whether the selection has to be raised (raises).             *)
(***************************************************************************)
EXTENDS Naturals, FiniteSets

CONSTANTS
    Presses,    \* presses of pinned cards and of their resize corners
    NoTool

ASSUME PressesAssumption == Presses \cap {"select", "shape"} = {}

VARIABLES
    activeTool,         \* InteractionManager.active
    selectState,        \* SelectTool.state: its kind, and whether it holds a gesture
    shapeState,         \* ShapeTool.state
    handHolds,          \* HandTool.last is set
    pointerDown,        \* bindDom's activeId is set
    pointerActive,      \* InteractionManager.pointerActive: a left press is in flight
    midPan,             \* InteractionManager.midPanFrom is set
    spaceDown,
    toolBeforeSpace,
    edgeArmed,          \* edgeRaf: a frame of the edge scroll is due
    marqueeShown,       \* the marquee observable is set
    wireShown,          \* the connectDraw observable is set
    buffer,             \* Store.buffer is open
    hud                 \* each press of a pinned card

selectVars == <<selectState, marqueeShown, wireShown>>
pointerVars == <<pointerDown, pointerActive, midPan, edgeArmed>>
spaceVars == <<spaceDown, toolBeforeSpace>>
toolVars == <<activeTool, selectVars, shapeState, handHolds, pointerVars, spaceVars, buffer, hud>>

ToolNames == {"select", "hand", "shape"}
Buttons == {"left", "middle", "right"}
Hits == {"wire", "handle", "card", "empty"}
SelectKinds == {"idle", "pointing", "dragging", "handle", "resizing", "connecting", "marquee"}

ToolsTypeOK ==
    /\ activeTool \in ToolNames
    /\ selectState \in [kind : SelectKinds, gesture : BOOLEAN]
    /\ shapeState \in {"idle", "pointing", "drawing"}
    /\ handHolds \in BOOLEAN /\ pointerDown \in BOOLEAN /\ pointerActive \in BOOLEAN
    /\ midPan \in BOOLEAN /\ spaceDown \in BOOLEAN /\ edgeArmed \in BOOLEAN
    /\ toolBeforeSpace \in {"select", "shape", NoTool}
    /\ marqueeShown \in BOOLEAN /\ wireShown \in BOOLEAN /\ buffer \in BOOLEAN
    /\ hud \in [Presses -> {"rest", "pressed", "moving"}]

SelectIdle == [kind |-> "idle", gesture |-> FALSE]

ToolsInit ==
    /\ activeTool = "select" /\ selectState = SelectIdle /\ shapeState = "idle"
    /\ handHolds = FALSE /\ pointerDown = FALSE /\ pointerActive = FALSE /\ midPan = FALSE
    /\ spaceDown = FALSE /\ toolBeforeSpace = NoTool /\ edgeArmed = FALSE
    /\ marqueeShown = FALSE /\ wireShown = FALSE /\ buffer = FALSE
    /\ hud = [h \in Presses |-> "rest"]

(***************************************************************************)
(* The tools.  The store has one buffer: beginGesture throws while one is  *)
(* open, and the handler stops there; cancel and end close it.             *)
(***************************************************************************)

\* The buffer after select's, or shape's, cancellation of the gesture it may hold.
SelectLets == buffer /\ ~selectState.gesture
ShapeLets == buffer /\ shapeState # "drawing"

\* Select comes to rest: the preview of what was in flight is taken down.
SelectRests ==
    /\ selectState' = SelectIdle
    /\ marqueeShown' = (marqueeShown /\ selectState.kind # "marquee")
    /\ wireShown' = (wireShown /\ selectState.kind # "connecting")

\* SelectTool.abortInFlight and onCancel: the gesture it holds is cancelled.
SelectAborts ==
    /\ SelectRests
    /\ buffer' = SelectLets

\* A press in select first aborts what was in flight.  A press on a card raises the selection, in
\* a gesture, if it is not on top already.
SelectPresses(hit, raises) ==
    /\ marqueeShown' = (marqueeShown /\ selectState.kind # "marquee")
    /\ wireShown' = (hit = "wire" \/ (wireShown /\ selectState.kind # "connecting"))
    /\ selectState' = CASE hit = "wire" -> [kind |-> "connecting", gesture |-> FALSE]
                        [] hit = "handle" -> [kind |-> "handle", gesture |-> FALSE]
                        [] hit = "empty" -> [kind |-> "marquee", gesture |-> FALSE]
                        [] hit = "card" /\ raises /\ SelectLets -> SelectIdle
                        [] OTHER -> [kind |-> "pointing", gesture |-> raises]
    /\ buffer' = (SelectLets \/ (hit = "card" /\ raises))

\* A press or a handle that moves past the threshold opens the gesture of its drag, unless it has one.
SelectOpens(far) == far /\ selectState.kind \in {"pointing", "handle"}
SelectThrows(far) == SelectOpens(far) /\ buffer /\ ~selectState.gesture
SelectMoves(far) ==
    /\ marqueeShown' = (marqueeShown \/ selectState.kind = "marquee")
    /\ selectState' = IF SelectOpens(far) /\ ~SelectThrows(far)
                      THEN [kind |-> IF selectState.kind = "handle" THEN "resizing" ELSE "dragging",
                            gesture |-> TRUE]
                      ELSE selectState
    /\ UNCHANGED wireShown

ShapeThrows(far) == far /\ shapeState = "pointing" /\ buffer
ShapeMoves(far) ==
    shapeState' = IF far /\ shapeState = "pointing" /\ ~buffer THEN "drawing" ELSE shapeState

\* The switch that does not tell the tool it leaves.
SetToolQuietly(t) ==
    /\ activeTool' = t
    /\ UNCHANGED <<selectVars, shapeState, buffer>>

\* setTool: the tool that leaves aborts what it had in flight (HandTool has no onExit).
SetTool(t) ==
    IF t = activeTool
    THEN UNCHANGED <<activeTool, selectVars, shapeState, buffer>>
    ELSE /\ activeTool' = t
         /\ IF activeTool = "select" THEN SelectAborts ELSE UNCHANGED selectVars
         /\ shapeState' = IF activeTool = "shape" THEN "idle" ELSE shapeState
         /\ activeTool = "shape" => buffer' = ShapeLets
         /\ activeTool = "hand" => UNCHANGED buffer

(***************************************************************************)
(* The pinned cards.  A press listens on the window until any pointer is   *)
(* released: every pointer's move reaches it, and opens its gesture if the *)
(* buffer is free; b is the buffer the canvas left.                        *)
(***************************************************************************)
HudMoves(b) ==
    LET waiting == {h \in Presses : hud[h] = "pressed"} IN
    IF b \/ waiting = {}
    THEN buffer' = b /\ UNCHANGED hud
    ELSE buffer' = TRUE /\ \E h \in waiting : hud' = [hud EXCEPT ![h] = "moving"]

HudReleases(b) ==
    /\ buffer' = (b /\ \A h \in Presses : hud[h] # "moving")
    /\ hud' = [h \in Presses |-> "rest"]

HudPress(h) ==
    /\ hud[h] = "rest"
    /\ hud' = [hud EXCEPT ![h] = "pressed"]
    /\ UNCHANGED <<activeTool, selectVars, shapeState, handHolds, pointerVars, spaceVars, buffer>>

(***************************************************************************)
(* The events of the pointers.  One pointer at a time presses the canvas:  *)
(* the presses of the others are ignored, their moves and releases reach   *)
(* the window only.  With none pressed, every pointer's reach the canvas.  *)
(***************************************************************************)
PointerDown(button, hit, raises) ==
    /\ ~pointerDown
    /\ pointerDown' = TRUE
    /\ midPan' = (midPan \/ button = "middle")
    /\ pointerActive' = (pointerActive \/ button = "left")
    /\ handHolds' = (handHolds \/ (activeTool = "hand" /\ button # "middle"))
    /\ \/ activeTool = "select" /\ button = "left" /\ SelectPresses(hit, raises) /\ UNCHANGED shapeState
       \/ activeTool = "shape" /\ button = "left"
          /\ shapeState' = "pointing" /\ buffer' = ShapeLets /\ UNCHANGED selectVars
       \/ (activeTool = "hand" \/ button # "left") /\ UNCHANGED <<selectVars, shapeState, buffer>>
    /\ UNCHANGED <<activeTool, edgeArmed, spaceVars, hud>>

EdgeScrolls == pointerActive /\ activeTool = "select"

PointerMove(far, edge) ==
    /\ IF midPan
       THEN HudMoves(buffer) /\ UNCHANGED <<selectVars, shapeState, edgeArmed>>
       ELSE \/ /\ activeTool = "select"
               /\ SelectMoves(far) /\ HudMoves(buffer \/ SelectOpens(far))
               /\ edgeArmed' = IF SelectThrows(far) THEN edgeArmed ELSE EdgeScrolls /\ edge
               /\ UNCHANGED shapeState
            \/ /\ activeTool = "shape"
               /\ ShapeMoves(far) /\ HudMoves(buffer \/ (far /\ shapeState = "pointing"))
               /\ edgeArmed' = (edgeArmed /\ ShapeThrows(far))
               /\ UNCHANGED selectVars
            \/ /\ activeTool = "hand"
               /\ HudMoves(buffer) /\ edgeArmed' = FALSE /\ UNCHANGED <<selectVars, shapeState>>
    /\ UNCHANGED <<activeTool, handHolds, pointerDown, pointerActive, midPan, spaceVars>>

OtherPointerMove ==
    /\ pointerDown /\ HudMoves(buffer)
    /\ UNCHANGED <<activeTool, selectVars, shapeState, handHolds, pointerVars, spaceVars>>

\* The release as the canvas sees it.  A shape is finished: its gesture ends, or a default one is
\* stamped, and select takes over.
CanvasReleases ==
    /\ pointerDown' = FALSE
    /\ midPan' = FALSE
    /\ IF midPan
       THEN UNCHANGED <<activeTool, selectVars, shapeState, handHolds, pointerActive, edgeArmed>>
       ELSE /\ pointerActive' = FALSE /\ edgeArmed' = FALSE
            /\ handHolds' = (handHolds /\ activeTool # "hand")
            /\ IF activeTool = "select" THEN SelectRests ELSE UNCHANGED selectVars
            /\ activeTool' = IF activeTool = "shape" /\ shapeState # "idle" THEN "select" ELSE activeTool
            /\ shapeState' = IF activeTool = "shape" THEN "idle" ELSE shapeState
    /\ UNCHANGED spaceVars

\* The buffer the canvas leaves at a release.
Closed ==
    IF midPan THEN buffer
    ELSE CASE activeTool = "select" -> SelectLets
           [] activeTool = "shape" -> ShapeLets
           [] OTHER -> buffer

PointerUp == CanvasReleases /\ HudReleases(Closed)

\* pointercancel reaches the canvas as a release; a pinned card does not listen to it.
PointerCancel == pointerDown /\ CanvasReleases /\ buffer' = Closed /\ UNCHANGED hud

OtherPointerUp ==
    /\ pointerDown /\ HudReleases(buffer)
    /\ UNCHANGED <<activeTool, selectVars, shapeState, handHolds, pointerVars, spaceVars>>

\* The edge scroll moves the drag from a frame of its own, with the pointer at rest.
EdgeTick(far, edge) ==
    /\ edgeArmed
    /\ IF EdgeScrolls /\ edge
       THEN /\ SelectMoves(far)
            /\ buffer' = (buffer \/ SelectOpens(far))
            /\ edgeArmed' = ~SelectThrows(far)
       ELSE edgeArmed' = FALSE /\ UNCHANGED <<selectVars, buffer>>
    /\ UNCHANGED <<activeTool, shapeState, handHolds, pointerDown, pointerActive, midPan, spaceVars, hud>>

(***************************************************************************)
(* The keys.                                                               *)
(***************************************************************************)
Escape ==
    /\ pointerActive' = FALSE /\ edgeArmed' = FALSE
    /\ handHolds' = (handHolds /\ activeTool # "hand")
    /\ shapeState' = IF activeTool = "shape" THEN "idle" ELSE shapeState
    /\ IF activeTool = "select" THEN SelectAborts ELSE UNCHANGED selectVars
    /\ activeTool = "shape" => buffer' = ShapeLets
    /\ activeTool = "hand" => UNCHANGED buffer
    /\ UNCHANGED <<activeTool, pointerDown, midPan, spaceVars, hud>>

\* Space borrows the hand until it is released; a second press before that (key repeat) is ignored.
SpacePress ==
    /\ ~spaceDown /\ spaceDown' = TRUE
    /\ toolBeforeSpace' = IF activeTool = "hand" THEN toolBeforeSpace ELSE activeTool
    /\ SetTool("hand")
    /\ UNCHANGED <<handHolds, pointerVars, hud>>

SpaceRelease ==
    /\ spaceDown /\ spaceDown' = FALSE
    /\ toolBeforeSpace' = NoTool
    /\ SetTool(IF toolBeforeSpace = NoTool THEN activeTool ELSE toolBeforeSpace)
    /\ UNCHANGED <<handHolds, pointerVars, hud>>

PickTool(t) == SetTool(t) /\ UNCHANGED <<handHolds, pointerVars, spaceVars, hud>>

ToolsNext ==
    \/ \E button \in Buttons, hit \in Hits, raises \in BOOLEAN : PointerDown(button, hit, raises)
    \/ \E far \in BOOLEAN, edge \in BOOLEAN : PointerMove(far, edge) \/ EdgeTick(far, edge)
    \/ OtherPointerMove \/ PointerUp \/ PointerCancel \/ OtherPointerUp
    \/ \E h \in Presses : HudPress(h)
    \/ Escape \/ SpacePress \/ SpaceRelease
    \/ \E t \in ToolNames : PickTool(t)

ToolsSpec == ToolsInit /\ [][ToolsNext]_toolVars

(***************************************************************************)
(* Properties.                                                             *)
(***************************************************************************)

\* Everything that holds an open gesture.
Holders ==
    {x \in {"select"} : selectState.gesture} \cup {x \in {"shape"} : shapeState = "drawing"}
        \cup {h \in Presses : hud[h] = "moving"}

\* The store's one buffer is open exactly while somebody holds its gesture, and never for two: a
\* tool that is switched away, pressed again or cancelled leaves no gesture nobody would end (every
\* later press would throw), and none that another's end would close under it.
GesturesHeld ==
    /\ buffer <=> Holders # {}
    /\ \A x, y \in Holders : x = y

\* A parked tool is at rest, a preview belongs to the press that draws it, and what a press started
\* in the manager (the pan, the edge scroll) ends with the press, not after it.
NothingOutlivesItsPress ==
    /\ activeTool # "select" => selectState.kind = "idle"
    /\ activeTool # "shape" => shapeState = "idle"
    /\ marqueeShown => selectState.kind = "marquee"
    /\ wireShown <=> selectState.kind = "connecting"
    /\ (edgeArmed => pointerActive) /\ (pointerActive => pointerDown) /\ (midPan => pointerDown)

\* No press, however it ends, leaves anything behind in a tool, in the manager or in the store.
PressesClean == GesturesHeld /\ NothingOutlivesItsPress
=============================================================================
