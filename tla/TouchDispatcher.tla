-------------------------- MODULE TouchDispatcher --------------------------
(***************************************************************************)
(* TouchDispatcher (plugins/Lomiri/Gestures): hands touch events to an     *)
(* item, as mouse events if the item wants no touches.  The module has no  *)
(* variables: a dispatcher is a record, an event a function from the       *)
(* touches in it to their states, and Dispatch the record after the event. *)
(*                                                                         *)
(* The record also holds what the item has been sent: seen[t] is how far   *)
(* it knows touch t, mouse whether it has been sent a press that it has    *)
(* not been sent the release of.  "broken" is a touch or a mouse button    *)
(* that was pressed twice or released without a press.                     *)
(***************************************************************************)
EXTENDS FiniteSets

CONSTANTS Touches, NoTouch

ASSUME NoTouchAssumption == NoTouch \notin Touches

\* How an item takes a TouchBegin; "disabled" is one that is disabled or
\* invisible.
Reactions == {"touch", "mouse", "none", "disabled"}

Dispatchers ==
  [hasTarget : BOOLEAN,
   status : {"NoActiveTouch", "DeliveringTouchEvents", "DeliveringMouseEvents",
             "TargetRejectedTouches"},
   touchMouseId : Touches \cup {NoTouch},
   seen : [Touches -> {"none", "pressed", "released", "broken"}],
   mouse : {"up", "down", "broken"}]

Reset(d) == [d EXCEPT !.status = "NoActiveTouch", !.touchMouseId = NoTouch]

NewDispatcher ==
  [hasTarget |-> TRUE, status |-> "NoActiveTouch", touchMouseId |-> NoTouch,
   seen |-> [t \in Touches |-> "none"], mouse |-> "up"]

\* All touches of the event are in the same state.
All(event, state) == \A t \in DOMAIN event : event[t] = state

EventType(event) ==
  IF All(event, "pressed") THEN "TouchBegin"
  ELSE IF All(event, "released") THEN "TouchEnd"
  ELSE "TouchUpdate"

\* What the item knows of a touch that was in state s and is now sent as x.
Shown(s, x) ==
  CASE x = "pressed" /\ s = "none" -> "pressed"
    [] x = "released" /\ s = "pressed" -> "released"
    [] x = "moved" /\ s = "pressed" -> "pressed"
    [] OTHER -> "broken"

DispatchAsTouch(d, event) ==
  [d EXCEPT !.seen = [t \in Touches |->
     IF t \in DOMAIN event THEN Shown(@[t], event[t]) ELSE @[t]]]

\* The mouse after the touch that stands for it was sent as x.
MouseAfter(mouse, x) ==
  CASE x = "pressed" /\ mouse = "up" -> "down"
    [] x = "released" /\ mouse = "down" -> "up"
    [] x = "moved" /\ mouse = "down" -> "down"
    [] OTHER -> "broken"

(***************************************************************************)
(* The first touch of a begin is the mouse; when it has ended, the next    *)
(* touch that is pressed is.  Lists of touches have no order here: the     *)
(* first is what CHOOSE takes.                                             *)
(***************************************************************************)
DispatchAsMouse(d, event) ==
  LET pressed == {t \in DOMAIN event : event[t] = "pressed"}
      candidates ==
        IF d.touchMouseId = NoTouch THEN pressed
        ELSE IF d.touchMouseId \in DOMAIN event THEN {d.touchMouseId}
        ELSE DOMAIN event
      touchMouse == CHOOSE t \in candidates : TRUE
  IN  IF candidates = {}
        THEN d
        ELSE [d EXCEPT !.mouse = MouseAfter(@, event[touchMouse]),
                       !.touchMouseId =
                         IF event[touchMouse] = "released" THEN NoTouch ELSE touchMouse]

\* The item is sent the begin as a touch; if it ignores it, as a mouse press.
DispatchTouchBegin(d, event, reaction) ==
  CASE reaction = "disabled" -> d
    [] reaction = "touch" ->
         [DispatchAsTouch(d, event) EXCEPT !.status = "DeliveringTouchEvents"]
    [] reaction = "mouse" ->
         [DispatchAsMouse([d EXCEPT !.touchMouseId = NoTouch], event)
            EXCEPT !.status = "DeliveringMouseEvents"]
    [] OTHER -> [d EXCEPT !.status = "TargetRejectedTouches"]

DispatchLater(d, event) ==
  CASE d.status = "DeliveringTouchEvents" -> DispatchAsTouch(d, event)
    [] d.status = "DeliveringMouseEvents" -> DispatchAsMouse(d, event)
    [] OTHER -> d

EndedMouse(d) == [d EXCEPT !.touchMouseId = NoTouch]  \* variant: stays in the stream
Ended(d) == [d EXCEPT !.status = "NoActiveTouch", !.touchMouseId = NoTouch]

Dispatch(d, event, reaction) ==
  LET type == EventType(event)
  IN  IF ~d.hasTarget THEN d
      ELSE IF type = "TouchBegin" THEN DispatchTouchBegin(d, event, reaction)
      ELSE IF type = "TouchEnd" THEN Ended(DispatchLater(d, event))
      ELSE DispatchLater(d, event)

\* Another item: it has been sent nothing, and gets nothing of a stream that
\* is going on.
SetTargetItem(d) ==
  [NewDispatcher EXCEPT
     !.status = IF d.status = "NoActiveTouch" THEN @ ELSE "TargetRejectedTouches",
     !.touchMouseId = d.touchMouseId]

\* The item is deleted; m_targetItem is a QPointer.
LoseTarget(d) ==
  [NewDispatcher EXCEPT !.hasTarget = FALSE, !.status = d.status,
                        !.touchMouseId = d.touchMouseId]
=============================================================================
