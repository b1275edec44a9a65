-------------------------- MODULE MouseTouchAdaptor --------------------------
(***************************************************************************)
(* MouseTouchAdaptor (src), for testing on a desktop: turns the left mouse *)
(* button into a touch, and into three or four of them when certain        *)
(* modifier keys are held, which may be let go before the button is.       *)
(*                                                                         *)
(* External: X11 sends the events of the mouse, with the modifiers if they *)
(* come as XInput2 events and without if they do not; QTest's touch event  *)
(* sequence hands the touches on.  Positions and windows are left out.     *)
(***************************************************************************)
EXTENDS Naturals

VARIABLES
  adaptorEnabled,       \* m_enabled
  buttons,              \* mouse buttons that are down
  leftButtonIsPressed,  \* m_leftButtonIsPressed
  triPressModifier,     \* m_triPressModifier
  quadPressModifier,    \* m_quadPressModifier
  touches,              \* what was sent: touch id -> "up", "down" or "broken"
  cutOff                \* history: setEnabled() came while the left button was down

pressVars == <<leftButtonIsPressed, triPressModifier, quadPressModifier, touches>>
mouseVars == <<adaptorEnabled, buttons, pressVars, cutOff>>

TouchIds == 0..3
Modifiers == {"none", "tri", "quad"}

\* The event has touches T in state x.
Sent(t, x) ==
  CASE x = "press" /\ t = "up" -> "down"
    [] x = "move" /\ t = "down" -> "down"
    [] x = "release" /\ t = "down" -> "up"
    [] OTHER -> "broken"

Sends(T, x, U, y) ==
  touches' = [i \in TouchIds |-> IF i \in T THEN Sent(touches[i], x)
                                 ELSE IF i \in U THEN Sent(touches[i], y) ELSE touches[i]]

Extra(tri, quad) == (IF tri THEN {1, 2} ELSE {}) \cup (IF quad THEN {1, 2, 3} ELSE {})

\* translateMouseButton(): all but the left one are eaten or ignored.
OtherButton == "other"
\* nativeEventFilter() and the handlers go on.
Handled(button) == adaptorEnabled /\ button # OtherButton

HandleButtonPress(button, modifier) ==
  /\ button \notin buttons
  /\ buttons' = buttons \cup {button}
  /\ UNCHANGED <<adaptorEnabled, cutOff>>
  /\ IF ~Handled(button)
       THEN UNCHANGED pressVars
       ELSE /\ Sends({0} \cup Extra(modifier = "tri", modifier = "quad"), "press", {}, "press")
            /\ triPressModifier' = (triPressModifier \/ modifier = "tri")
            /\ quadPressModifier' = (quadPressModifier \/ modifier = "quad")
            /\ leftButtonIsPressed' = TRUE

HandleButtonRelease(button) ==
  /\ button \in buttons
  /\ buttons' = buttons \ {button}
  /\ UNCHANGED <<adaptorEnabled, cutOff>>
  /\ IF ~Handled(button)
       THEN UNCHANGED pressVars
       ELSE /\ Sends({0} \cup Extra(triPressModifier, quadPressModifier), "release", {}, "release")
            /\ leftButtonIsPressed' = FALSE
            /\ triPressModifier' = FALSE /\ quadPressModifier' = FALSE

\* Modifiers that are not held any more release the extra touches.
StaysPressed(flag, modifier, wanted) == flag  \* variant: until the button is released
StillPressed(flag, modifier, wanted) == flag /\ modifier = wanted

HandleMotionNotify(modifier) ==
  /\ adaptorEnabled /\ leftButtonIsPressed
  /\ LET tri == triPressModifier /\ modifier = "tri"
         quad == quadPressModifier /\ modifier = "quad"
     IN  Sends({0} \cup Extra(tri, quad), "move",
               Extra(triPressModifier, quadPressModifier) \ Extra(tri, quad), "release")
  /\ triPressModifier' = StillPressed(triPressModifier, modifier, "tri")
  /\ quadPressModifier' = StillPressed(quadPressModifier, modifier, "quad")
  /\ UNCHANGED <<adaptorEnabled, buttons, leftButtonIsPressed, cutOff>>

\* setEnabled() changes nothing else: not what is pressed.
SetAdaptorEnabled(value) ==
  /\ value # adaptorEnabled
  /\ adaptorEnabled' = value
  /\ cutOff' = (cutOff \/ "left" \in buttons)
  /\ UNCHANGED <<buttons, pressVars>>

MouseInit ==
  /\ adaptorEnabled = TRUE /\ cutOff = FALSE
  /\ buttons = {}
  /\ leftButtonIsPressed = FALSE
  /\ triPressModifier = FALSE /\ quadPressModifier = FALSE
  /\ touches = [i \in TouchIds |-> "up"]

MouseNext ==
  \/ \E button \in {"left", OtherButton}, modifier \in Modifiers :
       HandleButtonPress(button, modifier)
  \/ \E button \in {"left", OtherButton} : HandleButtonRelease(button)
  \/ \E modifier \in Modifiers : HandleMotionNotify(modifier)
  \/ \E value \in BOOLEAN : SetAdaptorEnabled(value)

MouseSpec == MouseInit /\ [][MouseNext]_mouseVars

-----------------------------------------------------------------------------
(***************************************************************************)
(* Each touch is pressed, moved and released in turn, and the first one is *)
(* down as long as the left button is: touches that a modifier added end   *)
(* with it, and once (handleMotionNotify(), handleButtonRelease()).  This  *)
(* is so until the adaptor is disabled or enabled while the left button is *)
(* down: it misses the release, or the press, and the touches stay down    *)
(* or are released without having been pressed.                            *)
(***************************************************************************)
TouchesInTurn ==
  ~cutOff =>
    /\ \A i \in TouchIds : touches[i] # "broken"
    /\ (touches[0] = "down") = (adaptorEnabled /\ "left" \in buttons)
    /\ "left" \notin buttons => \A i \in TouchIds : touches[i] = "up"
=============================================================================
