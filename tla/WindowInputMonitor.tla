------------------------- MODULE WindowInputMonitor -------------------------
(***************************************************************************)
(* WindowInputMonitor (plugins/Utils): watches the keys and touches of the *)
(* shell's window and tells when a home key was tapped on purpose, that    *)
(* is, away from touches.                                                  *)
(*                                                                         *)
(* Time passes in ticks; QuietTicks make msecsWithoutTouches.  A timer     *)
(* may fire late.  A TouchCancel, which the code does not handle, and a    *)
(* release that goes to another window are left out.                       *)
(***************************************************************************)
EXTENDS Integers

CONSTANTS
  HomeKeys, OtherKeys,
  NoKey,      \* 0 in the code
  QuietTicks  \* ticks in 150 milliseconds

ASSUME QuietAssumption == QuietTicks \in Nat

VARIABLES
  heldKeys,     \* keys that are down
  touching,     \* the screen is touched, m_windowBeingTouched
  sinceTouch,   \* m_windowLastTouchedTimer, up to QuietTicks + 1
  timer,        \* m_activationTimer: ticks left, 0 when due, -1 when it does not run
  pressedHome,  \* m_pressedHomeKey
  activated,    \* the last step emitted homeKeyActivated
  disturbed,    \* history: touched since QuietTicks ticks before the timer was started
  chorded       \* history: another key was pressed while that home key was down

monitorVars ==
  <<heldKeys, touching, sinceTouch, timer, pressedHome, activated, disturbed, chorded>>

Keys == HomeKeys \cup OtherKeys
IsRunning == timer >= 0
Stopped == -1

StartsUntouched(key) ==  \* variant: relies on the check at the timeout
  pressedHome = NoKey /\ key \in HomeKeys /\ ~IsRunning /\ ~touching
\* The key press starts an activation, cancels it, or neither.
Starts(key) ==
  /\ pressedHome = NoKey /\ key \in HomeKeys
  /\ ~IsRunning /\ ~touching /\ sinceTouch >= QuietTicks

KeyPress(key) ==
  /\ key \notin heldKeys
  /\ heldKeys' = heldKeys \cup {key}
  /\ pressedHome' = IF Starts(key) THEN key ELSE pressedHome
  /\ timer' = IF Starts(key) THEN QuietTicks
              ELSE IF pressedHome # NoKey /\ key \notin HomeKeys THEN Stopped
              ELSE timer
  /\ disturbed' = IF Starts(key) THEN touching \/ sinceTouch < QuietTicks ELSE disturbed
  /\ chorded' = (~Starts(key) /\ (chorded \/ (pressedHome # NoKey /\ key \notin HomeKeys)))
  /\ activated' = FALSE
  /\ UNCHANGED <<touching, sinceTouch>>

KeyRelease(key) ==
  /\ key \in heldKeys
  /\ heldKeys' = heldKeys \ {key}
  /\ pressedHome' = IF key = pressedHome THEN NoKey ELSE pressedHome
  /\ activated' = FALSE
  /\ UNCHANGED <<touching, sinceTouch, timer, disturbed, chorded>>

TimerStopped == Stopped

TouchBegin ==
  /\ ~touching
  /\ touching' = TRUE
  /\ timer' = TimerStopped
  /\ disturbed' = TRUE
  /\ activated' = FALSE
  /\ UNCHANGED <<heldKeys, sinceTouch, pressedHome, chorded>>

TouchEnd ==
  /\ touching
  /\ touching' = FALSE
  /\ sinceTouch' = 0
  /\ activated' = FALSE
  /\ UNCHANGED <<heldKeys, timer, pressedHome, disturbed, chorded>>

Tick ==
  /\ sinceTouch' = IF sinceTouch <= QuietTicks THEN sinceTouch + 1 ELSE sinceTouch
  /\ timer' = IF timer > 0 THEN timer - 1 ELSE timer
  /\ activated' = FALSE
  /\ UNCHANGED <<heldKeys, touching, pressedHome, disturbed, chorded>>

EmitActivatedIfNoTouchesAround ==
  /\ timer = 0
  /\ timer' = Stopped
  /\ activated' = (pressedHome = NoKey /\ ~touching /\ sinceTouch > QuietTicks)
  /\ UNCHANGED <<heldKeys, touching, sinceTouch, pressedHome, disturbed, chorded>>

\* The constructor starts m_windowLastTouchedTimer.
MonitorInit ==
  /\ heldKeys = {} /\ touching = FALSE /\ sinceTouch = 0
  /\ timer = Stopped /\ pressedHome = NoKey
  /\ activated = FALSE /\ disturbed = TRUE /\ chorded = FALSE

MonitorNext ==
  \/ \E key \in Keys : KeyPress(key) \/ KeyRelease(key)
  \/ TouchBegin
  \/ TouchEnd
  \/ Tick
  \/ EmitActivatedIfNoTouchesAround

MonitorSpec == MonitorInit /\ [][MonitorNext]_monitorVars

-----------------------------------------------------------------------------
(***************************************************************************)
(* "It only says the home key has been activated if it has been tapped in  *)
(* isolation, that is, without being accompanied by touches on the screen" *)
(* (WindowInputMonitor.h:58), neither shortly before the tap nor until it  *)
(* is announced, however late the timer fires.  Nor was another key        *)
(* pressed while the home key was down ("something else came in", in       *)
(* update()); one that was held before or that follows on the tap is no    *)
(* hindrance.                                                              *)
(***************************************************************************)
TappedInIsolation ==
  activated => ~disturbed /\ ~touching /\ ~chorded /\ pressedHome = NoKey
=============================================================================
