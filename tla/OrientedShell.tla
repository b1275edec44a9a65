---------------------------- MODULE OrientedShell ----------------------------
(***************************************************************************)
(* OrientedShell, its RotationStates and its RotateButton (qml): which way *)
(* up the shell is shown on a device that is turned, under applications    *)
(* that support some orientations only, with a rotation lock, and with     *)
(* rotations that are animated with a picture of the shell, which is taken *)
(* asynchronously.  A rotation is never cut short.                         *)
(*                                                                         *)
(* External: the sensor, the lock's setting, and what Shell and Stage say  *)
(* of the focused application and of themselves.  Angles are in quarter    *)
(* turns.  The state of RotationStates and shell.orientationAngle are one  *)
(* here, `angle`: each transition sets the second at its start, and as     *)
(* windows never rotate independently (Stage.qml:77) the animation of the  *)
(* indicators' bar alone, which needs them to differ, is never chosen.     *)
(* Left out: savedOrientation, which the next OrientedShell starts from,   *)
(* and stableTimer, whose handler does nothing with such a Stage.          *)
(***************************************************************************)
EXTENDS Integers, FiniteSets, FiniteSetsExt

CONSTANTS
  Devices,       \* records [native, primary]
  Held,          \* how a device may be held: the orientations its sensor tells
  SupportedSets, \* bound: what the applications and the device support together
  MaxTakes       \* bound: pictures being taken; more come to nothing new

\* Qt's orientations in the order of their values; primary is none of them.
Portrait == 0
Landscape == 1
InvertedPortrait == 2
InvertedLandscape == 3

VARIABLES
  device,              \* orientations.native_ and orientations.primary
  physicalOrientation,
  orientationLocked,
  rotateButton,        \* it is shown or about to be
  inputs,              \* what the shell's angle follows, see Init
  rotation             \* of RotationStates and the shell, see Init

vars == <<device, physicalOrientation, orientationLocked, rotateButton, inputs, rotation>>

\* QScreen::angleBetween
AngleBetween(a, b) == (a - b) % 4

AngleToOrientation(angle) ==
  IF device.native = Portrait
  THEN <<Portrait, InvertedLandscape, InvertedPortrait, Landscape>>[angle + 1]
  ELSE <<device.native, Portrait, InvertedLandscape, InvertedPortrait>>[angle + 1]

\* acceptedOrientationAngle, of a shell that is shown at an angle
Accepted(in, angle) ==
  IF in.orientation \in in.supported THEN AngleBetween(device.native, in.orientation)
  ELSE IF AngleToOrientation(angle) \in in.supported THEN angle
  ELSE IF in.supported # {} THEN AngleBetween(device.native, Min(in.supported))
  ELSE AngleBetween(device.native, device.primary)

ChangesEnabled(in, angle) == AngleToOrientation(angle) \in in.supported => in.changesEnabled

\* resolveAnimationType()
Animated(in, r) == ~r.startingUp /\ in.animates

\* A transition: the animation goes on for a while, none is over at once.
Turn(in, r, requested) ==
  LET ninety == AngleBetween(r.angle, requested) % 2 = 1
      kind == IF ninety THEN "ninety" ELSE "half"
  IN [r EXCEPT !.angle = requested,
               !.transition = IF Animated(in, r) THEN kind ELSE "none",
               !.snapshot = @ /\ ninety /\ Animated(in, r),
               !.timer = @ \/ Accepted(in, requested) # Accepted(in, r.angle)]

TryUpdateState(in, r, requested) ==
  LET needsShellSnapshot ==
        Animated(in, r) /\ AngleBetween(r.angle, requested) % 2 = 1
  IN IF \/ r.transition # "none" \/ requested = r.angle
        \/ ~r.startingUp /\ ~ChangesEnabled(in, r.angle)
     THEN r
     ELSE IF needsShellSnapshot /\ ~r.snapshot
     THEN [r EXCEPT !.taking = IF @ < MaxTakes THEN @ + 1 ELSE @]
     ELSE Turn(in, r, requested)

\* A mutant of Become: nothing is tried again when changes become enabled.
BecomeQuietly(in) ==
  /\ inputs' = in
  /\ rotation' = [rotation EXCEPT
       !.timer = @ \/ Accepted(in, rotation.angle) # Accepted(inputs, rotation.angle)]

\* Bindings follow: a new request starts the timer, and a change of
\* orientationChangesEnabled is acted on at once, before the request's binding
\* has followed or after it.
Become(in) ==
  LET old == Accepted(inputs, rotation.angle)
      new == Accepted(in, rotation.angle)
      noted == [rotation EXCEPT !.timer = @ \/ old # new]
  IN /\ inputs' = in
     /\ IF ChangesEnabled(in, rotation.angle) = ChangesEnabled(inputs, rotation.angle)
        THEN rotation' = noted
        ELSE \E requested \in {old, new} : rotation' = TryUpdateState(in, noted, requested)

Update(r) == rotation' = TryUpdateState(inputs, r, Accepted(inputs, r.angle))

------------------------------------------------------------------------------
\* The greeter, if it is shown, keeps the button away.
PhysicalOrientationChanged(o) ==
  /\ o # physicalOrientation
  /\ physicalOrientation' = o
  /\ \/ /\ ~orientationLocked
        /\ Become([inputs EXCEPT !.orientation = o])
        /\ UNCHANGED rotateButton
     \/ /\ orientationLocked
        /\ rotateButton' \in {FALSE, inputs.orientation # o}
        /\ UNCHANGED <<inputs, rotation>>
  /\ UNCHANGED <<device, orientationLocked>>

OrientationLockedChanged ==
  /\ orientationLocked' = ~orientationLocked
  /\ \/ ~orientationLocked /\ UNCHANGED <<inputs, rotation>>
     \/ orientationLocked /\ Become([inputs EXCEPT !.orientation = physicalOrientation])
  /\ UNCHANGED <<device, physicalOrientation, rotateButton>>

RotateButtonClicked ==
  /\ rotateButton
  /\ rotateButton' = FALSE
  /\ Become([inputs EXCEPT !.orientation = physicalOrientation])
  /\ UNCHANGED <<device, physicalOrientation, orientationLocked>>

\* It has blinked three times.
RotateButtonHides ==
  /\ rotateButton
  /\ rotateButton' = FALSE
  /\ UNCHANGED <<device, physicalOrientation, orientationLocked, inputs, rotation>>

\* Another application, a notification that fills the screen or the end of the
\* start; indicators, windows and the greeter that move; the display.
ShellChanges ==
  /\ \/ \E s \in SupportedSets \ {inputs.supported} : Become([inputs EXCEPT !.supported = s])
     \/ Become([inputs EXCEPT !.changesEnabled = ~@])
     \/ Become([inputs EXCEPT !.animates = ~@])
  /\ UNCHANGED <<device, physicalOrientation, orientationLocked, rotateButton>>

StateUpdateTimer ==
  /\ rotation.timer
  /\ Update([rotation EXCEPT !.timer = FALSE])
  /\ UNCHANGED <<device, physicalOrientation, orientationLocked, rotateButton, inputs>>

FinishStartUp ==
  /\ rotation.startingUp
  /\ rotation' = [rotation EXCEPT !.startingUp = FALSE]
  /\ UNCHANGED <<device, physicalOrientation, orientationLocked, rotateButton, inputs>>

\* The last one of several pictures is kept until it is discarded.
SnapshotTaken ==
  /\ rotation.taking > 0
  /\ LET taken == [rotation EXCEPT !.taking = @ - 1, !.snapshot = TRUE]
     IN IF rotation.snapshot THEN rotation' = taken ELSE Update(taken)
  /\ UNCHANGED <<device, physicalOrientation, orientationLocked, rotateButton, inputs>>

AnimationEnds ==
  /\ rotation.transition # "none"
  /\ Update([rotation EXCEPT !.transition = "none",
                             !.snapshot = @ /\ rotation.transition # "ninety"])
  /\ UNCHANGED <<device, physicalOrientation, orientationLocked, rotateButton, inputs>>

Init ==
  /\ device \in Devices
  /\ physicalOrientation \in Held
  /\ orientationLocked \in BOOLEAN
  /\ rotateButton = FALSE
  /\ inputs \in
       [orientation : Held,          \* root.orientation
        supported : {{}},            \* supportedOrientations, none during start-up
        changesEnabled : BOOLEAN,    \* shell.orientationChangesEnabled
        animates : BOOLEAN]          \* the display is on, and the application leaves it to the shell
  /\ orientationLocked \/ inputs.orientation = physicalOrientation
  /\ rotation =
       [angle |-> 0,
        transition |-> "none",       \* the one that runs: "ninety" or "half" a turn
        snapshot |-> FALSE,          \* shellSnapshotReady
        taking |-> 0,                \* pictures being taken
        timer |-> TRUE,              \* stateUpdateTimer
        startingUp |-> TRUE]

Next ==
  \/ \E o \in Held : PhysicalOrientationChanged(o)
  \/ OrientationLockedChanged \/ RotateButtonClicked \/ RotateButtonHides
  \/ ShellChanges
  \/ StateUpdateTimer \/ FinishStartUp \/ SnapshotTaken \/ AnimationEnds

\* Timers fire, pictures are taken and animations end.
Fairness ==
  WF_vars(StateUpdateTimer) /\ WF_vars(SnapshotTaken) /\ WF_vars(AnimationEnds)

Spec == Init /\ [][Next]_vars /\ Fairness

------------------------------------------------------------------------------
Settled ==
  LET shown == AngleToOrientation(rotation.angle)
  IN /\ rotation.transition = "none"
     /\ inputs.supported # {} => shown \in inputs.supported
     /\ inputs.orientation \in inputs.supported => shown = inputs.orientation
     /\ inputs.supported = {} => shown = device.primary

(***************************************************************************)
(* When device, lock and applications come to rest and changes are         *)
(* enabled, the shell ends up in an orientation that is supported, and in  *)
(* that of the device if it may, whatever was asked for during rotations,  *)
(* while a picture was taken or with changes disabled: no request is lost  *)
(* (RotationStates.qml, tryUpdateState() and its callers).                 *)
(***************************************************************************)
FollowsTheDevice ==
  <>[][FALSE]_inputs /\ <>[]ChangesEnabled(inputs, rotation.angle) => <>[]Settled
=============================================================================
