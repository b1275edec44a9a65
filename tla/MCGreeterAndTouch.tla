-------------------------- MODULE MCGreeterAndTouch --------------------------
(* The greeter's conversations, a gesture area that recognises gestures of *)
(* two touches, the gate before an application's surface, and the shell on *)
(* a device that is turned.  Each behaviour is of one of them; the others  *)
(* stay in a first state.                                                  *)
EXTENDS PamGreeter, TouchGestureArea, TouchGate

CONSTANTS u1, u2, t1, t2, t3, t4, none

VARIABLES
  subject,
  \* OrientedShell
  device, physicalOrientation, orientationLocked, rotateButton, inputs, rotation

TwoQuestions == {<<"message">>, <<"prompt", "prompt">>, <<"prompt", "message", "prompt">>}

\* A phone and a tablet that is used upright, held in all ways but upside down;
\* an application that follows all of them, one that lies, and one whose
\* orientations the device does not support.
Rotation == INSTANCE OrientedShell WITH
  Devices <- {[native |-> 0, primary |-> 0], [native |-> 1, primary |-> 0]},
  Held <- {0, 1, 3}, SupportedSets <- {{}, {0, 1, 3}, {1, 3}}, MaxTakes <- 1

RotationVars ==
  <<device, physicalOrientation, orientationLocked, rotateButton, inputs, rotation>>
NotTurned ==
  /\ device = [native |-> 0, primary |-> 0]
  /\ physicalOrientation = 0 /\ orientationLocked = FALSE /\ rotateButton = FALSE
  /\ inputs = [orientation |-> 0, supported |-> {0}, changesEnabled |-> TRUE, animates |-> TRUE]
  /\ rotation = [angle |-> 0, transition |-> "none", snapshot |-> FALSE, taking |-> 0,
                  timer |-> FALSE, startingUp |-> FALSE]

InitAll ==
  /\ subject \in {"greeter", "area", "gate", "rotation"}
  /\ AreaInit
  /\ GateInit
  /\ \/ subject = "greeter" /\ Init
     \/ subject # "greeter" /\ Started("none") /\ currentUser = u1
  /\ \/ subject = "rotation" /\ Rotation!Init
     \/ subject # "rotation" /\ NotTurned

NextAll ==
  \/ subject = "greeter" /\ Next /\ UNCHANGED <<subject, areaVars, gateVars, RotationVars>>
  \/ subject = "area" /\ AreaNext /\ UNCHANGED <<subject, vars, gateVars, RotationVars>>
  \/ subject = "gate" /\ GateNext /\ UNCHANGED <<subject, vars, areaVars, RotationVars>>
  \/ /\ subject = "rotation" /\ Rotation!Next
     /\ UNCHANGED <<subject, vars, areaVars, gateVars>>

SpecAll ==
  /\ InitAll /\ [][NextAll]_<<subject, vars, areaVars, gateVars, RotationVars>>
  /\ Fairness
  /\ AreaFairness
  /\ Rotation!Fairness

-----------------------------------------------------------------------------
\* The property of OrientedShell, under its name there.
FollowsTheDevice == Rotation!FollowsTheDevice
=============================================================================
