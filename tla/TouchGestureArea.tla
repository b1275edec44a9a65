-------------------------- MODULE TouchGestureArea --------------------------
(***************************************************************************)
(* TouchGestureArea (plugins/Lomiri/Gestures): an item that recognises     *)
(* gestures of minimumTouchPoints to maximumTouchPoints touches.  It       *)
(* stands as a candidate for the touches that reach it, asks the           *)
(* TouchRegistry for them when there are enough, and monitors them until   *)
(* they are released, whatever came of the gesture.                        *)
(*                                                                         *)
(* External: Qt delivers touches, and those that are grabbed by the area   *)
(* always; an item that is disabled or hidden is sent none, and may lose   *)
(* those it has grabbed.  The registry tells candidates and watchers of a  *)
(* touch that it has ended before Qt does, and decides who owns a touch,   *)
(* each by itself, at once or later.                                       *)
(***************************************************************************)
EXTENDS Naturals, FiniteSets

CONSTANTS AreaTouches, MinimumTouchPoints, MaximumTouchPoints

\* A gesture has touches; both numbers are unsigned.
ASSUME TouchesAssumption ==
  /\ IsFiniteSet(AreaTouches)
  /\ MinimumTouchPoints \in Nat \ {0} /\ MaximumTouchPoints \in Nat

VARIABLES
  finger,     \* touch -> "new", "down" or "gone"
  reached,    \* touches whose press has reached the area
  requested,  \* touches the registry has still to decide for the area
  leftOver,   \* history: candidates of a recognized gesture that were released
  areaEnabled,  \* isEnabled() and isVisible()
  area        \* the area's members

areaVars == <<finger, reached, requested, leftOver, areaEnabled, area>>

Statuses == {"WaitingForTouch", "WaitingForMoreTouches", "WaitingForOwnership",
             "Recognized", "WaitingForRejection", "Rejected"}
Timed == {"WaitingForMoreTouches", "WaitingForRejection"}

NewArea ==
  [status |-> "WaitingForTouch", timer |-> FALSE,   \* m_status, m_recognitionTimer
   candidates |-> {}, watched |-> {},               \* m_candidateTouches, m_watchedTouches
   grabbed |-> {},                                  \* what Qt sends the area anyway
   live |-> {}, cached |-> {}]                      \* m_liveTouchPoints, m_cachedTouchPoints

Down == {t \in AreaTouches : finger[t] = "down"}
Enough(T) == Cardinality(T) >= MinimumTouchPoints
TooMany(T) == Cardinality(T) > MaximumTouchPoints

\* What the users of the area know becomes what is true.
Resynced(a) == [a EXCEPT !.cached = a.live]

NeverResynced(a, status) ==  \* variant: recognized again without a resync
  [a EXCEPT !.status = status, !.timer = status \in Timed]
UntimedRejection(a, status) ==  \* variant: no timer in WaitingForRejection
  [a EXCEPT !.status = status, !.timer = status = "WaitingForMoreTouches", !.cached = a.live]
SetInternalStatus(a, status) ==
  IF a.status = status THEN a
  ELSE LET b == [a EXCEPT !.status = status,
                          !.timer = (@ /\ a.status \notin Timed) \/ status \in Timed]
       IN  IF status \in {"WaitingForTouch", "Recognized", "Rejected"} THEN Resynced(b) ELSE b

RejectForgetful(a) ==  \* variant: does not monitor the candidates
  SetInternalStatus([a EXCEPT !.grabbed = {}, !.candidates = {}],
                    IF a.watched = {} THEN "WaitingForTouch" ELSE "Rejected")
RejectGesture(a) ==
  LET watched == a.watched \cup a.candidates
  IN  SetInternalStatus([a EXCEPT !.grabbed = {}, !.watched = watched, !.candidates = {}],
                        IF watched = {} THEN "WaitingForTouch" ELSE "Rejected")

\* touchOwnershipEvent() for each of the touches T that are gained.
Gained(a, T) ==
  LET b == [a EXCEPT !.grabbed = @ \cup T, !.candidates = @ \ T, !.watched = @ \cup T]
  IN  IF T # {} /\ Enough(b.watched) THEN SetInternalStatus(b, "Recognized") ELSE b

UpdateTouchPoints(a, present, released) ==
  [a EXCEPT !.live = (@ \cup present) \ released,
            !.cached = IF a.status = "WaitingForRejection" THEN @
                       ELSE (@ \cup (present \ a.live)) \ (released \cap a.live)]

-----------------------------------------------------------------------------
(***************************************************************************)
(* touchEvent() for presses P in each status.  G are the touches that the  *)
(* registry grants at once when it is asked for them.                      *)
(***************************************************************************)
TouchEventUndecided(a, P, G) ==
  LET b == [a EXCEPT !.candidates = @ \cup P]
  IN  IF TooMany(b.candidates) THEN RejectGesture(b)
      ELSE IF Enough(b.candidates) THEN Gained(SetInternalStatus(b, "WaitingForOwnership"), G)
      ELSE IF b.candidates # {} THEN SetInternalStatus(b, "WaitingForMoreTouches")
      ELSE b

TouchEventRecognized(a, P) ==
  LET b == [a EXCEPT !.watched = @ \cup P]
  IN  IF TooMany(b.watched) THEN RejectGesture(b)
      ELSE IF Enough(b.watched) /\ b.status = "WaitingForRejection"
        THEN SetInternalStatus(b, "Recognized")
      ELSE b

TouchEventWatching(a, P) == [a EXCEPT !.watched = @ \cup P]

Handle(a, P, G) ==
  CASE a.status \in {"WaitingForTouch", "WaitingForMoreTouches"} -> TouchEventUndecided(a, P, G)
    [] a.status \in {"Recognized", "WaitingForRejection"} -> TouchEventRecognized(a, P)
    [] OTHER -> TouchEventWatching(a, P)

Asks(a, P) ==
  /\ a.status \in {"WaitingForTouch", "WaitingForMoreTouches"}
  /\ Enough(a.candidates \cup P) /\ ~TooMany(a.candidates \cup P)

\* The event is not ignored: Qt sends the area the rest of its touches.
Accepts(a, P) ==
  a.status \in {"WaitingForOwnership", "Recognized", "WaitingForRejection"} \/ Asks(a, P)

TouchEvent(a, P, present, released, G) ==
  LET b == UpdateTouchPoints(Handle(a, P, G), present \cup P, released)
  IN  IF ~areaEnabled THEN a
      ELSE IF Accepts(a, P) THEN [b EXCEPT !.grabbed = @ \cup P]
      ELSE b

(***************************************************************************)
(* unownedTouchEvent() when touches R, candidates or watched, are          *)
(* released, in each status.                                               *)
(***************************************************************************)
ForgetReleased(a, R) ==
  LET candidates == [a EXCEPT !.candidates = @ \ R]
      watched == [a EXCEPT !.watched = @ \ R]
      both == [candidates EXCEPT !.watched = @ \ R]
      Idle(b) == SetInternalStatus(b, "WaitingForTouch")
  IN  CASE a.status = "WaitingForTouch" -> a
        [] a.status = "WaitingForMoreTouches" ->
             IF candidates.candidates = {} THEN Idle(candidates) ELSE candidates
        [] a.status = "WaitingForOwnership" ->
             IF both.candidates \cup both.watched = {} THEN Idle(both) ELSE both
        [] a.status = "Recognized" ->
             IF Enough(watched.watched) THEN watched
             ELSE SetInternalStatus(watched, "WaitingForRejection")
        [] a.status = "WaitingForRejection" -> watched
        [] a.status = "Rejected" -> IF watched.watched = {} THEN Idle(watched) ELSE watched

\* A recognized gesture forgets what it watches, and not a touch that it is still
\* a candidate for: the registry has granted others that are enough.
LeftBy(a, R) == IF a.status \in {"Recognized", "WaitingForRejection"} THEN R \cap a.candidates ELSE {}

UnownedRelease(a, R) == UpdateTouchPoints(ForgetReleased(a, R), {}, R)

-----------------------------------------------------------------------------
\* What the registry has still to decide after the area has become a.
StillRequested(a, asked) == (requested \cup asked) \cap a.candidates

Press(P) ==
  /\ P # {} /\ P \subseteq {t \in AreaTouches : finger[t] = "new"}
  /\ finger' = [t \in AreaTouches |-> IF t \in P THEN "down" ELSE finger[t]]
  /\ \E Q \in IF areaEnabled THEN SUBSET P ELSE {{}} :
       LET grabbed == area.grabbed \cap Down
           asked == IF Asks(area, Q) THEN area.candidates \cup Q ELSE {}
       IN  \E G \in SUBSET asked :
             /\ reached' = reached \cup Q
             /\ area' = IF Q \cup grabbed = {} THEN area
                        ELSE TouchEvent(area, Q, grabbed, {}, G)
             /\ requested' = StillRequested(area', asked)
  /\ UNCHANGED <<leftOver, areaEnabled>>

\* Touches the area has grabbed move.
Move ==
  /\ area.grabbed \cap Down # {}
  /\ area' = TouchEvent(area, {}, area.grabbed \cap Down, {}, {})
  /\ requested' = StillRequested(area', {})
  /\ UNCHANGED <<finger, reached, leftOver, areaEnabled>>

Release(R) ==
  /\ R # {} /\ R \subseteq Down
  /\ finger' = [t \in AreaTouches |-> IF t \in R THEN "gone" ELSE finger[t]]
  /\ LET monitored == R \cap (area.candidates \cup area.watched)
         told == IF monitored = {} THEN area ELSE UnownedRelease(area, monitored)
         grabbed == told.grabbed \cap Down
     IN  area' = IF grabbed = {} THEN told
                 ELSE TouchEvent([told EXCEPT !.grabbed = @ \ R], {}, grabbed \ R, R \cap grabbed, {})
  /\ requested' = StillRequested(area', {})
  /\ leftOver' = leftOver \cup LeftBy(area, R)
  /\ UNCHANGED <<reached, areaEnabled>>

OwnershipGained(T) ==
  /\ T # {} /\ T \subseteq requested
  /\ area' = Gained(area, T)
  /\ requested' = StillRequested(area', {})
  /\ UNCHANGED <<finger, reached, leftOver, areaEnabled>>

\* A candidate loses a touch whether it had asked for it or not.
OwnershipLost(t) ==
  /\ t \in area.candidates
  /\ area' = RejectGesture(area)
  /\ requested' = StillRequested(area', {})
  /\ UNCHANGED <<finger, reached, leftOver, areaEnabled>>

RecognitionTimeout ==
  /\ area.timer
  /\ area' = RejectGesture([area EXCEPT !.timer = FALSE])
  /\ requested' = StillRequested(area', {})
  /\ UNCHANGED <<finger, reached, leftOver, areaEnabled>>

SetEnabled(enabled) ==
  /\ areaEnabled' = enabled
  /\ \/ UNCHANGED area
     \/ ~enabled /\ area' = [area EXCEPT !.grabbed = {}]
  /\ UNCHANGED <<finger, reached, requested, leftOver>>

AreaInit ==
  /\ finger = [t \in AreaTouches |-> "new"]
  /\ reached = {}
  /\ requested = {}
  /\ leftOver = {}
  /\ areaEnabled = TRUE
  /\ area = NewArea

AreaNext ==
  \/ \E P \in SUBSET AreaTouches : Press(P) \/ Release(P) \/ OwnershipGained(P)
  \/ \E t \in AreaTouches : OwnershipLost(t)
  \/ Move
  \/ RecognitionTimeout
  \/ \E enabled \in BOOLEAN : SetEnabled(enabled)

\* A running timer fires.
AreaFairness == WF_areaVars(RecognitionTimeout)

AreaSpec == AreaInit /\ [][AreaNext]_areaVars /\ AreaFairness

-----------------------------------------------------------------------------
AreaTypeOK ==
  /\ finger \in [AreaTouches -> {"new", "down", "gone"}]
  /\ reached \subseteq AreaTouches /\ leftOver \subseteq reached
  /\ requested \subseteq area.candidates /\ areaEnabled \in BOOLEAN
  /\ area \in [status : Statuses, timer : BOOLEAN, candidates : SUBSET AreaTouches,
               watched : SUBSET AreaTouches, grabbed : SUBSET AreaTouches,
               live : SUBSET AreaTouches, cached : SUBSET AreaTouches]

(***************************************************************************)
(* "monitor all the touch points from first touch till all have been       *)
(* released; no matter if we've rejected the gesture"                      *)
(* (TouchGestureArea.cpp:26): the touches that have reached the area and   *)
(* are down are its candidates and watched touches, however the registry   *)
(* decides and also when the area is disabled.  No others are, but for     *)
(* those whose ownership was still open when they were released from a     *)
(* recognized gesture: these it never forgets (cpp:413).                   *)
(***************************************************************************)
MonitoredUntilReleased ==
  LET monitored == area.candidates \cup area.watched
  IN  reached \cap Down \subseteq monitored /\ monitored \subseteq Down \cup leftOver

(***************************************************************************)
(* The users of the area see the touches that are really there, but for    *)
(* the time in which a gesture may go on after a release                   *)
(* (updateTouchPoints() and resyncCachedTouchPoints()): none stays pressed *)
(* whose release they are not told.                                        *)
(***************************************************************************)
PointsAreLive ==
  /\ area.live = reached \cap Down
  /\ area.cached # area.live => area.status = "WaitingForRejection" /\ area.timer

(***************************************************************************)
(* When all touches are gone for good the area ends up ready for the next  *)
(* gesture, never stuck in Rejected or Recognized; unless it was left a    *)
(* candidate for a touch of a recognized gesture, which keeps it Rejected. *)
(***************************************************************************)
ReadyAgain == <>[](Down = {}) /\ [](leftOver = {}) => <>[](area.status = "WaitingForTouch")
=============================================================================
