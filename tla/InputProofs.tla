---------------------------- MODULE InputProofs ----------------------------
(***************************************************************************)
(* What TLAPS proves of the components that turn input into something      *)
(* else: WindowInputMonitor, for any keys and any quiet time,              *)
(* MouseTouchAdaptor, and TouchGestureArea, for any set of touches, any    *)
(* number of touches in a gesture, and any way the registry decides.       *)
(***************************************************************************)
EXTENDS WindowInputMonitor, MouseTouchAdaptor, TouchGestureArea, FiniteSetTheorems, TLAPS

(***************************************************************************)
(* WindowInputMonitor.  A timer that runs was started in a quiet moment    *)
(* and would have been stopped by a touch since, or by another key.        *)
(***************************************************************************)
MonitorInv ==
  /\ sinceTouch \in Nat /\ timer \in Int
  /\ IsRunning => ~disturbed /\ ~touching /\ ~chorded
  /\ activated => ~disturbed /\ ~touching /\ ~chorded /\ pressedHome = NoKey

\* A key press starts the timer only when no touch is near.
LEMMA KeyPressKeeps ==
  ASSUME MonitorInv, NEW key, KeyPress(key) PROVE MonitorInv'
<1>1. /\ sinceTouch' = sinceTouch /\ touching' = touching /\ activated' = FALSE
      /\ sinceTouch \in Nat /\ QuietTicks \in Nat /\ timer \in Int
  BY QuietAssumption DEF KeyPress, MonitorInv
<1>2. CASE Starts(key)
  <2>1. timer' = QuietTicks /\ disturbed' = (touching \/ sinceTouch < QuietTicks)
    BY <1>2 DEF KeyPress
  <2>2. ~touching /\ ~(sinceTouch < QuietTicks)
    BY <1>1, <1>2 DEF Starts
  <2>3. ~touching /\ ~disturbed' /\ ~chorded'
    BY <1>2, <2>1, <2>2, Zenon DEF KeyPress
  <2> QED  BY <1>1, <2>1, <2>3 DEF MonitorInv, IsRunning
<1>3. CASE ~Starts(key)
  <2>1. timer' \in {timer, -1} /\ disturbed' = disturbed
    BY <1>3 DEF KeyPress, Stopped
  <2>2. chorded' => chorded \/ (pressedHome # NoKey /\ key \notin HomeKeys)
    BY Zenon DEF KeyPress
  <2>3. pressedHome # NoKey /\ key \notin HomeKeys => timer' = -1
    BY <1>3 DEF KeyPress, Stopped
  <2> QED  BY <1>1, <2>1, <2>2, <2>3 DEF MonitorInv, IsRunning
<1> QED  BY <1>2, <1>3

LEMMA MonitorStep == MonitorInv /\ [MonitorNext]_monitorVars => MonitorInv'
<1> SUFFICES ASSUME MonitorInv, [MonitorNext]_monitorVars PROVE MonitorInv'
  OBVIOUS
<1>1. ASSUME NEW key \in Keys, KeyPress(key) PROVE MonitorInv'
  BY <1>1, KeyPressKeeps
<1>2. ASSUME NEW key \in Keys, KeyRelease(key) PROVE MonitorInv'
  BY <1>2 DEF KeyRelease, MonitorInv, IsRunning
<1>3. CASE TouchBegin
  BY <1>3 DEF TouchBegin, TimerStopped, Stopped, MonitorInv, IsRunning
<1>4. CASE TouchEnd
  BY <1>4 DEF TouchEnd, MonitorInv, IsRunning
<1>5. CASE Tick
  BY <1>5, QuietAssumption DEF Tick, MonitorInv, IsRunning
<1>6. CASE EmitActivatedIfNoTouchesAround
  <2>1. /\ timer = 0 /\ timer' = -1 /\ UNCHANGED <<disturbed, chorded, touching>>
        /\ pressedHome' = pressedHome /\ sinceTouch' = sinceTouch
    BY <1>6 DEF EmitActivatedIfNoTouchesAround, Stopped
  <2>2. ~disturbed /\ ~chorded /\ ~IsRunning'
    BY <2>1 DEF MonitorInv, IsRunning
  <2>3. activated' => pressedHome = NoKey /\ ~touching
    BY <1>6, Zenon DEF EmitActivatedIfNoTouchesAround
  <2> QED  BY <2>1, <2>2, <2>3 DEF MonitorInv
<1>7. CASE UNCHANGED monitorVars
  BY <1>7 DEF monitorVars, MonitorInv, IsRunning
<1> QED  BY <1>1, <1>2, <1>3, <1>4, <1>5, <1>6, <1>7 DEF MonitorNext

\* The home key is only announced if no touch came near its tap, however late
\* the timer fires, and no other key while it was down
\* (emitActivatedIfNoTouchesAround(), update()).
THEOREM HomeKeyIsolation == MonitorSpec => []TappedInIsolation
<1>1. MonitorInit => MonitorInv
  BY DEF MonitorInit, MonitorInv, IsRunning, Stopped
<1>2. MonitorInv => TappedInIsolation
  BY DEF MonitorInv, TappedInIsolation
<1> QED  BY <1>1, <1>2, MonitorStep, PTL DEF MonitorSpec

-----------------------------------------------------------------------------
(***************************************************************************)
(* MouseTouchAdaptor.  The touches that are down are the first one, while  *)
(* the left button is, and those the modifiers have added, as long as the  *)
(* adaptor was not switched on or off while the button was down.           *)
(***************************************************************************)
Pressed == IF leftButtonIsPressed THEN {0} \cup Extra(triPressModifier, quadPressModifier) ELSE {}

MouseInv ==
  /\ leftButtonIsPressed \in BOOLEAN
  /\ triPressModifier \in BOOLEAN /\ quadPressModifier \in BOOLEAN
  /\ leftButtonIsPressed <=> adaptorEnabled /\ "left" \in buttons
  /\ ~leftButtonIsPressed => ~triPressModifier /\ ~quadPressModifier
  /\ touches = [i \in TouchIds |-> IF i \in Pressed THEN "down" ELSE "up"]

LEMMA PressKeeps ==
  ASSUME MouseInv, NEW button \in {"left", OtherButton}, NEW modifier \in Modifiers,
         HandleButtonPress(button, modifier)
  PROVE  MouseInv'
<1>1. CASE ~Handled(button)
  BY <1>1 DEF MouseInv, HandleButtonPress, Handled, pressVars, OtherButton, Pressed
<1>2. CASE button = "left" /\ adaptorEnabled
  <2>1. /\ ~leftButtonIsPressed /\ ~triPressModifier /\ ~quadPressModifier
        /\ touches = [i \in TouchIds |-> "up"]
    BY <1>2 DEF MouseInv, HandleButtonPress, Pressed
  <2>2. /\ leftButtonIsPressed' = TRUE
        /\ triPressModifier' = (modifier = "tri") /\ quadPressModifier' = (modifier = "quad")
        /\ "left" \in buttons' /\ adaptorEnabled'
    BY <1>2, <2>1 DEF HandleButtonPress, Handled, OtherButton
  <2>3. touches' = [i \in TouchIds |->
                      IF i \in {0} \cup Extra(modifier = "tri", modifier = "quad")
                      THEN "down" ELSE "up"]
    BY <1>2, <2>1 DEF HandleButtonPress, Handled, OtherButton, Sends, Sent, Extra
  <2> QED  BY <2>2, <2>3 DEF MouseInv, Pressed
<1> QED  BY <1>1, <1>2 DEF Handled

LEMMA ReleaseKeeps ==
  ASSUME MouseInv, NEW button \in {"left", OtherButton}, HandleButtonRelease(button)
  PROVE  MouseInv'
<1>1. CASE ~Handled(button)
  BY <1>1 DEF MouseInv, HandleButtonRelease, Handled, pressVars, OtherButton, Pressed
<1>2. CASE button = "left" /\ adaptorEnabled
  <2>1. touches = [i \in TouchIds |->
                     IF i \in {0} \cup Extra(triPressModifier, quadPressModifier)
                     THEN "down" ELSE "up"]
    BY <1>2 DEF MouseInv, HandleButtonRelease, Pressed
  <2>2. touches' = [i \in TouchIds |-> "up"]
    BY <1>2, <2>1 DEF HandleButtonRelease, Handled, OtherButton, Sends, Sent
  <2>3. /\ ~leftButtonIsPressed' /\ ~triPressModifier' /\ ~quadPressModifier'
        /\ leftButtonIsPressed' = FALSE /\ triPressModifier' = FALSE /\ quadPressModifier' = FALSE
        /\ "left" \notin buttons'
    BY <1>2 DEF HandleButtonRelease, Handled, OtherButton
  <2> QED  BY <2>2, <2>3 DEF MouseInv, Pressed
<1> QED  BY <1>1, <1>2 DEF Handled

\* The extra touches of a modifier that is not held any more go up.
LEMMA MotionKeeps ==
  ASSUME MouseInv, NEW modifier \in Modifiers, HandleMotionNotify(modifier)
  PROVE  MouseInv'
<1> DEFINE tri == triPressModifier /\ modifier = "tri"
           quad == quadPressModifier /\ modifier = "quad"
<1>1. /\ leftButtonIsPressed /\ leftButtonIsPressed' = leftButtonIsPressed
      /\ buttons' = buttons /\ adaptorEnabled' = adaptorEnabled
      /\ triPressModifier' = tri /\ quadPressModifier' = quad
  BY DEF HandleMotionNotify, StillPressed
<1>2. touches = [i \in TouchIds |->
                   IF i \in {0} \cup Extra(triPressModifier, quadPressModifier)
                   THEN "down" ELSE "up"]
  BY <1>1 DEF MouseInv, Pressed
<1>3. touches' = [i \in TouchIds |-> IF i \in {0} \cup Extra(tri, quad) THEN "down" ELSE "up"]
  BY <1>2 DEF HandleMotionNotify, Sends, Sent, Extra, MouseInv
<1> QED  BY <1>1, <1>3 DEF MouseInv, Pressed

LEMMA MouseStep == (~cutOff => MouseInv) /\ [MouseNext]_mouseVars => (~cutOff => MouseInv)'
<1> SUFFICES ASSUME ~cutOff => MouseInv, [MouseNext]_mouseVars, ~cutOff' PROVE MouseInv'
  OBVIOUS
<1>1. CASE UNCHANGED mouseVars
  BY <1>1 DEF mouseVars, pressVars, MouseInv, Pressed
<1>2. ASSUME NEW value \in BOOLEAN, SetAdaptorEnabled(value) PROVE MouseInv'
  <2>1. ~cutOff /\ "left" \notin buttons
    BY <1>2 DEF SetAdaptorEnabled
  <2> QED  BY <1>2, <2>1 DEF SetAdaptorEnabled, pressVars, MouseInv, Pressed
<1>3. ASSUME MouseNext, ~\E value \in BOOLEAN : SetAdaptorEnabled(value) PROVE MouseInv'
  <2>1. cutOff' = cutOff
    BY <1>3 DEF MouseNext, HandleButtonPress, HandleButtonRelease, HandleMotionNotify
  <2> QED  BY <1>3, <2>1, PressKeeps, ReleaseKeeps, MotionKeeps DEF MouseNext
<1> QED  BY <1>1, <1>2, <1>3

\* Every touch that is pressed is released, once, whatever modifiers come and
\* go between press, motion and release (handleMotionNotify()), unless
\* setEnabled() comes between press and release.
THEOREM MouseTouches == MouseSpec => []TouchesInTurn
<1>1. MouseInit => (~cutOff => MouseInv)
  BY DEF MouseInit, MouseInv, Pressed
<1>2. (~cutOff => MouseInv) => TouchesInTurn
  BY DEF MouseInv, TouchesInTurn, Pressed, TouchIds, Extra
<1> QED  BY <1>1, <1>2, MouseStep, PTL DEF MouseSpec

-----------------------------------------------------------------------------
(* TouchGestureArea.                                                       *)

(* No touch is not enough for a gesture, and never too many.               *)
LEMMA NoTouchIsNoGesture == ~Enough({}) /\ ~TooMany({})
BY FS_EmptySet, TouchesAssumption DEF Enough, TooMany

(* Fewer touches than too few are too few.                                 *)
LEMMA FewerAreNotEnough ==
  ASSUME NEW T \in SUBSET AreaTouches, NEW R, ~Enough(T)
  PROVE  ~Enough(T \ R)
<1>1. PICK S \in SUBSET T : S = T \ R
  OBVIOUS
<1>2. IsFiniteSet(T)
  BY FS_Subset, TouchesAssumption
<1>3. IsFiniteSet(S) /\ Cardinality(S) \in Nat /\ Cardinality(T) \in Nat
      /\ Cardinality(S) <= Cardinality(T)
  BY <1>1, <1>2, FS_Subset, FS_CardinalityType
<1>4. ~Enough(S)
  BY <1>3, TouchesAssumption DEF Enough
<1> QED
  BY <1>1, <1>4

-----------------------------------------------------------------------------
(* The area by itself.                                                     *)

Areas ==
  [status : Statuses, timer : BOOLEAN, candidates : SUBSET AreaTouches,
   watched : SUBSET AreaTouches, grabbed : SUBSET AreaTouches,
   live : SUBSET AreaTouches, cached : SUBSET AreaTouches]

Monitored(a) == a.candidates \cup a.watched

\* Which touches it may be a candidate for, or watch, in which status.
Sorted(a) ==
  /\ a.status = "WaitingForTouch" => a.candidates = {} /\ a.watched = {}
  /\ a.status = "WaitingForMoreTouches" => a.watched = {} /\ ~Enough(a.candidates)
  /\ a.status = "Rejected" => a.candidates = {}

\* What its users know may be old in WaitingForRejection only.
Shows(a) ==
  /\ a.cached # a.live => a.status = "WaitingForRejection"
  /\ a.timer <=> a.status \in Timed

Good(a) == a \in Areas /\ Sorted(a) /\ Shows(a)

\* An area b that monitors M and shows "live" has come of a.
Becomes(a, b, M, live) ==
  /\ Good(b) /\ Monitored(b) = M /\ b.live = live
  /\ b.grabbed \subseteq a.grabbed \cup M

Resyncing == {"WaitingForTouch", "Recognized", "Rejected"}

(* setInternalStatus() leaves the touches alone, starts and stops the      *)
(* timer and brings the users up to date where it has to.                  *)
LEMMA SetInternalStatusDoes ==
  ASSUME NEW a \in Areas, NEW status \in Statuses, a.timer => a.status \in Timed,
         NEW b, b = SetInternalStatus(a, status)
  PROVE  /\ b \in Areas /\ b.status = status
         /\ b.candidates = a.candidates /\ b.watched = a.watched
         /\ b.grabbed = a.grabbed /\ b.live = a.live
         /\ a.status = status => (b.timer <=> a.timer) /\ b.cached = a.cached
         /\ a.status # status => (b.timer <=> status \in Timed)
         /\ a.status # status /\ status \in Resyncing => b.cached = a.live
         /\ status \notin Resyncing => b.cached = a.cached
<1>1. CASE a.status = status
  BY <1>1 DEF SetInternalStatus
<1>2. CASE a.status # status
  <2> DEFINE c == [a EXCEPT !.status = status,
                            !.timer = (@ /\ a.status \notin Timed) \/ status \in Timed]
  <2>1. /\ c \in Areas /\ c.status = status /\ (c.timer <=> status \in Timed)
        /\ c.candidates = a.candidates /\ c.watched = a.watched
        /\ c.grabbed = a.grabbed /\ c.live = a.live /\ c.cached = a.cached
    <3>1. ((a.timer /\ a.status \notin Timed) \/ status \in Timed) = (status \in Timed)
      OBVIOUS
    <3>2. (status \in Timed) \in BOOLEAN
      OBVIOUS
    <3>3. c = [a EXCEPT !.status = status, !.timer = (status \in Timed)]
      BY <3>1
    <3> QED
      BY <3>2, <3>3 DEF Areas
  <2>2. b = IF status \in Resyncing THEN [c EXCEPT !.cached = c.live] ELSE c
    BY <1>2 DEF SetInternalStatus, Resynced, Resyncing
  <2> HIDE DEF c
  <2> QED
    BY <1>2, <2>1, <2>2 DEF Areas
<1> QED
  BY <1>1, <1>2

(* rejectGesture() gives up candidates but goes on watching them; nothing  *)
(* is grabbed, and the users know what is true.                            *)
LEMMA RejectGestureKeeps ==
  ASSUME NEW a \in Areas, a.timer => a.status \in Timed,
         a.status # IF Monitored(a) = {} THEN "WaitingForTouch" ELSE "Rejected",
         NEW b, b = RejectGesture(a)
  PROVE  /\ Becomes(a, b, Monitored(a), a.live) /\ b.candidates = {} /\ b.grabbed = {}
         /\ b.status \in {"WaitingForTouch", "Rejected"}
<1> DEFINE c == [a EXCEPT !.grabbed = {}, !.watched = Monitored(a), !.candidates = {}]
           status == IF Monitored(a) = {} THEN "WaitingForTouch" ELSE "Rejected"
<1>1. /\ c \in Areas /\ c.status = a.status /\ (c.timer <=> a.timer)
      /\ c.candidates = {} /\ c.watched = Monitored(a) /\ c.grabbed = {}
      /\ c.live = a.live /\ c.cached = a.cached
  BY DEF Areas, Monitored
<1>2. b = SetInternalStatus(c, status)
  <2>1. Monitored(a) = a.watched \cup a.candidates
    BY DEF Monitored
  <2> QED
    BY <2>1 DEF RejectGesture
<1>3. status \in Statuses /\ status \in Resyncing /\ status \notin Timed
  BY DEF Statuses, Resyncing, Timed
<1> HIDE DEF c
<1>4. /\ b \in Areas /\ b.status = status /\ b.candidates = {} /\ b.watched = Monitored(a)
      /\ b.grabbed = {} /\ b.live = a.live /\ b.cached = a.live /\ ~b.timer
  BY <1>1, <1>2, <1>3, SetInternalStatusDoes
<1> QED
  BY <1>4, <1>3 DEF Good, Sorted, Shows, Becomes, Monitored

(* touchOwnershipEvent(): a candidate that gains touches watches them, and *)
(* with enough of them has recognized a gesture, whatever it is still a    *)
(* candidate for.                                                          *)
LEMMA GainedKeeps ==
  ASSUME NEW a, Good(a), NEW T \in SUBSET a.candidates,
         T # {} => a.status # "WaitingForMoreTouches",
         NEW b, b = Gained(a, T)
  PROVE  /\ Becomes(a, b, Monitored(a), a.live)
         /\ b.status \in {a.status, "Recognized"}
<1> DEFINE c == [a EXCEPT !.grabbed = @ \cup T, !.candidates = @ \ T, !.watched = @ \cup T]
<1>1. /\ c \in Areas /\ c.status = a.status /\ (c.timer <=> a.timer)
      /\ c.candidates = a.candidates \ T /\ c.watched = a.watched \cup T
      /\ c.grabbed = a.grabbed \cup T /\ c.live = a.live /\ c.cached = a.cached
  BY DEF Areas, Good
<1>2. Monitored(c) = Monitored(a) /\ c.grabbed \subseteq a.grabbed \cup Monitored(a)
  BY <1>1 DEF Monitored
<1>3. Good(c)
  BY <1>1 DEF Good, Sorted, Shows
<1>4. b = IF T # {} /\ Enough(c.watched) THEN SetInternalStatus(c, "Recognized") ELSE c
  BY DEF Gained
<1> HIDE DEF c
<1>5. CASE b = c
  BY <1>1, <1>2, <1>3, <1>5 DEF Becomes
<1>6. CASE b = SetInternalStatus(c, "Recognized")
  <2>1. c \in Areas /\ (c.timer => c.status \in Timed)
    BY <1>3 DEF Good, Shows
  <2>2. "Recognized" \in Statuses /\ "Recognized" \in Resyncing /\ "Recognized" \notin Timed
    BY DEF Statuses, Resyncing, Timed
  <2>3. /\ b \in Areas /\ b.status = "Recognized"
        /\ b.candidates = c.candidates /\ b.watched = c.watched
        /\ b.grabbed = c.grabbed /\ b.live = a.live
    BY <1>1, <1>6, <2>1, <2>2, SetInternalStatusDoes
  <2>4. b.cached = a.live /\ ~b.timer
    <3>1. CASE c.status = "Recognized"
      <4>1. c.cached = c.live /\ ~c.timer
        BY <1>3, <2>2, <3>1 DEF Good, Shows
      <4> QED
        BY <1>1, <1>6, <2>1, <2>2, <3>1, <4>1, SetInternalStatusDoes
    <3>2. CASE c.status # "Recognized"
      BY <1>1, <1>6, <2>1, <2>2, <3>2, SetInternalStatusDoes
    <3> QED
      BY <3>1, <3>2
  <2>5. Good(b)
    BY <2>2, <2>3, <2>4 DEF Good, Sorted, Shows
  <2>6. Monitored(b) = Monitored(a)
    BY <1>2, <2>3 DEF Monitored
  <2> QED
    BY <1>2, <2>3, <2>5, <2>6 DEF Becomes
<1> QED
  BY <1>4, <1>5, <1>6

(* What the area watches grows by touches it has no say in.                *)
LEMMA WatchingKeeps ==
  ASSUME NEW a, Good(a), NEW P \in SUBSET AreaTouches,
         a.status \notin {"WaitingForTouch", "WaitingForMoreTouches"},
         NEW b, b = [a EXCEPT !.watched = @ \cup P]
  PROVE  /\ Becomes(a, b, Monitored(a) \cup P, a.live)
         /\ b.status = a.status /\ b.watched = a.watched \cup P
<1>1. /\ b \in Areas /\ b.status = a.status /\ (b.timer <=> a.timer)
      /\ b.candidates = a.candidates /\ b.watched = a.watched \cup P
      /\ b.grabbed = a.grabbed /\ b.live = a.live /\ b.cached = a.cached
  BY DEF Areas, Good
<1>2. Good(b)
  BY <1>1 DEF Good, Sorted, Shows
<1>3. Monitored(b) = Monitored(a) \cup P
  BY <1>1 DEF Monitored
<1> QED
  BY <1>1, <1>2, <1>3 DEF Becomes

\* An area that waits for more touches has not been further, and has asked for none.
Waits(a, b, P) ==
  b.status = "WaitingForMoreTouches" =>
    a.status \in {"WaitingForTouch", "WaitingForMoreTouches"} /\ ~Asks(a, P)

\* What becomes of an area that takes P in.
TakesIn(a, b, P) == Becomes(a, b, Monitored(a) \cup P, a.live) /\ Waits(a, b, P)

(* touchEvent() before a gesture takes the pressed touches in, whichever   *)
(* of those it asks for it is granted at once.                             *)
LEMMA UndecidedKeeps ==
  ASSUME NEW a, Good(a), NEW P \in SUBSET AreaTouches, NEW G \in SUBSET (a.candidates \cup P),
         a.status \in {"WaitingForTouch", "WaitingForMoreTouches"}
  PROVE  TakesIn(a, TouchEventUndecided(a, P, G), P)
<1>0. PICK b : b = TouchEventUndecided(a, P, G)
  OBVIOUS
<1> SUFFICES /\ Good(b) /\ Monitored(b) = Monitored(a) \cup P /\ b.live = a.live
             /\ b.grabbed \subseteq a.grabbed \cup (Monitored(a) \cup P)
             /\ b.status = "WaitingForMoreTouches" => ~Asks(a, P)
  BY <1>0 DEF TakesIn, Becomes, Waits
<1> DEFINE c == [a EXCEPT !.candidates = @ \cup P]
<1>1. /\ c \in Areas /\ c.status = a.status /\ (c.timer <=> a.timer)
      /\ c.candidates = a.candidates \cup P /\ c.watched = {} /\ c.grabbed = a.grabbed
      /\ c.live = a.live /\ c.cached = a.live
  BY DEF Areas, Good, Sorted, Shows
<1>2. c.timer => c.status \in Timed
  BY <1>1 DEF Good, Shows
<1>3. b = IF TooMany(c.candidates) THEN RejectGesture(c)
          ELSE IF Enough(c.candidates) THEN Gained(SetInternalStatus(c, "WaitingForOwnership"), G)
          ELSE IF c.candidates # {} THEN SetInternalStatus(c, "WaitingForMoreTouches")
          ELSE c
  BY <1>0 DEF TouchEventUndecided
<1>4. Asks(a, P) = (Enough(c.candidates) /\ ~TooMany(c.candidates))
  BY <1>1 DEF Asks
<1>5. Monitored(c) = Monitored(a) \cup P /\ Monitored(c) = c.candidates
  <2>1. a.watched = {}
    BY DEF Good, Sorted
  <2> QED
    BY <1>1, <2>1 DEF Monitored
<1> HIDE DEF c
<1>6. CASE TooMany(c.candidates)
  <2>1. b = RejectGesture(c) /\ Monitored(c) # {}
    BY <1>3, <1>5, <1>6, NoTouchIsNoGesture
  <2>2. c.status # IF Monitored(c) = {} THEN "WaitingForTouch" ELSE "Rejected"
    BY <1>1, <2>1
  <2>3. /\ Becomes(c, b, Monitored(c), c.live) /\ b.grabbed = {}
        /\ b.status \in {"WaitingForTouch", "Rejected"}
    BY <1>1, <1>2, <2>1, <2>2, RejectGestureKeeps
  <2> QED
    BY <1>1, <1>5, <2>3 DEF Becomes
<1>7. CASE ~TooMany(c.candidates) /\ Enough(c.candidates)
  <2>1. PICK d : d = SetInternalStatus(c, "WaitingForOwnership")
    OBVIOUS
  <2>2. "WaitingForOwnership" \in Statuses /\ "WaitingForOwnership" \notin Resyncing
        /\ "WaitingForOwnership" \notin Timed
    BY DEF Statuses, Resyncing, Timed
  <2>3. /\ d \in Areas /\ d.status = "WaitingForOwnership"
        /\ d.candidates = c.candidates /\ d.watched = {} /\ d.grabbed = a.grabbed
        /\ d.live = a.live /\ d.cached = a.live
    BY <1>1, <1>2, <2>1, <2>2, SetInternalStatusDoes
  <2>4. ~d.timer
    BY <1>1, <1>2, <2>1, <2>2, SetInternalStatusDoes
  <2>5. Good(d) /\ Monitored(d) = Monitored(a) \cup P
    BY <1>1, <1>5, <2>2, <2>3, <2>4 DEF Good, Sorted, Shows, Monitored
  <2>6. b = Gained(d, G) /\ G \in SUBSET d.candidates
    BY <1>1, <1>3, <1>7, <2>1, <2>3
  <2>7. /\ Becomes(d, b, Monitored(d), d.live)
        /\ b.status \in {d.status, "Recognized"}
    BY <2>3, <2>5, <2>6, GainedKeeps
  <2> QED
    BY <2>3, <2>5, <2>7 DEF Becomes
<1>8. CASE ~TooMany(c.candidates) /\ ~Enough(c.candidates) /\ c.candidates # {}
  <2>1. b = SetInternalStatus(c, "WaitingForMoreTouches")
    BY <1>3, <1>8
  <2>2. "WaitingForMoreTouches" \in Statuses /\ "WaitingForMoreTouches" \notin Resyncing
        /\ "WaitingForMoreTouches" \in Timed
    BY DEF Statuses, Resyncing, Timed
  <2>3. /\ b \in Areas /\ b.status = "WaitingForMoreTouches"
        /\ b.candidates = c.candidates /\ b.watched = {} /\ b.grabbed = a.grabbed
        /\ b.live = a.live /\ b.cached = a.live
    BY <1>1, <1>2, <2>1, <2>2, SetInternalStatusDoes
  <2>4. b.timer
    <3>1. CASE c.status = "WaitingForMoreTouches"
      <4>1. c.timer
        BY <1>1, <2>2, <3>1 DEF Good, Shows
      <4> QED
        BY <1>1, <1>2, <2>1, <2>2, <3>1, <4>1, SetInternalStatusDoes
    <3>2. CASE c.status # "WaitingForMoreTouches"
      BY <1>1, <1>2, <2>1, <2>2, <3>2, SetInternalStatusDoes
    <3> QED
      BY <3>1, <3>2
  <2> QED
    BY <1>1, <1>4, <1>5, <1>8, <2>2, <2>3, <2>4 DEF Good, Sorted, Shows, Monitored
<1>9. CASE ~TooMany(c.candidates) /\ ~Enough(c.candidates) /\ c.candidates = {}
  <2>1. b = c
    BY <1>3, <1>9
  <2>2. Good(c)
    BY <1>1, <1>9 DEF Good, Sorted, Shows
  <2> QED
    BY <1>1, <1>4, <1>5, <1>9, <2>1, <2>2
<1> QED
  BY <1>6, <1>7, <1>8, <1>9

(* An area that has no new touch has nothing to ask for.                   *)
LEMMA NothingNewNothingAsked ==
  ASSUME NEW a, Good(a)
  PROVE  ~Asks(a, {})
<1>1. a.candidates \cup {} = a.candidates
  OBVIOUS
<1>2. a.status = "WaitingForTouch" => a.candidates = {}
  BY DEF Good, Sorted
<1>3. a.status = "WaitingForMoreTouches" => ~Enough(a.candidates)
  BY DEF Good, Sorted
<1> QED
  BY <1>1, <1>2, <1>3, NoTouchIsNoGesture DEF Asks

(* touchEvent() of a recognized gesture watches the pressed touches; too   *)
(* many end it, and enough go on with one that was about to end.           *)
LEMMA RecognizedKeeps ==
  ASSUME NEW a, Good(a), NEW P \in SUBSET AreaTouches,
         a.status \in {"Recognized", "WaitingForRejection"}
  PROVE  TakesIn(a, TouchEventRecognized(a, P), P)
<1>0. PICK b : b = TouchEventRecognized(a, P)
  OBVIOUS
<1>1. PICK c : c = [a EXCEPT !.watched = @ \cup P]
  OBVIOUS
<1>2. /\ Becomes(a, c, Monitored(a) \cup P, a.live)
      /\ c.status = a.status /\ c.watched = a.watched \cup P
  BY <1>1, WatchingKeeps
<1>3. c \in Areas /\ (c.timer => c.status \in Timed) /\ Good(c)
  BY <1>2 DEF Becomes, Good, Shows
<1>4. b = IF TooMany(c.watched) THEN RejectGesture(c)
          ELSE IF Enough(c.watched) /\ c.status = "WaitingForRejection"
            THEN SetInternalStatus(c, "Recognized")
          ELSE c
  BY <1>0, <1>1 DEF TouchEventRecognized
<1>6. CASE b = RejectGesture(c)
  <2>1. c.status # IF Monitored(c) = {} THEN "WaitingForTouch" ELSE "Rejected"
    BY <1>2
  <2>2. /\ Becomes(c, b, Monitored(c), c.live) /\ b.grabbed = {}
        /\ b.status \in {"WaitingForTouch", "Rejected"}
    BY <1>3, <1>6, <2>1, RejectGestureKeeps
  <2> QED
    BY <1>0, <1>2, <2>2 DEF TakesIn, Becomes, Waits
<1>7. CASE c.status = "WaitingForRejection" /\ b = SetInternalStatus(c, "Recognized")
  <2>1. "Recognized" \in Statuses /\ "Recognized" \in Resyncing /\ "Recognized" \notin Timed
    BY DEF Statuses, Resyncing, Timed
  <2>2. /\ b \in Areas /\ b.status = "Recognized" /\ ~b.timer
        /\ b.candidates = c.candidates /\ b.watched = c.watched /\ b.grabbed = c.grabbed
        /\ b.live = c.live /\ b.cached = c.live
    BY <1>3, <1>7, <2>1, SetInternalStatusDoes
  <2>3. Good(b) /\ Monitored(b) = Monitored(c)
    BY <2>1, <2>2 DEF Good, Sorted, Shows, Monitored
  <2> QED
    BY <1>0, <1>2, <2>2, <2>3 DEF TakesIn, Becomes, Waits
<1>8. CASE b = c
  BY <1>0, <1>2, <1>8 DEF TakesIn, Waits
<1> QED
  BY <1>4, <1>6, <1>7, <1>8

(* touchEvent() up to the update of the points: whatever the status, the   *)
(* pressed touches are monitored.                                          *)
LEMMA HandleKeeps ==
  ASSUME NEW a, Good(a), NEW P \in SUBSET AreaTouches, NEW G \in SUBSET (a.candidates \cup P)
  PROVE  TakesIn(a, Handle(a, P, G), P)
<1>1. CASE a.status \in {"WaitingForTouch", "WaitingForMoreTouches"}
  <2>1. Handle(a, P, G) = TouchEventUndecided(a, P, G)
    BY <1>1 DEF Handle
  <2> QED
    BY <1>1, <2>1, UndecidedKeeps
<1>2. CASE a.status \in {"Recognized", "WaitingForRejection"}
  <2>1. Handle(a, P, G) = TouchEventRecognized(a, P)
    BY <1>2 DEF Handle
  <2> QED
    BY <1>2, <2>1, RecognizedKeeps
<1>3. CASE a.status \notin {"WaitingForTouch", "WaitingForMoreTouches",
                            "Recognized", "WaitingForRejection"}
  <2>1. PICK b : b = [a EXCEPT !.watched = @ \cup P]
    OBVIOUS
  <2>2. Handle(a, P, G) = b
    BY <1>3, <2>1 DEF Handle, TouchEventWatching
  <2>3. Becomes(a, b, Monitored(a) \cup P, a.live) /\ b.status = a.status
    BY <1>3, <2>1, WatchingKeeps
  <2> QED
    BY <1>3, <2>2, <2>3 DEF TakesIn, Waits
<1> QED
  BY <1>1, <1>2, <1>3

\* An update of the touch points changes nothing else.
Shown(a, b, live) ==
  /\ Good(b) /\ b.live = live /\ b.status = a.status
  /\ b.candidates = a.candidates /\ b.watched = a.watched /\ b.grabbed = a.grabbed

(* updateTouchPoints(): if the users knew what was true they know it       *)
(* afterwards, but for the releases in WaitingForRejection.                *)
LEMMA UpdateTouchPointsKeeps ==
  ASSUME NEW a, Good(a), NEW present \in SUBSET AreaTouches,
         NEW released \in SUBSET AreaTouches, present \cap released = {}
  PROVE  Shown(a, UpdateTouchPoints(a, present, released), (a.live \cup present) \ released)
<1>0. PICK b : b = UpdateTouchPoints(a, present, released)
  OBVIOUS
<1> DEFINE live == (a.live \cup present) \ released
           cached == IF a.status = "WaitingForRejection" THEN a.cached
                     ELSE (a.cached \cup (present \ a.live)) \ (released \cap a.live)
<1>1. b = [a EXCEPT !.live = live, !.cached = cached]
  BY <1>0 DEF UpdateTouchPoints
<1>2. live \in SUBSET AreaTouches /\ cached \in SUBSET AreaTouches
  BY DEF Good, Areas
<1>3. cached # live => a.status = "WaitingForRejection"
  <2>1. SUFFICES ASSUME a.status # "WaitingForRejection" PROVE cached = live
    OBVIOUS
  <2>2. a.cached = a.live
    BY <2>1 DEF Good, Shows
  <2> QED
    BY <2>1, <2>2
<1> HIDE DEF live, cached
<1>4. /\ b \in Areas /\ b.status = a.status /\ (b.timer <=> a.timer)
      /\ b.candidates = a.candidates /\ b.watched = a.watched
      /\ b.grabbed = a.grabbed /\ b.live = live /\ b.cached = cached
  BY <1>1, <1>2 DEF Areas, Good
<1>5. Good(b)
  BY <1>3, <1>4 DEF Good, Sorted, Shows
<1> QED
  BY <1>0, <1>4, <1>5 DEF live, Shown

(* touchEvent() as a whole, of an enabled area: the pressed touches (P)    *)
(* are monitored, and they and those that are there and are reported       *)
(* (present) are shown to the users.                                       *)
LEMMA TouchEventKeeps ==
  ASSUME areaEnabled, NEW a, Good(a), NEW P \in SUBSET AreaTouches,
         NEW present \in SUBSET AreaTouches, NEW released \in SUBSET AreaTouches,
         released \cap (present \cup P) = {},
         NEW G \in SUBSET (a.candidates \cup P)
  PROVE  /\ Becomes(a, TouchEvent(a, P, present, released, G), Monitored(a) \cup P,
                    (a.live \cup (present \cup P)) \ released)
         /\ Waits(a, TouchEvent(a, P, present, released, G), P)
<1>1. PICK h : h = Handle(a, P, G)
  OBVIOUS
<1>2. PICK u : u = UpdateTouchPoints(h, present \cup P, released)
  OBVIOUS
<1>3. PICK b : b = TouchEvent(a, P, present, released, G)
  OBVIOUS
<1>4. TakesIn(a, h, P)
  BY <1>1, HandleKeeps
<1>5. Good(h) /\ h.live = a.live /\ Monitored(h) = Monitored(a) \cup P
  BY <1>4 DEF TakesIn, Becomes
<1>6. Shown(h, u, (h.live \cup (present \cup P)) \ released)
  <2>1. present \cup P \in SUBSET AreaTouches /\ (present \cup P) \cap released = {}
    OBVIOUS
  <2> QED
    BY <1>2, <1>5, <2>1, UpdateTouchPointsKeeps
<1>7. b = IF Accepts(a, P) THEN [u EXCEPT !.grabbed = @ \cup P] ELSE u
  BY <1>1, <1>2, <1>3 DEF TouchEvent
<1>8. Good(u)
  BY <1>6 DEF Shown
<1>9. /\ Good(b) /\ b.live = u.live /\ b.status = u.status /\ b.watched = u.watched
      /\ b.candidates = u.candidates /\ b.grabbed \subseteq u.grabbed \cup P
  <2>1. CASE ~Accepts(a, P)
    BY <1>7, <1>8, <2>1
  <2>2. CASE Accepts(a, P)
    <3>1. b = [u EXCEPT !.grabbed = @ \cup P]
      BY <1>7, <2>2
    <3>2. /\ b \in Areas /\ b.status = u.status /\ (b.timer <=> u.timer)
          /\ b.candidates = u.candidates /\ b.watched = u.watched
          /\ b.grabbed = u.grabbed \cup P /\ b.live = u.live /\ b.cached = u.cached
      BY <1>8, <3>1 DEF Areas, Good
    <3> QED
      BY <1>8, <3>2 DEF Good, Sorted, Shows
  <2> QED
    BY <2>1, <2>2
<1>10. Monitored(b) = Monitored(h) /\ b.status = h.status
  BY <1>6, <1>9 DEF Shown, Monitored
<1>11. b.grabbed \subseteq a.grabbed \cup (Monitored(a) \cup P)
  BY <1>4, <1>6, <1>9 DEF TakesIn, Becomes, Shown
<1>12. b.live = (a.live \cup (present \cup P)) \ released
  BY <1>5, <1>6, <1>9 DEF Shown
<1>13. Waits(a, b, P)
  BY <1>4, <1>10 DEF TakesIn, Waits
<1> QED
  BY <1>3, <1>5, <1>9, <1>10, <1>11, <1>12, <1>13 DEF Becomes

(* The area that forgets its last touch is ready for the next gesture.     *)
LEMMA IdleIsGood ==
  ASSUME NEW a \in Areas, a.timer => a.status \in Timed, a.candidates = {}, a.watched = {},
         a.status # "WaitingForTouch", NEW b, b = SetInternalStatus(a, "WaitingForTouch")
  PROVE  /\ Good(b) /\ b.live = a.live /\ b.grabbed = a.grabbed
         /\ b.candidates = {} /\ b.watched = {} /\ b.status = "WaitingForTouch"
<1>1. "WaitingForTouch" \in Statuses /\ "WaitingForTouch" \in Resyncing
      /\ "WaitingForTouch" \notin Timed
  BY DEF Statuses, Resyncing, Timed
<1>2. /\ b \in Areas /\ b.status = "WaitingForTouch" /\ b.candidates = {} /\ b.watched = {}
      /\ b.grabbed = a.grabbed /\ b.live = a.live /\ b.cached = a.live /\ ~b.timer
  BY <1>1, SetInternalStatusDoes
<1> QED
  BY <1>1, <1>2 DEF Good, Sorted, Shows

\* What becomes of a when the touches R end: none but those of R are forgotten, and
\* of those only candidates of a recognized gesture are not.
LetsGo(a, b, R, live) ==
  /\ Good(b) /\ b.live = live /\ b.grabbed = a.grabbed
  /\ Monitored(a) \ R \subseteq Monitored(b)
  /\ Monitored(b) \subseteq (Monitored(a) \ R) \cup LeftBy(a, R)
  /\ b.status = "WaitingForMoreTouches" => a.status = "WaitingForMoreTouches"

(* unownedTouchEvent() up to the update of the points, in each status.     *)
LEMMA ForgetReleasedKeeps ==
  ASSUME NEW a, Good(a), NEW R \in SUBSET Monitored(a), R # {}
  PROVE  LetsGo(a, ForgetReleased(a, R), R, a.live)
<1>0. PICK b : b = ForgetReleased(a, R)
  OBVIOUS
<1> SUFFICES LetsGo(a, b, R, a.live)
  BY <1>0
<1> DEFINE candidates == [a EXCEPT !.candidates = @ \ R]
           watched == [a EXCEPT !.watched = @ \ R]
           both == [candidates EXCEPT !.watched = @ \ R]
<1>1. a \in Areas /\ (a.timer <=> a.status \in Timed) /\ a.status # "WaitingForTouch"
  BY DEF Good, Sorted, Shows, Monitored
<1>2. CASE a.status = "WaitingForMoreTouches"
  <2>1. b = IF candidates.candidates = {} THEN SetInternalStatus(candidates, "WaitingForTouch")
            ELSE candidates
    BY <1>0, <1>2 DEF ForgetReleased
  <2>2. /\ candidates \in Areas /\ candidates.status = a.status
        /\ (candidates.timer <=> a.timer) /\ candidates.candidates = a.candidates \ R
        /\ candidates.watched = a.watched /\ a.watched = {} /\ candidates.grabbed = a.grabbed
        /\ candidates.live = a.live /\ candidates.cached = a.cached
    BY <1>1, <1>2 DEF Areas, Good, Sorted
  <2>0. ~Enough(a.candidates \ R)
    <3>1. a.candidates \in SUBSET AreaTouches /\ ~Enough(a.candidates)
      BY <1>1, <1>2 DEF Areas, Good, Sorted
    <3> QED
      BY <3>1, FewerAreNotEnough
  <2> HIDE DEF candidates
  <2>3. CASE candidates.candidates = {}
    <3>1. b = SetInternalStatus(candidates, "WaitingForTouch")
      BY <2>1, <2>3
    <3>2. /\ Good(b) /\ b.live = a.live /\ b.grabbed = a.grabbed
          /\ b.candidates = {} /\ b.watched = {} /\ b.status = "WaitingForTouch"
      BY <1>1, <1>2, <2>2, <2>3, <3>1, IdleIsGood
    <3> QED
      BY <2>2, <2>3, <3>2 DEF LetsGo, Monitored
  <2>4. CASE candidates.candidates # {}
    <3>1. b = candidates
      BY <2>1, <2>4
    <3>2. Good(b)
      BY <1>2, <2>0, <2>2, <3>1 DEF Good, Sorted, Shows
    <3> QED
      BY <1>2, <2>2, <3>1, <3>2 DEF LetsGo, Monitored
  <2> QED
    BY <2>3, <2>4
<1>3. CASE a.status = "WaitingForOwnership"
  <2>1. b = IF both.candidates \cup both.watched = {}
            THEN SetInternalStatus(both, "WaitingForTouch") ELSE both
    BY <1>0, <1>3 DEF ForgetReleased
  <2>2. /\ both \in Areas /\ both.status = a.status /\ (both.timer <=> a.timer)
        /\ both.candidates = a.candidates \ R /\ both.watched = a.watched \ R
        /\ both.grabbed = a.grabbed /\ both.live = a.live /\ both.cached = a.cached
    BY <1>1 DEF Areas
  <2> HIDE DEF both, candidates
  <2>3. CASE both.candidates \cup both.watched = {}
    <3>1. b = SetInternalStatus(both, "WaitingForTouch") /\ both.candidates = {} /\ both.watched = {}
      BY <2>1, <2>3
    <3>2. /\ Good(b) /\ b.live = a.live /\ b.grabbed = a.grabbed
          /\ b.candidates = {} /\ b.watched = {} /\ b.status = "WaitingForTouch"
      BY <1>1, <1>3, <2>2, <3>1, IdleIsGood
    <3> QED
      BY <2>2, <3>1, <3>2 DEF LetsGo, Monitored
  <2>4. CASE both.candidates \cup both.watched # {}
    <3>1. b = both
      BY <2>1, <2>4
    <3>2. Good(b)
      BY <1>3, <2>2, <3>1 DEF Good, Sorted, Shows
    <3> QED
      BY <1>3, <2>2, <3>1, <3>2 DEF LetsGo, Monitored
  <2> QED
    BY <2>3, <2>4
<1>4. CASE a.status \in {"Recognized", "WaitingForRejection", "Rejected"}
  <2>1. /\ watched \in Areas /\ watched.status = a.status /\ (watched.timer <=> a.timer)
        /\ watched.candidates = a.candidates /\ watched.watched = a.watched \ R
        /\ watched.grabbed = a.grabbed /\ watched.live = a.live /\ watched.cached = a.cached
    BY <1>1 DEF Areas
  <2>2. b = CASE a.status = "Recognized" ->
                   IF Enough(watched.watched) THEN watched
                   ELSE SetInternalStatus(watched, "WaitingForRejection")
              [] a.status = "WaitingForRejection" -> watched
              [] a.status = "Rejected" ->
                   IF watched.watched = {} THEN SetInternalStatus(watched, "WaitingForTouch")
                   ELSE watched
    BY <1>0, <1>4 DEF ForgetReleased
  <2> HIDE DEF watched
  <2>3. /\ a.status = "Rejected" => a.candidates = {}
        /\ a.status \in {"Recognized", "WaitingForRejection"} => LeftBy(a, R) = R \cap a.candidates
    BY DEF Good, Sorted, LeftBy
  <2>4. CASE b = watched
    <3>1. Good(b)
      BY <1>4, <2>1, <2>4 DEF Good, Sorted, Shows
    <3>2. Monitored(b) = a.candidates \cup (a.watched \ R)
      BY <2>1, <2>4 DEF Monitored
    <3> QED
      BY <1>4, <2>1, <2>3, <2>4, <3>1, <3>2 DEF LetsGo, Monitored
  <2>5. CASE a.status = "Recognized" /\ b = SetInternalStatus(watched, "WaitingForRejection")
    <3>1. "WaitingForRejection" \in Statuses /\ "WaitingForRejection" \notin Resyncing
          /\ "WaitingForRejection" \in Timed
      BY DEF Statuses, Resyncing, Timed
    <3>2. /\ b \in Areas /\ b.status = "WaitingForRejection" /\ b.timer
          /\ b.candidates = a.candidates /\ b.watched = a.watched \ R
          /\ b.grabbed = a.grabbed /\ b.live = a.live /\ b.cached = a.cached
      BY <1>1, <2>1, <2>5, <3>1, SetInternalStatusDoes
    <3>3. Good(b)
      BY <3>1, <3>2 DEF Good, Sorted, Shows
    <3> QED
      BY <2>3, <2>5, <3>2, <3>3 DEF LetsGo, Monitored
  <2>6. CASE a.status = "Rejected" /\ watched.watched = {}
             /\ b = SetInternalStatus(watched, "WaitingForTouch")
    <3>1. /\ Good(b) /\ b.live = a.live /\ b.grabbed = a.grabbed
          /\ b.candidates = {} /\ b.watched = {} /\ b.status = "WaitingForTouch"
      BY <1>1, <2>1, <2>3, <2>6, IdleIsGood
    <3> QED
      BY <2>1, <2>3, <2>6, <3>1 DEF LetsGo, Monitored
  <2> QED
    BY <1>4, <2>2, <2>4, <2>5, <2>6
<1>5. a.status \in Statuses
  BY <1>1 DEF Areas
<1> QED
  BY <1>1, <1>2, <1>3, <1>4, <1>5 DEF Statuses

(* unownedTouchEvent() as a whole: the released touches are not shown any  *)
(* more, either.                                                           *)
LEMMA UnownedReleaseKeeps ==
  ASSUME NEW a, Good(a), NEW R \in SUBSET Monitored(a), R # {}
  PROVE  LetsGo(a, UnownedRelease(a, R), R, a.live \ R)
<1>1. PICK h : h = ForgetReleased(a, R)
  OBVIOUS
<1>2. PICK b : b = UnownedRelease(a, R)
  OBVIOUS
<1>3. LetsGo(a, h, R, a.live)
  BY <1>1, ForgetReleasedKeeps
<1>4. Good(h)
  BY <1>3 DEF LetsGo
<1>5. /\ b = UpdateTouchPoints(h, {}, R) /\ {} \in SUBSET AreaTouches /\ R \in SUBSET AreaTouches
      /\ {} \cap R = {}
  <2>1. Monitored(a) \subseteq AreaTouches
    BY DEF Good, Areas, Monitored
  <2> QED
    BY <1>1, <1>2, <2>1 DEF UnownedRelease
<1>6. Shown(h, b, (h.live \cup {}) \ R)
  BY <1>4, <1>5, UpdateTouchPointsKeeps
<1>7. LetsGo(a, b, R, a.live \ R)
  <2>1. Monitored(b) = Monitored(h)
    BY <1>6 DEF Shown, Monitored
  <2> QED
    BY <1>3, <1>6, <2>1 DEF LetsGo, Shown
<1> QED
  BY <1>2, <1>7

-----------------------------------------------------------------------------
(* The area and its touches.                                               *)

\* The area monitors the touches D that are down and have reached it, and of others at
\* most those in L.
Tracks(a, D, L) == D \subseteq Monitored(a) /\ Monitored(a) \subseteq D \cup L

Inv ==
  /\ finger \in [AreaTouches -> {"new", "down", "gone"}]
  /\ reached \subseteq {t \in AreaTouches : finger[t] # "new"}
  /\ leftOver \subseteq reached
  /\ areaEnabled \in BOOLEAN
  /\ Good(area) /\ Tracks(area, reached \cap Down, leftOver)
  /\ area.live = reached \cap Down
  /\ area.grabbed \subseteq reached
  /\ requested \subseteq area.candidates
  /\ area.status = "WaitingForMoreTouches" => requested = {}

(* Nothing has happened yet.                                               *)
LEMMA InitInv == AreaInit => Inv
<1> SUFFICES ASSUME AreaInit PROVE Inv
  OBVIOUS
<1>1. /\ finger = [t \in AreaTouches |-> "new"] /\ reached = {} /\ requested = {}
      /\ leftOver = {} /\ areaEnabled = TRUE /\ area = NewArea /\ Down = {}
  BY DEF AreaInit, Down
<1>2. /\ NewArea \in Areas /\ NewArea.live = {} /\ NewArea.grabbed = {} /\ NewArea.cached = {}
      /\ NewArea.candidates = {} /\ NewArea.watched = {} /\ ~NewArea.timer
      /\ NewArea.status = "WaitingForTouch"
  BY DEF NewArea, Areas, Statuses
<1>3. Good(NewArea) /\ Monitored(NewArea) = {}
  BY <1>2 DEF Good, Sorted, Shows, Monitored, Timed
<1> QED
  BY <1>1, <1>2, <1>3 DEF Inv, Tracks

(* The invariant says all that is claimed.                                 *)
LEMMA InvImplies == Inv => AreaTypeOK /\ MonitoredUntilReleased /\ PointsAreLive
<1> SUFFICES ASSUME Inv PROVE AreaTypeOK /\ MonitoredUntilReleased /\ PointsAreLive
  OBVIOUS
<1>1. AreaTypeOK
  BY DEF Inv, AreaTypeOK, Areas, Good
<1>2. MonitoredUntilReleased
  BY DEF Inv, Tracks, Monitored, MonitoredUntilReleased
<1>3. PointsAreLive
  BY DEF Inv, Good, Shows, Timed, PointsAreLive
<1> QED
  BY <1>1, <1>2, <1>3

(* Touches whose press does not reach the area, and those that do: these   *)
(* (Q) are monitored from now on.                                          *)
LEMMA PressInv ==
  ASSUME Inv, NEW P, Press(P)
  PROVE  Inv'
<1>1. PICK Q \in IF areaEnabled THEN SUBSET P ELSE {{}} :
        \E G \in SUBSET (IF Asks(area, Q) THEN area.candidates \cup Q ELSE {}) :
          /\ reached' = reached \cup Q
          /\ area' = IF Q \cup (area.grabbed \cap Down) = {} THEN area
                     ELSE TouchEvent(area, Q, area.grabbed \cap Down, {}, G)
          /\ requested' = StillRequested(area', IF Asks(area, Q) THEN area.candidates \cup Q ELSE {})
  BY DEF Press
<1>2. PICK asked : asked = IF Asks(area, Q) THEN area.candidates \cup Q ELSE {}
  OBVIOUS
<1>3. PICK G \in SUBSET asked :
        /\ reached' = reached \cup Q
        /\ area' = IF Q \cup (area.grabbed \cap Down) = {} THEN area
                   ELSE TouchEvent(area, Q, area.grabbed \cap Down, {}, G)
        /\ requested' = (requested \cup asked) \cap area'.candidates
  BY <1>1, <1>2 DEF StillRequested
<1>4. /\ P \subseteq {t \in AreaTouches : finger[t] = "new"}
      /\ finger' = [t \in AreaTouches |-> IF t \in P THEN "down" ELSE finger[t]]
      /\ leftOver' = leftOver /\ areaEnabled' = areaEnabled
  BY DEF Press
<1>5. Q \subseteq P /\ (~areaEnabled => Q = {})
  BY <1>1 DEF Inv
<1>6. /\ finger' \in [AreaTouches -> {"new", "down", "gone"}]
      /\ Down' = Down \cup P /\ Down \subseteq AreaTouches
      /\ reached' \subseteq {t \in AreaTouches : finger'[t] # "new"}
      /\ reached' \cap Down' = (reached \cap Down) \cup Q
      /\ Q \in SUBSET AreaTouches
  BY <1>3, <1>4, <1>5 DEF Inv, Down
<1> DEFINE D == reached \cap Down
<1>7. /\ D \in SUBSET AreaTouches /\ Good(area) /\ Tracks(area, D, leftOver) /\ area.live = D
      /\ area.grabbed \subseteq reached /\ area.grabbed \cap Down \in SUBSET D
      /\ leftOver \subseteq reached
  BY <1>6 DEF Inv
<1>8. Becomes(area, area', Monitored(area) \cup Q, D \cup Q)
      /\ Waits(area, area', Q)
  <2>1. CASE Q \cup (area.grabbed \cap Down) = {}
    <3>1. area' = area /\ Q = {}
      BY <1>3, <2>1
    <3>2. ~Asks(area, {})
      BY <1>7, NothingNewNothingAsked
    <3> QED
      BY <1>7, <3>1, <3>2 DEF Becomes, Waits
  <2>2. CASE Q \cup (area.grabbed \cap Down) # {} /\ ~areaEnabled
    <3>1. area' = area /\ Q = {}
      BY <1>3, <1>5, <2>2 DEF TouchEvent
    <3>2. ~Asks(area, {})
      BY <1>7, NothingNewNothingAsked
    <3> QED
      BY <1>7, <3>1, <3>2 DEF Becomes, Waits
  <2>3. CASE Q \cup (area.grabbed \cap Down) # {} /\ areaEnabled
    <3>1. PICK present : present = area.grabbed \cap Down
      OBVIOUS
    <3>2. area' = TouchEvent(area, Q, present, {}, G) /\ present \subseteq D
      BY <1>3, <1>7, <2>3, <3>1
    <3>3. G \in SUBSET (area.candidates \cup Q)
      BY <1>2
    <3>4. /\ present \in SUBSET AreaTouches /\ {} \in SUBSET AreaTouches
          /\ {} \cap (present \cup Q) = {}
      BY <1>7, <3>2
    <3> HIDE DEF D
    <3>5. /\ Becomes(area, area', Monitored(area) \cup Q, (area.live \cup (present \cup Q)) \ {})
          /\ Waits(area, area', Q)
      BY <1>6, <1>7, <2>3, <3>2, <3>3, <3>4, TouchEventKeeps
    <3>6. (area.live \cup (present \cup Q)) \ {} = D \cup Q
      BY <1>7, <3>2
    <3> QED
      BY <3>5, <3>6
  <2> QED
    BY <2>1, <2>2, <2>3
<1>9. Tracks(area', D \cup Q, leftOver) /\ area'.live = D \cup Q /\ Good(area')
  BY <1>7, <1>8 DEF Becomes, Tracks
<1>10. area'.grabbed \subseteq reached'
  <2>1. Monitored(area) \subseteq reached
    BY <1>7 DEF Tracks
  <2> QED
    BY <1>3, <1>7, <1>8, <2>1 DEF Becomes
<1>11. /\ requested' \subseteq area'.candidates
       /\ area'.status = "WaitingForMoreTouches" => requested' = {}
  <2>1. ASSUME area'.status = "WaitingForMoreTouches" PROVE requested' = {}
    <3>1. asked = {} /\ area.status \in {"WaitingForTouch", "WaitingForMoreTouches"}
      BY <1>2, <1>8, <2>1 DEF Waits
    <3>2. requested = {}
      BY <3>1 DEF Inv, Good, Sorted
    <3> QED
      BY <1>3, <3>1, <3>2
  <2> QED
    BY <1>3, <2>1
<1>12. leftOver' \subseteq reached' /\ areaEnabled' \in BOOLEAN
  BY <1>3, <1>4, <1>7 DEF Inv
<1> HIDE DEF D
<1>13. reached' \cap Down' = D \cup Q
  BY <1>6 DEF D
<1> QED
  BY <1>4, <1>6, <1>9, <1>10, <1>11, <1>12, <1>13 DEF Inv

(* Moves change nothing that is monitored or shown.                        *)
LEMMA MoveInv == Inv /\ Move => Inv'
<1> SUFFICES ASSUME Inv, Move PROVE Inv'
  OBVIOUS
<1>1. PICK D : D = reached \cap Down
  OBVIOUS
<1>2. PICK present : present = area.grabbed \cap Down
  OBVIOUS
<1>3. /\ D \in SUBSET AreaTouches /\ present \in SUBSET D
      /\ Good(area) /\ Tracks(area, D, leftOver) /\ area.live = D
      /\ UNCHANGED <<finger, reached, leftOver, areaEnabled>> /\ Down' = Down
      /\ leftOver \subseteq reached
  BY <1>1, <1>2 DEF Inv, Move, Down
<1>4. /\ area' = TouchEvent(area, {}, present, {}, {})
      /\ requested' = requested \cap area'.candidates
  BY <1>2 DEF Move, StillRequested
<1>5. Becomes(area, area', Monitored(area), D) /\ Waits(area, area', {})
  <2>1. CASE ~areaEnabled
    <3>1. area' = area
      BY <1>4, <2>1 DEF TouchEvent
    <3>2. ~Asks(area, {})
      BY <1>3, NothingNewNothingAsked
    <3> QED
      BY <1>3, <3>1, <3>2 DEF Becomes, Waits
  <2>2. CASE areaEnabled
    <3>1. /\ present \in SUBSET AreaTouches /\ {} \in SUBSET AreaTouches
          /\ {} \cap (present \cup {}) = {} /\ {} \in SUBSET (area.candidates \cup {})
      BY <1>3
    <3>2. /\ Becomes(area, area', Monitored(area) \cup {}, (area.live \cup (present \cup {})) \ {})
          /\ Waits(area, area', {})
      BY <1>3, <1>4, <2>2, <3>1, TouchEventKeeps
    <3>3. Monitored(area) \cup {} = Monitored(area) /\ (area.live \cup (present \cup {})) \ {} = D
      BY <1>3
    <3> QED
      BY <3>2, <3>3
  <2> QED
    BY <2>1, <2>2
<1>6. area'.status = "WaitingForMoreTouches" => requested' = {}
  BY <1>4, <1>5 DEF Waits, Inv, Good, Sorted
<1>7. area'.grabbed \subseteq reached
  BY <1>1, <1>3, <1>5 DEF Becomes, Inv, Tracks
<1>8. Good(area') /\ Tracks(area', D, leftOver) /\ area'.live = D
  BY <1>3, <1>5 DEF Becomes, Tracks
<1> QED
  BY <1>1, <1>3, <1>4, <1>6, <1>7, <1>8 DEF Inv

(* The touches R end: first for the registry's watchers and candidates,    *)
(* then for the area as Qt's receiver of those it has grabbed.             *)
LEMMA ReleaseInv ==
  ASSUME Inv, NEW R, Release(R)
  PROVE  Inv'
<1>1. PICK D : D = reached \cap Down
  OBVIOUS
<1>2. PICK monitored : monitored = R \cap Monitored(area)
  OBVIOUS
<1>3. /\ D \in SUBSET AreaTouches /\ Good(area) /\ Tracks(area, D, leftOver) /\ area.live = D
      /\ area.grabbed \subseteq reached /\ leftOver \subseteq reached
  BY <1>1 DEF Inv, Down
<1>4. /\ R # {} /\ R \subseteq Down /\ reached' = reached /\ areaEnabled' = areaEnabled
      /\ finger' = [t \in AreaTouches |-> IF t \in R THEN "gone" ELSE finger[t]]
      /\ requested' = requested \cap area'.candidates
      /\ leftOver' = leftOver \cup LeftBy(area, R)
  BY DEF Release, StillRequested
<1>5. /\ finger' \in [AreaTouches -> {"new", "down", "gone"}]
      /\ reached' \subseteq {t \in AreaTouches : finger'[t] # "new"}
      /\ Down' = Down \ R /\ reached' \cap Down' = D \ R
  BY <1>1, <1>4 DEF Inv, Down
<1>6. PICK told : told = IF monitored = {} THEN area ELSE UnownedRelease(area, monitored)
  OBVIOUS
<1>7. PICK grabbed : grabbed = told.grabbed \cap Down
  OBVIOUS
<1>8. area' = IF grabbed = {} THEN told
              ELSE TouchEvent([told EXCEPT !.grabbed = @ \ R], {}, grabbed \ R, R \cap grabbed, {})
  BY <1>2, <1>6, <1>7 DEF Release, Monitored
<1>9. /\ LeftBy(area, R) \subseteq reached
      /\ LeftBy(area, monitored) \subseteq LeftBy(area, R)
      /\ Monitored(area) \ monitored = Monitored(area) \ R
  BY <1>2, <1>3, <1>1 DEF LeftBy, Tracks, Monitored
<1>10. /\ Good(told) /\ Tracks(told, D \ R, leftOver') /\ told.live = D \ R
       /\ told.grabbed = area.grabbed
       /\ told.status = "WaitingForMoreTouches" => area.status = "WaitingForMoreTouches"
  <2>1. CASE monitored = {}
    <3>1. told = area /\ D \ R = D
      BY <1>2, <1>3, <1>6, <2>1 DEF Tracks
    <3> QED
      BY <1>3, <1>4, <3>1 DEF Tracks
  <2>2. CASE monitored # {}
    <3>1. told = UnownedRelease(area, monitored) /\ monitored \in SUBSET Monitored(area)
      BY <1>2, <1>6, <2>2
    <3>2. LetsGo(area, told, monitored, area.live \ monitored)
      BY <1>3, <2>2, <3>1, UnownedReleaseKeeps
    <3>3. D \ monitored = D \ R
      BY <1>2, <1>3 DEF Tracks
    <3>4. Tracks(told, D \ R, leftOver')
      BY <1>3, <1>4, <1>9, <3>2 DEF Tracks, LetsGo
    <3> QED
      BY <1>3, <3>2, <3>3, <3>4 DEF LetsGo
  <2> QED
    BY <2>1, <2>2
<1>11. PICK told2 : told2 = [told EXCEPT !.grabbed = @ \ R]
  OBVIOUS
<1>12. /\ Good(told2) /\ Tracks(told2, D \ R, leftOver') /\ told2.live = D \ R
       /\ told2.grabbed = area.grabbed \ R /\ told2.status = told.status
       /\ Monitored(told2) = Monitored(told) /\ told2.candidates = told.candidates
  <2>1. /\ told2 \in Areas /\ told2.status = told.status /\ (told2.timer <=> told.timer)
        /\ told2.candidates = told.candidates /\ told2.watched = told.watched
        /\ told2.grabbed = told.grabbed \ R
        /\ told2.live = told.live /\ told2.cached = told.cached
    BY <1>10, <1>11 DEF Areas, Good
  <2>2. Good(told2)
    BY <1>10, <2>1 DEF Good, Sorted, Shows
  <2>3. Monitored(told2) = Monitored(told)
    BY <2>1 DEF Monitored
  <2> QED
    BY <1>10, <2>1, <2>2, <2>3 DEF Tracks
<1>13. /\ Good(area') /\ Monitored(area') = Monitored(told) /\ area'.live = D \ R
       /\ area'.grabbed \subseteq area.grabbed \cup Monitored(told)
       /\ area'.status = "WaitingForMoreTouches" =>
            told.status \in {"WaitingForTouch", "WaitingForMoreTouches"}
  <2>1. CASE grabbed = {}
    <3>1. area' = told
      BY <1>8, <2>1
    <3> QED
      BY <1>10, <3>1
  <2>2. CASE grabbed # {} /\ ~areaEnabled
    <3>1. area' = told2
      BY <1>8, <1>11, <2>2 DEF TouchEvent
    <3> QED
      BY <1>12, <3>1
  <2>3. CASE grabbed # {} /\ areaEnabled
    <3>1. PICK present, released : present = grabbed \ R /\ released = R \cap grabbed
      OBVIOUS
    <3>2. area' = TouchEvent(told2, {}, present, released, {})
      BY <1>8, <1>11, <2>3, <3>1
    <3>3. /\ present \in SUBSET (D \ R) /\ released \in SUBSET AreaTouches
          /\ present \in SUBSET AreaTouches /\ {} \in SUBSET AreaTouches
          /\ released \cap (present \cup {}) = {} /\ {} \in SUBSET (told2.candidates \cup {})
          /\ released \cap (D \ R) = {}
      BY <1>1, <1>3, <1>4, <1>7, <1>10, <3>1
    <3>4. /\ Becomes(told2, area', Monitored(told2) \cup {},
                     (told2.live \cup (present \cup {})) \ released)
          /\ Waits(told2, area', {})
      BY <1>12, <2>3, <3>2, <3>3, TouchEventKeeps
    <3>5. /\ Monitored(told2) \cup {} = Monitored(told)
          /\ (told2.live \cup (present \cup {})) \ released = D \ R
      BY <1>12, <3>3
    <3> QED
      BY <1>12, <3>4, <3>5 DEF Becomes, Waits
  <2> QED
    BY <2>1, <2>2, <2>3
<1>14. area'.status = "WaitingForMoreTouches" => requested' = {}
  <2>1. CASE told.status = "WaitingForMoreTouches"
    BY <1>4, <1>10, <2>1 DEF Inv
  <2>2. CASE told.status = "WaitingForTouch" /\ area'.status = "WaitingForMoreTouches"
    <3>1. Monitored(area') = {}
      BY <1>10, <1>13, <2>2 DEF Good, Sorted, Monitored
    <3> QED
      BY <1>4, <3>1 DEF Monitored
  <2> QED
    BY <1>13, <2>1, <2>2
<1>15. Tracks(area', D \ R, leftOver')
  BY <1>10, <1>13 DEF Tracks
<1>16. area'.grabbed \subseteq reached' /\ leftOver' \subseteq reached'
  BY <1>1, <1>3, <1>4, <1>9, <1>10, <1>13 DEF Tracks
<1> QED
  BY <1>4, <1>5, <1>13, <1>14, <1>15, <1>16 DEF Inv

(* rejectGesture(), whatever it is called for.                             *)
LEMMA RejectedInv ==
  ASSUME Inv, NEW a \in Areas, a.status = area.status,
         a.status # IF Monitored(a) = {} THEN "WaitingForTouch" ELSE "Rejected",
         a.timer => a.status \in Timed, a.candidates = area.candidates, a.watched = area.watched,
         a.live = area.live, area' = RejectGesture(a), requested' = StillRequested(area', {}),
         UNCHANGED <<finger, reached, leftOver, areaEnabled>>
  PROVE  Inv'
<1>1. /\ Becomes(a, area', Monitored(a), a.live) /\ area'.candidates = {}
      /\ area'.grabbed = {} /\ area'.status \in {"WaitingForTouch", "Rejected"}
  BY RejectGestureKeeps
<1>2. Monitored(area') = Monitored(area) /\ area'.live = area.live /\ Good(area')
  BY <1>1 DEF Becomes, Monitored
<1>3. Down' = Down /\ requested' = {}
  BY <1>1 DEF Down, StillRequested
<1> QED
  BY <1>1, <1>2, <1>3 DEF Inv, Tracks

(* The recognition timer fires in a status that has it run.                *)
LEMMA RecognitionTimeoutInv == Inv /\ RecognitionTimeout => Inv'
<1> SUFFICES ASSUME Inv, RecognitionTimeout PROVE Inv'
  OBVIOUS
<1>1. PICK a : a = [area EXCEPT !.timer = FALSE]
  OBVIOUS
<1>2. area \in Areas /\ area.status \in Timed
  BY DEF Inv, Good, Shows, RecognitionTimeout
<1>3. /\ a \in Areas /\ a.status = area.status /\ ~a.timer
      /\ a.candidates = area.candidates /\ a.watched = area.watched /\ a.live = area.live
  BY <1>1, <1>2 DEF Areas
<1>4. a.status # IF Monitored(a) = {} THEN "WaitingForTouch" ELSE "Rejected"
  BY <1>2, <1>3 DEF Timed
<1> QED
  BY <1>1, <1>2, <1>3, <1>4, RejectedInv DEF RecognitionTimeout

(* A touch that is lost was a candidate's.                                 *)
LEMMA OwnershipLostInv ==
  ASSUME Inv, NEW t, OwnershipLost(t)
  PROVE  Inv'
<1>1. area \in Areas /\ (area.timer <=> area.status \in Timed) /\ t \in area.candidates
  BY DEF Inv, Good, Shows, OwnershipLost
<1>2. area.status # IF Monitored(area) = {} THEN "WaitingForTouch" ELSE "Rejected"
  BY <1>1 DEF Inv, Good, Sorted, Monitored
<1> QED
  BY <1>1, <1>2, RejectedInv DEF OwnershipLost

(* The registry grants some of what the area has asked for.                *)
LEMMA OwnershipGainedInv ==
  ASSUME Inv, NEW T, OwnershipGained(T)
  PROVE  Inv'
<1>1. /\ Good(area) /\ T # {} /\ T \in SUBSET area.candidates /\ Down' = Down
      /\ T \subseteq requested /\ UNCHANGED <<finger, reached, leftOver, areaEnabled>>
      /\ area' = Gained(area, T) /\ requested' = requested \cap area'.candidates
  BY DEF Inv, OwnershipGained, Down, StillRequested
<1>2. area.status # "WaitingForMoreTouches"
  BY <1>1 DEF Inv
<1>3. /\ Becomes(area, area', Monitored(area), area.live)
      /\ area'.status \in {area.status, "Recognized"}
  BY <1>1, <1>2, GainedKeeps
<1>4. area'.grabbed \subseteq reached
  BY <1>3 DEF Becomes, Inv, Tracks
<1> QED
  BY <1>1, <1>2, <1>3, <1>4 DEF Inv, Tracks, Becomes

(* What is done to an item while it is disabled or hidden.                 *)
LEMMA SetEnabledInv ==
  ASSUME Inv, NEW enabled \in BOOLEAN, SetEnabled(enabled)
  PROVE  Inv'
<1>1. /\ areaEnabled' \in BOOLEAN /\ Down' = Down
      /\ UNCHANGED <<finger, reached, requested, leftOver>>
      /\ area' = area \/ area' = [area EXCEPT !.grabbed = {}]
  BY DEF SetEnabled, Down
<1>2. /\ area' \in Areas /\ area'.status = area.status /\ (area'.timer <=> area.timer)
      /\ area'.candidates = area.candidates /\ area'.watched = area.watched
      /\ area'.grabbed \subseteq area.grabbed
      /\ area'.live = area.live /\ area'.cached = area.cached
  BY <1>1 DEF Inv, Good, Areas
<1>3. Good(area') /\ Monitored(area') = Monitored(area)
  BY <1>2 DEF Inv, Good, Sorted, Shows, Monitored
<1> QED
  BY <1>1, <1>2, <1>3 DEF Inv, Tracks

(* Every step preserves the invariant.                                     *)
LEMMA NextInv == Inv /\ [AreaNext]_areaVars => Inv'
<1> SUFFICES ASSUME Inv, [AreaNext]_areaVars PROVE Inv'
  OBVIOUS
<1>1. CASE UNCHANGED areaVars
  BY <1>1 DEF areaVars, Inv, Down, Tracks
<1>2. ASSUME NEW P \in SUBSET AreaTouches, Press(P) PROVE Inv'
  BY <1>2, PressInv
<1>3. ASSUME NEW P \in SUBSET AreaTouches, Release(P) PROVE Inv'
  BY <1>3, ReleaseInv
<1>4. ASSUME NEW P \in SUBSET AreaTouches, OwnershipGained(P) PROVE Inv'
  BY <1>4, OwnershipGainedInv
<1>5. ASSUME NEW t \in AreaTouches, OwnershipLost(t) PROVE Inv'
  BY <1>5, OwnershipLostInv
<1>6. CASE Move
  BY <1>6, MoveInv
<1>7. CASE RecognitionTimeout
  BY <1>7, RecognitionTimeoutInv
<1>8. ASSUME NEW enabled \in BOOLEAN, SetEnabled(enabled) PROVE Inv'
  BY <1>8, SetEnabledInv
<1> QED
  BY <1>1, <1>2, <1>3, <1>4, <1>5, <1>6, <1>7, <1>8 DEF AreaNext

(* Inv holds throughout.                                                   *)
LEMMA Invariance == AreaSpec => []Inv
BY NextInv, InitInv, PTL DEF AreaSpec

(* The members of the area keep their types, and the registry decides only *)
(* about touches that are candidates.                                      *)
THEOREM GestureTypes == AreaSpec => []AreaTypeOK
<1>1. Inv => AreaTypeOK
  BY InvImplies
<1> QED
  BY <1>1, Invariance, PTL

(* The touches that reached the area are monitored until they are released *)
(* (TouchGestureArea.cpp:26), for any touches and numbers of touch points, *)
(* whichever touches the registry grants or refuses, and whether or not    *)
(* the area is enabled; longer only those whose ownership was open when    *)
(* they were released from a recognized gesture.                           *)
THEOREM Monitoring == AreaSpec => []MonitoredUntilReleased
<1>1. Inv => MonitoredUntilReleased
  BY InvImplies
<1> QED
  BY <1>1, Invariance, PTL

(* The users of the area are shown the touches that are there, but while a *)
(* rejection may still be taken back; whatever the registry decides, and   *)
(* also when the area is disabled.                                         *)
THEOREM LivePoints == AreaSpec => []PointsAreLive
<1>1. Inv => PointsAreLive
  BY InvImplies
<1> QED
  BY <1>1, Invariance, PTL
=============================================================================
