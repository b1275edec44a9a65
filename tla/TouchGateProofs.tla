-------------------------- MODULE TouchGateProofs --------------------------
(***************************************************************************)
(* What TLAPS proves of TouchGate and TouchDispatcher, for any touches,    *)
(* any reactions of the items and any number of stored events.             *)
(*                                                                         *)
(* The stored events are a piece of one stream: a touch that is known and  *)
(* not pressed in them has been dispatched already (it is Ongoing), and is *)
(* in the oldest of them.  So an event, when it is dispatched, has all     *)
(* touches the item has still to be sent the end of.                       *)
(***************************************************************************)
EXTENDS TouchGate, SequenceTheorems, WellFoundedInduction, TLAPS

LEMMA EventIs ==
  ASSUME NEW e \in GateEvents
  PROVE  /\ DOMAIN e \subseteq Touches /\ DOMAIN e # {}
         /\ \A t \in DOMAIN e : e[t] \in States
         /\ e \in [DOMAIN e -> States]
<1>1. PICK T \in (SUBSET Touches) \ {{}} : e \in [T -> States]
  BY DEF GateEvents
<1>2. DOMAIN e = T /\ \A t \in T : e[t] \in States
  BY <1>1
<1>3. T \subseteq Touches /\ T # {}
  OBVIOUS
<1> QED  BY <1>1, <1>2, <1>3, Zenon

LEMMA IsEvent ==
  ASSUME NEW T, T \subseteq Touches, T # {}, NEW e \in [T -> States]
  PROVE  e \in GateEvents
<1>1. T \in (SUBSET Touches) \ {{}}
  OBVIOUS
<1> QED  BY <1>1, Zenon DEF GateEvents

-----------------------------------------------------------------------------
(***************************************************************************)
(* The dispatcher, when O are the touches that have been dispatched and    *)
(* have not ended, and cut says that a stream was cut off.                 *)
(***************************************************************************)
Uncut(d, O) ==
  /\ d.status # "NoActiveTouch" => d.hasTarget /\ O # {}
  /\ \A t \in Touches : d.seen[t] = "pressed" => t \in O /\ d.status = "DeliveringTouchEvents"
  /\ d.mouse # "broken"
  /\ d.mouse = "down" <=> d.touchMouseId # NoTouch
  /\ d.touchMouseId # NoTouch => d.touchMouseId \in O /\ d.status = "DeliveringMouseEvents"

InStep(d, O, cut) ==
  /\ d \in Dispatchers
  /\ \A t \in Touches : d.seen[t] # "broken"
  /\ d.hasTarget /\ d.status = "DeliveringTouchEvents" => O # {} /\ \A t \in O : d.seen[t] = "pressed"
  /\ ~cut => Uncut(d, O)

Before(e) == {t \in DOMAIN e : e[t] # "pressed"}
After(e) == {t \in DOMAIN e : e[t] # "released"}

\* What a dispatcher has sent after e, if it sends e as touches.
LEMMA SentAsTouch ==
  ASSUME NEW d \in Dispatchers, NEW e \in GateEvents,
         \A t \in Touches : d.seen[t] # "broken",
         \A t \in DOMAIN e : d.seen[t] = IF e[t] = "pressed" THEN "none" ELSE "pressed"
  PROVE  LET n == DispatchAsTouch(d, e)
         IN  /\ n \in Dispatchers
             /\ n.hasTarget = d.hasTarget /\ n.status = d.status
             /\ n.touchMouseId = d.touchMouseId /\ n.mouse = d.mouse
             /\ \A t \in Touches : n.seen[t] = IF t \notin DOMAIN e THEN d.seen[t]
                                               ELSE IF e[t] = "released" THEN "released" ELSE "pressed"
<1> DEFINE f == [t \in Touches |-> IF t \in DOMAIN e THEN Shown(d.seen[t], e[t]) ELSE d.seen[t]]
<1>1. DispatchAsTouch(d, e) = [d EXCEPT !.seen = f]
  BY DEF DispatchAsTouch, Dispatchers
<1>2. ASSUME NEW t \in Touches
      PROVE  f[t] = IF t \notin DOMAIN e THEN d.seen[t]
                    ELSE IF e[t] = "released" THEN "released" ELSE "pressed"
  <2>1. t \in DOMAIN e => e[t] = "pressed" \/ e[t] = "moved" \/ e[t] = "released"
    BY EventIs DEF States
  <2> QED  BY <2>1 DEF Shown
<1>3. f \in [Touches -> {"none", "pressed", "released", "broken"}]
  BY <1>2 DEF Dispatchers
<1> HIDE DEF f
<1> QED  BY <1>1, <1>2, <1>3 DEF Dispatchers

\* The mouse after e, if the touch that stands for it is in e.
LEMMA SentAsMouse ==
  ASSUME NEW d \in Dispatchers, NEW e \in GateEvents
  PROVE  LET n == DispatchAsMouse(d, e)
         IN  /\ n \in Dispatchers
             /\ n.hasTarget = d.hasTarget /\ n.status = d.status /\ n.seen = d.seen
             /\ (/\ d.touchMouseId \in DOMAIN e \cup {NoTouch}
                 /\ d.touchMouseId # NoTouch => e[d.touchMouseId] # "pressed"
                 /\ d.mouse = IF d.touchMouseId = NoTouch THEN "up" ELSE "down") =>
                   /\ n.touchMouseId \in After(e) \cup {NoTouch}
                   /\ n.mouse = IF n.touchMouseId = NoTouch THEN "up" ELSE "down"
<1> DEFINE pressed == {t \in DOMAIN e : e[t] = "pressed"}
           candidates == IF d.touchMouseId = NoTouch THEN pressed
                         ELSE IF d.touchMouseId \in DOMAIN e THEN {d.touchMouseId}
                         ELSE DOMAIN e
           m == CHOOSE t \in candidates : TRUE
           n == DispatchAsMouse(d, e)
           id == IF e[m] = "released" THEN NoTouch ELSE m
<1>1. n = IF candidates = {} THEN d
          ELSE [d EXCEPT !.mouse = MouseAfter(d.mouse, e[m]), !.touchMouseId = id]
  BY DEF DispatchAsMouse
<1>2. candidates \subseteq DOMAIN e /\ (candidates # {} => m \in candidates)
  OBVIOUS
<1>3. DOMAIN e \subseteq Touches /\ \A t \in DOMAIN e : e[t] \in States
  BY EventIs
<1>4. CASE candidates = {}
  <2>1. n = d
    BY <1>1, <1>4
  <2>2. d.touchMouseId = NoTouch \/ d.touchMouseId \notin DOMAIN e \cup {NoTouch}
    BY <1>4
  <2> HIDE DEF n
  <2> QED  BY <2>1, <2>2 DEF n
<1>5. CASE candidates # {}
  <2>1. n = [d EXCEPT !.mouse = MouseAfter(d.mouse, e[m]), !.touchMouseId = id]
    BY <1>1, <1>5
  <2>2. m \in DOMAIN e /\ e[m] \in States /\ m # NoTouch
    BY <1>2, <1>3, <1>5, NoTouchAssumption
  <2>3. d.touchMouseId = NoTouch => e[m] = "pressed"
    BY <1>2, <1>5
  <2>4. d.touchMouseId \in DOMAIN e /\ d.touchMouseId # NoTouch => m = d.touchMouseId
    BY <1>2, <1>5
  <2> HIDE DEF m, n, candidates, pressed
  <2>5. MouseAfter(d.mouse, e[m]) \in {"up", "down", "broken"}
    BY DEF MouseAfter
  <2>6. id \in Touches \cup {NoTouch}
    BY <1>3, <2>2
  <2>7. n \in Dispatchers /\ n.hasTarget = d.hasTarget /\ n.status = d.status /\ n.seen = d.seen
    BY <2>1, <2>5, <2>6 DEF Dispatchers
  <2>8. n.mouse = MouseAfter(d.mouse, e[m]) /\ n.touchMouseId = id
    BY <2>1 DEF Dispatchers
  <2>9. ASSUME d.touchMouseId \in DOMAIN e \cup {NoTouch},
               d.touchMouseId # NoTouch => e[d.touchMouseId] # "pressed",
               d.mouse = IF d.touchMouseId = NoTouch THEN "up" ELSE "down"
        PROVE  /\ id \in After(e) \cup {NoTouch}
               /\ MouseAfter(d.mouse, e[m]) = IF id = NoTouch THEN "up" ELSE "down"
    <3>1. CASE d.touchMouseId = NoTouch
      BY <2>2, <2>3, <2>9, <3>1 DEF MouseAfter, After
    <3>2. CASE d.touchMouseId # NoTouch
      <4>1. m = d.touchMouseId /\ e[m] # "pressed" /\ d.mouse = "down"
        BY <2>4, <2>9, <3>2
      <4> QED  BY <2>2, <4>1 DEF MouseAfter, After, States
    <3> QED  BY <3>1, <3>2
  <2> QED  BY <2>7, <2>8, <2>9 DEF n
<1> QED  BY <1>4, <1>5

\* An event that has all touches in O, and new ones, keeps the item in step.
LEMMA DispatchInStep ==
  ASSUME NEW d, NEW cut, NEW e \in GateEvents, NEW reaction, InStep(d, Before(e), cut),
         \A t \in DOMAIN e : e[t] = "pressed" => d.seen[t] = "none"
  PROVE  LET n == Dispatch(d, e, reaction)
         IN  /\ InStep(n, After(e), cut)
             /\ \A t \in Touches : n.seen[t] # d.seen[t] => t \in DOMAIN e
<1> DEFINE n == Dispatch(d, e, reaction)  O == Before(e)  L == DispatchLater(d, e)
<1>1. /\ d \in Dispatchers
      /\ \A t \in Touches : d.seen[t] # "broken"
      /\ d.hasTarget /\ d.status = "DeliveringTouchEvents" => O # {} /\ \A t \in O : d.seen[t] = "pressed"
      /\ ~cut => Uncut(d, O)
  BY DEF InStep
<1>2. DOMAIN e \subseteq Touches /\ DOMAIN e # {} /\ \A t \in DOMAIN e : e[t] \in States
  BY EventIs
<1>3. ~cut => /\ d.touchMouseId \in DOMAIN e \cup {NoTouch}
              /\ d.touchMouseId # NoTouch => e[d.touchMouseId] # "pressed"
              /\ d.mouse = IF d.touchMouseId = NoTouch THEN "up" ELSE "down"
  <2> SUFFICES ASSUME ~cut
               PROVE  /\ d.touchMouseId \in DOMAIN e \cup {NoTouch}
                      /\ d.touchMouseId # NoTouch => e[d.touchMouseId] # "pressed"
                      /\ d.mouse = IF d.touchMouseId = NoTouch THEN "up" ELSE "down"
    OBVIOUS
  <2>1. /\ d.mouse # "broken"
        /\ d.mouse = "down" <=> d.touchMouseId # NoTouch
        /\ d.touchMouseId # NoTouch => d.touchMouseId \in O
    BY <1>1 DEF Uncut
  <2>2. d.mouse \in {"up", "down", "broken"}
    BY <1>1 DEF Dispatchers
  <2> QED  BY <2>1, <2>2 DEF Before
<1>4. CASE ~d.hasTarget
  <2>1. n = d
    BY <1>4 DEF Dispatch
  <2>2. ~cut => Uncut(d, After(e))
    BY <1>1, <1>4 DEF Uncut
  <2> QED  BY <1>1, <1>4, <2>1, <2>2 DEF InStep
<1>4a. SUFFICES ASSUME d.hasTarget
                PROVE  /\ InStep(n, After(e), cut)
                       /\ \A t \in Touches : n.seen[t] # d.seen[t] => t \in DOMAIN e
  BY <1>4
<1>5. CASE d.hasTarget /\ All(e, "pressed")
  <2>1. n = DispatchTouchBegin(d, e, reaction)
    BY <1>5 DEF Dispatch, EventType
  <2>2. O = {} /\ After(e) = DOMAIN e
    BY <1>5 DEF All, Before, After
  <2>3. ~cut => /\ d.status = "NoActiveTouch" /\ d.touchMouseId = NoTouch /\ d.mouse = "up"
                /\ \A t \in Touches : d.seen[t] # "pressed"
    <3>1. d.mouse \in {"up", "down", "broken"}
      BY <1>1 DEF Dispatchers
    <3> QED  BY <1>1, <2>2, <3>1 DEF Uncut
  <2> HIDE DEF O, n, L
  <2>4. CASE reaction = "disabled"
    <3>1. n = d
      BY <2>1, <2>4 DEF DispatchTouchBegin
    <3>2. d.status # "DeliveringTouchEvents"
      BY <1>1, <1>5, <2>2
    <3>3. ~cut => Uncut(d, After(e))
      BY <2>3 DEF Uncut
    <3> QED  BY <1>1, <3>1, <3>2, <3>3 DEF InStep, n
  <2>5. CASE reaction = "touch"
    <3> DEFINE a == DispatchAsTouch(d, e)
    <3>1. n = [a EXCEPT !.status = "DeliveringTouchEvents"]
      BY <2>1, <2>5 DEF DispatchTouchBegin
    <3>2. \A t \in DOMAIN e : e[t] = "pressed" /\ d.seen[t] = "none"
      BY <1>5 DEF All
    <3>3. /\ a \in Dispatchers /\ a.hasTarget = d.hasTarget
          /\ a.touchMouseId = d.touchMouseId /\ a.mouse = d.mouse
          /\ \A t \in Touches : a.seen[t] = IF t \in DOMAIN e THEN "pressed" ELSE d.seen[t]
      BY <1>1, <3>2, SentAsTouch
    <3> HIDE DEF a
    <3>4. /\ n \in Dispatchers /\ n.hasTarget = d.hasTarget /\ n.status = "DeliveringTouchEvents"
          /\ n.touchMouseId = d.touchMouseId /\ n.mouse = d.mouse /\ n.seen = a.seen
      BY <3>1, <3>3 DEF Dispatchers
    <3>5. \A t \in Touches : n.seen[t] = IF t \in DOMAIN e THEN "pressed" ELSE d.seen[t]
      BY <3>3, <3>4
    <3>6. ~cut => Uncut(n, After(e))
      BY <1>2, <1>5, <2>2, <2>3, <3>4, <3>5 DEF Uncut
    <3> QED  BY <1>1, <1>2, <2>2, <3>4, <3>5, <3>6 DEF InStep, n
  <2>6. CASE reaction = "mouse"
    <3> DEFINE b == [d EXCEPT !.touchMouseId = NoTouch]
               a == DispatchAsMouse(b, e)
    <3>1. n = [a EXCEPT !.status = "DeliveringMouseEvents"]
      BY <2>1, <2>6 DEF DispatchTouchBegin
    <3>2. /\ b \in Dispatchers /\ b.hasTarget = d.hasTarget /\ b.seen = d.seen
          /\ b.touchMouseId = NoTouch /\ b.mouse = d.mouse
      BY <1>1 DEF Dispatchers
    <3> HIDE DEF b
    <3>3. /\ a \in Dispatchers /\ a.hasTarget = d.hasTarget /\ a.seen = d.seen
          /\ ~cut => /\ a.touchMouseId \in After(e) \cup {NoTouch}
                     /\ a.mouse = IF a.touchMouseId = NoTouch THEN "up" ELSE "down"
      BY <2>3, <3>2, SentAsMouse
    <3> HIDE DEF a
    <3>4. /\ n \in Dispatchers /\ n.hasTarget = d.hasTarget /\ n.status = "DeliveringMouseEvents"
          /\ n.touchMouseId = a.touchMouseId /\ n.mouse = a.mouse /\ n.seen = d.seen
      BY <3>1, <3>3 DEF Dispatchers
    <3>5. ~cut => Uncut(n, After(e))
      BY <1>2, <1>5, <2>2, <2>3, <3>3, <3>4, NoTouchAssumption DEF Uncut
    <3> QED  BY <1>1, <3>4, <3>5 DEF InStep, n
  <2>7. CASE reaction \notin {"disabled", "touch", "mouse"}
    <3>1. n = [d EXCEPT !.status = "TargetRejectedTouches"]
      BY <2>1, <2>7 DEF DispatchTouchBegin
    <3>2. /\ n \in Dispatchers /\ n.hasTarget = d.hasTarget /\ n.status = "TargetRejectedTouches"
          /\ n.touchMouseId = d.touchMouseId /\ n.mouse = d.mouse /\ n.seen = d.seen
      BY <1>1, <3>1 DEF Dispatchers
    <3>3. ~cut => Uncut(n, After(e))
      BY <1>2, <1>5, <2>2, <2>3, <3>2 DEF Uncut
    <3> QED  BY <1>1, <3>2, <3>3 DEF InStep, n
  <2> QED  BY <2>4, <2>5, <2>6, <2>7 DEF n
<1>6. /\ L \in Dispatchers /\ L.hasTarget = d.hasTarget /\ L.status = d.status
      /\ d.hasTarget /\ d.status = "DeliveringTouchEvents" =>
           \A t \in DOMAIN e : L.seen[t] = IF e[t] = "released" THEN "released" ELSE "pressed"
      /\ \A t \in Touches : L.seen[t] # "broken" \/ ~d.hasTarget
      /\ \A t \in Touches : L.seen[t] # d.seen[t] => t \in DOMAIN e
      /\ d.status # "DeliveringTouchEvents" => L.seen = d.seen
      /\ ~cut => /\ L.touchMouseId \in After(e) \cup {NoTouch}
                 /\ L.mouse = IF L.touchMouseId = NoTouch THEN "up" ELSE "down"
                 /\ d.status # "DeliveringMouseEvents" => L.touchMouseId = NoTouch
  <2> HIDE DEF n, L
  <2>1. CASE d.status = "DeliveringTouchEvents"
    <3>1. L = DispatchAsTouch(d, e)
      BY <2>1 DEF DispatchLater, L
    <3>2. \A t \in DOMAIN e : d.seen[t] = IF e[t] = "pressed" THEN "none" ELSE "pressed"
      BY <1>1, <1>4a, <2>1 DEF Before
    <3>3. /\ L \in Dispatchers /\ L.hasTarget = d.hasTarget /\ L.status = d.status
          /\ L.touchMouseId = d.touchMouseId /\ L.mouse = d.mouse
          /\ \A t \in Touches : L.seen[t] = IF t \notin DOMAIN e THEN d.seen[t]
                                            ELSE IF e[t] = "released" THEN "released" ELSE "pressed"
      BY <1>1, <3>1, <3>2, SentAsTouch
    <3>4. ~cut => d.touchMouseId = NoTouch /\ d.mouse = "up"
      BY <1>1, <1>3, <2>1 DEF Uncut
    <3> QED  BY <1>1, <1>2, <2>1, <3>3, <3>4
  <2>2. CASE d.status = "DeliveringMouseEvents"
    <3>1. L = DispatchAsMouse(d, e)
      BY <2>2 DEF DispatchLater, L
    <3>2. /\ L \in Dispatchers
          /\ L.hasTarget = d.hasTarget /\ L.status = d.status /\ L.seen = d.seen
          /\ ~cut => /\ L.touchMouseId \in After(e) \cup {NoTouch}
                     /\ L.mouse = IF L.touchMouseId = NoTouch THEN "up" ELSE "down"
      BY <1>1, <1>3, <3>1, SentAsMouse
    <3> QED  BY <1>1, <2>2, <3>2
  <2>3. CASE d.status \notin {"DeliveringTouchEvents", "DeliveringMouseEvents"}
    <3>1. L = d
      BY <2>3 DEF DispatchLater, L
    <3>2. ~cut => d.touchMouseId = NoTouch
      BY <1>1, <2>3 DEF Uncut
    <3> QED  BY <1>1, <1>3, <2>3, <3>1, <3>2
  <2> QED  BY <2>1, <2>2, <2>3
<1>7. CASE ~All(e, "pressed") /\ All(e, "released")
  <2> HIDE DEF n, L
  <2>1. n = Ended(L)
    BY <1>4a, <1>7 DEF Dispatch, EventType, n, L
  <2>2. /\ n \in Dispatchers /\ n.hasTarget = d.hasTarget /\ n.status = "NoActiveTouch"
        /\ n.touchMouseId = NoTouch /\ n.mouse = L.mouse /\ n.seen = L.seen
    BY <1>6, <2>1 DEF Ended, Dispatchers
  <2>3. After(e) = {} /\ Before(e) = DOMAIN e
    BY <1>7 DEF All, After, Before
  <2>4. ~cut => Uncut(n, After(e))
    <3> SUFFICES ASSUME ~cut, NEW t \in Touches PROVE n.seen[t] # "pressed" /\ n.mouse = "up"
      BY <1>6, <2>2, <2>3 DEF Uncut
    <3>1. d.seen[t] = "pressed" => t \in DOMAIN e /\ d.status = "DeliveringTouchEvents"
      BY <1>1, <2>3 DEF Uncut
    <3>2. t \in DOMAIN e => e[t] = "released"
      BY <1>7 DEF All
    <3>3. n.mouse = "up"
      BY <1>6, <2>2, <2>3, NoTouchAssumption
    <3>4. CASE d.status = "DeliveringTouchEvents"
      BY <1>4a, <1>6, <2>2, <3>1, <3>2, <3>3, <3>4
    <3>5. CASE d.status # "DeliveringTouchEvents"
      BY <1>6, <2>2, <3>1, <3>3, <3>5
    <3> QED  BY <3>4, <3>5
  <2> QED  BY <1>4a, <1>6, <2>2, <2>4 DEF InStep, n
<1>8. CASE ~All(e, "pressed") /\ ~All(e, "released")
  <2> HIDE DEF n, L
  <2>1. n = L
    BY <1>4a, <1>8 DEF Dispatch, EventType, n, L
  <2>2. After(e) # {} /\ Before(e) # {}
    BY <1>8 DEF All, After, Before
  <2>3. CASE d.status = "DeliveringTouchEvents"
    <3>1. \A t \in After(e) : L.seen[t] = "pressed"
      BY <1>4a, <1>6, <2>3 DEF After
    <3>2. ASSUME ~cut, NEW t \in Touches, L.seen[t] = "pressed" PROVE t \in After(e)
      <4>1. CASE t \in DOMAIN e
        BY <1>4a, <1>6, <2>3, <3>2, <4>1 DEF After
      <4>2. CASE t \notin DOMAIN e
        BY <1>1, <1>6, <3>2, <4>2 DEF Uncut, Before
      <4> QED  BY <4>1, <4>2
    <3>3. ~cut => Uncut(L, After(e))
      BY <1>4a, <1>6, <2>2, <2>3, <3>2 DEF Uncut
    <3> QED  BY <1>4a, <1>6, <2>1, <2>2, <3>1, <3>3 DEF InStep, n
  <2>4. CASE d.status # "DeliveringTouchEvents"
    <3>1. ~cut => Uncut(L, After(e))
      BY <1>1, <1>4a, <1>6, <2>2, <2>4 DEF Uncut
    <3> QED  BY <1>1, <1>4a, <1>6, <2>1, <2>4, <3>1 DEF InStep, n
  <2> QED  BY <2>3, <2>4
<1> QED  BY <1>4a, <1>5, <1>7, <1>8

-----------------------------------------------------------------------------
(***************************************************************************)
(* The stored events s, when c is what the contacts are and info what the  *)
(* gate knows of them.                                                     *)
(***************************************************************************)
In(s, i, t, x) == t \in DOMAIN s[i] /\ s[i][t] = x

\* The gate knows the touches of stored events.
AreKnown(info, s) == \A i \in 1..Len(s) : \A t \in DOMAIN s[i] : info[t] # "none"
\* A touch ends when it is gone, and then is in no later event.
EndOnce(c, s) ==
  \A i \in 1..Len(s), t \in Touches :
    In(s, i, t, "released") =>
      c[t] = "gone" /\ \A j \in 1..Len(s) : j > i => t \notin DOMAIN s[j]
\* The end of one that is gone is stored.
EndComes(c, info, s) ==
  \A t \in Touches :
    info[t] # "none" /\ c[t] # "down" => \E i \in 1..Len(s) : In(s, i, t, "released")
\* One that is down is in the latest event.
GoesOn(c, info, s) ==
  \A t \in Touches : c[t] = "down" /\ info[t] # "none" /\ Len(s) > 0 => t \in DOMAIN s[Len(s)]
\* A touch is in all events since it was pressed.
NoGaps(s) ==
  \A i, j \in 1..Len(s), t \in Touches :
    i < j /\ t \in DOMAIN s[j] =>
      \/ t \in DOMAIN s[i]
      \/ \E k \in 1..Len(s) : i < k /\ k <= j /\ In(s, k, t, "pressed")
\* And not in the events before.
BeginOnce(s) ==
  \A i \in 1..Len(s), t \in Touches :
    In(s, i, t, "pressed") => \A k \in 1..Len(s) : k < i => t \notin DOMAIN s[k]

Stream(c, info, s) ==
  /\ s \in Seq(GateEvents) /\ info \in [Touches -> Ownerships \cup {"none"}]
  /\ AreKnown(info, s) /\ EndOnce(c, s) /\ EndComes(c, info, s)
  /\ GoesOn(c, info, s) /\ NoGaps(s) /\ BeginOnce(s)

\* Touches that the item has been sent and whose end is still to come.
Ongoing(info, s) ==
  {t \in Touches : info[t] # "none" /\ \A i \in 1..Len(s) : ~In(s, i, t, "pressed")}

Unsent(s, d) ==
  \A i \in 1..Len(s), t \in Touches : In(s, i, t, "pressed") => d.seen[t] = "none"

\* What the gate knows is what the registry has answered.
Entitled(c, r, info, d) ==
  \A t \in Touches :
    /\ c[t] = "new" => r[t] = "none" /\ info[t] = "none" /\ d.seen[t] = "none"
    /\ info[t] = "OwnershipGranted" => r[t] = "granted"
    /\ info[t] = "OwnershipRequested" => r[t] = "asked"
    /\ d.seen[t] # "none" => r[t] = "granted"

Good(c, r, info, s, d, cut) ==
  /\ Stream(c, info, s)
  /\ Unsent(s, d)
  /\ Entitled(c, r, info, d)
  /\ \A t \in Ongoing(info, s) : IsTouchPointOwned(info, t)
  /\ InStep(d, Ongoing(info, s), cut)

\* The ongoing touches are in the oldest event.
LEMMA OngoingInOldest ==
  ASSUME NEW c, NEW info, NEW s, Stream(c, info, s), Len(s) > 0
  PROVE  Ongoing(info, s) = Before(s[1])
<1> DEFINE n == Len(s)
<1> USE DEF Stream
<1>1. n \in Nat /\ 1 \in 1..n /\ n \in 1..n /\ s[1] \in GateEvents
  BY LenProperties, ElementOfSeq
<1>2. DOMAIN s[1] \subseteq Touches
  BY <1>1, EventIs
<1>3. ASSUME NEW t \in Ongoing(info, s) PROVE t \in Before(s[1])
  <2>1. t \in Touches /\ info[t] # "none" /\ \A i \in 1..n : ~In(s, i, t, "pressed")
    BY <1>3 DEF Ongoing
  <2>2. PICK j \in 1..n : t \in DOMAIN s[j]
    BY <1>1, <2>1 DEF EndComes, GoesOn, In
  <2>3. t \in DOMAIN s[1]
    BY <1>1, <2>1, <2>2 DEF NoGaps
  <2> QED  BY <1>1, <2>1, <2>3 DEF In, Before
<1>4. ASSUME NEW t \in Before(s[1]) PROVE t \in Ongoing(info, s)
  <2>1. t \in Touches /\ t \in DOMAIN s[1] /\ s[1][t] # "pressed" /\ info[t] # "none"
    BY <1>1, <1>2, <1>4 DEF Before, AreKnown
  <2>2. ASSUME NEW i \in 1..n, In(s, i, t, "pressed") PROVE FALSE
    BY <1>1, <2>1, <2>2 DEF In, BeginOnce
  <2> QED  BY <2>1, <2>2 DEF Ongoing
<1> QED  BY <1>3, <1>4

\* The oldest event is dispatched.
LEMMA OldestDispatched ==
  ASSUME NEW c, NEW r, NEW info, NEW s, NEW d, NEW cut, NEW reaction,
         Good(c, r, info, s, d, cut), s # <<>>, EventIsFullyOwned(info, Head(s))
  PROVE  Good(c, r, RemoveTouchInfoForEndedTouches(info, Head(s)), Tail(s),
              Dispatch(d, Head(s), reaction), cut)
<1> DEFINE e == Head(s)  n == Len(s)  s2 == Tail(s)
           info2 == RemoveTouchInfoForEndedTouches(info, e)
           d2 == Dispatch(d, e, reaction)
<1>1. /\ s \in Seq(GateEvents) /\ info \in [Touches -> Ownerships \cup {"none"}]
      /\ AreKnown(info, s) /\ EndOnce(c, s) /\ EndComes(c, info, s)
      /\ GoesOn(c, info, s) /\ NoGaps(s) /\ BeginOnce(s)
  BY DEF Good, Stream
<1>2. /\ n \in Nat /\ n > 0 /\ Len(s2) = n - 1 /\ s2 \in Seq(GateEvents)
      /\ e = s[1] /\ e \in GateEvents /\ 1 \in 1..n
      /\ \A i \in 1..(n - 1) : i + 1 \in 1..n /\ s2[i] = s[i + 1]
      /\ \A i \in 2..n : i - 1 \in 1..(n - 1) /\ s2[i - 1] = s[i]
  BY <1>1, HeadTailProperties, LenProperties
<1>3. /\ info2 \in [Touches -> Ownerships \cup {"none"}]
      /\ \A t \in Touches : info2[t] = IF In(s, 1, t, "released") THEN "none" ELSE info[t]
  BY <1>1, <1>2 DEF RemoveTouchInfoForEndedTouches, In
<1>4. DOMAIN e \subseteq Touches /\ \A i \in 1..n : DOMAIN s[i] \subseteq Touches
  BY <1>1, <1>2, EventIs, ElementOfSeq
<1>5. Ongoing(info, s) = Before(e)
  BY <1>2, OngoingInOldest DEF Good
<1>6. \A i \in 1..(n - 1) : \A t, x : In(s2, i, t, x) <=> In(s, i + 1, t, x)
  BY <1>2 DEF In
<1>7. \A t \in DOMAIN e : info[t] = "OwnershipGranted"
  BY DEF EventIsFullyOwned, IsTouchPointOwned
<1>8. \A t \in DOMAIN e : e[t] = "pressed" => d.seen[t] = "none"
  BY <1>2, <1>4 DEF Good, Unsent, In
<1> HIDE DEF s2, e, info2, d2, n
<1>9. InStep(d2, After(e), cut) /\ \A t \in Touches : d2.seen[t] # d.seen[t] => t \in DOMAIN e
  BY <1>2, <1>5, <1>8, DispatchInStep DEF Good, d2
<1>10. AreKnown(info2, s2)
  <2> SUFFICES ASSUME NEW i \in 1..(n - 1), NEW t \in DOMAIN s2[i] PROVE info2[t] # "none"
    BY <1>2 DEF AreKnown
  <2>1. t \in DOMAIN s[i + 1] /\ i + 1 \in 1..n /\ i + 1 > 1
    BY <1>2
  <2>2. t \in Touches /\ info[t] # "none"
    BY <1>1, <1>4, <2>1 DEF AreKnown, n
  <2>3. ~In(s, 1, t, "released")
    BY <1>1, <1>2, <2>1, <2>2 DEF EndOnce, n
  <2> QED  BY <1>3, <2>2, <2>3
<1>11. EndOnce(c, s2)
  <2> SUFFICES ASSUME NEW i \in 1..(n - 1), NEW t \in Touches, In(s2, i, t, "released")
               PROVE  c[t] = "gone" /\ \A j \in 1..(n - 1) : j > i => t \notin DOMAIN s2[j]
    BY <1>2 DEF EndOnce
  <2>1. In(s, i + 1, t, "released") /\ i + 1 \in 1..n
    BY <1>2, <1>6
  <2>2. c[t] = "gone" /\ \A j \in 1..n : j > i + 1 => t \notin DOMAIN s[j]
    BY <1>1, <2>1 DEF EndOnce, n
  <2>3. ASSUME NEW j \in 1..(n - 1), j > i PROVE t \notin DOMAIN s2[j]
    <3>1. j + 1 \in 1..n /\ j + 1 > i + 1 /\ s2[j] = s[j + 1]
      BY <1>2, <2>3
    <3> QED  BY <2>2, <3>1
  <2> QED  BY <2>2, <2>3
<1>12. EndComes(c, info2, s2)
  <2> SUFFICES ASSUME NEW t \in Touches, info2[t] # "none", c[t] # "down"
               PROVE  \E i \in 1..(n - 1) : In(s2, i, t, "released")
    BY <1>2 DEF EndComes
  <2>1. info[t] # "none" /\ ~In(s, 1, t, "released")
    BY <1>3
  <2>2. PICK i \in 1..n : In(s, i, t, "released")
    BY <1>1, <2>1 DEF EndComes, n
  <2>3. i \in 2..n
    BY <1>2, <2>1, <2>2
  <2>4. i - 1 \in 1..(n - 1) /\ In(s2, i - 1, t, "released")
    BY <1>2, <2>2, <2>3 DEF In
  <2> QED  BY <2>4
<1>13. GoesOn(c, info2, s2)
  <2> SUFFICES ASSUME NEW t \in Touches, c[t] = "down", info2[t] # "none", n - 1 > 0
               PROVE  t \in DOMAIN s2[n - 1]
    BY <1>2 DEF GoesOn
  <2>1. t \in DOMAIN s[n]
    BY <1>1, <1>2, <1>3 DEF GoesOn, n
  <2> QED  BY <1>2, <2>1
<1>14. NoGaps(s2)
  <2> SUFFICES ASSUME NEW i \in 1..(n - 1), NEW j \in 1..(n - 1), NEW t \in Touches, i < j,
                      t \in DOMAIN s2[j], t \notin DOMAIN s2[i]
               PROVE  \E k \in 1..(n - 1) : i < k /\ k <= j /\ In(s2, k, t, "pressed")
    BY <1>2 DEF NoGaps
  <2>1. i + 1 \in 1..n /\ j + 1 \in 1..n /\ i + 1 < j + 1 /\ t \in DOMAIN s[j + 1] /\ t \notin DOMAIN s[i + 1]
    <3>1. s2[i] = s[i + 1] /\ s2[j] = s[j + 1] /\ i + 1 \in 1..n /\ j + 1 \in 1..n
      BY <1>2
    <3>2. i + 1 < j + 1
      OBVIOUS
    <3> QED  BY <3>1, <3>2
  <2>2. PICK k \in 1..n : i + 1 < k /\ k <= j + 1 /\ In(s, k, t, "pressed")
    BY <1>1, <2>1 DEF NoGaps, n
  <2>3. k - 1 \in 1..(n - 1) /\ i < k - 1 /\ k - 1 <= j /\ s2[k - 1] = s[k]
    BY <1>2, <2>2
  <2>4. In(s2, k - 1, t, "pressed")
    BY <2>2, <2>3 DEF In
  <2> QED  BY <2>3, <2>4
<1>15. BeginOnce(s2) /\ Unsent(s2, d2)
  <2> SUFFICES ASSUME NEW i \in 1..(n - 1), NEW t \in Touches, In(s2, i, t, "pressed")
               PROVE  /\ d2.seen[t] = "none"
                      /\ \A k \in 1..(n - 1) : k < i => t \notin DOMAIN s2[k]
    BY <1>2 DEF BeginOnce, Unsent
  <2>1. In(s, i + 1, t, "pressed") /\ i + 1 \in 1..n /\ 1 < i + 1
    BY <1>2, <1>6
  <2>2. \A k \in 1..n : k < i + 1 => t \notin DOMAIN s[k]
    BY <1>1, <2>1 DEF BeginOnce, n
  <2>3. d.seen[t] = "none" /\ t \notin DOMAIN e
    BY <1>2, <2>1, <2>2 DEF Good, Unsent, n
  <2>4. ASSUME NEW k \in 1..(n - 1), k < i PROVE t \notin DOMAIN s2[k]
    <3>1. k + 1 \in 1..n /\ k + 1 < i + 1 /\ s2[k] = s[k + 1]
      BY <1>2, <2>4
    <3> QED  BY <2>2, <3>1
  <2> QED  BY <1>9, <2>3, <2>4
<1>16. Ongoing(info2, s2) = After(e)
  <2>1. ASSUME NEW t \in Ongoing(info2, s2) PROVE t \in After(e)
    <3>1. t \in Touches /\ info[t] # "none" /\ ~In(s, 1, t, "released")
          /\ \A i \in 1..(n - 1) : ~In(s2, i, t, "pressed")
      BY <1>2, <1>3, <2>1 DEF Ongoing
    <3>2. t \in DOMAIN e
      <4>1. CASE t \in Ongoing(info, s)
        BY <1>5, <4>1 DEF Before
      <4>2. CASE t \notin Ongoing(info, s)
        <5>1. PICK i \in 1..n : In(s, i, t, "pressed")
          BY <3>1, <4>2 DEF Ongoing, n
        <5>2. i = 1
          <6>1. i \in 2..n => In(s2, i - 1, t, "pressed")
            BY <1>2, <5>1 DEF In
          <6> QED  BY <1>2, <3>1, <6>1
        <5> QED  BY <1>2, <5>1, <5>2 DEF In
      <4> QED  BY <4>1, <4>2
    <3> QED  BY <1>2, <3>1, <3>2 DEF After, In
  <2>2. ASSUME NEW t \in After(e) PROVE t \in Ongoing(info2, s2)
    <3>1. t \in DOMAIN s[1] /\ t \in Touches /\ ~In(s, 1, t, "released")
      BY <1>2, <1>4, <2>2 DEF After, In
    <3>2. info2[t] # "none"
      BY <1>1, <1>2, <1>3, <3>1 DEF AreKnown, n
    <3>3. ASSUME NEW i \in 1..(n - 1), In(s2, i, t, "pressed") PROVE FALSE
      <4>1. In(s, i + 1, t, "pressed") /\ i + 1 \in 1..n /\ 1 < i + 1
        BY <1>2, <1>6, <3>3
      <4> QED  BY <1>1, <1>2, <3>1, <4>1 DEF BeginOnce, n
    <3> QED  BY <1>2, <3>1, <3>2, <3>3 DEF Ongoing
  <2> QED  BY <2>1, <2>2
<1>17. \A t \in After(e) : IsTouchPointOwned(info2, t)
  BY <1>2, <1>3, <1>4, <1>7 DEF After, In, IsTouchPointOwned
<1>18. Entitled(c, r, info2, d2)
  <2> SUFFICES ASSUME NEW t \in Touches
               PROVE  /\ c[t] = "new" => r[t] = "none" /\ info2[t] = "none" /\ d2.seen[t] = "none"
                      /\ info2[t] = "OwnershipGranted" => r[t] = "granted"
                      /\ info2[t] = "OwnershipRequested" => r[t] = "asked"
                      /\ d2.seen[t] # "none" => r[t] = "granted"
    BY DEF Entitled
  <2>1. /\ c[t] = "new" => r[t] = "none" /\ info[t] = "none" /\ d.seen[t] = "none"
        /\ info[t] = "OwnershipGranted" => r[t] = "granted"
        /\ info[t] = "OwnershipRequested" => r[t] = "asked"
        /\ d.seen[t] # "none" => r[t] = "granted"
    BY DEF Good, Entitled
  <2>2. t \in DOMAIN e => info[t] = "OwnershipGranted"
    BY <1>7
  <2>3. t \notin DOMAIN e => d2.seen[t] = d.seen[t]
    BY <1>9
  <2>4. info2[t] # "none" => info2[t] = info[t]
    BY <1>3
  <2> QED  BY <2>1, <2>2, <2>3, <2>4
<1>19. Stream(c, info2, s2)
  BY <1>2, <1>3, <1>10, <1>11, <1>12, <1>13, <1>14, <1>15 DEF Stream
<1> QED  BY <1>9, <1>15, <1>16, <1>17, <1>18, <1>19 DEF Good, s2, info2, d2, e
LEMMA LeastNumber ==
  ASSUME NEW T, T \subseteq Nat, T # {}
  PROVE  \E x \in T : \A y \in T : x <= y
<1>1. PICK x \in T : \A y \in T : <<y, x>> \notin OpToRel(<, Nat)
  BY NatLessThanWellFounded, WFMin
<1>2. ASSUME NEW y \in T, y < x PROVE FALSE
  BY <1>1, <1>2 DEF OpToRel
<1> QED  BY <1>2

\* The states the gate goes through when it dispatches stored events exist.
Dispatching(f, N, a, reaction) ==
  f = [n \in 0..N |-> IF n = 0 THEN a ELSE DispatchOldest(f[n - 1], reaction)]

LEMMA DispatchingExists ==
  ASSUME NEW a, NEW reaction, NEW N \in Nat
  PROVE  \E f : Dispatching(f, N, a, reaction)
<1> DEFINE T == {k \in Nat : ~\E f : Dispatching(f, k, a, reaction)}
<1> SUFFICES ASSUME T # {} PROVE FALSE
  OBVIOUS
<1>1. PICK m \in T : \A k \in T : m <= k
  BY LeastNumber
<1>2. CASE m = 0
  <2> DEFINE f == [n \in 0..0 |-> a]
  <2>1. \A n \in 0..0 : n = 0
    OBVIOUS
  <2>2. Dispatching(f, 0, a, reaction)
    BY <2>1 DEF Dispatching
  <2> QED  BY <1>2, <2>2
<1>3. CASE m # 0
  <2>1. m - 1 \in Nat /\ m - 1 \notin T
    BY <1>1, <1>3
  <2>2. PICK f : Dispatching(f, m - 1, a, reaction)
    BY <2>1
  <2> DEFINE g == [n \in 0..m |-> IF n = m THEN DispatchOldest(f[m - 1], reaction) ELSE f[n]]
             h == [n \in 0..m |-> IF n = 0 THEN a ELSE DispatchOldest(g[n - 1], reaction)]
  <2>3. ASSUME NEW n \in 0..m PROVE g[n] = h[n]
    <3>1. \A k \in 0..(m - 1) : f[k] = IF k = 0 THEN a ELSE DispatchOldest(f[k - 1], reaction)
      BY <2>2 DEF Dispatching
    <3>2. CASE n = m
      <4>1. m - 1 \in 0..m /\ m - 1 # m
        BY <2>1
      <4> QED  BY <1>3, <3>2, <4>1
    <3>3. CASE n # m
      <4>1. n \in 0..(m - 1) /\ (n # 0 => n - 1 \in 0..m /\ n - 1 # m)
        BY <2>1, <3>3
      <4> QED  BY <3>1, <3>3, <4>1
    <3> QED  BY <3>2, <3>3
  <2>4. g = h
    BY <2>3
  <2>5. Dispatching(g, m, a, reaction)
    BY <2>4 DEF Dispatching
  <2> QED  BY <2>5
<1> QED  BY <1>2, <1>3

\* Where the gate stops, it has reason to.
Blocked(info, s) == s # <<>> => ~EventIsFullyOwned(info, Head(s))

LEMMA FullyOwnedDispatched ==
  ASSUME NEW c, NEW r, NEW info, NEW s, NEW cut, NEW reaction,
         Good(c, r, info, s, dispatcher, cut)
  PROVE  LET result == DispatchFullyOwnedEvents(info, s, reaction)
         IN  /\ Good(c, r, result.info, result.stored, result.dispatcher, cut)
             /\ Blocked(result.info, result.stored)
<1> DEFINE N == Len(s)
           a == [info |-> info, stored |-> s, dispatcher |-> dispatcher]
           f == CHOOSE g : Dispatching(g, N, a, reaction)
<1>1. N \in Nat /\ s \in Seq(GateEvents)
  BY LenProperties DEF Good, Stream
<1>2. Dispatching(f, N, a, reaction)
  BY <1>1, DispatchingExists
<1>3. DispatchFullyOwnedEvents(info, s, reaction) = f[N]
  BY DEF DispatchFullyOwnedEvents, Dispatching
<1> HIDE DEF f, a
<1>4. f[0] = a /\ \A n \in 0..N : n # 0 => f[n] = DispatchOldest(f[n - 1], reaction)
  BY <1>1, <1>2 DEF Dispatching
<1> DEFINE Right(n) == /\ Good(c, r, f[n].info, f[n].stored, f[n].dispatcher, cut)
                       /\ Blocked(f[n].info, f[n].stored) \/ Len(f[n].stored) = N - n
           T == {k \in 0..N : ~Right(k)}
<1>5. Right(0)
  <2>1. a.info = info /\ a.stored = s /\ a.dispatcher = dispatcher
    BY DEF a
  <2> QED  BY <1>1, <1>4, <2>1
<1>6. ASSUME NEW n \in 0..N, n # 0, Right(n - 1) PROVE Right(n)
  <2> DEFINE p == f[n - 1]
  <2>1. f[n] = DispatchOldest(p, reaction)
    BY <1>4, <1>6
  <2>2. Good(c, r, p.info, p.stored, p.dispatcher, cut)
    BY <1>6
  <2>3. Blocked(p.info, p.stored) \/ Len(p.stored) = N - (n - 1)
    BY <1>6
  <2>4. p.stored \in Seq(GateEvents)
    BY <2>2 DEF Good, Stream
  <2> HIDE DEF p
  <2>5. CASE p.stored = <<>> \/ ~EventIsFullyOwned(p.info, Head(p.stored))
    <3>1. f[n] = p
      BY <2>1, <2>5 DEF DispatchOldest
    <3> QED  BY <2>2, <2>5, <3>1 DEF Blocked
  <2>6. CASE ~(p.stored = <<>> \/ ~EventIsFullyOwned(p.info, Head(p.stored)))
    <3>1. /\ f[n].info = RemoveTouchInfoForEndedTouches(p.info, Head(p.stored))
          /\ f[n].stored = Tail(p.stored)
          /\ f[n].dispatcher = Dispatch(p.dispatcher, Head(p.stored), reaction)
      BY <2>1, <2>6 DEF DispatchOldest
    <3>2. Good(c, r, f[n].info, f[n].stored, f[n].dispatcher, cut)
      BY <2>2, <2>6, <3>1, OldestDispatched
    <3>3. Len(p.stored) = N - (n - 1)
      BY <2>3, <2>6 DEF Blocked
    <3>4. Len(Tail(p.stored)) = Len(p.stored) - 1
      BY <2>4, <2>6, HeadTailProperties
    <3>5. Len(f[n].stored) = N - n
      BY <1>1, <3>1, <3>3, <3>4
    <3> QED  BY <3>2, <3>5
  <2> QED  BY <2>5, <2>6
<1>7. T = {}
  <2> SUFFICES ASSUME T # {} PROVE FALSE
    OBVIOUS
  <2>1. T \subseteq Nat
    BY <1>1
  <2> HIDE DEF Right
  <2>2. PICK m \in T : \A k \in T : m <= k
    BY <2>1, LeastNumber
  <2>3. m # 0
    BY <1>5, <2>2
  <2>4. m \in 0..N /\ m - 1 \in 0..N /\ m - 1 \notin T
    BY <1>1, <2>2, <2>3
  <2> QED  BY <1>6, <2>2, <2>3, <2>4
<1>8. Right(N)
  <2> HIDE DEF Right
  <2> QED  BY <1>1, <1>7
<1>9. f[N].stored \in Seq(GateEvents)
  BY <1>8 DEF Good, Stream
<1>10. Len(f[N].stored) = 0 => f[N].stored = <<>>
  BY <1>9, EmptySeq
<1>11. Blocked(f[N].info, f[N].stored)
  BY <1>1, <1>8, <1>10 DEF Blocked
<1> QED  BY <1>3, <1>8, <1>11
-----------------------------------------------------------------------------
(***************************************************************************)
(* touchEvent(): c2, r2 and info2 are what contacts, registry and gate are *)
(* with the touches P pressed, R released and G of P granted at once, and  *)
(* v the event of touches the gate knows.                                  *)
(***************************************************************************)
Contacts(c) == c \in [Touches -> {"new", "down", "gone"}]

Arrives(c, r, info, P, R, G, c2, r2, info2, v) ==
  /\ P \subseteq {t \in Touches : c[t] = "new"} /\ R \subseteq {t \in Touches : c[t] = "down"}
  /\ G \subseteq P
  /\ \A t \in Touches :
       /\ c2[t] = IF t \in P THEN "down" ELSE IF t \in R THEN "gone" ELSE c[t]
       /\ r2[t] = IF t \in G THEN "granted" ELSE IF t \in P THEN "asked" ELSE r[t]
       /\ info2[t] = IF t \in G THEN "OwnershipGranted"
                     ELSE IF t \in P THEN "OwnershipRequested" ELSE info[t]
  /\ info2 \in [Touches -> Ownerships \cup {"none"}]
  /\ DOMAIN v = {t \in Touches : (c[t] = "down" \/ t \in P) /\ info2[t] # "none"}
  /\ \A t \in DOMAIN v :
       v[t] = IF t \in P THEN "pressed" ELSE IF t \in R THEN "released" ELSE "moved"
  /\ v \in [DOMAIN v -> States]

\* No touch of the event is known: nothing is stored.
LEMMA UnknownArrives ==
  ASSUME NEW c, NEW r, NEW info, NEW s, NEW d, NEW cut, Contacts(c),
         NEW P, NEW R, NEW G, NEW c2, NEW r2, NEW info2, NEW v,
         Good(c, r, info, s, d, cut), Arrives(c, r, info, P, R, G, c2, r2, info2, v),
         DOMAIN v = {}
  PROVE  Good(c2, r2, info2, s, d, cut) /\ info2 = info
<1>1. P = {}
  BY DEF Arrives
<1>2. \A t \in Touches : r2[t] = r[t] /\ info2[t] = info[t]
  BY <1>1 DEF Arrives
<1>3. info2 = info
  BY <1>2 DEF Arrives, Good, Stream
<1>4. \A t \in Touches : c[t] = "down" => info[t] = "none"
  BY <1>2 DEF Arrives
<1>5. \A t \in Touches : /\ c[t] # "down" => c2[t] = c[t]
                         /\ c2[t] \in {"new", "down"} => c2[t] = c[t]
  BY <1>1 DEF Arrives
<1>6. Entitled(c2, r2, info, d)
  BY <1>2, <1>5 DEF Good, Entitled
<1>7. EndOnce(c2, s)
  BY <1>5 DEF Good, Stream, EndOnce
<1>8. EndComes(c2, info, s)
  BY <1>4, <1>5 DEF Good, Stream, EndComes
<1>9. GoesOn(c2, info, s)
  BY <1>4, <1>5 DEF Good, Stream, GoesOn
<1> QED  BY <1>3, <1>6, <1>7, <1>8, <1>9 DEF Good, Stream

\* It is the latest event.
LEMMA KnownArrives ==
  ASSUME NEW c, NEW r, NEW info, NEW s, NEW d, NEW cut, Contacts(c),
         NEW P, NEW R, NEW G, NEW c2, NEW r2, NEW info2, NEW v,
         Good(c, r, info, s, d, cut), Arrives(c, r, info, P, R, G, c2, r2, info2, v),
         DOMAIN v # {}
  PROVE  Good(c2, r2, info2, Append(s, v), d, cut) /\ v \in GateEvents
<1> DEFINE n == Len(s)  q == Append(s, v)
<1>1. /\ s \in Seq(GateEvents) /\ info \in [Touches -> Ownerships \cup {"none"}]
      /\ AreKnown(info, s) /\ EndOnce(c, s) /\ EndComes(c, info, s)
      /\ GoesOn(c, info, s) /\ NoGaps(s) /\ BeginOnce(s)
      /\ Unsent(s, d) /\ Entitled(c, r, info, d)
  BY DEF Good, Stream
<1>2. DOMAIN v \subseteq Touches
  BY DEF Arrives
<1>3. v \in GateEvents
  BY <1>2, IsEvent DEF Arrives
<1>4. /\ n \in Nat /\ Len(q) = n + 1 /\ q \in Seq(GateEvents) /\ q[n + 1] = v
      /\ n + 1 \in 1..(n + 1)
      /\ \A i \in 1..n : q[i] = s[i] /\ DOMAIN s[i] \subseteq Touches
      /\ \A i \in 1..(n + 1) : i = n + 1 \/ (i \in 1..n /\ i < n + 1)
      /\ 1..n \subseteq 1..(n + 1)
  <2>1. \A i \in 1..n : DOMAIN s[i] \subseteq Touches
    BY <1>1, EventIs, ElementOfSeq
  <2> QED  BY <1>1, <1>3, <2>1, AppendProperties, LenProperties
<1> HIDE DEF q, n
<1>5. \A t, x : /\ \A i \in 1..n : In(q, i, t, x) <=> In(s, i, t, x)
                /\ In(q, n + 1, t, x) <=> t \in DOMAIN v /\ v[t] = x
  BY <1>4 DEF In
<1>6. \A t \in Touches : /\ t \in P => c[t] = "new" /\ info[t] = "none" /\ info2[t] # "none"
                         /\ t \notin P => info2[t] = info[t] /\ r2[t] = r[t]
                         /\ info[t] # "none" => info2[t] = info[t] /\ t \notin P
  BY <1>1 DEF Arrives, Entitled
<1>7. \A t \in Touches : /\ t \in DOMAIN v <=> (c[t] = "down" \/ t \in P) /\ info2[t] # "none"
                         /\ t \in DOMAIN v /\ v[t] = "pressed" <=> t \in P
                         /\ t \in DOMAIN v /\ v[t] = "released" <=> t \in R /\ info[t] # "none"
  BY <1>6 DEF Arrives
<1>8. \A t \in Touches : /\ c2[t] = IF t \in P THEN "down" ELSE IF t \in R THEN "gone" ELSE c[t]
                         /\ t \in R => c[t] = "down"
  BY DEF Arrives
<1>9. \A i \in 1..n : \A t \in DOMAIN s[i] : info[t] # "none"
  BY <1>1 DEF AreKnown, n
<1>10. AreKnown(info2, q)
  <2>1. ASSUME NEW i \in 1..n, NEW t \in DOMAIN q[i] PROVE info2[t] # "none"
    BY <1>4, <1>6, <1>9, <2>1
  <2>2. ASSUME NEW t \in DOMAIN v PROVE info2[t] # "none"
    BY <1>2, <1>7, <2>2
  <2> QED  BY <1>4, <2>1, <2>2 DEF AreKnown
<1>11. EndOnce(c2, q)
  <2>1. ASSUME NEW i \in 1..n, NEW t \in Touches, In(s, i, t, "released")
        PROVE  c2[t] = "gone" /\ \A j \in 1..(n + 1) : j > i => t \notin DOMAIN q[j]
    <3>1. c[t] = "gone" /\ \A j \in 1..n : j > i => t \notin DOMAIN s[j]
      BY <1>1, <2>1 DEF EndOnce, n
    <3>2. t \notin P /\ t \notin R /\ t \notin DOMAIN v
      BY <1>6, <1>7, <1>8, <3>1
    <3>3. c2[t] = "gone"
      BY <1>8, <3>1, <3>2
    <3> QED  BY <1>4, <3>1, <3>2, <3>3
  <2>2. ASSUME NEW t \in Touches, In(q, n + 1, t, "released")
        PROVE  c2[t] = "gone" /\ \A j \in 1..(n + 1) : ~(j > n + 1)
    <3>1. t \in R /\ t \notin P
      BY <1>5, <1>6, <1>7, <1>8, <2>2
    <3> QED  BY <1>4, <1>8, <3>1
  <2>3. ASSUME NEW i \in 1..(n + 1), NEW t \in Touches, In(q, i, t, "released")
        PROVE  c2[t] = "gone" /\ \A j \in 1..(n + 1) : j > i => t \notin DOMAIN q[j]
    <3>1. CASE i \in 1..n
      BY <1>5, <2>1, <2>3, <3>1
    <3>2. CASE i = n + 1
      BY <2>2, <2>3, <3>2
    <3> QED  BY <1>4, <3>1, <3>2
  <2> QED  BY <1>4, <2>3 DEF EndOnce
<1>12. EndComes(c2, info2, q)
  <2> SUFFICES ASSUME NEW t \in Touches, info2[t] # "none", c2[t] # "down"
               PROVE  \E i \in 1..(n + 1) : In(q, i, t, "released")
    BY <1>4 DEF EndComes
  <2>1. t \notin P /\ info[t] # "none"
    BY <1>6, <1>8
  <2>2. CASE c[t] = "down"
    <3>1. t \in R
      BY <1>8, <2>1, <2>2
    <3>2. In(q, n + 1, t, "released")
      BY <1>5, <1>7, <2>1, <3>1
    <3> QED  BY <1>4, <3>2
  <2>3. CASE c[t] # "down"
    <3>1. PICK i \in 1..n : In(s, i, t, "released")
      BY <1>1, <2>1, <2>3 DEF EndComes, n
    <3> QED  BY <1>4, <1>5, <3>1
  <2> QED  BY <2>2, <2>3
<1>13. GoesOn(c2, info2, q)
  BY <1>4, <1>7, <1>8 DEF GoesOn
<1>14. NoGaps(q)
  <2> SUFFICES ASSUME NEW i \in 1..(n + 1), NEW j \in 1..(n + 1), NEW t \in Touches, i < j,
                      t \in DOMAIN q[j], t \notin DOMAIN q[i]
               PROVE  \E k \in 1..(n + 1) : i < k /\ k <= j /\ In(q, k, t, "pressed")
    BY <1>4 DEF NoGaps
  <2>1. i \in 1..n
    BY <1>4
  <2>2. ASSUME NEW m \in 1..n, i < m, m <= j, t \in DOMAIN s[m]
        PROVE  \E k \in 1..(n + 1) : i < k /\ k <= j /\ In(q, k, t, "pressed")
    <3>1. PICK k \in 1..n : i < k /\ k <= m /\ In(s, k, t, "pressed")
      BY <1>1, <1>4, <2>1, <2>2 DEF NoGaps, n
    <3>2. k \in 1..(n + 1) /\ i < k /\ k <= j
      BY <1>4, <2>2, <3>1
    <3> QED  BY <1>5, <3>1, <3>2
  <2>3. CASE j \in 1..n
    <3>1. j <= j /\ t \in DOMAIN s[j]
      BY <1>4, <2>3
    <3> QED  BY <2>2, <2>3, <3>1
  <2>4. CASE j = n + 1 /\ t \in P
    <3>1. In(q, n + 1, t, "pressed")
      BY <1>5, <1>7, <2>4
    <3>2. j <= j
      OBVIOUS
    <3> QED  BY <2>4, <3>1, <3>2
  <2>5. CASE j = n + 1 /\ t \notin P
    <3>1. c[t] = "down" /\ info[t] # "none"
      BY <1>4, <1>6, <1>7, <2>5
    <3>2. n > 0 /\ n \in 1..n
      BY <1>4, <2>1
    <3>3. t \in DOMAIN s[n]
      BY <1>1, <3>1, <3>2 DEF GoesOn, n
    <3>4. i # n /\ i < n /\ n <= j
      <4>1. i # n
        BY <1>4, <2>1, <3>3
      <4> QED  BY <1>4, <2>1, <2>5, <4>1
    <3> QED  BY <2>2, <3>2, <3>3, <3>4
  <2> QED  BY <1>4, <2>3, <2>4, <2>5
<1>15. BeginOnce(q) /\ Unsent(q, d)
  <2> SUFFICES ASSUME NEW i \in 1..(n + 1), NEW t \in Touches, In(q, i, t, "pressed")
               PROVE  /\ d.seen[t] = "none"
                      /\ \A k \in 1..(n + 1) : k < i => t \notin DOMAIN q[k]
    BY <1>4 DEF BeginOnce, Unsent
  <2>1. CASE i \in 1..n
    <3>1. In(s, i, t, "pressed")
      BY <1>5, <2>1
    <3>2. d.seen[t] = "none" /\ \A k \in 1..n : k < i => t \notin DOMAIN s[k]
      BY <1>1, <2>1, <3>1 DEF BeginOnce, Unsent, n
    <3>3. \A k \in 1..(n + 1) : k < i => k \in 1..n
      BY <1>4, <2>1
    <3> QED  BY <1>4, <3>2, <3>3
  <2>2. CASE i = n + 1
    <3>1. t \in P
      BY <1>5, <1>7, <2>2
    <3>2. c[t] = "new" /\ info[t] = "none"
      BY <1>6, <3>1
    <3>3. d.seen[t] = "none"
      BY <1>1, <3>2 DEF Entitled
    <3>4. \A k \in 1..n : t \notin DOMAIN q[k]
      BY <1>4, <1>9, <3>2
    <3> QED  BY <1>4, <2>2, <3>3, <3>4
  <2> QED  BY <1>4, <2>1, <2>2
<1>16. Entitled(c2, r2, info2, d)
  <2> SUFFICES ASSUME NEW t \in Touches
               PROVE  /\ c2[t] = "new" => r2[t] = "none" /\ info2[t] = "none" /\ d.seen[t] = "none"
                      /\ info2[t] = "OwnershipGranted" => r2[t] = "granted"
                      /\ info2[t] = "OwnershipRequested" => r2[t] = "asked"
                      /\ d.seen[t] # "none" => r2[t] = "granted"
    BY DEF Entitled
  <2>1. /\ c[t] = "new" => r[t] = "none" /\ info[t] = "none" /\ d.seen[t] = "none"
        /\ info[t] = "OwnershipGranted" => r[t] = "granted"
        /\ info[t] = "OwnershipRequested" => r[t] = "asked"
        /\ d.seen[t] # "none" => r[t] = "granted"
    BY <1>1 DEF Entitled
  <2>2. CASE t \in P
    BY <1>6, <2>1, <2>2 DEF Arrives
  <2>3. CASE t \notin P
    <3>1. info2[t] = info[t] /\ r2[t] = r[t] /\ (c2[t] = "new" => c[t] = "new")
      BY <1>6, <1>8, <2>3
    <3> QED  BY <2>1, <3>1
  <2> QED  BY <2>2, <2>3
<1>17. Ongoing(info2, q) = Ongoing(info, s)
  <2>1. ASSUME NEW t \in Touches PROVE t \in Ongoing(info2, q) <=> t \in Ongoing(info, s)
    <3>1. CASE t \in P
      <4>1. In(q, n + 1, t, "pressed")
        BY <1>5, <1>7, <3>1
      <4> QED  BY <1>4, <1>6, <3>1, <4>1 DEF Ongoing
    <3>2. CASE t \notin P
      <4>1. info2[t] = info[t] /\ ~In(q, n + 1, t, "pressed")
        BY <1>5, <1>6, <1>7, <3>2
      <4>2. (\A i \in 1..(n + 1) : ~In(q, i, t, "pressed")) <=> \A i \in 1..n : ~In(s, i, t, "pressed")
        BY <1>4, <1>5, <4>1
      <4> QED  BY <1>4, <4>1, <4>2 DEF Ongoing, n
    <3> QED  BY <3>1, <3>2
  <2> QED  BY <2>1 DEF Ongoing
<1>18. \A t \in Ongoing(info, s) : IsTouchPointOwned(info2, t)
  BY <1>6 DEF Good, Ongoing, IsTouchPointOwned
<1>19. info2 \in [Touches -> Ownerships \cup {"none"}]
  BY DEF Arrives
<1>20. Stream(c2, info2, q)
  BY <1>4, <1>10, <1>11, <1>12, <1>13, <1>14, <1>15, <1>19 DEF Stream
<1> QED  BY <1>3, <1>15, <1>16, <1>17, <1>18, <1>20 DEF Good, q

-----------------------------------------------------------------------------
(***************************************************************************)
(* A touch that is lost is cut out of stored events: what is left is s     *)
(* without the touch, and h says where each event was.                     *)
(***************************************************************************)
Keeping(f, N, s, t) ==
  f = [n \in 0..N |->
         IF n = 0 THEN <<>>
         ELSE IF DOMAIN s[n] \subseteq {t} THEN f[n - 1]
         ELSE Append(f[n - 1], EventWithout(s[n], t))]

LEMMA KeepingExists ==
  ASSUME NEW s, NEW t, NEW N \in Nat
  PROVE  \E f : Keeping(f, N, s, t)
<1> DEFINE T == {k \in Nat : ~\E f : Keeping(f, k, s, t)}
           Next(a, n) == IF DOMAIN s[n] \subseteq {t} THEN a ELSE Append(a, EventWithout(s[n], t))
<1> SUFFICES ASSUME T # {} PROVE FALSE
  OBVIOUS
<1>1. PICK m \in T : \A k \in T : m <= k
  BY LeastNumber
<1>2. CASE m = 0
  <2> DEFINE f == [n \in 0..0 |-> <<>>]
  <2>1. \A n \in 0..0 : n = 0
    OBVIOUS
  <2>2. Keeping(f, 0, s, t)
    BY <2>1 DEF Keeping
  <2> QED  BY <1>2, <2>2
<1>3. CASE m # 0
  <2>1. m - 1 \in Nat /\ m - 1 \notin T
    BY <1>1, <1>3
  <2>2. PICK f : Keeping(f, m - 1, s, t)
    BY <2>1
  <2> DEFINE g == [n \in 0..m |-> IF n = m THEN Next(f[m - 1], m) ELSE f[n]]
             h == [n \in 0..m |-> IF n = 0 THEN <<>> ELSE Next(g[n - 1], n)]
  <2>3. \A k \in 0..(m - 1) : f[k] = IF k = 0 THEN <<>> ELSE Next(f[k - 1], k)
    BY <2>2 DEF Keeping
  <2>4. ASSUME NEW n \in 0..m PROVE g[n] = h[n]
    <3> HIDE DEF Next
    <3>1. CASE n = m
      <4>1. m - 1 \in 0..m /\ m - 1 # m
        BY <2>1
      <4> QED  BY <1>3, <3>1, <4>1
    <3>2. CASE n # m
      <4>1. n \in 0..(m - 1) /\ (n # 0 => n - 1 \in 0..m /\ n - 1 # m)
        BY <2>1, <3>2
      <4> QED  BY <2>3, <3>2, <4>1
    <3> QED  BY <3>1, <3>2
  <2>5. g = h
    <3> HIDE DEF Next
    <3> QED  BY <2>4
  <2>6. Keeping(g, m, s, t)
    BY <2>5 DEF Keeping
  <2> QED  BY <2>6
<1> QED  BY <1>2, <1>3

\* q is what is left of the first n events of s without t.
Left(q, n, s, t, h) ==
  /\ q \in Seq(GateEvents) /\ h \in [1..Len(q) -> 1..n]
  /\ \A k, l \in 1..Len(q) : k < l => h[k] < h[l]
  /\ \A k \in 1..Len(q) : q[k] = EventWithout(s[h[k]], t)
  /\ \A i \in 1..n : (\E u \in DOMAIN s[i] : u # t) => \E k \in 1..Len(q) : h[k] = i

LEMMA EventWithoutIs ==
  ASSUME NEW e \in GateEvents, NEW t
  PROVE  /\ DOMAIN EventWithout(e, t) = DOMAIN e \ {t}
         /\ \A u \in DOMAIN e \ {t} : EventWithout(e, t)[u] = e[u]
         /\ ~(DOMAIN e \subseteq {t}) => EventWithout(e, t) \in GateEvents
<1> DEFINE D == DOMAIN e \ {t}  w == EventWithout(e, t)
<1>1. w = [u \in D |-> e[u]]
  <2>1. DOMAIN e \cap (DOMAIN e \ {t}) = D
    OBVIOUS
  <2> QED  BY <2>1 DEF EventWithout, Only
<1>2. \A u \in D : e[u] \in States
  BY EventIs
<1>3. w \in [D -> States]
  BY <1>1, <1>2
<1>4. D \subseteq Touches
  BY EventIs
<1>5. ~(DOMAIN e \subseteq {t}) => D # {}
  OBVIOUS
<1>6. ~(DOMAIN e \subseteq {t}) => w \in GateEvents
  BY <1>3, <1>4, <1>5, IsEvent
<1> QED  BY <1>1, <1>6

LEMMA LostTouchIsCut ==
  ASSUME NEW s \in Seq(GateEvents), NEW t
  PROVE  \E h : Left(RemoveTouchFromStoredEvents(s, t), Len(s), s, t, h)
<1> DEFINE N == Len(s)
           f == CHOOSE g : Keeping(g, N, s, t)
<1>1. N \in Nat
  BY LenProperties
<1>2. Keeping(f, N, s, t)
  BY <1>1, KeepingExists
<1>3. RemoveTouchFromStoredEvents(s, t) = f[N]
  BY DEF RemoveTouchFromStoredEvents, Keeping
<1> HIDE DEF f
<1>4. /\ f[0] = <<>>
      /\ \A n \in 1..N : f[n] = IF DOMAIN s[n] \subseteq {t} THEN f[n - 1]
                                ELSE Append(f[n - 1], EventWithout(s[n], t))
  <2> DEFINE Step(n) == IF DOMAIN s[n] \subseteq {t} THEN f[n - 1]
                        ELSE Append(f[n - 1], EventWithout(s[n], t))
  <2>1. f = [n \in 0..N |-> IF n = 0 THEN <<>> ELSE Step(n)]
    BY <1>2 DEF Keeping
  <2>2. \A n \in 1..N : n \in 0..N /\ n # 0
    BY <1>1
  <2> HIDE DEF Step
  <2>3. f[0] = <<>> /\ \A n \in 1..N : f[n] = Step(n)
    BY <1>1, <2>1, <2>2
  <2> QED  BY <2>3 DEF Step
<1> DEFINE Cut(n) == \E h : Left(f[n], n, s, t, h)
           T == {k \in 0..N : ~Cut(k)}
<1>5. Cut(0)
  <2>1. <<>> \in Seq(GateEvents) /\ Len(<<>>) = 0
    OBVIOUS
  <2>2. <<>> \in [1..0 -> 1..0]
    OBVIOUS
  <2>3. Left(<<>>, 0, s, t, <<>>)
    BY <2>1, <2>2 DEF Left
  <2> QED  BY <1>4, <2>3
<1>6. ASSUME NEW n \in 1..N, Cut(n - 1) PROVE Cut(n)
  <2> DEFINE p == f[n - 1]  L == Len(p)  e == s[n]
  <2>1. PICK h : Left(p, n - 1, s, t, h)
    BY <1>6
  <2>2. /\ p \in Seq(GateEvents) /\ h \in [1..L -> 1..(n - 1)]
        /\ \A k, l \in 1..L : k < l => h[k] < h[l]
        /\ \A k \in 1..L : p[k] = EventWithout(s[h[k]], t)
        /\ \A i \in 1..(n - 1) : (\E u \in DOMAIN s[i] : u # t) => \E k \in 1..L : h[k] = i
    BY <2>1 DEF Left
  <2>3. f[n] = IF DOMAIN e \subseteq {t} THEN p ELSE Append(p, EventWithout(e, t))
    BY <1>4
  <2>4. e \in GateEvents /\ L \in Nat
    BY <2>2, ElementOfSeq, LenProperties
  <2>5. n \in Nat /\ n > 0 /\ n \in 1..n /\ 1..(n - 1) \subseteq 1..n /\ \A i \in 1..n : i = n \/ i \in 1..(n - 1)
    BY <1>1
  <2> HIDE DEF p, e
  <2>6. CASE DOMAIN e \subseteq {t}
    <3>1. h \in [1..L -> 1..n]
      BY <2>2, <2>5
    <3>2. \A i \in 1..n : (\E u \in DOMAIN s[i] : u # t) => \E k \in 1..L : h[k] = i
      BY <2>2, <2>5, <2>6 DEF e
    <3>3. Left(p, n, s, t, h)
      BY <2>2, <3>1, <3>2 DEF Left
    <3> QED  BY <2>3, <2>6, <3>3
  <2>7. CASE ~(DOMAIN e \subseteq {t})
    <3> DEFINE w == EventWithout(e, t)  q == Append(p, w)
               h2 == [k \in 1..(L + 1) |-> IF k = L + 1 THEN n ELSE h[k]]
    <3>1. w \in GateEvents
      BY <2>4, <2>7, EventWithoutIs
    <3> HIDE DEF w
    <3>2. /\ q \in Seq(GateEvents) /\ Len(q) = L + 1 /\ q[L + 1] = w
          /\ \A k \in 1..L : q[k] = p[k]
      BY <2>2, <3>1, AppendProperties
    <3> HIDE DEF q, L
    <3>3. \A k \in 1..(L + 1) : k = L + 1 \/ k \in 1..L
      BY <2>4
    <3>4. \A k \in 1..L : h2[k] = h[k] /\ h[k] \in 1..(n - 1) /\ h[k] \in 1..n /\ h[k] < n /\ k \in 1..(L + 1)
      BY <2>2, <2>4, <2>5
    <3>5. h2[L + 1] = n /\ L + 1 \in 1..(L + 1)
      BY <2>4
    <3>6. h2 \in [1..(L + 1) -> 1..n]
      BY <2>5, <3>3, <3>4
    <3> HIDE DEF h2
    <3>7. ASSUME NEW k \in 1..(L + 1), NEW l \in 1..(L + 1), k < l PROVE h2[k] < h2[l]
      <4>1. k \in 1..L
        BY <2>4, <3>7
      <4>2. CASE l \in 1..L
        BY <2>2, <3>4, <3>7, <4>1, <4>2
      <4>3. CASE l = L + 1
        BY <3>4, <3>5, <4>1, <4>3
      <4> QED  BY <3>3, <4>2, <4>3
    <3>8. ASSUME NEW k \in 1..(L + 1) PROVE q[k] = EventWithout(s[h2[k]], t)
      <4>1. CASE k \in 1..L
        BY <2>2, <3>2, <3>4, <4>1
      <4>2. CASE k = L + 1
        BY <3>2, <3>5, <4>2 DEF w, e
      <4> QED  BY <3>3, <4>1, <4>2
    <3>9. ASSUME NEW i \in 1..n, NEW u \in DOMAIN s[i], u # t PROVE \E k \in 1..(L + 1) : h2[k] = i
      <4>1. CASE i = n
        BY <3>5, <4>1
      <4>2. CASE i \in 1..(n - 1)
        <5>1. PICK k \in 1..L : h[k] = i
          BY <2>2, <3>9, <4>2
        <5> QED  BY <3>4, <5>1
      <4> QED  BY <2>5, <4>1, <4>2
    <3>10. Left(q, n, s, t, h2)
      BY <3>2, <3>6, <3>7, <3>8, <3>9 DEF Left
    <3>11. f[n] = q
      BY <2>3, <2>7 DEF q, w
    <3> QED  BY <3>10, <3>11
  <2> QED  BY <2>6, <2>7
<1>7. T = {}
  <2> SUFFICES ASSUME T # {} PROVE FALSE
    OBVIOUS
  <2>1. T \subseteq Nat
    BY <1>1
  <2> HIDE DEF Cut
  <2>2. PICK m \in T : \A k \in T : m <= k
    BY <2>1, LeastNumber
  <2>3. m # 0
    BY <1>5, <2>2
  <2>4. m \in 1..N /\ m - 1 \in 0..N /\ m - 1 \notin T
    BY <1>1, <2>2, <2>3
  <2> QED  BY <1>6, <2>2, <2>4
<1>8. Cut(N)
  <2> HIDE DEF Cut
  <2> QED  BY <1>1, <1>7
<1> QED  BY <1>3, <1>8

\* touchOwnershipEvent(): the registry has refused x, which the gate knows.
LEMMA TouchLost ==
  ASSUME NEW c, NEW r, NEW info, NEW s, NEW d, NEW cut, NEW x \in Touches,
         Good(c, r, info, s, d, cut), r[x] = "asked",
         NEW r2, NEW info2,
         r2[x] = "refused" /\ \A t \in Touches : t # x => r2[t] = r[t],
         info2 = [info EXCEPT ![x] = "none"]
  PROVE  Good(c, r2, info2, RemoveTouchFromStoredEvents(s, x), d, cut)
<1> DEFINE q == RemoveTouchFromStoredEvents(s, x)  n == Len(s)  L == Len(q)
<1>1. /\ s \in Seq(GateEvents) /\ info \in [Touches -> Ownerships \cup {"none"}]
      /\ AreKnown(info, s) /\ EndOnce(c, s) /\ EndComes(c, info, s)
      /\ GoesOn(c, info, s) /\ NoGaps(s) /\ BeginOnce(s)
      /\ Unsent(s, d) /\ Entitled(c, r, info, d)
  BY DEF Good, Stream
<1>2. PICK h : Left(q, n, s, x, h)
  BY <1>1, LostTouchIsCut
<1> HIDE DEF q
<1>3. /\ q \in Seq(GateEvents) /\ h \in [1..L -> 1..n]
      /\ \A k, l \in 1..L : k < l => h[k] < h[l]
      /\ \A k \in 1..L : q[k] = EventWithout(s[h[k]], x)
      /\ \A i \in 1..n : (\E u \in DOMAIN s[i] : u # x) => \E k \in 1..L : h[k] = i
  BY <1>2 DEF Left
<1>4. n \in Nat /\ L \in Nat /\ \A i \in 1..n : s[i] \in GateEvents /\ DOMAIN s[i] \subseteq Touches
  BY <1>1, <1>3, LenProperties, ElementOfSeq, EventIs
<1> HIDE DEF n, L
<1>5. ASSUME NEW k \in 1..L
      PROVE  /\ h[k] \in 1..n /\ x \notin DOMAIN q[k] /\ DOMAIN q[k] \subseteq Touches
             /\ \A u : u \in DOMAIN q[k] <=> u # x /\ u \in DOMAIN s[h[k]]
             /\ \A u, y : In(q, k, u, y) <=> u # x /\ In(s, h[k], u, y)
  <2>1. h[k] \in 1..n /\ s[h[k]] \in GateEvents /\ DOMAIN s[h[k]] \subseteq Touches
    BY <1>3, <1>4
  <2>2. /\ DOMAIN q[k] = DOMAIN s[h[k]] \ {x}
        /\ \A u \in DOMAIN s[h[k]] \ {x} : q[k][u] = s[h[k]][u]
    <3> DEFINE e == s[h[k]]
    <3>1. q[k] = EventWithout(e, x)
      BY <1>3
    <3>2. e \in GateEvents
      BY <2>1
    <3> HIDE DEF e
    <3>3. /\ DOMAIN EventWithout(e, x) = DOMAIN e \ {x}
          /\ \A u \in DOMAIN e \ {x} : EventWithout(e, x)[u] = e[u]
      BY <3>2, EventWithoutIs
    <3> QED  BY <3>1, <3>3, Zenon DEF e
  <2> QED  BY <2>1, <2>2 DEF In
<1>6. ASSUME NEW i \in 1..n, NEW u \in DOMAIN s[i], u # x PROVE \E k \in 1..L : h[k] = i
  BY <1>3, <1>6
<1>7. ASSUME NEW k \in 1..L, NEW l \in 1..L, h[k] < h[l] PROVE k < l
  <2>1. k = l \/ l < k => FALSE
    BY <1>3, <1>4, <1>5, <1>7
  <2> QED  BY <1>4, <2>1
<1>8. /\ info2 \in [Touches -> Ownerships \cup {"none"}] /\ info2[x] = "none"
      /\ \A t \in Touches : t # x => info2[t] = info[t]
  BY <1>1
<1>9. AreKnown(info2, q)
  <2> SUFFICES ASSUME NEW k \in 1..L, NEW t \in DOMAIN q[k] PROVE info2[t] # "none"
    BY DEF AreKnown, L
  <2>1. t # x /\ t \in Touches /\ t \in DOMAIN s[h[k]] /\ h[k] \in 1..n
    BY <1>5
  <2> QED  BY <1>1, <1>8, <2>1 DEF AreKnown, n
<1>10. EndOnce(c, q)
  <2> SUFFICES ASSUME NEW k \in 1..L, NEW t \in Touches, In(q, k, t, "released")
               PROVE  c[t] = "gone" /\ \A l \in 1..L : l > k => t \notin DOMAIN q[l]
    BY DEF EndOnce, L
  <2>1. In(s, h[k], t, "released") /\ h[k] \in 1..n
    BY <1>5
  <2>2. c[t] = "gone" /\ \A j \in 1..n : j > h[k] => t \notin DOMAIN s[j]
    BY <1>1, <2>1 DEF EndOnce, n
  <2>3. ASSUME NEW l \in 1..L, l > k PROVE t \notin DOMAIN q[l]
    <3>1. h[l] > h[k] /\ h[l] \in 1..n
      BY <1>3, <1>4, <1>5, <2>3
    <3> QED  BY <1>5, <2>2, <3>1
  <2> QED  BY <2>2, <2>3
<1>11. EndComes(c, info2, q)
  <2> SUFFICES ASSUME NEW t \in Touches, info2[t] # "none", c[t] # "down"
               PROVE  \E k \in 1..L : In(q, k, t, "released")
    BY DEF EndComes, L
  <2>1. t # x /\ info[t] # "none"
    BY <1>8
  <2>2. PICK i \in 1..n : In(s, i, t, "released")
    BY <1>1, <2>1 DEF EndComes, n
  <2>3. PICK k \in 1..L : h[k] = i
    BY <1>6, <2>1, <2>2 DEF In
  <2> QED  BY <1>5, <2>1, <2>2, <2>3
<1>12. GoesOn(c, info2, q)
  <2> SUFFICES ASSUME NEW t \in Touches, c[t] = "down", info2[t] # "none", L > 0
               PROVE  t \in DOMAIN q[L]
    BY DEF GoesOn, L
  <2>1. t # x /\ info[t] # "none"
    BY <1>8
  <2>2. L \in 1..L /\ h[L] \in 1..n
    BY <1>4, <1>5
  <2>3. n > 0 /\ n \in 1..n
    BY <1>4, <2>2
  <2>4. t \in DOMAIN s[n]
    BY <1>1, <2>1, <2>3 DEF GoesOn, n
  <2>5. PICK k \in 1..L : h[k] = n
    BY <1>6, <2>1, <2>3, <2>4
  <2>6. k = L
    <3>1. k < L => h[k] < h[L]
      BY <1>3, <2>2
    <3> QED  BY <1>4, <2>2, <2>5, <3>1
  <2> QED  BY <1>5, <2>1, <2>4, <2>5, <2>6
<1>13. NoGaps(q)
  <2> SUFFICES ASSUME NEW i \in 1..L, NEW j \in 1..L, NEW t \in Touches, i < j,
                      t \in DOMAIN q[j], t \notin DOMAIN q[i]
               PROVE  \E k \in 1..L : i < k /\ k <= j /\ In(q, k, t, "pressed")
    BY DEF NoGaps, L
  <2>1. /\ t # x /\ t \in DOMAIN s[h[j]] /\ t \notin DOMAIN s[h[i]]
        /\ h[i] \in 1..n /\ h[j] \in 1..n /\ h[i] < h[j]
    BY <1>3, <1>5
  <2>2. PICK m \in 1..n : h[i] < m /\ m <= h[j] /\ In(s, m, t, "pressed")
    BY <1>1, <2>1 DEF NoGaps, n
  <2>3. PICK k \in 1..L : h[k] = m
    BY <1>6, <2>1, <2>2 DEF In
  <2>4. i < k
    BY <1>7, <2>2, <2>3
  <2>5. k <= j
    <3>1. j < k => h[j] < h[k]
      BY <1>3
    <3> QED  BY <1>4, <2>1, <2>2, <2>3, <3>1
  <2> QED  BY <1>5, <2>1, <2>2, <2>3, <2>4, <2>5
<1>14. BeginOnce(q) /\ Unsent(q, d)
  <2> SUFFICES ASSUME NEW i \in 1..L, NEW t \in Touches, In(q, i, t, "pressed")
               PROVE  /\ d.seen[t] = "none"
                      /\ \A k \in 1..L : k < i => t \notin DOMAIN q[k]
    BY DEF BeginOnce, Unsent, L
  <2>1. In(s, h[i], t, "pressed") /\ h[i] \in 1..n
    BY <1>5
  <2>2. d.seen[t] = "none" /\ \A k \in 1..n : k < h[i] => t \notin DOMAIN s[k]
    BY <1>1, <2>1 DEF BeginOnce, Unsent, n
  <2>3. ASSUME NEW k \in 1..L, k < i PROVE t \notin DOMAIN q[k]
    <3>1. h[k] < h[i] /\ h[k] \in 1..n
      BY <1>3, <1>5, <2>3
    <3> QED  BY <1>5, <2>2, <3>1
  <2> QED  BY <2>2, <2>3
<1>15. Entitled(c, r2, info2, d)
  <2> SUFFICES ASSUME NEW t \in Touches
               PROVE  /\ c[t] = "new" => r2[t] = "none" /\ info2[t] = "none" /\ d.seen[t] = "none"
                      /\ info2[t] = "OwnershipGranted" => r2[t] = "granted"
                      /\ info2[t] = "OwnershipRequested" => r2[t] = "asked"
                      /\ d.seen[t] # "none" => r2[t] = "granted"
    BY DEF Entitled
  <2>1. /\ c[t] = "new" => r[t] = "none" /\ info[t] = "none" /\ d.seen[t] = "none"
        /\ info[t] = "OwnershipGranted" => r[t] = "granted"
        /\ info[t] = "OwnershipRequested" => r[t] = "asked"
        /\ d.seen[t] # "none" => r[t] = "granted"
    BY <1>1 DEF Entitled
  <2>2. CASE t = x
    BY <1>8, <2>1, <2>2
  <2>3. CASE t # x
    <3>1. info2[t] = info[t] /\ r2[t] = r[t]
      BY <1>8, <2>3
    <3> QED  BY <2>1, <3>1
  <2> QED  BY <2>2, <2>3
<1>16. Ongoing(info2, q) = Ongoing(info, s)
  <2>1. x \notin Ongoing(info, s)
    BY <1>1 DEF Good, IsTouchPointOwned, Entitled
  <2>2. ASSUME NEW t \in Touches, t # x PROVE t \in Ongoing(info2, q) <=> t \in Ongoing(info, s)
    <3>1. info2[t] = info[t]
      BY <1>8, <2>2
    <3>2. ASSUME NEW k \in 1..L, In(q, k, t, "pressed") PROVE \E i \in 1..n : In(s, i, t, "pressed")
      BY <1>5, <3>2
    <3>3. ASSUME NEW i \in 1..n, In(s, i, t, "pressed") PROVE \E k \in 1..L : In(q, k, t, "pressed")
      <4>1. PICK k \in 1..L : h[k] = i
        BY <1>6, <2>2, <3>3 DEF In
      <4> QED  BY <1>5, <2>2, <3>3, <4>1
    <3> QED  BY <3>1, <3>2, <3>3 DEF Ongoing, n, L
  <2> QED  BY <1>8, <2>1, <2>2 DEF Ongoing
<1>17. \A t \in Ongoing(info, s) : IsTouchPointOwned(info2, t)
  <2>1. x \notin Ongoing(info, s)
    BY <1>1 DEF Good, IsTouchPointOwned, Entitled
  <2> QED  BY <1>8, <2>1 DEF Good, Ongoing, IsTouchPointOwned
<1>18. Stream(c, info2, q)
  BY <1>3, <1>8, <1>9, <1>10, <1>11, <1>12, <1>13, <1>14 DEF Stream
<1> QED  BY <1>14, <1>15, <1>16, <1>17, <1>18 DEF Good, q

\* The registry has granted x.
LEMMA TouchGained ==
  ASSUME NEW c, NEW r, NEW info, NEW s, NEW d, NEW cut, NEW x \in Touches,
         Good(c, r, info, s, d, cut), r[x] = "asked", info[x] # "none",
         NEW r2, NEW info2,
         r2[x] = "granted" /\ \A t \in Touches : t # x => r2[t] = r[t],
         info2 = [info EXCEPT ![x] = "OwnershipGranted"]
  PROVE  Good(c, r2, info2, s, d, cut)
<1>1. /\ s \in Seq(GateEvents) /\ info \in [Touches -> Ownerships \cup {"none"}]
      /\ AreKnown(info, s) /\ EndOnce(c, s) /\ EndComes(c, info, s)
      /\ GoesOn(c, info, s) /\ NoGaps(s) /\ BeginOnce(s)
      /\ Unsent(s, d) /\ Entitled(c, r, info, d)
  BY DEF Good, Stream
<1>2. /\ info2 \in [Touches -> Ownerships \cup {"none"}] /\ info2[x] = "OwnershipGranted"
      /\ \A t \in Touches : t # x => info2[t] = info[t]
  BY <1>1 DEF Ownerships
<1>3. \A t \in Touches : info2[t] # "none" <=> info[t] # "none"
  BY <1>2
<1>4. \A i \in 1..Len(s) : DOMAIN s[i] \subseteq Touches
  BY <1>1, EventIs, ElementOfSeq
<1>5. AreKnown(info2, s)
  BY <1>1, <1>3, <1>4 DEF AreKnown
<1>6. EndComes(c, info2, s) /\ GoesOn(c, info2, s)
  BY <1>1, <1>3 DEF EndComes, GoesOn
<1>7. Ongoing(info2, s) = Ongoing(info, s)
  BY <1>3 DEF Ongoing
<1>8. \A t \in Ongoing(info, s) : IsTouchPointOwned(info2, t)
  BY <1>2 DEF Good, Ongoing, IsTouchPointOwned
<1>9. Entitled(c, r2, info2, d)
  <2> SUFFICES ASSUME NEW t \in Touches
               PROVE  /\ c[t] = "new" => r2[t] = "none" /\ info2[t] = "none" /\ d.seen[t] = "none"
                      /\ info2[t] = "OwnershipGranted" => r2[t] = "granted"
                      /\ info2[t] = "OwnershipRequested" => r2[t] = "asked"
                      /\ d.seen[t] # "none" => r2[t] = "granted"
    BY DEF Entitled
  <2>1. /\ c[t] = "new" => r[t] = "none" /\ info[t] = "none" /\ d.seen[t] = "none"
        /\ info[t] = "OwnershipGranted" => r[t] = "granted"
        /\ info[t] = "OwnershipRequested" => r[t] = "asked"
        /\ d.seen[t] # "none" => r[t] = "granted"
    BY <1>1 DEF Entitled
  <2>2. CASE t = x
    BY <1>2, <2>1, <2>2
  <2>3. CASE t # x
    <3>1. info2[t] = info[t] /\ r2[t] = r[t]
      BY <1>2, <2>3
    <3> QED  BY <2>1, <3>1
  <2> QED  BY <2>2, <2>3
<1>10. Stream(c, info2, s)
  BY <1>1, <1>2, <1>5, <1>6 DEF Stream
<1> QED  BY <1>7, <1>8, <1>9, <1>10 DEF Good

-----------------------------------------------------------------------------
(***************************************************************************)
(* The inductive invariant of the gate.                                    *)
(***************************************************************************)
GateInv ==
  /\ Contacts(contact)
  /\ registry \in [Touches -> {"none", "asked", "granted", "refused"}]
  /\ Good(contact, registry, touchInfoMap, storedEvents, dispatcher, interrupted)
  /\ Blocked(touchInfoMap, storedEvents)
  /\ ~gateEnabled => \A t \in Touches : touchInfoMap[t] = "none"

LEMMA GateStarts == GateInit => GateInv
<1> SUFFICES ASSUME GateInit PROVE GateInv
  OBVIOUS
<1>1. /\ contact = [t \in Touches |-> "new"] /\ registry = [t \in Touches |-> "none"]
      /\ touchInfoMap = [t \in Touches |-> "none"] /\ storedEvents = <<>>
      /\ gateEnabled = TRUE /\ dispatcher = NewDispatcher
  BY DEF GateInit
<1>2. Stream(contact, touchInfoMap, <<>>)
  BY <1>1 DEF Stream, AreKnown, EndOnce, EndComes, GoesOn, NoGaps, BeginOnce, In
<1>3. Ongoing(touchInfoMap, <<>>) = {}
  BY <1>1 DEF Ongoing
<1>4. /\ dispatcher \in Dispatchers /\ dispatcher.status = "NoActiveTouch"
      /\ dispatcher.touchMouseId = NoTouch /\ dispatcher.mouse = "up"
      /\ \A t \in Touches : dispatcher.seen[t] = "none"
  BY <1>1 DEF NewDispatcher, Dispatchers
<1>5. InStep(dispatcher, {}, interrupted)
  BY <1>4 DEF InStep, Uncut
<1>6. Good(contact, registry, touchInfoMap, <<>>, dispatcher, interrupted)
  BY <1>1, <1>2, <1>3, <1>4, <1>5 DEF Good, Unsent, Entitled, In
<1> QED  BY <1>1, <1>6 DEF GateInv, Contacts, Blocked

LEMMA TouchEventKeeps ==
  ASSUME GateInv, NEW P \in SUBSET Touches, NEW R \in SUBSET Touches, GateTouchEvent(P, R)
  PROVE  GateInv'
<1> DEFINE c2 == [t \in Touches |-> IF t \in P THEN "down" ELSE IF t \in R THEN "gone" ELSE contact[t]]
<1>1. /\ P \subseteq {t \in Touches : contact[t] = "new"} /\ R \subseteq {t \in Touches : contact[t] = "down"}
      /\ contact' = c2 /\ gateEnabled' = gateEnabled /\ interrupted' = interrupted
  BY DEF GateTouchEvent, GateDown
<1>2. /\ Contacts(contact) /\ Blocked(touchInfoMap, storedEvents)
      /\ registry \in [Touches -> {"none", "asked", "granted", "refused"}]
      /\ Good(contact, registry, touchInfoMap, storedEvents, dispatcher, interrupted)
      /\ storedEvents \in Seq(GateEvents) /\ touchInfoMap \in [Touches -> Ownerships \cup {"none"}]
  BY DEF GateInv, Good, Stream
<1>3. Contacts(contact')
  BY <1>1, <1>2 DEF Contacts
<1>4. CASE ~gateEnabled
  <2>1. UNCHANGED <<registry, touchInfoMap, storedEvents, dispatcher>>
    BY <1>4 DEF GateTouchEvent
  <2>2. \A t \in Touches : touchInfoMap[t] = "none"
    BY <1>4 DEF GateInv
  <2>3. \A t \in Touches : /\ contact[t] = "gone" => c2[t] = "gone"
                           /\ c2[t] = "new" => contact[t] = "new"
    BY <1>1
  <2> HIDE DEF c2
  <2>4. Entitled(c2, registry, touchInfoMap, dispatcher)
    BY <1>2, <2>3 DEF Good, Entitled
  <2>5. Stream(c2, touchInfoMap, storedEvents)
    BY <1>2, <2>2, <2>3 DEF Good, Stream, EndOnce, EndComes, GoesOn
  <2>6. Good(c2, registry, touchInfoMap, storedEvents, dispatcher, interrupted)
    BY <1>2, <2>4, <2>5 DEF Good
  <2> QED  BY <1>1, <1>2, <1>3, <2>1, <2>2, <2>6 DEF GateInv
<1>5. CASE gateEnabled
  <2>1. PICK G \in SUBSET P, reaction \in TargetReactions :
          LET info == [t \in Touches |->
                IF t \in G THEN "OwnershipGranted"
                ELSE IF t \in P THEN "OwnershipRequested" ELSE touchInfoMap[t]]
              event == [t \in GateDown \cup P |->
                IF t \in P THEN "pressed" ELSE IF t \in R THEN "released" ELSE "moved"]
              valid == Only(event, Known(info))
              passes == DOMAIN valid # {} /\
                        PassesThrough(EventIsFullyOwned(info, valid), storedEvents)
          IN  /\ registry' = [t \in Touches |->
                   IF t \in G THEN "granted" ELSE IF t \in P THEN "asked" ELSE registry[t]]
              /\ touchInfoMap' =
                   IF passes THEN RemoveTouchInfoForEndedTouches(info, valid) ELSE info
              /\ storedEvents' = IF passes \/ DOMAIN valid = {} THEN storedEvents
                                 ELSE Append(storedEvents, valid)
              /\ dispatcher' = IF passes THEN Dispatch(dispatcher, valid, reaction)
                               ELSE dispatcher
    BY <1>5, Zenon DEF GateTouchEvent
  <2> DEFINE info == [t \in Touches |->
               IF t \in G THEN "OwnershipGranted"
               ELSE IF t \in P THEN "OwnershipRequested" ELSE touchInfoMap[t]]
             event == [t \in GateDown \cup P |->
               IF t \in P THEN "pressed" ELSE IF t \in R THEN "released" ELSE "moved"]
             valid == Only(event, Known(info))
             passes == DOMAIN valid # {} /\
                       PassesThrough(EventIsFullyOwned(info, valid), storedEvents)
             r2 == [t \in Touches |->
               IF t \in G THEN "granted" ELSE IF t \in P THEN "asked" ELSE registry[t]]
  <2>2. /\ registry' = r2
        /\ touchInfoMap' = IF passes THEN RemoveTouchInfoForEndedTouches(info, valid) ELSE info
        /\ storedEvents' = IF passes \/ DOMAIN valid = {} THEN storedEvents
                           ELSE Append(storedEvents, valid)
        /\ dispatcher' = IF passes THEN Dispatch(dispatcher, valid, reaction) ELSE dispatcher
    BY <2>1, Zenon
  <2>3. r2 \in [Touches -> {"none", "asked", "granted", "refused"}]
    BY <1>2
  <2>4. info \in [Touches -> Ownerships \cup {"none"}]
    BY <1>2 DEF Ownerships
  <2>5. DOMAIN valid = {t \in Touches : (contact[t] = "down" \/ t \in P) /\ info[t] # "none"}
    BY DEF Only, Known, GateDown
  <2>6. \A t \in DOMAIN valid :
          valid[t] = IF t \in P THEN "pressed" ELSE IF t \in R THEN "released" ELSE "moved"
    BY DEF Only
  <2>7. valid \in [DOMAIN valid -> States]
    <3>1. valid = [t \in DOMAIN event \cap Known(info) |-> event[t]]
      BY DEF Only
    <3>2. \A t \in DOMAIN event : event[t] \in States
      BY DEF States
    <3> HIDE DEF event, info
    <3> QED  BY <3>1, <3>2
  <2>8. Arrives(contact, registry, touchInfoMap, P, R, G, c2, r2, info, valid)
    <3>1. \A t \in Touches :
            /\ c2[t] = IF t \in P THEN "down" ELSE IF t \in R THEN "gone" ELSE contact[t]
            /\ r2[t] = IF t \in G THEN "granted" ELSE IF t \in P THEN "asked" ELSE registry[t]
            /\ info[t] = IF t \in G THEN "OwnershipGranted"
                         ELSE IF t \in P THEN "OwnershipRequested" ELSE touchInfoMap[t]
      OBVIOUS
    <3> HIDE DEF c2, r2, info, valid
    <3> QED  BY <1>1, <2>4, <2>5, <2>6, <2>7, <3>1 DEF Arrives
  <2>9. \A t \in Touches : touchInfoMap[t] # "none" => info[t] = touchInfoMap[t]
    BY <1>1, <1>2 DEF Good, Entitled
  <2> HIDE DEF c2, r2, info, valid, event
  <2>10. CASE DOMAIN valid = {}
    <3>1. Good(c2, r2, info, storedEvents, dispatcher, interrupted) /\ info = touchInfoMap
      BY <1>2, <2>8, <2>10, UnknownArrives
    <3>2. touchInfoMap' = info /\ storedEvents' = storedEvents /\ dispatcher' = dispatcher
      BY <2>2, <2>10
    <3> QED  BY <1>1, <1>2, <1>3, <1>5, <2>2, <2>3, <3>1, <3>2 DEF GateInv
  <2>11. CASE DOMAIN valid # {}
    <3>1. /\ Good(c2, r2, info, Append(storedEvents, valid), dispatcher, interrupted)
          /\ valid \in GateEvents
      BY <1>2, <2>8, <2>11, KnownArrives
    <3>2. CASE passes
      <4>1. storedEvents = <<>> /\ EventIsFullyOwned(info, valid)
        BY <3>2 DEF PassesThrough
      <4> DEFINE q == Append(<<>>, valid)
      <4>2. q # <<>> /\ Head(q) = valid /\ Tail(q) = <<>>
        BY <3>1
      <4>3. Good(c2, r2, info, q, dispatcher, interrupted)
        BY <3>1, <4>1
      <4> HIDE DEF q, passes
      <4>4. Good(c2, r2, RemoveTouchInfoForEndedTouches(info, valid), <<>>,
                 Dispatch(dispatcher, valid, reaction), interrupted)
        <5>1. EventIsFullyOwned(info, Head(q))
          BY <4>1, <4>2
        <5>2. Good(c2, r2, RemoveTouchInfoForEndedTouches(info, Head(q)), Tail(q),
                   Dispatch(dispatcher, Head(q), reaction), interrupted)
          BY <4>2, <4>3, <5>1, OldestDispatched
        <5> QED  BY <4>2, <5>2
      <4>5. /\ touchInfoMap' = RemoveTouchInfoForEndedTouches(info, valid)
            /\ storedEvents' = <<>> /\ dispatcher' = Dispatch(dispatcher, valid, reaction)
        BY <2>2, <3>2, <4>1
      <4> QED  BY <1>1, <1>3, <1>5, <2>2, <2>3, <4>4, <4>5 DEF GateInv, Blocked
    <3>3. CASE ~passes
      <4> DEFINE q == Append(storedEvents, valid)
      <4>1. touchInfoMap' = info /\ storedEvents' = q /\ dispatcher' = dispatcher
        BY <2>2, <2>11, <3>3
      <4>2. Blocked(info, q)
        <5>1. CASE storedEvents = <<>>
          <6>1. Head(q) = valid
            BY <3>1, <5>1
          <6>2. ~EventIsFullyOwned(info, valid)
            BY <2>11, <3>3, <5>1 DEF PassesThrough
          <6> QED  BY <6>1, <6>2 DEF Blocked
        <5>2. CASE storedEvents # <<>>
          <6> DEFINE e == Head(storedEvents)
          <6>1. Head(q) = e
            BY <1>2, <3>1, <5>2
          <6>2. e \in GateEvents /\ e = storedEvents[1] /\ 1 \in 1..Len(storedEvents)
            BY <1>2, <5>2, HeadTailProperties, LenProperties
          <6>3. ~EventIsFullyOwned(touchInfoMap, e)
            BY <1>2, <5>2 DEF Blocked
          <6> HIDE DEF e, q
          <6>4. DOMAIN e \subseteq Touches /\ \A t \in DOMAIN e : touchInfoMap[t] # "none"
            <7>1. DOMAIN e \subseteq Touches
              BY <6>2, EventIs
            <7> QED  BY <1>2, <6>2, <7>1 DEF Good, Stream, AreKnown
          <6>5. PICK t \in DOMAIN e : ~IsTouchPointOwned(touchInfoMap, t)
            BY <6>3 DEF EventIsFullyOwned
          <6>6. ~IsTouchPointOwned(info, t)
            BY <2>9, <6>4, <6>5 DEF IsTouchPointOwned
          <6> QED  BY <6>1, <6>5, <6>6 DEF Blocked, EventIsFullyOwned
        <5> QED  BY <5>1, <5>2
      <4> HIDE DEF passes
      <4> QED  BY <1>1, <1>3, <1>5, <2>2, <2>3, <3>1, <4>1, <4>2 DEF GateInv
    <3> QED  BY <3>2, <3>3
  <2> QED  BY <2>10, <2>11
<1> QED  BY <1>4, <1>5

LEMMA OwnershipKeeps ==
  ASSUME GateInv, NEW t \in Touches,
         OwnershipIgnored(t) \/ GateOwnershipGained(t) \/ GateOwnershipLost(t)
  PROVE  GateInv'
<1>1. /\ Contacts(contact) /\ Blocked(touchInfoMap, storedEvents)
      /\ registry \in [Touches -> {"none", "asked", "granted", "refused"}]
      /\ Good(contact, registry, touchInfoMap, storedEvents, dispatcher, interrupted)
      /\ storedEvents \in Seq(GateEvents) /\ touchInfoMap \in [Touches -> Ownerships \cup {"none"}]
      /\ ~gateEnabled => \A u \in Touches : touchInfoMap[u] = "none"
  BY DEF GateInv, Good, Stream
<1>2. CASE OwnershipIgnored(t)
  <2>1. /\ registry[t] = "asked" /\ touchInfoMap[t] = "none"
        /\ UNCHANGED <<contact, touchInfoMap, storedEvents, gateEnabled, dispatcher, interrupted>>
    BY <1>2 DEF OwnershipIgnored
  <2>2. PICK answer \in {"granted", "refused"} : registry' = [registry EXCEPT ![t] = answer]
    BY <1>2 DEF OwnershipIgnored, Answer
  <2>3. registry' \in [Touches -> {"none", "asked", "granted", "refused"}]
    BY <1>1, <2>2
  <2>4. \A u \in Touches : u # t => registry'[u] = registry[u]
    BY <1>1, <2>2
  <2>5. Entitled(contact, registry', touchInfoMap, dispatcher)
    <3>1. Entitled(contact, registry, touchInfoMap, dispatcher)
      BY <1>1 DEF Good
    <3> QED  BY <2>1, <2>4, <3>1 DEF Entitled
  <2>6. Good(contact, registry', touchInfoMap, storedEvents, dispatcher, interrupted)
    BY <1>1, <2>5 DEF Good
  <2> QED  BY <1>1, <2>1, <2>3, <2>6 DEF GateInv
<1>3. ASSUME NEW info, NEW s, OwnershipEvent(t, info, s),
             Good(contact, registry', info, s, dispatcher, interrupted),
             registry' \in [Touches -> {"none", "asked", "granted", "refused"}]
      PROVE  GateInv'
  <2>1. PICK reaction \in TargetReactions :
          LET result == DispatchFullyOwnedEvents(info, s, reaction)
          IN  /\ touchInfoMap' = result.info
              /\ storedEvents' = result.stored
              /\ dispatcher' = result.dispatcher
    BY <1>3 DEF OwnershipEvent
  <2> DEFINE result == DispatchFullyOwnedEvents(info, s, reaction)
  <2>2. touchInfoMap' = result.info /\ storedEvents' = result.stored /\ dispatcher' = result.dispatcher
    BY <2>1
  <2>3. /\ Good(contact, registry', result.info, result.stored, result.dispatcher, interrupted)
        /\ Blocked(result.info, result.stored)
    BY <1>3, FullyOwnedDispatched
  <2>4. gateEnabled /\ UNCHANGED <<contact, gateEnabled, interrupted>>
    BY <1>1, <1>3 DEF OwnershipEvent
  <2> HIDE DEF result
  <2> QED  BY <1>1, <1>3, <2>2, <2>3, <2>4 DEF GateInv
<1>4. CASE GateOwnershipGained(t)
  <2> DEFINE info == [touchInfoMap EXCEPT ![t] = "OwnershipGranted"]
  <2>1. registry' = [registry EXCEPT ![t] = "granted"] /\ OwnershipEvent(t, info, storedEvents)
    BY <1>4 DEF GateOwnershipGained, Answer
  <2>2. registry[t] = "asked" /\ touchInfoMap[t] # "none"
    BY <2>1 DEF OwnershipEvent
  <2>3. /\ registry' \in [Touches -> {"none", "asked", "granted", "refused"}]
        /\ registry'[t] = "granted" /\ \A u \in Touches : u # t => registry'[u] = registry[u]
    BY <1>1, <2>1
  <2>4. Good(contact, registry', info, storedEvents, dispatcher, interrupted)
    BY <1>1, <2>2, <2>3, TouchGained
  <2> HIDE DEF info
  <2> QED  BY <1>3, <2>1, <2>3, <2>4
<1>5. CASE GateOwnershipLost(t)
  <2> DEFINE info == [touchInfoMap EXCEPT ![t] = "none"]
             s == RemoveTouchFromStoredEvents(storedEvents, t)
  <2>1. registry' = [registry EXCEPT ![t] = "refused"] /\ OwnershipEvent(t, info, s)
    BY <1>5 DEF GateOwnershipLost, Answer
  <2>2. registry[t] = "asked"
    BY <2>1 DEF OwnershipEvent
  <2>3. /\ registry' \in [Touches -> {"none", "asked", "granted", "refused"}]
        /\ registry'[t] = "refused" /\ \A u \in Touches : u # t => registry'[u] = registry[u]
    BY <1>1, <2>1
  <2>4. Good(contact, registry', info, s, dispatcher, interrupted)
    BY <1>1, <2>2, <2>3, TouchLost
  <2> HIDE DEF info, s
  <2> QED  BY <1>3, <2>1, <2>3, <2>4
<1> QED  BY <1>2, <1>4, <1>5

\* Whatever happens to gate and item, the stream is over or marked as cut off.
LEMMA InterruptionsKeep ==
  ASSUME GateInv, Disable \/ ChangeTargetItem \/ DeleteTarget
  PROVE  GateInv'
<1> DEFINE O == Ongoing(touchInfoMap, storedEvents)
<1>1. /\ Contacts(contact) /\ Blocked(touchInfoMap, storedEvents)
      /\ registry \in [Touches -> {"none", "asked", "granted", "refused"}]
      /\ Good(contact, registry, touchInfoMap, storedEvents, dispatcher, interrupted)
      /\ Stream(contact, touchInfoMap, storedEvents)
      /\ Entitled(contact, registry, touchInfoMap, dispatcher)
      /\ \A t \in O : IsTouchPointOwned(touchInfoMap, t)
      /\ ~gateEnabled => \A t \in Touches : touchInfoMap[t] = "none"
  BY DEF GateInv, Good
<1>2. /\ dispatcher \in Dispatchers
      /\ \A t \in Touches : dispatcher.seen[t] # "broken"
      /\ ~interrupted => Uncut(dispatcher, O)
  BY DEF GateInv, Good, InStep
<1>3. UNCHANGED <<contact, registry>> /\ interrupted' = (interrupted \/ Interrupts)
  BY DEF Disable, ChangeTargetItem, DeleteTarget
<1>4. ~interrupted' => /\ dispatcher.status = "NoActiveTouch" /\ storedEvents = <<>>
                       /\ dispatcher.touchMouseId = NoTouch /\ dispatcher.mouse = "up"
                       /\ \A t \in Touches : dispatcher.seen[t] # "pressed"
  <2> SUFFICES ASSUME ~interrupted'
               PROVE  /\ dispatcher.status = "NoActiveTouch" /\ storedEvents = <<>>
                      /\ dispatcher.touchMouseId = NoTouch /\ dispatcher.mouse = "up"
                      /\ \A t \in Touches : dispatcher.seen[t] # "pressed"
    OBVIOUS
  <2>1. ~interrupted /\ dispatcher.status = "NoActiveTouch" /\ storedEvents = <<>>
    BY <1>3 DEF Interrupts
  <2>2. Uncut(dispatcher, O)
    BY <1>2, <2>1
  <2>3. dispatcher.mouse \in {"up", "down", "broken"}
    BY <1>2 DEF Dispatchers
  <2>4. dispatcher.touchMouseId = NoTouch
    BY <2>1, <2>2 DEF Uncut
  <2>5. dispatcher.mouse = "up"
    BY <2>2, <2>3, <2>4 DEF Uncut
  <2> QED  BY <2>1, <2>2, <2>4, <2>5 DEF Uncut
<1>5. CASE Disable
  <2>1. /\ storedEvents' = <<>> /\ touchInfoMap' = [t \in Touches |-> "none"]
        /\ dispatcher' = Reset(dispatcher)
    BY <1>5 DEF Disable
  <2>2. /\ dispatcher' \in Dispatchers /\ dispatcher'.seen = dispatcher.seen
        /\ dispatcher'.mouse = dispatcher.mouse /\ dispatcher'.hasTarget = dispatcher.hasTarget
        /\ dispatcher'.status = "NoActiveTouch" /\ dispatcher'.touchMouseId = NoTouch
    BY <1>2, <2>1 DEF Reset, Dispatchers
  <2>3. ~interrupted' => Uncut(dispatcher', {})
    BY <1>4, <2>2 DEF Uncut
  <2>4. InStep(dispatcher', {}, interrupted')
    BY <1>2, <2>2, <2>3 DEF InStep
  <2>5. touchInfoMap' \in [Touches -> Ownerships \cup {"none"}] /\ \A t \in Touches : touchInfoMap'[t] = "none"
    BY <2>1
  <2>6. Stream(contact, touchInfoMap', <<>>)
    BY <2>5 DEF Stream, AreKnown, EndOnce, EndComes, GoesOn, NoGaps, BeginOnce, In
  <2>7. Ongoing(touchInfoMap', <<>>) = {}
    BY <2>5 DEF Ongoing
  <2>8. Entitled(contact, registry, touchInfoMap', dispatcher')
    <3> SUFFICES ASSUME NEW t \in Touches
                 PROVE  /\ contact[t] = "new" => registry[t] = "none" /\ dispatcher.seen[t] = "none"
                        /\ dispatcher.seen[t] # "none" => registry[t] = "granted"
      BY <2>2, <2>5 DEF Entitled
    <3> QED  BY <1>1 DEF Entitled
  <2>9. Good(contact, registry, touchInfoMap', <<>>, dispatcher', interrupted')
    BY <2>4, <2>6, <2>7, <2>8 DEF Good, Unsent
  <2> QED  BY <1>1, <1>3, <2>1, <2>5, <2>9 DEF GateInv, Blocked
<1>6. CASE ChangeTargetItem \/ DeleteTarget
  <2>1. UNCHANGED <<touchInfoMap, storedEvents, gateEnabled>>
    BY <1>6 DEF ChangeTargetItem, DeleteTarget
  <2>2. /\ dispatcher' \in Dispatchers /\ \A t \in Touches : dispatcher'.seen[t] = "none"
        /\ dispatcher'.mouse = "up" /\ dispatcher'.touchMouseId = dispatcher.touchMouseId
        /\ dispatcher'.hasTarget => dispatcher'.status # "DeliveringTouchEvents"
        /\ dispatcher.status = "NoActiveTouch" => dispatcher'.status = "NoActiveTouch"
    <3>1. CASE ChangeTargetItem
      <4>1. dispatcher' = [NewDispatcher EXCEPT
              !.status = IF dispatcher.status = "NoActiveTouch" THEN "NoActiveTouch"
                         ELSE "TargetRejectedTouches",
              !.touchMouseId = dispatcher.touchMouseId]
        BY <3>1 DEF ChangeTargetItem, SetTargetItem, NewDispatcher
      <4> QED  BY <1>2, <4>1 DEF NewDispatcher, Dispatchers
    <3>2. CASE DeleteTarget
      BY <1>2, <3>2 DEF DeleteTarget, LoseTarget, NewDispatcher, Dispatchers
    <3> QED  BY <1>6, <3>1, <3>2
  <2>3. ~interrupted' => Uncut(dispatcher', O)
    BY <1>4, <2>2 DEF Uncut
  <2>4. InStep(dispatcher', O, interrupted')
    BY <2>2, <2>3 DEF InStep
  <2>5. Unsent(storedEvents, dispatcher')
    BY <2>2 DEF Unsent
  <2>6. Entitled(contact, registry, touchInfoMap, dispatcher')
    BY <1>1, <2>2 DEF Entitled
  <2>7. Good(contact, registry, touchInfoMap, storedEvents, dispatcher', interrupted')
    BY <1>1, <2>4, <2>5, <2>6 DEF Good
  <2> QED  BY <1>1, <1>3, <2>1, <2>7 DEF GateInv
<1> QED  BY <1>5, <1>6

LEMMA GateStep == GateInv /\ [GateNext]_gateVars => GateInv'
<1> SUFFICES ASSUME GateInv, [GateNext]_gateVars PROVE GateInv'
  OBVIOUS
<1>1. CASE \E P, R \in SUBSET Touches : GateTouchEvent(P, R)
  BY <1>1, TouchEventKeeps
<1>2. CASE \E t \in Touches : OwnershipIgnored(t) \/ GateOwnershipGained(t) \/ GateOwnershipLost(t)
  BY <1>2, OwnershipKeeps
<1>3. CASE Disable \/ ChangeTargetItem \/ DeleteTarget
  BY <1>3, InterruptionsKeep
<1>4. CASE Enable
  BY <1>4 DEF Enable, GateInv
<1>5. CASE UNCHANGED gateVars
  BY <1>5 DEF gateVars, GateInv
<1> QED  BY <1>1, <1>2, <1>3, <1>4, <1>5 DEF GateNext

LEMMA GateInvHolds == GateSpec => []GateInv
BY GateStarts, GateStep, PTL DEF GateSpec

\* An item is sent each touch in order, and the emulated mouse too unless a
\* stream was cut off.
THEOREM SentInOrder == GateSpec => []InOrder
<1>1. GateInv => InOrder
  <2> SUFFICES ASSUME GateInv PROVE InOrder
    OBVIOUS
  <2>1. InStep(dispatcher, Ongoing(touchInfoMap, storedEvents), interrupted)
    BY DEF GateInv, Good
  <2> QED  BY <2>1 DEF InOrder, InStep, Uncut
<1> QED  BY <1>1, GateInvHolds, PTL

\* An item only sees touches that the registry has granted to the gate.
THEOREM SentWhenOwned == GateSpec => []OnlyOwnedTouches
<1>1. GateInv => OnlyOwnedTouches
  BY DEF GateInv, Good, Entitled, OnlyOwnedTouches
<1> QED  BY <1>1, GateInvHolds, PTL

\* What is stored waits for an answer of the registry.
THEOREM HeldForAReason == GateSpec => []NothingStuck
<1>1. GateInv => NothingStuck
  <2> SUFFICES ASSUME GateInv PROVE NothingStuck
    OBVIOUS
  <2>1. /\ Stream(contact, touchInfoMap, storedEvents) /\ Blocked(touchInfoMap, storedEvents)
        /\ Entitled(contact, registry, touchInfoMap, dispatcher)
    BY DEF GateInv, Good
  <2>2. /\ storedEvents \in Seq(GateEvents) /\ touchInfoMap \in [Touches -> Ownerships \cup {"none"}]
        /\ AreKnown(touchInfoMap, storedEvents) /\ EndComes(contact, touchInfoMap, storedEvents)
    BY <2>1 DEF Stream
  <2>3. ASSUME storedEvents # <<>>
        PROVE  \E t \in DOMAIN Head(storedEvents) :
                 registry[t] = "asked" /\ touchInfoMap[t] = "OwnershipRequested"
    <3> DEFINE e == Head(storedEvents)
    <3>1. e \in GateEvents /\ e = storedEvents[1] /\ 1 \in 1..Len(storedEvents)
      BY <2>2, <2>3, HeadTailProperties, LenProperties
    <3>2. PICK t \in DOMAIN e : ~IsTouchPointOwned(touchInfoMap, t)
      BY <2>1, <2>3 DEF Blocked, EventIsFullyOwned
    <3> HIDE DEF e
    <3>3. t \in Touches /\ touchInfoMap[t] # "none"
      BY <2>2, <3>1, <3>2, EventIs DEF AreKnown
    <3>4. touchInfoMap[t] = "OwnershipRequested"
      BY <2>2, <3>2, <3>3 DEF IsTouchPointOwned, Ownerships
    <3> QED  BY <2>1, <3>3, <3>4 DEF Entitled, e
  <2>4. ASSUME NEW t \in Known(touchInfoMap) PROVE contact[t] = "down" \/ storedEvents # <<>>
    <3>1. t \in Touches /\ touchInfoMap[t] # "none"
      BY <2>4 DEF Known
    <3>2. contact[t] # "down" => \E i \in 1..Len(storedEvents) : TRUE
      BY <2>2, <3>1 DEF EndComes
    <3>3. storedEvents = <<>> => 1..Len(storedEvents) = {}
      OBVIOUS
    <3> QED  BY <3>2, <3>3
  <2> QED  BY <2>3, <2>4 DEF NothingStuck
<1> QED  BY <1>1, GateInvHolds, PTL

\* A stream that was not cut off ends for the item too.
THEOREM EndsAreSent == GateSpec => []StreamsEnd
<1>1. GateInv => StreamsEnd
  <2> SUFFICES ASSUME GateInv, GateDown = {}, storedEvents = <<>>, ~interrupted
               PROVE  /\ dispatcher.status = "NoActiveTouch"
                      /\ dispatcher.touchMouseId = NoTouch
                      /\ dispatcher.mouse = "up"
                      /\ \A t \in Touches : dispatcher.seen[t] # "pressed"
    BY DEF StreamsEnd
  <2>1. 1..Len(storedEvents) = {}
    OBVIOUS
  <2>2. Ongoing(touchInfoMap, storedEvents) = {}
    <3>1. EndComes(contact, touchInfoMap, storedEvents)
      BY DEF GateInv, Good, Stream
    <3> QED  BY <2>1, <3>1 DEF EndComes, Ongoing, GateDown
  <2>3. Uncut(dispatcher, {}) /\ dispatcher \in Dispatchers
    BY <2>2 DEF GateInv, Good, InStep
  <2>4. dispatcher.mouse \in {"up", "down", "broken"}
    BY <2>3 DEF Dispatchers
  <2>5. dispatcher.touchMouseId = NoTouch
    BY <2>3 DEF Uncut
  <2>6. dispatcher.mouse = "up"
    BY <2>3, <2>4, <2>5 DEF Uncut
  <2> QED  BY <2>3, <2>5, <2>6 DEF Uncut
<1> QED  BY <1>1, GateInvHolds, PTL
=============================================================================
