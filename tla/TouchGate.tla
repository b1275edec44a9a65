----------------------------- MODULE TouchGate -----------------------------
(***************************************************************************)
(* TouchGate (plugins/Lomiri/Gestures), which stands before the surface of *)
(* an application: touches whose owner the TouchRegistry has not decided   *)
(* yet are kept back, and everything that comes after them, so that the    *)
(* application only sees touches that no gesture will take from it.        *)
(*                                                                         *)
(* External: Qt delivers the touches, whose numbers are unique as Mir's    *)
(* are; the registry of the UI toolkit answers each request once, at once  *)
(* or later.  An event has all touches that are down in it.                *)
(***************************************************************************)
EXTENDS TouchDispatcher, Naturals, Sequences

CONSTANTS
  MaxStored,          \* bound: no event comes while so many are stored
  TargetReactions,    \* how the items behind the gate may react
  Interruptions       \* of {"disable", "target", "delete"}: what may happen in mid-stream

VARIABLES
  contact,       \* touch -> "new", "down" or "gone"
  registry,      \* touch -> "none", "asked", "granted" or "refused"
  touchInfoMap,  \* touch -> "none", or its ownership; m_touchInfoMap
  storedEvents,  \* m_storedEvents
  gateEnabled,   \* of the gate
  dispatcher,    \* m_dispatcher and what it has sent
  interrupted    \* history: a stream was cut off by a reset or a new target

gateVars == <<contact, registry, touchInfoMap, storedEvents, gateEnabled, dispatcher, interrupted>>

Ownerships == {"OwnershipRequested", "OwnershipGranted"}
States == {"pressed", "moved", "released"}
GateEvents == UNION {[T -> States] : T \in (SUBSET Touches) \ {{}}}

Known(info) == {t \in Touches : info[t] # "none"}
IsTouchPointOwned(info, t) == info[t] = "OwnershipGranted"
EventIsPartlyOwned(info, event) ==  \* variant: one granted touch is enough
  \E t \in DOMAIN event : IsTouchPointOwned(info, t)
EventIsFullyOwned(info, event) == \A t \in DOMAIN event : IsTouchPointOwned(info, t)

Only(event, T) == [t \in DOMAIN event \cap T |-> event[t]]

KeptTouchInfo(info, event) == info  \* variant: of ended touches too
RemoveTouchInfoForEndedTouches(info, event) ==
  [t \in Touches |->
     IF t \in DOMAIN event /\ event[t] = "released" THEN "none" ELSE info[t]]

\* One event after the other until one is not fully owned, or all at once.
DispatchOldest(a, reaction) ==
  IF a.stored = <<>> \/ ~EventIsFullyOwned(a.info, Head(a.stored)) THEN a
  ELSE [info |-> RemoveTouchInfoForEndedTouches(a.info, Head(a.stored)),
        stored |-> Tail(a.stored),
        dispatcher |-> Dispatch(a.dispatcher, Head(a.stored), reaction)]
DispatchFullyOwnedEvents(info, stored, reaction) ==
  LET after[n \in 0..Len(stored)] ==
        IF n = 0 THEN [info |-> info, stored |-> stored, dispatcher |-> dispatcher]
        ELSE DispatchOldest(after[n - 1], reaction)
  IN  after[Len(stored)]

EventWithout(event, t) == Only(event, DOMAIN event \ {t})

RemoveFirstEvent(stored, t) ==  \* variant: leaves the touch in later events
  IF stored # <<>> /\ t \in DOMAIN Head(stored) THEN Tail(stored) ELSE stored
RemoveTouchFromStoredEvents(stored, t) ==
  LET kept[n \in 0..Len(stored)] ==
        IF n = 0 THEN <<>>
        ELSE IF DOMAIN stored[n] \subseteq {t} THEN kept[n - 1]
        ELSE Append(kept[n - 1], EventWithout(stored[n], t))
  IN  kept[Len(stored)]

GateDown == {t \in Touches : contact[t] = "down"}

(***************************************************************************)
(* touchEvent(): touches P are pressed, R released.  The registry may      *)
(* grant some of the requests for P at once, G.                            *)
(***************************************************************************)
PassesThrough(owned, stored) == owned /\ stored = <<>>

GateTouchEvent(P, R) ==
  /\ P \subseteq {t \in Touches : contact[t] = "new"}
  /\ R \subseteq GateDown
  /\ Len(storedEvents) < MaxStored
  /\ contact' = [t \in Touches |-> IF t \in P THEN "down" ELSE IF t \in R THEN "gone"
                                  ELSE contact[t]]
  /\ IF ~gateEnabled
       THEN UNCHANGED <<registry, touchInfoMap, storedEvents, dispatcher>>
       ELSE \E G \in SUBSET P, reaction \in TargetReactions :
              LET info == [t \in Touches |->
                    IF t \in G THEN "OwnershipGranted"
                    ELSE IF t \in P THEN "OwnershipRequested" ELSE touchInfoMap[t]]
                  event == [t \in GateDown \cup P |->
                    IF t \in P THEN "pressed" ELSE IF t \in R THEN "released" ELSE "moved"]
                  valid == Only(event, Known(info))
                  passes == DOMAIN valid # {} /\
                            PassesThrough(EventIsFullyOwned(info, valid), storedEvents)
              IN  /\ registry' = [t \in Touches |->
                       IF t \in G THEN "granted" ELSE IF t \in P THEN "asked" ELSE registry[t]]
                  /\ touchInfoMap' =
                       IF passes THEN RemoveTouchInfoForEndedTouches(info, valid) ELSE info
                  /\ storedEvents' = IF passes \/ DOMAIN valid = {} THEN storedEvents
                                     ELSE Append(storedEvents, valid)
                  /\ dispatcher' = IF passes THEN Dispatch(dispatcher, valid, reaction)
                                   ELSE dispatcher
  /\ UNCHANGED <<gateEnabled, interrupted>>

(***************************************************************************)
(* touchOwnershipEvent().  The gate ignores answers for touches it has     *)
(* forgotten.                                                              *)
(***************************************************************************)
Answer(t, answer) == registry' = [registry EXCEPT ![t] = answer]

OwnershipIgnored(t) ==
  /\ registry[t] = "asked" /\ touchInfoMap[t] = "none"
  /\ \E answer \in {"granted", "refused"} : Answer(t, answer)
  /\ UNCHANGED <<contact, touchInfoMap, storedEvents, gateEnabled, dispatcher, interrupted>>

OwnershipEvent(t, info, stored) ==
  /\ registry[t] = "asked" /\ touchInfoMap[t] # "none"
  /\ \E reaction \in TargetReactions :
       LET result == DispatchFullyOwnedEvents(info, stored, reaction)
       IN  /\ touchInfoMap' = result.info
           /\ storedEvents' = result.stored
           /\ dispatcher' = result.dispatcher
  /\ UNCHANGED <<contact, gateEnabled, interrupted>>

GateOwnershipGained(t) ==
  /\ Answer(t, "granted")
  /\ OwnershipEvent(t, [touchInfoMap EXCEPT ![t] = "OwnershipGranted"], storedEvents)

GateOwnershipLost(t) ==
  /\ Answer(t, "refused")
  /\ OwnershipEvent(t, [touchInfoMap EXCEPT ![t] = "none"],
                    RemoveTouchFromStoredEvents(storedEvents, t))

\* The item is in the middle of something.
Interrupts == dispatcher.status # "NoActiveTouch" \/ storedEvents # <<>>

\* onEnabledChanged().
Disable ==
  /\ "disable" \in Interruptions /\ gateEnabled
  /\ gateEnabled' = FALSE
  /\ storedEvents' = <<>>
  /\ touchInfoMap' = [t \in Touches |-> "none"]
  /\ dispatcher' = Reset(dispatcher)
  /\ interrupted' = (interrupted \/ Interrupts)
  /\ UNCHANGED <<contact, registry>>

Enable ==
  /\ ~gateEnabled
  /\ gateEnabled' = TRUE
  /\ UNCHANGED <<contact, registry, touchInfoMap, storedEvents, dispatcher, interrupted>>

ChangeTargetItem ==
  /\ "target" \in Interruptions
  /\ dispatcher' = SetTargetItem(dispatcher)
  /\ interrupted' = (interrupted \/ Interrupts)
  /\ UNCHANGED <<contact, registry, touchInfoMap, storedEvents, gateEnabled>>

DeleteTarget ==
  /\ "delete" \in Interruptions /\ dispatcher.hasTarget
  /\ dispatcher' = LoseTarget(dispatcher)
  /\ interrupted' = (interrupted \/ Interrupts)
  /\ UNCHANGED <<contact, registry, touchInfoMap, storedEvents, gateEnabled>>

GateInit ==
  /\ contact = [t \in Touches |-> "new"]
  /\ registry = [t \in Touches |-> "none"]
  /\ touchInfoMap = [t \in Touches |-> "none"]
  /\ storedEvents = <<>>
  /\ gateEnabled = TRUE
  /\ dispatcher = NewDispatcher
  /\ interrupted = FALSE

GateNext ==
  \/ \E P, R \in SUBSET Touches : GateTouchEvent(P, R)
  \/ \E t \in Touches : OwnershipIgnored(t) \/ GateOwnershipGained(t) \/ GateOwnershipLost(t)
  \/ Disable
  \/ Enable
  \/ ChangeTargetItem
  \/ DeleteTarget

GateSpec == GateInit /\ [][GateNext]_gateVars

-----------------------------------------------------------------------------
GateTypeOK ==
  /\ contact \in [Touches -> {"new", "down", "gone"}]
  /\ registry \in [Touches -> {"none", "asked", "granted", "refused"}]
  /\ touchInfoMap \in [Touches -> Ownerships \cup {"none"}]
  /\ Len(storedEvents) <= MaxStored
  /\ \A i \in DOMAIN storedEvents : storedEvents[i] \in GateEvents
  /\ gateEnabled \in BOOLEAN /\ interrupted \in BOOLEAN
  /\ dispatcher \in Dispatchers

(***************************************************************************)
(* What the item is sent makes sense to it: each touch is pressed, moves   *)
(* and is released in this order and at most once, although touches that   *)
(* are lost are cut out of stored events (TouchGate.cpp:160) and whatever  *)
(* happens to gate and item.  The same for the emulated mouse, as long as  *)
(* no stream was cut off.                                                  *)
(***************************************************************************)
InOrder ==
  /\ \A t \in Touches : dispatcher.seen[t] # "broken"
  /\ dispatcher.mouse = "broken" => interrupted

(***************************************************************************)
(* An item sees a touch only if the registry has granted it to the gate:   *)
(* no gesture that was still being recognised loses its touch to an        *)
(* application (touchEvent() and eventIsFullyOwned()).                     *)
(***************************************************************************)
OnlyOwnedTouches == \A t \in Touches : dispatcher.seen[t] # "none" => registry[t] = "granted"

(***************************************************************************)
(* The gate holds nothing back without need: the oldest stored event has a *)
(* touch the registry has still to decide, and touches that ended are      *)
(* forgotten once nothing is stored.                                       *)
(***************************************************************************)
NothingStuck ==
  /\ storedEvents # <<>> => \E t \in DOMAIN Head(storedEvents) :
                              registry[t] = "asked" /\ touchInfoMap[t] = "OwnershipRequested"
  /\ \A t \in Known(touchInfoMap) : contact[t] = "down" \/ storedEvents # <<>>

(***************************************************************************)
(* When all touches are gone and nothing is stored, the item has been sent *)
(* the end of all it has been sent the begin of, unless the stream was cut *)
(* off, and the dispatcher is ready for the next one                       *)
(* (TouchDispatcher.cpp:80).                                               *)
(***************************************************************************)
StreamsEnd ==
  (GateDown = {} /\ storedEvents = <<>> /\ ~interrupted) =>
    /\ dispatcher.status = "NoActiveTouch"
    /\ dispatcher.touchMouseId = NoTouch
    /\ dispatcher.mouse = "up"
    /\ \A t \in Touches : dispatcher.seen[t] # "pressed"
=============================================================================
