---------------------------- MODULE InputDevices ----------------------------
(***************************************************************************)
(* QInputDeviceManager and its list model (plugins/Lomiri/InputInfo), from *)
(* which the shell counts mice and keyboards to choose between its desktop *)
(* and its touch mode.  Devices are told apart by strings: the path of the *)
(* event node, /dev/input/event<n>, for those found at the start, and that *)
(* of the input, /dev/input/input<n>, for those added later.               *)
(*                                                                         *)
(* External: udev tells of an input and then of its event node, and of the *)
(* removal of the node and then of the input.  One number serves for both  *)
(* names.                                                                  *)
(***************************************************************************)
EXTENDS Naturals, Sequences, FiniteSets, SequencesExt

CONSTANTS
  Numbers,   \* of devices
  Longer,    \* pairs <<m, n>>: the string of m begins with that of n and is longer
  MaxPlugs   \* bound on plugging

VARIABLES
  plugged,      \* devices that are there
  plugs,        \* how often that has changed, bounded
  udevEvents,   \* on their way
  managerReady, \* init() has run
  deviceMap,    \* its keys: paths of devices
  deviceRows    \* QDeclarativeInputDeviceModel::inputDevices, by key

deviceVars == <<plugged, plugs, udevEvents, managerReady, deviceMap, deviceRows>>

Path(kind, n) == [kind |-> kind, n |-> n]
Paths == {Path(kind, n) : kind \in {"event", "input"}, n \in Numbers}

\* QString::contains() for paths of the same kind.
PathContains(path, part) ==
  path.kind = part.kind /\ (path.n = part.n \/ <<path.n, part.n>> \in Longer)

\* The order of a QMap's keys, whichever that is.
MapOrder == SetToSeq(Paths)
DeviceList(keys) == SelectSeq(MapOrder, LAMBDA key : key \in keys)

(***************************************************************************)
(* updateDeviceList() of a model without a filter: one device after the    *)
(* other to its place, then what is left over goes.                        *)
(***************************************************************************)
PlaceAt(list, i, device) ==
  LET j == SelectInSeq(list, LAMBDA d : d = device)
  IN  IF j = 0 THEN InsertAt(list, i, device)
      ELSE IF i # j THEN InsertAt(RemoveAt(list, j), i, device)
      ELSE list

UpdateDeviceList(keys) ==
  LET new == DeviceList(keys)
      placed == FoldLeft(LAMBDA list, i : PlaceAt(list, i, new[i]), deviceRows,
                         [i \in DOMAIN new |-> i])
  IN  /\ deviceRows' = SubSeq(placed, 1, Len(new))
      /\ deviceMap' = keys

\* init(), 250 ms after the start; the monitor is enabled first.
InitManager ==
  /\ ~managerReady
  /\ managerReady' = TRUE
  /\ UpdateDeviceList({Path("event", n) : n \in plugged})
  /\ UNCHANGED <<plugged, plugs, udevEvents>>

\* onUDevChanges() for "add": the node is found below the input only.
AddDevice(path) ==
  UpdateDeviceList(IF path.kind = "input" /\ path.n \in plugged THEN deviceMap \cup {path}
                   ELSE deviceMap)

RemoveDevice(path) == UpdateDeviceList({key \in deviceMap : ~PathContains(key, path)})

OnUDevChanges ==
  /\ managerReady /\ udevEvents # <<>>
  /\ udevEvents' = Tail(udevEvents)
  /\ LET e == Head(udevEvents)
     IN  IF e.action = "add" THEN AddDevice(e.path) ELSE RemoveDevice(e.path)
  /\ UNCHANGED <<plugged, plugs, managerReady>>

\* External: a device is plugged in or out.
Udev(action, kinds, n) ==
  udevEvents' =
    IF managerReady
    THEN udevEvents \o [i \in 1..2 |-> [action |-> action, path |-> Path(kinds[i], n)]]
    ELSE udevEvents

Plug(n) ==
  /\ plugs < MaxPlugs /\ n \notin plugged
  /\ plugs' = plugs + 1
  /\ plugged' = plugged \cup {n}
  /\ Udev("add", <<"input", "event">>, n)
  /\ UNCHANGED <<managerReady, deviceMap, deviceRows>>

Unplug(n) ==
  /\ plugs < MaxPlugs /\ n \in plugged
  /\ plugs' = plugs + 1
  /\ plugged' = plugged \ {n}
  /\ Udev("remove", <<"event", "input">>, n)
  /\ UNCHANGED <<managerReady, deviceMap, deviceRows>>

DevicesInit ==
  /\ plugged \in SUBSET Numbers /\ plugs = 0
  /\ udevEvents = <<>> /\ managerReady = FALSE
  /\ deviceMap = {} /\ deviceRows = <<>>

DevicesNext ==
  \/ InitManager
  \/ OnUDevChanges
  \/ \E n \in Numbers : Plug(n) \/ Unplug(n)

-----------------------------------------------------------------------------
=============================================================================
