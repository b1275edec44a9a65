------------------------ MODULE TopLevelWindowModel ------------------------
(***************************************************************************)
(* The window model of one workspace: TopLevelWindowModel and the Window   *)
(* objects it owns (plugins/WindowManager), driven by the shell's QML on   *)
(* one side and by Mir, through QtMir's SurfaceManager and                 *)
(* ApplicationManager, on the other.                                       *)
(*                                                                         *)
(* Every call of the shell takes effect at once in the model, and at once  *)
(* in Mir when it is passed on (activate, raise, close); what Mir reports  *)
(* back waits in "events" and is delivered one signal at a time, so that   *)
(* calls of the shell, of clients and of Mir interleave with a block of    *)
(* signals that is only half delivered.                                    *)
(*                                                                         *)
(* A window is a number: 0 is the null window, created by the constructor, *)
(* and the others are numbered, as their ids are, in order of creation.    *)
(***************************************************************************)
EXTENDS Integers, Sequences, FiniteSets, SequencesExt

CONSTANTS
    Apps,           \* applications that may be started
    TouchApps,      \* those whose isTouchApp() holds
    SplashApps,     \* those whose showSplash() holds
    Surfaces,       \* addresses of MirSurface objects
    NoSurface,      \* the null surface
    NoApp,          \* no application: the owner of a prompt session's surface
    AppOf,          \* the application findApplicationWithSurface() returns
    XwaylandApp,    \* the application "xwayland.qtmir", which owns all X11 surfaces
    NameContains,   \* X11 surfaces and applications whose id contains the surface's
    NameResembles,  \* ... and those whose names fuzzyNameCompare() accepts
    ChildSurfaces,  \* surfaces that have a parentSurface()
    InputMethods,   \* surfaces of type InputMethodType
    NullIds,        \* ids of the null window, read from m_nextId before that is initialised
    MaxWindows,     \* bound: windows a behaviour creates, the null window aside
    Environments    \* what may happen in a behaviour

(* "refocus"    the user or Mir moves the focus between surfaces           *)
(* "hide"       clients hide and show surfaces, or start with hidden ones  *)
(* "move"       surfaces move to this workspace and away, one at a time    *)
(* "moveAll"    the whole content of the workspace moves away              *)
(* "reuse"      the address of a freed MirSurface serves a new one         *)
(* "keyboards"  a keyboard may start before the former is destroyed        *)
(* "lateStart"  applications and surfaces start during closeAllWindows()   *)
(* "orderly"    closeAllWindows() is called when all signals are delivered *)
(* "obey"       a client that is asked to close does so in the end         *)
Licences == {"refocus", "hide", "move", "moveAll", "reuse", "keyboards", "lateStart",
             "orderly", "obey"}

(* An environment: what clients and Mir may do in a behaviour, the         *)
(* applications and surfaces there may be, and, a bound, the number of     *)
(* undelivered signals beyond which nothing new happens.                   *)
EnvironmentRecords ==
    [licences : SUBSET Licences, apps : SUBSET Apps, surfaces : SUBSET Surfaces,
     maxEvents : Nat]

ASSUME SurfacesAssumption ==
    /\ IsFiniteSet(Surfaces) /\ NoSurface \notin Surfaces
    /\ NoApp \notin Apps
    /\ AppOf \in [Surfaces -> Apps \cup {NoApp}]
    /\ ChildSurfaces \subseteq Surfaces
    /\ InputMethods \subseteq Surfaces \ ChildSurfaces
    /\ NameContains \cup NameResembles \subseteq Surfaces \X Apps

ASSUME BoundsAssumption == MaxWindows \in Nat

ASSUME AppsAssumption == TouchApps \subseteq Apps /\ SplashApps \subseteq Apps

ASSUME EnvironmentsAssumption == Environments \subseteq EnvironmentRecords

NullWindow == 0
NoWindow == -1
Windows == 0 .. MaxWindows
IsTopLevel(s) == s \notin ChildSurfaces \cup InputMethods /\ AppOf[s] # NoApp

VARIABLES
    rows,           \* m_windowModel: windows from front to back
    entryApp,       \* ModelEntry::application of a window's row
    removeOnce,     \* windows whose ModelEntry::removeOnceSurfaceDestroyed is set
    windows,        \* Window objects that exist
    condemned,      \* those deleteLater() was called for
    nextId,         \* m_nextId
    surfaceOf,      \* Window::m_surface
    hasFocus,       \* Window::m_focused
    hiddenWindows,  \* windows whose Window::m_state is HiddenState
    focus,          \* m_focusedWindow, m_previousWindow, m_focusedWindowCleared,
                    \* m_pendingActivation; and whether a deleted window was used
    busy,           \* m_surfaceManagerBusy
    inputMethodWindow,
    allSurfaces,    \* m_allSurfaces
    deferred,       \* surfaces whose first show a stateChanged lambda waits for
    closingAllApps,
    closedAllWindows, \* closedAllWindows() was emitted since closeAllWindows()
    nullId,         \* the id the null window got
    environment     \* of this behaviour

modelVars == <<rows, entryApp, removeOnce, windows, condemned, nextId, surfaceOf,
               hasFocus, hiddenWindows, focus, busy, inputMethodWindow, allSurfaces,
               deferred, closingAllApps, closedAllWindows, nullId, environment>>

VARIABLES
    appState,       \* "new", "running" (listed by ApplicationManager) or "stopped"
    closeAsked,     \* live surfaces and applications that were asked to close
    mirLife,        \* a surface in Mir: "none", "live", "dead" or "gone"
    mirHere,        \* surfaces Mir has on this model's workspace
    mirHidden,      \* surfaces Mir has in HiddenState
    mirFocus,       \* the surface Mir gives its focus
    events,         \* signals of SurfaceManager and MirSurface not yet delivered
    liveSurfaces,   \* MirSurface objects whose live() holds
    qtHidden,       \* MirSurface objects whose state() is HiddenState
    qtFocused       \* MirSurface objects whose focused() holds

mirVars == <<appState, closeAsked, mirLife, mirHere, mirHidden, mirFocus>>
objectVars == <<liveSurfaces, qtHidden, qtFocused>>
vars == <<modelVars, mirVars, events, objectVars>>

Allowed(licence) == licence \in environment.licences

-----------------------------------------------------------------------------
(* Signals.                                                                *)

Event(kind, s) == [kind |-> kind, of |-> <<s>>]
Started == [kind |-> "started", of |-> <<>>]
Ended == [kind |-> "ended", of |-> <<>>]
EventKinds == {"started", "ended", "lost", "gained", "raised", "added", "away",
               "hidden", "shown", "died", "destroyed"}
Brackets == {"started", "ended"}
Signals == [kind : Brackets, of : {<<>>}]
           \cup [kind : EventKinds \ Brackets, of : Seq(Surfaces) \ {<<>>}]

(* The block of signals by which Mir reports that its focus moved.         *)
FocusSignals(old, new) ==
    (IF old = NoSurface THEN <<>> ELSE <<Event("lost", old)>>)
    \o (IF new = NoSurface THEN <<>> ELSE <<Event("gained", new), Event("raised", new)>>)

Live(s) == s # NoSurface /\ mirLife[s] = "live"

(* SurfaceManager::activate(): Mir restores a hidden surface it activates. *)
MirActivate(s, queue) ==
    IF s = mirFocus \/ (s # NoSurface /\ ~Live(s))
    THEN events' = queue /\ UNCHANGED <<mirFocus, mirHidden>>
    ELSE /\ mirFocus' = s
         /\ mirHidden' = mirHidden \ {s}
         /\ events' = queue \o <<Started>>
                      \o (IF s \in mirHidden THEN <<Event("shown", s)>> ELSE <<>>)
                      \o FocusSignals(mirFocus, s) \o <<Ended>>

(* SurfaceManager::raise().                                                *)
MirRaise(s, queue) ==
    IF Live(s) THEN queue \o <<Started, Event("raised", s), Ended>> ELSE queue

-----------------------------------------------------------------------------
(* The rows.                                                               *)

InRows(w, r) == \E i \in DOMAIN r : r[i] = w
IndexForId(id, r) == SelectInSeq(r, LAMBDA w : w = id)
IndexOf(s, r, sf) == SelectInSeq(r, LAMBDA w : sf[w] = s)
CopyToFront(r, i) == <<r[i]>> \o r  \* variant: inserts without taking the row out
MoveToFront(r, i) == <<r[i]>> \o RemoveAt(r, i)
Without(r, R) ==
    LET kept == {i \in DOMAIN r : r[i] \notin R}
        Nth(k) == CHOOSE i \in kept : Cardinality({j \in kept : j <= i}) = k
    IN  [k \in 1 .. Cardinality(kept) |-> r[Nth(k)]]
IdOf(w) == IF w = NullWindow THEN nullId ELSE w

(* The row a new surface fills: one without a surface or with a dead one.   *)
FillableAlways(w) == TRUE  \* variant: does not ask for the row's surface
Fillable(w) == surfaceOf[w] = NoSurface \/ surfaceOf[w] \notin liveSurfaces
FirstFillable(apps) == SelectInSeq(rows, LAMBDA w : Fillable(w) /\ entryApp[w] \in apps)
Resembling(s) == {i \in DOMAIN rows : Fillable(rows[i]) /\ <<s, entryApp[rows[i]]>> \in NameResembles}
FillRow(s) ==
    LET same == FirstFillable({AppOf[s]})
        containing == FirstFillable({a \in Apps : <<s, a>> \in NameContains})
    IN  IF same # 0 \/ AppOf[s] # XwaylandApp THEN same
        ELSE IF containing # 0 THEN containing
        ELSE IF Cardinality(Resembling(s)) = 1 THEN CHOOSE i \in Resembling(s) : TRUE
        ELSE 0

(* Variant: counts the others.                                             *)
CountOtherWindowsWithApplication(a) == Cardinality({i \in DOMAIN rows : entryApp[rows[i]] = a}) - 1
CountWindowsWithApplication(a) == Cardinality({i \in DOMAIN rows : entryApp[rows[i]] = a})

-----------------------------------------------------------------------------
(* Focus.                                                                  *)

(* setFocusedWindow(), which asks the window it leaves whether it has the  *)
(* focus: "usedDeleted" records that this window no longer existed.        *)
SetFocusedWindow(f, w) ==
    IF w = f.window
    THEN [f EXCEPT !.pending = FALSE]
    ELSE [f EXCEPT !.window = w,
                   !.previous = f.window,
                   !.pending = FALSE,
                   !.usedDeleted = @ \/ f.window \notin windows \cup {NoWindow}]

(* ... and takes the focus from it itself if Mir does not know about it.   *)
LeaveToMir(hf, sf, f, w) == hf  \* variant: leaves that to Mir
LeaveEmpty(hf, sf, f, w) ==
    IF w # f.window /\ f.window # NoWindow /\ sf[f.window] = NoSurface
    THEN [hf EXCEPT ![f.window] = FALSE]
    ELSE hf

(* The focusedChanged handler of a window backed by a surface.             *)
(* Variant: the focus it gains does not undo the focus another lost.       *)
FocusedChangedOnce(f, w, focused) ==
    IF focused THEN SetFocusedWindow(f, w)
    ELSE IF f.window = w THEN [f EXCEPT !.cleared = TRUE]
    ELSE f
FocusedChanged(f, w, focused) ==
    IF focused THEN [SetFocusedWindow(f, w) EXCEPT !.cleared = FALSE]
    ELSE IF f.window = w THEN [f EXCEPT !.cleared = TRUE]
    ELSE f

(* What removeAt() leaves of the focus when the rows of R go.              *)
(* Variant: setFocusedWindow() has the last word on m_previousWindow.      *)
ForgetFocusedWindow(f, R) ==
    [f EXCEPT !.window = IF @ \in R THEN NoWindow ELSE @,
              !.previous = IF f.window \in R THEN f.window ELSE IF @ \in R THEN NoWindow ELSE @,
              !.cleared = @ /\ f.window \notin R,
              !.pending = @ /\ f.window \notin R]
ForgetWindows(f, R) ==
    [f EXCEPT !.window = IF @ \in R THEN NoWindow ELSE @,
              !.previous = IF @ \in R \/ f.window \in R THEN NoWindow ELSE @,
              !.cleared = @ /\ f.window \notin R,
              !.pending = @ /\ f.window \notin R]

(* raiseId() of an idle model: Mir raises a window whose surface lives and *)
(* the model moves any other window itself.                                *)
RaisesItself(r, sf, i) == sf[r[i]] = NoSurface \/ sf[r[i]] \notin liveSurfaces
RaisedOrAddedRows(id, r, sf) ==  \* variant: has the null window for what it does not find
    LET i == IndexForId(id, r)
    IN  IF i = 0 THEN <<NullWindow>> \o r ELSE MoveToFront(r, i)
RaisedRows(id, r, sf) ==
    LET i == IndexForId(id, r)
    IN  IF i > 1 /\ RaisesItself(r, sf, i) THEN MoveToFront(r, i) ELSE r
RaisedQueue(id, r, sf, queue) ==
    LET i == IndexForId(id, r)
    IN  IF i > 1 /\ ~RaisesItself(r, sf, i) THEN MirRaise(sf[r[i]], queue) ELSE queue

(* activateEmptyWindow(): the model focuses and raises the window, then    *)
(* has Mir drop the focus of the surface that had it so far.               *)
ActivateEmptyWindow(w, r, sf, hf, f, queue) ==
    LET old == f.window
        queue1 == RaisedQueue(IdOf(w), r, sf, queue)
    IN  /\ rows' = RaisedRows(IdOf(w), r, sf)
        /\ hasFocus' = LeaveEmpty([hf EXCEPT ![w] = TRUE], sf, f, w)
        /\ focus' = SetFocusedWindow(f, w)
        /\ IF old # NoWindow /\ sf[old] \in qtFocused
           THEN MirActivate(NoSurface, queue1)
           ELSE events' = queue1 /\ UNCHANGED <<mirFocus, mirHidden>>

(* Window::activate().                                                     *)
Activate(w, r, sf, hf, f, queue) ==
    IF sf[w] = NoSurface
    THEN ActivateEmptyWindow(w, r, sf, hf, f, queue)
    ELSE /\ rows' = r /\ hasFocus' = hf /\ focus' = f
         /\ MirActivate(sf[w], queue)

(* activateTopMostWindowWithoutId().                                       *)
ActivateTopMostWindowWithoutId(id, r, sf, hf, f, queue) ==
    LET i == SelectInSeq(r, LAMBDA w : w # id)
    IN  IF i = 0
        THEN /\ rows' = r /\ hasFocus' = hf /\ focus' = f /\ events' = queue
             /\ UNCHANGED <<mirFocus, mirHidden>>
        ELSE Activate(r[i], r, sf, hf, f, queue)

-----------------------------------------------------------------------------
(* The model once its surface manager and its application manager are set: *)
(* refreshWindows() has cleared it and asked for no focused window, which  *)
(* also resets m_pendingActivation.                                        *)
Init ==
    /\ rows = <<>> /\ entryApp = [w \in Windows |-> NoApp] /\ removeOnce = {}
    /\ windows = {NullWindow} /\ condemned = {} /\ nextId = 1
    /\ surfaceOf = [w \in Windows |-> NoSurface]
    /\ hasFocus = [w \in Windows |-> FALSE]
    /\ hiddenWindows = {}
    /\ focus = [window |-> NoWindow, previous |-> NoWindow, cleared |-> FALSE,
                pending |-> FALSE, usedDeleted |-> FALSE]
    /\ busy = FALSE
    /\ inputMethodWindow = NoWindow
    /\ allSurfaces = {} /\ deferred = {}
    /\ closingAllApps = FALSE /\ closedAllWindows = FALSE
    /\ nullId \in NullIds /\ environment \in Environments
    /\ appState = [a \in Apps |-> "new"] /\ closeAsked = {}
    /\ mirLife = [s \in Surfaces |-> "none"]
    /\ mirHere = {} /\ mirHidden = {} /\ mirFocus = NoSurface
    /\ events = <<>>
    /\ liveSurfaces = {} /\ qtHidden = {} /\ qtFocused = {}

-----------------------------------------------------------------------------
(* A behaviour of the model ends where the code first uses a deleted       *)
(* window: what it does from there on is undefined.                        *)
Defined == ~focus.usedDeleted

(* Applications, whose arrivals and departures ApplicationManager signals  *)
(* from within the shell's own thread.                                     *)

(* createWindow() and prependWindow(): a new Window in a row of its own.   *)
NewWindow(s) ==
    /\ nextId <= MaxWindows
    /\ nextId' = nextId + 1
    /\ windows' = windows \cup {nextId}
    /\ surfaceOf' = [surfaceOf EXCEPT ![nextId] = s]
NewEntry(w, a) ==
    /\ entryApp' = [entryApp EXCEPT ![w] = a]
    /\ removeOnce' = removeOnce \ {w}

(* addApplication() and prependPlaceholder(), in the active workspace.     *)
AddApplication(a, active) ==
    /\ Defined /\ a \in environment.apps /\ appState[a] = "new"
    /\ closingAllApps => Allowed("lateStart")
    /\ appState' = [appState EXCEPT ![a] = "running"]
    /\ IF active /\ a \in SplashApps
       THEN /\ NewWindow(NoSurface)
            /\ NewEntry(nextId, a)
            /\ Activate(nextId, <<nextId>> \o rows, surfaceOf, hasFocus, focus, events)
       ELSE UNCHANGED <<nextId, windows, surfaceOf, entryApp, removeOnce, rows, hasFocus,
                        focus, events, mirFocus, mirHidden>>
    /\ UNCHANGED <<condemned, hiddenWindows, busy, inputMethodWindow, allSurfaces, deferred,
                   closingAllApps, closedAllWindows, nullId, environment, closeAsked, mirLife,
                   mirHere, objectVars>>

(* deleteAt() of every row of R, and closedAllWindows() with the last one. *)
DeleteRowsAfterCheck(R) ==  \* variant: looks for an empty model before the rows go
    /\ rows' = Without(rows, R)
    /\ focus' = ForgetWindows(focus, R)
    /\ windows' = windows \ R
    /\ surfaceOf' = [w \in Windows |-> IF w \in R THEN NoSurface ELSE surfaceOf[w]]
    /\ hasFocus' = [w \in Windows |-> hasFocus[w] /\ w \notin R]
    /\ allSurfaces' = allSurfaces \ {surfaceOf[w] : w \in R}
    /\ closedAllWindows' = (closedAllWindows \/ (closingAllApps /\ rows = <<>>))
    /\ UNCHANGED <<entryApp, removeOnce, condemned, nextId, hiddenWindows>>
DeleteRows(R) ==
    /\ rows' = Without(rows, R)
    /\ focus' = ForgetWindows(focus, R)
    /\ windows' = windows \ R
    /\ surfaceOf' = [w \in Windows |-> IF w \in R THEN NoSurface ELSE surfaceOf[w]]
    /\ hasFocus' = [w \in Windows |-> hasFocus[w] /\ w \notin R]
    /\ allSurfaces' = allSurfaces \ {surfaceOf[w] : w \in R}
    /\ closedAllWindows' = (closedAllWindows \/ (closingAllApps /\ R # {} /\ rows' = <<>>))
    /\ UNCHANGED <<entryApp, removeOnce, condemned, nextId, hiddenWindows>>

(* removeApplication(), once the application has stopped and its surfaces  *)
(* are known to be dead.                                                   *)
RemoveApplication(a) ==
    /\ Defined /\ appState[a] = "running"
    /\ \A s \in Surfaces : AppOf[s] = a => mirLife[s] # "live" /\ s \notin liveSurfaces
    /\ appState' = [appState EXCEPT ![a] = "stopped"]
    /\ DeleteRows({w \in Windows : InRows(w, rows) /\ entryApp[w] = a})
    /\ UNCHANGED <<busy, inputMethodWindow, deferred, closingAllApps, nullId, environment,
                   closeAsked, mirLife, mirHere, mirHidden, mirFocus, events, objectVars>>

-----------------------------------------------------------------------------
(* Signals of SurfaceManager and of MirSurface, delivered in order.        *)

Deliver(kind) == Defined /\ events # <<>> /\ Head(events).kind = kind
Subject == Head(events).of[1]

(* The Window that wraps a surface; OneWindowPerSurface says it is unique. *)
HasWindow(s) == \E w \in windows : surfaceOf[w] = s
WindowOf(s) == CHOOSE w \in windows : surfaceOf[w] = s

OnModificationsStarted ==
    /\ Deliver("started")
    /\ busy' = TRUE /\ events' = Tail(events)
    /\ UNCHANGED <<rows, entryApp, removeOnce, windows, condemned, nextId, surfaceOf,
                   hasFocus, hiddenWindows, focus, inputMethodWindow, allSurfaces, deferred,
                   closingAllApps, closedAllWindows, nullId, environment, mirVars, objectVars>>

OnModificationsEnded ==
    /\ Deliver("ended")
    /\ busy' = FALSE /\ events' = Tail(events)
    /\ IF focus.cleared
       THEN /\ focus' = [SetFocusedWindow(focus, NoWindow) EXCEPT !.cleared = FALSE]
            /\ hasFocus' = LeaveEmpty(hasFocus, surfaceOf, focus, NoWindow)
       ELSE UNCHANGED <<focus, hasFocus>>
    /\ UNCHANGED <<rows, entryApp, removeOnce, windows, condemned, nextId, surfaceOf,
                   hiddenWindows, inputMethodWindow, allSurfaces, deferred,
                   closingAllApps, closedAllWindows, nullId, environment, mirVars, objectVars>>

(* MirSurface::focusedChanged: Window::updateFocused() and its handler.    *)
UpdateFocused(kind, focused) ==
    /\ Deliver(kind)
    /\ events' = Tail(events)
    /\ qtFocused' = IF focused THEN qtFocused \cup {Subject} ELSE qtFocused \ {Subject}
    /\ IF HasWindow(Subject) /\ hasFocus[WindowOf(Subject)] # focused
       THEN LET w == WindowOf(Subject)
                hf == [hasFocus EXCEPT ![w] = focused]
            IN  /\ focus' = FocusedChanged(focus, w, focused)
                /\ hasFocus' = IF focused THEN LeaveEmpty(hf, surfaceOf, focus, w) ELSE hf
       ELSE UNCHANGED <<focus, hasFocus>>
    /\ UNCHANGED <<rows, entryApp, removeOnce, windows, condemned, nextId, surfaceOf,
                   hiddenWindows, busy, inputMethodWindow, allSurfaces, deferred,
                   closingAllApps, closedAllWindows, nullId, environment, mirVars, liveSurfaces,
                   qtHidden>>
FocusLost == UpdateFocused("lost", FALSE)
FocusGained == UpdateFocused("gained", TRUE)

OnSurfacesRaised ==
    /\ Deliver("raised")
    /\ events' = Tail(events)
    /\ LET i == IndexOf(Subject, rows, surfaceOf)
       IN  rows' = IF i > 1 THEN MoveToFront(rows, i) ELSE rows
    /\ UNCHANGED <<entryApp, removeOnce, windows, condemned, nextId, surfaceOf, hasFocus,
                   hiddenWindows, focus, busy, inputMethodWindow, allSurfaces, deferred,
                   closingAllApps, closedAllWindows, nullId, environment, mirVars, objectVars>>

(* prependSurface(), with r for the rows: the surface fills a row that     *)
(* waits for one (Window::setSurface(), which brings the surface up to     *)
(* speed and then takes its state), or gets a row of its own.              *)
PrependSurface(s, r, queue) ==
    LET i == FillRow(s)
        w == rows[i]
        sf == [surfaceOf EXCEPT ![w] = s]
        focused == s \in qtFocused
        hf == [hasFocus EXCEPT ![w] = focused]
        fresh == [hasFocus EXCEPT ![nextId] = focused]
    IN  /\ allSurfaces' = allSurfaces \cup {s}
        /\ \/ /\ i # 0
              /\ surfaceOf' = sf
              /\ hasFocus' = IF focused /\ ~hasFocus[w] THEN LeaveEmpty(hf, sf, focus, w) ELSE hf
              /\ focus' = IF focused = hasFocus[w] THEN focus ELSE FocusedChanged(focus, w, focused)
              /\ rows' = r
              /\ IF hasFocus[w] THEN MirActivate(s, queue)
                 ELSE events' = queue /\ UNCHANGED <<mirFocus, mirHidden>>
              /\ UNCHANGED <<entryApp, removeOnce, nextId, windows>>
           \/ /\ i = 0
              /\ NewWindow(s)
              /\ entryApp' = [entryApp EXCEPT ![nextId] = AppOf[s]]
              /\ removeOnce' = removeOnce \ {nextId}
              /\ rows' = <<nextId>> \o r
              /\ hasFocus' = IF focused THEN LeaveEmpty(fresh, surfaceOf, focus, nextId) ELSE fresh
              /\ focus' = IF focused THEN FocusedChanged(focus, nextId, TRUE) ELSE focus
              /\ MirActivate(s, queue)

(* onSurfacesAddedToWorkspace(), for this workspace: a surface the model   *)
(* knows is skipped, a hidden one is left until it is shown, a top-level   *)
(* one gets a row and any other one only a Window, so that focusedWindow() *)
(* is up to date.                                                          *)
ArrivesAgain(s) == Deliver("added") /\ Subject = s  \* variant: does not ask m_allSurfaces
Arrives(s) == Deliver("added") /\ Subject = s /\ s \notin allSurfaces

SkipKnownSurface ==
    /\ Deliver("added") /\ Subject \in allSurfaces
    /\ events' = Tail(events)
    /\ UNCHANGED <<modelVars, mirVars, objectVars>>

DeferHiddenSurface(s) ==
    /\ Arrives(s) /\ IsTopLevel(s) /\ s \in qtHidden
    /\ deferred' = deferred \cup {s}
    /\ events' = Tail(events)
    /\ UNCHANGED <<rows, entryApp, removeOnce, windows, condemned, nextId, surfaceOf,
                   hasFocus, hiddenWindows, focus, busy, inputMethodWindow, allSurfaces,
                   closingAllApps, closedAllWindows, nullId, environment, mirVars, objectVars>>

AddTopLevelSurface(s) ==
    /\ Arrives(s) /\ IsTopLevel(s) /\ s \notin qtHidden
    /\ PrependSurface(s, rows, Tail(events))
    /\ UNCHANGED <<condemned, hiddenWindows, busy, inputMethodWindow, deferred, closingAllApps,
                   closedAllWindows, nullId, environment, appState, closeAsked, mirLife,
                   mirHere, objectVars>>

WrapSurface(s) ==
    /\ Arrives(s) /\ ~IsTopLevel(s) /\ s \notin InputMethods
    /\ NewWindow(s)
    /\ LET hf == [hasFocus EXCEPT ![nextId] = s \in qtFocused]
       IN  IF s \in qtFocused
           THEN /\ hasFocus' = LeaveEmpty(hf, surfaceOf, focus, nextId)
                /\ focus' = FocusedChanged(focus, nextId, TRUE)
           ELSE UNCHANGED <<hasFocus, focus>>
    /\ hiddenWindows' = IF s \in qtHidden THEN hiddenWindows \cup {nextId} ELSE hiddenWindows
    /\ events' = Tail(events)
    /\ UNCHANGED <<rows, entryApp, removeOnce, condemned, busy, inputMethodWindow, allSurfaces,
                   deferred, closingAllApps, closedAllWindows, nullId, environment, mirVars,
                   objectVars>>

(* setInputMethodWindow(), which deletes the one there was.                *)
SetInputMethodWindow(s) ==
    /\ Arrives(s) /\ s \in InputMethods
    /\ nextId <= MaxWindows
    /\ nextId' = nextId + 1
    /\ windows' = (windows \ {inputMethodWindow}) \cup {nextId}
    /\ surfaceOf' = [w \in Windows |-> IF w = nextId THEN s
                                       ELSE IF w = inputMethodWindow THEN NoSurface
                                       ELSE surfaceOf[w]]
    /\ inputMethodWindow' = nextId
    /\ events' = Tail(events)
    /\ UNCHANGED <<rows, entryApp, removeOnce, condemned, hasFocus, hiddenWindows, focus, busy,
                   allSurfaces, deferred, closingAllApps, closedAllWindows, nullId, environment,
                   mirVars, objectVars>>

(* onSurfacesAddedToWorkspace(), for another workspace: removeSurfaces()   *)
(* takes the rows of the surfaces away, a block of adjacent rows at a      *)
(* time. It keeps the windows, and takes only the first surface of each    *)
(* block off the list of the surfaces it knows.                            *)
Leads(ss, i) ==
    \/ i = 1
    \/ LET r == Without(rows, {w \in Windows : \E j \in 1 .. i - 2 : surfaceOf[w] = ss[j]})
           last == IndexOf(ss[i-1], r, surfaceOf)
       IN  last = 0 \/ IndexOf(ss[i], r, surfaceOf) # last + 1

RemoveSurfaces ==
    /\ Deliver("away")
    /\ LET ss == Head(events).of
           R == {w \in Windows : InRows(w, rows) /\ surfaceOf[w] \in ToSet(ss)}
       IN  /\ rows' = Without(rows, R)
           /\ surfaceOf' = [w \in Windows |-> IF w \in R THEN NoSurface ELSE surfaceOf[w]]
           /\ hasFocus' = [w \in Windows |-> hasFocus[w] /\ w \notin R]
           /\ focus' = [focus EXCEPT !.previous = IF @ \in R THEN NoWindow ELSE @]
           /\ allSurfaces' = allSurfaces \ {ss[i] : i \in {j \in DOMAIN ss : Leads(ss, j)}}
    /\ events' = Tail(events)
    /\ UNCHANGED <<entryApp, removeOnce, windows, condemned, nextId, hiddenWindows, busy,
                   inputMethodWindow, deferred, closingAllApps, closedAllWindows, nullId,
                   environment, mirVars, objectVars>>

(* MirSurface::stateChanged to HiddenState: a window that is hidden leaves *)
(* the rows, "just as if it didn't exist anymore".                         *)
SurfaceHidden ==
    /\ Deliver("hidden")
    /\ qtHidden' = qtHidden \cup {Subject}
    /\ LET W == {w \in windows : surfaceOf[w] = Subject /\ w \notin hiddenWindows}
           R == {w \in W : InRows(w, rows)}
       IN  /\ hiddenWindows' = hiddenWindows \cup W
           /\ rows' = Without(rows, R)
           /\ focus' = ForgetWindows(focus, R)
           /\ allSurfaces' = IF R = {} THEN allSurfaces ELSE allSurfaces \ {Subject}
           /\ closedAllWindows' = (closedAllWindows \/ (closingAllApps /\ R # {} /\ rows' = <<>>))
    /\ events' = Tail(events)
    /\ UNCHANGED <<entryApp, removeOnce, windows, condemned, nextId, surfaceOf, hasFocus, busy,
                   inputMethodWindow, deferred, closingAllApps, nullId, environment, mirVars,
                   liveSurfaces, qtFocused>>

(* ... and to any other state: a hidden window is put back, and a surface  *)
(* whose first show was awaited is added.                                  *)
SurfaceShown ==
    /\ Deliver("shown")
    /\ qtHidden' = qtHidden \ {Subject}
    /\ LET W == {w \in windows : surfaceOf[w] = Subject /\ w \in hiddenWindows}
           back == {w \in W : ~InRows(w, rows) /\ IsTopLevel(Subject)}
           r == IF back = {} THEN rows ELSE <<CHOOSE w \in back : TRUE>> \o rows
       IN  /\ hiddenWindows' = hiddenWindows \ W
           /\ IF Subject \in deferred
              THEN PrependSurface(Subject, r, Tail(events))
              ELSE /\ rows' = r
                   /\ entryApp' = [w \in Windows |-> IF w \in back THEN AppOf[Subject]
                                                    ELSE entryApp[w]]
                   /\ removeOnce' = removeOnce \ back
                   /\ events' = Tail(events)
                   /\ UNCHANGED <<windows, nextId, surfaceOf, hasFocus, focus,
                                  allSurfaces, mirFocus, mirHidden>>
    /\ deferred' = deferred \ {Subject}
    /\ UNCHANGED <<condemned, busy, inputMethodWindow, closingAllApps, closedAllWindows, nullId,
                   environment, appState, closeAsked, mirLife, mirHere, liveSurfaces,
                   qtFocused>>

(* MirSurface::liveChanged: onSurfaceDied() decides whether the row stays, *)
(* and a window that is hidden, so that it has no row, is deleted.         *)
SurfaceDied ==
    /\ Deliver("died")
    /\ Subject \notin InputMethods
    /\ liveSurfaces' = liveSurfaces \ {Subject}
    /\ LET i == IndexOf(Subject, rows, surfaceOf)
           w == rows[i]
           H == {v \in hiddenWindows : surfaceOf[v] = Subject}
       IN  /\ removeOnce' = IF i = 0 THEN removeOnce
                            ELSE IF entryApp[w] \in TouchApps
                                    /\ CountWindowsWithApplication(entryApp[w]) = 1
                            THEN removeOnce \ {w} ELSE removeOnce \cup {w}
           /\ windows' = windows \ H
           /\ hiddenWindows' = hiddenWindows \ H
           /\ surfaceOf' = [v \in Windows |-> IF v \in H THEN NoSurface ELSE surfaceOf[v]]
           /\ hasFocus' = [v \in Windows |-> hasFocus[v] /\ v \notin H]
    /\ events' = Tail(events)
    /\ UNCHANGED <<rows, entryApp, condemned, nextId, focus, busy, inputMethodWindow,
                   allSurfaces, deferred, closingAllApps, closedAllWindows, nullId, environment,
                   mirVars, qtHidden, qtFocused>>

(* ... and removeInputMethodWindow() follows the death of any keyboard.    *)
InputMethodDiedOnly ==  \* variant: deletes the window and keeps the pointer
    /\ Deliver("died")
    /\ Subject \in InputMethods
    /\ liveSurfaces' = liveSurfaces \ {Subject}
    /\ windows' = windows \ {inputMethodWindow}
    /\ events' = Tail(events)
    /\ UNCHANGED <<rows, entryApp, removeOnce, condemned, nextId, hiddenWindows, busy, deferred,
                   closingAllApps, closedAllWindows, nullId, environment, mirVars, qtHidden,
                   qtFocused, surfaceOf, hasFocus, focus, allSurfaces, inputMethodWindow>>
InputMethodDied ==
    /\ Deliver("died")
    /\ Subject \in InputMethods
    /\ liveSurfaces' = liveSurfaces \ {Subject}
    /\ LET w == inputMethodWindow
       IN  IF w = NoWindow
           THEN UNCHANGED <<windows, surfaceOf, hasFocus, focus, allSurfaces, inputMethodWindow>>
           ELSE /\ windows' = windows \ {w}
                /\ allSurfaces' = allSurfaces \ {surfaceOf[w]}
                /\ surfaceOf' = [surfaceOf EXCEPT ![w] = NoSurface]
                /\ hasFocus' = [hasFocus EXCEPT ![w] = FALSE]
                /\ focus' = IF focus.window = w
                            THEN [SetFocusedWindow(focus, NoWindow) EXCEPT !.cleared = FALSE]
                            ELSE focus
                /\ inputMethodWindow' = NoWindow
    /\ events' = Tail(events)
    /\ UNCHANGED <<rows, entryApp, removeOnce, condemned, nextId, hiddenWindows, busy, deferred,
                   closingAllApps, closedAllWindows, nullId, environment, mirVars, qtHidden,
                   qtFocused>>

(* surfaceRemoved and QObject::destroyed: onSurfaceDestroyed() deletes the *)
(* row or keeps it, without surface and focus; a Window outside the rows   *)
(* lets go of the surface and is deleted later.                            *)
SurfaceDestroyed ==
    /\ Deliver("destroyed")
    /\ LET i == IndexOf(Subject, rows, surfaceOf)
           w == rows[i]
           doomed == \/ w \in removeOnce
                     \/ entryApp[w] \notin TouchApps \/ entryApp[w] = XwaylandApp
           wrapper == {v \in windows : surfaceOf[v] = Subject}
       IN  \/ /\ i # 0 /\ doomed
              /\ DeleteRows({w})
           \/ /\ i # 0 /\ ~doomed
              /\ hasFocus' = [hasFocus EXCEPT ![w] = FALSE]
              /\ focus' = IF hasFocus[w] THEN FocusedChanged(focus, w, FALSE) ELSE focus
              /\ allSurfaces' = allSurfaces \ {Subject}
              /\ surfaceOf' = [surfaceOf EXCEPT ![w] = NoSurface]
              /\ UNCHANGED <<rows, windows, closedAllWindows, entryApp, removeOnce, condemned,
                             nextId, hiddenWindows>>
           \/ /\ i = 0
              /\ surfaceOf' = [v \in Windows |-> IF v \in wrapper THEN NoSurface ELSE surfaceOf[v]]
              /\ condemned' = condemned \cup wrapper
              /\ UNCHANGED <<rows, focus, windows, hasFocus, allSurfaces, closedAllWindows,
                             entryApp, removeOnce, nextId, hiddenWindows>>
    /\ qtFocused' = qtFocused \ {Subject}
    /\ qtHidden' = qtHidden \ {Subject}
    /\ deferred' = deferred \ {Subject}
    /\ events' = Tail(events)
    /\ UNCHANGED <<busy, inputMethodWindow, closingAllApps, nullId, environment, mirVars,
                   liveSurfaces>>

(* The event loop gets round to a deleteLater().                           *)
DeferredDelete(w) ==
    /\ Defined /\ w \in condemned
    /\ condemned' = condemned \ {w}
    /\ windows' = windows \ {w}
    /\ hasFocus' = [hasFocus EXCEPT ![w] = FALSE]
    /\ hiddenWindows' = hiddenWindows \ {w}
    /\ UNCHANGED <<rows, entryApp, removeOnce, nextId, surfaceOf, focus, busy,
                   inputMethodWindow, allSurfaces, deferred, closingAllApps, closedAllWindows,
                   nullId, environment, mirVars, events, objectVars>>

-----------------------------------------------------------------------------
(* Calls of the shell's QML.                                               *)

Quiet == Defined /\ Len(events) <= environment.maxEvents

unfocusable == <<entryApp, removeOnce, windows, condemned, nextId, surfaceOf, hiddenWindows,
                 busy, inputMethodWindow, allSurfaces, deferred, nullId, environment, appState,
                 mirLife, mirHere, objectVars>>

(* A window that exists answers focused() truly, a deleted one in any way; *)
(* activating a deleted one has no effect the model knows of.              *)
SetRootFocus(wanted) ==
    LET prev == focus.previous
        read == [focus EXCEPT !.usedDeleted = @ \/ prev \notin windows \cup {NoWindow}]
        back == /\ prev \notin {NoWindow, NullWindow}
                /\ ~focus.pending /\ focus.window = NullWindow
    IN  /\ Quiet /\ ~busy
        /\ \/ /\ wanted /\ prev \in windows /\ ~hasFocus[prev] /\ back
              /\ Activate(prev, rows, surfaceOf, hasFocus, focus, events)
           \/ /\ wanted /\ prev \notin windows \cup {NoWindow} /\ (back \/ focus.pending)
              /\ focus' = read
              /\ UNCHANGED <<rows, hasFocus, events, mirFocus, mirHidden>>
           \/ /\ wanted /\ ~focus.pending
              /\ back => prev \notin windows \/ hasFocus[prev]
              /\ ActivateTopMostWindowWithoutId(-1, rows, surfaceOf, hasFocus, read, events)
           \/ /\ ~wanted /\ ~hasFocus[NullWindow]
              /\ Activate(NullWindow, rows, surfaceOf, hasFocus, focus, events)
        /\ UNCHANGED <<unfocusable, closeAsked, closingAllApps, closedAllWindows>>

RaiseId(id) ==
    /\ Quiet
    /\ rows' = RaisedRows(id, rows, surfaceOf)
    /\ events' = RaisedQueue(id, rows, surfaceOf, events)
    /\ UNCHANGED <<unfocusable, hasFocus, focus, mirFocus, mirHidden, closeAsked,
                   closingAllApps, closedAllWindows>>

PendingActivation ==
    /\ Defined
    /\ focus' = [focus EXCEPT !.pending = TRUE]
    /\ UNCHANGED <<unfocusable, rows, events, hasFocus, mirFocus, mirHidden, closeAsked,
                   closingAllApps, closedAllWindows>>

ActivateWindow(w) ==
    /\ Quiet /\ InRows(w, rows)
    /\ Activate(w, rows, surfaceOf, hasFocus, focus, events)
    /\ UNCHANGED <<unfocusable, closeAsked, closingAllApps, closedAllWindows>>

(* Window::close() asks the surface's client, or the application of a      *)
(* window without surface; the focus then passes to another window. Where  *)
(* clients do not "obey" they die when they please, asked or not.           *)
CloseTarget(w) ==
    IF ~Allowed("obey") THEN {}
    ELSE IF surfaceOf[w] = NoSurface THEN {entryApp[w]}
    ELSE IF Live(surfaceOf[w]) THEN {surfaceOf[w]} ELSE {}

CloseWindow(w) ==
    /\ Quiet /\ InRows(w, rows)
    /\ closeAsked' = closeAsked \cup CloseTarget(w)
    /\ IF surfaceOf[w] = NoSurface /\ hasFocus[w]
       THEN ActivateTopMostWindowWithoutId(w, rows, surfaceOf, hasFocus, focus, events)
       ELSE UNCHANGED <<rows, hasFocus, focus, events, mirFocus, mirHidden>>
    /\ UNCHANGED <<unfocusable, closingAllApps, closedAllWindows>>

(* closeAllWindows() closes row after row. Closing a focused window        *)
(* without surface activates the topmost other window, which moves to the  *)
(* front if it has no surface either: when the first row hands the focus   *)
(* to the second that way, the loop finds the first again in its place.    *)
EmptyFocused == {w \in Windows : InRows(w, rows) /\ surfaceOf[w] = NoSurface /\ hasFocus[w]}
PassedOver(i) ==
    /\ i = 2 /\ rows[1] \in EmptyFocused
    /\ RaisesItself(rows, surfaceOf, 2) /\ surfaceOf[rows[2]] = NoSurface

CloseAllWindows ==
    /\ Quiet /\ ~closingAllApps
    /\ Allowed("orderly") => events = <<>>
    /\ closingAllApps' = TRUE
    /\ closedAllWindows' = (rows = <<>>)
    /\ closeAsked' = closeAsked \cup
           UNION {CloseTarget(rows[i]) : i \in {j \in DOMAIN rows : ~PassedOver(j)}}
    /\ \/ /\ EmptyFocused = {}
          /\ UNCHANGED <<rows, hasFocus, focus, events, mirFocus, mirHidden>>
       \/ \E w \in EmptyFocused :
             ActivateTopMostWindowWithoutId(w, rows, surfaceOf, hasFocus, focus, events)
    /\ UNCHANGED unfocusable

-----------------------------------------------------------------------------
(* Clients and Mir. Each step is a block of signals, as in the             *)
(* SurfaceManager the repository's tests drive the model with; in the      *)
(* session the blocks arrive later, as the comment on pendingActivation()  *)
(* says.                                                                   *)

Focusable == {s \in Surfaces \ InputMethods : Live(s) /\ s \notin mirHidden}
Pending(s) == \E i \in DOMAIN events : s \in ToSet(events[i].of)

(* A client creates a surface, hidden or not, here or on another workspace.*)
(* The address of a MirSurface that was freed may serve a new one.         *)
CreateSurface(s, hide, here) ==
    /\ Quiet /\ s \in environment.surfaces
    /\ \/ mirLife[s] = "none"
       \/ mirLife[s] = "gone" /\ ~Pending(s) /\ Allowed("reuse")
    /\ AppOf[s] # NoApp => appState[AppOf[s]] = "running"
    /\ closingAllApps => Allowed("lateStart")
    /\ hide => Allowed("hide") /\ s \notin InputMethods
    /\ ~here => Allowed("move") /\ IsTopLevel(s)
    /\ s \in InputMethods => Allowed("keyboards")
                             \/ \A t \in InputMethods : mirLife[t] \in {"none", "gone"}
    /\ mirLife' = [mirLife EXCEPT ![s] = "live"]
    /\ mirHere' = IF here THEN mirHere \cup {s} ELSE mirHere \ {s}
    /\ mirHidden' = IF hide THEN mirHidden \cup {s} ELSE mirHidden \ {s}
    /\ qtHidden' = IF hide THEN qtHidden \cup {s} ELSE qtHidden \ {s}
    /\ liveSurfaces' = liveSurfaces \cup {s}
    /\ events' = Append(events, Event(IF here THEN "added" ELSE "away", s))
    /\ UNCHANGED <<modelVars, appState, closeAsked, mirFocus, qtFocused>>

(* The user, or Mir's own policy, gives the focus to a surface.            *)
Refocus(s) ==
    /\ Quiet /\ s \in Focusable /\ s # mirFocus /\ Allowed("refocus")
    /\ MirActivate(s, events)
    /\ UNCHANGED <<modelVars, appState, closeAsked, mirLife, mirHere, objectVars>>

(* The focus leaves s for some other surface that can have it, if any.     *)
HideSurface(s, next) ==
    LET others == Focusable \ {s}
    IN  /\ Quiet /\ Allowed("hide") /\ s \in Focusable
        /\ IF mirFocus = s /\ others # {} THEN next \in others ELSE next = NoSurface
        /\ mirFocus' = IF mirFocus = s THEN next ELSE mirFocus
        /\ mirHidden' = mirHidden \cup {s}
        /\ events' = events \o <<Started, Event("hidden", s)>>
                     \o (IF mirFocus = s THEN FocusSignals(s, next) ELSE <<>>) \o <<Ended>>
        /\ UNCHANGED <<modelVars, appState, closeAsked, mirLife, mirHere, objectVars>>

ShowSurface(s) ==
    /\ Quiet /\ Live(s) /\ s \in mirHidden
    /\ mirHidden' = mirHidden \ {s}
    /\ events' = events \o <<Started, Event("shown", s), Ended>>
    /\ UNCHANGED <<modelVars, appState, closeAsked, mirLife, mirHere, mirFocus, objectVars>>

(* A client dies, whether it was asked to close, crashed or was killed for *)
(* want of memory, and later its surface is destroyed.                     *)
Asked(s) == {s, AppOf[s]} \cap closeAsked # {}

Die(s) ==
    /\ Defined /\ Live(s) /\ (Quiet \/ Asked(s))
    /\ mirLife' = [mirLife EXCEPT ![s] = "dead"]
    /\ events' = Append(events, Event("died", s))
    /\ UNCHANGED <<modelVars, appState, closeAsked, mirHere, mirHidden, mirFocus, objectVars>>

Destroy(s, next) ==
    /\ Defined /\ mirLife[s] = "dead" /\ (Quiet \/ Asked(s))
    /\ IF mirFocus = s /\ Focusable # {} THEN next \in Focusable ELSE next = NoSurface
    /\ mirLife' = [mirLife EXCEPT ![s] = "gone"]
    /\ mirHere' = mirHere \ {s}
    /\ mirHidden' = mirHidden \ {s}
    /\ mirFocus' = IF mirFocus = s THEN next ELSE mirFocus
    /\ events' = events \o (IF mirFocus = s
                            THEN <<Started>> \o FocusSignals(NoSurface, next) \o <<Ended>>
                            ELSE <<>>)
                 \o <<Event("destroyed", s)>>
    /\ UNCHANGED <<modelVars, appState, closeAsked, objectVars>>

(* moveSurfaceToWorkspace(), which adds a surface again that is dropped on *)
(* the workspace it is on, and moveWorkspaceContentToWorkspace().          *)
MoveSurface(s, here) ==
    /\ Quiet /\ Allowed("move") /\ Live(s) /\ IsTopLevel(s)
    /\ mirHere' = IF here THEN mirHere \cup {s} ELSE mirHere \ {s}
    /\ events' = Append(events, Event(IF here THEN "added" ELSE "away", s))
    /\ UNCHANGED <<modelVars, appState, closeAsked, mirLife, mirHidden, mirFocus, objectVars>>

MoveWorkspaceContent ==
    /\ Quiet /\ Allowed("moveAll") /\ mirHere # {}
    /\ mirHere' = {}
    /\ \E ss \in SetToSeqs(mirHere) :
          events' = Append(events, [kind |-> "away", of |-> ss])
    /\ UNCHANGED <<modelVars, appState, closeAsked, mirLife, mirHidden, mirFocus, objectVars>>

-----------------------------------------------------------------------------
ApplicationNext == \E a \in Apps :
    RemoveApplication(a) \/ \E active \in BOOLEAN : AddApplication(a, active)

SignalNext ==
    \/ OnModificationsStarted \/ OnModificationsEnded \/ FocusLost \/ FocusGained
    \/ OnSurfacesRaised \/ SkipKnownSurface \/ RemoveSurfaces
    \/ \E s \in Surfaces : \/ DeferHiddenSurface(s) \/ AddTopLevelSurface(s)
                           \/ WrapSurface(s) \/ SetInputMethodWindow(s)
    \/ SurfaceHidden \/ SurfaceShown \/ SurfaceDied \/ InputMethodDied \/ SurfaceDestroyed

ShellNext ==
    \/ \E wanted \in BOOLEAN : SetRootFocus(wanted)
    \/ \E w \in Windows \ {NullWindow} : RaiseId(w) \/ ActivateWindow(w) \/ CloseWindow(w)
    \/ PendingActivation \/ CloseAllWindows

MirNext ==
    \/ \E s \in Surfaces : \/ \E hide, here \in BOOLEAN : CreateSurface(s, hide, here)
                           \/ Refocus(s) \/ ShowSurface(s) \/ Die(s)
                           \/ \E here \in BOOLEAN : MoveSurface(s, here)
                           \/ \E next \in Surfaces \cup {NoSurface} :
                                 HideSurface(s, next) \/ Destroy(s, next)
    \/ MoveWorkspaceContent

Next ==
    \/ ApplicationNext \/ SignalNext \/ ShellNext \/ MirNext
    \/ \E w \in Windows : DeferredDelete(w)

Spec == Init /\ [][Next]_vars

(* Qt's event loop delivers every signal; a client that was asked to close *)
(* does, what is dead is destroyed, and an application goes once it, or    *)
(* every one of its surfaces, was closed.                                  *)
Closing(a) == a \in closeAsked \/ \E s \in Surfaces : AppOf[s] = a /\ s \in closeAsked
Fairness ==
    /\ WF_vars(SignalNext)
    /\ \A s \in Surfaces : /\ WF_vars(Asked(s) /\ Die(s))
                           /\ WF_vars(\E next \in Surfaces \cup {NoSurface} : Destroy(s, next))
    /\ \A a \in Apps : WF_vars(Closing(a) /\ RemoveApplication(a))
FairSpec == Spec /\ Fairness

-----------------------------------------------------------------------------
FocusRecords == [window : Windows \cup {NoWindow}, previous : Windows \cup {NoWindow},
                 cleared : BOOLEAN, pending : BOOLEAN, usedDeleted : BOOLEAN]
SurfaceMaps == {f \in [Windows -> Surfaces \cup {NoSurface}] : f[NullWindow] = NoSurface}

(* Type invariant: the shape of the model's state, of its windows' and of  *)
(* the signals on their way.                                               *)
TypeOK ==
    /\ rows \in Seq(Windows \ {NullWindow})
    /\ entryApp \in [Windows -> Apps \cup {NoApp}]
    /\ removeOnce \subseteq Windows
    /\ windows \subseteq Windows /\ condemned \subseteq Windows \ {NullWindow}
    /\ nextId \in 1 .. MaxWindows + 1
    /\ surfaceOf \in SurfaceMaps
    /\ hasFocus \in [Windows -> BOOLEAN]
    /\ hiddenWindows \subseteq Windows
    /\ focus \in FocusRecords
    /\ busy \in BOOLEAN
    /\ inputMethodWindow \in (Windows \ {NullWindow}) \cup {NoWindow}
    /\ allSurfaces \subseteq Surfaces /\ deferred \subseteq Surfaces
    /\ closingAllApps \in BOOLEAN /\ closedAllWindows \in BOOLEAN
    /\ nullId \in NullIds /\ environment \in Environments
    /\ appState \in [Apps -> {"new", "running", "stopped"}]
    /\ closeAsked \subseteq Apps \cup {NoApp} \cup Surfaces
    /\ mirLife \in [Surfaces -> {"none", "live", "dead", "gone"}]
    /\ mirHere \subseteq Surfaces /\ mirHidden \subseteq Surfaces
    /\ mirFocus \in Surfaces \cup {NoSurface}
    /\ events \in Seq(Signals)
    /\ liveSurfaces \subseteq Surfaces /\ qtHidden \subseteq Surfaces
    /\ qtFocused \subseteq Surfaces

(* windowAt() "Will always be valid" (TopLevelWindowModel.h), and an id    *)
(* refers to one entry: the rows hold distinct windows that exist, never   *)
(* the null window, the input method or one about to be deleted.           *)
RowsAreSound ==
    /\ \A i, j \in DOMAIN rows : rows[i] = rows[j] => i = j
    /\ \A i \in DOMAIN rows :
          /\ rows[i] \in windows \ condemned /\ rows[i] \in 1 .. nextId - 1
          /\ rows[i] # inputMethodWindow

(* No two windows wrap one surface, so that a change of its focus or state *)
(* reaches one window.                                                     *)
OneWindowPerSurface ==
    \A v, w \in windows : surfaceOf[v] = surfaceOf[w] /\ surfaceOf[v] # NoSurface => v = w

(* Where no surface moves to another workspace.                            *)
Unmoved == environment.licences \cap {"move", "moveAll"} = {}

(* A window that is focused or was focused last has a row, unless it is    *)
(* the null window: setRootFocus() can follow its pointers. This is so     *)
(* where no surface moves and none is the child of another: the windows of *)
(* child surfaces have no row (NoDeletedWindowUsed shows what follows).    *)
FocusedHasRow ==
    Unmoved /\ environment.surfaces \cap ChildSurfaces = {} =>
        \A w \in {focus.window, focus.previous} :
            w = NoWindow \/ (w \in windows /\ (w = NullWindow \/ InRows(w, rows)))

(* The shell never calls a Window that was deleted.                        *)
NoDeletedWindowUsed == ~focus.usedDeleted

(* Mir does not know of windows without surface, so nothing but the model  *)
(* takes the focus back from them: at most one has it, the focused window, *)
(* which is the null window or has a row.                                  *)
EmptyFocusIsTracked ==
    \A w \in windows \ condemned :
        surfaceOf[w] = NoSurface /\ hasFocus[w] =>
            focus.window = w /\ (w = NullWindow \/ InRows(w, rows))

(* ... unless the surface of a focused window moves: removeSurfaces()      *)
(* takes its row and leaves it focused, and the model loses track.         *)
EmptyFocusIsKept == Unmoved => EmptyFocusIsTracked

(* An application that was killed leaves at most one row without surface   *)
(* for the shell to show a screenshot in (onSurfaceDied()).                *)
AtMostOneEmptyRow ==
    \A v, w \in Windows :
        /\ InRows(v, rows) /\ InRows(w, rows) /\ entryApp[v] = entryApp[w]
        /\ surfaceOf[v] = NoSurface /\ surfaceOf[w] = NoSurface
        => v = w

(* Once every signal is delivered the rows are the top-level windows: each *)
(* live surface shown on this workspace has a row, and no hidden or moved  *)
(* one has.                                                                *)
Settled == events = <<>>
RowsShowSurfaces ==
    Settled => \A s \in Surfaces :
        Live(s) /\ IsTopLevel(s) =>
            ((s \in mirHere /\ s \notin mirHidden) <=> \E i \in DOMAIN rows : surfaceOf[rows[i]] = s)

(* ... where surfaces hide and show. It survives neither surfaces that     *)
(* move to other workspaces nor the reuse of their addresses: the model    *)
(* still knows a dead surface whose row another one filled, and skips a    *)
(* new one at its address. Nor does it survive X11 surfaces, which fill    *)
(* the rows of other applications and go with those.                       *)
Stays == environment.licences \cap {"move", "moveAll", "reuse"} = {}
NoX11 == \A s \in environment.surfaces : AppOf[s] # XwaylandApp
HidingKeepsRows == Stays /\ NoX11 => RowsShowSurfaces

(* Then the model agrees with Mir on the focus, too: the window of Mir's   *)
(* focused surface is the focused window, and no other window with a       *)
(* surface still believes that it has the focus. Where surfaces move, it   *)
(* does not: a window that loses its row and then its focus sets           *)
(* m_focusedWindowCleared outside of any block of signals (cpp:448), and   *)
(* the next block drops the focus that another surface has.                *)
FocusAgreesWithMir ==
    Stays /\ Settled =>
        /\ mirFocus # NoSurface /\ HasWindow(mirFocus) =>
              focus.window = WindowOf(mirFocus) /\ hasFocus[focus.window]
        /\ \A w \in windows : hasFocus[w] => surfaceOf[w] \in {NoSurface, mirFocus}

(* No dead or deleted keyboard shows: inputMethodWindow is the window of   *)
(* an input method surface that lives, also when one keyboard follows on   *)
(* another before that is gone. And where keyboards take turns the one     *)
(* there is shows.                                                         *)
KeyboardIsKept ==
    Settled =>
        /\ inputMethodWindow # NoWindow =>
              inputMethodWindow \in windows /\ Live(surfaceOf[inputMethodWindow])
        /\ ~Allowed("keyboards") =>
              ((\E s \in InputMethods : Live(s)) => inputMethodWindow # NoWindow)

(* "Multiple Input Method Surfaces created, removing the old one!"         *)
(* (setInputMethodWindow()): the new one shows while it lives, whatever    *)
(* becomes of the old one.                                                 *)
NewKeyboardShows ==
    Settled => ((\E s \in InputMethods : Live(s)) => inputMethodWindow # NoWindow)

(* closeAllWindows() "Closes all windows, emits closedAllWindows when      *)
(* done": logging out, powering off and rebooting wait for the signal.     *)
ClosedAllWindowsFollows == closingAllApps ~> closedAllWindows

=============================================================================
