----------------------------- MODULE Workspaces -----------------------------
(***************************************************************************)
(* Screens, their workspaces, and the two kinds of proxies the shell keeps *)
(* of them: the one the spread edits while a workspace is dragged, and     *)
(* those (of the workspace switcher, of the other screens' stages) that    *)
(* only follow.  Slots run inside the signals that call them, in the order *)
(* they were connected, so that each operator below is a call with all the *)
(* calls it leads to.                                                      *)
(***************************************************************************)
EXTENDS Integers, FiniteSets, Sequences, SequencesExt

CONSTANTS
    Screens,        \* the outputs Mir may announce
    Ids,            \* a bound: the workspaces that exist at one time, 1, 2...
    Surfaces,       \* the surfaces Mir keeps on workspaces
    Null            \* where there is no workspace or no screen

VARIABLES
    wm,             \* the manager, the screens and their proxies, see Nothing
    held,           \* the workspace whose proxy is being dragged in the spread
    dying,          \* screens removed from the model, still to be deleted
    saved           \* ScreensConfiguration: workspaces per screen name

workspacesVars == <<wm, held, dying, saved>>

Gone == 0           \* what a proxy's QPointer gives when its workspace is deleted

ASSUME WorkspacesAssumption ==
    /\ IsFiniteSet(Ids) /\ Ids \subseteq Nat \ {Gone}
    /\ Null \notin Ids \cup {Gone} \cup Screens

IndexIn(list, w) == CHOOSE i \in DOMAIN list : list[i] = w
Without(list, w) == IF Contains(list, w) THEN RemoveAt(list, IndexIn(list, w)) ELSE list
HeadOr(list) == IF list = << >> THEN Null ELSE Head(list)
OwnedBy(m, w) == {c \in Screens : w \in Range(m.list[c])}
\* Both proxy models of a screen.
Proxies == {"mirror", "edit"}
\* Workspace objects that something still refers to.
InUse(m) ==
    m.all \cup {held} \cup
    UNION {m.limbo[c] \cup Range(m.list[c]) \cup
           UNION {Range(m.proxy[k][c]) : k \in Proxies} : c \in Screens}
Fresh(m) == {w \in Ids : w \notin InUse(m)}
Lowest(S) == CHOOSE w \in S : \A v \in S : w <= v

(***************************************************************************)
(* The manager and the signals of one workspace.                           *)
(***************************************************************************)
\* WorkspaceManager::setActiveWorkspace(): the workspace that becomes active
\* is made the current one of its screen, which is activated.
SetActiveWorkspace(m, w) ==
    LET own == OwnedBy(m, w)
        m1 == [m EXCEPT !.active = w]
    IN  IF w = m.active \/ own = {} THEN m1
        ELSE LET c == CHOOSE c \in own : TRUE
             IN  [m1 EXCEPT !.current[c] = w,
                            !.activeScreen = IF c \in Range(m.plugged) THEN c ELSE @]

\* qtmir's screen becomes active: its current workspace is activated.
ScreenActive(m, c) ==
    LET m1 == [m EXCEPT !.activeScreen = c]
    IN  IF m.activeScreen = c \/ m.current[c] = Null THEN m1
        ELSE SetActiveWorkspace(m1, m.current[c])

\* WorkspaceModel::remove() with the slots of the screen and of its proxies.
RemoveKeepsCurrent(m, c, w, syncing) ==  \* variant: the screen still shows it
    [m EXCEPT !.list[c] = Without(@, w), !.limbo[c] = @ \cup {w},
              !.proxy["mirror"][c] = Without(@, w),
              !.proxy["edit"][c] = IF syncing THEN @ ELSE Without(@, w)]
RemoveWorkspace(m, c, w, syncing) ==
    LET l == Without(m.list[c], w)
    IN  [m EXCEPT !.list[c] = l,
                  !.limbo[c] = @ \cup {w},
                  !.current[c] = IF @ = w THEN HeadOr(l) ELSE @,
                  !.proxy["mirror"][c] = Without(@, w),
                  !.proxy["edit"][c] = IF syncing THEN @ ELSE Without(@, w)]

Unassign(m, w, syncing) ==
    IF OwnedBy(m, w) = {} THEN m
    ELSE RemoveWorkspace(m, CHOOSE c \in OwnedBy(m, w) : TRUE, w, syncing)

\* The screen's slot of workspaceInserted: an active workspace activates the
\* screen first, whose former current workspace then becomes the active one.
ScreenTakes(m, c, w) ==
    LET m1 == IF m.active = w THEN [ScreenActive(m, c) EXCEPT !.current[c] = w] ELSE m
    IN  IF m1.current[c] = Null THEN [m1 EXCEPT !.current[c] = w] ELSE m1

\* Workspace::assign() at row i (from 1), which also leaves every limbo.
Assign(m, w, c, i, syncing) ==
    IF w \in Range(m.list[c]) THEN m
    ELSE LET m1 == Unassign(m, w, syncing)
             m2 == ScreenTakes([m1 EXCEPT !.list[c] = InsertAt(@, i, w)], c, w)
         IN  [m2 EXCEPT !.proxy["mirror"][c] = InsertAt(@, i, w),
                        !.proxy["edit"][c] = IF syncing THEN @ ELSE InsertAt(@, i, w),
                        !.limbo = [s \in Screens |-> @[s] \ {w}]]

\* WorkspaceManager::createWorkspace()
Create(m, w) ==
    LET m1 == [m EXCEPT !.all = @ \cup {w}]
    IN  IF m1.all = {w} THEN SetActiveWorkspace(m1, w) ELSE m1

\* WorkspaceManager::destroyWorkspace(); any is what the first element of the
\* hash set happens to be.
DestroyLeavesSurfaces(m, w, any) ==  \* variant: does not move its surfaces
    LET m1 == [Unassign(m, w, FALSE) EXCEPT !.all = @ \ {w}]
    IN  IF m1.active # w THEN m1
        ELSE SetActiveWorkspace(m1, IF m1.all = {} THEN Null ELSE CHOOSE v \in m1.all : TRUE)
DestroyWorkspace(m, w, any) ==
    LET m1 == [Unassign(m, w, FALSE) EXCEPT !.all = @ \ {w}]
        next == IF m1.all = {} THEN Null
                ELSE IF any \in m1.all THEN any ELSE Lowest(m1.all)
        m2 == IF m1.active = w THEN SetActiveWorkspace(m1, next) ELSE m1
    IN  IF m2.active = Null THEN m2
        ELSE [m2 EXCEPT !.surfaces =
                 [x \in Surfaces |-> IF @[x] = w THEN m2.active ELSE @[x]]]

Forget(list, w) == [i \in DOMAIN list |-> IF list[i] = w THEN Gone ELSE list[i]]

\* ~ConcreteWorkspace()
Delete(m, w, any) ==
    LET m1 == DestroyWorkspace(m, w, any)
    IN  [m1 EXCEPT !.limbo = [c \in Screens |-> @[c] \ {w}],
                   !.proxy = [k \in Proxies |->
                                [c \in Screens |-> Forget(@[k][c], w)]]]

(***************************************************************************)
(* WorkspaceModel::sync(), the commit of the edited proxy.                 *)
(***************************************************************************)
\* Rows of the model that the proxy no longer has.
UnassignUnless(m, w, kept) == IF w \in kept THEN m ELSE Unassign(m, w, TRUE)
UnassignOthers(m, list, kept) == FoldLeft(LAMBDA a, w : UnassignUnless(a, w, kept), m, list)
SyncRemovals(m, c) == UnassignOthers(m, m.list[c], Range(m.proxy["edit"][c]))

MoveRow(list, from, to) == InsertAt(RemoveAt(list, from), to, list[from])

\* Row i of the model becomes what row i of the proxy stands for; a proxy
\* whose workspace was deleted gives a null pointer, which is called.
SyncRowUntold(m, c, i) ==  \* variant: a move is not told of
    LET w == m.proxy["edit"][c][i]
    IN  IF m.crashed \/ w = Gone THEN [m EXCEPT !.crashed = TRUE]
        ELSE IF w \notin Range(m.list[c]) THEN Assign(m, w, c, i, TRUE)
        ELSE [m EXCEPT !.list[c] = MoveRow(@, IndexIn(@, w), i)]
SyncRow(m, c, i) ==
    LET w == m.proxy["edit"][c][i]
    IN  IF m.crashed \/ w = Gone THEN [m EXCEPT !.crashed = TRUE]
        ELSE IF w \notin Range(m.list[c]) THEN Assign(m, w, c, i, TRUE)
        ELSE LET old == IndexIn(m.list[c], w)
             IN  IF old = i THEN m
                 ELSE [m EXCEPT !.list[c] = MoveRow(@, old, i),
                                !.proxy["mirror"][c] = MoveRow(@, old, i)]

SyncEachRow(m, c, rows) == FoldLeft(LAMBDA a, i : SyncRow(a, c, i), m, rows)
SyncRows(m, c) == SyncEachRow(m, c, [i \in 1..Len(m.proxy["edit"][c]) |-> i])

\* "Make sure we have at least one workspace in the model."
AtLeastOne(m, c) ==
    IF m.crashed \/ m.list[c] # << >> THEN m
    ELSE LET w == Lowest(Fresh(m))
         IN  [Assign(Create(m, w), w, c, 1, TRUE) EXCEPT !.proxy["edit"][c] = <<w>>]

\* The row the active workspace had if it was removed; its successor there
\* becomes active.
Successor(m, c, before) ==
    LET kept == Range(m.proxy["edit"][c])
        at == IndexIn(before, m.active)
        row == 1 + Cardinality({j \in 1..(at - 1) : before[j] \in kept})
        last == Len(m.list[c])
    IN  m.list[c][IF row < last THEN row ELSE last]

ReplaceActive(m, c, before) ==
    IF m.active \in Range(before) \ Range(m.proxy["edit"][c])
    THEN SetActiveWorkspace(m, Successor(m, c, before)) ELSE m

\* finishSync(): what is in limbo is deleted.
DeleteEach(m, list, any) == FoldLeft(LAMBDA a, w : Delete(a, w, any), m, list)
FinishSync(m, c, any) == DeleteEach(m, SetToSeq(m.limbo[c]), any)

SyncScreen(m, c, any) ==
    IF m.crashed THEN m
    ELSE LET m1 == AtLeastOne(SyncRows(SyncRemovals(m, c), c), c)
         IN  IF m1.crashed THEN m1
             ELSE FinishSync(ReplaceActive(m1, c, m.list[c]), c, any)

\* ConcreteScreens::sync(): screen by screen, in the order of the model.
SyncEach(m, screens, any) == FoldLeft(LAMBDA a, c : SyncScreen(a, c, any), m, screens)
Sync(m, any) == SyncEach(m, m.plugged, any)

(***************************************************************************)
(* Screens that come and go.                                               *)
(***************************************************************************)
\* ScreensConfiguration::load() for a new screen.
LoadOne(m, c) ==
    LET w == Lowest(Fresh(m))
    IN  Assign(Create(m, w), w, c, Len(m.list[c]) + 1, TRUE)

LoadEach(m, c, rows) == FoldLeft(LAMBDA a, i : LoadOne(a, c), m, rows)
LoadWorkspaces(m, c, n) == LoadEach(m, c, [i \in 1..n |-> i])

\* The new screen's proxies are made from the model it has by then.
Plugged(m, c, n) ==
    LET m1 == LoadWorkspaces(m, c, n)
    IN  [m1 EXCEPT !.plugged = Append(@, c),
                   !.proxy = [k \in Proxies |-> [@[k] EXCEPT ![c] = m1.list[c]]]]

Empty == [c \in Screens |-> << >>]
Nothing ==
    [list |-> Empty, limbo |-> [c \in Screens |-> {}],
     current |-> [c \in Screens |-> Null], active |-> Null, activeScreen |-> Null,
     all |-> {}, plugged |-> << >>, proxy |-> [k \in Proxies |-> Empty],
     surfaces |-> [x \in Surfaces |-> Null], crashed |-> FALSE]

WorkspacesInit ==
    /\ held = Null
    /\ dying = {}
    /\ saved \in [Screens -> {1, 2}]
    /\ \E c \in Screens :
          /\ Cardinality(Fresh(Nothing)) >= saved[c]
          /\ wm = Plugged(Nothing, c, saved[c])

ScreenAdded(c) ==
    /\ c \notin Range(wm.plugged) \cup dying
    /\ Cardinality(Fresh(wm)) >= saved[c]
    /\ wm' = Plugged(wm, c, saved[c])
    /\ UNCHANGED <<held, dying, saved>>

\* onScreenRemoved(): the screen leaves the model and its proxies are deleted,
\* with the proxy that is dragged over one of them.  Bound: not while one of
\* the screen's own workspaces is in the user's hand.
ScreenRemoved(c) ==
    /\ c \in Range(wm.plugged)
    /\ Len(wm.plugged) > 1
    /\ held \notin Range(wm.list[c])
    /\ saved' = [saved EXCEPT ![c] = IF Len(wm.list[c]) > 1 THEN Len(wm.list[c]) ELSE 1]
    /\ wm' = [wm EXCEPT !.plugged = Without(@, c),
                        !.proxy = [k \in Proxies |-> [@[k] EXCEPT ![c] = << >>]]]
    /\ held' = IF held \in Range(wm.proxy["edit"][c]) THEN Null ELSE held
    /\ dying' = dying \cup {c}

\* The shell of the screen is destroyed and destroys, by their index in a list
\* that shrinks, every other workspace; the model then deletes the rest.
DestroyAt(m, c, i, any) ==
    IF i > Len(m.list[c]) THEN m ELSE DestroyWorkspace(m, m.list[c][i], any)
DestroyEach(m, c, rows, any) == FoldLeft(LAMBDA a, i : DestroyAt(a, c, i, any), m, rows)
ShellDestroyed(m, c, any) == DestroyEach(m, c, [i \in 1..Len(m.list[c]) |-> i], any)

ScreenDeleted(c, any) ==
    /\ c \in dying
    /\ dying' = dying \ {c}
    /\ LET m1 == ShellDestroyed(wm, c, any)
           rest == Range(m1.list[c])
           m2 == DeleteEach(m1, m1.list[c], any)
       IN  /\ wm' = [m2 EXCEPT !.limbo[c] = {}, !.current[c] = Null]
           /\ held' = IF held \in rest THEN Gone ELSE held
    /\ UNCHANGED saved

\* qtmir's active screen changes.
ActivateScreen(c) ==
    /\ c \in Range(wm.plugged)
    /\ c # wm.activeScreen
    /\ wm' = ScreenActive(wm, c)
    /\ UNCHANGED <<held, dying, saved>>

(***************************************************************************)
(* The user in the spread and in the workspace switcher.                   *)
(***************************************************************************)
\* ProxyWorkspace::activate()
Activate(c, w) ==
    /\ held = Null
    /\ c \in Range(wm.plugged)
    /\ w \in Range(wm.proxy["mirror"][c]) \ {Gone, wm.active}
    /\ wm' = SetActiveWorkspace(wm, w)
    /\ UNCHANGED <<held, dying, saved>>

MoveSurface(x, c, w) ==
    /\ held = Null
    /\ w \in Range(wm.proxy["mirror"][c]) \ {Gone, wm.surfaces[x]}
    /\ wm' = [wm EXCEPT !.surfaces[x] = w]
    /\ UNCHANGED <<held, dying, saved>>

\* Mir shows a new surface on the active workspace; one per surface of the model.
SurfaceShown(x) ==
    /\ wm.surfaces[x] = Null
    /\ wm.active # Null
    /\ wm' = [wm EXCEPT !.surfaces[x] = wm.active]
    /\ UNCHANGED <<held, dying, saved>>

\* "Add workspace" in the menu of a screen: created, proxied and committed.
AddWorkspace(c, any) ==
    /\ held = Null
    /\ c \in Range(wm.plugged)
    /\ Fresh(wm) # {}
    /\ LET w == Lowest(Fresh(wm))
           m1 == [Create(wm, w) EXCEPT !.limbo[c] = @ \cup {w},
                                       !.proxy["edit"][c] = Append(@, w)]
       IN  wm' = Sync(m1, any)
    /\ UNCHANGED <<held, dying, saved>>

DragStart(c, w) ==
    /\ held = Null
    /\ c \in Range(wm.plugged)
    /\ Len(wm.proxy["edit"][c]) >= 2
    /\ w \in Range(wm.proxy["edit"][c])
    /\ held' = w
    /\ wm' = [wm EXCEPT !.proxy["edit"][c] = Without(@, w)]
    /\ UNCHANGED <<dying, saved>>

\* The drag enters a screen's list, moves in it, or goes on to another one.
DragTo(c, i) ==
    /\ held # Null
    /\ c \in Range(wm.plugged)
    /\ LET lists == [s \in Screens |-> Without(wm.proxy["edit"][s], held)]
       IN  /\ i \in 1..(Len(lists[c]) + 1)
           /\ wm' = [wm EXCEPT !.proxy["edit"] = [lists EXCEPT ![c] = InsertAt(@, i, held)]]
    /\ UNCHANGED <<held, dying, saved>>

\* Outside of every list the proxy belongs to none.
DragOut ==
    /\ held # Null
    /\ wm' = [wm EXCEPT !.proxy["edit"] = [s \in Screens |-> Without(@[s], held)]]
    /\ UNCHANGED <<held, dying, saved>>

\* commitScreenSetup
Drop(any) ==
    /\ held # Null
    /\ wm' = Sync(wm, any)
    /\ held' = Null
    /\ UNCHANGED <<dying, saved>>

WorkspacesNext ==
    /\ ~wm.crashed
    /\ \/ \E c \in Screens : ScreenAdded(c) \/ ScreenRemoved(c) \/ ActivateScreen(c)
       \/ \E c \in Screens, any \in Ids : ScreenDeleted(c, any)
       \/ \E c \in Screens, w \in Ids : Activate(c, w)
       \/ \E c \in Screens, w \in Ids : DragStart(c, w)
       \/ \E x \in Surfaces, c \in Screens, w \in Ids : MoveSurface(x, c, w)
       \/ \E x \in Surfaces : SurfaceShown(x)
       \/ \E c \in Screens, any \in Ids : AddWorkspace(c, any)
       \/ \E c \in Screens, i \in Ids : DragTo(c, i)
       \/ DragOut
       \/ \E any \in Ids : Drop(any)

WorkspacesSpec == WorkspacesInit /\ [][WorkspacesNext]_workspacesVars
-----------------------------------------------------------------------------
(***************************************************************************)
(* Properties                                                              *)
(***************************************************************************)
Quiet == ~wm.crashed /\ dying = {}

\* The active workspace is one of the active screen's, and every screen shows
\* one of its own: through removals, commits and unplugged screens
\* (Screen.cpp, ConcreteScreen's slots; WorkspaceManager::destroyWorkspace()).
ActiveIsOnActiveScreen ==
    Quiet =>
        /\ wm.activeScreen \in Range(wm.plugged) =>
              wm.active \in Range(wm.list[wm.activeScreen])
        /\ \A c \in Range(wm.plugged) : wm.current[c] \in Range(wm.list[c])

\* A proxy that nobody edits follows the insertions, removals and moves of
\* another proxy's commit row by row (ProxyWorkspaceModel's slots).
MirrorFollows ==
    ~wm.crashed => \A c \in Range(wm.plugged) : wm.proxy["mirror"][c] = wm.list[c]

\* No surface is left on a workspace that no screen has: what a workspace
\* held goes to the active one when it is destroyed
\* (WorkspaceManager::destroyWorkspace(), "moveWorkspaceContentToWorkspace").
SurfacesAreReachable ==
    Quiet => \A x \in Surfaces :
        wm.surfaces[x] # Null =>
            \E c \in Range(wm.plugged) : wm.surfaces[x] \in Range(wm.list[c])

\* "add drag and drop wor workspaces between screens": a workspace dropped on
\* another screen's list is still there when the commit reaches that screen.
DropsFindTheirWorkspace == ~wm.crashed
=============================================================================
