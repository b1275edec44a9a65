--------------------------- MODULE LauncherModel ---------------------------
(***************************************************************************)
(* LauncherModel (plugins/Lomiri/Launcher): the icons of the launcher.  It *)
(* keeps the applications that are pinned in the settings, those that run  *)
(* and those that want attention, follows changes of the settings by other *)
(* processes, stores its own there, and sends each state to                *)
(* AccountsService for the greeter to show.                                *)
(*                                                                         *)
(* External: the settings (dconf) tell of each change later; the           *)
(* application manager announces an application before it has surfaces;    *)
(* what is installed changes, and Refresh is called over D-Bus.            *)
(***************************************************************************)
EXTENDS Integers, Sequences, SequencesExt

CONSTANTS
  Apps,
  MaxStored   \* bound: so many applications are written by others

VARIABLES
  list,        \* m_list
  settings,    \* what the settings hold
  cachedItems, \* GSettings::m_cachedItems
  notices,     \* the settings have still to tell of a change
  installed,   \* applications that getApplicationInfo() finds
  surfaces,    \* application -> surfaces it has, -1 if it does not run
  synced,      \* AccountsService's LauncherItems: applications, and if they are pinned
  followed     \* history: the settings that the list was last read from or stored to

launcherVars == <<list, settings, cachedItems, notices, installed, surfaces, synced, followed>>

Item(app) ==
  [app |-> app, pinned |-> FALSE, recent |-> FALSE, running |-> FALSE, countVisible |-> FALSE]
Items == [app : Apps, pinned : BOOLEAN, recent : BOOLEAN, running : BOOLEAN,
          countVisible : BOOLEAN]

Runs(app) == surfaces[app] >= 0  \* known to m_appManager
AppsOf(items) == [i \in DOMAIN items |-> items[i].app]
Find(items, app) == SelectInSeq(items, LAMBDA item : item.app = app)  \* 0 if there is none
Has(items, app) == Find(items, app) # 0
PinnedWith(apps, item) == IF item.pinned THEN Append(apps, item.app) ELSE apps
PinnedOf(items) == FoldLeft(PinnedWith, <<>>, items)
SyncItems(items) == [i \in DOMAIN items |-> [app |-> items[i].app, pinned |-> items[i].pinned]]

\* QList::move().
Moved(items, from, to) == InsertAt(RemoveAt(items, from), to, items[from])

Unpin(items, app) ==
  LET i == Find(items, app)
  IN  IF i = 0 THEN items
      ELSE IF Runs(app) THEN [items EXCEPT ![i].pinned = FALSE]
      ELSE RemoveAt(items, i)

-----------------------------------------------------------------------------
(***************************************************************************)
(* storeAppList(): GSettings remembers what it writes, so that it can tell *)
(* the echo of its own change from the changes of others.                  *)
(***************************************************************************)
Shows(items) == list' = items /\ synced' = SyncItems(items)
Stores(items) ==
  /\ Shows(items)
  /\ settings' = PinnedOf(items)
  /\ cachedItems' = PinnedOf(items)
  /\ followed' = PinnedOf(items)
  /\ notices' = (notices \/ settings' # settings)

\* move(), with pin() of the item at its new place.
Move(from, to) ==
  /\ from \in DOMAIN list /\ to \in DOMAIN list /\ from # to
  /\ Stores([Moved(list, from, to) EXCEPT ![to].pinned = TRUE])
  /\ UNCHANGED <<installed, surfaces>>

\* pin(appId, index): index 0 stands for -1.
PinListed(app, index) ==
  LET i == Find(list, app)
  IN  /\ i # 0 /\ index \in {0, i}
      /\ Stores([list EXCEPT ![i].pinned = TRUE])
      /\ UNCHANGED <<installed, surfaces>>

PinElsewhere(app, index) ==
  /\ Has(list, app) /\ index # 0
  /\ Move(Find(list, app), index)

PinNew(app, index) ==
  LET i == IF index = 0 THEN Len(list) + 1 ELSE index
  IN  /\ ~Has(list, app) /\ app \in installed /\ i <= Len(list) + 1
      /\ Stores(InsertAt(list, i, [Item(app) EXCEPT !.pinned = TRUE]))
      /\ UNCHANGED <<installed, surfaces>>

RequestRemove(app) ==
  /\ Stores(Unpin(list, app))
  /\ UNCHANGED <<installed, surfaces>>

-----------------------------------------------------------------------------
(***************************************************************************)
(* refresh(): drops what is not in the settings or not installed, and      *)
(* brings the rest to the places the settings have.  An item that is there *)
(* already keeps its pinned flag.                                          *)
(***************************************************************************)
KeptWithout(items, item) ==
  IF item.app \in installed /\ Contains(settings, item.app) THEN items ELSE Unpin(items, item.app)
Kept(items) == FoldLeft(KeptWithout, items, items)

PlacedNew(items) ==  \* variant: items that are listed stay where they are
  LET Step(acc, entry) ==
        IF Has(acc.items, entry) THEN [acc EXCEPT !.at = @ + 1]
        ELSE IF entry \notin installed THEN acc
        ELSE [at |-> acc.at + 1,
              items |-> InsertAt(acc.items, acc.at, [Item(entry) EXCEPT !.pinned = TRUE])]
  IN  FoldLeft(Step, [at |-> 1, items |-> items], settings).items
PlacedNext(acc, entry) ==
  LET i == Find(acc.items, entry)
  IN  IF i = 0 /\ entry \notin installed THEN acc
      ELSE [at |-> acc.at + 1,
            items |-> IF i = 0
                        THEN InsertAt(acc.items, acc.at, [Item(entry) EXCEPT !.pinned = TRUE])
                        ELSE Moved(acc.items, i, acc.at)]
Placed(items) == FoldLeft(PlacedNext, [at |-> 1, items |-> items], settings).items

Refreshes ==
  /\ Shows(Placed(Kept(list)))
  /\ followed' = settings

\* GSettings::onSettingsChanged() and the refresh it causes.
SettingsChanged ==
  /\ notices
  /\ notices' = FALSE
  /\ cachedItems' = settings
  /\ IF cachedItems = settings THEN UNCHANGED <<list, synced, followed>> ELSE Refreshes
  /\ UNCHANGED <<settings, installed, surfaces>>

(***************************************************************************)
(* Refresh called over D-Bus, as the package hooks do. It takes over what  *)
(* the settings have still to tell of, and GSettings does not know.        *)
(***************************************************************************)
RefreshCalled ==
  /\ Refreshes
  /\ UNCHANGED <<settings, cachedItems, notices, installed, surfaces>>

-----------------------------------------------------------------------------
\* External: another process, dconf's client, writes the settings.
OthersWrite(entries) ==
  /\ Len(entries) <= MaxStored /\ entries # settings /\ IsInjective(entries)
  /\ settings' = entries
  /\ notices' = TRUE
  /\ UNCHANGED <<list, cachedItems, installed, surfaces, synced, followed>>

\* External: packages.
InstalledChanges(app) ==
  /\ installed' = IF app \in installed THEN installed \ {app} ELSE installed \cup {app}
  /\ UNCHANGED <<list, settings, cachedItems, notices, surfaces, synced, followed>>

(***************************************************************************)
(* applicationAdded(): the application has n surfaces.                     *)
(***************************************************************************)
ApplicationAdded(app, n) ==
  LET i == Find(list, app)
  IN  /\ ~Runs(app) /\ app \in installed
      /\ surfaces' = [surfaces EXCEPT ![app] = n]
      /\ Shows(IF i # 0 THEN [list EXCEPT ![i].recent = TRUE, ![i].running = TRUE]
               ELSE IF n > 0 THEN Append(list, [Item(app) EXCEPT !.recent = TRUE, !.running = TRUE])
               ELSE list)
      /\ UNCHANGED <<settings, cachedItems, notices, installed, followed>>

\* updateSurfaceListForApp(), for the signal surfaceCountChanged.
SurfaceCountChanged(app, n) ==
  LET i == Find(list, app)
      items == IF i = 0 THEN Append(list, [Item(app) EXCEPT !.recent = TRUE, !.running = TRUE])
               ELSE list
      j == Find(items, app)
  IN  /\ Runs(app) /\ n # surfaces[app]
      /\ surfaces' = [surfaces EXCEPT ![app] = n]
      /\ IF ~items[j].pinned /\ items[j].running /\ n = 0
           THEN Shows(RemoveAt(items, j))
           ELSE /\ list' = items
                /\ synced' = IF i = 0 THEN SyncItems(items) ELSE synced
      /\ UNCHANGED <<settings, cachedItems, notices, installed, followed>>

StaysRunning(app) ==  \* variant: a pinned item is left as it is
  LET i == Find(list, app)
  IN  IF i = 0 \/ list[i].pinned THEN UNCHANGED <<list, synced>> ELSE Shows(RemoveAt(list, i))
StopsSilently(app) ==  \* variant: does not tell AccountsService
  LET i == Find(list, app)
  IN  /\ list' = IF i = 0 THEN list ELSE IF list[i].pinned THEN [list EXCEPT ![i].running = FALSE]
                 ELSE RemoveAt(list, i)
      /\ UNCHANGED synced
ItemStops(app) ==
  LET i == Find(list, app)
  IN  IF i = 0 THEN UNCHANGED <<list, synced>>
      ELSE IF list[i].pinned
        THEN list' = [list EXCEPT ![i].running = FALSE] /\ UNCHANGED synced
        ELSE Shows(RemoveAt(list, i))

ApplicationRemoved(app) ==
  /\ Runs(app)
  /\ surfaces' = [surfaces EXCEPT ![app] = -1]
  /\ ItemStops(app)
  /\ UNCHANGED <<settings, cachedItems, notices, installed, followed>>

\* countVisibleChanged(), called over D-Bus.
CountVisibleChanged(app, visible) ==
  LET i == Find(list, app)
  IN  /\ Shows(IF i # 0
                 THEN IF ~visible /\ ~list[i].pinned /\ ~list[i].recent
                        THEN RemoveAt(list, i)
                        ELSE [list EXCEPT ![i].countVisible = visible]
               ELSE IF visible /\ app \in installed
                 THEN Append(list, [Item(app) EXCEPT !.countVisible = TRUE])
               ELSE list)
      /\ UNCHANGED <<settings, cachedItems, notices, installed, surfaces, followed>>

\* The constructor refreshes the list; GSettings has not cached anything.
LauncherInit ==
  /\ settings \in {entries \in SeqOf(Apps, MaxStored) : IsInjective(entries)}
  /\ installed \in SUBSET Apps
  /\ list = Placed(<<>>) /\ synced = SyncItems(list) /\ followed = settings
  /\ cachedItems = <<>> /\ notices = FALSE
  /\ surfaces = [app \in Apps |-> -1]

LauncherNext ==
  \/ \E from, to \in DOMAIN list : Move(from, to)
  \/ \E app \in Apps :
       \/ \E index \in 0..Len(list) + 1 :
            PinListed(app, index) \/ PinElsewhere(app, index) \/ PinNew(app, index)
       \/ RequestRemove(app)
       \/ \E n \in 0..1 : ApplicationAdded(app, n) \/ SurfaceCountChanged(app, n)
       \/ ApplicationRemoved(app)
       \/ \E visible \in BOOLEAN : CountVisibleChanged(app, visible)
       \/ InstalledChanges(app)
  \/ SettingsChanged
  \/ RefreshCalled
  \/ \E entries \in SeqOf(Apps, MaxStored) : OthersWrite(entries)

LauncherSpec == LauncherInit /\ [][LauncherNext]_launcherVars

-----------------------------------------------------------------------------
LauncherTypeOK ==
  /\ list \in Seq(Items) /\ settings \in Seq(Apps) /\ cachedItems \in Seq(Apps)
  /\ notices \in BOOLEAN /\ followed \in Seq(Apps)
  /\ installed \subseteq Apps
  /\ surfaces \in [Apps -> -1..1]
  /\ synced \in Seq([app : Apps, pinned : BOOLEAN])

(***************************************************************************)
(* Every item is there once and for a reason: it is pinned, runs, or shows *)
(* a count; and an item shown as running does run.  Items come and go by   *)
(* the user, settings, applications, packages and counts, in any order     *)
(* (launchermodel.cpp:388, 410, 568, 645).                                 *)
(***************************************************************************)
ItemsHaveReasons ==
  /\ IsInjective(AppsOf(list))
  /\ \A i \in DOMAIN list :
       /\ list[i].pinned \/ list[i].countVisible \/ list[i].running \/ Runs(list[i].app)
       /\ list[i].running => Runs(list[i].app)

\* The pinned items are among the entries, and follow one another there as they do here.
PinsAsIn(items, entries) ==
  \A i, j \in DOMAIN items :
    i <= j /\ items[i].pinned /\ items[j].pinned =>
      \E k, l \in DOMAIN entries :
        k <= l /\ entries[k] = items[i].app /\ entries[l] = items[j].app

(***************************************************************************)
(* Pinned items are stored and in the order of the settings, as they were  *)
(* when the list last followed them, whether items were moved here or      *)
(* places there: an item at a wrong place would be stored there by the     *)
(* next change (launchermodel.cpp:454).                                    *)
(***************************************************************************)
PinsKeepTheirOrder == PinsAsIn(list, followed)

(***************************************************************************)
(* "GSettings will emit a changed signal to ourselves. Let's cache the     *)
(* items and only forward the changed signal when the list did actually    *)
(* change" (gsettings.cpp:65): once all is told the list has followed what *)
(* others wrote.                                                           *)
(***************************************************************************)
PinsAreFollowed == ~notices => PinsAsIn(list, settings)

(***************************************************************************)
(* What AccountsService was last sent, and the greeter shows, has the      *)
(* items of the list and which are pinned, after each way to change them.  *)
(***************************************************************************)
GreeterIsTold == synced = SyncItems(list)
=============================================================================
