--------------------------- MODULE AppDrawerModel ---------------------------
(***************************************************************************)
(* AppDrawerModel and XdgWatcher (plugins/Lomiri/Launcher): the list of    *)
(* installed applications.  A refresh lists them in a thread of its own;   *)
(* single additions and removals are told by a watcher of the directories, *)
(* and are dropped during a refresh.                                       *)
(*                                                                         *)
(* External: packages come and go; the kernel tells the watcher later.     *)
(* `queue` is what waits in the event queue of the GUI thread.  What       *)
(* appInfoChanged() updates in an item is left out.                        *)
(***************************************************************************)
EXTENDS Naturals, FiniteSets, Sequences, SequencesExt

CONSTANTS
  DrawerApps,
  MaxPackages     \* bound: packages that come and go

VARIABLES
  onDisk,         \* applications that are installed
  packages,       \* how often they have changed, bounded
  fileNotices,    \* what the kernel has still to tell
  watchedFiles,   \* XdgWatcher::m_registry, the files it watches
  queue,          \* queued signals and the end of the refresh
  worker,         \* "idle", "started" or "listed"
  result,         \* what the thread has listed
  refreshing,     \* m_refreshing
  drawer,         \* m_list
  overlapped      \* history: a refresh and a change that was not told of yet met

drawerVars == <<onDisk, packages, fileNotices, watchedFiles, queue, worker, result, refreshing,
                drawer, overlapped>>

\* Each has a desktop file in one of the directories that are searched.
ASSUME DrawerAppsAssumption == IsFiniteSet(DrawerApps)

FileChanged(app) == [kind |-> "file", app |-> app]
DirectoryChanged == [kind |-> "directory"]
AddedSignal(app) == [kind |-> "appAdded", app |-> app]
RemovedSignal(app) == [kind |-> "appRemoved", app |-> app]
Refreshed == [kind |-> "finished"]
IconCacheChanged == [kind |-> "iconCacheChanged"]

\* External: a package is installed or removed.  A file is watched until the kernel
\* has told that it is gone; one of the same name is a new one.
IsWatched(app) ==
  app \in onDisk \cap watchedFiles /\ FileChanged(app) \notin ToSet(fileNotices)
Package(app) ==
  /\ packages < MaxPackages
  /\ packages' = packages + 1
  /\ onDisk' = IF app \in onDisk THEN onDisk \ {app} ELSE onDisk \cup {app}
  /\ fileNotices' = fileNotices \o IF IsWatched(app) THEN <<FileChanged(app), DirectoryChanged>>
                                  ELSE <<DirectoryChanged>>
  /\ overlapped' = (overlapped \/ refreshing)
  /\ UNCHANGED <<watchedFiles, queue, worker, result, refreshing, drawer>>

(***************************************************************************)
(* XdgWatcher: a file that is gone is not watched any more; a directory is *)
(* searched for files that are not watched yet.  The signals are queued.   *)
(***************************************************************************)
OnFileChanged(app) ==
  /\ fileNotices # <<>> /\ Head(fileNotices) = FileChanged(app)
  /\ fileNotices' = Tail(fileNotices)
  /\ watchedFiles' = watchedFiles \ {app}
  /\ queue' = Append(queue, RemovedSignal(app))
  /\ UNCHANGED <<onDisk, packages, worker, result, refreshing, drawer, overlapped>>

OnDirectoryChanged ==
  /\ fileNotices # <<>> /\ Head(fileNotices) = DirectoryChanged
  /\ fileNotices' = Tail(fileNotices)
  /\ watchedFiles' = watchedFiles \cup onDisk
  /\ queue' = queue \o SetToSeq({AddedSignal(app) : app \in onDisk \ watchedFiles})
  /\ UNCHANGED <<onDisk, packages, worker, result, refreshing, drawer, overlapped>>

\* IconCacheWatcher: the cache of a theme was written anew.
CacheFileChanged ==
  /\ IconCacheChanged \notin ToSet(queue)
  /\ queue' = Append(queue, IconCacheChanged)
  /\ UNCHANGED <<onDisk, packages, fileNotices, watchedFiles, worker, result, refreshing, drawer,
                 overlapped>>

\* The thread of refresh().
ThreadLists ==
  /\ worker = "started"
  /\ worker' = "listed"
  /\ result' = onDisk
  /\ UNCHANGED <<onDisk, packages, fileNotices, watchedFiles, queue, refreshing, drawer,
                 overlapped>>

ThreadEnds ==
  /\ worker = "listed"
  /\ worker' = "idle"
  /\ result' = result \cap onDisk  \* the others have no application info
  /\ queue' = Append(queue, Refreshed)
  /\ UNCHANGED <<onDisk, packages, fileNotices, watchedFiles, refreshing, drawer, overlapped>>

-----------------------------------------------------------------------------
Dequeue == queue' = Tail(queue) /\ UNCHANGED <<onDisk, packages, fileNotices, watchedFiles>>

AppAdded(app) ==
  /\ drawer' = IF refreshing \/ app \notin onDisk THEN drawer ELSE Append(drawer, app)
  /\ UNCHANGED <<worker, result, refreshing, overlapped>>

AppRemovedUnknown(app) ==  \* variant: asks for its information first, as appAdded() does
  /\ drawer' = IF refreshing \/ app \notin onDisk \/ ~Contains(drawer, app) THEN drawer
               ELSE RemoveAt(drawer, SelectInSeq(drawer, LAMBDA a : a = app))
  /\ UNCHANGED <<worker, result, refreshing, overlapped>>
AppRemoved(app) ==
  /\ drawer' = IF refreshing \/ ~Contains(drawer, app) THEN drawer
               ELSE RemoveAt(drawer, SelectInSeq(drawer, LAMBDA a : a = app))
  /\ UNCHANGED <<worker, result, refreshing, overlapped>>

Untold ==
  \/ fileNotices # <<>>
  \/ \E i \in 2..Len(queue) : queue[i].kind \in {"appAdded", "appRemoved"}

RefreshDrawer ==
  /\ worker' = IF refreshing THEN worker ELSE "started"
  /\ refreshing' = TRUE
  /\ overlapped' = (overlapped \/ Untold)
  /\ UNCHANGED <<result, drawer>>

OnRefreshFinished ==
  /\ drawer' = SetToSeq(result)
  /\ refreshing' = FALSE
  /\ result' = {}
  /\ UNCHANGED <<worker, overlapped>>

HandleDrawerEvent ==
  /\ queue # <<>>
  /\ Dequeue
  /\ \/ Head(queue) = Refreshed /\ OnRefreshFinished
     \/ Head(queue) = IconCacheChanged /\ RefreshDrawer
     \/ \E app \in DrawerApps : Head(queue) = AddedSignal(app) /\ AppAdded(app)
     \/ \E app \in DrawerApps : Head(queue) = RemovedSignal(app) /\ AppRemoved(app)

\* The model's constructor starts a refresh.
DrawerInit ==
  /\ onDisk \in SUBSET DrawerApps
  /\ packages = 0
  /\ fileNotices = <<>> /\ watchedFiles = onDisk
  /\ queue = <<>>
  /\ worker = "started" /\ refreshing = TRUE
  /\ result = {}
  /\ drawer = <<>>
  /\ overlapped = FALSE

DrawerNext ==
  \/ \E app \in DrawerApps : Package(app) \/ OnFileChanged(app)
  \/ OnDirectoryChanged
  \/ CacheFileChanged
  \/ ThreadLists
  \/ ThreadEnds
  \/ HandleDrawerEvent

DrawerSpec == DrawerInit /\ [][DrawerNext]_drawerVars

-----------------------------------------------------------------------------
DrawerIsQuiet == fileNotices = <<>> /\ queue = <<>> /\ ~refreshing

(***************************************************************************)
(* Unless a package came or went during a refresh, or one was started with *)
(* a change untold, the drawer shows what is installed once all is told    *)
(* of, and each application once: applications that come and go, in quick  *)
(* succession too, refreshes and queued signals follow one another in any  *)
(* order (appdrawermodel.cpp:80, 100, 181, xdgwatcher.cpp:119, 134).       *)
(***************************************************************************)
DrawerIsCurrent == DrawerIsQuiet /\ ~overlapped => ToSet(drawer) = onDisk /\ IsInjective(drawer)
=============================================================================
