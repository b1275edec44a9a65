------------------------------- MODULE MCShell -------------------------------
(***************************************************************************)
(* Small instances of the greeter and of the components that keep their    *)
(* state apart from it, which TLC checks in one run: in each behaviour     *)
(* only one of them, the subject, takes steps, and the others stay in one  *)
(* of their first states.  What they share in the code is an external part *)
(* of each.                                                                *)
(***************************************************************************)
EXTENDS PamGreeter, SessionService, AccountsService, LauncherModel, GreeterLauncher,
  AppDrawerModel, LimitProxyModel, WindowInputMonitor, MouseTouchAdaptor, Indicators,
  Workspaces, InputDevices, TLC

CONSTANTS u1, u2, a, b, none

VARIABLE
  subject    \* the component that takes steps

AnyTalk == {<<>>, <<"message">>, <<"prompt">>, <<"prompt", "message">>}

Entry(app, pinned, running) == [app |-> app, pinned |-> pinned, running |-> running]
SessionLaunchers ==
  {<<>>, <<Entry(a, TRUE, TRUE)>>, <<Entry(b, TRUE, FALSE), Entry(a, TRUE, FALSE)>>,
   <<Entry(a, TRUE, FALSE), Entry(b, FALSE, TRUE)>>}

\* Two directories of the user's data directory, and one of the system's.
DataDirs == <<"unity", "home", "share">>
DataLocation == [d \in ToSet(DataDirs) |-> IF d = "share" THEN 1 ELSE 0]
IndicatorPosition ==
  [d \in ToSet(DataDirs) |-> IF d = "unity" THEN [n \in {"a", "b"} |-> IF n = "a" THEN 1 ELSE 2]
                             ELSE [n \in {"a", "b"} |-> IF n = "a" THEN 3 ELSE 2]]

\* The names of devices: event1, event10 and event2.
OneAndTen == {<<10, 1>>}

varsAll == <<subject, vars, launcherVars, shownVars, accountsVars,
  drawerVars, workspacesVars, sessionVars, limitVars, monitorVars, mouseVars, panelVars,
  deviceVars>>

Subjects == {"greeter", "launcher", "greeter's launcher", "accounts", "drawer",
  "workspaces", "session", "limit", "home key", "mouse", "indicators",
  "devices"}

InitAll ==
  /\ subject \in Subjects
  /\ \/ subject = "greeter" /\ Init
     \/ subject # "greeter" /\ Started("none") /\ currentUser = u1
  /\ LauncherInit
  /\ subject = "launcher" \/ (installed = {} /\ settings = <<>>)
  /\ ShownInit
  /\ subject = "greeter's launcher" \/ shownUser = u1
  /\ AccountsInit
  /\ \/ subject = "accounts"
     \/ user = u1 /\ accounts[u1] = accounts[u2] /\ \A p \in DOMAIN value : value[p] = 0
  /\ DrawerInit
  /\ subject = "drawer" \/ onDisk = {}
  /\ WorkspacesInit
  /\ \/ subject = "workspaces"
     \/ wm.plugged = <<a>> /\ saved = [c \in {a, b} |-> 1]
  /\ SessionInit
  /\ \/ subject = "session"
     \/ logind.active /\ canLock
  /\ LimitInit
  /\ MonitorInit
  /\ MouseInit
  /\ PanelInit
  /\ subject = "indicators" \/ existing = {}
  /\ DevicesInit
  /\ subject = "devices" \/ plugged = {}

NextAll ==
  \/ /\ subject = "greeter" /\ Next
     /\ UNCHANGED <<subject, launcherVars, shownVars,
                   accountsVars, drawerVars, workspacesVars, sessionVars, limitVars,
                   monitorVars, mouseVars, panelVars, deviceVars>>
  \/ /\ subject = "launcher" /\ LauncherNext
     /\ UNCHANGED <<subject, vars, shownVars, accountsVars,
                   drawerVars, workspacesVars, sessionVars, limitVars, monitorVars,
                   mouseVars, panelVars, deviceVars>>
  \/ /\ subject = "greeter's launcher" /\ ShownNext
     /\ UNCHANGED <<subject, vars, launcherVars, accountsVars,
                   drawerVars, workspacesVars, sessionVars, limitVars, monitorVars,
                   mouseVars, panelVars, deviceVars>>
  \/ /\ subject = "accounts" /\ AccountsNext
     /\ UNCHANGED <<subject, vars, launcherVars, shownVars,
                   drawerVars, workspacesVars, sessionVars, limitVars, monitorVars,
                   mouseVars, panelVars, deviceVars>>
  \/ /\ subject = "drawer" /\ DrawerNext
     /\ UNCHANGED <<subject, vars, launcherVars, shownVars,
                   accountsVars, workspacesVars, sessionVars, limitVars, monitorVars,
                   mouseVars, panelVars, deviceVars>>
  \/ /\ subject = "workspaces" /\ WorkspacesNext
     /\ UNCHANGED <<subject, vars, launcherVars, shownVars,
                   accountsVars, drawerVars, sessionVars, limitVars, monitorVars,
                   mouseVars, panelVars, deviceVars>>
  \/ /\ subject = "session" /\ SessionNext
     /\ UNCHANGED <<subject, vars, launcherVars, shownVars,
                   accountsVars, drawerVars, workspacesVars, limitVars, monitorVars,
                   mouseVars, panelVars, deviceVars>>
  \/ /\ subject = "limit" /\ LimitNext
     /\ UNCHANGED <<subject, vars, launcherVars, shownVars,
                   accountsVars, drawerVars, workspacesVars, sessionVars, monitorVars,
                   mouseVars, panelVars, deviceVars>>
  \/ /\ subject = "home key" /\ MonitorNext
     /\ UNCHANGED <<subject, vars, launcherVars, shownVars,
                   accountsVars, drawerVars, workspacesVars, sessionVars, limitVars,
                   mouseVars, panelVars, deviceVars>>
  \/ /\ subject = "mouse" /\ MouseNext
     /\ UNCHANGED <<subject, vars, launcherVars, shownVars,
                   accountsVars, drawerVars, workspacesVars, sessionVars, limitVars,
                   monitorVars, panelVars, deviceVars>>
  \/ /\ subject = "indicators" /\ PanelNext
     /\ UNCHANGED <<subject, vars, launcherVars, shownVars,
                   accountsVars, drawerVars, workspacesVars, sessionVars, limitVars,
                   monitorVars, mouseVars, deviceVars>>
  \/ /\ subject = "devices" /\ DevicesNext
     /\ UNCHANGED <<subject, vars, launcherVars, shownVars,
                   accountsVars, drawerVars, workspacesVars, sessionVars, limitVars,
                   monitorVars, mouseVars, panelVars>>

\* Bounds: the launcher treats its applications alike, and only one of them shows counts,
\* runs without surfaces and is uninstalled. Changes of two of the indicators' directories
\* are outstanding, and one of the directories may be missing.
Bounds ==
  /\ subject = "launcher" =>
       /\ \A i \in DOMAIN list : list[i].countVisible => list[i].app = a
       /\ surfaces[b] # 0 /\ b \in installed
  /\ subject = "indicators" => dirNotices # AllDirs /\ {"home", "share"} \subseteq existing

SpecAll == InitAll /\ [][NextAll]_varsAll

==============================================================================
