\* Two screens and three workspaces; one workspace is dragged at a time.
CONSTANTS
  Screens = {s, t}
  Ids = {1, 2, 3}
  Surfaces = {}
  Null = none
SPECIFICATION WorkspacesSpec
INVARIANTS DropsFindTheirWorkspace
\* After the crash nothing happens.
CHECK_DEADLOCK FALSE
