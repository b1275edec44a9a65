\* A focused surface that moves to another workspace.
CONSTANTS
  a1 = a1
  a2 = a2
  s1 = s1
  s2 = s2
  NoSurface = NoSurface
  NoApp = NoApp
  Apps = {a1}
  TouchApps = {a1}
  SplashApps = {a1}
  Surfaces = {s1, s2}
  AppOf <- BothOfOne
  XwaylandApp = NoApp
  NameContains = {}
  NameResembles = {}
  ChildSurfaces = {}
  InputMethods = {}
  NullIds = {1}
  MaxWindows = 3
  Environments <- MovingEnvironments
SPECIFICATION Spec
INVARIANTS EmptyFocusIsTracked
\* Mir, the clients and the user may all come to rest.
CHECK_DEADLOCK FALSE
