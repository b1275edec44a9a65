\* Two keyboards, of which the second comes before the first is gone.
CONSTANTS
  a1 = a1
  a2 = a2
  s1 = s1
  s2 = s2
  NoSurface = NoSurface
  NoApp = NoApp
  Apps = {}
  TouchApps = {}
  SplashApps = {}
  Surfaces = {s1, s2}
  AppOf <- OfNoApp
  XwaylandApp = NoApp
  NameContains = {}
  NameResembles = {}
  ChildSurfaces = {}
  InputMethods = {s1, s2}
  NullIds = {1}
  MaxWindows = 3
  Environments <- TwoKeyboardsEnvironments
SPECIFICATION Spec
INVARIANTS NewKeyboardShows
\* Mir, the clients and the user may all come to rest.
CHECK_DEADLOCK FALSE
