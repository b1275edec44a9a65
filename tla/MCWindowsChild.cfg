\* A child surface that has the focus when it is destroyed.
CONSTANTS
  a1 = a1
  a2 = a2
  s1 = s1
  s2 = s2
  NoSurface = NoSurface
  NoApp = NoApp
  Apps = {a1}
  TouchApps = {a1}
  SplashApps = {a1}
  Surfaces = {s1, s2}
  AppOf <- BothOfOne
  XwaylandApp = NoApp
  NameContains = {}
  NameResembles = {}
  ChildSurfaces = {s2}
  InputMethods = {}
  NullIds = {1}
  MaxWindows = 3
  Environments <- RefocusingEnvironments
SPECIFICATION Spec
INVARIANTS NoDeletedWindowUsed
\* Mir, the clients and the user may all come to rest.
CHECK_DEADLOCK FALSE
