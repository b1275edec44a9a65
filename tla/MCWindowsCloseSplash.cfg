\* As MCWindowsCloseAll, but both applications have splash screens.
CONSTANTS
  a1 = a1
  a2 = a2
  s1 = s1
  s2 = s2
  NoSurface = NoSurface
  NoApp = NoApp
  Apps = {a1, a2}
  TouchApps = {}
  SplashApps = {a1, a2}
  Surfaces = {s1, s2}
  AppOf <- OneOfEach
  XwaylandApp = NoApp
  NameContains = {}
  NameResembles = {}
  ChildSurfaces = {}
  InputMethods = {}
  NullIds = {1}
  MaxWindows = 3
  Environments <- ClosingEnvironments
SPECIFICATION FairSpec
PROPERTIES ClosedAllWindowsFollows
\* Mir, the clients and the user may all come to rest.
CHECK_DEADLOCK FALSE
