\* Surfaces that move, hide and show, take the focus, die and follow one another,
\* in one environment at a time. The null window has the id of the first row's.
CONSTANTS
  a1 = a1
  a2 = a2
  s1 = s1
  t1 = t1
  u1 = u1
  s2 = s2
  child = child
  k1 = k1
  k2 = k2
  NoSurface = NoSurface
  NoApp = NoApp
  Apps = {a1, a2}
  TouchApps = {a1}
  SplashApps = {a1, a2}
  Surfaces = {s1, t1, u1, s2, child, k1, k2}
  AppOf <- Owners
  XwaylandApp = a2
  NameContains <- X11Names
  NameResembles = {}
  ChildSurfaces = {child}
  InputMethods = {k1, k2}
  NullIds = {1}
  MaxWindows = 3
  Environments <- AllEnvironments
SPECIFICATION Spec
INVARIANTS TypeOK RowsAreSound AtMostOneEmptyRow HidingKeepsRows OneWindowPerSurface FocusAgreesWithMir FocusedHasRow EmptyFocusIsKept KeyboardIsKept
SYMMETRY SameApp
\* Mir, the clients and the user may all come to rest.
CHECK_DEADLOCK FALSE
