\* Any talk with PAM, handles at reused addresses, pam_start() failing, the shell
\* quitting; the other components one at a time.
CONSTANTS
  u1 = u1
  u2 = u2
  a = a
  b = b
  none = none
  NoSecret = NoSecret
  NoUser = NoUser
  Users = {u1, u2}
  OpenUsers = {u2}
  Scripts <- AnyTalk
  PoolSize = 2
  MaxConversations = 2
  Environment = {"startFails", "reuse", "quit"}
  MaxMessages = 2
  MaxChanges = 2
  UserNames = {u1, u2}
  PropertyValues = {0, 1}
  Builtin = {"builtin"}
  Custom = {"custom"}
  Proxied = {}
  MaxInFlight = 3
  Apps = {a, b}
  MaxStored = 2
  ShownApps = {a, b}
  ShownUsers = {u1, u2}
  Launchers <- SessionLaunchers
  MaxCalls = 3
  DrawerApps = {a, b}
  MaxPackages = 3
  RowValues = {0, 1}
  MaxRows = 4
  MaxLimit = 4
  HomeKeys = {a, b}
  OtherKeys = {u1}
  NoKey = none
  QuietTicks = 2
  IndicatorNames = {"a", "b"}
  IndicatorDirs <- DataDirs
  Location <- DataLocation
  Position <- IndicatorPosition
  NoDir = none
  Screens = {a, b}
  Ids = {1, 2, 3}
  Surfaces = {"x"}
  Null = none
  Numbers = {1, 2, 10}
  Longer <- OneAndTen
  MaxPlugs = 3
SPECIFICATION SpecAll
INVARIANTS TypeOK ItemsHaveReasons PinsKeepTheirOrder GreeterIsTold GreeterShowsTheUsers CacheIsCurrent DrawerIsCurrent ActiveIsOnActiveScreen MirrorFollows SurfacesAreReachable KnowsTheSession SleepsLocked ViewFollows TappedInIsolation TouchesInTurn RowsAreLoaded 
PROPERTIES PromiseKept
CONSTRAINT Bounds
\* Bounds end most behaviours, and each component may come to rest.
CHECK_DEADLOCK FALSE
