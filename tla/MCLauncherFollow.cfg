\* Pins that are stored when the launcher starts, and that others write.
CONSTANTS
  Apps = {a, b}
  MaxStored = 2
SPECIFICATION LauncherSpec
INVARIANTS PinsAreFollowed
\* The bound ends some behaviours.
CHECK_DEADLOCK FALSE
