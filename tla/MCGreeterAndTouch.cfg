\* Two questions, two at once or a message only, and one pool thread for all
\* conversations; two touches of four for a gesture; three touches for an
\* application; a phone or tablet that is turned.
CONSTANTS
  u1 = u1
  u2 = u2
  t1 = t1
  t2 = t2
  t3 = t3
  t4 = t4
  none = none
  NoSecret = NoSecret
  NoUser = NoUser
  Users = {u1, u2}
  OpenUsers = {u2}
  Scripts <- TwoQuestions
  PoolSize = 1
  MaxConversations = 2
  Environment = {"startFails"}
  AreaTouches = {t1, t2, t3, t4}
  MinimumTouchPoints = 2
  MaximumTouchPoints = 2
  Touches = {t1, t2, t3}
  NoTouch = none
  MaxStored = 2
  TargetReactions = {"touch", "mouse", "none", "disabled"}
  Interruptions = {"disable", "target", "delete"}
SPECIFICATION SpecAll
INVARIANTS PromptsAnswerable RowsAreOfTheUser MonitoredUntilReleased PointsAreLive InOrder OnlyOwnedTouches NothingStuck StreamsEnd
PROPERTIES WaitingEnds CancelledEnd ReadyAgain FollowsTheDevice
\* The user may stop typing and touching; conversations and touches are bounded.
CHECK_DEADLOCK FALSE
