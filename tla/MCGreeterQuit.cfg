\* The shell quits while a thread is about to ask.
CONSTANTS
  u1 = u1
  u2 = u2
  NoSecret = NoSecret
  NoUser = NoUser
  Users = {u1, u2}
  OpenUsers = {u2}
  Scripts <- OneQuestion
  PoolSize = 2
  MaxConversations = 1
  Environment = {"quit"}
SPECIFICATION FairSpec
PROPERTIES ThreadsEndAfterQuit
\* The shell may quit and the user may stop; conversations are bounded.
CHECK_DEADLOCK FALSE
