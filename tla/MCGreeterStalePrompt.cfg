\* A handle at the address of a freed one.
CONSTANTS
  u1 = u1
  u2 = u2
  NoSecret = NoSecret
  NoUser = NoUser
  Users = {u1, u2}
  OpenUsers = {u2}
  Scripts <- OneQuestion
  PoolSize = 2
  MaxConversations = 2
  Environment = {"reuse"}
SPECIFICATION Spec
INVARIANTS StalePromptsDismissed
\* The shell may quit and the user may stop; conversations are bounded.
CHECK_DEADLOCK FALSE
