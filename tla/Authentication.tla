--------------------------- MODULE Authentication ---------------------------
(***************************************************************************)
(* What the greeter's authentication service promises to the lock screen,  *)
(* whatever threads, prompts and cancelled conversations it is made of:    *)
(* isAuthenticated() is only ever true for the user asked about last, and  *)
(* only after that user's secret was typed since the question was asked -  *)
(* unless PAM wants no secret of that user.  PamGreeter implements it.     *)
(***************************************************************************)
CONSTANTS Users,       \* the accounts; an account also stands for its secret
          OpenUsers,   \* the accounts PAM lets in without a secret
          NoSecret,    \* any response that is no account's secret
          NoUser       \* the empty user name, before the first authenticate()

VARIABLES user,          \* whom the last authenticate() asked about
          typed,         \* the responses typed since
          authenticated  \* isAuthenticated()

vars == <<user, typed, authenticated>>

Responses == Users \cup {NoSecret}

Init == user = NoUser /\ typed = {} /\ authenticated = FALSE

Ask(u) == user' = u /\ typed' = {} /\ authenticated' = FALSE

Type(rs) == typed' = typed \cup rs /\ UNCHANGED <<user, authenticated>>

Grant ==
  /\ user \in OpenUsers \/ user \in typed
  /\ authenticated' = TRUE
  /\ UNCHANGED <<user, typed>>

Next ==
  \/ \E u \in Users : Ask(u)
  \/ \E rs \in SUBSET Responses : Type(rs)
  \/ Grant

Spec == Init /\ [][Next]_vars
=============================================================================
