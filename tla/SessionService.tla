--------------------------- MODULE SessionService ---------------------------
(***************************************************************************)
(* DBusLomiriSessionService and its private part against logind: whether   *)
(* the session is active, the idle hint and the screensaver's view of it,  *)
(* the inhibition of the power keys, and the locks around a sleep.         *)
(*                                                                         *)
(* External: logind, on the system bus, which keeps the order of messages  *)
(* in each direction; a Get is answered with the value of that moment.     *)
(***************************************************************************)
EXTENDS Naturals, Sequences, SequencesExt

CONSTANTS
    MaxMessages,    \* a bound: messages under way in each direction
    MaxChanges      \* a bound: changes of the session and sleeps

VARIABLES
    logind,         \* its view: active, idle, asleep
    toLogind, toShell,
    isSessionActive,
    inhibitFd,      \* m_systemdInhibitFd is valid
    canLock,        \* CanLock(): the user has a password and is no guest
    lockRequested,  \* the shell was asked to lock since the last unlock
    changes

sessionVars == <<logind, toLogind, toShell, isSessionActive, inhibitFd, canLock, lockRequested, changes>>

\* DBusLomiriSessionServicePrivate(): init() and checkActive()
SessionInit ==
    /\ \E active \in BOOLEAN :
          logind = [active |-> active, idle |-> FALSE, asleep |-> FALSE]
    /\ toLogind = <<"Inhibit", "GetActive">>
    /\ toShell = << >>
    /\ isSessionActive = TRUE
    /\ inhibitFd = FALSE
    /\ canLock \in BOOLEAN
    /\ lockRequested = FALSE
    /\ changes = 0

Room(n) == Len(toLogind) + n <= MaxMessages

(***************************************************************************)
(* The shell.                                                              *)
(***************************************************************************)
IdleHint(idle) == IF idle THEN "IdleHint" ELSE "NoIdleHint"

\* setActive(): the screensaver is active when the session is not.
SetActive(active) ==
    /\ isSessionActive' = active
    /\ toLogind' = Append(toLogind, IdleHint(~active))
    /\ UNCHANGED <<inhibitFd, lockRequested>>

CheckActive == toLogind' = Append(toLogind, "GetActive")

\* PromptLock(), which a user without a password ignores.
PromptLock == lockRequested' = (lockRequested \/ canLock)

ReceiveValues(message) ==  \* variant: does not ask after an invalidation
    CASE message = "ActiveTRUE" -> SetActive(TRUE)
      [] message = "ActiveFALSE" -> SetActive(FALSE)
      [] OTHER -> UNCHANGED <<toLogind, isSessionActive, inhibitFd, lockRequested>>

\* variant: locks for its own Suspend() only
ReceiveAwake(message) ==
    IF message = "Unlock"
    THEN lockRequested' = FALSE /\ UNCHANGED <<toLogind, isSessionActive, inhibitFd>>
    ELSE UNCHANGED <<toLogind, isSessionActive, inhibitFd, lockRequested>>

Receive(message) ==
    CASE message = "ActiveTRUE" -> SetActive(TRUE)
      [] message = "ActiveFALSE" -> SetActive(FALSE)
      [] message = "Invalidated" ->
            CheckActive /\ UNCHANGED <<isSessionActive, inhibitFd, lockRequested>>
      [] message = "Fd" ->
            inhibitFd' = TRUE /\ UNCHANGED <<toLogind, isSessionActive, lockRequested>>
      \* onResuming(FALSE): setupSystemdInhibition(), unless a descriptor is held.
      [] message = "Resumed" ->
            /\ toLogind' = IF inhibitFd THEN toLogind ELSE Append(toLogind, "Inhibit")
            /\ UNCHANGED <<isSessionActive, inhibitFd, lockRequested>>
      [] message \in {"PrepareForSleep", "Lock"} ->
            PromptLock /\ UNCHANGED <<toLogind, isSessionActive, inhibitFd>>
      [] message = "Unlock" ->
            lockRequested' = FALSE /\ UNCHANGED <<toLogind, isSessionActive, inhibitFd>>
      [] OTHER -> UNCHANGED <<toLogind, isSessionActive, inhibitFd, lockRequested>>

ShellReceives ==
    /\ toShell # << >>
    /\ Room(1)
    /\ toShell' = Tail(toShell)
    /\ Receive(Head(toShell))
    /\ UNCHANGED <<logind, canLock, changes>>

\* Suspend(), Hibernate() and HybridSleep(): lock, then ask.
Suspend ==
    /\ Room(1)
    /\ PromptLock
    /\ toLogind' = Append(toLogind, "Suspend")
    /\ UNCHANGED <<logind, toShell, isSessionActive, inhibitFd, canLock, changes>>

\* SimulateUserActivity() of the screensaver interfaces.
SimulateUserActivity ==
    /\ Room(1)
    /\ toLogind' = Append(toLogind, IdleHint(FALSE))
    /\ UNCHANGED <<logind, toShell, isSessionActive, inhibitFd, canLock, lockRequested, changes>>

(***************************************************************************)
(* logind, as far as the service uses it.                                  *)
(***************************************************************************)
Answer(message) ==
    CASE message = "GetActive" -> <<IF logind.active THEN "ActiveTRUE" ELSE "ActiveFALSE">>
      [] message = "Inhibit" -> <<"Fd">>
      [] message = "Suspend" /\ ~logind.asleep -> <<"PrepareForSleep">>
      [] OTHER -> << >>

LogindReceives ==
    /\ toLogind # << >>
    /\ LET message == Head(toLogind)
       IN  /\ toShell' = toShell \o Answer(message)
           /\ logind' = [logind EXCEPT
                 !.idle = IF message = "IdleHint" THEN TRUE
                          ELSE IF message = "NoIdleHint" THEN FALSE ELSE @,
                 !.asleep = (@ \/ message = "Suspend")]
    /\ toLogind' = Tail(toLogind)
    /\ UNCHANGED <<isSessionActive, inhibitFd, canLock, lockRequested, changes>>

Emit(message) ==
    /\ changes < MaxChanges
    /\ changes' = changes + 1
    /\ toShell' = Append(toShell, message)
    /\ UNCHANGED <<toLogind, isSessionActive, inhibitFd, canLock, lockRequested>>

\* The session's seat is switched; the change may come with its value or not.
ActiveChanges ==
    \E told \in {"value", "invalidated"} :
        /\ logind' = [logind EXCEPT !.active = ~@]
        /\ Emit(IF told = "invalidated" THEN "Invalidated"
                ELSE IF logind.active THEN "ActiveFALSE" ELSE "ActiveTRUE")

\* The lid is closed, or another session suspends the machine; nobody locks or
\* unlocks it while it sleeps.
Sleeps == ~logind.asleep /\ logind' = [logind EXCEPT !.asleep = TRUE] /\ Emit("PrepareForSleep")
Wakes == logind.asleep /\ logind' = [logind EXCEPT !.asleep = FALSE] /\ Emit("Resumed")
LocksOrUnlocks == ~logind.asleep /\ \E signal \in {"Lock", "Unlock"} : UNCHANGED logind /\ Emit(signal)

SessionNext ==
    \/ ShellReceives
    \/ Suspend
    \/ SimulateUserActivity
    \/ LogindReceives
    \/ ActiveChanges
    \/ Sleeps
    \/ Wakes
    \/ LocksOrUnlocks

SessionSpec == SessionInit /\ [][SessionNext]_sessionVars
-----------------------------------------------------------------------------
(***************************************************************************)
(* Once no message is under way the service knows whether the session is   *)
(* active, however signals that carry the value, signals that only         *)
(* invalidate it and the answers of earlier Gets follow one another        *)
(* (checkActive(), onPropertiesChanged()).                                 *)
(***************************************************************************)
KnowsTheSession ==
    toLogind = << >> /\ toShell = << >> =>
        /\ isSessionActive = logind.active
        /\ logind.idle => ~logind.active

(***************************************************************************)
(* A machine that sleeps is locked once the shell has heard of it, whether *)
(* it or anybody else put the machine to sleep, if the user can lock       *)
(* (Suspend(), onResuming(), PromptLock()).                                *)
(***************************************************************************)
SleepsLocked == logind.asleep /\ toShell = << >> /\ canLock => lockRequested
=============================================================================
