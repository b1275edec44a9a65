----------------------------- MODULE PamGreeter -----------------------------
(***************************************************************************)
(* The integrated greeter: GreeterImpl of liblightdm/GreeterPrivate.cpp,   *)
(* which talks to PAM in worker threads; plugins/LightDM/Greeter.cpp,      *)
(* which turns the talk into rows of the PromptsModel; and the parts of    *)
(* Greeter.qml, LoginList.qml and PromptList.qml that lock, ask, hide and  *)
(* ask again.                                                              *)
(*                                                                         *)
(* The main thread handles one event or user action in one step.  Each     *)
(* authenticate() starts a conversation: a PAM handle and a task of the    *)
(* global thread pool that runs authenticateWithPam().  A task posts       *)
(* messages, posts prompts (and blocks until the main thread has handled   *)
(* each), waits for the answers and ends.  Nothing waits for a cancelled   *)
(* task: it goes on with a handle pam_end() has freed, so what it reports  *)
(* is arbitrary.  A conversation is one call of converseWithPam() with all *)
(* of PAM's messages; its script says which of them are prompts.           *)
(***************************************************************************)
EXTENDS Naturals, Sequences, FiniteSets

CONSTANTS Users,             \* the accounts; an account also stands for its secret
          OpenUsers,         \* the accounts PAM lets in without a secret
          NoSecret,          \* any response that is no account's secret
          NoUser,            \* authenticationUser() before the first authenticate()
          Scripts,           \* what PAM may say: sequences of MessageStyles
          PoolSize,          \* maxThreadCount() of the global thread pool
          MaxConversations,  \* bound: conversations started in a behaviour
          Environment        \* what may happen besides, a subset of Events

MessageStyles == {"prompt", "message"}

(***************************************************************************)
(* "startFails"  pam_start() may fail                                      *)
(* "reuse"       pam_start() may return the address of a freed handle      *)
(* "quit"        the shell may quit                                        *)
(***************************************************************************)
Events == {"startFails", "reuse", "quit"}

ASSUME UsersAssumption ==
  OpenUsers \subseteq Users /\ NoUser \notin Users /\ NoSecret \notin Users
ASSUME ScriptsAssumption == Scripts \subseteq Seq(MessageStyles) /\ Scripts # {}
ASSUME BoundsAssumption ==
  PoolSize \in Nat \ {0} /\ MaxConversations \in Nat \ {0} /\ Environment \subseteq Events

VARIABLES
  \* GreeterImpl and its worker threads
  conversations,      \* every conversation started, in order
  pam,                \* the one whose handle is pamHandle, or None
  watched,            \* the one whose future futureWatcher watches, or None
  futures,            \* the ResponseFutures queued: conversation and message
  events,             \* posted to the main thread, not handled yet
  authenticationUser, \* QLightDM::Greeter::authenticationUser
  authenticated,      \* QLightDM::Greeter::isAuthenticated()
  typed,              \* history: the responses typed since authenticate()
  quitting,           \* the event loop has ended
  \* plugins/LightDM/Greeter.cpp
  prompts, leftovers, responded, everResponded,
  \* Greeter.qml and the view it loads
  view,               \* "none" (not required), "loading" or "loaded"
  enabled,            \* the view's enabled
  hiding,             \* which hide animation of the view runs, or "no"
  interactive,        \* PromptList.interactive
  forcedUnlock, currentUser

impl == <<conversations, pam, watched, futures, events, authenticationUser,
          authenticated, typed>>
rows == <<prompts, leftovers, responded, everResponded, interactive>>
lock == <<view, enabled, hiding, forcedUnlock, currentUser>>
vars == <<impl, rows, lock, quitting>>

None == 0
Unanswered == "unanswered"
Responses == Users \cup {NoSecret}

ASSUME ResponsesAssumption == Unanswered \notin Responses

\* The messages of a conversation that are prompts.
PromptsOf(script) == {k \in DOMAIN script : script[k] = "prompt"}

Message(u) == [kind |-> "message", of |-> u]
Prompt(u) == [kind |-> "prompt", of |-> u]
Button(u) == [kind |-> "button", of |-> u]

PromptRows(ps) == {i \in DOMAIN ps : ps[i].kind = "prompt"}

\* Greeter.qml: locked.  The view is loaded exactly while the greeter is active.
Locked == view # "none" /\ ~authenticated /\ ~forcedUnlock

\* The main thread is in no handler and its event loop runs.
Ready == ~quitting /\ view # "loading"

-----------------------------------------------------------------------------
(***************************************************************************)
(* GreeterImpl in the main thread                                          *)
(***************************************************************************)

\* Conversations cs when future fs[i] was given response rs[i]; futures without
\* a response stay queued, and responses without a future are lost.
Answered(cs, fs, rs) ==
  LET Given(c, k) == {i \in DOMAIN fs \cap DOMAIN rs : fs[i] = <<c, k>>}
  IN  [c \in DOMAIN cs |->
        [cs[c] EXCEPT !.answers =
          [k \in DOMAIN @ |->
            IF Given(c, k) # {} THEN rs[CHOOSE i \in Given(c, k) : TRUE] ELSE @[k]]]]

CanceledOnly(cs, c, fs) ==  \* variant: forgets the queued futures' answers
  IF c = None THEN cs ELSE [cs EXCEPT ![c].canceled = TRUE]
\* cancelPam() of conversation c: all queued futures are answered with nothing.
Cancelled(cs, c, fs) ==
  IF c = None
    THEN cs
    ELSE [Answered(cs, fs, [i \in DOMAIN fs |-> NoSecret]) EXCEPT ![c].canceled = TRUE]

\* cancelPam() leaves the queue alone when there is no conversation.
KeptFutures(c, fs) == fs  \* variant: does not empty the queue
CancelledFutures(c, fs) == IF c = None THEN fs ELSE <<>>

NewConversation(u, h, script) ==
  [user |-> u, handle |-> h, script |-> script, worker |-> "queued", said |-> 0,
   answers |-> [k \in DOMAIN script |-> Unanswered], canceled |-> FALSE, granted |-> FALSE]

\* The addresses pam_start() may return: the handles of all earlier
\* conversations have been freed by then.
Handles(cs) ==
  {Len(cs) + 1} \cup
  IF "reuse" \in Environment THEN {cs[c].handle : c \in DOMAIN cs} ELSE {}

\* setFuture() drops what the former future has posted, that it has finished.
WithoutFinished(es) ==
  IF \E i \in DOMAIN es : es[i].kind = "finished"
    THEN LET i == CHOOSE i \in DOMAIN es : es[i].kind = "finished"
         IN  SubSeq(es, 1, i - 1) \o SubSeq(es, i + 1, Len(es))
    ELSE es

StartPamUnwatched(u, cs, es, ps) ==  \* variant: without setFuture()
  /\ \E h \in Handles(cs), script \in Scripts :
       conversations' = Append(cs, NewConversation(u, h, script))
  /\ pam' = Len(cs) + 1
  /\ events' = es
  /\ prompts' = ps
  /\ UNCHANGED watched
\* The rest of start(), the old conversation being cancelled in cs.  A
\* pam_start() that fails shows a message and completes on the spot, which
\* leaves that message and a Retry button.
StartPam(u, cs, es, ps) ==
  \/ /\ \E h \in Handles(cs), script \in Scripts :
          conversations' = Append(cs, NewConversation(u, h, script))
     /\ pam' = Len(cs) + 1
     /\ watched' = Len(cs) + 1
     /\ events' = WithoutFinished(es)
     /\ prompts' = ps
  \/ /\ "startFails" \in Environment
     /\ conversations' = cs
     /\ pam' = None
     /\ UNCHANGED watched
     /\ events' = es
     /\ prompts' = ps \o <<Message(u), Button(u)>>

(***************************************************************************)
(* Greeter::authenticate(u) when the current conversation is c, es are the *)
(* events not handled, left the leftovers.  Clearing the rows resets the   *)
(* model, which makes the prompt list interactive.                         *)
(***************************************************************************)
KeptAllRows(u, left) == left  \* variant: whoever they were for
KeptRows(u, left) == IF authenticationUser = u THEN left ELSE <<>>

Authenticate(u, c, es, left, above) ==
  /\ StartPam(u, Cancelled(conversations, c, futures), es, above \o KeptRows(u, left))
  /\ futures' = CancelledFutures(c, futures)
  /\ authenticationUser' = u
  /\ authenticated' = FALSE
  /\ typed' = {}
  /\ leftovers' = <<>>
  /\ responded' = FALSE
  /\ everResponded' = FALSE
  /\ interactive' = TRUE

\* There is room for n more conversations under the bound.
RoomFor(n) == Len(conversations) + n <= MaxConversations

\* d.hideView(): which animation runs depends on whether the cover is visible.
HideView ==
  IF view = "loaded"
    THEN enabled' = FALSE /\ hiding' \in {"cover", "lockscreen"}
    ELSE UNCHANGED <<enabled, hiding>>

-----------------------------------------------------------------------------
(***************************************************************************)
(* Worker threads                                                          *)
(***************************************************************************)

Occupied == {c \in DOMAIN conversations : conversations[c].worker \in {"running", "blocked"}}

Post(kind, c, k) == events' = Append(events, [kind |-> kind, of |-> <<c, k>>])

\* Only the watched future has someone to report to.
PostFinished(c) == IF watched = c THEN Post("finished", c, 0) ELSE UNCHANGED events

\* The pool has a thread for its oldest task; a task cancelled before does
\* nothing.
WorkerStarts(c) ==
  /\ conversations[c].worker = "queued"
  /\ \A d \in 1 .. c - 1 : conversations[d].worker # "queued"
  /\ Cardinality(Occupied) < PoolSize
  /\ IF conversations[c].canceled
       THEN /\ conversations' = [conversations EXCEPT ![c].worker = "done"]
            /\ PostFinished(c)
       ELSE /\ conversations' = [conversations EXCEPT ![c].worker = "running"]
            /\ UNCHANGED events

\* The task emits showMessage (queued) or showPrompt (blocking) for the next
\* of PAM's messages.
WorkerSays(c) ==
  LET k == conversations[c].said + 1
      isPrompt == k \in PromptsOf(conversations[c].script)
  IN  /\ conversations[c].worker = "running"
      /\ k <= Len(conversations[c].script)
      /\ conversations' =
           [conversations EXCEPT ![c].said = k,
                                 ![c].worker = IF isPrompt THEN "blocked" ELSE "running"]
      /\ Post(conversations[c].script[k], c, k)

\* PAM can let the user in.  The handle of a cancelled conversation is freed
\* memory: what PAM makes of it is anything.
MayGrant(v) ==
  LET asked == PromptsOf(v.script)
  IN  \/ v.canceled
      \/ v.user \in OpenUsers
      \/ asked # {} /\ \A k \in asked : v.answers[k] = v.user

\* All answers are there; PAM decides and the task ends.  PAM may refuse any
\* user (an expired account, say).
WorkerEnds(c) ==
  /\ conversations[c].worker = "running"
  /\ conversations[c].said = Len(conversations[c].script)
  /\ \A k \in PromptsOf(conversations[c].script) : conversations[c].answers[k] # Unanswered
  /\ \E granted \in {MayGrant(conversations[c]), FALSE} :
       conversations' = [conversations EXCEPT ![c].worker = "done", ![c].granted = granted]
  /\ PostFinished(c)

Worker(c) ==
  /\ c \in DOMAIN conversations
  /\ WorkerStarts(c) \/ WorkerSays(c) \/ WorkerEnds(c)
  /\ UNCHANGED <<pam, watched, futures, authenticationUser, authenticated, typed,
                 rows, lock, quitting>>

-----------------------------------------------------------------------------
(***************************************************************************)
(* Posted events, handled in the order they were posted                    *)
(***************************************************************************)

\* handleMessage() and handlePrompt() compare addresses, not conversations.
IsStale(c) == pam = None \/ conversations[c].handle # conversations[pam].handle

\* showMessageFilter() and showPromptFilter(): the first row after a response
\* takes the place of those the response was for.
Show(row) ==
  /\ prompts' = Append(IF responded THEN <<>> ELSE prompts, row)
  /\ interactive' = (interactive \/ responded)
  /\ responded' = FALSE
  /\ UNCHANGED <<leftovers, everResponded>>

HandleMessage ==
  LET c == Head(events).of[1]
  IN  /\ Head(events).kind = "message"
      /\ events' = Tail(events)
      /\ IF IsStale(c) THEN UNCHANGED rows ELSE Show(Message(conversations[c].user))
      /\ UNCHANGED <<conversations, pam, watched, futures, authenticationUser,
                     authenticated, typed, lock>>

Unblocked(cs, c) == [cs EXCEPT ![c].worker = "running"]

Ignored(cs, future) == Unblocked(cs, future[1])  \* variant: gives no answer
Dismissed(cs, future) ==
  Unblocked(Answered(cs, <<future>>, <<NoSecret>>), future[1])

\* A stale prompt is answered with nothing, the others are shown and queued.
HandlePrompt ==
  LET future == Head(events).of
      c == future[1]
  IN  /\ Head(events).kind = "prompt"
      /\ events' = Tail(events)
      /\ IF IsStale(c)
           THEN /\ conversations' = Dismissed(conversations, future)
                /\ UNCHANGED <<futures, rows>>
           ELSE /\ conversations' = Unblocked(conversations, c)
                /\ futures' = Append(futures, future)
                /\ Show(Prompt(conversations[c].user))
      /\ UNCHANGED <<pam, watched, authenticationUser, authenticated, typed, lock>>

(***************************************************************************)
(* finishPam() and what hangs on authenticationComplete: Greeter.cpp sorts *)
(* out the rows, Greeter.qml logs in after a success and asks again after  *)
(* a failure, unless the outcome is automatic: nobody typed anything, or   *)
(* there is a message to read first.                                       *)
(***************************************************************************)
HasLeftoverMessages == PromptRows(prompts) = {} /\ prompts # <<>>

Automatic(granted) == ~everResponded \/ (granted /\ HasLeftoverMessages)

LeftoversAfter(granted) ==
  IF HasLeftoverMessages THEN prompts
  ELSE IF granted THEN leftovers
  ELSE Append(leftovers, Message(authenticationUser))

Complete(granted) ==
  /\ authenticated' = granted
  /\ pam' = None
  /\ IF Automatic(granted)
       THEN /\ prompts' = Append(LeftoversAfter(granted), Button(authenticationUser))
            /\ leftovers' = <<>>
            /\ interactive' = TRUE
       ELSE /\ leftovers' = LeftoversAfter(granted)
            /\ UNCHANGED <<prompts, interactive>>
  /\ IF granted /\ ~Automatic(granted) THEN HideView ELSE UNCHANGED <<enabled, hiding>>
  /\ events' = Tail(events)
  /\ UNCHANGED <<conversations, watched, futures, authenticationUser, typed,
                 responded, everResponded>>

NeverOver == FALSE  \* variant: does not ask
\* cancelPam() has disabled the normal finishPam() handling.
IsOver == pam = None

AsksAgain(granted) == ~granted /\ ~Automatic(granted) /\ view # "none"

FinishPam ==
  LET granted == conversations[watched].granted
  IN  /\ Head(events).kind = "finished"
      /\ IF IsOver
           THEN /\ events' = Tail(events)
                /\ UNCHANGED <<conversations, pam, watched, futures, authenticationUser,
                               authenticated, typed, rows, enabled, hiding>>
           ELSE IF AsksAgain(granted)
             THEN /\ Authenticate(currentUser, None, Tail(events), LeftoversAfter(granted), <<>>)
                  /\ UNCHANGED <<enabled, hiding>>
             ELSE Complete(granted)
      /\ UNCHANGED <<view, forcedUnlock, currentUser>>

HandleEvent ==
  /\ Ready
  /\ events # <<>>
  /\ HandleMessage \/ HandlePrompt \/ FinishPam
  /\ UNCHANGED quitting

-----------------------------------------------------------------------------
(***************************************************************************)
(* The view and its user                                                   *)
(***************************************************************************)

Usable == Ready /\ view = "loaded" /\ enabled

\* PromptList.sendResponse(): one response for each prompt on the screen.
SendResponse ==
  LET n == Cardinality(PromptRows(prompts))
  IN  /\ Usable /\ interactive /\ n > 0
      /\ Locked /\ RoomFor(1)
      /\ \E rs \in [1 .. n -> Responses] :
           /\ conversations' = Answered(conversations, futures, rs)
           /\ typed' = typed \cup {rs[i] : i \in 1 .. n}
      /\ futures' = SubSeq(futures, n + 1, Len(futures))
      /\ responded' = TRUE
      /\ everResponded' = TRUE
      /\ interactive' = FALSE
      /\ UNCHANGED <<pam, watched, events, authenticationUser, authenticated,
                     prompts, leftovers, lock, quitting>>

\* The view responds when it is not locked - a click on Log In, a cover swiped
\* away: Greeter.qml starts the session.
Login ==
  /\ Usable /\ ~Locked
  /\ HideView
  /\ interactive' \in {FALSE, interactive}
  /\ UNCHANGED <<impl, prompts, leftovers, responded, everResponded,
                 view, forcedUnlock, currentUser, quitting>>

\* d.selectUser(): another user, the same one again (Retry, Escape), or
\* RequestAuthenticationUser over D-Bus, which does not need the view.
SelectUser(u) ==
  /\ Ready /\ RoomFor(1)
  /\ currentUser' = u
  /\ Authenticate(u, pam, events, leftovers, <<>>)
  /\ UNCHANGED <<view, enabled, hiding, forcedUnlock, quitting>>

\* biometryd.failOperation(): the user is asked again, under an error row.
FingerprintRejected ==
  /\ Ready /\ RoomFor(1) /\ view = "loaded"
  /\ Authenticate(currentUser, pam, events, leftovers, <<Message(currentUser)>>)
  /\ UNCHANGED <<lock, quitting>>

\* loader.onLoaded, in the same handler as what made the greeter required.
ViewLoaded ==
  /\ ~quitting /\ view = "loading"
  /\ view' = "loaded"
  /\ enabled' = TRUE
  /\ Authenticate(currentUser, pam, events, leftovers, <<>>)
  /\ UNCHANGED <<hiding, forcedUnlock, currentUser, quitting>>

(***************************************************************************)
(* forceShow().  A hidden greeter loads its view, which selects the user.  *)
(* A view that is there is kept, disabled as hideView() may have left it,  *)
(* unless its cover is just being hidden: stopping that animation hides    *)
(* the greeter, and showNow() loads a new view after selectUser().         *)
(***************************************************************************)
ForceShow ==
  /\ Ready
  /\ forcedUnlock' = FALSE
  /\ hiding' = "no"
  /\ IF view = "none"
       THEN /\ RoomFor(1)
            /\ view' = "loading"
            /\ UNCHANGED <<impl, rows>>
       ELSE /\ RoomFor(2)
            /\ view' = IF hiding = "cover" THEN "loading" ELSE view
            /\ Authenticate(currentUser, pam, events, leftovers, <<>>)
  /\ UNCHANGED <<enabled, currentUser, quitting>>

\* The fingerprint of the selected user, or HideGreeter over D-Bus.
ForceUnlock ==
  /\ Ready /\ ~forcedUnlock
  /\ forcedUnlock' = TRUE
  /\ HideView
  /\ UNCHANGED <<impl, rows, view, currentUser, quitting>>

\* logind unlocks the session: no animation.
SessionUnlocked ==
  /\ Ready
  /\ forcedUnlock' = TRUE
  /\ view' = "none"
  /\ hiding' = "no"
  /\ UNCHANGED <<impl, rows, enabled, currentUser, quitting>>

HideDone ==
  /\ Ready /\ hiding # "no"
  /\ view' = "none"
  /\ hiding' = "no"
  /\ UNCHANGED <<impl, rows, enabled, forcedUnlock, currentUser, quitting>>

\* aboutToQuit: cancelPam(), and no event is handled any more.
Quit ==
  /\ "quit" \in Environment /\ Ready
  /\ quitting' = TRUE
  /\ conversations' = Cancelled(conversations, pam, futures)
  /\ futures' = CancelledFutures(pam, futures)
  /\ pam' = None
  /\ UNCHANGED <<watched, events, authenticationUser, authenticated, typed, rows, lock>>

-----------------------------------------------------------------------------
\* The start, when the greeter's view is loading or not required.
Started(viewState) ==
  /\ conversations = <<>>
  /\ pam = None
  /\ watched = None
  /\ futures = <<>>
  /\ events = <<>>
  /\ authenticationUser = NoUser
  /\ authenticated = FALSE
  /\ typed = {}
  /\ quitting = FALSE
  /\ prompts = <<>>
  /\ leftovers = <<>>
  /\ responded = FALSE
  /\ everResponded = FALSE
  /\ view = viewState
  /\ enabled = TRUE
  /\ hiding = "no"
  /\ interactive = TRUE
  /\ forcedUnlock = FALSE
  /\ currentUser \in Users

Init == Started("loading")

Next ==
  \/ \E c \in 1 .. MaxConversations : Worker(c)
  \/ HandleEvent
  \/ SendResponse
  \/ Login
  \/ \E u \in Users : SelectUser(u)
  \/ FingerprintRejected
  \/ ViewLoaded
  \/ ForceShow
  \/ ForceUnlock
  \/ SessionUnlocked
  \/ HideDone
  \/ Quit

Spec == Init /\ [][Next]_vars

\* Qt runs the event loop until the shell quits, animations end, the pool runs
\* its tasks and PAM's own code returns; nobody need type or touch anything.
\* Posted events get their turn between any handlers, also between a ForceShow
\* and its ViewLoaded, which are one handler: hence the strong fairness.
Fairness ==
  /\ SF_vars(HandleEvent)
  /\ WF_vars(ViewLoaded)
  /\ WF_vars(HideDone)
  /\ \A c \in 1 .. MaxConversations : WF_vars(Worker(c))

FairSpec == Spec /\ Fairness

-----------------------------------------------------------------------------
(***************************************************************************)
(* Properties                                                              *)
(***************************************************************************)

Elements(s) == {s[i] : i \in DOMAIN s}
Futures == (1 .. MaxConversations) \X (Nat \ {0})
Row == [kind : MessageStyles \cup {"button"}, of : Users]

ConversationSound(v) ==
  /\ v.user \in Users
  /\ v.handle \in 1 .. MaxConversations
  /\ v.script \in Scripts
  /\ v.worker \in {"queued", "running", "blocked", "done"}
  /\ v.said \in 0 .. Len(v.script)
  /\ DOMAIN v.answers = DOMAIN v.script
  /\ \A k \in DOMAIN v.answers : v.answers[k] \in Responses \cup {Unanswered}
  /\ v.canceled \in BOOLEAN
  /\ v.granted \in BOOLEAN

\* The variables have their types; the futures and events are those of
\* messages that conversations have said, and the watched future is that of
\* the current conversation while there is one.
TypeOK ==
  /\ Len(conversations) <= MaxConversations
  /\ \A c \in DOMAIN conversations : ConversationSound(conversations[c])
  /\ pam \in {None} \cup DOMAIN conversations
  /\ watched \in {None} \cup DOMAIN conversations
  /\ pam # None => watched = pam
  /\ Elements(futures) \subseteq Futures
  /\ \A e \in Elements(events) :
       /\ e.kind \in MessageStyles \cup {"finished"}
       /\ e.of[1] \in DOMAIN conversations
       /\ e.of[2] <= conversations[e.of[1]].said
       /\ e.kind = "finished" => e.of[1] = watched
  /\ authenticationUser \in Users \cup {NoUser}
  /\ authenticated \in BOOLEAN /\ typed \subseteq Responses /\ quitting \in BOOLEAN
  /\ Elements(prompts) \cup Elements(leftovers) \subseteq Row
  /\ responded \in BOOLEAN /\ everResponded \in BOOLEAN
  /\ view \in {"none", "loading", "loaded"} /\ enabled \in BOOLEAN
  /\ hiding \in {"no", "cover", "lockscreen"} /\ interactive \in BOOLEAN
  /\ forcedUnlock \in BOOLEAN /\ currentUser \in Users

(***************************************************************************)
(* Through cancelled, stale and failed conversations isAuthenticated() is  *)
(* only ever true of the user asked about last, who has typed the secret   *)
(* since (Greeter.qml:211, "always resets auth state") or needs none.      *)
(***************************************************************************)
Promise == INSTANCE Authentication WITH user <- authenticationUser
PromiseKept == Promise!Spec

(***************************************************************************)
(* What is on the screen is what PAM waits for: until the user responds,   *)
(* the prompt rows are the queued futures, one for one, and a locked view  *)
(* lets the user answer them; after a response no future is left behind    *)
(* whose row would be cleared (Greeter.cpp:217, PromptList.qml:56).        *)
(***************************************************************************)
PromptsAnswerable ==
  Ready /\ pam # None =>
    IF responded
      THEN futures = <<>>
      ELSE /\ Cardinality(PromptRows(prompts)) = Len(futures)
           /\ futures # <<>> /\ Locked => interactive

(***************************************************************************)
(* No row speaks of another user than the one being asked: the messages    *)
(* and leftovers of a cancelled or failed conversation do not survive a    *)
(* change of the user (Greeter.cpp:161).                                   *)
(***************************************************************************)
RowsAreOfTheUser ==
  \A row \in Elements(prompts) \cup Elements(leftovers) : row.of = authenticationUser

(***************************************************************************)
(* A locked greeter does not wait forever for PAM (Greeter.qml: waiting):  *)
(* something to read, answer or press appears, whatever was cancelled      *)
(* before, even if one thread serves all conversations.                    *)
(***************************************************************************)
WaitingEnds ==
  (view = "loaded" /\ prompts = <<>> /\ ~forcedUnlock)
    ~> (prompts # <<>> \/ forcedUnlock \/ view = "none")

IsCanceled(c) == c \in DOMAIN conversations /\ conversations[c].canceled

\* The thread of a cancelled conversation ends (the test pam.cpp:40 waits for
\* activeThreadCount() to be 0).
CancelledEnd ==
  \A c \in 1 .. MaxConversations :
    IsCanceled(c) ~> (c \in DOMAIN conversations /\ conversations[c].worker = "done")

\* GreeterPrivate.cpp:220: prompts of a cancelled conversation are dismissed,
\* so what the user types answers the current conversation only.
StalePromptsDismissed ==
  \A i \in DOMAIN futures : futures[i][1] = pam

\* Greeter.cpp:48: the shell does not get stuck waiting for PAM as it shuts
\* down; ~QCoreApplication waits for the pool's threads.
ThreadsEndAfterQuit ==
  quitting ~> \A c \in DOMAIN conversations : conversations[c].worker = "done"
=============================================================================
