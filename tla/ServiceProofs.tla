--------------------------- MODULE ServiceProofs ---------------------------
(***************************************************************************)
(* SessionService and AccountsService both keep a view of another process  *)
(* by messages that arrive in order.  What holds when no message is under  *)
(* way is proved from what the messages that are under way will make true: *)
(* the last message about a thing decides it, so the invariants say what   *)
(* the last such message in a queue is.                                    *)
(***************************************************************************)
EXTENDS SessionService, AccountsService, SequenceTheorems, FiniteSetTheorems, TLAPS

\* A message of S is under way in q; one is, and none of U follows it.
Holds(q, S) == \E i \in 1..Len(q) : q[i] \in S
Ends(q, S, U) == \E i \in 1..Len(q) : q[i] \in S /\ \A j \in (i + 1)..Len(q) : q[j] \notin U

\* Messages r are sent after those of q.
LEMMA SentAfter ==
  ASSUME NEW X, NEW q \in Seq(X), NEW r \in Seq(X), NEW S, NEW U
  PROVE  /\ q \o r \in Seq(X)
         /\ Holds(q \o r, S) <=> Holds(q, S) \/ Holds(r, S)
         /\ Ends(q \o r, S, U) <=> Ends(r, S, U) \/ (Ends(q, S, U) /\ ~Holds(r, U))
<1> DEFINE b == q \o r  m == Len(q)  n == Len(r)
<1>1. /\ b \in Seq(X) /\ m \in Nat /\ n \in Nat /\ Len(b) = m + n
      /\ \A i \in 1..m : b[i] = q[i]
      /\ \A i \in 1..n : b[m + i] = r[i]
  BY ConcatProperties, LenProperties
<1>2. \A i \in 1..(m + n) : i \in 1..m \/ (i - m \in 1..n /\ i = m + (i - m))
  BY <1>1
<1> HIDE DEF b, m, n
<1>3. Holds(b, S) <=> Holds(q, S) \/ Holds(r, S)
  <2>1. ASSUME Holds(b, S) PROVE Holds(q, S) \/ Holds(r, S)
    <3>1. PICK i \in 1..(m + n) : b[i] \in S
      BY <1>1, <2>1 DEF Holds
    <3> QED  BY <1>1, <1>2, <3>1 DEF Holds, m, n
  <2>2. ASSUME Holds(q, S) PROVE Holds(b, S)
    BY <1>1, <2>2 DEF Holds, m
  <2>3. ASSUME Holds(r, S) PROVE Holds(b, S)
    <3>1. PICK i \in 1..n : r[i] \in S
      BY <2>3 DEF Holds, n
    <3>2. m + i \in 1..Len(b) /\ b[m + i] \in S
      BY <1>1, <3>1
    <3> QED  BY <3>2 DEF Holds
  <2> QED  BY <2>1, <2>2, <2>3
<1>4. ASSUME Ends(b, S, U) PROVE Ends(r, S, U) \/ (Ends(q, S, U) /\ ~Holds(r, U))
  <2>1. PICK i \in 1..(m + n) : b[i] \in S /\ \A j \in (i + 1)..(m + n) : b[j] \notin U
    BY <1>1, <1>4 DEF Ends
  <2>2. CASE i \in 1..m
    <3>1. \A j \in (i + 1)..m : q[j] \notin U
      BY <1>1, <2>1, <2>2
    <3>2. \A j \in 1..n : r[j] \notin U
      <4> TAKE j \in 1..n
      <4>1. m + j \in (i + 1)..(m + n) /\ b[m + j] = r[j]
        BY <1>1, <2>2
      <4> QED  BY <2>1, <4>1
    <3> QED  BY <1>1, <2>1, <2>2, <3>1, <3>2 DEF Ends, Holds, m, n
  <2>3. CASE i - m \in 1..n
    <3>1. r[i - m] \in S
      BY <1>1, <2>1, <2>3
    <3>2. \A j \in (i - m + 1)..n : r[j] \notin U
      <4> TAKE j \in (i - m + 1)..n
      <4>1. m + j \in (i + 1)..(m + n) /\ j \in 1..n
        BY <1>1, <2>3
      <4> QED  BY <1>1, <2>1, <4>1
    <3> QED  BY <2>3, <3>1, <3>2 DEF Ends, n
  <2> QED  BY <1>2, <2>2, <2>3
<1>5. ASSUME Ends(r, S, U) PROVE Ends(b, S, U)
  <2>1. PICK i \in 1..n : r[i] \in S /\ \A j \in (i + 1)..n : r[j] \notin U
    BY <1>5 DEF Ends, n
  <2>2. m + i \in 1..(m + n) /\ b[m + i] \in S
    BY <1>1, <2>1
  <2>3. \A j \in (m + i + 1)..(m + n) : b[j] \notin U
    <3> TAKE j \in (m + i + 1)..(m + n)
    <3>1. j - m \in (i + 1)..n /\ j - m \in 1..n /\ j = m + (j - m)
      BY <1>1
    <3> QED  BY <1>1, <2>1, <3>1
  <2> QED  BY <1>1, <2>2, <2>3 DEF Ends
<1>6. ASSUME Ends(q, S, U), ~Holds(r, U) PROVE Ends(b, S, U)
  <2>1. PICK i \in 1..m : q[i] \in S /\ \A j \in (i + 1)..m : q[j] \notin U
    BY <1>6 DEF Ends, m
  <2>2. \A j \in (i + 1)..(m + n) : b[j] \notin U
    <3> TAKE j \in (i + 1)..(m + n)
    <3>1. CASE j \in 1..m  BY <1>1, <2>1, <3>1
    <3>2. CASE j - m \in 1..n /\ j = m + (j - m)  BY <1>1, <1>6, <3>2 DEF Holds, n
    <3>3. j \in 1..(m + n)  BY <1>1
    <3> QED  BY <1>2, <3>1, <3>2, <3>3
  <2>3. i \in 1..(m + n) /\ b[i] \in S
    BY <1>1, <2>1
  <2> QED  BY <1>1, <2>2, <2>3 DEF Ends
<1> QED  BY <1>1, <1>3, <1>4, <1>5, <1>6 DEF b

\* One message is sent.
LEMMA SentOne ==
  ASSUME NEW X, NEW q \in Seq(X), NEW e \in X, NEW S, NEW U
  PROVE  /\ Append(q, e) \in Seq(X)
         /\ Holds(Append(q, e), S) <=> e \in S \/ Holds(q, S)
         /\ Ends(Append(q, e), S, U) <=> e \in S \/ (Ends(q, S, U) /\ e \notin U)
<1>1. <<e>> \in Seq(X) /\ Len(<<e>>) = 1 /\ <<e>>[1] = e
  OBVIOUS
<1>2. Append(q, e) = q \o <<e>>
  BY AppendIsConcat
<1>3. Holds(<<e>>, S) <=> e \in S
  BY <1>1 DEF Holds
<1>4. Holds(<<e>>, U) <=> e \in U
  BY <1>1 DEF Holds
<1>5. Ends(<<e>>, S, U) <=> e \in S
  BY <1>1 DEF Ends
<1>6. /\ q \o <<e>> \in Seq(X)
      /\ Holds(q \o <<e>>, S) <=> Holds(q, S) \/ Holds(<<e>>, S)
      /\ Ends(q \o <<e>>, S, U) <=> Ends(<<e>>, S, U) \/ (Ends(q, S, U) /\ ~Holds(<<e>>, U))
  BY <1>1, SentAfter
<1> QED  BY <1>2, <1>3, <1>4, <1>5, <1>6

\* The first message of q is handled.
LEMMA Handled ==
  ASSUME NEW X, NEW q \in Seq(X), q # <<>>, NEW S, NEW U
  PROVE  /\ Tail(q) \in Seq(X) /\ Head(q) \in X
         /\ Holds(q, S) <=> Head(q) \in S \/ Holds(Tail(q), S)
         /\ Ends(q, S, U) <=> Ends(Tail(q), S, U) \/ (Head(q) \in S /\ ~Holds(Tail(q), U))
<1> DEFINE e == <<Head(q)>>
<1>1. Tail(q) \in Seq(X) /\ Head(q) \in X /\ q = e \o Tail(q)
  BY HeadTailProperties, ConcatProperties, SeqEqual
<1>2. e \in Seq(X) /\ Len(e) = 1 /\ e[1] = Head(q)
  BY <1>1
<1>3. Holds(e, S) <=> Head(q) \in S
  BY <1>2 DEF Holds
<1>4. Ends(e, S, U) <=> Head(q) \in S
  BY <1>2 DEF Ends
<1> HIDE DEF e
<1>5. /\ Holds(e \o Tail(q), S) <=> Holds(e, S) \/ Holds(Tail(q), S)
      /\ Ends(e \o Tail(q), S, U) <=> Ends(Tail(q), S, U) \/ (Ends(e, S, U) /\ ~Holds(Tail(q), U))
  BY <1>1, <1>2, SentAfter
<1> QED  BY <1>1, <1>3, <1>4, <1>5

-----------------------------------------------------------------------------
(***************************************************************************)
(* The session service.                                                    *)
(***************************************************************************)
SessionMessages ==
  {"Inhibit", "GetActive", "IdleHint", "NoIdleHint", "Suspend",
   "ActiveTRUE", "ActiveFALSE", "Invalidated", "Fd", "Resumed", "PrepareForSleep", "Lock", "Unlock"}

SessionTypes ==
  /\ toLogind \in Seq(SessionMessages) /\ toShell \in Seq(SessionMessages)
  /\ logind \in [active : BOOLEAN, idle : BOOLEAN, asleep : BOOLEAN]
  /\ isSessionActive \in BOOLEAN

\* The last message about locks, or the lack of one, locks while the machine
\* sleeps.
WillLock ==
  logind.asleep /\ canLock =>
    \/ Ends(toShell, {"PrepareForSleep", "Lock"}, {"Unlock"})
    \/ lockRequested /\ ~Holds(toShell, {"Unlock"})

\* A Get is under way, or the last that is told is true or asks for a Get, or
\* what is known is true and stays.
Actives == {"ActiveTRUE", "ActiveFALSE"}
Current == IF logind.active THEN "ActiveTRUE" ELSE "ActiveFALSE"
WillKnow ==
  \/ Holds(toLogind, {"GetActive"})
  \/ Ends(toShell, {"Invalidated", Current}, Actives)
  \/ (isSessionActive <=> logind.active) /\ ~Holds(toShell, Actives)

\* logind will take the session for idle only if the service takes it for
\* inactive.
WillBeIdle ==
  \/ Ends(toLogind, {"IdleHint"}, {"NoIdleHint"})
  \/ logind.idle /\ ~Holds(toLogind, {"NoIdleHint"})
  => ~isSessionActive

SessionInv == SessionTypes /\ WillLock /\ WillKnow /\ WillBeIdle

LEMMA SessionStarts == SessionInit => SessionInv
<1> SUFFICES ASSUME SessionInit PROVE SessionInv
  OBVIOUS
<1>1. SessionTypes
  <2>1. PICK active \in BOOLEAN : logind = [active |-> active, idle |-> FALSE, asleep |-> FALSE]
    BY DEF SessionInit
  <2>2. logind \in [active : BOOLEAN, idle : BOOLEAN, asleep : BOOLEAN]
    BY <2>1, Zenon
  <2>3. isSessionActive \in BOOLEAN
    BY Zenon DEF SessionInit
  <2>4. toLogind \in Seq(SessionMessages) /\ toShell \in Seq(SessionMessages)
    BY DEF SessionInit, SessionMessages
  <2> QED  BY <2>2, <2>3, <2>4, Zenon DEF SessionTypes
<1>2. WillLock
  BY DEF SessionInit, WillLock
<1>3. WillKnow
  <2>1. Len(toLogind) = 2 /\ toLogind[2] = "GetActive"
    BY DEF SessionInit
  <2> QED  BY <2>1 DEF WillKnow, Holds
<1>4. WillBeIdle
  <2>1. Len(toLogind) = 2 /\ toLogind[1] # "IdleHint" /\ toLogind[2] # "IdleHint"
    BY DEF SessionInit
  <2>2. ~logind.idle /\ ~Ends(toLogind, {"IdleHint"}, {"NoIdleHint"})
    BY <2>1 DEF SessionInit, Ends
  <2> QED  BY <2>2 DEF WillBeIdle
<1> QED  BY <1>1, <1>2, <1>3, <1>4 DEF SessionInv

\* What the shell does with the message that it receives.
LEMMA ShellReceivesKeeps ==
  ASSUME SessionInv, ShellReceives PROVE SessionInv'
<1> DEFINE e == Head(toShell)
<1> USE DEF SessionInv, SessionTypes
<1>0. /\ toShell \in Seq(SessionMessages) /\ toShell # << >> /\ toShell' = Tail(toShell)
      /\ toLogind \in Seq(SessionMessages)
      /\ e \in SessionMessages /\ Receive(e)
      /\ UNCHANGED <<logind, canLock, changes>>
  BY Handled DEF ShellReceives
<1>1. SessionTypes' /\ (toLogind' = toLogind \/ \E m \in SessionMessages : toLogind' = Append(toLogind, m))
  <2>1. toShell' \in Seq(SessionMessages)
    BY <1>0, HeadTailProperties
  <2>2. toLogind' = toLogind \/ \E m \in SessionMessages : toLogind' = Append(toLogind, m)
    <3>1. CASE e = "ActiveTRUE" \/ e = "ActiveFALSE"
      <4>1. /\ e = "ActiveTRUE" => toLogind' = Append(toLogind, IdleHint(~TRUE))
            /\ e = "ActiveFALSE" => toLogind' = Append(toLogind, IdleHint(~FALSE))
        BY <1>0, <3>1 DEF Receive, SetActive
      <4> QED  BY <3>1, <4>1 DEF IdleHint, SessionMessages
    <3>2. CASE e # "ActiveTRUE" /\ e # "ActiveFALSE"
      BY <1>0, <3>2 DEF Receive, CheckActive, SessionMessages
    <3> QED  BY <3>1, <3>2
  <2>3. isSessionActive' \in BOOLEAN
    <3>1. isSessionActive' = TRUE \/ isSessionActive' = FALSE \/ isSessionActive' = isSessionActive
      BY <1>0 DEF Receive, SetActive
    <3> QED  BY <3>1
  <2>4. toLogind' \in Seq(SessionMessages)
    BY <1>0, <2>2, SMTT(20)
  <2>5. logind' = logind
    BY <1>0
  <2> QED  BY <2>1, <2>2, <2>3, <2>4, <2>5, Zenon
<1>1a. ASSUME NEW m \in SessionMessages, NEW S, NEW U
       PROVE  /\ Holds(Append(toLogind, m), S) <=> m \in S \/ Holds(toLogind, S)
              /\ Ends(Append(toLogind, m), S, U) <=> m \in S \/ (Ends(toLogind, S, U) /\ m \notin U)
  BY <1>0, SentOne
<1> HIDE DEF e
<1>2. WillLock'
  <2> DEFINE L == {"PrepareForSleep", "Lock"}
  <2>1. /\ Holds(toShell, {"Unlock"}) <=> e \in {"Unlock"} \/ Holds(toShell', {"Unlock"})
        /\ Ends(toShell, L, {"Unlock"})
             <=> Ends(toShell', L, {"Unlock"}) \/ (e \in L /\ ~Holds(toShell', {"Unlock"}))
    BY <1>0, Handled DEF e
  <2>2. CASE e \in L
    <3>1. lockRequested' <=> lockRequested \/ canLock
      BY <1>0, <2>2 DEF Receive, PromptLock
    <3> QED  BY <1>0, <2>1, <3>1, <2>2 DEF WillLock
  <2>3. CASE e = "Unlock"
    BY <1>0, <2>1, <2>3 DEF WillLock
  <2>4. CASE e \notin L /\ e # "Unlock"
    <3>1. lockRequested' = lockRequested
      BY <1>0, <2>4 DEF Receive, SetActive, CheckActive
    <3> QED  BY <1>0, <2>1, <2>4, <3>1 DEF WillLock
  <2> QED  BY <2>2, <2>3, <2>4
<1>3. WillKnow'
  <2> DEFINE T == {"Invalidated", Current}
  <2>0. T' = T
    BY <1>0 DEF Current
  <2> HIDE DEF T
  <2>1. /\ Holds(toShell, Actives) <=> e \in Actives \/ Holds(toShell', Actives)
        /\ Ends(toShell, T, Actives)
             <=> Ends(toShell', T, Actives) \/ (e \in T /\ ~Holds(toShell', Actives))
    BY <1>0, Handled DEF e
  <2>2. Holds(toLogind, {"GetActive"}) => Holds(toLogind', {"GetActive"})
    <3>1. ASSUME NEW m \in SessionMessages
          PROVE  Holds(toLogind, {"GetActive"}) => Holds(Append(toLogind, m), {"GetActive"})
      BY <1>1a, Zenon
    <3> QED  BY <1>1, <3>1
  <2>3. CASE e = "Invalidated"
    <3>1. toLogind' = Append(toLogind, "GetActive")
      BY <1>0, <2>3 DEF Receive, CheckActive
    <3>2. Holds(toLogind', {"GetActive"})
      BY <3>1, <1>1a DEF SessionMessages
    <3> QED  BY <3>2 DEF WillKnow
  <2>4. CASE e \in Actives
    <3>1. isSessionActive' <=> e = "ActiveTRUE"
      BY <1>0, <2>4 DEF Receive, SetActive, Actives
    <3>2. e = Current => (isSessionActive' <=> logind.active)
      BY <3>1 DEF Current
    <3>3. e \in T => e = Current
      BY <2>4 DEF T, Actives
    <3> QED  BY <1>0, <2>0, <2>1, <2>2, <2>4, <3>2, <3>3 DEF WillKnow, T
  <2>5. CASE e \notin Actives /\ e # "Invalidated"
    <3>1. isSessionActive' = isSessionActive
      BY <1>0, <2>5 DEF Receive, Actives
    <3>2. e \notin T
      BY <2>5 DEF T, Actives, Current
    <3> QED  BY <1>0, <2>0, <2>1, <2>2, <2>5, <3>1, <3>2 DEF WillKnow, T
  <2> QED  BY <2>3, <2>4, <2>5
<1>4. WillBeIdle'
  <2> DEFINE I == {"IdleHint"}  N == {"NoIdleHint"}
  <2> HIDE DEF I, N
  <2>1. CASE e \in Actives
    <3>1. toLogind' = Append(toLogind, IF e = "ActiveTRUE" THEN "NoIdleHint" ELSE "IdleHint")
      BY <1>0, <2>1 DEF Receive, SetActive, IdleHint, Actives
    <3>2. isSessionActive' <=> e = "ActiveTRUE"
      BY <1>0, <2>1 DEF Receive, SetActive, Actives
    <3>3. e = "ActiveTRUE" => Holds(toLogind', N) /\ ~Ends(toLogind', I, N)
      <4>1. ASSUME NEW m \in SessionMessages, m \in N, m \notin I
            PROVE  Holds(Append(toLogind, m), N) /\ ~Ends(Append(toLogind, m), I, N)
        BY <1>1a, <4>1
      <4> QED  BY <3>1, <4>1 DEF SessionMessages, I, N
    <3> QED  BY <1>0, <3>2, <3>3 DEF WillBeIdle, I, N
  <2>2. CASE e \notin Actives
    <3>1. isSessionActive' = isSessionActive
      BY <1>0, <2>2 DEF Receive, Actives, CheckActive
    <3>2. toLogind' = toLogind \/ \E m \in SessionMessages \ (I \cup N) : toLogind' = Append(toLogind, m)
      <4>1. toLogind' = toLogind \/ toLogind' = Append(toLogind, "GetActive")
              \/ toLogind' = Append(toLogind, "Inhibit")
        BY <1>0, <2>2 DEF Receive, Actives, CheckActive
      <4> QED  BY <4>1 DEF SessionMessages, I, N
    <3>3. /\ Holds(toLogind', N) <=> Holds(toLogind, N)
          /\ Ends(toLogind', I, N) <=> Ends(toLogind, I, N)
      <4>1. ASSUME NEW m \in SessionMessages, m \notin I, m \notin N
            PROVE  /\ Holds(Append(toLogind, m), N) <=> Holds(toLogind, N)
                   /\ Ends(Append(toLogind, m), I, N) <=> Ends(toLogind, I, N)
        BY <1>1a, <4>1
      <4> QED  BY <3>2, <4>1 DEF I, N
    <3> QED  BY <1>0, <3>1, <3>3 DEF WillBeIdle, I, N
  <2> QED  BY <2>1, <2>2
<1> QED  BY <1>1, <1>2, <1>3, <1>4

\* The shell asks for a sleep or tells of activity.
LEMMA ShellSendsKeeps ==
  ASSUME SessionInv, Suspend \/ SimulateUserActivity PROVE SessionInv'
<1> USE DEF SessionInv, SessionTypes
<1> DEFINE N == {"NoIdleHint"}  I == {"IdleHint"}  G == {"GetActive"}
<1>1. PICK m \in SessionMessages :
         /\ toLogind' = Append(toLogind, m) /\ m \notin I /\ m \notin G
         /\ lockRequested' = lockRequested \/ lockRequested' = (lockRequested \/ canLock)
         /\ UNCHANGED <<logind, toShell, isSessionActive, inhibitFd, canLock, changes>>
  BY DEF Suspend, SimulateUserActivity, PromptLock, IdleHint, SessionMessages
<1> HIDE DEF N, I, G
<1>2. /\ toLogind' \in Seq(SessionMessages)
      /\ Holds(toLogind', G) <=> Holds(toLogind, G)
      /\ Holds(toLogind, N) => Holds(toLogind', N)
      /\ Ends(toLogind', I, N) => Ends(toLogind, I, N)
  BY <1>1, SentOne
<1>3. SessionTypes'
  <2>1. UNCHANGED <<logind, toShell, isSessionActive>>
    BY <1>1
  <2> QED  BY <1>2, <2>1, Zenon
<1>4. WillLock'
  BY <1>1 DEF WillLock
<1>5. WillKnow'
  BY <1>1, <1>2 DEF WillKnow, Current, G
<1>6. WillBeIdle'
  BY <1>1, <1>2 DEF WillBeIdle, N, I
<1> QED  BY <1>3, <1>4, <1>5, <1>6

\* logind handles the message that it receives.
LEMMA LogindReceivesKeeps ==
  ASSUME SessionInv, LogindReceives PROVE SessionInv'
<1> USE DEF SessionInv, SessionTypes
<1> DEFINE e == Head(toLogind)  r == Answer(e)
<1>1. /\ toLogind # << >> /\ toLogind' = Tail(toLogind) /\ toShell' = toShell \o r
      /\ logind'.active = logind.active
      /\ logind'.idle = IF e = "IdleHint" THEN TRUE ELSE IF e = "NoIdleHint" THEN FALSE ELSE logind.idle
      /\ logind'.asleep = (logind.asleep \/ e = "Suspend")
      /\ UNCHANGED <<isSessionActive, inhibitFd, canLock, lockRequested, changes>>
  BY DEF LogindReceives
<1>2. logind' \in [active : BOOLEAN, idle : BOOLEAN, asleep : BOOLEAN]
  BY DEF LogindReceives
<1>3. /\ e \in SessionMessages /\ toLogind' \in Seq(SessionMessages)
  BY <1>1, HeadTailProperties
<1>4. /\ e = "GetActive" => r = <<Current>>
      /\ e = "Inhibit" => r = <<"Fd">>
      /\ e = "Suspend" /\ ~logind.asleep => r = <<"PrepareForSleep">>
      /\ e = "Suspend" /\ logind.asleep => r = << >>
      /\ e \notin {"GetActive", "Inhibit", "Suspend"} => r = << >>
  BY DEF Answer, Current
<1> HIDE DEF r
<1>5. r = << >> \/ \E m \in SessionMessages : r = <<m>>
  <2>1. {"Fd", "PrepareForSleep"} \subseteq SessionMessages /\ Current \in SessionMessages
    BY DEF SessionMessages, Current
  <2> HIDE DEF e
  <2> QED  BY <1>4, <2>1
<1>6. r \in Seq(SessionMessages)
  <2>1. CASE r = << >>
    BY <2>1
  <2>2. ASSUME NEW m \in SessionMessages, r = <<m>> PROVE r \in Seq(SessionMessages)
    BY <2>2
  <2> QED  BY <1>5, <2>1, <2>2, Zenon
<1>7. SessionTypes'
  <2>1. toShell' \in Seq(SessionMessages)
    BY <1>1, <1>6, ConcatProperties
  <2>2. isSessionActive' = isSessionActive
    BY <1>1
  <2> QED  BY <1>2, <1>3, <2>1, <2>2, Zenon
<1>8. ASSUME NEW S, NEW U
      PROVE  /\ Holds(toShell', S) <=> Holds(toShell, S) \/ Holds(r, S)
             /\ Ends(toShell', S, U) <=> Ends(r, S, U) \/ (Ends(toShell, S, U) /\ ~Holds(r, U))
  BY <1>1, <1>6, SentAfter
<1>9. ASSUME NEW S, NEW U
      PROVE  /\ Holds(toLogind, S) <=> e \in S \/ Holds(toLogind', S)
             /\ Ends(toLogind, S, U) <=> Ends(toLogind', S, U) \/ (e \in S /\ ~Holds(toLogind', U))
  BY <1>1, Handled
<1> HIDE DEF e
<1>10. WillLock'
  <2> DEFINE L == {"PrepareForSleep", "Lock"}  U == {"Unlock"}
  <2>1. ~Holds(r, U)
    <3>1. Len(r) = 0 \/ (Len(r) = 1 /\ r[1] # "Unlock")
      BY <1>4, <1>5 DEF Current
    <3> QED  BY <3>1 DEF Holds
  <2>2. e = "Suspend" /\ ~logind.asleep => Ends(r, L, U)
    <3> HAVE e = "Suspend" /\ ~logind.asleep
    <3>1. Len(r) = 1 /\ r[1] = "PrepareForSleep"
      BY <1>4
    <3>2. r[1] \in L /\ \A j \in (1 + 1)..Len(r) : r[j] \notin U
      BY <3>1
    <3> QED  BY <3>1, <3>2 DEF Ends
  <2> HIDE DEF L, U
  <2>3. /\ Ends(toShell, L, U) => Ends(toShell', L, U)
        /\ Ends(r, L, U) => Ends(toShell', L, U)
        /\ Holds(toShell', U) <=> Holds(toShell, U)
    BY <1>8, <2>1
  <2> QED  BY <1>1, <2>2, <2>3 DEF WillLock, L, U
<1>11. WillKnow'
  <2> DEFINE T == {"Invalidated", Current}  G == {"GetActive"}
  <2>0. T' = T /\ Current' = Current
    BY <1>1 DEF Current
  <2>1. CASE e = "GetActive"
    <3>1. Len(r) = 1 /\ r[1] = Current
      BY <1>4, <2>1
    <3>2. Ends(r, T, Actives)
      BY <3>1 DEF Ends
    <3> HIDE DEF T
    <3>3. Ends(toShell', T, Actives)
      BY <1>8, <3>2
    <3> QED  BY <2>0, <3>3 DEF WillKnow, T
  <2>2. CASE e # "GetActive"
    <3>1. Len(r) = 0 \/ (Len(r) = 1 /\ r[1] \notin Actives)
      BY <1>4, <2>2 DEF Actives
    <3>2. ~Holds(r, Actives)
      BY <3>1 DEF Holds
    <3>2a. e \notin G
      BY <2>2
    <3> HIDE DEF T, G
    <3>3. /\ Ends(toShell, T, Actives) => Ends(toShell', T, Actives)
          /\ Holds(toShell', Actives) <=> Holds(toShell, Actives)
          /\ Holds(toLogind, G) => Holds(toLogind', G)
      BY <1>8, <1>9, <3>2, <3>2a
    <3> QED  BY <1>1, <2>0, <3>3 DEF WillKnow, T, G
  <2> QED  BY <2>1, <2>2
<1>12. WillBeIdle'
  <2> DEFINE I == {"IdleHint"}  N == {"NoIdleHint"}
  <2>1. /\ e \in I <=> e = "IdleHint"
        /\ e \in N <=> e = "NoIdleHint"
    OBVIOUS
  <2> HIDE DEF I, N
  <2>2. /\ Ends(toLogind', I, N) => Ends(toLogind, I, N)
        /\ ~Holds(toLogind', N) /\ e = "IdleHint" => Ends(toLogind, I, N)
        /\ ~Holds(toLogind', N) /\ e # "NoIdleHint" => ~Holds(toLogind, N)
    BY <1>9, <2>1
  <2>3. logind'.idle => e = "IdleHint" \/ (e # "NoIdleHint" /\ logind.idle)
    BY <1>1
  <2>4. isSessionActive' = isSessionActive
    BY <1>1
  <2> QED  BY <2>2, <2>3, <2>4 DEF WillBeIdle, I, N
<1> QED  BY <1>7, <1>10, <1>11, <1>12

\* logind tells of a change; nobody unlocks while it sleeps.
LEMMA EmitKeeps ==
  ASSUME SessionInv, ActiveChanges \/ Sleeps \/ Wakes \/ LocksOrUnlocks PROVE SessionInv'
<1> USE DEF SessionInv, SessionTypes
<1>1. PICK m \in SessionMessages :
         /\ toShell' = Append(toShell, m)
         /\ logind' \in [active : BOOLEAN, idle : BOOLEAN, asleep : BOOLEAN]
         /\ logind'.idle = logind.idle
         /\ logind'.active = logind.active => m \notin Actives
         /\ logind'.active # logind.active =>
              m = "Invalidated" \/ m = IF logind.active THEN "ActiveFALSE" ELSE "ActiveTRUE"
         /\ logind'.asleep => m # "Unlock" /\ (logind.asleep \/ m = "PrepareForSleep")
         /\ UNCHANGED <<toLogind, isSessionActive, inhibitFd, canLock, lockRequested>>
  <2>1. CASE ActiveChanges
    <3>1. PICK told \in {"value", "invalidated"} :
            /\ logind' = [logind EXCEPT !.active = ~@]
            /\ Emit(IF told = "invalidated" THEN "Invalidated"
                    ELSE IF logind.active THEN "ActiveFALSE" ELSE "ActiveTRUE")
      BY <2>1 DEF ActiveChanges
    <3> DEFINE m == IF told = "invalidated" THEN "Invalidated"
                    ELSE IF logind.active THEN "ActiveFALSE" ELSE "ActiveTRUE"
    <3>2. /\ logind' \in [active : BOOLEAN, idle : BOOLEAN, asleep : BOOLEAN]
          /\ logind'.idle = logind.idle /\ logind'.active # logind.active
          /\ logind'.asleep = logind.asleep
      BY <3>1
    <3>3. m \in SessionMessages /\ m # "Unlock"
      BY DEF SessionMessages
    <3>4. m = "Invalidated" \/ m = IF logind.active THEN "ActiveFALSE" ELSE "ActiveTRUE"
      OBVIOUS
    <3>5. Emit(m)
      BY <3>1
    <3> HIDE DEF m
    <3> QED  BY <3>2, <3>3, <3>4, <3>5 DEF Emit
  <2>2. CASE Sleeps
    <3>1. "PrepareForSleep" \in SessionMessages /\ "PrepareForSleep" \notin Actives
      BY DEF SessionMessages, Actives
    <3> QED  BY <2>2, <3>1 DEF Sleeps, Emit
  <2>3. CASE Wakes
    <3>1. "Resumed" \in SessionMessages /\ "Resumed" \notin Actives
      BY DEF SessionMessages, Actives
    <3> QED  BY <2>3, <3>1 DEF Wakes, Emit
  <2>4. CASE LocksOrUnlocks
    <3>1. {"Lock", "Unlock"} \subseteq SessionMessages \ Actives
      BY DEF SessionMessages, Actives
    <3> QED  BY <2>4, <3>1 DEF LocksOrUnlocks, Emit
  <2> QED  BY <2>1, <2>2, <2>3, <2>4
<1>2. ASSUME NEW S, NEW U
      PROVE  /\ toShell' \in Seq(SessionMessages)
             /\ Holds(toShell', S) <=> m \in S \/ Holds(toShell, S)
             /\ Ends(toShell', S, U) <=> m \in S \/ (Ends(toShell, S, U) /\ m \notin U)
  BY <1>1, SentOne
<1>3. SessionTypes'
  <2>1. UNCHANGED <<toLogind, isSessionActive>>
    BY <1>1
  <2> QED  BY <1>1, <1>2, <2>1, Zenon
<1>4. WillLock'
  <2> DEFINE L == {"PrepareForSleep", "Lock"}  U == {"Unlock"}
  <2>1. logind'.asleep => m \notin U /\ (logind.asleep \/ m \in L)
    BY <1>1
  <2> HIDE DEF L, U
  <2>2. /\ m \in L => Ends(toShell', L, U)
        /\ m \notin U /\ Ends(toShell, L, U) => Ends(toShell', L, U)
        /\ m \notin U /\ ~Holds(toShell, U) => ~Holds(toShell', U)
    BY <1>2
  <2> QED  BY <1>1, <2>1, <2>2 DEF WillLock, L, U
<1>5. WillKnow'
  <2> DEFINE T == {"Invalidated", Current}
  <2>1. CASE logind'.active = logind.active
    <3>1. T' = T /\ m \notin Actives
      BY <1>1, <2>1 DEF Current
    <3> HIDE DEF T
    <3>2. /\ Ends(toShell, T, Actives) => Ends(toShell', T, Actives)
          /\ ~Holds(toShell, Actives) => ~Holds(toShell', Actives)
      BY <1>2, <3>1
    <3> QED  BY <1>1, <2>1, <3>1, <3>2 DEF WillKnow, T
  <2>2. CASE logind'.active # logind.active
    <3>1. m \in T'
      BY <1>1, <2>2 DEF Current
    <3> HIDE DEF T
    <3>2. Ends(toShell', T', Actives)
      BY <1>2, <3>1
    <3> QED  BY <3>2 DEF WillKnow, T
  <2> QED  BY <2>1, <2>2
<1>6. WillBeIdle'
  BY <1>1 DEF WillBeIdle
<1> QED  BY <1>3, <1>4, <1>5, <1>6

LEMMA SessionStep == SessionInv /\ [SessionNext]_sessionVars => SessionInv'
<1>1. SessionInv /\ UNCHANGED sessionVars => SessionInv'
  BY DEF sessionVars, SessionInv, SessionTypes, WillLock, WillKnow, WillBeIdle, Current
<1> QED  BY <1>1, ShellReceivesKeeps, ShellSendsKeeps, LogindReceivesKeeps, EmitKeeps DEF SessionNext

\* A machine that sleeps is locked once the shell has heard of it
\* (Suspend(), onResuming(), PromptLock()).
THEOREM LockedAsleep == SessionSpec => []SleepsLocked
<1>1. SessionInv => SleepsLocked
  <2>1. Len(<< >>) = 0
    OBVIOUS
  <2> QED  BY <2>1 DEF SessionInv, WillLock, SleepsLocked, Ends
<1> QED  BY <1>1, SessionStarts, SessionStep, PTL DEF SessionSpec

\* Once no message is under way the service knows whether the session is
\* active (checkActive(), onPropertiesChanged()).
THEOREM SessionIsKnown == SessionSpec => []KnowsTheSession
<1>1. SessionInv => KnowsTheSession
  <2> SUFFICES ASSUME SessionInv, toLogind = << >>, toShell = << >>
               PROVE  isSessionActive = logind.active /\ (logind.idle => ~logind.active)
    BY DEF KnowsTheSession
  <2>1. \A S, U : ~Holds(toLogind, S) /\ ~Holds(toShell, S) /\ ~Ends(toShell, S, U)
    BY DEF Holds, Ends
  <2>2. (isSessionActive <=> logind.active) /\ (logind.idle => ~isSessionActive)
    BY <2>1 DEF SessionInv, WillKnow, WillBeIdle
  <2>3. isSessionActive \in BOOLEAN /\ logind.active \in BOOLEAN
    BY DEF SessionInv, SessionTypes
  <2> QED  BY <2>2, <2>3
<1> QED  BY <1>1, SessionStarts, SessionStep, PTL DEF SessionSpec

-----------------------------------------------------------------------------
(***************************************************************************)
(* The client of AccountsService.                                          *)
(***************************************************************************)
Signal(kind, name, p) == [kind |-> kind, user |-> name, property |-> p]
Answered(p, x) == [kind |-> "reply", property |-> p, value |-> x]
Setting(name, p, x) == [op |-> "Set", user |-> name, property |-> p, value |-> x]

AccountCalls ==
  {Get(name, p) : name \in UserNames, p \in Properties}
    \cup {Setting(name, p, x) : name \in UserNames, p \in Properties, x \in PropertyValues}
AccountMessages ==
  {Answered(p, x) : p \in Properties, x \in PropertyValues}
    \cup {Signal(kind, name, p) : kind \in {"PropertiesChanged", "Changed"},
                                  name \in UserNames, p \in Properties}

AccountsTypes ==
  /\ accounts \in [UserNames -> [Properties -> PropertyValues]]
  /\ user \in UserNames
  /\ value \in [Properties -> PropertyValues]
  /\ calls \in Seq(AccountCalls) /\ messages \in Seq(AccountMessages)

\* A Changed that follows PropertiesChanged is ignored, and only it is.
Followers == {Signal("Changed", name, p) : name \in UserNames, p \in Properties \ Builtin}
InPairs(q) ==
  \A i \in 1..Len(q) :
    q[i].kind = "PropertiesChanged" => i + 1 \in 1..Len(q) /\ q[i + 1] \in Followers
Paired ==
  /\ InPairs(messages)
  /\ ignoreNextChanged => messages # <<>> /\ Head(messages) \in Followers

\* The calls that ask for p, the last of which is for the user.
Asking(p) == {Get(name, p) : name \in UserNames}
Elsewhere(p) == Asking(p) \ {Get(user, p)}
AsksLast(p) == Holds(calls, Asking(p)) => Ends(calls, {Get(user, p)}, Elsewhere(p))

\* p will be asked for, will change in the daemon, is told to have changed, or
\* was answered for good.
Changing(p) == {Setting(user, p, x) : x \in PropertyValues \ {accounts[user][p]}}
Telling(p) ==
  IF p \in Builtin THEN {Signal("Changed", user, b) : b \in Builtin}
  ELSE {Signal("PropertiesChanged", user, p)}
Replies(p) == {Answered(p, x) : x \in PropertyValues}
Right(p) == {Answered(p, accounts[user][p])}
Settles(p) ==
  \/ Holds(calls, Asking(p))
  \/ Holds(calls, Changing(p))
  \/ Holds(messages, Telling(p))
  \/ Ends(messages, Right(p), Replies(p))
  \/ value[p] = accounts[user][p] /\ ~Holds(messages, Replies(p))

AccountsInv ==
  /\ AccountsTypes /\ user \in known /\ Paired
  /\ \A p \in Properties : AsksLast(p) /\ Settles(p)

LEMMA EndsHold ==
  ASSUME NEW q, NEW S, NEW T, NEW U, S \subseteq T
  PROVE  /\ Ends(q, S, U) => Holds(q, T)
         /\ Holds(q, S) => Holds(q, T)
         /\ Holds(q, S) /\ ~Holds(q, U) /\ Len(q) \in Nat => Ends(q, S, U)
BY DEF Ends, Holds

\* What Gets() sends.
LEMMA GetsAre ==
  ASSUME NEW S, S \subseteq Properties, NEW name \in UserNames
  PROVE  /\ Gets(name, S) \in Seq(AccountCalls)
         /\ \A i \in 1..Len(Gets(name, S)) : \E p \in S : Gets(name, S)[i] = Get(name, p)
         /\ \A p \in S : \E i \in 1..Len(Gets(name, S)) : Gets(name, S)[i] = Get(name, p)
<1> DEFINE n == Cardinality(S)  f == SetToSeq(S)
<1>1. IsFiniteSet(S)
  BY PropertiesAssumption, FS_Subset
<1>2. n \in Nat /\ ExistsBijection(1..n, S)
  BY <1>1, FS_CardinalityType
<1>3. \E g \in [1..n -> S] : IsInjective(g)
  BY <1>2 DEF ExistsBijection, Bijection, Injection
<1>4. f \in [1..n -> S] /\ IsInjective(f)
  BY <1>3 DEF SetToSeq
<1>5. IsFiniteSet(1..n) /\ Cardinality(1..n) = n
  BY <1>2, FS_Interval
<1>6. f \in Surjection(1..n, S)
  <2>1. f \in Injection(1..n, S)
    BY <1>4 DEF Injection
  <2> QED  BY <1>1, <1>5, <2>1, FS_Injection
<1> DEFINE g == Gets(name, S)
<1>7. g = [i \in 1..n |-> Get(name, f[i])]
  BY DEF Gets
<1> HIDE DEF n, f, g
<1>8. Len(g) = n /\ \A i \in 1..n : f[i] \in S /\ g[i] = Get(name, f[i])
  BY <1>2, <1>4, <1>7
<1>9. g \in Seq(AccountCalls)
  <2>1. \A i \in 1..n : Get(name, f[i]) \in AccountCalls
    BY <1>8 DEF AccountCalls
  <2> QED  BY <1>2, <1>7, <2>1
<1>10. \A p \in S : \E i \in 1..n : f[i] = p
  BY <1>6 DEF Surjection
<1> QED  BY <1>8, <1>9, <1>10 DEF g

\* Gets for the name ask for S, and for no other name.
LEMMA GetsAsk ==
  ASSUME NEW name \in UserNames, NEW S, S \subseteq Properties, NEW p \in Properties
  PROVE  LET r == Gets(name, S)
             rest == Asking(p) \ {Get(name, p)}
         IN  /\ r \in Seq(AccountCalls)
             /\ ~Holds(r, rest)
             /\ p \in S => Ends(r, {Get(name, p)}, rest)
             /\ p \notin S => ~Holds(r, Asking(p))
<1> DEFINE r == Gets(name, S)  rest == Asking(p) \ {Get(name, p)}
<1>1. /\ r \in Seq(AccountCalls)
      /\ \A i \in 1..Len(r) : \E s \in S : r[i] = Get(name, s)
      /\ \A s \in S : \E i \in 1..Len(r) : r[i] = Get(name, s)
  BY GetsAre
<1> HIDE DEF r
<1>2. \A s \in S, other \in UserNames : Get(name, s) = Get(other, p) => other = name /\ s = p
  BY DEF Get
<1>3. \A s \in S : Get(name, s) \notin rest
  BY <1>2 DEF Elsewhere, Asking
<1>4. \A s \in S : s # p => Get(name, s) \notin Asking(p)
  BY <1>2 DEF Asking
<1> HIDE DEF rest
<1>5. \A i \in 1..Len(r) : r[i] \notin rest
  BY <1>1, <1>3
<1>6. ASSUME p \in S PROVE Ends(r, {Get(name, p)}, rest)
  <2>1. PICK i \in 1..Len(r) : r[i] = Get(name, p)
    BY <1>1, <1>6
  <2>2. \A j \in (i + 1)..Len(r) : r[j] \notin rest
    BY <1>1, <1>5, LenProperties
  <2> QED  BY <2>1, <2>2 DEF Ends
<1>7. ASSUME p \notin S PROVE ~Holds(r, Asking(p))
  BY <1>1, <1>4, <1>7 DEF Holds
<1> QED  BY <1>1, <1>5, <1>6, <1>7 DEF Holds, r, rest

LEMMA AccountsStart == AccountsInit => AccountsInv
<1> SUFFICES ASSUME AccountsInit PROVE AccountsInv
  OBVIOUS
<1>1. AccountsTypes /\ user \in known
  BY DEF AccountsInit, AccountsTypes
<1>2. Paired
  BY DEF AccountsInit, Paired, InPairs
<1>3. \A q, S : q = <<>> => ~Holds(q, S)
  BY DEF Holds
<1>4. ASSUME NEW p \in Properties PROVE AsksLast(p) /\ Settles(p)
  <2>1. value[p] = accounts[user][p]
    BY DEF AccountsInit
  <2> QED  BY <1>3, <2>1 DEF AccountsInit, AsksLast, Settles
<1> QED  BY <1>1, <1>2, <1>4 DEF AccountsInv

LEMMA PairsFollow ==
  ASSUME NEW q \in Seq(AccountMessages), NEW r \in Seq(AccountMessages), InPairs(q), InPairs(r)
  PROVE  InPairs(q \o r)
<1> DEFINE b == q \o r  m == Len(q)  n == Len(r)
<1>1. /\ m \in Nat /\ n \in Nat /\ Len(b) = m + n
      /\ \A i \in 1..m : b[i] = q[i]
      /\ \A i \in 1..n : b[m + i] = r[i]
  BY ConcatProperties, LenProperties
<1> HIDE DEF b, m, n
<1>2. ASSUME NEW i \in 1..(m + n), b[i].kind = "PropertiesChanged"
      PROVE  i + 1 \in 1..(m + n) /\ b[i + 1] \in Followers
  <2>1. CASE i \in 1..m
    <3>1. i + 1 \in 1..m /\ q[i + 1] \in Followers
      BY <1>1, <1>2, <2>1 DEF InPairs, m
    <3> QED  BY <1>1, <3>1
  <2>2. CASE i \notin 1..m
    <3> DEFINE j == i - m
    <3>1. j \in 1..n /\ i = m + j /\ i + 1 = m + (j + 1)
      BY <1>1, <2>2
    <3>2. j + 1 \in 1..n /\ r[j + 1] \in Followers
      BY <1>1, <1>2, <3>1 DEF InPairs, n
    <3>3. b[m + (j + 1)] = r[j + 1] /\ i + 1 \in 1..(m + n)
      BY <1>1, <3>1, <3>2, SMTT(20)
    <3> QED  BY <3>1, <3>2, <3>3
  <2> QED  BY <2>1, <2>2
<1> QED  BY <1>1, <1>2 DEF InPairs, b

\* The message at the head is handled; a PropertiesChanged leaves its Changed.
LEMMA PairsLeft ==
  ASSUME NEW q \in Seq(AccountMessages), q # <<>>, InPairs(q)
  PROVE  /\ InPairs(Tail(q))
         /\ Head(q).kind = "PropertiesChanged" => Tail(q) # <<>> /\ Head(Tail(q)) \in Followers
<1> DEFINE t == Tail(q)  n == Len(q)
<1>1. /\ n \in Nat /\ n > 0 /\ Len(t) = n - 1 /\ t \in Seq(AccountMessages)
      /\ \A i \in 1..(n - 1) : t[i] = q[i + 1]
      /\ Head(q) = q[1]
  BY HeadTailProperties, LenProperties
<1> HIDE DEF t
<1>2. InPairs(t)
  <2> SUFFICES ASSUME NEW i \in 1..(n - 1), t[i].kind = "PropertiesChanged"
               PROVE  i + 1 \in 1..(n - 1) /\ t[i + 1] \in Followers
    BY <1>1 DEF InPairs
  <2>1. i + 1 \in 1..n /\ q[i + 1].kind = "PropertiesChanged"
    BY <1>1
  <2>2. (i + 1) + 1 \in 1..n /\ q[(i + 1) + 1] \in Followers
    BY <2>1 DEF InPairs
  <2> QED  BY <1>1, <2>2
<1>3. ASSUME Head(q).kind = "PropertiesChanged" PROVE t # <<>> /\ Head(t) \in Followers
  <2>1. 1 + 1 \in 1..n /\ q[1 + 1] \in Followers
    BY <1>1, <1>3 DEF InPairs
  <2>2. 1 \in 1..(n - 1) /\ t[1] = q[2]
    BY <1>1, <2>1
  <2>3. Len(t) > 0 /\ Head(t) = t[1]
    BY <1>1, <2>2
  <2> QED  BY <2>1, <2>2, <2>3
<1> QED  BY <1>2, <1>3 DEF t

\* Calls of the user are sent after the others, for the properties S.
LEMMA GetsKeep ==
  ASSUME AccountsInv, NEW S, S \subseteq Properties, NEW p \in Properties,
         calls' = calls \o Gets(user, S), UNCHANGED <<accounts, user>>
  PROVE  /\ calls' \in Seq(AccountCalls)
         /\ AsksLast(p)'
         /\ Holds(calls, Asking(p)) \/ p \in S => Holds(calls', Asking(p))
         /\ Holds(calls, Changing(p)) => Holds(calls', Changing(p))
<1> DEFINE r == Gets(user, S)
<1>1. /\ r \in Seq(AccountCalls)
      /\ ~Holds(r, Elsewhere(p))
      /\ p \in S => Ends(r, {Get(user, p)}, Elsewhere(p))
      /\ p \notin S => ~Holds(r, Asking(p))
  BY GetsAsk DEF AccountsInv, AccountsTypes, Elsewhere
<1>2. calls \in Seq(AccountCalls) /\ AsksLast(p) /\ user \in UserNames
  BY DEF AccountsInv, AccountsTypes
<1>3. {Get(user, p)} \subseteq Asking(p)
  BY <1>2 DEF Asking
<1> HIDE DEF r
<1>4. p \in S => Holds(r, Asking(p))
  BY <1>1, <1>3, EndsHold
<1>5. ASSUME NEW A, NEW U
      PROVE  /\ calls' \in Seq(AccountCalls)
             /\ Holds(calls', A) <=> Holds(calls, A) \/ Holds(r, A)
             /\ Ends(calls', A, U) <=> Ends(r, A, U) \/ (Ends(calls, A, U) /\ ~Holds(r, U))
  BY <1>1, <1>2, SentAfter DEF r
<1>6. Elsewhere(p)' = Elsewhere(p) /\ user' = user
  BY DEF Elsewhere, Asking
<1>7. Holds(calls', Asking(p)) => Ends(calls', {Get(user, p)}, Elsewhere(p))
  BY <1>1, <1>2, <1>5 DEF AsksLast
<1>8. Holds(calls, Asking(p)) \/ p \in S => Holds(calls', Asking(p))
  BY <1>4, <1>5
<1> QED  BY <1>5, <1>6, <1>7, <1>8 DEF AsksLast

LEMMA SetUserKeeps ==
  ASSUME AccountsInv, NEW name \in UserNames, SetUser(name) PROVE AccountsInv'
<1> DEFINE r == Gets(name, Properties)
<1>1. /\ user' = name /\ known' = known \cup {name} /\ calls' = calls \o r
      /\ UNCHANGED <<accounts, value, ignoreNextChanged, messages>>
  BY DEF SetUser
<1>2. r \in Seq(AccountCalls) /\ calls \in Seq(AccountCalls)
  BY GetsAre DEF AccountsInv, AccountsTypes
<1>3. AccountsTypes' /\ (user \in known)'
  <2>1. calls' \in Seq(AccountCalls)
    BY <1>1, <1>2, ConcatProperties
  <2> QED  BY <1>1, <2>1 DEF AccountsInv, AccountsTypes
<1>4. Paired'
  BY <1>1 DEF AccountsInv, Paired, InPairs
<1>5. ASSUME NEW p \in Properties PROVE AsksLast(p)' /\ Settles(p)'
  <2> DEFINE rest == Asking(p) \ {Get(name, p)}
  <2>1. Ends(r, {Get(name, p)}, rest)
    BY GetsAsk
  <2>2. Elsewhere(p)' = rest
    BY <1>1 DEF Elsewhere, Asking
  <2>3. {Get(name, p)} \subseteq Asking(p)
    BY DEF Asking
  <2> HIDE DEF r, rest
  <2>4. Holds(r, Asking(p))
    BY <2>1, <2>3, EndsHold
  <2>5. Ends(calls', {Get(name, p)}, rest)
    BY <1>1, <1>2, <2>1, SentAfter
  <2>6. Holds(calls', Asking(p))
    BY <1>1, <1>2, <2>4, SentAfter
  <2> QED  BY <1>1, <2>2, <2>5, <2>6 DEF AsksLast, Settles
<1> QED  BY <1>3, <1>4, <1>5 DEF AccountsInv

LEMMA SetPropertyKeeps ==
  ASSUME AccountsInv, NEW property \in Properties, NEW x \in PropertyValues, SetProperty(property, x)
  PROVE  AccountsInv'
<1> DEFINE c == Setting(user, property, x)
<1>1. /\ value' = [value EXCEPT ![property] = x] /\ calls' = Append(calls, c)
      /\ UNCHANGED <<accounts, user, known, ignoreNextChanged, messages>>
  BY DEF SetProperty, Setting
<1>2. c \in AccountCalls /\ calls \in Seq(AccountCalls) /\ value \in [Properties -> PropertyValues]
  BY DEF AccountCalls, AccountsInv, AccountsTypes
<1>3. ASSUME NEW p \in Properties
      PROVE  c \notin Asking(p) /\ (p = property /\ accounts[user][p] # x => c \in Changing(p))
  <2>1. \A name \in UserNames : c # Get(name, p)
    BY DEF Setting, Get
  <2> QED  BY <2>1 DEF Asking, Changing
<1> HIDE DEF c
<1>4. ASSUME NEW A, NEW U
      PROVE  /\ calls' \in Seq(AccountCalls)
             /\ Holds(calls', A) <=> c \in A \/ Holds(calls, A)
             /\ Ends(calls', A, U) <=> c \in A \/ (Ends(calls, A, U) /\ c \notin U)
  BY <1>1, <1>2, SentOne
<1>5. AccountsTypes' /\ (user \in known)' /\ Paired'
  BY <1>1, <1>2, <1>4 DEF AccountsInv, AccountsTypes, Paired, InPairs
<1>6. ASSUME NEW p \in Properties PROVE AsksLast(p)' /\ Settles(p)'
  <2>1. /\ Elsewhere(p)' = Elsewhere(p) /\ Changing(p)' = Changing(p)
        /\ Telling(p)' = Telling(p) /\ Right(p)' = Right(p) /\ user' = user
        /\ accounts' = accounts /\ messages' = messages
    BY <1>1 DEF Elsewhere, Asking, Changing, Telling, Right
  <2>2. AsksLast(p) /\ Settles(p) /\ c \notin Asking(p) /\ c \notin Elsewhere(p)
    BY <1>3 DEF AccountsInv, Elsewhere
  <2>3. AsksLast(p)'
    BY <1>4, <2>1, <2>2 DEF AsksLast
  <2>4. Holds(calls, Asking(p)) => Holds(calls', Asking(p))
    BY <1>4
  <2>5. Holds(calls, Changing(p)) => Holds(calls', Changing(p))
    BY <1>4
  <2>6. CASE p # property
    <3>1. value'[p] = value[p]
      BY <1>1, <1>2, <2>6
    <3> QED  BY <2>1, <2>2, <2>3, <2>4, <2>5, <3>1 DEF Settles
  <2>7. CASE p = property /\ accounts[user][p] # x
    <3>1. Holds(calls', Changing(p))
      BY <1>3, <1>4, <2>7
    <3> QED  BY <2>1, <2>3, <3>1 DEF Settles
  <2>8. CASE p = property /\ accounts[user][p] = x
    <3>1. value'[p] = accounts[user][p]
      BY <1>1, <1>2, <2>8
    <3> QED  BY <2>1, <2>2, <2>3, <2>4, <2>5, <3>1 DEF Settles
  <2> QED  BY <2>6, <2>7, <2>8
<1> QED  BY <1>5, <1>6 DEF AccountsInv

LEMMA ReplyKeeps == ASSUME AccountsInv, Reply PROVE AccountsInv'
<1> DEFINE e == Head(messages)
<1>1. /\ messages # <<>> /\ messages' = Tail(messages) /\ e.kind = "reply"
      /\ value' = [value EXCEPT ![e.property] = e.value]
      /\ UNCHANGED <<accounts, user, known, ignoreNextChanged, calls>>
  BY DEF Reply, UpdateCache
<1>2. /\ messages \in Seq(AccountMessages) /\ value \in [Properties -> PropertyValues]
      /\ accounts \in [UserNames -> [Properties -> PropertyValues]] /\ user \in UserNames
      /\ e \in AccountMessages /\ messages' \in Seq(AccountMessages)
  BY <1>1, HeadTailProperties DEF AccountsInv, AccountsTypes
<1>3. PICK q \in Properties, x \in PropertyValues : e = Answered(q, x)
  <2>1. \A kind \in {"PropertiesChanged", "Changed"}, name \in UserNames, p \in Properties :
          Signal(kind, name, p).kind = kind
    BY DEF Signal
  <2> QED  BY <1>1, <1>2, <2>1 DEF AccountMessages
<1>4. e.property = q /\ e.value = x
  BY <1>3 DEF Answered
<1>5. ASSUME NEW p \in Properties
      PROVE  /\ e \notin Telling(p)
             /\ e \in Replies(p) => p = q
             /\ e \in Right(p) => p = q /\ x = accounts[user][p]
             /\ p = q => e \in Replies(p)
  <2>1. e \notin Telling(p)
    BY <1>1 DEF Telling, Signal
  <2>2. \A y \in PropertyValues : Answered(p, y) = Answered(q, x) <=> p = q /\ x = y
    BY DEF Answered
  <2>3. accounts[user][p] \in PropertyValues
    BY <1>2
  <2> QED  BY <1>3, <2>1, <2>2, <2>3 DEF Replies, Right
<1>6. e \notin Followers
  BY <1>1 DEF Followers, Signal
<1> HIDE DEF e
<1>7. ASSUME NEW A, NEW U
      PROVE  /\ Holds(messages, A) <=> e \in A \/ Holds(messages', A)
             /\ Ends(messages, A, U) <=> Ends(messages', A, U) \/ (e \in A /\ ~Holds(messages', U))
  BY <1>1, <1>2, Handled DEF e
<1>8. AccountsTypes' /\ (user \in known)'
  <2>1. value' \in [Properties -> PropertyValues]
    BY <1>1, <1>2, <1>3, <1>4
  <2> QED  BY <1>1, <1>2, <2>1 DEF AccountsInv, AccountsTypes
<1>9. Paired'
  <2>1. ~ignoreNextChanged
    BY <1>6 DEF AccountsInv, Paired, e
  <2>2. InPairs(messages')
    BY <1>1, <1>2, PairsLeft DEF AccountsInv, Paired
  <2> QED  BY <1>1, <2>1, <2>2 DEF Paired
<1>10. ASSUME NEW p \in Properties PROVE AsksLast(p)' /\ Settles(p)'
  <2>1. /\ Elsewhere(p)' = Elsewhere(p) /\ Changing(p)' = Changing(p)
        /\ Telling(p)' = Telling(p) /\ Right(p)' = Right(p) /\ user' = user
        /\ accounts' = accounts /\ calls' = calls
    BY <1>1 DEF Elsewhere, Asking, Changing, Telling, Right
  <2>2. AsksLast(p) /\ Settles(p)
    BY DEF AccountsInv
  <2>3. AsksLast(p)'
    BY <2>1, <2>2 DEF AsksLast
  <2>4. Holds(messages, Telling(p)) => Holds(messages', Telling(p))
    BY <1>5, <1>7
  <2>5. CASE p # q
    <3>1. value'[p] = value[p]
      BY <1>1, <1>2, <1>4, <2>5
    <3>2. /\ Ends(messages, Right(p), Replies(p)) => Ends(messages', Right(p), Replies(p))
          /\ ~Holds(messages, Replies(p)) => ~Holds(messages', Replies(p))
      BY <1>5, <1>7, <2>5
    <3> QED  BY <2>1, <2>2, <2>3, <2>4, <3>1, <3>2 DEF Settles
  <2>6. CASE p = q
    <3>1. value'[p] = x
      BY <1>1, <1>2, <1>4, <2>6
    <3>2. Holds(messages, Replies(p))
      BY <1>5, <1>7, <2>6
    <3>3. Ends(messages, Right(p), Replies(p)) =>
            \/ Ends(messages', Right(p), Replies(p))
            \/ x = accounts[user][p] /\ ~Holds(messages', Replies(p))
      BY <1>5, <1>7
    <3> QED  BY <2>1, <2>2, <2>3, <2>4, <3>1, <3>2, <3>3 DEF Settles
  <2> QED  BY <2>5, <2>6
<1> QED  BY <1>8, <1>9, <1>10 DEF AccountsInv

\* A signal that is handled: what it tells is asked for.
LEMMA SignalKeeps ==
  ASSUME AccountsInv, messages # <<>>, messages' = Tail(messages), NEW S, S \subseteq Properties,
         Head(messages).kind # "reply",
         calls' = calls \o Gets(user, S) \/ (calls' = calls /\ S = {}),
         \A p \in Properties : Head(messages) \in Telling(p) => p \in S,
         ignoreNextChanged' => Head(messages).kind = "PropertiesChanged",
         UNCHANGED <<accounts, user, value, known>>
  PROVE  AccountsInv'
<1> DEFINE e == Head(messages)
<1>1. /\ messages \in Seq(AccountMessages) /\ calls \in Seq(AccountCalls)
      /\ messages' \in Seq(AccountMessages)
  BY HeadTailProperties DEF AccountsInv, AccountsTypes
<1>2. ASSUME NEW p \in Properties
      PROVE  /\ calls' \in Seq(AccountCalls)
             /\ AsksLast(p)'
             /\ Holds(calls, Asking(p)) \/ p \in S => Holds(calls', Asking(p))
             /\ Holds(calls, Changing(p)) => Holds(calls', Changing(p))
  <2>1. CASE calls' = calls \o Gets(user, S)
    BY <2>1, GetsKeep
  <2>2. CASE calls' = calls /\ S = {}
    <3>1. AsksLast(p)' <=> AsksLast(p)
      BY <2>2 DEF AsksLast, Elsewhere, Asking
    <3> QED  BY <1>1, <2>2, <3>1 DEF AccountsInv
  <2> QED  BY <2>1, <2>2
<1>3. calls' \in Seq(AccountCalls)
  <2>1. Gets(user, S) \in Seq(AccountCalls)
    BY GetsAre DEF AccountsInv, AccountsTypes
  <2> QED  BY <1>1, <2>1, ConcatProperties
<1>4. AccountsTypes' /\ (user \in known)'
  BY <1>1, <1>3 DEF AccountsInv, AccountsTypes
<1>5. Paired'
  BY <1>1, PairsLeft DEF AccountsInv, Paired
<1>6. ASSUME NEW p \in Properties PROVE Settles(p)'
  <2>1. /\ Changing(p)' = Changing(p) /\ Telling(p)' = Telling(p) /\ Right(p)' = Right(p)
        /\ user' = user /\ accounts' = accounts /\ value' = value
    BY DEF Changing, Telling, Right
  <2>2. Settles(p) /\ (e \in Telling(p) => p \in S)
    BY DEF AccountsInv
  <2>3. e \notin Replies(p)
    BY DEF Replies, Answered
  <2>4. Right(p) \subseteq Replies(p)
    BY DEF Right, Replies, AccountsInv, AccountsTypes
  <2>4a. ASSUME NEW A, NEW U
         PROVE  /\ Holds(messages, A) <=> e \in A \/ Holds(messages', A)
                /\ Ends(messages, A, U) <=> Ends(messages', A, U) \/ (e \in A /\ ~Holds(messages', U))
    BY <1>1, Handled
  <2> HIDE DEF e
  <2>5. /\ Holds(messages, Telling(p)) => e \in Telling(p) \/ Holds(messages', Telling(p))
        /\ Ends(messages, Right(p), Replies(p)) => Ends(messages', Right(p), Replies(p))
        /\ ~Holds(messages, Replies(p)) => ~Holds(messages', Replies(p))
    BY <2>3, <2>4, <2>4a
  <2> QED  BY <1>2, <2>1, <2>2, <2>5 DEF Settles
<1> QED  BY <1>2, <1>4, <1>5, <1>6 DEF AccountsInv

LEMMA PropertiesChangedKeeps == ASSUME AccountsInv, PropertiesChanged PROVE AccountsInv'
<1> DEFINE e == Head(messages)  S == IF e.user = user THEN {e.property} ELSE {}
<1>1. /\ messages # <<>> /\ messages' = Tail(messages) /\ e.kind = "PropertiesChanged"
      /\ UNCHANGED <<accounts, user, value, known>>
  BY DEF PropertiesChanged
<1>2. calls' = calls \o Gets(user, S) \/ (calls' = calls /\ S = {})
  BY DEF PropertiesChanged, Updates
<1>3. e \in AccountMessages
  BY <1>1, HeadTailProperties DEF AccountsInv, AccountsTypes
<1>4. S \subseteq Properties
  <2>1. \A p \in Properties, x \in PropertyValues : Answered(p, x).kind = "reply"
    BY DEF Answered
  <2> HIDE DEF S, e
  <2>2. PICK kind \in {"PropertiesChanged", "Changed"}, name \in UserNames, p \in Properties :
          e = Signal(kind, name, p)
    BY <1>1, <1>3, <2>1 DEF AccountMessages
  <2>3. e.property \in Properties
    BY <2>2 DEF Signal
  <2> QED  BY <2>3 DEF S
<1>5. ASSUME NEW p \in Properties, e \in Telling(p) PROVE p \in S
  BY <1>1, <1>5 DEF Telling, Signal
<1> HIDE DEF S
<1> QED  BY <1>1, <1>2, <1>4, <1>5, SignalKeeps

LEMMA MaybeChangedKeeps == ASSUME AccountsInv, MaybeChanged PROVE AccountsInv'
<1> DEFINE e == Head(messages)
           S == IF e.user = user /\ ~ignoreNextChanged THEN Builtin ELSE {}
<1>1. /\ messages # <<>> /\ messages' = Tail(messages) /\ e.kind = "Changed"
      /\ ignoreNextChanged' = FALSE /\ UNCHANGED <<accounts, user, value, known>>
  BY DEF MaybeChanged, IgnoresNext
<1>2. calls' = calls \o Gets(user, S) \/ (calls' = calls /\ S = {})
  <2>1. calls' = IF e.user = user THEN calls \o Gets(user, IF ignoreNextChanged THEN {} ELSE Builtin)
                 ELSE calls
    BY DEF MaybeChanged, Updates
  <2> QED  BY <2>1
<1>3. S \subseteq Properties
  BY DEF Properties
<1>4. ASSUME NEW p \in Properties, e \in Telling(p) PROVE p \in S
  <2>1. PICK b \in Builtin : p \in Builtin /\ e = Signal("Changed", user, b)
    BY <1>1, <1>4 DEF Telling, Signal
  <2>2. e.user = user /\ e.property \in Builtin
    BY <2>1 DEF Signal
  <2>3. e \notin Followers
    BY <2>2 DEF Followers, Signal
  <2>4. ~ignoreNextChanged
    BY <2>3 DEF AccountsInv, Paired
  <2> QED  BY <2>1, <2>2, <2>4
<1> HIDE DEF S
<1> QED  BY <1>1, <1>2, <1>3, <1>4, SignalKeeps

\* What the daemon sends for a change.
LEMMA SignalsAre ==
  ASSUME NEW name \in UserNames, NEW q \in Properties
  PROVE  /\ Signals(name, q) \in Seq(AccountMessages)
         /\ InPairs(Signals(name, q))
         /\ \A p \in Properties : ~Holds(Signals(name, q), Replies(p))
         /\ name = user /\ user \in known => Holds(Signals(name, q), Telling(q))
<1> DEFINE r == Signals(name, q)
           c == Signal("Changed", name, q)  pc == Signal("PropertiesChanged", name, q)
<1>1. /\ c \in AccountMessages /\ pc \in AccountMessages
      /\ c.kind = "Changed" /\ pc.kind = "PropertiesChanged"
  BY DEF AccountMessages, Signal
<1>2. \A p \in Properties : c \notin Replies(p) /\ pc \notin Replies(p)
  BY <1>1 DEF Replies, Answered
<1>3. CASE name \notin known
  <2>1. r = <<>>
    BY <1>3 DEF Signals
  <2> QED  BY <1>3, <2>1 DEF InPairs, Holds
<1>4. CASE name \in known /\ q \in Builtin
  <2>1. r = <<c>>
    BY <1>4 DEF Signals, Signal
  <2>2. name = user => c \in Telling(q)
    BY <1>4 DEF Telling
  <2> HIDE DEF r, c
  <2>3. r \in Seq(AccountMessages) /\ Len(r) = 1 /\ r[1] = c
    BY <1>1, <2>1
  <2> QED  BY <1>1, <1>2, <2>2, <2>3 DEF InPairs, Holds, r
<1>5. CASE name \in known /\ q \notin Builtin
  <2>1. r = <<pc, c>>
    BY <1>5 DEF Signals, Signal
  <2>2. name = user => pc \in Telling(q)
    BY <1>5 DEF Telling
  <2>3. c \in Followers
    BY <1>5 DEF Followers
  <2> HIDE DEF r, c, pc
  <2>4. r \in Seq(AccountMessages) /\ Len(r) = 2 /\ r[1] = pc /\ r[2] = c
    BY <1>1, <2>1
  <2>5. InPairs(r)
    BY <1>1, <2>3, <2>4 DEF InPairs
  <2>6. \A p \in Properties : ~Holds(r, Replies(p))
    BY <1>2, <2>4 DEF Holds
  <2>7. name = user => Holds(r, Telling(q))
    BY <2>2, <2>4 DEF Holds
  <2> QED  BY <2>4, <2>5, <2>6, <2>7 DEF r
<1> QED  BY <1>3, <1>4, <1>5

\* The daemon's value changes, or stays; of the calls at most a Set is gone.
LEMMA ChangesKeep ==
  ASSUME AccountsInv, NEW name \in UserNames, NEW q \in Properties, NEW x \in PropertyValues,
         Changes(name, q, x), UNCHANGED <<user, value, known, ignoreNextChanged>>,
         \/ calls' = calls
         \/ calls # <<>> /\ Head(calls) = Setting(name, q, x) /\ calls' = Tail(calls)
  PROVE  AccountsInv'
<1> DEFINE r == IF accounts[name][q] = x THEN <<>> ELSE Signals(name, q)
<1>1. /\ accounts \in [UserNames -> [Properties -> PropertyValues]]
      /\ user \in UserNames /\ user \in known
      /\ calls \in Seq(AccountCalls) /\ messages \in Seq(AccountMessages)
      /\ accounts' = [accounts EXCEPT ![name][q] = x]
  BY DEF AccountsInv, AccountsTypes, Changes
<1>2. /\ accounts' \in [UserNames -> [Properties -> PropertyValues]]
      /\ \A n \in UserNames, p \in Properties :
           accounts'[n][p] = IF n = name /\ p = q THEN x ELSE accounts[n][p]
  BY <1>1
<1>3. messages' = messages \o r
  BY <1>1, ConcatEmptySeq DEF Changes
<1>4. /\ r \in Seq(AccountMessages) /\ InPairs(r)
      /\ \A p \in Properties : ~Holds(r, Replies(p))
      /\ accounts'[user][q] # accounts[user][q] => Holds(r, Telling(q))
  <2>1. CASE accounts[name][q] = x
    BY <1>1, <1>2, <2>1 DEF InPairs, Holds
  <2>2. CASE accounts[name][q] # x
    BY <1>1, <1>2, <2>2, SignalsAre
  <2> QED  BY <2>1, <2>2
<1> HIDE DEF r
<1>5. ASSUME NEW A, NEW U
      PROVE  /\ messages' \in Seq(AccountMessages)
             /\ Holds(messages', A) <=> Holds(messages, A) \/ Holds(r, A)
             /\ Ends(messages', A, U) <=> Ends(r, A, U) \/ (Ends(messages, A, U) /\ ~Holds(r, U))
  BY <1>1, <1>3, <1>4, SentAfter
<1>6. /\ calls' \in Seq(AccountCalls)
      /\ calls' # calls => /\ calls # <<>> /\ Head(calls) = Setting(name, q, x)
                           /\ calls' = Tail(calls)
  BY <1>1, HeadTailProperties
<1>6a. ASSUME NEW A, NEW U, calls' # calls
       PROVE  /\ Holds(calls, A) <=> Setting(name, q, x) \in A \/ Holds(calls', A)
              /\ Ends(calls, A, U) <=>
                   Ends(calls', A, U) \/ (Setting(name, q, x) \in A /\ ~Holds(calls', U))
  <2>1. calls # <<>>
    BY <1>6, <1>6a
  <2>2. /\ Holds(calls, A) <=> Head(calls) \in A \/ Holds(Tail(calls), A)
        /\ Ends(calls, A, U) <=>
             Ends(Tail(calls), A, U) \/ (Head(calls) \in A /\ ~Holds(Tail(calls), U))
    BY <1>1, <2>1, Handled
  <2>3. Head(calls) = Setting(name, q, x) /\ calls' = Tail(calls)
    BY <1>6, <1>6a
  <2> QED  BY <2>2, <2>3
<1>7. AccountsTypes' /\ (user \in known)'
  BY <1>2, <1>5, <1>6 DEF AccountsInv, AccountsTypes
<1>8. Paired'
  <2>1. InPairs(messages')
    BY <1>1, <1>3, <1>4, PairsFollow DEF AccountsInv, Paired
  <2>2. messages # <<>> => messages' # <<>> /\ Head(messages') = Head(messages)
    BY <1>1, <1>3, <1>4
  <2> QED  BY <2>1, <2>2 DEF AccountsInv, Paired
<1>9. ASSUME NEW p \in Properties PROVE AsksLast(p)' /\ Settles(p)'
  <2>1. /\ user' = user /\ value' = value /\ Elsewhere(p)' = Elsewhere(p)
        /\ Telling(p)' = Telling(p)
    BY DEF Elsewhere, Asking, Telling
  <2>2. AsksLast(p) /\ Settles(p)
    BY DEF AccountsInv
  <2>3. Setting(name, q, x) \notin Asking(p) /\ Setting(name, q, x) \notin {Get(user, p)}
    BY DEF Setting, Asking, Get
  <2>4. /\ Holds(calls', Asking(p)) <=> Holds(calls, Asking(p))
        /\ Ends(calls', {Get(user, p)}, Elsewhere(p)) <=> Ends(calls, {Get(user, p)}, Elsewhere(p))
    <3>1. CASE calls' = calls
      BY <3>1
    <3>2. CASE calls' # calls
      BY <1>6a, <2>3, <3>2
    <3> QED  BY <3>1, <3>2
  <2>5. AsksLast(p)'
    BY <2>1, <2>2, <2>4 DEF AsksLast
  <2>6. CASE accounts'[user][p] # accounts[user][p]
    <3>1. p = q
      BY <1>1, <1>2, <2>6
    <3>2. Holds(messages', Telling(p))
      BY <1>4, <1>5, <2>6, <3>1
    <3> QED  BY <2>1, <2>5, <3>2 DEF Settles
  <2>7. CASE accounts'[user][p] = accounts[user][p]
    <3>1. Right(p)' = Right(p) /\ Changing(p)' = Changing(p)
      BY <2>1, <2>7 DEF Right, Changing
    <3>2. Holds(calls, Changing(p)) => Holds(calls', Changing(p))
      <4>1. Setting(name, q, x) \in Changing(p) => accounts'[user][p] # accounts[user][p]
        BY <1>1, <1>2 DEF Setting, Changing
      <4>2. CASE calls' = calls
        BY <4>2
      <4>3. CASE calls' # calls
        BY <1>6a, <2>7, <4>1, <4>3
      <4> QED  BY <4>2, <4>3
    <3>3. /\ Holds(messages, Telling(p)) => Holds(messages', Telling(p))
          /\ Ends(messages, Right(p), Replies(p)) => Ends(messages', Right(p), Replies(p))
          /\ ~Holds(messages, Replies(p)) => ~Holds(messages', Replies(p))
      BY <1>4, <1>5
    <3> QED  BY <2>1, <2>2, <2>4, <2>5, <2>7, <3>1, <3>2, <3>3 DEF Settles
  <2> QED  BY <2>6, <2>7
<1> QED  BY <1>7, <1>8, <1>9 DEF AccountsInv

\* The daemon answers a Get.
LEMMA AnswerKeeps ==
  ASSUME AccountsInv, NEW name \in UserNames, NEW q \in Properties,
         calls # <<>>, Head(calls) = Get(name, q), calls' = Tail(calls),
         messages' = Append(messages, Answered(q, accounts[name][q])),
         UNCHANGED <<accounts, user, value, known, ignoreNextChanged>>
  PROVE  AccountsInv'
<1> DEFINE m == Answered(q, accounts[name][q])
<1>1. /\ accounts \in [UserNames -> [Properties -> PropertyValues]] /\ user \in UserNames
      /\ calls \in Seq(AccountCalls) /\ messages \in Seq(AccountMessages)
      /\ calls' \in Seq(AccountCalls)
  BY HeadTailProperties DEF AccountsInv, AccountsTypes
<1>2. accounts[name][q] \in PropertyValues
  BY <1>1
<1>3. m \in AccountMessages /\ m.kind = "reply"
  BY <1>2 DEF AccountMessages, Answered
<1>4. ASSUME NEW p \in Properties
      PROVE  /\ m \in Replies(p) => p = q
             /\ p = q /\ name = user => m \in Right(p)
             /\ Get(name, q) \in Asking(p) => p = q
             /\ Get(name, q) = Get(user, p) => name = user
             /\ Get(name, q) \notin Changing(p)
  BY DEF Answered, Replies, Right, Get, Asking, Changing, Setting
<1> HIDE DEF m
<1>5. ASSUME NEW A, NEW U
      PROVE  /\ messages' \in Seq(AccountMessages)
             /\ Holds(messages', A) <=> m \in A \/ Holds(messages, A)
             /\ Ends(messages', A, U) <=> m \in A \/ (Ends(messages, A, U) /\ m \notin U)
  BY <1>1, <1>3, SentOne DEF m
<1>6. ASSUME NEW A, NEW U
      PROVE  /\ Holds(calls, A) <=> Get(name, q) \in A \/ Holds(calls', A)
             /\ Ends(calls, A, U) <=>
                  Ends(calls', A, U) \/ (Get(name, q) \in A /\ ~Holds(calls', U))
  BY <1>1, Handled
<1>7. AccountsTypes' /\ (user \in known)'
  BY <1>1, <1>5 DEF AccountsInv, AccountsTypes
<1>8. Paired'
  <2> DEFINE r == <<m>>
  <2>1. r \in Seq(AccountMessages) /\ InPairs(r)
    BY <1>3 DEF InPairs
  <2>2. messages' = messages \o r
    BY <1>1, <1>3, AppendIsConcat DEF m
  <2> HIDE DEF r
  <2>3. InPairs(messages')
    BY <1>1, <2>1, <2>2, PairsFollow DEF AccountsInv, Paired
  <2>4. messages # <<>> => messages' # <<>> /\ Head(messages') = Head(messages)
    BY <1>1, <2>1, <2>2
  <2> QED  BY <2>3, <2>4 DEF AccountsInv, Paired
<1>9. ASSUME NEW p \in Properties PROVE AsksLast(p)' /\ Settles(p)'
  <2> DEFINE G == {Get(user, p)}
  <2>1. /\ user' = user /\ value' = value /\ Elsewhere(p)' = Elsewhere(p) /\ accounts' = accounts
        /\ Telling(p)' = Telling(p) /\ Right(p)' = Right(p) /\ Changing(p)' = Changing(p)
    BY DEF Elsewhere, Asking, Telling, Right, Changing
  <2>2. AsksLast(p) /\ Settles(p)
    BY DEF AccountsInv
  <2>3. G \subseteq Asking(p) /\ Elsewhere(p) = Asking(p) \ G
    BY <1>1 DEF Asking, Elsewhere
  <2>4. Get(name, q) \in G => name = user
    BY <1>4
  <2>5. AsksLast(p)' = (Holds(calls', Asking(p)) => Ends(calls', G, Elsewhere(p)))
    BY <2>1 DEF AsksLast
  <2>6. AsksLast(p) = (Holds(calls, Asking(p)) => Ends(calls, G, Elsewhere(p)))
    BY DEF AsksLast
  <2> HIDE DEF G
  <2>7. Holds(calls', Asking(p)) /\ ~Holds(calls', Elsewhere(p)) => Ends(calls', G, Elsewhere(p))
    <3>1. Holds(calls', Asking(p)) => Holds(calls', Elsewhere(p)) \/ Holds(calls', G)
      BY <2>3 DEF Holds
    <3>2. Len(calls') \in Nat
      BY <1>1, LenProperties
    <3> QED  BY <3>1, <3>2, EndsHold
  <2>8. AsksLast(p)'
    BY <1>6, <2>2, <2>3, <2>5, <2>6, <2>7
  <2>9. Holds(calls, Changing(p)) => Holds(calls', Changing(p))
    BY <1>4, <1>6
  <2>10. Holds(messages, Telling(p)) => Holds(messages', Telling(p))
    BY <1>5
  <2>11. CASE p # q
    <3>1. Holds(calls, Asking(p)) => Holds(calls', Asking(p))
      BY <1>4, <1>6, <2>11
    <3>2. /\ Ends(messages, Right(p), Replies(p)) => Ends(messages', Right(p), Replies(p))
          /\ ~Holds(messages, Replies(p)) => ~Holds(messages', Replies(p))
      BY <1>4, <1>5, <2>11
    <3> QED  BY <2>1, <2>2, <2>8, <2>9, <2>10, <3>1, <3>2 DEF Settles
  <2>12. CASE p = q /\ Holds(calls', Asking(p))
    BY <2>8, <2>12 DEF Settles, Asking
  <2>13. CASE p = q /\ ~Holds(calls', Asking(p))
    <3>1. Holds(calls, Asking(p))
      <4>1. Get(name, q) \in Asking(p)
        BY <2>13 DEF Asking
      <4> QED  BY <1>6, <4>1
    <3>2. ~Ends(calls', G, Elsewhere(p))
      BY <2>3, <2>13, EndsHold
    <3>3. Get(name, q) \in G
      BY <1>6, <2>2, <2>6, <3>1, <3>2
    <3>4. Ends(messages', Right(p), Replies(p))
      BY <1>4, <1>5, <2>4, <2>13, <3>3
    <3> QED  BY <2>1, <2>8, <3>4 DEF Settles, Replies
  <2> QED  BY <2>11, <2>12, <2>13
<1> QED  BY <1>7, <1>8, <1>9 DEF AccountsInv

LEMMA DaemonHandlesKeeps == ASSUME AccountsInv, DaemonHandles PROVE AccountsInv'
<1> DEFINE e == Head(calls)
<1>1. /\ calls # <<>> /\ calls' = Tail(calls)
      /\ UNCHANGED <<user, value, known, ignoreNextChanged>>
      /\ e.op = "Set" => Changes(e.user, e.property, e.value)
      /\ e.op # "Set" =>
           /\ messages' = Append(messages, Answered(e.property, accounts[e.user][e.property]))
           /\ UNCHANGED accounts
  BY DEF DaemonHandles, Answered
<1>2. e \in AccountCalls
  BY <1>1, HeadTailProperties DEF AccountsInv, AccountsTypes
<1>3a. \A n \in UserNames, p \in Properties :
        Get(n, p).op = "Get" /\ Get(n, p).user = n /\ Get(n, p).property = p
  BY DEF Get
<1>3. \A n \in UserNames, p \in Properties, x \in PropertyValues :
        /\ Setting(n, p, x).op = "Set" /\ Setting(n, p, x).user = n
        /\ Setting(n, p, x).property = p /\ Setting(n, p, x).value = x
  BY DEF Setting
<1>4. CASE \E n \in UserNames, p \in Properties : e = Get(n, p)
  <2>1. PICK n \in UserNames, p \in Properties : e = Get(n, p)
    BY <1>4
  <2>2. e.op = "Get" /\ e.user = n /\ e.property = p
    BY <1>3a, <2>1
  <2>3. e.op # "Set"
    BY <2>2
  <2>4. messages' = Append(messages, Answered(p, accounts[n][p])) /\ UNCHANGED accounts
    BY <1>1, <2>2, <2>3, Zenon
  <2>5. calls # <<>> /\ Head(calls) = Get(n, p) /\ calls' = Tail(calls)
    BY <1>1, <2>1
  <2> QED  BY <1>1, <2>4, <2>5, AnswerKeeps
<1>5. CASE \E n \in UserNames, p \in Properties, x \in PropertyValues : e = Setting(n, p, x)
  <2>1. PICK n \in UserNames, p \in Properties, x \in PropertyValues : e = Setting(n, p, x)
    BY <1>5
  <2>2. e.op = "Set" /\ e.user = n /\ e.property = p /\ e.value = x
    BY <1>3, <2>1
  <2>3. Changes(n, p, x)
    BY <1>1, <2>2
  <2>4. calls # <<>> /\ Head(calls) = Setting(n, p, x) /\ calls' = Tail(calls)
    BY <1>1, <2>1
  <2> QED  BY <1>1, <2>3, <2>4, ChangesKeep
<1> QED  BY <1>2, <1>4, <1>5 DEF AccountCalls

LEMMA AccountsStep == AccountsInv /\ [AccountsNext]_accountsVars => AccountsInv'
<1> SUFFICES ASSUME AccountsInv, [AccountsNext]_accountsVars PROVE AccountsInv'
  OBVIOUS
<1>1. CASE UNCHANGED accountsVars
  BY <1>1 DEF accountsVars, AccountsInv, AccountsTypes, Paired, InPairs, AsksLast, Settles,
              Elsewhere, Asking, Changing, Telling, Right
<1>2. ASSUME NEW name \in UserNames, NEW p \in Properties, NEW x \in PropertyValues,
             OthersSet(name, p, x)
      PROVE  AccountsInv'
  BY <1>2, ChangesKeep DEF OthersSet
<1> QED  BY <1>1, <1>2, SetUserKeeps, SetPropertyKeeps, ReplyKeeps, PropertiesChangedKeeps,
            MaybeChangedKeeps, DaemonHandlesKeeps DEF AccountsNext

\* When nothing is on its way the cache holds what the daemon does
\* (refresh(), updateCache(), onPropertiesChanged(), onMaybeChanged()).
THEOREM CacheOfAccounts == AccountsSpec => []CacheIsCurrent
<1>1. AccountsInv => CacheIsCurrent
  <2> SUFFICES ASSUME AccountsInv, calls = <<>>, messages = <<>> PROVE value = accounts[user]
    BY DEF CacheIsCurrent
  <2>1. \A S, U : ~Holds(calls, S) /\ ~Holds(messages, S) /\ ~Ends(messages, S, U)
    BY DEF Holds, Ends
  <2>2. \A p \in Properties : value[p] = accounts[user][p]
    BY <2>1 DEF AccountsInv, Settles
  <2>3. value \in [Properties -> PropertyValues] /\ accounts[user] \in [Properties -> PropertyValues]
    BY DEF AccountsInv, AccountsTypes
  <2> QED  BY <2>2, <2>3
<1> QED  BY <1>1, AccountsStart, AccountsStep, PTL DEF AccountsSpec
=============================================================================
