-------------------------- MODULE PamGreeterProofs --------------------------
(* What TLAPS proves of PamGreeter, for any accounts, any talk of PAM, any *)
(* size of the thread pool and any number of conversations.                *)
EXTENDS PamGreeter, SequenceTheorems, FiniteSetTheorems, TLAPS

Workers == {"queued", "running", "blocked", "done"}

Conversation ==
  {v \in [user : Users, handle : 1 .. MaxConversations, script : Scripts,
          worker : Workers, said : Nat,
          answers : UNION {[DOMAIN script -> Responses \cup {Unanswered}] : script \in Scripts},
          canceled : BOOLEAN, granted : BOOLEAN] :
     /\ v.said <= Len(v.script)
     /\ DOMAIN v.answers = DOMAIN v.script}

(* The conversations of cs are still there in ds, have said no less, and   *)
(* those that wait for the main thread, or are done, still do or are.      *)
GoesOn(v, w) ==
  /\ w.user = v.user /\ w.handle = v.handle /\ w.script = v.script
  /\ w.said >= v.said
  /\ v.canceled => w.canceled
  /\ v.worker \in {"blocked", "done"} => w.worker = v.worker

Continues(cs, ds) ==
  /\ ds \in Seq(Conversation)
  /\ Len(ds) >= Len(cs)
  /\ \A c \in 1 .. Len(cs) : GoesOn(cs[c], ds[c])

(* What a conversation has been told.                                      *)
Told(v) == {v.answers[k] : k \in DOMAIN v.answers}

-----------------------------------------------------------------------------

(* A conversation starts untold and ungranted.                             *)
LEMMA NewConversationIsOne ==
  ASSUME NEW u \in Users, NEW h \in 1 .. MaxConversations, NEW script \in Scripts
  PROVE  LET v == NewConversation(u, h, script)
         IN  /\ v \in Conversation
             /\ v.user = u /\ v.handle = h /\ ~v.canceled /\ ~v.granted
             /\ v.worker = "queued" /\ Told(v) \subseteq {Unanswered}
<1> DEFINE answers == [k \in DOMAIN script |-> Unanswered]
<1>1. answers \in [DOMAIN script -> Responses \cup {Unanswered}]
  OBVIOUS
<1>2. Len(script) \in Nat
  BY ScriptsAssumption, LenProperties
<1> QED
  BY <1>1, <1>2 DEF NewConversation, Conversation, Workers, Told

(* A queued or running task may become anything.                           *)
LEMMA WithWorker ==
  ASSUME NEW v \in Conversation, NEW worker \in Workers,
         v.worker \notin {"blocked", "done"}
  PROVE  LET w == [v EXCEPT !.worker = worker]
         IN  /\ w \in Conversation /\ GoesOn(v, w) /\ w.worker = worker
             /\ w.answers = v.answers /\ w.canceled = v.canceled /\ w.granted = v.granted
BY DEF Conversation, GoesOn

(* A running task may end with a verdict.                                  *)
LEMMA WithVerdict ==
  ASSUME NEW v \in Conversation, v.worker = "running", NEW granted \in BOOLEAN
  PROVE  LET w == [v EXCEPT !.worker = "done", !.granted = granted]
         IN  /\ w \in Conversation /\ GoesOn(v, w) /\ w.worker = "done"
             /\ w.answers = v.answers /\ w.canceled = v.canceled
             /\ w.granted => granted
<1> DEFINE w == [v EXCEPT !.worker = "done", !.granted = granted]
<1>1. w \in Conversation
  BY DEF Conversation, Workers
<1>2. GoesOn(v, w)
  BY DEF Conversation, GoesOn
<1>3. w.worker = "done" /\ w.answers = v.answers
  BY DEF Conversation
<1>4. w.canceled = v.canceled
  BY DEF Conversation
<1>5. w.granted => granted
  BY DEF Conversation
<1> QED
  BY <1>1, <1>2, <1>3, <1>4, <1>5

(* A conversation may be told something.                                   *)
LEMMA WithAnswers ==
  ASSUME NEW v \in Conversation,
         NEW answers \in [DOMAIN v.answers -> Responses \cup {Unanswered}]
  PROVE  LET w == [v EXCEPT !.answers = answers]
         IN  /\ w \in Conversation /\ GoesOn(v, w) /\ w.worker = v.worker
             /\ w.answers = answers /\ w.canceled = v.canceled /\ w.granted = v.granted
BY DEF Conversation, GoesOn

(* An answer comes from the responses or was there.                        *)
LEMMA AnsweredDoes ==
  ASSUME NEW cs \in Seq(Conversation), NEW fs, NEW rs,
         \A i \in DOMAIN fs \cap DOMAIN rs : rs[i] \in Responses
  PROVE  LET ds == Answered(cs, fs, rs)
         IN  /\ Continues(cs, ds) /\ Len(ds) = Len(cs)
             /\ \A c \in 1 .. Len(cs) :
                  /\ ds[c].worker = cs[c].worker
                  /\ ds[c].canceled = cs[c].canceled /\ ds[c].granted = cs[c].granted
                  /\ Told(ds[c]) \subseteq Told(cs[c]) \cup {rs[i] : i \in DOMAIN rs}
<1> DEFINE Given(c, k) == {i \in DOMAIN fs \cap DOMAIN rs : fs[i] = <<c, k>>}
           New(c) == [k \in DOMAIN cs[c].answers |->
                       IF Given(c, k) # {} THEN rs[CHOOSE i \in Given(c, k) : TRUE]
                                           ELSE cs[c].answers[k]]
           ds == [c \in DOMAIN cs |-> [cs[c] EXCEPT !.answers = New(c)]]
<1>1. Answered(cs, fs, rs) = ds
  BY DEF Answered
<1>2. Len(cs) \in Nat /\ DOMAIN cs = 1 .. Len(cs) /\ \A c \in 1 .. Len(cs) : cs[c] \in Conversation
  BY LenProperties
<1>3. ASSUME NEW c \in 1 .. Len(cs), NEW k \in DOMAIN cs[c].answers
      PROVE  \/ New(c)[k] = cs[c].answers[k]
             \/ \E i \in DOMAIN fs \cap DOMAIN rs : New(c)[k] = rs[i]
  <2>1. CASE Given(c, k) = {}
    BY <2>1
  <2>2. CASE Given(c, k) # {}
    <3>1. (CHOOSE i \in Given(c, k) : TRUE) \in Given(c, k)
      BY <2>2
    <3> QED
      BY <2>2, <3>1
  <2> QED
    BY <2>1, <2>2
<1>4. ASSUME NEW c \in 1 .. Len(cs)
      PROVE  /\ New(c) \in [DOMAIN cs[c].answers -> Responses \cup {Unanswered}]
             /\ \A k \in DOMAIN New(c) : New(c)[k] \in Told(cs[c]) \cup {rs[i] : i \in DOMAIN rs}
  <2>1. \A k \in DOMAIN cs[c].answers : cs[c].answers[k] \in Responses \cup {Unanswered}
    BY <1>2 DEF Conversation
  <2> HIDE DEF Given
  <2> QED
    BY <2>1, <1>3 DEF Told
<1> HIDE DEF New
<1>5. ASSUME NEW c \in 1 .. Len(cs)
      PROVE  /\ ds[c] \in Conversation /\ GoesOn(cs[c], ds[c]) /\ ds[c].worker = cs[c].worker
             /\ ds[c].answers = New(c)
             /\ ds[c].canceled = cs[c].canceled /\ ds[c].granted = cs[c].granted
  <2>1. ds[c] = [cs[c] EXCEPT !.answers = New(c)]
    BY <1>2
  <2> HIDE DEF ds
  <2> QED
    BY <1>2, <1>4, <2>1, WithAnswers
<1>6. ds \in Seq(Conversation) /\ Len(ds) = Len(cs)
  <2>1. ds \in [1 .. Len(cs) -> Conversation]
    BY <1>2, <1>5
  <2> HIDE DEF ds
  <2> QED
    BY <1>2, <2>1
<1> HIDE DEF ds
<1>7. Continues(cs, ds)
  BY <1>2, <1>5, <1>6 DEF Continues
<1>8. ASSUME NEW c \in 1 .. Len(cs)
      PROVE  Told(ds[c]) \subseteq Told(cs[c]) \cup {rs[i] : i \in DOMAIN rs}
  BY <1>4, <1>5 DEF Told
<1> QED
  BY <1>1, <1>5, <1>6, <1>7, <1>8

(* Cancelling a conversation takes none away and ends none.                *)
LEMMA CancelledDoes ==
  ASSUME NEW cs \in Seq(Conversation), NEW c \in {None} \cup DOMAIN cs, NEW fs
  PROVE  Continues(cs, Cancelled(cs, c, fs)) /\ Len(Cancelled(cs, c, fs)) = Len(cs)
<1> DEFINE rs == [i \in DOMAIN fs |-> NoSecret]
           ds == Answered(cs, fs, rs)
           es == [ds EXCEPT ![c].canceled = TRUE]
<1>1. Len(cs) \in Nat /\ DOMAIN cs = 1 .. Len(cs) /\ \A d \in 1 .. Len(cs) : cs[d] \in Conversation
  BY LenProperties
<1>2. CASE c = None
  BY <1>1, <1>2 DEF Cancelled, Continues, GoesOn, Conversation
<1>3. CASE c # None
  <2>1. Cancelled(cs, c, fs) = es
    BY <1>3 DEF Cancelled
  <2>2. Continues(cs, ds) /\ Len(ds) = Len(cs)
    <3>1. \A i \in DOMAIN fs \cap DOMAIN rs : rs[i] \in Responses
      BY DEF Responses
    <3> HIDE DEF rs
    <3> QED
      BY <3>1, AnsweredDoes
  <2> HIDE DEF ds
  <2>3. /\ ds \in Seq(Conversation) /\ DOMAIN ds = 1 .. Len(cs)
        /\ \A d \in 1 .. Len(cs) : ds[d] \in Conversation /\ GoesOn(cs[d], ds[d])
    BY <2>2, <1>1, LenProperties DEF Continues
  <2>4. c \in 1 .. Len(cs)
    BY <1>1, <1>3
  <2>5. /\ [ds[c] EXCEPT !.canceled = TRUE] \in Conversation
        /\ GoesOn(cs[c], [ds[c] EXCEPT !.canceled = TRUE])
    BY <2>3, <2>4 DEF Conversation, GoesOn
  <2>6. es = [ds EXCEPT ![c] = [ds[c] EXCEPT !.canceled = TRUE]]
    OBVIOUS
  <2>7. es \in Seq(Conversation) /\ Len(es) = Len(cs)
        /\ \A d \in 1 .. Len(cs) : es[d] = IF d = c THEN [ds[c] EXCEPT !.canceled = TRUE] ELSE ds[d]
    BY <2>2, <2>3, <2>4, <2>5, <2>6, ExceptSeq
  <2> HIDE DEF es
  <2>8. ASSUME NEW d \in 1 .. Len(cs) PROVE GoesOn(cs[d], es[d])
    <3>1. CASE d = c
      BY <2>5, <2>7, <3>1
    <3>2. CASE d # c
      BY <2>3, <2>7, <3>2
    <3> QED
      BY <3>1, <3>2
  <2> QED
    BY <1>1, <2>1, <2>7, <2>8 DEF Continues
<1> QED
  BY <1>2, <1>3

-----------------------------------------------------------------------------
(* Events on their way: what they say has been said, and the one that      *)
(* tells of an end tells it of the watched conversation.                   *)

Event == [kind : MessageStyles \cup {"finished"}, of : (1 .. MaxConversations) \X Nat]

IsPosted(e, cs, w) ==
  /\ e.of[1] \in DOMAIN cs
  /\ e.of[2] <= cs[e.of[1]].said
  /\ e.kind # "finished" => e.of[2] # 0
  /\ e.kind = "prompt" => cs[e.of[1]].worker = "blocked"
  /\ e.kind = "finished" => e.of[1] = w /\ cs[w].worker = "done"

(* Two events that are not messages and say the same.                      *)
Same(d, e) == d.kind = e.kind /\ d.kind # "message" /\ d.of[1] = e.of[1]

NoneTwice(es) == \A i, j \in DOMAIN es : Same(es[i], es[j]) => i = j

Posted(es, cs, w) ==
  /\ es \in Seq(Event)
  /\ \A i \in DOMAIN es : IsPosted(es[i], cs, w)
  /\ NoneTwice(es)

(* What was posted stays true while conversations go on.                   *)
LEMMA PostedContinues ==
  ASSUME NEW cs \in Seq(Conversation), NEW ds, Continues(cs, ds),
         NEW w, NEW es, Posted(es, cs, w)
  PROVE  Posted(es, ds, w)
<1>1. /\ DOMAIN cs = 1 .. Len(cs) /\ DOMAIN ds = 1 .. Len(ds)
      /\ Len(cs) \in Nat /\ Len(ds) \in Nat /\ Len(ds) >= Len(cs)
      /\ \A c \in 1 .. Len(cs) : cs[c] \in Conversation
      /\ \A c \in 1 .. Len(ds) : ds[c] \in Conversation
  BY LenProperties DEF Continues
<1>2. ASSUME NEW i \in DOMAIN es PROVE IsPosted(es[i], ds, w)
  <2>1. es[i] \in Event /\ IsPosted(es[i], cs, w)
    BY LenProperties DEF Posted
  <2>2. es[i].of[1] \in DOMAIN cs /\ es[i].of[2] \in Nat
    BY <2>1 DEF IsPosted, Event
  <2>3. GoesOn(cs[es[i].of[1]], ds[es[i].of[1]]) /\ es[i].of[1] \in DOMAIN ds
    BY <2>2, <1>1 DEF Continues
  <2>4. cs[es[i].of[1]].said \in Nat /\ ds[es[i].of[1]].said \in Nat
    BY <2>2, <2>3, <1>1 DEF Conversation
  <2> QED
    BY <2>1, <2>2, <2>3, <2>4 DEF IsPosted, GoesOn
<1> QED
  BY <1>2 DEF Posted

(* The first event is taken, and none that says the same is left.          *)
LEMMA PostedTail ==
  ASSUME NEW cs, NEW w, NEW es, Posted(es, cs, w), es # <<>>
  PROVE  /\ Posted(Tail(es), cs, w) /\ Head(es) \in Event /\ IsPosted(Head(es), cs, w)
         /\ \A i \in DOMAIN Tail(es) : ~Same(Tail(es)[i], Head(es))
<1>1. /\ es \in Seq(Event) /\ Len(es) \in Nat \ {0} /\ DOMAIN es = 1 .. Len(es)
      /\ \A i \in 1 .. Len(es) : es[i] \in Event
  BY LenProperties, EmptySeq DEF Posted
<1>2. /\ Tail(es) \in Seq(Event) /\ DOMAIN Tail(es) = 1 .. Len(es) - 1
      /\ \A i \in 1 .. Len(es) - 1 : Tail(es)[i] = es[i + 1]
  BY <1>1, HeadTailProperties, LenProperties
<1>3. Head(es) = es[1]
  BY <1>1
<1>4. \A i \in DOMAIN Tail(es) : IsPosted(Tail(es)[i], cs, w)
  BY <1>1, <1>2 DEF Posted
<1>5. ASSUME NEW i \in DOMAIN Tail(es), NEW j \in DOMAIN Tail(es), Same(Tail(es)[i], Tail(es)[j])
      PROVE  i = j
  <2>1. i + 1 \in DOMAIN es /\ j + 1 \in DOMAIN es /\ Same(es[i + 1], es[j + 1])
    BY <1>1, <1>2, <1>5
  <2>2. i + 1 = j + 1
    BY <2>1 DEF Posted, NoneTwice
  <2> QED
    BY <1>2, <2>2
<1>6. NoneTwice(Tail(es)) /\ \A i \in DOMAIN Tail(es) : ~Same(Tail(es)[i], Head(es))
  <2>1. ASSUME NEW i \in DOMAIN Tail(es), Same(Tail(es)[i], Head(es)) PROVE FALSE
    <3>1. i + 1 \in DOMAIN es /\ 1 \in DOMAIN es /\ Same(es[i + 1], es[1]) /\ i + 1 # 1
      BY <1>1, <1>2, <1>3, <2>1
    <3> QED
      BY <3>1 DEF Posted, NoneTwice
  <2> QED
    BY <1>5, <2>1 DEF NoneTwice
<1> QED
  BY <1>1, <1>2, <1>3, <1>4, <1>6 DEF Posted

(* An event that nobody has posted before may be posted.                   *)
LEMMA PostedAppend ==
  ASSUME NEW cs, NEW w, NEW es, Posted(es, cs, w), NEW e \in Event, IsPosted(e, cs, w),
         \A i \in DOMAIN es : ~Same(es[i], e)
  PROVE  Posted(Append(es, e), cs, w)
<1>1. /\ es \in Seq(Event) /\ Len(es) \in Nat /\ DOMAIN es = 1 .. Len(es)
  BY LenProperties DEF Posted
<1>2. /\ Append(es, e) \in Seq(Event) /\ DOMAIN Append(es, e) = 1 .. Len(es) + 1
      /\ \A i \in 1 .. Len(es) : Append(es, e)[i] = es[i]
      /\ Append(es, e)[Len(es) + 1] = e
  BY <1>1, AppendProperties, LenProperties
<1>3. \A i \in DOMAIN Append(es, e) : IsPosted(Append(es, e)[i], cs, w)
  BY <1>1, <1>2 DEF Posted
<1>4. NoneTwice(Append(es, e))
  <2> SUFFICES ASSUME NEW i \in DOMAIN Append(es, e), NEW j \in DOMAIN Append(es, e),
                      Same(Append(es, e)[i], Append(es, e)[j])
               PROVE  i = j
    BY DEF NoneTwice
  <2>1. CASE i \in DOMAIN es /\ j \in DOMAIN es
    BY <1>1, <1>2, <2>1 DEF Posted, NoneTwice
  <2>2. CASE i \in DOMAIN es /\ j = Len(es) + 1
    BY <1>1, <1>2, <2>2
  <2>3. CASE j \in DOMAIN es /\ i = Len(es) + 1
    <3>1. Same(es[j], e)
      BY <1>1, <1>2, <2>3 DEF Same
    <3> QED
      BY <2>3, <3>1
  <2> QED
    BY <1>1, <1>2, <2>1, <2>2, <2>3
<1> QED
  BY <1>2, <1>3, <1>4 DEF Posted

(* A sequence without its element n.                                       *)
LEMMA WithoutOne ==
  ASSUME NEW S, NEW s \in Seq(S), NEW n \in 1 .. Len(s)
  PROVE  LET t == SubSeq(s, 1, n - 1) \o SubSeq(s, n + 1, Len(s))
         IN  /\ t \in Seq(S) /\ Len(t) = Len(s) - 1
             /\ \A i \in 1 .. Len(s) - 1 : t[i] = IF i < n THEN s[i] ELSE s[i + 1]
<1>1. /\ SubSeq(s, 1, n - 1) \in Seq(S) /\ Len(SubSeq(s, 1, n - 1)) = n - 1
      /\ \A i \in 1 .. n - 1 : SubSeq(s, 1, n - 1)[i] = s[i]
  OBVIOUS
<1>2. /\ SubSeq(s, n + 1, Len(s)) \in Seq(S) /\ Len(SubSeq(s, n + 1, Len(s))) = Len(s) - n
      /\ \A i \in 1 .. Len(s) - n : SubSeq(s, n + 1, Len(s))[i] = s[n + i]
  OBVIOUS
<1>3. \A a, b \in Seq(S) :
         /\ Len(a) = n - 1 /\ \A i \in 1 .. n - 1 : a[i] = s[i]
         /\ Len(b) = Len(s) - n /\ \A i \in 1 .. Len(s) - n : b[i] = s[n + i]
         => /\ a \o b \in Seq(S) /\ Len(a \o b) = Len(s) - 1
            /\ \A i \in 1 .. Len(s) - 1 : (a \o b)[i] = IF i < n THEN s[i] ELSE s[i + 1]
  <2> SUFFICES ASSUME NEW a \in Seq(S), NEW b \in Seq(S),
                      Len(a) = n - 1, \A i \in 1 .. n - 1 : a[i] = s[i],
                      Len(b) = Len(s) - n, \A i \in 1 .. Len(s) - n : b[i] = s[n + i]
               PROVE  /\ a \o b \in Seq(S) /\ Len(a \o b) = Len(s) - 1
                      /\ \A i \in 1 .. Len(s) - 1 :
                           (a \o b)[i] = IF i < n THEN s[i] ELSE s[i + 1]
    OBVIOUS
  <2>1. Len(s) \in Nat /\ Len(a) + Len(b) = Len(s) - 1
    BY LenProperties
  <2>2. /\ a \o b \in Seq(S) /\ Len(a \o b) = Len(s) - 1
        /\ \A i \in 1 .. Len(s) - 1 : (a \o b)[i] = IF i <= Len(a) THEN a[i] ELSE b[i - Len(a)]
    <3>1. /\ a \o b \in Seq(S) /\ Len(a \o b) = Len(a) + Len(b)
          /\ \A i \in 1 .. Len(a) + Len(b) : (a \o b)[i] = IF i <= Len(a) THEN a[i] ELSE b[i - Len(a)]
      BY ConcatProperties
    <3> QED
      BY <2>1, <3>1
  <2>3. ASSUME NEW i \in 1 .. Len(s) - 1, i >= n
        PROVE  (a \o b)[i] = s[i + 1]
    <3>1. i - Len(a) \in 1 .. Len(s) - n /\ n + (i - Len(a)) = i + 1 /\ ~(i <= Len(a))
      BY <2>1, <2>3
    <3>2. b[i - Len(a)] = s[n + (i - Len(a))]
      BY <3>1
    <3> QED
      BY <2>2, <3>1, <3>2
  <2>4. ASSUME NEW i \in 1 .. Len(s) - 1, i < n
        PROVE  (a \o b)[i] = s[i]
    <3>1. i \in 1 .. n - 1 /\ i <= Len(a)
      BY <2>1, <2>4
    <3> QED
      BY <2>2, <3>1
  <2>5. \A i \in 1 .. Len(s) - 1 : ~(i < n) => i >= n
    BY <2>1
  <2> QED
    BY <2>2, <2>3, <2>4, <2>5
<1> QED
  BY <1>1, <1>2, <1>3

(* setFuture() drops the one event that tells of an end.                   *)
LEMMA PostedWithoutFinished ==
  ASSUME NEW cs, NEW w, NEW es, Posted(es, cs, w), NEW x
  PROVE  Posted(WithoutFinished(es), cs, x)
<1>1. /\ es \in Seq(Event) /\ Len(es) \in Nat /\ DOMAIN es = 1 .. Len(es)
      /\ \A i \in 1 .. Len(es) : es[i] \in Event
  BY LenProperties DEF Posted
<1>2. CASE \A i \in DOMAIN es : es[i].kind # "finished"
  <2>1. WithoutFinished(es) = es
    BY <1>2 DEF WithoutFinished
  <2> QED
    BY <1>1, <1>2, <2>1 DEF Posted, IsPosted
<1>3. CASE \E i \in DOMAIN es : es[i].kind = "finished"
  <2> DEFINE n == CHOOSE i \in DOMAIN es : es[i].kind = "finished"
             t == SubSeq(es, 1, n - 1) \o SubSeq(es, n + 1, Len(es))
             At(i) == IF i < n THEN i ELSE i + 1
  <2>1. n \in 1 .. Len(es) /\ es[n].kind = "finished"
    BY <1>1, <1>3
  <2>2. WithoutFinished(es) = t
    BY <1>3 DEF WithoutFinished
  <2> HIDE DEF n
  <2>3. /\ t \in Seq(Event) /\ Len(t) = Len(es) - 1
        /\ \A i \in 1 .. Len(es) - 1 : t[i] = IF i < n THEN es[i] ELSE es[i + 1]
    BY <1>1, <2>1, WithoutOne
  <2> HIDE DEF t
  <2>4. /\ DOMAIN t = 1 .. Len(es) - 1
        /\ \A i \in DOMAIN t : At(i) \in 1 .. Len(es) /\ At(i) # n
        /\ \A i, j \in DOMAIN t : At(i) = At(j) => i = j
    BY <1>1, <2>1, <2>3, LenProperties
  <2>5. \A i \in DOMAIN t : t[i] = es[At(i)]
    BY <2>3, <2>4
  <2> HIDE DEF At
  <2>6. ASSUME NEW i \in DOMAIN t
        PROVE  t[i].kind # "finished" /\ IsPosted(t[i], cs, w)
    <3>1. At(i) \in DOMAIN es /\ n \in DOMAIN es /\ At(i) # n
      BY <1>1, <2>1, <2>4
    <3>2. IsPosted(es[At(i)], cs, w) /\ IsPosted(es[n], cs, w) /\ ~Same(es[At(i)], es[n])
      BY <3>1 DEF Posted, NoneTwice
    <3>3. es[At(i)].kind # "finished"
      BY <2>1, <3>2 DEF Same, IsPosted
    <3> QED
      BY <2>5, <3>2, <3>3
  <2>7. NoneTwice(t)
    <3> SUFFICES ASSUME NEW i \in DOMAIN t, NEW j \in DOMAIN t, Same(t[i], t[j]) PROVE i = j
      BY DEF NoneTwice
    <3>1. Same(es[At(i)], es[At(j)]) /\ At(i) \in DOMAIN es /\ At(j) \in DOMAIN es
      BY <1>1, <2>4, <2>5
    <3>2. At(i) = At(j)
      BY <3>1 DEF Posted, NoneTwice
    <3> QED
      BY <2>4, <3>2
  <2> QED
    BY <2>2, <2>3, <2>6, <2>7 DEF Posted, IsPosted
<1> QED
  BY <1>2, <1>3

-----------------------------------------------------------------------------
(* GreeterImpl.  The current conversation is with the user asked about,    *)
(* PAM has been told nothing that was not typed since, and it has granted  *)
(* nothing for less than that user's secret.                               *)

Current(cs, p, u, answers) ==
  p # None =>
    /\ cs[p].user = u /\ ~cs[p].canceled
    /\ Told(cs[p]) \subseteq answers \cup {NoSecret, Unanswered}
    /\ cs[p].granted => u \in OpenUsers \cup answers

ImplSound ==
  /\ conversations \in Seq(Conversation)
  /\ pam \in {None} \cup DOMAIN conversations
  /\ watched \in {None} \cup DOMAIN conversations
  /\ pam # None => watched = pam
  /\ futures \in Seq(Futures)
  /\ Posted(events, conversations, watched)
  /\ authenticationUser \in Users \cup {NoUser}
  /\ authenticated \in BOOLEAN /\ (pam # None => ~authenticated)
  /\ typed \subseteq Responses
  /\ Current(conversations, pam, authenticationUser, typed)

RowsSound ==
  /\ prompts \in Seq(Row) /\ leftovers \in Seq(Row)
  /\ responded \in BOOLEAN /\ everResponded \in BOOLEAN /\ interactive \in BOOLEAN

LockSound ==
  /\ view \in {"none", "loading", "loaded"} /\ enabled \in BOOLEAN
  /\ hiding \in {"no", "cover", "lockscreen"}
  /\ forcedUnlock \in BOOLEAN /\ currentUser \in Users
  /\ quitting \in BOOLEAN

(* Rows of users are rows.                                                 *)
LEMMA RowsOfUsers ==
  ASSUME NEW u \in Users
  PROVE  Message(u) \in Row /\ Prompt(u) \in Row /\ Button(u) \in Row
BY DEF Message, Prompt, Button, Row, MessageStyles

(* start() begins a conversation that has been told nothing, or none.      *)
LEMMA StartPamDoes ==
  ASSUME NEW u \in Users, NEW cs \in Seq(Conversation), Len(cs) < MaxConversations,
         NEW es, Posted(es, cs, watched), watched \in {None} \cup DOMAIN cs,
         NEW ps \in Seq(Row), StartPam(u, cs, es, ps)
  PROVE  /\ conversations' \in Seq(Conversation) /\ Len(conversations') <= Len(cs) + 1
         /\ pam' \in {None} \cup DOMAIN conversations'
         /\ watched' \in {None} \cup DOMAIN conversations'
         /\ pam' # None => watched' = pam'
         /\ Posted(events', conversations', watched')
         /\ Current(conversations', pam', u, {})
         /\ prompts' \in Seq(Row)
<1>1. /\ Len(cs) \in Nat /\ DOMAIN cs = 1 .. Len(cs) /\ MaxConversations \in Nat
      /\ \A c \in 1 .. Len(cs) : cs[c] \in Conversation
  BY BoundsAssumption, LenProperties
<1>2. CASE /\ \E h \in Handles(cs), script \in Scripts :
                conversations' = Append(cs, NewConversation(u, h, script))
           /\ pam' = Len(cs) + 1 /\ watched' = Len(cs) + 1
           /\ events' = WithoutFinished(es) /\ prompts' = ps
  <2>1. PICK h \in Handles(cs), script \in Scripts :
               conversations' = Append(cs, NewConversation(u, h, script))
    BY <1>2
  <2>2. h \in 1 .. MaxConversations
    <3>1. \A c \in 1 .. Len(cs) : cs[c].handle \in 1 .. MaxConversations
      BY <1>1 DEF Conversation
    <3> QED
      BY <1>1, <3>1 DEF Handles
  <2> DEFINE v == NewConversation(u, h, script)
  <2>3. /\ v \in Conversation /\ v.user = u /\ ~v.canceled /\ ~v.granted
        /\ Told(v) \subseteq {Unanswered}
    BY <2>2, NewConversationIsOne
  <2> HIDE DEF v
  <2>4. /\ conversations' \in Seq(Conversation) /\ Len(conversations') = Len(cs) + 1
        /\ \A c \in 1 .. Len(cs) : conversations'[c] = cs[c]
        /\ conversations'[Len(cs) + 1] = v
    BY <2>1, <2>3, AppendProperties DEF v
  <2>5. DOMAIN conversations' = 1 .. Len(cs) + 1
    BY <2>4, LenProperties
  <2>6. Continues(cs, conversations')
    <3>1. \A c \in 1 .. Len(cs) : GoesOn(cs[c], cs[c])
      BY <1>1 DEF GoesOn, Conversation
    <3> QED
      BY <1>1, <2>4, <3>1 DEF Continues
  <2>7. Posted(events', conversations', watched')
    <3>1. Posted(WithoutFinished(es), cs, watched')
      BY PostedWithoutFinished
    <3> QED
      BY <1>2, <2>6, <3>1, PostedContinues
  <2>8. pam' \in DOMAIN conversations' /\ watched' = pam'
    BY <1>1, <1>2, <2>5
  <2>9. Current(conversations', pam', u, {})
    BY <1>2, <2>3, <2>4 DEF Current
  <2> QED
    BY <1>1, <1>2, <2>4, <2>7, <2>8, <2>9
<1>3. CASE /\ conversations' = cs /\ pam' = None /\ UNCHANGED watched
           /\ events' = es /\ prompts' = ps \o <<Message(u), Button(u)>>
  <2>1. <<Message(u), Button(u)>> \in Seq(Row)
    BY RowsOfUsers
  <2>2. prompts' \in Seq(Row)
    BY <1>3, <2>1, ConcatProperties
  <2> QED
    BY <1>1, <1>3, <2>2 DEF Current
<1> QED
  BY <1>2, <1>3 DEF StartPam

(* authenticate(): the user of the new conversation is the one asked       *)
(* about, who has typed nothing yet.                                       *)
LEMMA AuthenticateDoes ==
  ASSUME ImplSound, Len(conversations) < MaxConversations,
         NEW u \in Users, NEW c \in {None, pam}, NEW es,
         Posted(es, conversations, watched),
         NEW left \in Seq(Row), NEW above \in Seq(Row),
         Authenticate(u, c, es, left, above)
  PROVE  /\ ImplSound' /\ RowsSound'
         /\ Len(conversations') <= Len(conversations) + 1 /\ ~everResponded'
         /\ authenticationUser' = u /\ typed' = {} /\ authenticated' = FALSE
<1> DEFINE cs == Cancelled(conversations, c, futures)
           ps == above \o KeptRows(u, left)
<1>1. Continues(conversations, cs) /\ Len(cs) = Len(conversations)
  BY CancelledDoes DEF ImplSound
<1>2. cs \in Seq(Conversation) /\ DOMAIN cs = DOMAIN conversations
  BY <1>1, LenProperties DEF Continues, ImplSound
<1>3. Posted(es, cs, watched)
  BY <1>1, PostedContinues DEF ImplSound
<1>4. ps \in Seq(Row)
  <2>1. KeptRows(u, left) \in Seq(Row)
    BY EmptySeq DEF KeptRows
  <2> QED
    BY <2>1, ConcatProperties
<1>5. StartPam(u, cs, es, ps)
  BY DEF Authenticate
<1> HIDE DEF cs, ps
<1>6. /\ conversations' \in Seq(Conversation) /\ Len(conversations') <= Len(cs) + 1
      /\ pam' \in {None} \cup DOMAIN conversations'
      /\ watched' \in {None} \cup DOMAIN conversations'
      /\ pam' # None => watched' = pam'
      /\ Posted(events', conversations', watched')
      /\ Current(conversations', pam', u, {})
      /\ prompts' \in Seq(Row)
  <2>1. watched \in {None} \cup DOMAIN cs /\ Len(cs) < MaxConversations
    BY <1>1, <1>2 DEF ImplSound
  <2> QED
    BY <1>2, <1>3, <1>4, <1>5, <2>1, StartPamDoes
<1>7. /\ futures' = CancelledFutures(c, futures) /\ authenticationUser' = u
      /\ authenticated' = FALSE /\ typed' = {} /\ leftovers' = <<>>
      /\ responded' = FALSE /\ everResponded' = FALSE /\ interactive' = TRUE
  BY DEF Authenticate
<1>8. futures' \in Seq(Futures)
  BY <1>7, EmptySeq DEF CancelledFutures, ImplSound
<1>9. ImplSound'
  BY <1>6, <1>7, <1>8 DEF ImplSound
<1>10. RowsSound'
  BY <1>6, <1>7, EmptySeq DEF RowsSound
<1> QED
  BY <1>1, <1>6, <1>7, <1>9, <1>10

Room ==
  /\ Len(conversations) <= MaxConversations
  /\ everResponded \/ view = "loading" => Len(conversations) < MaxConversations

Inv == ImplSound /\ RowsSound /\ LockSound /\ Room

-----------------------------------------------------------------------------
(* Worker threads.  Only conversation c changes, which goes on as w, and    *)
(* gets a verdict only if PAM may give it.                                 *)
GoesOnAs(c, w, ds) ==
  /\ w \in Conversation /\ GoesOn(conversations[c], w)
  /\ w.answers = conversations[c].answers /\ w.canceled = conversations[c].canceled
  /\ c = pam /\ w.granted => authenticationUser \in OpenUsers \cup typed
  /\ ds = [conversations EXCEPT ![c] = w]

LEMMA OneGoesOn ==
  ASSUME ImplSound, NEW c \in DOMAIN conversations, NEW w, NEW ds, GoesOnAs(c, w, ds)
  PROVE  /\ Continues(conversations, ds) /\ Len(ds) = Len(conversations)
         /\ ds \in Seq(Conversation) /\ DOMAIN ds = DOMAIN conversations
         /\ ds[c] = w
         /\ Posted(events, ds, watched)
         /\ Current(ds, pam, authenticationUser, typed)
<1> USE DEF GoesOnAs
<1>1. /\ conversations \in Seq(Conversation) /\ Len(conversations) \in Nat
      /\ DOMAIN conversations = 1 .. Len(conversations)
      /\ \A d \in DOMAIN conversations : conversations[d] \in Conversation
  BY LenProperties DEF ImplSound
<1>2. /\ ds \in Seq(Conversation) /\ Len(ds) = Len(conversations)
      /\ \A d \in DOMAIN conversations : ds[d] = IF d = c THEN w ELSE conversations[d]
  BY <1>1, ExceptSeq
<1>3. DOMAIN ds = DOMAIN conversations
  BY <1>1, <1>2, LenProperties
<1>4. Continues(conversations, ds)
  <2>1. ASSUME NEW d \in DOMAIN conversations PROVE GoesOn(conversations[d], ds[d])
    <3>1. GoesOn(conversations[d], conversations[d])
      BY <1>1 DEF GoesOn, Conversation
    <3>2. CASE d = c
      BY <1>2, <3>2
    <3>3. CASE d # c
      BY <1>2, <3>1, <3>3
    <3> QED
      BY <3>2, <3>3
  <2> QED
    BY <1>1, <1>2, <2>1 DEF Continues
<1>5. Posted(events, ds, watched)
  BY <1>1, <1>4, PostedContinues DEF ImplSound
<1>6. Current(ds, pam, authenticationUser, typed)
  <2>1. CASE pam = c
    <3>1. ds[pam] = w /\ Told(w) = Told(conversations[c])
      BY <1>2, <2>1 DEF Told
    <3> QED
      BY <2>1, <3>1 DEF Current, ImplSound, GoesOn
  <2>2. CASE pam # c
    <3>1. pam # None => ds[pam] = conversations[pam]
      BY <1>2, <2>2 DEF ImplSound
    <3> QED
      BY <3>1 DEF Current, ImplSound
  <2> QED
    BY <2>1, <2>2
<1> QED
  BY <1>2, <1>3, <1>4, <1>5, <1>6

(* A task that ends tells of it once.                                      *)
LEMMA PostFinishedDoes ==
  ASSUME ImplSound, Len(conversations) <= MaxConversations,
         NEW c \in DOMAIN conversations, conversations[c].worker # "done",
         NEW ds \in Seq(Conversation), DOMAIN ds = DOMAIN conversations,
         Posted(events, ds, watched), ds[c].worker = "done",
         PostFinished(c)
  PROVE  Posted(events', ds, watched)
<1>1. CASE watched # c
  BY <1>1 DEF PostFinished
<1>2. CASE watched = c
  <2> DEFINE e == [kind |-> "finished", of |-> <<c, 0>>]
  <2>1. events' = Append(events, e)
    BY <1>2 DEF PostFinished, Post
  <2>2. c \in 1 .. Len(ds) /\ ds[c] \in Conversation
    BY LenProperties
  <2>3. \A i \in DOMAIN events : ~Same(events[i], e)
    BY <1>2 DEF ImplSound, Posted, IsPosted, Same
  <2>4. c \in 1 .. MaxConversations
    BY LenProperties, BoundsAssumption DEF ImplSound
  <2>5. e \in Event
    BY <2>4 DEF Event
  <2>6. IsPosted(e, ds, watched)
    BY <1>2, <2>2 DEF IsPosted, Conversation
  <2> HIDE DEF e
  <2> QED
    BY <2>1, <2>3, <2>5, <2>6, PostedAppend
<1> QED
  BY <1>1, <1>2

(* A task starts, or ends at once because it was cancelled.                *)
LEMMA WorkerStartsDoes ==
  ASSUME ImplSound, Len(conversations) <= MaxConversations,
         NEW c \in DOMAIN conversations, WorkerStarts(c),
         UNCHANGED <<pam, watched, futures, authenticationUser, authenticated, typed>>
  PROVE  ImplSound' /\ Len(conversations') = Len(conversations)
<1> DEFINE v == conversations[c]
<1>1. v \in Conversation /\ v.worker = "queued"
  BY LenProperties DEF ImplSound, WorkerStarts
<1>2. ASSUME NEW worker \in Workers, conversations' = [conversations EXCEPT ![c].worker = worker]
      PROVE  /\ conversations' \in Seq(Conversation) /\ Len(conversations') = Len(conversations)
             /\ DOMAIN conversations' = DOMAIN conversations /\ conversations'[c].worker = worker
             /\ Posted(events, conversations', watched)
             /\ Current(conversations', pam, authenticationUser, typed)
  <2> DEFINE w == [v EXCEPT !.worker = worker]
  <2>1. /\ w \in Conversation /\ GoesOn(v, w) /\ w.worker = worker
        /\ w.answers = v.answers /\ w.canceled = v.canceled /\ w.granted = v.granted
    BY <1>1, WithWorker
  <2>2. c = pam /\ w.granted => authenticationUser \in OpenUsers \cup typed
    BY <2>1 DEF ImplSound, Current, None
  <2>3. conversations' = [conversations EXCEPT ![c] = w]
    BY <1>2
  <2>4. GoesOnAs(c, w, conversations')
    BY <2>1, <2>2, <2>3 DEF GoesOnAs
  <2> HIDE DEF w
  <2> QED
    BY <2>1, <2>4, OneGoesOn
<1>3. CASE /\ conversations' = [conversations EXCEPT ![c].worker = "done"]
           /\ PostFinished(c)
  <2>1. /\ conversations' \in Seq(Conversation) /\ Len(conversations') = Len(conversations)
        /\ DOMAIN conversations' = DOMAIN conversations /\ conversations'[c].worker = "done"
        /\ Posted(events, conversations', watched)
        /\ Current(conversations', pam, authenticationUser, typed)
    BY <1>2, <1>3 DEF Workers
  <2>2. Posted(events', conversations', watched)
    BY <1>1, <1>3, <2>1, PostFinishedDoes
  <2> QED
    BY <2>1, <2>2 DEF ImplSound
<1>4. CASE /\ conversations' = [conversations EXCEPT ![c].worker = "running"]
           /\ UNCHANGED events
  <2>1. /\ conversations' \in Seq(Conversation) /\ Len(conversations') = Len(conversations)
        /\ DOMAIN conversations' = DOMAIN conversations
        /\ Posted(events, conversations', watched)
        /\ Current(conversations', pam, authenticationUser, typed)
    BY <1>2, <1>4 DEF Workers
  <2> QED
    BY <1>4, <2>1 DEF ImplSound
<1> QED
  BY <1>3, <1>4 DEF WorkerStarts

(* A task says the next message, which it waits for if it is a prompt.     *)
LEMMA WorkerSaysDoes ==
  ASSUME ImplSound, Len(conversations) <= MaxConversations,
         NEW c \in DOMAIN conversations, WorkerSays(c),
         UNCHANGED <<pam, watched, futures, authenticationUser, authenticated, typed>>
  PROVE  ImplSound' /\ Len(conversations') = Len(conversations)
<1> DEFINE v == conversations[c]
           k == v.said + 1
           worker == IF k \in PromptsOf(v.script) THEN "blocked" ELSE "running"
           w == [v EXCEPT !.said = k, !.worker = worker]
           e == [kind |-> v.script[k], of |-> <<c, k>>]
<1>1. /\ v \in Conversation /\ v.worker = "running" /\ v.script \in Seq(MessageStyles)
      /\ v.said \in Nat /\ k <= Len(v.script)
  BY LenProperties, ScriptsAssumption DEF ImplSound, WorkerSays, Conversation
<1>2. conversations' = [conversations EXCEPT ![c] = w] /\ events' = Append(events, e)
  BY DEF WorkerSays, Post
<1>3. k \in 1 .. Len(v.script) /\ v.script[k] \in MessageStyles
  BY <1>1, LenProperties
<1> HIDE DEF k
<1>4. /\ w \in Conversation /\ GoesOn(v, w) /\ w.said = k /\ w.worker = worker
      /\ w.answers = v.answers /\ w.canceled = v.canceled /\ w.granted = v.granted
  <2>1. worker \in Workers
    BY DEF Workers
  <2> HIDE DEF worker
  <2>2. k \in Nat /\ k >= v.said
    BY <1>1, <1>3 DEF k
  <2> QED
    BY <1>1, <1>3, <2>1, <2>2 DEF Conversation, GoesOn
<1>5. c = pam /\ w.granted => authenticationUser \in OpenUsers \cup typed
  BY <1>4 DEF ImplSound, Current, None
<1> HIDE DEF w
<1>6. /\ conversations' \in Seq(Conversation) /\ Len(conversations') = Len(conversations)
      /\ DOMAIN conversations' = DOMAIN conversations /\ conversations'[c] = w
      /\ Posted(events, conversations', watched)
      /\ Current(conversations', pam, authenticationUser, typed)
  <2>1. GoesOnAs(c, w, conversations')
    BY <1>2, <1>4, <1>5 DEF GoesOnAs
  <2> QED
    BY <2>1, OneGoesOn
<1>7. Posted(events', conversations', watched)
  <2>1. c \in 1 .. MaxConversations
    BY LenProperties, BoundsAssumption DEF ImplSound
  <2>2. e \in Event /\ e.kind # "finished"
    BY <1>3, <2>1 DEF Event, MessageStyles
  <2>3. IsPosted(e, conversations', watched)
    BY <1>3, <1>4, <1>6, <2>2 DEF IsPosted, PromptsOf
  <2>4. \A i \in DOMAIN events : ~Same(events[i], e)
    BY <1>1, <1>3 DEF ImplSound, Posted, IsPosted, Same, MessageStyles
  <2> HIDE DEF e
  <2> QED
    BY <1>2, <1>6, <2>2, <2>3, <2>4, PostedAppend
<1> QED
  BY <1>6, <1>7 DEF ImplSound

(* PAM grants an uncancelled conversation only what it was given in it.    *)
LEMMA WorkerEndsDoes ==
  ASSUME ImplSound, Len(conversations) <= MaxConversations,
         NEW c \in DOMAIN conversations, WorkerEnds(c),
         UNCHANGED <<pam, watched, futures, authenticationUser, authenticated, typed>>
  PROVE  ImplSound' /\ Len(conversations') = Len(conversations)
<1> DEFINE v == conversations[c]
<1>1. PICK granted \in BOOLEAN :
             /\ granted => MayGrant(v)
             /\ conversations' = [conversations EXCEPT ![c].worker = "done", ![c].granted = granted]
  <2>1. PICK granted \in {MayGrant(v), FALSE} :
             conversations' = [conversations EXCEPT ![c].worker = "done", ![c].granted = granted]
    BY DEF WorkerEnds
  <2>2. granted \in BOOLEAN /\ (granted => MayGrant(v))
    BY <2>1 DEF MayGrant
  <2> QED
    BY <2>1, <2>2
<1> DEFINE w == [v EXCEPT !.worker = "done", !.granted = granted]
<1>2. v \in Conversation /\ v.worker = "running"
  BY LenProperties DEF ImplSound, WorkerEnds
<1>3. /\ w \in Conversation /\ GoesOn(v, w) /\ w.worker = "done"
      /\ w.answers = v.answers /\ w.canceled = v.canceled /\ (w.granted => granted)
  BY <1>2, WithVerdict
<1>4. ASSUME c = pam, MayGrant(v)
      PROVE  authenticationUser \in OpenUsers \cup typed
  <2>1. /\ v.user = authenticationUser /\ ~v.canceled
        /\ Told(v) \subseteq typed \cup {NoSecret, Unanswered}
    BY <1>4 DEF ImplSound, Current, None
  <2>2. ASSUME NEW k \in PromptsOf(v.script), v.answers[k] = v.user
        PROVE  v.user \in typed
    <3>1. v.answers[k] \in Told(v) /\ v.user \in Users
      BY <1>2 DEF PromptsOf, Told, Conversation
    <3>2. v.answers[k] # Unanswered
      BY DEF WorkerEnds
    <3> QED
      BY <2>1, <2>2, <3>1, <3>2, UsersAssumption
  <2> QED
    BY <1>4, <2>1, <2>2 DEF MayGrant
<1>5. conversations' = [conversations EXCEPT ![c] = w]
  BY <1>1
<1>6. GoesOnAs(c, w, conversations')
  BY <1>1, <1>3, <1>4, <1>5 DEF GoesOnAs
<1> HIDE DEF w
<1>7. /\ conversations' \in Seq(Conversation) /\ Len(conversations') = Len(conversations)
      /\ DOMAIN conversations' = DOMAIN conversations /\ conversations'[c] = w
      /\ Posted(events, conversations', watched)
      /\ Current(conversations', pam, authenticationUser, typed)
  BY <1>6, OneGoesOn
<1>8. Posted(events', conversations', watched)
  <2>1. PostFinished(c)
    BY DEF WorkerEnds
  <2> QED
    BY <1>2, <1>3, <1>7, <2>1, PostFinishedDoes
<1> QED
  BY <1>7, <1>8 DEF ImplSound

-----------------------------------------------------------------------------
(* The handlers of the main thread.                                        *)

\* What a step does to the promise of Authentication.
Keeps == [Promise!Next]_(Promise!vars)

(* Nothing that Authentication speaks of has changed.                      *)
LEMMA SameUserKeeps ==
  ASSUME UNCHANGED <<authenticationUser, typed, authenticated>>
  PROVE  Keeps
BY DEF Keeps, Promise!vars

(* A worker's step, whichever it is.                                       *)
LEMMA WorkerDoes ==
  ASSUME Inv, NEW c, Worker(c)
  PROVE  Inv' /\ Keeps
<1>1. /\ c \in DOMAIN conversations
      /\ UNCHANGED <<pam, watched, futures, authenticationUser, authenticated, typed>>
      /\ UNCHANGED <<rows, lock, quitting>>
  BY DEF Worker
<1>2. ImplSound' /\ Len(conversations') = Len(conversations)
  BY <1>1, WorkerStartsDoes, WorkerSaysDoes, WorkerEndsDoes DEF Worker, Inv, Room
<1>3. (RowsSound /\ LockSound /\ Room)'
  BY <1>1, <1>2 DEF Inv, RowsSound, LockSound, Room, rows, lock
<1> QED
  BY <1>1, <1>2, <1>3, SameUserKeeps DEF Inv

(* A row is shown; whether anybody has responded stays known.              *)
LEMMA ShowDoes ==
  ASSUME RowsSound, NEW row \in Row, Show(row)
  PROVE  RowsSound' /\ everResponded' = everResponded
<1>1. (IF responded THEN <<>> ELSE prompts) \in Seq(Row)
  BY EmptySeq DEF RowsSound
<1>2. prompts' \in Seq(Row)
  BY <1>1, AppendProperties DEF Show
<1> QED
  BY <1>2 DEF Show, RowsSound

(* The first event speaks of a conversation.                               *)
LEMMA HeadSpeaks ==
  ASSUME ImplSound, events # <<>>
  PROVE  /\ Posted(Tail(events), conversations, watched)
         /\ Head(events).of[1] \in DOMAIN conversations
         /\ conversations[Head(events).of[1]].user \in Users
         /\ Head(events).kind # "finished" => Head(events).of \in Futures
<1>1. /\ Posted(Tail(events), conversations, watched)
      /\ Head(events) \in Event /\ IsPosted(Head(events), conversations, watched)
  BY PostedTail DEF ImplSound
<1>2. Head(events).of[1] \in DOMAIN conversations
  BY <1>1 DEF IsPosted
<1>3. conversations[Head(events).of[1]] \in Conversation
  BY <1>2, LenProperties DEF ImplSound
<1> QED
  BY <1>1, <1>2, <1>3 DEF Conversation, IsPosted, Event, Futures

(* A message is shown, or dropped because it is stale.                     *)
LEMMA HandleMessageDoes ==
  ASSUME Inv, events # <<>>, HandleMessage, UNCHANGED quitting
  PROVE  Inv' /\ Keeps
<1>1. /\ Posted(Tail(events), conversations, watched)
      /\ conversations[Head(events).of[1]].user \in Users
  BY HeadSpeaks DEF Inv
<1>2. /\ UNCHANGED <<conversations, pam, watched, futures, authenticationUser,
                     authenticated, typed, lock, quitting>>
      /\ events' = Tail(events)
  BY DEF HandleMessage
<1>3. ImplSound'
  BY <1>1, <1>2 DEF Inv, ImplSound
<1>4. RowsSound' /\ everResponded' = everResponded
  <2>1. CASE UNCHANGED rows
    BY <2>1 DEF rows, RowsSound, Inv
  <2>2. CASE Show(Message(conversations[Head(events).of[1]].user))
    BY <1>1, <2>2, RowsOfUsers, ShowDoes DEF Inv
  <2> QED
    BY <2>1, <2>2 DEF HandleMessage
<1> QED
  BY <1>2, <1>3, <1>4, SameUserKeeps DEF Inv, Room, LockSound, lock

(* Answers change nothing but what conversations have been told.           *)
LEMMA CurrentAnswered ==
  ASSUME NEW cs \in Seq(Conversation), NEW p \in {None} \cup DOMAIN cs, NEW u, NEW r,
         Current(cs, p, u, r), NEW fs, NEW rs,
         \A i \in DOMAIN rs : rs[i] \in Responses /\ rs[i] \in r \cup {NoSecret}
  PROVE  LET ds == Answered(cs, fs, rs)
         IN  /\ Continues(cs, ds) /\ ds \in Seq(Conversation) /\ Len(ds) = Len(cs)
             /\ DOMAIN ds = DOMAIN cs
             /\ \A c \in DOMAIN cs : ds[c].worker = cs[c].worker
             /\ Current(ds, p, u, r)
<1> DEFINE ds == Answered(cs, fs, rs)
<1>1. DOMAIN cs = 1 .. Len(cs) /\ None \notin DOMAIN cs
  BY LenProperties DEF None
<1>2. /\ Continues(cs, ds) /\ Len(ds) = Len(cs)
      /\ \A c \in 1 .. Len(cs) :
           /\ ds[c].worker = cs[c].worker
           /\ ds[c].canceled = cs[c].canceled /\ ds[c].granted = cs[c].granted
           /\ Told(ds[c]) \subseteq Told(cs[c]) \cup {rs[i] : i \in DOMAIN rs}
  BY AnsweredDoes
<1> HIDE DEF ds
<1>3. ds \in Seq(Conversation) /\ DOMAIN ds = DOMAIN cs
  BY <1>1, <1>2, LenProperties DEF Continues
<1>4. ASSUME p # None PROVE Current(ds, p, u, r)
  <2>1. p \in 1 .. Len(cs)
    BY <1>1, <1>4
  <2>2. /\ cs[p].user = u /\ ~cs[p].canceled
        /\ Told(cs[p]) \subseteq r \cup {NoSecret, Unanswered}
        /\ cs[p].granted => u \in OpenUsers \cup r
    BY <1>4 DEF Current
  <2>3. ds[p].user = u
    BY <1>2, <2>1, <2>2 DEF Continues, GoesOn
  <2>4. ~ds[p].canceled /\ (ds[p].granted => u \in OpenUsers \cup r)
    BY <1>2, <2>1, <2>2
  <2>5. Told(ds[p]) \subseteq r \cup {NoSecret, Unanswered}
    BY <1>2, <2>1, <2>2, SMTT(20)
  <2> QED
    BY <2>3, <2>4, <2>5 DEF Current
<1>5. Current(ds, p, u, r)
  BY <1>4 DEF Current
<1> QED
  BY <1>1, <1>2, <1>3, <1>5 DEF ds

(* The thread of a prompt that has been handled goes on.                   *)
LEMMA UnblockedDoes ==
  ASSUME NEW cs \in Seq(Conversation), NEW c \in DOMAIN cs,
         NEW w, NEW es, Posted(es, cs, w),
         \A i \in DOMAIN es : ~(es[i].kind = "prompt" /\ es[i].of[1] = c),
         cs[c].worker = "blocked",
         NEW p \in {None} \cup DOMAIN cs, NEW u, NEW t, Current(cs, p, u, t)
  PROVE  LET ds == Unblocked(cs, c)
         IN  /\ ds \in Seq(Conversation) /\ Len(ds) = Len(cs) /\ DOMAIN ds = DOMAIN cs
             /\ Posted(es, ds, w) /\ Current(ds, p, u, t)
<1> DEFINE ds == Unblocked(cs, c)
           v == [cs[c] EXCEPT !.worker = "running"]
<1>1. /\ DOMAIN cs = 1 .. Len(cs) /\ None \notin DOMAIN cs
      /\ \A d \in DOMAIN cs : cs[d] \in Conversation
  BY LenProperties DEF None
<1>2. /\ v \in Conversation /\ v.user = cs[c].user /\ v.said = cs[c].said
      /\ v.answers = cs[c].answers /\ v.canceled = cs[c].canceled /\ v.granted = cs[c].granted
  BY <1>1 DEF Conversation, Workers
<1>3. ds = [cs EXCEPT ![c] = v]
  BY DEF Unblocked
<1> HIDE DEF ds, v
<1>4. /\ ds \in Seq(Conversation) /\ Len(ds) = Len(cs) /\ DOMAIN ds = DOMAIN cs
      /\ \A d \in DOMAIN cs : ds[d] = IF d = c THEN v ELSE cs[d]
  BY <1>1, <1>2, <1>3, ExceptSeq, LenProperties
<1>5. ASSUME NEW i \in DOMAIN es PROVE IsPosted(es[i], ds, w)
  <2>1. IsPosted(es[i], cs, w)
    BY DEF Posted
  <2>2. CASE es[i].of[1] = c
    BY <1>2, <1>4, <2>1, <2>2 DEF IsPosted
  <2>3. CASE es[i].of[1] # c
    BY <1>4, <2>1, <2>3 DEF IsPosted
  <2> QED
    BY <2>2, <2>3
<1>6. Posted(es, ds, w)
  BY <1>5 DEF Posted
<1>7. Current(ds, p, u, t)
  <2>1. CASE p = c
    BY <1>2, <1>4, <2>1 DEF Current, Told
  <2>2. CASE p # c
    BY <1>1, <1>4, <2>2 DEF Current
  <2> QED
    BY <2>1, <2>2
<1> QED
  BY <1>4, <1>6, <1>7 DEF ds

(* A prompt is shown and queued, or dismissed because it is stale; its     *)
(* thread goes on.                                                         *)
LEMMA HandlePromptDoes ==
  ASSUME Inv, events # <<>>, HandlePrompt, UNCHANGED quitting
  PROVE  Inv' /\ Keeps
<1> DEFINE future == Head(events).of
           c == future[1]
<1>1. /\ Posted(Tail(events), conversations, watched)
      /\ c \in DOMAIN conversations /\ conversations[c].user \in Users /\ future \in Futures
  BY HeadSpeaks DEF Inv, HandlePrompt
<1>2. /\ conversations[c].worker = "blocked"
      /\ \A i \in DOMAIN Tail(events) :
           ~(Tail(events)[i].kind = "prompt" /\ Tail(events)[i].of[1] = c)
  BY PostedTail DEF Inv, ImplSound, HandlePrompt, IsPosted, Same
<1>3. /\ UNCHANGED <<pam, watched, authenticationUser, authenticated, typed, lock, quitting>>
      /\ events' = Tail(events)
  BY DEF HandlePrompt
<1>4. /\ conversations \in Seq(Conversation) /\ pam \in {None} \cup DOMAIN conversations
      /\ Current(conversations, pam, authenticationUser, typed)
      /\ futures \in Seq(Futures)
  BY DEF Inv, ImplSound
<1> DEFINE StillSound(ds) ==
             /\ ds \in Seq(Conversation) /\ Len(ds) = Len(conversations)
             /\ DOMAIN ds = DOMAIN conversations
             /\ Posted(Tail(events), ds, watched)
             /\ Current(ds, pam, authenticationUser, typed)
<1>5. CASE /\ conversations' = Dismissed(conversations, future)
           /\ UNCHANGED <<futures, rows>>
  <2> DEFINE rs == <<NoSecret>>
             fs == <<future>>
             cs == Answered(conversations, fs, rs)
  <2>1. /\ Continues(conversations, cs) /\ cs \in Seq(Conversation)
        /\ Len(cs) = Len(conversations) /\ DOMAIN cs = DOMAIN conversations
        /\ cs[c].worker = "blocked"
        /\ Current(cs, pam, authenticationUser, typed)
    <3>1. \A i \in DOMAIN rs : rs[i] = NoSecret
      OBVIOUS
    <3>2. \A i \in DOMAIN rs : rs[i] \in Responses /\ rs[i] \in typed \cup {NoSecret}
      BY <3>1 DEF Responses
    <3> HIDE DEF rs, fs, c, future
    <3>3. /\ Continues(conversations, cs) /\ cs \in Seq(Conversation)
          /\ Len(cs) = Len(conversations) /\ DOMAIN cs = DOMAIN conversations
          /\ \A d \in DOMAIN conversations : cs[d].worker = conversations[d].worker
          /\ Current(cs, pam, authenticationUser, typed)
      BY <1>4, <3>2, CurrentAnswered
    <3> QED
      BY <1>1, <1>2, <3>3
  <2>2. Posted(Tail(events), cs, watched)
    BY <1>1, <1>4, <2>1, PostedContinues
  <2>3. conversations' = Unblocked(cs, c)
    BY <1>5 DEF Dismissed
  <2> HIDE DEF cs, c, future
  <2>4. StillSound(conversations')
    BY <1>1, <1>2, <1>4, <2>1, <2>2, <2>3, UnblockedDoes
  <2>5. ImplSound'
    BY <1>3, <1>5, <2>4 DEF Inv, ImplSound
  <2>6. (RowsSound /\ LockSound /\ Room)'
    BY <1>3, <1>5, <2>4 DEF Inv, RowsSound, LockSound, Room, rows, lock
  <2> QED
    BY <1>3, <2>5, <2>6, SameUserKeeps DEF Inv
<1>6. CASE /\ conversations' = Unblocked(conversations, c)
           /\ futures' = Append(futures, future)
           /\ Show(Prompt(conversations[c].user))
  <2>1. StillSound(conversations')
    <3> HIDE DEF c, future
    <3> QED
      BY <1>1, <1>2, <1>4, <1>6, UnblockedDoes
  <2>2. RowsSound' /\ everResponded' = everResponded
    BY <1>1, <1>6, RowsOfUsers, ShowDoes DEF Inv
  <2>3. futures' \in Seq(Futures)
    BY <1>1, <1>4, <1>6, AppendProperties
  <2>4. ImplSound'
    BY <1>3, <2>1, <2>3 DEF Inv, ImplSound
  <2>5. (LockSound /\ Room)'
    BY <1>3, <2>1, <2>2 DEF Inv, LockSound, Room, lock
  <2> QED
    BY <1>3, <2>2, <2>4, <2>5, SameUserKeeps DEF Inv
<1> QED
  BY <1>5, <1>6 DEF HandlePrompt

(* What is left over when a conversation ends are rows.                    *)
LEMMA LeftoversAreRows ==
  ASSUME RowsSound, authenticationUser \in Users, NEW granted \in BOOLEAN
  PROVE  LeftoversAfter(granted) \in Seq(Row)
BY RowsOfUsers, AppendProperties DEF RowsSound, LeftoversAfter

(* authenticationComplete: only a conversation with the user asked about   *)
(* that PAM has granted authenticates.                                     *)
LEMMA CompleteDoes ==
  ASSUME Inv, events # <<>>, pam # None, authenticationUser \in Users,
         NEW granted \in BOOLEAN, granted => authenticationUser \in OpenUsers \cup typed,
         Complete(granted), UNCHANGED <<view, forcedUnlock, currentUser, quitting>>
  PROVE  Inv' /\ Keeps
<1>1. /\ UNCHANGED <<conversations, watched, futures, authenticationUser, typed,
                     responded, everResponded>>
      /\ pam' = None /\ authenticated' = granted /\ events' = Tail(events)
  BY DEF Complete
<1>2. Posted(events', conversations', watched')
  BY <1>1, PostedTail DEF Inv, ImplSound
<1>3. ImplSound'
  BY <1>1, <1>2 DEF Inv, ImplSound, Current
<1>4. RowsSound'
  <2>1. LeftoversAfter(granted) \in Seq(Row) /\ Button(authenticationUser) \in Row
    BY LeftoversAreRows, RowsOfUsers DEF Inv
  <2>2. CASE /\ prompts' = Append(LeftoversAfter(granted), Button(authenticationUser))
             /\ leftovers' = <<>> /\ interactive' = TRUE
    <3>1. prompts' \in Seq(Row) /\ leftovers' \in Seq(Row)
      BY <2>1, <2>2, AppendProperties, EmptySeq
    <3> QED
      BY <1>1, <2>2, <3>1 DEF Inv, RowsSound
  <2>3. CASE leftovers' = LeftoversAfter(granted) /\ UNCHANGED <<prompts, interactive>>
    BY <1>1, <2>1, <2>3 DEF Inv, RowsSound
  <2> QED
    BY <2>2, <2>3 DEF Complete
<1>5. (LockSound /\ Room)'
  <2>1. enabled' \in BOOLEAN /\ hiding' \in {"no", "cover", "lockscreen"}
    <3>1. HideView \/ UNCHANGED <<enabled, hiding>>
      BY DEF Complete
    <3> QED
      BY <3>1 DEF HideView, Inv, LockSound
  <2> QED
    BY <1>1, <2>1 DEF Inv, LockSound, Room
<1>6. Keeps
  <2>1. CASE granted = TRUE
    BY <1>1, <2>1 DEF Keeps, Promise!Next, Promise!Grant
  <2>2. CASE granted = FALSE
    <3>1. authenticated' = authenticated
      BY <1>1, <2>2 DEF Inv, ImplSound
    <3> QED
      BY <1>1, <3>1, SameUserKeeps
  <2> QED
    BY <2>1, <2>2
<1> QED
  BY <1>3, <1>4, <1>5, <1>6 DEF Inv

(* Asking about a user is what Authentication calls Ask.                   *)
LEMMA AskKeeps ==
  ASSUME NEW u \in Users, authenticationUser' = u, typed' = {}, authenticated' = FALSE
  PROVE  Keeps
BY DEF Keeps, Promise!Next, Promise!Ask

(* The current conversation ends, and perhaps the user is asked again; a   *)
(* cancelled one's end is passed over.                                     *)
LEMMA FinishPamDoes ==
  ASSUME Inv, Ready, events # <<>>, FinishPam, UNCHANGED quitting
  PROVE  Inv' /\ Keeps
<1> DEFINE granted == conversations[watched].granted
<1>1. Posted(Tail(events), conversations, watched)
  BY HeadSpeaks DEF Inv
<1>2. UNCHANGED <<view, forcedUnlock, currentUser, quitting>>
  BY DEF FinishPam
<1>3. CASE pam = None
  <2>1. /\ events' = Tail(events)
        /\ UNCHANGED <<conversations, pam, watched, futures, authenticationUser,
                       authenticated, typed, rows, enabled, hiding>>
    BY <1>3 DEF FinishPam, IsOver
  <2>2. ImplSound'
    BY <1>1, <2>1 DEF Inv, ImplSound
  <2> QED
    BY <1>2, <2>1, <2>2, SameUserKeeps DEF Inv, RowsSound, LockSound, Room, rows
<1>4. CASE pam # None
  <2>1. /\ watched = pam /\ conversations[pam] \in Conversation
        /\ conversations[pam].user = authenticationUser
        /\ conversations[pam].granted => authenticationUser \in OpenUsers \cup typed
    BY <1>4, LenProperties DEF Inv, ImplSound, Current
  <2>2. /\ authenticationUser \in Users /\ granted \in BOOLEAN
        /\ granted => authenticationUser \in OpenUsers \cup typed
    BY <2>1 DEF Conversation
  <2>3. CASE ~AsksAgain(granted)
    <3>1. Complete(granted)
      BY <1>4, <2>3 DEF FinishPam, IsOver
    <3> HIDE DEF granted
    <3> QED
      BY <1>2, <1>4, <2>2, <3>1, CompleteDoes
  <2>4. CASE AsksAgain(granted)
    <3>1. /\ Authenticate(currentUser, None, Tail(events), LeftoversAfter(granted), <<>>)
          /\ UNCHANGED <<enabled, hiding>>
      BY <1>4, <2>4 DEF FinishPam, IsOver
    <3>2. everResponded /\ view # "loading" /\ Len(conversations) < MaxConversations
      BY <2>4 DEF AsksAgain, Automatic, Inv, Room, Ready
    <3> HIDE DEF granted
    <3>3. LeftoversAfter(granted) \in Seq(Row) /\ <<>> \in Seq(Row) /\ currentUser \in Users
      BY <2>2, LeftoversAreRows, EmptySeq DEF Inv, LockSound
    <3>4. /\ ImplSound' /\ RowsSound'
          /\ Len(conversations') <= Len(conversations) + 1 /\ ~everResponded'
          /\ authenticationUser' = currentUser /\ typed' = {} /\ authenticated' = FALSE
      BY <1>1, <3>1, <3>2, <3>3, AuthenticateDoes DEF Inv
    <3>5. LockSound'
      BY <1>2, <3>1 DEF Inv, LockSound
    <3>6. Room'
      BY <1>2, <3>2, <3>4, LenProperties, BoundsAssumption DEF Room, Inv, ImplSound
    <3> QED
      BY <3>3, <3>4, <3>5, <3>6, AskKeeps DEF Inv
  <2> QED
    BY <2>3, <2>4
<1> QED
  BY <1>3, <1>4

(* What is typed for a queued prompt is told to PAM and remembered.        *)
LEMMA SendResponseDoes ==
  ASSUME Inv, SendResponse
  PROVE  Inv' /\ Keeps
<1> DEFINE n == Cardinality(PromptRows(prompts))
<1>1. PICK rs :
             /\ rs \in [1 .. n -> Responses]
             /\ conversations' = Answered(conversations, futures, rs)
             /\ typed' = typed \cup {rs[i] : i \in 1 .. n}
  BY DEF SendResponse
<1>2. /\ UNCHANGED <<pam, watched, events, authenticationUser, authenticated,
                     prompts, leftovers, lock, quitting>>
      /\ futures' = SubSeq(futures, n + 1, Len(futures))
      /\ responded' = TRUE /\ everResponded' = TRUE /\ interactive' = FALSE
      /\ Len(conversations) + 1 <= MaxConversations /\ Ready
  BY DEF SendResponse, RoomFor, Usable
<1>3. n \in Nat
  <2>1. DOMAIN prompts = 1 .. Len(prompts) /\ Len(prompts) \in Nat
    BY LenProperties DEF Inv, RowsSound
  <2>2. IsFiniteSet(PromptRows(prompts))
    <3>1. PromptRows(prompts) \subseteq 1 .. Len(prompts)
      BY <2>1 DEF PromptRows
    <3> QED
      <4>1. IsFiniteSet(1 .. Len(prompts))
        BY <2>1, FS_Interval
      <4> QED
        BY <3>1, <4>1, FS_Subset
  <2> QED
    BY <2>2, FS_CardinalityType
<1> HIDE DEF n
<1>4. /\ \A i \in DOMAIN rs : rs[i] \in Responses /\ rs[i] \in typed' \cup {NoSecret}
      /\ typed' \subseteq Responses
  BY <1>1 DEF Inv, ImplSound
<1>5. futures' \in Seq(Futures)
  <2>1. futures \in Seq(Futures) /\ Len(futures) \in Nat
    BY LenProperties DEF Inv, ImplSound
  <2>2. \A i \in n + 1 .. Len(futures) : futures[i] \in Futures
    BY <1>3, <2>1, LenProperties
  <2> QED
    BY <1>2, <1>3, <2>1, <2>2, SubSeqProperties
<1>6. /\ conversations \in Seq(Conversation) /\ pam \in {None} \cup DOMAIN conversations
      /\ Current(conversations, pam, authenticationUser, typed')
  BY <1>1 DEF Inv, ImplSound, Current
<1>7. /\ Continues(conversations, conversations') /\ conversations' \in Seq(Conversation)
      /\ Len(conversations') = Len(conversations)
      /\ DOMAIN conversations' = DOMAIN conversations
      /\ Current(conversations', pam, authenticationUser, typed')
  <2> DEFINE ds == Answered(conversations, futures, rs)
  <2>1. /\ Continues(conversations, ds) /\ ds \in Seq(Conversation)
        /\ Len(ds) = Len(conversations) /\ DOMAIN ds = DOMAIN conversations
        /\ Current(ds, pam, authenticationUser, typed')
    <3>1. PICK t : t = typed'
      OBVIOUS
    <3>2. \A i \in DOMAIN rs : rs[i] \in Responses /\ rs[i] \in t \cup {NoSecret}
      BY <1>4, <3>1
    <3>3. Current(conversations, pam, authenticationUser, t)
      BY <1>6, <3>1
    <3>4. /\ Continues(conversations, ds) /\ ds \in Seq(Conversation)
          /\ Len(ds) = Len(conversations) /\ DOMAIN ds = DOMAIN conversations
          /\ Current(ds, pam, authenticationUser, t)
      BY <1>6, <3>2, <3>3, CurrentAnswered
    <3> QED
      BY <3>1, <3>4
  <2> HIDE DEF ds
  <2> QED
    BY <1>1, <2>1 DEF ds
<1>8. Posted(events, conversations', watched)
  BY <1>6, <1>7, PostedContinues DEF Inv, ImplSound
<1>9. ImplSound'
  BY <1>2, <1>4, <1>5, <1>7, <1>8 DEF Inv, ImplSound
<1>10. (RowsSound /\ LockSound /\ Room)'
  <2>1. Len(conversations) \in Nat
    BY <1>6, LenProperties
  <2>2. RowsSound'
    BY <1>2 DEF Inv, RowsSound
  <2>3. LockSound'
    BY <1>2 DEF Inv, LockSound, lock
  <2>4. Room'
    BY <1>2, <1>7, <2>1, BoundsAssumption DEF Room
  <2> QED
    BY <2>2, <2>3, <2>4
<1>11. Keeps
  <2>1. {rs[i] : i \in 1 .. n} \in SUBSET Promise!Responses
    BY <1>1 DEF Promise!Responses, Responses
  <2> QED
    BY <1>1, <1>2, <2>1 DEF Keeps, Promise!Next, Promise!Type
<1> QED
  BY <1>9, <1>10, <1>11 DEF Inv

(* Asking about a user while there is room for one more conversation.      *)
LEMMA AskDoes ==
  ASSUME Inv, RoomFor(1), NEW u \in Users, NEW above \in Seq(Row),
         Authenticate(u, pam, events, leftovers, above)
  PROVE  /\ ImplSound' /\ RowsSound' /\ Keeps
         /\ Len(conversations') \in Nat /\ Len(conversations') <= Len(conversations) + 1
         /\ ~everResponded'
<1>1. Len(conversations) < MaxConversations
  BY LenProperties, BoundsAssumption DEF RoomFor, Inv, ImplSound
<1>2. /\ ImplSound' /\ RowsSound'
      /\ Len(conversations') <= Len(conversations) + 1 /\ ~everResponded'
      /\ authenticationUser' = u /\ typed' = {} /\ authenticated' = FALSE
  BY <1>1, AuthenticateDoes DEF Inv, ImplSound, RowsSound
<1> QED
  BY <1>2, AskKeeps, LenProperties DEF ImplSound

(* Another user is asked about.                                            *)
LEMMA SelectUserDoes ==
  ASSUME Inv, NEW u \in Users, SelectUser(u)
  PROVE  Inv' /\ Keeps
<1>1. /\ RoomFor(1) /\ Authenticate(u, pam, events, leftovers, <<>>) /\ currentUser' = u
      /\ UNCHANGED <<view, enabled, hiding, forcedUnlock, quitting>> /\ view # "loading"
  BY DEF SelectUser, Ready
<1>2. /\ ImplSound' /\ RowsSound' /\ Keeps
      /\ Len(conversations') \in Nat /\ Len(conversations') <= Len(conversations) + 1
      /\ ~everResponded'
  BY <1>1, AskDoes, EmptySeq
<1>3. Room' /\ LockSound'
  BY <1>1, <1>2, LenProperties, BoundsAssumption DEF Room, RoomFor, LockSound, Inv, ImplSound
<1> QED
  BY <1>2, <1>3 DEF Inv

(* The same user is asked again, under an error row.                       *)
LEMMA FingerprintRejectedDoes ==
  ASSUME Inv, FingerprintRejected
  PROVE  Inv' /\ Keeps
<1>1. /\ RoomFor(1) /\ Authenticate(currentUser, pam, events, leftovers, <<Message(currentUser)>>)
      /\ UNCHANGED <<lock, quitting>> /\ view # "loading"
  BY DEF FingerprintRejected, Ready
<1>2. currentUser \in Users /\ <<Message(currentUser)>> \in Seq(Row)
  BY RowsOfUsers DEF Inv, LockSound
<1>3. /\ ImplSound' /\ RowsSound' /\ Keeps
      /\ Len(conversations') \in Nat /\ Len(conversations') <= Len(conversations) + 1
      /\ ~everResponded'
  BY <1>1, <1>2, AskDoes
<1>4. Room' /\ LockSound'
  BY <1>1, <1>3, LenProperties, BoundsAssumption
     DEF Room, RoomFor, LockSound, lock, Inv, ImplSound
<1> QED
  BY <1>3, <1>4 DEF Inv

(* ForceShow has left room for what its view asks.                         *)
LEMMA ViewLoadedDoes ==
  ASSUME Inv, ViewLoaded
  PROVE  Inv' /\ Keeps
<1>1. /\ Authenticate(currentUser, pam, events, leftovers, <<>>)
      /\ view = "loading" /\ view' = "loaded" /\ enabled' = TRUE
      /\ UNCHANGED <<hiding, forcedUnlock, currentUser, quitting>>
  BY DEF ViewLoaded
<1>2. RoomFor(1) /\ currentUser \in Users
  BY <1>1, LenProperties, BoundsAssumption DEF Room, RoomFor, LockSound, Inv, ImplSound
<1>3. /\ ImplSound' /\ RowsSound' /\ Keeps
      /\ Len(conversations') \in Nat /\ Len(conversations') <= Len(conversations) + 1
      /\ ~everResponded'
  BY <1>1, <1>2, AskDoes, EmptySeq
<1>4. Room' /\ LockSound'
  BY <1>1, <1>2, <1>3, LenProperties, BoundsAssumption
     DEF Room, RoomFor, LockSound, Inv, ImplSound
<1> QED
  BY <1>3, <1>4 DEF Inv

(* The view is loaded, or the user is asked again.                         *)
LEMMA ForceShowDoes ==
  ASSUME Inv, ForceShow
  PROVE  Inv' /\ Keeps
<1>1. /\ forcedUnlock' = FALSE /\ hiding' = "no"
      /\ UNCHANGED <<enabled, currentUser, quitting>>
  BY DEF ForceShow
<1>2. CASE /\ RoomFor(1) /\ view' = "loading" /\ UNCHANGED <<impl, rows>>
  <2>1. Room'
    BY <1>2, LenProperties, BoundsAssumption DEF Room, RoomFor, Inv, ImplSound, impl, rows
  <2>2. LockSound'
    BY <1>1, <1>2 DEF LockSound, Inv
  <2>3. ImplSound' /\ RowsSound' /\ Keeps
    BY <1>2, SameUserKeeps DEF Inv, ImplSound, RowsSound, impl, rows
  <2> QED
    BY <2>1, <2>2, <2>3 DEF Inv
<1>3. CASE /\ RoomFor(2) /\ view' = (IF hiding = "cover" THEN "loading" ELSE view)
           /\ Authenticate(currentUser, pam, events, leftovers, <<>>)
  <2>1. currentUser \in Users /\ RoomFor(1) /\ Len(conversations) \in Nat
    BY <1>3, LenProperties, BoundsAssumption DEF RoomFor, Inv, ImplSound, LockSound
  <2>2. /\ ImplSound' /\ RowsSound' /\ Keeps
        /\ Len(conversations') \in Nat /\ Len(conversations') <= Len(conversations) + 1
        /\ ~everResponded'
    BY <1>3, <2>1, AskDoes, EmptySeq
  <2>3. Room'
    <3>1. Len(conversations') < MaxConversations
      BY <1>3, <2>1, <2>2, BoundsAssumption DEF RoomFor
    <3> QED
      BY <2>2, <3>1, BoundsAssumption DEF Room
  <2>4. LockSound'
    <3>1. view' \in {"none", "loading", "loaded"}
      BY <1>3 DEF LockSound, Inv
    <3> QED
      BY <1>1, <3>1 DEF LockSound, Inv
  <2> QED
    BY <2>2, <2>3, <2>4 DEF Inv
<1> QED
  BY <1>2, <1>3 DEF ForceShow

(* A login, an unlock or the end of an animation does not touch PAM.       *)
LEMMA UnlockDoes ==
  ASSUME Inv, Login \/ ForceUnlock \/ SessionUnlocked \/ HideDone
  PROVE  Inv' /\ Keeps
<1>1. /\ UNCHANGED <<impl, prompts, leftovers, responded, everResponded, currentUser, quitting>>
      /\ view' \in {view, "none"} /\ interactive' \in BOOLEAN /\ forcedUnlock' \in BOOLEAN
      /\ enabled' \in BOOLEAN /\ hiding' \in {"no", "cover", "lockscreen"}
  BY DEF Login, ForceUnlock, SessionUnlocked, HideDone, HideView, rows,
         Inv, RowsSound, LockSound
<1>2. ImplSound' /\ Keeps
  BY <1>1, SameUserKeeps DEF Inv, ImplSound, impl
<1>3. RowsSound' /\ LockSound'
  BY <1>1 DEF Inv, RowsSound, LockSound
<1>4. Room'
  BY <1>1 DEF Inv, Room, impl
<1> QED
  BY <1>2, <1>3, <1>4 DEF Inv

(* Quitting cancels the conversation.                                      *)
LEMMA QuitDoes ==
  ASSUME Inv, Quit
  PROVE  Inv' /\ Keeps
<1>1. /\ conversations' = Cancelled(conversations, pam, futures)
      /\ futures' = CancelledFutures(pam, futures) /\ pam' = None /\ quitting' = TRUE
      /\ UNCHANGED <<watched, events, authenticationUser, authenticated, typed, rows, lock>>
  BY DEF Quit
<1>2. /\ Continues(conversations, conversations')
      /\ Len(conversations') = Len(conversations)
  BY <1>1, CancelledDoes DEF Inv, ImplSound
<1>3. conversations' \in Seq(Conversation) /\ DOMAIN conversations' = DOMAIN conversations
  BY <1>2, LenProperties DEF Continues, Inv, ImplSound
<1>4. Posted(events, conversations', watched)
  BY <1>2, PostedContinues DEF Inv, ImplSound
<1>5. futures' \in Seq(Futures)
  BY <1>1, EmptySeq DEF CancelledFutures, Inv, ImplSound
<1>6. ImplSound'
  BY <1>1, <1>3, <1>4, <1>5 DEF Inv, ImplSound, Current
<1>7. RowsSound' /\ LockSound'
  BY <1>1 DEF Inv, RowsSound, LockSound, rows, lock
<1>8. Room'
  BY <1>1, <1>2 DEF Inv, Room, rows, lock
<1> QED
  BY <1>1, <1>6, <1>7, <1>8, SameUserKeeps DEF Inv

-----------------------------------------------------------------------------
(* The theorems.                                                           *)

(* The invariant holds at the start ...                                    *)
LEMMA InitIsSound == Init => Inv /\ Promise!Init
<1> SUFFICES ASSUME Init PROVE Inv /\ Promise!Init
  OBVIOUS
<1>1. /\ conversations = <<>> /\ pam = None /\ watched = None /\ futures = <<>>
      /\ events = <<>> /\ authenticationUser = NoUser /\ authenticated = FALSE
      /\ typed = {} /\ quitting = FALSE /\ prompts = <<>> /\ leftovers = <<>>
      /\ responded = FALSE /\ everResponded = FALSE /\ view = "loading"
      /\ enabled = TRUE /\ hiding = "no" /\ interactive = TRUE /\ forcedUnlock = FALSE
      /\ currentUser \in Users
  BY DEF Init, Started
<1>2. Posted(events, conversations, watched)
  BY <1>1 DEF Posted, NoneTwice
<1>3. ImplSound
  BY <1>1, <1>2, EmptySeq DEF ImplSound, Current
<1>4. RowsSound
  BY <1>1, EmptySeq DEF RowsSound
<1>5. Len(conversations) = 0 /\ 0 < MaxConversations
  BY <1>1, BoundsAssumption, EmptySeq
<1>6. Room
  BY <1>5, BoundsAssumption DEF Room
<1>7. LockSound
  BY <1>1 DEF LockSound
<1> QED
  BY <1>1, <1>3, <1>4, <1>6, <1>7 DEF Inv, Promise!Init

(* ... and every step keeps it and the promise of Authentication.          *)
LEMMA StepIsSound == Inv /\ [Next]_vars => Inv' /\ Keeps
<1> SUFFICES ASSUME Inv, [Next]_vars PROVE Inv' /\ Keeps
  OBVIOUS
<1>1. CASE \E c \in 1 .. MaxConversations : Worker(c)
  BY <1>1, WorkerDoes
<1>2. CASE HandleEvent
  BY <1>2, HandleMessageDoes, HandlePromptDoes, FinishPamDoes DEF HandleEvent
<1>3. CASE SendResponse
  BY <1>3, SendResponseDoes
<1>4. CASE \E u \in Users : SelectUser(u)
  BY <1>4, SelectUserDoes
<1>5. CASE FingerprintRejected
  BY <1>5, FingerprintRejectedDoes
<1>6. CASE ViewLoaded
  BY <1>6, ViewLoadedDoes
<1>7. CASE ForceShow
  BY <1>7, ForceShowDoes
<1>8. CASE Login \/ ForceUnlock \/ SessionUnlocked \/ HideDone
  BY <1>8, UnlockDoes
<1>9. CASE Quit
  BY <1>9, QuitDoes
<1>10. CASE UNCHANGED vars
  <2>1. UNCHANGED <<impl, rows, lock, quitting>>
    BY <1>10 DEF vars
  <2>2. Keeps
    BY <2>1, SameUserKeeps DEF impl
  <2> QED
    BY <2>1, <2>2 DEF Inv, ImplSound, RowsSound, LockSound, Room, impl, rows, lock
<1> QED
  BY <1>1, <1>2, <1>3, <1>4, <1>5, <1>6, <1>7, <1>8, <1>9, <1>10 DEF Next

(* The invariant implies the types that the runs check.                    *)
LEMMA SoundIsTyped == Inv => TypeOK
<1> SUFFICES ASSUME Inv PROVE TypeOK
  OBVIOUS
<1>1. ASSUME NEW c \in DOMAIN conversations PROVE ConversationSound(conversations[c])
  <2>1. conversations[c] \in Conversation
    BY LenProperties DEF Inv, ImplSound
  <2>2. Len(conversations[c].script) \in Nat
    BY <2>1, ScriptsAssumption, LenProperties DEF Conversation
  <2> QED
    BY <2>1, <2>2 DEF Conversation, ConversationSound, Workers
<1>2. Elements(futures) \subseteq Futures /\ Elements(prompts) \cup Elements(leftovers) \subseteq Row
  BY LenProperties DEF Inv, ImplSound, RowsSound, Elements
<1>3. ASSUME NEW e \in Elements(events)
      PROVE  /\ e.kind \in MessageStyles \cup {"finished"}
             /\ e.of[1] \in DOMAIN conversations
             /\ e.of[2] <= conversations[e.of[1]].said
             /\ e.kind = "finished" => e.of[1] = watched
  <2>1. e \in Event /\ IsPosted(e, conversations, watched)
    BY LenProperties DEF Inv, ImplSound, Posted, Elements
  <2> QED
    BY <2>1 DEF Event, IsPosted
<1> QED
  BY <1>1, <1>2, <1>3 DEF Inv, ImplSound, RowsSound, LockSound, Room, TypeOK

(* The greeter's variables keep their types, whatever PAM says and however *)
(* conversations are started, cancelled and outlived                       *)
(* (GreeterPrivate.cpp:62).                                                *)
THEOREM GreeterTypes == Spec => []TypeOK
<1>1. Spec => []Inv
  BY InitIsSound, StepIsSound, PTL DEF Spec
<1> QED
  BY <1>1, SoundIsTyped, PTL

(* GreeterImpl and the greeter implement Authentication:                   *)
(* isAuthenticated() is only ever true of the user asked about last, who   *)
(* has typed the secret since or needs none, through cancelled and stale   *)
(* conversations, reused handles, failing starts and quitting              *)
(* (GreeterPrivate.cpp:235).                                               *)
THEOREM PromiseIsKept == Spec => PromiseKept
<1>1. Inv /\ [Next]_vars => Inv' /\ [Promise!Next]_(Promise!vars)
  BY StepIsSound DEF Keeps
<1>2. Init => Inv /\ Promise!Init
  BY InitIsSound
<1> QED
  BY <1>1, <1>2, PTL DEF Spec, PromiseKept, Promise!Spec

-----------------------------------------------------------------------------
(* What PAM waits for.  While no handle is reused, a handle tells its      *)
(* conversation; what a task waits for on a prompt that is not handled or  *)
(* is queued has not been answered yet, and what it has not said neither;  *)
(* and a task that ends by itself leaves no prompt without an answer.      *)

\* Prompt k of conversation v has no answer.
Asked(v, k) == k \in PromptsOf(v.script) /\ v.answers[k] = Unanswered

Waits(v) ==
  /\ \A k \in PromptsOf(v.script) : k > v.said => v.answers[k] = Unanswered
  /\ v.worker = "done" /\ ~v.canceled =>
       \A k \in PromptsOf(v.script) : v.answers[k] # Unanswered

OwnHandles(cs) == \A c \in DOMAIN cs : cs[c].handle = c /\ Waits(cs[c])

IsAsked(e, cs) ==
  e.kind = "prompt" =>
    e.of[2] = cs[e.of[1]].said /\ Asked(cs[e.of[1]], cs[e.of[1]].said)

PromptsPosted(es, cs) == \A i \in DOMAIN es : IsAsked(es[i], cs)

Queued(fs, cs, p) ==
  /\ p = None => fs = <<>>
  /\ \A i \in DOMAIN fs :
       /\ fs[i][1] = p /\ fs[i][2] <= cs[p].said /\ Asked(cs[p], fs[i][2])
       /\ cs[p].worker = "blocked" => fs[i][2] # cs[p].said

Talk(cs, es, fs, p) == OwnHandles(cs) /\ PromptsPosted(es, cs) /\ Queued(fs, cs, p)

(* The rows are of the user asked about, one for each queued prompt until  *)
(* the user responds.                                                      *)
OfUser(ps, u) == \A i \in DOMAIN ps : ps[i].of = u
NoPrompt(ps) == PromptRows(ps) = {}

Shown(ps, left, u) == OfUser(ps, u) /\ OfUser(left, u) /\ NoPrompt(left)

OneForOne(ps, fs, p, answered) ==
  IF answered THEN fs = <<>> ELSE p # None => Cardinality(PromptRows(ps)) = Len(fs)

LetsAnswer ==
  view = "loaded" /\ ~authenticated /\ ~forcedUnlock /\ ~responded => interactive

Screen ==
  /\ Shown(prompts, leftovers, authenticationUser)
  /\ OneForOne(prompts, futures, pam, responded)
  /\ LetsAnswer

AskInv == Talk(conversations, events, futures, pam) /\ Screen

(* ds is cs when the prompts in G have been answered.                      *)
Tells(cs, ds, G) ==
  /\ DOMAIN ds = DOMAIN cs
  /\ \A c \in DOMAIN cs :
       /\ ds[c].handle = cs[c].handle /\ ds[c].script = cs[c].script
       /\ ds[c].said = cs[c].said /\ ds[c].worker = cs[c].worker
       /\ cs[c].canceled => ds[c].canceled
       /\ \A k \in PromptsOf(cs[c].script) :
            IF <<c, k>> \in G THEN ds[c].answers[k] # Unanswered
                              ELSE ds[c].answers[k] = cs[c].answers[k]

(* The prompts of a conversation have places for answers.                  *)
LEMMA PromptsHavePlaces ==
  ASSUME NEW v \in Conversation
  PROVE  /\ v.said \in Nat /\ v.script \in Seq(MessageStyles) /\ Len(v.script) \in Nat
         /\ DOMAIN v.answers = 1 .. Len(v.script)
         /\ PromptsOf(v.script) \subseteq DOMAIN v.answers
BY ScriptsAssumption, LenProperties DEF Conversation, PromptsOf

(* Answered() answers the prompts it is given responses for, and no other. *)
LEMMA AnsweredTells ==
  ASSUME NEW cs \in Seq(Conversation), NEW fs, NEW rs,
         \A i \in DOMAIN fs \cap DOMAIN rs : rs[i] \in Responses
  PROVE  Tells(cs, Answered(cs, fs, rs), {fs[i] : i \in DOMAIN fs \cap DOMAIN rs})
<1> DEFINE Given(c, k) == {i \in DOMAIN fs \cap DOMAIN rs : fs[i] = <<c, k>>}
           New(c) == [k \in DOMAIN cs[c].answers |->
                       IF Given(c, k) # {} THEN rs[CHOOSE i \in Given(c, k) : TRUE]
                                           ELSE cs[c].answers[k]]
           ds == [c \in DOMAIN cs |-> [cs[c] EXCEPT !.answers = New(c)]]
           G == {fs[i] : i \in DOMAIN fs \cap DOMAIN rs}
<1>1. Answered(cs, fs, rs) = ds
  BY DEF Answered
<1>2. ASSUME NEW c \in DOMAIN cs, NEW k \in PromptsOf(cs[c].script)
      PROVE  IF <<c, k>> \in G THEN New(c)[k] # Unanswered ELSE New(c)[k] = cs[c].answers[k]
  <2>1. cs[c] \in Conversation
    BY LenProperties
  <2>2. k \in DOMAIN cs[c].answers
    BY <2>1, PromptsHavePlaces
  <2>3. New(c)[k] = IF Given(c, k) # {} THEN rs[CHOOSE i \in Given(c, k) : TRUE]
                                        ELSE cs[c].answers[k]
    BY <2>2
  <2>4. <<c, k>> \in G <=> Given(c, k) # {}
    OBVIOUS
  <2>5. ASSUME Given(c, k) # {} PROVE New(c)[k] # Unanswered
    <3>1. (CHOOSE i \in Given(c, k) : TRUE) \in Given(c, k)
      BY <2>5
    <3> QED
      BY <2>3, <2>5, <3>1, ResponsesAssumption
  <2> HIDE DEF New, Given, G
  <2> QED
    BY <2>3, <2>4, <2>5
<1> HIDE DEF New, G
<1>3. ASSUME NEW c \in DOMAIN cs
      PROVE  /\ ds[c].handle = cs[c].handle /\ ds[c].script = cs[c].script
             /\ ds[c].said = cs[c].said /\ ds[c].worker = cs[c].worker
             /\ ds[c].canceled = cs[c].canceled
             /\ ds[c].answers = New(c)
  <2>1. cs[c] \in Conversation
    BY LenProperties
  <2>2. ds[c] = [cs[c] EXCEPT !.answers = New(c)]
    OBVIOUS
  <2> HIDE DEF ds
  <2> QED
    BY <2>1, <2>2 DEF Conversation
<1>4. DOMAIN ds = DOMAIN cs
  OBVIOUS
<1> HIDE DEF ds
<1>5. Tells(cs, ds, G)
  BY <1>2, <1>3, <1>4 DEF Tells
<1> QED
  BY <1>1, <1>5 DEF G

(* cancelPam() answers what is queued.                                     *)
LEMMA CancelledTells ==
  ASSUME NEW cs \in Seq(Conversation), NEW c \in {None} \cup DOMAIN cs, NEW fs
  PROVE  Tells(cs, Cancelled(cs, c, fs), {fs[i] : i \in IF c = None THEN {} ELSE DOMAIN fs})
<1>1. CASE c = None
  BY <1>1 DEF Cancelled, Tells
<1>2. CASE c # None
  <2> DEFINE rs == [i \in DOMAIN fs |-> NoSecret]
             ds == Answered(cs, fs, rs)
             es == [ds EXCEPT ![c].canceled = TRUE]
             G == {fs[i] : i \in DOMAIN fs \cap DOMAIN rs}
  <2>1. Cancelled(cs, c, fs) = es
    BY <1>2 DEF Cancelled
  <2>2. G = {fs[i] : i \in DOMAIN fs}
    OBVIOUS
  <2>3. \A i \in DOMAIN fs \cap DOMAIN rs : rs[i] \in Responses
    BY DEF Responses
  <2> HIDE DEF rs, G
  <2>4. Tells(cs, ds, G) /\ ds \in Seq(Conversation)
    BY <2>3, AnsweredTells, AnsweredDoes DEF G, Continues
  <2> HIDE DEF ds
  <2>5. /\ DOMAIN ds = DOMAIN cs /\ \A d \in DOMAIN ds : ds[d] \in Conversation
    BY <2>4, LenProperties DEF Tells
  <2>6. ASSUME NEW d \in DOMAIN cs
        PROVE  /\ es[d].handle = ds[d].handle /\ es[d].script = ds[d].script
               /\ es[d].said = ds[d].said /\ es[d].worker = ds[d].worker
               /\ es[d].answers = ds[d].answers /\ (ds[d].canceled => es[d].canceled)
    <3>1. ds[d] \in Conversation /\ es[d] = IF d = c THEN [ds[d] EXCEPT !.canceled = TRUE] ELSE ds[d]
      BY <2>5
    <3> HIDE DEF es
    <3> QED
      BY <3>1 DEF Conversation
  <2>7. DOMAIN es = DOMAIN ds
    OBVIOUS
  <2> HIDE DEF es
  <2>8. Tells(cs, es, G)
    BY <2>4, <2>5, <2>6, <2>7 DEF Tells
  <2> QED
    BY <1>2, <2>1, <2>2, <2>8
<1> QED
  BY <1>1, <1>2

(* Answers to the queued prompts break no wait: what is on its way to the  *)
(* main thread is not queued yet.                                          *)
LEMMA TellsTalk ==
  ASSUME NEW cs \in Seq(Conversation), NEW es, NEW w, NEW fs, NEW p,
         Posted(es, cs, w), Talk(cs, es, fs, p),
         NEW ds, NEW G, Tells(cs, ds, G), \A g \in G : \E i \in DOMAIN fs : g = fs[i]
  PROVE  OwnHandles(ds) /\ PromptsPosted(es, ds)
<1>1. \A c \in DOMAIN cs : cs[c] \in Conversation
  BY LenProperties
<1>2. ASSUME NEW c \in DOMAIN cs, NEW k, <<c, k>> \in G
      PROVE  /\ k <= cs[c].said /\ Asked(cs[c], k)
             /\ cs[c].worker = "blocked" => k # cs[c].said
  <2>1. PICK i \in DOMAIN fs : <<c, k>> = fs[i]
    BY <1>2
  <2>2. fs[i][1] = c /\ fs[i][2] = k
    BY <2>1
  <2>3. /\ fs[i][1] = p /\ fs[i][2] <= cs[p].said /\ Asked(cs[p], fs[i][2])
        /\ cs[p].worker = "blocked" => fs[i][2] # cs[p].said
    BY DEF Talk, Queued
  <2> QED
    BY <2>2, <2>3
<1>3. ASSUME NEW c \in DOMAIN ds PROVE ds[c].handle = c /\ Waits(ds[c])
  <2>1. /\ c \in DOMAIN cs /\ cs[c] \in Conversation /\ cs[c].handle = c /\ Waits(cs[c])
    BY <1>1 DEF Tells, Talk, OwnHandles
  <2>2. /\ ds[c].handle = c /\ ds[c].script = cs[c].script /\ ds[c].said = cs[c].said
        /\ ds[c].worker = cs[c].worker /\ (cs[c].canceled => ds[c].canceled)
    BY <2>1 DEF Tells
  <2>3. ASSUME NEW k \in PromptsOf(cs[c].script)
        PROVE  IF <<c, k>> \in G THEN ds[c].answers[k] # Unanswered
                                 ELSE ds[c].answers[k] = cs[c].answers[k]
    BY <2>1 DEF Tells
  <2>4. ASSUME NEW k \in PromptsOf(cs[c].script), k > cs[c].said
        PROVE  ds[c].answers[k] = Unanswered
    <3>1. k \in Nat /\ cs[c].said \in Nat
      <4>1. /\ cs[c].said \in Nat /\ Len(cs[c].script) \in Nat
            /\ k \in 1 .. Len(cs[c].script)
        BY <2>1, PromptsHavePlaces
      <4> QED
        BY <4>1
    <3>2. <<c, k>> \notin G
      BY <1>2, <2>1, <2>4, <3>1
    <3> QED
      BY <2>1, <2>3, <2>4, <3>2 DEF Waits
  <2>5. ASSUME cs[c].worker = "done", ~ds[c].canceled, NEW k \in PromptsOf(cs[c].script)
        PROVE  ds[c].answers[k] # Unanswered
    BY <2>1, <2>2, <2>3, <2>5 DEF Waits
  <2> QED
    BY <2>2, <2>4, <2>5 DEF Waits
<1>4. ASSUME NEW i \in DOMAIN es PROVE IsAsked(es[i], ds)
  <2> DEFINE c == es[i].of[1]
  <2> SUFFICES ASSUME es[i].kind = "prompt"
               PROVE  es[i].of[2] = ds[c].said /\ Asked(ds[c], ds[c].said)
    BY DEF IsAsked
  <2>1. /\ c \in DOMAIN cs /\ cs[c].worker = "blocked"
        /\ es[i].of[2] = cs[c].said /\ Asked(cs[c], cs[c].said)
    BY DEF Posted, IsPosted, Talk, PromptsPosted, IsAsked
  <2> HIDE DEF c
  <2>2. <<c, cs[c].said>> \notin G
    BY <1>2, <2>1
  <2>3. ds[c].said = cs[c].said /\ ds[c].script = cs[c].script
    BY <2>1 DEF Tells
  <2>4. ds[c].answers[cs[c].said] = cs[c].answers[cs[c].said]
    BY <2>1, <2>2 DEF Tells, Asked
  <2> QED
    BY <2>1, <2>3, <2>4 DEF Asked
<1> QED
  BY <1>3, <1>4 DEF OwnHandles, PromptsPosted

(* Nothing is queued.                                                      *)
LEMMA QueuedNothing ==
  ASSUME NEW cs, NEW p
  PROVE  Queued(<<>>, cs, p)
BY DEF Queued

(* Events that are some of those posted.                                   *)
LEMMA PromptsPostedPart ==
  ASSUME NEW cs, NEW es, PromptsPosted(es, cs),
         NEW ts, \A i \in DOMAIN ts : \E j \in DOMAIN es : ts[i] = es[j]
  PROVE  PromptsPosted(ts, cs)
BY DEF PromptsPosted

LEMMA PromptsPostedTail ==
  ASSUME NEW cs, NEW w, NEW es, Posted(es, cs, w), PromptsPosted(es, cs), es # <<>>
  PROVE  PromptsPosted(Tail(es), cs) /\ IsAsked(Head(es), cs)
<1>1. /\ es \in Seq(Event) /\ Len(es) \in Nat \ {0} /\ DOMAIN es = 1 .. Len(es)
  BY LenProperties, EmptySeq DEF Posted
<1>2. /\ DOMAIN Tail(es) = 1 .. Len(es) - 1
      /\ \A i \in 1 .. Len(es) - 1 : Tail(es)[i] = es[i + 1]
      /\ Head(es) = es[1]
  BY <1>1, HeadTailProperties, LenProperties
<1>3. \A i \in DOMAIN Tail(es) : i + 1 \in DOMAIN es /\ Tail(es)[i] = es[i + 1]
  BY <1>1, <1>2
<1>4. PromptsPosted(Tail(es), cs)
  BY <1>3, PromptsPostedPart
<1>5. 1 \in DOMAIN es
  BY <1>1
<1> QED
  BY <1>2, <1>4, <1>5 DEF PromptsPosted

LEMMA PromptsPostedWithoutFinished ==
  ASSUME NEW cs, NEW w, NEW es, Posted(es, cs, w), PromptsPosted(es, cs)
  PROVE  PromptsPosted(WithoutFinished(es), cs)
<1>1. /\ es \in Seq(Event) /\ Len(es) \in Nat /\ DOMAIN es = 1 .. Len(es)
  BY LenProperties DEF Posted
<1>2. CASE \A i \in DOMAIN es : es[i].kind # "finished"
  BY <1>2 DEF WithoutFinished
<1>3. CASE \E i \in DOMAIN es : es[i].kind = "finished"
  <2> DEFINE n == CHOOSE i \in DOMAIN es : es[i].kind = "finished"
             t == SubSeq(es, 1, n - 1) \o SubSeq(es, n + 1, Len(es))
  <2>1. n \in 1 .. Len(es) /\ WithoutFinished(es) = t
    BY <1>1, <1>3 DEF WithoutFinished
  <2> HIDE DEF n
  <2>2. /\ t \in Seq(Event) /\ Len(t) = Len(es) - 1
        /\ \A i \in 1 .. Len(es) - 1 : t[i] = IF i < n THEN es[i] ELSE es[i + 1]
    BY <1>1, <2>1, WithoutOne
  <2> HIDE DEF t
  <2>3. ASSUME NEW i \in DOMAIN t PROVE \E j \in DOMAIN es : t[i] = es[j]
    <3>1. i \in 1 .. Len(es) - 1
      BY <2>2, LenProperties
    <3>2. i \in DOMAIN es /\ i + 1 \in DOMAIN es
      BY <1>1, <3>1
    <3> QED
      BY <2>2, <3>1, <3>2
  <2> QED
    BY <2>1, <2>3, PromptsPostedPart
<1> QED
  BY <1>2, <1>3

LEMMA PromptsPostedAppend ==
  ASSUME NEW cs, NEW es \in Seq(Event), PromptsPosted(es, cs), NEW e \in Event, IsAsked(e, cs)
  PROVE  PromptsPosted(Append(es, e), cs)
<1>1. /\ Len(es) \in Nat /\ DOMAIN es = 1 .. Len(es) /\ DOMAIN Append(es, e) = 1 .. Len(es) + 1
      /\ \A i \in 1 .. Len(es) : Append(es, e)[i] = es[i]
      /\ Append(es, e)[Len(es) + 1] = e
  BY AppendProperties, LenProperties
<1> QED
  BY <1>1 DEF PromptsPosted

(* Rows put under rows.                                                    *)
LEMMA RowsJoined ==
  ASSUME NEW a \in Seq(Row), NEW b \in Seq(Row)
  PROVE  /\ NoPrompt(a) /\ NoPrompt(b) => NoPrompt(a \o b)
         /\ \A u : OfUser(a, u) /\ OfUser(b, u) => OfUser(a \o b, u)
<1>1. /\ Len(a) \in Nat /\ DOMAIN a = 1 .. Len(a) /\ Len(b) \in Nat /\ DOMAIN b = 1 .. Len(b)
      /\ a \o b \in Seq(Row) /\ Len(a \o b) = Len(a) + Len(b)
      /\ \A i \in 1 .. Len(a) + Len(b) : (a \o b)[i] = IF i <= Len(a) THEN a[i] ELSE b[i - Len(a)]
  BY ConcatProperties, LenProperties
<1>2. ASSUME NEW i \in DOMAIN (a \o b)
      PROVE  \/ i \in DOMAIN a /\ (a \o b)[i] = a[i]
             \/ i - Len(a) \in DOMAIN b /\ (a \o b)[i] = b[i - Len(a)]
  <2>1. i \in 1 .. Len(a) + Len(b)
    BY <1>1, LenProperties
  <2> QED
    BY <1>1, <2>1
<1> QED
  BY <1>2 DEF NoPrompt, PromptRows, OfUser

LEMMA RowAppended ==
  ASSUME NEW ps \in Seq(Row), NEW row \in Row
  PROVE  /\ Append(ps, row) \in Seq(Row)
         /\ \A u : OfUser(ps, u) /\ row.of = u => OfUser(Append(ps, row), u)
         /\ row.kind # "prompt" => PromptRows(Append(ps, row)) = PromptRows(ps)
         /\ row.kind = "prompt" =>
              Cardinality(PromptRows(Append(ps, row))) = Cardinality(PromptRows(ps)) + 1
         /\ Cardinality(PromptRows(ps)) \in Nat
<1> DEFINE qs == Append(ps, row)
<1>1. /\ qs \in Seq(Row) /\ Len(ps) \in Nat /\ DOMAIN ps = 1 .. Len(ps)
      /\ DOMAIN qs = 1 .. Len(ps) + 1 /\ qs[Len(ps) + 1] = row
      /\ \A i \in 1 .. Len(ps) : qs[i] = ps[i]
  BY AppendProperties, LenProperties
<1> HIDE DEF qs
<1>2. \A u : OfUser(ps, u) /\ row.of = u => OfUser(qs, u)
  BY <1>1 DEF OfUser
<1>3. row.kind # "prompt" => PromptRows(qs) = PromptRows(ps)
  BY <1>1 DEF PromptRows
<1>4. row.kind = "prompt" => PromptRows(qs) = PromptRows(ps) \cup {Len(ps) + 1}
  BY <1>1 DEF PromptRows
<1>5. Len(ps) + 1 \notin PromptRows(ps) /\ PromptRows(ps) \subseteq 1 .. Len(ps)
  BY <1>1 DEF PromptRows
<1>6. IsFiniteSet(PromptRows(ps))
  <2>1. IsFiniteSet(1 .. Len(ps))
    BY <1>1, FS_Interval
  <2> QED
    BY <1>5, <2>1, FS_Subset
<1>7. Cardinality(PromptRows(ps) \cup {Len(ps) + 1}) = Cardinality(PromptRows(ps)) + 1
  BY <1>5, <1>6, FS_AddElement
<1>8. Cardinality(PromptRows(ps)) \in Nat
  BY <1>6, FS_CardinalityType
<1> QED
  BY <1>1, <1>2, <1>3, <1>4, <1>7, <1>8 DEF qs

(* start() begins a conversation that has asked nothing, or fails and      *)
(* shows why.                                                              *)
LEMMA StartPamTalks ==
  ASSUME "reuse" \notin Environment, NEW u \in Users, NEW cs \in Seq(Conversation),
         Len(cs) < MaxConversations, OwnHandles(cs),
         NEW es, Posted(es, cs, watched), PromptsPosted(es, cs),
         NEW ps \in Seq(Row), OfUser(ps, u), NoPrompt(ps), StartPam(u, cs, es, ps)
  PROVE  /\ OwnHandles(conversations') /\ PromptsPosted(events', conversations')
         /\ OfUser(prompts', u)
         /\ pam' # None => NoPrompt(prompts')
<1>1. CASE /\ \E h \in Handles(cs), script \in Scripts :
                conversations' = Append(cs, NewConversation(u, h, script))
           /\ pam' = Len(cs) + 1 /\ watched' = Len(cs) + 1
           /\ events' = WithoutFinished(es) /\ prompts' = ps
  <2>1. PICK h \in Handles(cs), script \in Scripts :
               conversations' = Append(cs, NewConversation(u, h, script))
    BY <1>1
  <2>2. h = Len(cs) + 1 /\ Len(cs) \in Nat /\ h \in 1 .. MaxConversations
    <3>1. h = Len(cs) + 1
      BY DEF Handles
    <3> QED
      BY <3>1, LenProperties, BoundsAssumption
  <2> DEFINE v == NewConversation(u, h, script)
  <2>3. /\ v \in Conversation /\ v.handle = h /\ v.worker = "queued"
        /\ v.script = script /\ \A k \in PromptsOf(script) : v.answers[k] = Unanswered
    BY <2>2, NewConversationIsOne DEF NewConversation, PromptsOf
  <2>4. Waits(v)
    BY <2>3 DEF Waits
  <2> HIDE DEF v
  <2>5. /\ conversations' \in Seq(Conversation)
        /\ \A c \in 1 .. Len(cs) : conversations'[c] = cs[c]
        /\ conversations'[Len(cs) + 1] = v
        /\ DOMAIN conversations' = 1 .. Len(cs) + 1 /\ DOMAIN cs = 1 .. Len(cs)
    BY <2>1, <2>3, AppendProperties, LenProperties DEF v
  <2>6. OwnHandles(conversations')
    <3>1. ASSUME NEW c \in DOMAIN conversations'
          PROVE  conversations'[c].handle = c /\ Waits(conversations'[c])
      <4>1. CASE c = Len(cs) + 1
        BY <2>2, <2>3, <2>4, <2>5, <4>1
      <4>2. CASE c \in DOMAIN cs
        BY <2>5, <4>2 DEF OwnHandles
      <4> QED
        BY <2>2, <2>5, <4>1, <4>2
    <3> QED
      BY <3>1 DEF OwnHandles
  <2>7. PromptsPosted(es, conversations')
    <3>1. \A i \in DOMAIN es : es[i].of[1] \in DOMAIN cs
      BY DEF Posted, IsPosted
    <3>2. \A i \in DOMAIN es : conversations'[es[i].of[1]] = cs[es[i].of[1]]
      BY <2>5, <3>1
    <3> QED
      BY <3>2 DEF PromptsPosted, IsAsked
  <2>8. Posted(es, conversations', watched)
    <3>1. \A c \in 1 .. Len(cs) : GoesOn(cs[c], cs[c]) /\ cs[c] \in Conversation
      BY LenProperties DEF GoesOn, Conversation
    <3>2. Continues(cs, conversations')
      BY <2>2, <2>5, <3>1, LenProperties DEF Continues
    <3> QED
      BY <3>2, PostedContinues
  <2>9. PromptsPosted(events', conversations')
    BY <1>1, <2>7, <2>8, PromptsPostedWithoutFinished
  <2> QED
    BY <1>1, <2>6, <2>9
<1>2. CASE /\ conversations' = cs /\ pam' = None /\ UNCHANGED watched
           /\ events' = es /\ prompts' = ps \o <<Message(u), Button(u)>>
  <2> DEFINE more == <<Message(u), Button(u)>>
  <2>1. more \in Seq(Row) /\ OfUser(more, u)
    BY RowsOfUsers DEF OfUser, Message, Button
  <2> HIDE DEF more
  <2>2. OfUser(ps \o more, u)
    BY <2>1, RowsJoined
  <2> QED
    BY <1>2, <2>2 DEF more
<1> QED
  BY <1>1, <1>2 DEF StartPam

(* authenticate(): the rows are those of the user, none of them a prompt,  *)
(* and nothing is queued.                                                  *)
LEMMA AuthenticateTalks ==
  ASSUME "reuse" \notin Environment, ImplSound, Len(conversations) < MaxConversations,
         Talk(conversations, events, futures, pam),
         NEW u \in Users, NEW c \in {None, pam}, c = None => futures = <<>>,
         NEW es, Posted(es, conversations, watched), PromptsPosted(es, conversations),
         NEW left \in Seq(Row), OfUser(left, authenticationUser), NoPrompt(left),
         NEW above \in Seq(Row), OfUser(above, u), NoPrompt(above),
         Authenticate(u, c, es, left, above)
  PROVE  AskInv'
<1> DEFINE cs == Cancelled(conversations, c, futures)
           G == {futures[i] : i \in IF c = None THEN {} ELSE DOMAIN futures}
           ps == above \o KeptRows(u, left)
<1>1. Continues(conversations, cs) /\ Len(cs) = Len(conversations) /\ Tells(conversations, cs, G)
  BY CancelledDoes, CancelledTells DEF ImplSound
<1>2. cs \in Seq(Conversation) /\ DOMAIN cs = DOMAIN conversations
  BY <1>1, LenProperties DEF Continues, ImplSound
<1>3. Posted(es, cs, watched)
  BY <1>1, PostedContinues DEF ImplSound
<1>4. \A g \in G : \E i \in DOMAIN futures : g = futures[i]
  OBVIOUS
<1>5. ps \in Seq(Row) /\ OfUser(ps, u) /\ NoPrompt(ps)
  <2>1. KeptRows(u, left) \in Seq(Row) /\ OfUser(KeptRows(u, left), u) /\ NoPrompt(KeptRows(u, left))
    BY EmptySeq DEF KeptRows, OfUser, NoPrompt, PromptRows
  <2> QED
    BY <2>1, ConcatProperties, RowsJoined
<1>6. /\ StartPam(u, cs, es, ps) /\ futures' = CancelledFutures(c, futures)
      /\ authenticationUser' = u /\ authenticated' = FALSE /\ leftovers' = <<>>
      /\ responded' = FALSE /\ interactive' = TRUE
  BY DEF Authenticate
<1> HIDE DEF cs, ps, G
<1>7. OwnHandles(cs) /\ PromptsPosted(es, cs)
  <2>1. Talk(conversations, es, futures, pam)
    BY DEF Talk
  <2> QED
    BY <1>1, <1>4, <2>1, TellsTalk DEF ImplSound
<1>8. /\ OwnHandles(conversations') /\ PromptsPosted(events', conversations')
      /\ OfUser(prompts', u)
      /\ pam' # None => NoPrompt(prompts')
  <2>1. Len(cs) < MaxConversations
    BY <1>1
  <2> QED
    BY <1>2, <1>3, <1>5, <1>6, <1>7, <2>1, StartPamTalks
<1>9. futures' = <<>>
  BY <1>6 DEF CancelledFutures
<1>10. Talk(conversations', events', futures', pam')
  BY <1>8, <1>9, QueuedNothing DEF Talk
<1>11. Shown(prompts', leftovers', authenticationUser')
  BY <1>6, <1>8 DEF Shown, OfUser, NoPrompt, PromptRows
<1>12. OneForOne(prompts', futures', pam', responded')
  <2>1. Cardinality({}) = 0 /\ Len(<<>>) = 0
    BY FS_EmptySet, EmptySeq
  <2> QED
    BY <1>6, <1>8, <1>9, <2>1 DEF OneForOne, NoPrompt
<1>13. LetsAnswer'
  BY <1>6 DEF LetsAnswer
<1> QED
  BY <1>10, <1>11, <1>12, <1>13 DEF AskInv, Screen

(* A task that is not blocked goes on as w, and says no prompt twice.      *)
LEMMA OneTalks ==
  ASSUME ImplSound, Talk(conversations, events, futures, pam),
         NEW c \in DOMAIN conversations, conversations[c].worker # "blocked",
         NEW w \in Conversation, GoesOn(conversations[c], w),
         w.answers = conversations[c].answers, Waits(w),
         w.worker = "blocked" => w.said > conversations[c].said,
         NEW ds, ds = [conversations EXCEPT ![c] = w]
  PROVE  /\ Talk(ds, events, futures, pam) /\ ds \in Seq(Conversation)
         /\ DOMAIN ds = DOMAIN conversations /\ ds[c] = w
<1> DEFINE v == conversations[c]
<1>1. /\ \A d \in DOMAIN conversations : conversations[d] \in Conversation
      /\ ds \in Seq(Conversation) /\ DOMAIN ds = DOMAIN conversations
      /\ \A d \in DOMAIN conversations : ds[d] = IF d = c THEN w ELSE conversations[d]
  BY ExceptSeq, LenProperties DEF ImplSound
<1>2. OwnHandles(ds)
  <2>1. ASSUME NEW d \in DOMAIN ds PROVE ds[d].handle = d /\ Waits(ds[d])
    <3>1. conversations[d].handle = d /\ Waits(conversations[d])
      BY <1>1 DEF Talk, OwnHandles
    <3>2. CASE d = c
      BY <1>1, <3>1, <3>2 DEF GoesOn
    <3>3. CASE d # c
      BY <1>1, <3>1, <3>3
    <3> QED
      BY <3>2, <3>3
  <2> QED
    BY <2>1 DEF OwnHandles
<1>3. PromptsPosted(events, ds)
  <2>1. ASSUME NEW i \in DOMAIN events PROVE IsAsked(events[i], ds)
    <3>1. IsAsked(events[i], conversations) /\ IsPosted(events[i], conversations, watched)
      BY DEF Talk, PromptsPosted, ImplSound, Posted
    <3>2. events[i].kind = "prompt" =>
            events[i].of[1] \in DOMAIN conversations /\ events[i].of[1] # c
      BY <3>1 DEF IsPosted
    <3> QED
      BY <1>1, <3>1, <3>2 DEF IsAsked
  <2> QED
    BY <2>1 DEF PromptsPosted
<1>4. Queued(futures, ds, pam)
  <2>1. ASSUME NEW i \in DOMAIN futures
        PROVE  /\ futures[i][1] = pam /\ futures[i][2] <= ds[pam].said
               /\ Asked(ds[pam], futures[i][2])
               /\ ds[pam].worker = "blocked" => futures[i][2] # ds[pam].said
    <3>1. /\ futures[i][1] = pam /\ futures[i][2] <= conversations[pam].said
          /\ Asked(conversations[pam], futures[i][2])
          /\ conversations[pam].worker = "blocked" => futures[i][2] # conversations[pam].said
      BY DEF Talk, Queued
    <3>2. pam # None
      BY DEF Talk, Queued
    <3>3. futures[i] \in Futures
      BY LenProperties DEF ImplSound
    <3>4. pam \in DOMAIN conversations /\ futures[i][2] \in Nat
      BY <3>2, <3>3 DEF ImplSound, Futures
    <3>5. CASE pam = c
      <4>1. ds[pam] = w /\ v.said \in Nat /\ w.said \in Nat /\ w.said >= v.said
        BY <1>1, <3>4, <3>5, PromptsHavePlaces DEF GoesOn
      <4>2. w.script = v.script
        BY DEF GoesOn
      <4>3. futures[i][2] <= w.said /\ (w.worker = "blocked" => futures[i][2] # w.said)
        BY <3>1, <3>4, <3>5, <4>1
      <4>4. Asked(w, futures[i][2])
        BY <3>1, <3>5, <4>2 DEF Asked
      <4> QED
        BY <3>1, <4>1, <4>3, <4>4
    <3>6. CASE pam # c
      BY <1>1, <3>1, <3>4, <3>6
    <3> QED
      BY <3>5, <3>6
  <2> QED
    BY <2>1 DEF Queued, Talk
<1> QED
  BY <1>1, <1>2, <1>3, <1>4 DEF Talk

(* A task that ends asks nothing.                                          *)
LEMMA PostFinishedTalks ==
  ASSUME ImplSound, Len(conversations) <= MaxConversations, NEW c \in DOMAIN conversations,
         NEW ds, Talk(ds, events, futures, pam), PostFinished(c)
  PROVE  Talk(ds, events', futures, pam)
<1>1. CASE watched # c
  BY <1>1 DEF PostFinished
<1>2. CASE watched = c
  <2> DEFINE e == [kind |-> "finished", of |-> <<c, 0>>]
  <2>1. events' = Append(events, e)
    BY <1>2 DEF PostFinished, Post
  <2>2. c \in 1 .. MaxConversations
    BY LenProperties, BoundsAssumption DEF ImplSound
  <2>3. e \in Event /\ IsAsked(e, ds)
    BY <2>2 DEF Event, IsAsked
  <2> HIDE DEF e
  <2> QED
    BY <2>1, <2>3, PromptsPostedAppend DEF Talk, ImplSound, Posted
<1> QED
  BY <1>1, <1>2

LEMMA WorkerTalks ==
  ASSUME Inv, AskInv, NEW c, Worker(c)
  PROVE  Talk(conversations', events', futures', pam')
<1> DEFINE v == conversations[c]
<1>1. /\ c \in DOMAIN conversations /\ futures' = futures /\ pam' = pam
      /\ ImplSound /\ Len(conversations) <= MaxConversations
      /\ Talk(conversations, events, futures, pam)
  BY DEF Worker, Inv, Room, AskInv
<1>2. v \in Conversation /\ Waits(v) /\ GoesOn(v, v)
  BY <1>1, LenProperties DEF ImplSound, Talk, OwnHandles, GoesOn, Conversation
<1>3. CASE WorkerStarts(c)
  <2>1. PICK worker \in {"running", "done"} :
          /\ conversations' = [conversations EXCEPT ![c].worker = worker]
          /\ worker = "done" => v.canceled /\ PostFinished(c)
          /\ worker = "running" => events' = events
    BY <1>3 DEF WorkerStarts
  <2> DEFINE w == [v EXCEPT !.worker = worker]
  <2>2. v.worker = "queued"
    BY <1>3 DEF WorkerStarts
  <2>3. /\ w \in Conversation /\ GoesOn(v, w) /\ w.worker = worker
        /\ w.answers = v.answers /\ w.canceled = v.canceled
    <3>1. worker \in Workers
      BY DEF Workers
    <3> QED
      BY <1>2, <2>2, <3>1, WithWorker
  <2>4. w.said = v.said /\ w.script = v.script
    BY <1>2 DEF Conversation
  <2>5. conversations' = [conversations EXCEPT ![c] = w]
    BY <2>1
  <2> HIDE DEF w
  <2>6. Waits(w)
    BY <1>2, <2>1, <2>3, <2>4 DEF Waits
  <2>7. Talk(conversations', events, futures, pam)
    <3>1. v.worker # "blocked" /\ w.worker # "blocked"
      BY <2>1, <2>2, <2>3
    <3> QED
      BY <1>1, <2>3, <2>5, <2>6, <3>1, OneTalks
  <2>8. Talk(conversations', events', futures, pam)
    <3>1. CASE worker = "done"
      BY <1>1, <2>1, <2>7, <3>1, PostFinishedTalks
    <3>2. CASE worker = "running"
      BY <2>1, <2>7, <3>2
    <3> QED
      BY <3>1, <3>2
  <2> QED
    BY <1>1, <2>8
<1>4. CASE WorkerSays(c)
  <2> DEFINE k == v.said + 1
             worker == IF k \in PromptsOf(v.script) THEN "blocked" ELSE "running"
             w == [v EXCEPT !.said = k, !.worker = worker]
             e == [kind |-> v.script[k], of |-> <<c, k>>]
  <2>1. /\ v.worker = "running" /\ k <= Len(v.script)
        /\ conversations' = [conversations EXCEPT ![c] = w] /\ events' = Append(events, e)
    BY <1>4 DEF WorkerSays, Post
  <2>2. /\ v.said \in Nat /\ k \in Nat /\ k > v.said /\ v.script \in Seq(MessageStyles)
        /\ DOMAIN v.script = 1 .. Len(v.script) /\ Len(v.script) \in Nat
    BY <1>2, PromptsHavePlaces, LenProperties
  <2>3. k \in DOMAIN v.script /\ v.script[k] \in MessageStyles
    BY <2>1, <2>2
  <2> HIDE DEF k
  <2>4. /\ w \in Conversation /\ w.said = k /\ w.worker = worker
        /\ w.user = v.user /\ w.handle = v.handle /\ w.script = v.script
        /\ w.answers = v.answers /\ w.canceled = v.canceled
    <3>1. worker \in Workers
      BY DEF Workers
    <3> HIDE DEF worker
    <3> QED
      BY <1>2, <2>1, <2>2, <3>1 DEF Conversation
  <2>5. GoesOn(v, w)
    BY <2>1, <2>2, <2>4 DEF GoesOn
  <2> HIDE DEF w
  <2>6. Waits(w)
    <3>1. w.worker # "done"
      BY <2>4
    <3>2. ASSUME NEW j \in PromptsOf(v.script), j > k PROVE j > v.said
      <4>1. PromptsOf(v.script) \subseteq 1 .. Len(v.script)
        BY <2>2 DEF PromptsOf
      <4>2. j \in Nat
        BY <2>2, <4>1
      <4> QED
        BY <2>2, <3>2, <4>2
    <3> QED
      BY <1>2, <2>4, <3>1, <3>2 DEF Waits
  <2>7. /\ Talk(conversations', events, futures, pam)
        /\ DOMAIN conversations' = DOMAIN conversations /\ conversations'[c] = w
    <3>1. v.worker # "blocked" /\ (w.worker = "blocked" => w.said > v.said)
      BY <2>1, <2>2, <2>4
    <3> QED
      BY <1>1, <2>1, <2>4, <2>5, <2>6, <3>1, OneTalks
  <2>8. e \in Event
    <3>1. c \in 1 .. MaxConversations
      BY <1>1, LenProperties, BoundsAssumption DEF ImplSound
    <3> QED
      BY <2>2, <2>3, <3>1 DEF Event
  <2>9. IsAsked(e, conversations')
    <3>1. v.script[k] = "prompt" => k \in PromptsOf(v.script) /\ v.answers[k] = Unanswered
      BY <1>2, <2>2, <2>3 DEF PromptsOf, Waits
    <3> QED
      BY <2>4, <2>7, <3>1 DEF IsAsked, Asked
  <2> HIDE DEF e
  <2> QED
    BY <1>1, <2>1, <2>7, <2>8, <2>9, PromptsPostedAppend DEF Talk, ImplSound, Posted
<1>5. CASE WorkerEnds(c)
  <2>1. PICK granted \in BOOLEAN :
          conversations' = [conversations EXCEPT ![c].worker = "done", ![c].granted = granted]
    <3>1. MayGrant(v) \in BOOLEAN
      BY DEF MayGrant
    <3> QED
      BY <1>5, <3>1 DEF WorkerEnds
  <2> DEFINE w == [v EXCEPT !.worker = "done", !.granted = granted]
  <2>2. /\ v.worker = "running" /\ PostFinished(c)
        /\ \A k \in PromptsOf(v.script) : v.answers[k] # Unanswered
    BY <1>5 DEF WorkerEnds
  <2>3. /\ w \in Conversation /\ GoesOn(v, w) /\ w.worker = "done"
        /\ w.answers = v.answers /\ w.canceled = v.canceled
    BY <1>2, <2>2, WithVerdict
  <2>4. w.said = v.said /\ w.script = v.script
    BY <1>2 DEF Conversation
  <2>5. conversations' = [conversations EXCEPT ![c] = w]
    BY <2>1
  <2> HIDE DEF w
  <2>6. Waits(w)
    BY <1>2, <2>2, <2>3, <2>4 DEF Waits
  <2>7. Talk(conversations', events, futures, pam)
    <3>1. v.worker # "blocked" /\ w.worker # "blocked"
      BY <2>2, <2>3
    <3> QED
      BY <1>1, <2>3, <2>5, <2>6, <3>1, OneTalks
  <2> QED
    BY <1>1, <2>2, <2>7, PostFinishedTalks
<1> QED
  BY <1>3, <1>4, <1>5 DEF Worker

(* A message that is not stale is of the user asked about.                 *)
LEMMA NotStale ==
  ASSUME ImplSound, Talk(conversations, events, futures, pam),
         NEW c \in DOMAIN conversations
  PROVE  /\ ~IsStale(c) => pam # None /\ c = pam /\ conversations[c].user = authenticationUser
         /\ IsStale(c) => pam = None \/ c # pam
BY DEF IsStale, ImplSound, Talk, OwnHandles, Current

(* A row that is shown goes under those that wait for a response, or takes *)
(* the place of those that have one.                                       *)
LEMMA ShowScreen ==
  ASSUME RowsSound, Screen, pam # None, futures \in Seq(Futures),
         NEW row \in Row, row.of = authenticationUser, Show(row)
  PROVE  /\ Shown(prompts', leftovers', authenticationUser) /\ responded' = FALSE
         /\ row.kind # "prompt" => Cardinality(PromptRows(prompts')) = Len(futures)
         /\ row.kind = "prompt" => Cardinality(PromptRows(prompts')) = Len(futures) + 1
         /\ view = "loaded" /\ ~authenticated /\ ~forcedUnlock => interactive'
<1> DEFINE ps == IF responded THEN <<>> ELSE prompts
<1>1. /\ prompts' = Append(ps, row) /\ interactive' = (interactive \/ responded)
      /\ responded' = FALSE /\ leftovers' = leftovers
  BY DEF Show
<1>2. ps \in Seq(Row) /\ OfUser(ps, authenticationUser)
  BY EmptySeq DEF RowsSound, Screen, Shown, OfUser
<1>3. Cardinality(PromptRows(ps)) = Len(futures)
  <2>1. CASE responded
    <3>1. ps = <<>> /\ futures = <<>>
      BY <2>1 DEF Screen, OneForOne
    <3>2. PromptRows(<<>>) = {}
      BY DEF PromptRows
    <3> QED
      BY <3>1, <3>2, FS_EmptySet, EmptySeq
  <2>2. CASE ~responded
    BY <2>2 DEF Screen, OneForOne
  <2> QED
    BY <2>1, <2>2
<1> HIDE DEF ps
<1>4. /\ OfUser(prompts', authenticationUser)
      /\ row.kind # "prompt" => PromptRows(prompts') = PromptRows(ps)
      /\ row.kind = "prompt" =>
           Cardinality(PromptRows(prompts')) = Cardinality(PromptRows(ps)) + 1
  BY <1>1, <1>2, RowAppended
<1>5. Shown(prompts', leftovers', authenticationUser)
  BY <1>1, <1>4 DEF Screen, Shown
<1>6. view = "loaded" /\ ~authenticated /\ ~forcedUnlock => interactive'
  BY <1>1 DEF Screen, LetsAnswer
<1> QED
  BY <1>1, <1>3, <1>4, <1>5, <1>6

LEMMA HandleMessageTalks ==
  ASSUME Inv, AskInv, events # <<>>, HandleMessage
  PROVE  AskInv'
<1> DEFINE c == Head(events).of[1]
           row == Message(conversations[c].user)
<1>1. /\ c \in DOMAIN conversations /\ conversations[c].user \in Users
      /\ PromptsPosted(Tail(events), conversations)
      /\ ImplSound /\ Talk(conversations, events, futures, pam) /\ Screen /\ RowsSound
  BY HeadSpeaks, PromptsPostedTail DEF Inv, ImplSound, AskInv, Talk
<1>2. /\ UNCHANGED <<conversations, pam, watched, futures, authenticationUser,
                     authenticated, typed, lock>>
      /\ events' = Tail(events)
      /\ IF IsStale(c) THEN UNCHANGED rows ELSE Show(row)
  BY DEF HandleMessage
<1> HIDE DEF c
<1>3. Talk(conversations', events', futures', pam')
  BY <1>1, <1>2 DEF Talk
<1>4. Screen'
  <2>1. CASE IsStale(c)
    BY <1>1, <1>2, <2>1 DEF Screen, LetsAnswer, rows, lock
  <2>2. CASE ~IsStale(c)
    <3>1. pam # None /\ row.of = authenticationUser /\ row \in Row /\ row.kind # "prompt"
      BY <1>1, <2>2, NotStale, RowsOfUsers DEF Message
    <3> HIDE DEF row
    <3>2. /\ Shown(prompts', leftovers', authenticationUser) /\ responded' = FALSE
          /\ Cardinality(PromptRows(prompts')) = Len(futures)
          /\ view = "loaded" /\ ~authenticated /\ ~forcedUnlock => interactive'
      BY <1>1, <1>2, <2>2, <3>1, ShowScreen DEF ImplSound
    <3> QED
      BY <1>2, <3>2 DEF Screen, OneForOne, LetsAnswer, lock
  <2> QED
    BY <2>1, <2>2
<1> QED
  BY <1>3, <1>4 DEF AskInv

(* The thread of a handled prompt waits for no answer it has not asked     *)
(* for.                                                                    *)
LEMMA UnblockedTalks ==
  ASSUME NEW cs \in Seq(Conversation), NEW c \in DOMAIN cs, cs[c].worker = "blocked",
         NEW es, NEW fs, NEW p, Talk(cs, es, fs, p), p \in {None} \cup DOMAIN cs,
         \A i \in DOMAIN es :
           es[i].of[1] \in DOMAIN cs /\ (es[i].kind = "prompt" => es[i].of[1] # c)
  PROVE  LET ds == Unblocked(cs, c)
         IN  /\ Talk(ds, es, fs, p)
             /\ ds[c].said = cs[c].said /\ ds[c].worker = "running"
             /\ \A k : Asked(cs[c], k) => Asked(ds[c], k)
<1> DEFINE ds == Unblocked(cs, c)
<1>1. /\ \A d \in DOMAIN cs : cs[d] \in Conversation
      /\ DOMAIN ds = DOMAIN cs
      /\ \A d \in DOMAIN cs : ds[d] = IF d = c THEN [cs[c] EXCEPT !.worker = "running"] ELSE cs[d]
  BY LenProperties DEF Unblocked
<1> HIDE DEF ds
<1>2. ASSUME NEW d \in DOMAIN cs
      PROVE  /\ ds[d].handle = cs[d].handle /\ ds[d].script = cs[d].script
             /\ ds[d].said = cs[d].said /\ ds[d].answers = cs[d].answers
             /\ ds[d].canceled = cs[d].canceled
             /\ ds[d].worker = IF d = c THEN "running" ELSE cs[d].worker
  BY <1>1, SMTT(20) DEF Conversation
<1>3. OwnHandles(ds)
  BY <1>1, <1>2 DEF Talk, OwnHandles, Waits
<1>4. \A d \in DOMAIN cs : \A k : Asked(cs[d], k) => Asked(ds[d], k)
  BY <1>2 DEF Asked
<1>5. PromptsPosted(es, ds)
  <2>1. ASSUME NEW i \in DOMAIN es PROVE IsAsked(es[i], ds)
    <3>1. /\ IsAsked(es[i], cs) /\ es[i].of[1] \in DOMAIN cs
          /\ es[i].kind = "prompt" => es[i].of[1] # c
      BY DEF Talk, PromptsPosted
    <3> QED
      BY <1>1, <3>1 DEF IsAsked
  <2> QED
    BY <2>1 DEF PromptsPosted
<1>6. Queued(fs, ds, p)
  <2>1. CASE p = None
    BY <2>1 DEF Talk, Queued
  <2>2. CASE p # None
    BY <1>2, <1>4, <2>2 DEF Talk, Queued
  <2> QED
    BY <2>1, <2>2
<1> QED
  BY <1>2, <1>3, <1>4, <1>5, <1>6 DEF Talk, ds

(* A stale prompt is dismissed: its thread waits for nothing any more, and *)
(* what is queued is of another conversation.                              *)
LEMMA DismissedTalks ==
  ASSUME NEW cs \in Seq(Conversation), NEW es, NEW w, NEW fs, NEW p,
         Posted(es, cs, w), Talk(cs, es, fs, p), p \in {None} \cup DOMAIN cs,
         NEW future, future = <<future[1], future[2]>>, future[1] \in DOMAIN cs,
         p = None \/ future[1] # p,
         cs[future[1]].worker = "blocked", future[2] = cs[future[1]].said,
         \A i \in DOMAIN es : es[i].kind = "prompt" => es[i].of[1] # future[1]
  PROVE  Talk(Dismissed(cs, future), es, fs, p)
<1> DEFINE c == future[1]
           k == future[2]
           rs == <<NoSecret>>
           one == <<future>>
           ds == Answered(cs, one, rs)
           G == {one[i] : i \in DOMAIN one \cap DOMAIN rs}
<1>1. \A i \in DOMAIN one \cap DOMAIN rs : rs[i] \in Responses
  BY DEF Responses
<1>2. G = {<<c, k>>}
  <2>1. DOMAIN one = {1} /\ DOMAIN rs = {1} /\ one[1] = future
    OBVIOUS
  <2> HIDE DEF one, rs
  <2> QED
    BY <2>1
<1>3. \A d \in DOMAIN cs : cs[d] \in Conversation
  BY LenProperties
<1> HIDE DEF one, rs, G
<1>4. Tells(cs, ds, G) /\ Continues(cs, ds) /\ ds \in Seq(Conversation)
  BY <1>1, AnsweredTells, AnsweredDoes DEF G, Continues
<1>5. Dismissed(cs, future) = Unblocked(ds, c)
  BY DEF Dismissed, one, rs
<1> HIDE DEF ds, c, k
<1>6. c \in DOMAIN cs /\ cs[c].worker = "blocked" /\ k = cs[c].said /\ (p = None \/ c # p)
  BY DEF c, k
<1>7. ASSUME NEW d \in DOMAIN cs
      PROVE  /\ ds[d].handle = cs[d].handle /\ ds[d].script = cs[d].script
             /\ ds[d].said = cs[d].said /\ ds[d].worker = cs[d].worker
             /\ cs[d].canceled => ds[d].canceled
             /\ \A j \in PromptsOf(cs[d].script) :
                  IF d = c /\ j = k THEN ds[d].answers[j] # Unanswered
                                    ELSE ds[d].answers[j] = cs[d].answers[j]
  <2>1. \A j : <<d, j>> \in G <=> d = c /\ j = k
    BY <1>2
  <2> QED
    BY <1>4, <2>1 DEF Tells
<1>8. OwnHandles(ds)
  <2>1. ASSUME NEW d \in DOMAIN ds PROVE ds[d].handle = d /\ Waits(ds[d])
    <3>1. d \in DOMAIN cs /\ cs[d].handle = d /\ Waits(cs[d])
      BY <1>4 DEF Tells, Talk, OwnHandles
    <3>2. ASSUME NEW j \in PromptsOf(cs[d].script), j > cs[d].said
          PROVE  ds[d].answers[j] = Unanswered
      <4>1. cs[d].said \in Nat
        BY <1>3, <3>1, PromptsHavePlaces
      <4>2. ~(d = c /\ j = k)
        BY <1>6, <3>2, <4>1
      <4> QED
        BY <1>7, <3>1, <3>2, <4>2 DEF Waits
    <3>3. ASSUME cs[d].worker = "done", ~ds[d].canceled, NEW j \in PromptsOf(cs[d].script)
          PROVE  ds[d].answers[j] # Unanswered
      BY <1>7, <3>1, <3>3 DEF Waits
    <3> QED
      BY <1>7, <3>1, <3>2, <3>3 DEF Waits
  <2> QED
    BY <2>1 DEF OwnHandles
<1>9. ASSUME NEW d \in DOMAIN cs, d # c, NEW j, Asked(cs[d], j)
      PROVE  Asked(ds[d], j)
  BY <1>7, <1>9 DEF Asked
<1>10. PromptsPosted(es, ds)
  <2>1. ASSUME NEW i \in DOMAIN es PROVE IsAsked(es[i], ds)
    <3>1. /\ IsAsked(es[i], cs) /\ es[i].of[1] \in DOMAIN cs
          /\ es[i].kind = "prompt" => es[i].of[1] # c
      BY DEF Talk, PromptsPosted, Posted, IsPosted, c
    <3> QED
      BY <1>7, <1>9, <3>1 DEF IsAsked
  <2> QED
    BY <2>1 DEF PromptsPosted
<1>11. Queued(fs, ds, p)
  <2>1. CASE p = None
    BY <2>1 DEF Talk, Queued
  <2>2. CASE p # None
    BY <1>6, <1>7, <1>9, <2>2 DEF Talk, Queued
  <2> QED
    BY <2>1, <2>2
<1>12. Talk(ds, es, fs, p)
  BY <1>8, <1>10, <1>11 DEF Talk
<1>13. /\ c \in DOMAIN ds /\ ds[c].worker = "blocked" /\ p \in {None} \cup DOMAIN ds
       /\ \A i \in DOMAIN es :
            es[i].of[1] \in DOMAIN ds /\ (es[i].kind = "prompt" => es[i].of[1] # c)
  BY <1>4, <1>6, <1>7 DEF Tells, Posted, IsPosted, c
<1> QED
  BY <1>4, <1>5, <1>12, <1>13, UnblockedTalks

(* A prompt is shown as a row and queued as a future, or dismissed.        *)
LEMMA HandlePromptTalks ==
  ASSUME Inv, AskInv, events # <<>>, HandlePrompt
  PROVE  AskInv'
<1> DEFINE future == Head(events).of
           c == future[1]
           row == Prompt(conversations[c].user)
<1>1. /\ ImplSound /\ Talk(conversations, events, futures, pam) /\ Screen /\ RowsSound
      /\ Head(events).kind = "prompt"
  BY DEF Inv, AskInv, HandlePrompt
<1>2. /\ c \in DOMAIN conversations /\ conversations[c].user \in Users /\ future \in Futures
      /\ Posted(Tail(events), conversations, watched)
  BY <1>1, HeadSpeaks
<1>3. /\ IsAsked(Head(events), conversations) /\ PromptsPosted(Tail(events), conversations)
  BY <1>1, PromptsPostedTail DEF ImplSound, Talk
<1>4. /\ future[2] = conversations[c].said /\ Asked(conversations[c], conversations[c].said)
      /\ future = <<future[1], future[2]>>
  BY <1>1, <1>2, <1>3 DEF IsAsked, Futures
<1>5. /\ conversations[c].worker = "blocked"
      /\ \A i \in DOMAIN Tail(events) :
           /\ Tail(events)[i].of[1] \in DOMAIN conversations
           /\ Tail(events)[i].kind = "prompt" => Tail(events)[i].of[1] # c
  <2>1. /\ IsPosted(Head(events), conversations, watched)
        /\ \A i \in DOMAIN Tail(events) : ~Same(Tail(events)[i], Head(events))
    BY <1>1, PostedTail DEF ImplSound
  <2>2. \A i \in DOMAIN Tail(events) : Tail(events)[i].of[1] \in DOMAIN conversations
    BY <1>2 DEF Posted, IsPosted
  <2> QED
    BY <1>1, <2>1, <2>2 DEF IsPosted, Same
<1>6. /\ conversations \in Seq(Conversation) /\ pam \in {None} \cup DOMAIN conversations
      /\ futures \in Seq(Futures)
      /\ Talk(conversations, Tail(events), futures, pam)
  BY <1>1, <1>3 DEF ImplSound, Talk
<1>7. /\ UNCHANGED <<pam, watched, authenticationUser, authenticated, typed, lock>>
      /\ events' = Tail(events)
      /\ IF IsStale(c)
           THEN /\ conversations' = Dismissed(conversations, future)
                /\ UNCHANGED <<futures, rows>>
           ELSE /\ conversations' = Unblocked(conversations, c)
                /\ futures' = Append(futures, future)
                /\ Show(row)
  BY DEF HandlePrompt
<1>8. CASE IsStale(c)
  <2>1. pam = None \/ c # pam
    BY <1>1, <1>2, <1>8, NotStale
  <2> HIDE DEF future
  <2>2. Talk(Dismissed(conversations, future), Tail(events), futures, pam)
    BY <1>2, <1>4, <1>5, <1>6, <2>1, DismissedTalks
  <2>3. Screen'
    BY <1>1, <1>7, <1>8 DEF Screen, LetsAnswer, rows, lock
  <2> QED
    BY <1>7, <1>8, <2>2, <2>3 DEF AskInv
<1>9. CASE ~IsStale(c)
  <2>1. pam # None /\ c = pam /\ conversations[c].user = authenticationUser
    BY <1>1, <1>2, <1>9, NotStale
  <2>2. row \in Row /\ row.of = authenticationUser /\ row.kind = "prompt"
    BY <1>2, <2>1, RowsOfUsers DEF Prompt
  <2> HIDE DEF future, c, row
  <2> DEFINE ds == Unblocked(conversations, c)
  <2>3. /\ Talk(ds, Tail(events), futures, pam)
        /\ ds[c].said = conversations[c].said /\ ds[c].worker = "running"
        /\ Asked(ds[c], conversations[c].said)
    <3>1. /\ Talk(ds, Tail(events), futures, pam)
          /\ ds[c].said = conversations[c].said /\ ds[c].worker = "running"
          /\ \A k : Asked(conversations[c], k) => Asked(ds[c], k)
      BY <1>2, <1>5, <1>6, UnblockedTalks
    <3> QED
      BY <1>4, <3>1
  <2> HIDE DEF ds
  <2>4. /\ futures' = Append(futures, future) /\ Len(futures') = Len(futures) + 1
        /\ Len(futures) \in Nat /\ DOMAIN futures' = 1 .. Len(futures) + 1
        /\ DOMAIN futures = 1 .. Len(futures)
        /\ \A i \in 1 .. Len(futures) : futures'[i] = futures[i]
        /\ futures'[Len(futures) + 1] = future
    <3>1. futures' = Append(futures, future) /\ future \in Futures /\ futures \in Seq(Futures)
      BY <1>2, <1>6, <1>7, <1>9
    <3> QED
      BY <3>1, AppendProperties, LenProperties
  <2>5. Queued(futures', ds, pam)
    <3>1. ASSUME NEW i \in DOMAIN futures'
          PROVE  /\ futures'[i][1] = pam /\ futures'[i][2] <= ds[pam].said
                 /\ Asked(ds[pam], futures'[i][2])
                 /\ ds[pam].worker = "blocked" => futures'[i][2] # ds[pam].said
      <4>1. CASE i \in DOMAIN futures
        BY <2>3, <2>4, <4>1 DEF Talk, Queued
      <4>2. CASE i = Len(futures) + 1
        <5>1. conversations[c].said \in Nat
          BY <1>2, <1>6, LenProperties DEF Conversation
        <5>2. futures'[i][1] = pam /\ futures'[i][2] = ds[pam].said
          BY <1>4, <2>1, <2>3, <2>4, <4>2 DEF c
        <5> QED
          BY <1>4, <2>1, <2>3, <5>1, <5>2
      <4> QED
        BY <2>4, <4>1, <4>2
    <3> QED
      BY <2>1, <3>1 DEF Queued
  <2>6. Talk(conversations', events', futures', pam')
    BY <1>7, <1>9, <2>3, <2>5 DEF Talk, ds
  <2>7. /\ Shown(prompts', leftovers', authenticationUser) /\ responded' = FALSE
        /\ Cardinality(PromptRows(prompts')) = Len(futures) + 1
        /\ view = "loaded" /\ ~authenticated /\ ~forcedUnlock => interactive'
    BY <1>1, <1>6, <1>7, <1>9, <2>1, <2>2, ShowScreen
  <2>8. Screen'
    BY <1>7, <2>4, <2>7 DEF Screen, OneForOne, LetsAnswer, lock
  <2> QED
    BY <2>6, <2>8 DEF AskInv
<1> QED
  BY <1>8, <1>9

(* PAM decides when all it has asked is answered: nothing is queued then.  *)
LEMMA NothingIsQueued ==
  ASSUME ImplSound, Talk(conversations, events, futures, pam), pam # None,
         conversations[pam].worker = "done"
  PROVE  futures = <<>>
<1>1. ~conversations[pam].canceled /\ pam \in DOMAIN conversations
  BY DEF ImplSound, Current
<1>2. \A k \in PromptsOf(conversations[pam].script) : conversations[pam].answers[k] # Unanswered
  BY <1>1 DEF Talk, OwnHandles, Waits
<1>3. \A i \in DOMAIN futures : FALSE
  BY <1>2 DEF Talk, Queued, Asked
<1>4. futures \in Seq(Futures) /\ DOMAIN futures = 1 .. Len(futures) /\ Len(futures) \in Nat
  BY LenProperties DEF ImplSound
<1>5. Len(futures) = 0
  BY <1>3, <1>4
<1> QED
  BY <1>4, <1>5, EmptySeq

(* What a conversation leaves is of its user and asks nothing.             *)
LEMMA LeftoversShown ==
  ASSUME RowsSound, Screen, authenticationUser \in Users, NEW granted
  PROVE  /\ OfUser(LeftoversAfter(granted), authenticationUser)
         /\ NoPrompt(LeftoversAfter(granted))
<1> DEFINE row == Message(authenticationUser)
           left == Append(leftovers, row)
<1>1. row \in Row /\ row.of = authenticationUser /\ row.kind # "prompt"
  BY RowsOfUsers DEF Message
<1> HIDE DEF row
<1>2. OfUser(left, authenticationUser) /\ NoPrompt(left)
  <2>1. OfUser(left, authenticationUser) /\ PromptRows(left) = PromptRows(leftovers)
    BY <1>1, RowAppended DEF RowsSound, Screen, Shown
  <2> QED
    BY <2>1 DEF Screen, Shown, NoPrompt
<1> HIDE DEF left
<1>3. LeftoversAfter(granted) \in {prompts, leftovers, left}
      /\ (LeftoversAfter(granted) = prompts => HasLeftoverMessages \/ prompts \in {leftovers, left})
  BY DEF LeftoversAfter, left, row
<1> QED
  BY <1>2, <1>3 DEF Screen, Shown, HasLeftoverMessages, NoPrompt

LEMMA CompleteTalks ==
  ASSUME Inv, AskInv, events # <<>>, pam # None, conversations[pam].worker = "done",
         authenticationUser \in Users, NEW granted \in BOOLEAN, Complete(granted),
         UNCHANGED <<view, forcedUnlock, currentUser>>
  PROVE  AskInv'
<1>1. /\ ImplSound /\ RowsSound /\ Screen /\ Talk(conversations, events, futures, pam)
      /\ authenticated = FALSE
  BY DEF Inv, AskInv, ImplSound
<1>2. /\ UNCHANGED <<conversations, watched, futures, authenticationUser, typed,
                     responded, everResponded>>
      /\ pam' = None /\ authenticated' = granted /\ events' = Tail(events)
  BY DEF Complete
<1>3. futures = <<>>
  BY <1>1, NothingIsQueued
<1>4. PromptsPosted(Tail(events), conversations)
  BY <1>1, PromptsPostedTail DEF ImplSound, Talk
<1>5. Talk(conversations', events', futures', pam')
  BY <1>1, <1>2, <1>3, <1>4, QueuedNothing DEF Talk
<1>6. OneForOne(prompts', futures', pam', responded')
  BY <1>2, <1>3 DEF OneForOne
<1> DEFINE left == LeftoversAfter(granted)
           row == Button(authenticationUser)
<1>7. /\ left \in Seq(Row) /\ OfUser(left, authenticationUser) /\ NoPrompt(left)
      /\ row \in Row /\ row.of = authenticationUser
  BY <1>1, LeftoversAreRows, LeftoversShown, RowsOfUsers DEF Button
<1>8. \/ prompts' = Append(left, row) /\ leftovers' = <<>> /\ interactive' = TRUE
      \/ leftovers' = left /\ UNCHANGED <<prompts, interactive>>
  BY DEF Complete
<1> HIDE DEF left, row
<1>9. Shown(prompts', leftovers', authenticationUser')
  <2>1. CASE prompts' = Append(left, row) /\ leftovers' = <<>>
    <3>1. OfUser(prompts', authenticationUser)
      BY <1>7, <2>1, RowAppended
    <3> QED
      BY <1>2, <2>1, <3>1 DEF Shown, OfUser, NoPrompt, PromptRows
  <2>2. CASE leftovers' = left /\ prompts' = prompts
    BY <1>1, <1>2, <1>7, <2>2 DEF Screen, Shown
  <2> QED
    BY <1>8, <2>1, <2>2
<1>10. LetsAnswer'
  BY <1>1, <1>2, <1>8 DEF Screen, LetsAnswer
<1> QED
  BY <1>5, <1>6, <1>9, <1>10 DEF AskInv, Screen

LEMMA FinishPamTalks ==
  ASSUME "reuse" \notin Environment, Inv, AskInv, Ready, events # <<>>, FinishPam
  PROVE  AskInv'
<1> DEFINE granted == conversations[watched].granted
<1>1. /\ ImplSound /\ RowsSound /\ Screen /\ Talk(conversations, events, futures, pam)
      /\ Head(events).kind = "finished" /\ UNCHANGED <<view, forcedUnlock, currentUser>>
  BY DEF Inv, AskInv, FinishPam
<1>2. /\ Posted(Tail(events), conversations, watched)
      /\ IsPosted(Head(events), conversations, watched)
      /\ PromptsPosted(Tail(events), conversations)
  BY <1>1, PostedTail, PromptsPostedTail DEF ImplSound, Talk
<1>3. CASE pam = None
  <2>1. /\ events' = Tail(events)
        /\ UNCHANGED <<conversations, pam, watched, futures, authenticationUser,
                       authenticated, typed, rows, enabled, hiding>>
    BY <1>3 DEF FinishPam, IsOver
  <2> QED
    BY <1>1, <1>2, <2>1 DEF AskInv, Talk, Screen, LetsAnswer, rows
<1>4. CASE pam # None
  <2>1. /\ watched = pam /\ conversations[pam] \in Conversation
        /\ conversations[pam].user = authenticationUser /\ conversations[pam].worker = "done"
    BY <1>1, <1>2, <1>4, LenProperties DEF ImplSound, Current, IsPosted
  <2>2. authenticationUser \in Users /\ granted \in BOOLEAN
    BY <2>1 DEF Conversation
  <2>3. CASE ~AsksAgain(granted)
    <3>1. Complete(granted)
      BY <1>4, <2>3 DEF FinishPam, IsOver
    <3> HIDE DEF granted
    <3> QED
      BY <1>1, <1>4, <2>1, <2>2, <3>1, CompleteTalks
  <2>4. CASE AsksAgain(granted)
    <3> DEFINE left == LeftoversAfter(granted)
    <3>1. Authenticate(currentUser, None, Tail(events), left, <<>>)
      BY <1>4, <2>4 DEF FinishPam, IsOver
    <3>2. Len(conversations) < MaxConversations
      BY <2>4 DEF AsksAgain, Automatic, Inv, Room
    <3> HIDE DEF granted
    <3>3. /\ left \in Seq(Row) /\ OfUser(left, authenticationUser) /\ NoPrompt(left)
          /\ currentUser \in Users
      BY <1>1, <2>2, LeftoversAreRows, LeftoversShown DEF Inv, LockSound
    <3>4. /\ <<>> \in Seq(Row) /\ OfUser(<<>>, currentUser) /\ NoPrompt(<<>>)
      BY EmptySeq DEF OfUser, NoPrompt, PromptRows
    <3>5. futures = <<>>
      BY <1>1, <1>4, <2>1, NothingIsQueued
    <3> HIDE DEF left
    <3> QED
      BY <1>1, <1>2, <3>1, <3>2, <3>3, <3>4, <3>5, AuthenticateTalks
  <2> QED
    BY <2>3, <2>4
<1> QED
  BY <1>3, <1>4

(* A response is for all prompts on the screen, so for all that are        *)
(* queued.                                                                 *)
LEMMA SendResponseTalks ==
  ASSUME Inv, AskInv, SendResponse
  PROVE  AskInv'
<1> DEFINE n == Cardinality(PromptRows(prompts))
<1>1. /\ ImplSound /\ Screen /\ Talk(conversations, events, futures, pam)
      /\ futures \in Seq(Futures) /\ Len(futures) \in Nat /\ prompts \in Seq(Row)
  BY LenProperties DEF Inv, AskInv, ImplSound, RowsSound
<1>2. PICK rs :
        /\ rs \in [1 .. n -> Responses]
        /\ conversations' = Answered(conversations, futures, rs)
  BY DEF SendResponse
<1>3. /\ UNCHANGED <<pam, watched, events, authenticationUser, authenticated,
                     prompts, leftovers, lock>>
      /\ futures' = SubSeq(futures, n + 1, Len(futures)) /\ responded' = TRUE
  BY DEF SendResponse
<1>4. n \in Nat
  <2>1. \A row \in Row : n \in Nat
    BY <1>1, RowAppended
  <2>2. PICK u : u \in Users
    BY DEF Inv, LockSound
  <2> QED
    BY <2>1, <2>2, RowsOfUsers
<1>5. futures = <<>> \/ n = Len(futures)
  BY <1>1 DEF Screen, OneForOne, Talk, Queued
<1> HIDE DEF n
<1>6. futures' = <<>>
  <2>1. Len(futures) < n + 1
    BY <1>1, <1>4, <1>5, EmptySeq
  <2> QED
    BY <1>1, <1>3, <1>4, <2>1, SubSeqEmpty
<1> DEFINE G == {futures[i] : i \in DOMAIN futures \cap DOMAIN rs}
           ds == Answered(conversations, futures, rs)
<1>7. \A g \in G : \E i \in DOMAIN futures : g = futures[i]
  OBVIOUS
<1>8. Tells(conversations, ds, G)
  BY <1>1, <1>2, AnsweredTells DEF ImplSound
<1> HIDE DEF G, ds
<1>9. OwnHandles(ds) /\ PromptsPosted(events, ds)
  BY <1>1, <1>7, <1>8, TellsTalk DEF ImplSound
<1>10. Talk(conversations', events', futures', pam')
  BY <1>2, <1>3, <1>6, <1>9, QueuedNothing DEF Talk, ds
<1>11. Screen'
  BY <1>1, <1>3, <1>6 DEF Screen, OneForOne, LetsAnswer
<1> QED
  BY <1>10, <1>11 DEF AskInv

(* The user is asked about while there is room for a conversation.         *)
LEMMA AskTalks ==
  ASSUME "reuse" \notin Environment, Inv, AskInv, RoomFor(1),
         NEW u \in Users, NEW above \in Seq(Row), OfUser(above, u), NoPrompt(above),
         Authenticate(u, pam, events, leftovers, above)
  PROVE  AskInv'
<1>1. Len(conversations) < MaxConversations
  BY LenProperties, BoundsAssumption DEF RoomFor, Inv, ImplSound
<1>2. /\ ImplSound /\ Talk(conversations, events, futures, pam)
      /\ Posted(events, conversations, watched) /\ PromptsPosted(events, conversations)
      /\ leftovers \in Seq(Row) /\ OfUser(leftovers, authenticationUser) /\ NoPrompt(leftovers)
      /\ pam = None => futures = <<>>
  BY DEF Inv, ImplSound, RowsSound, AskInv, Screen, Shown, Talk, Queued
<1> QED
  BY <1>1, <1>2, AuthenticateTalks

LEMMA QuitTalks ==
  ASSUME Inv, AskInv, Quit
  PROVE  AskInv'
<1> DEFINE ds == Cancelled(conversations, pam, futures)
           G == {futures[i] : i \in IF pam = None THEN {} ELSE DOMAIN futures}
<1>1. /\ conversations' = ds /\ futures' = CancelledFutures(pam, futures) /\ pam' = None
      /\ UNCHANGED <<watched, events, authenticationUser, authenticated, typed, rows, lock>>
  BY DEF Quit
<1>2. Tells(conversations, ds, G)
  BY CancelledTells DEF Inv, ImplSound
<1>3. \A g \in G : \E i \in DOMAIN futures : g = futures[i]
  OBVIOUS
<1> HIDE DEF ds, G
<1>4. OwnHandles(ds) /\ PromptsPosted(events, ds)
  BY <1>2, <1>3, TellsTalk DEF Inv, AskInv, ImplSound
<1>5. futures' = <<>>
  BY <1>1 DEF CancelledFutures, AskInv, Talk, Queued
<1>6. Talk(conversations', events', futures', pam')
  BY <1>1, <1>4, <1>5, QueuedNothing DEF Talk
<1>7. Screen'
  BY <1>1, <1>5 DEF AskInv, Screen, OneForOne, LetsAnswer, rows, lock
<1> QED
  BY <1>6, <1>7 DEF AskInv

(* The lock: the view shows the rows it had, or a new one asks.            *)
LEMMA LockTalks ==
  ASSUME Inv, AskInv, UNCHANGED <<impl, prompts, leftovers, responded>>, LetsAnswer'
  PROVE  AskInv'
BY DEF AskInv, Screen, impl

LEMMA AskStep ==
  ASSUME "reuse" \notin Environment, Inv, AskInv, [Next]_vars
  PROVE  AskInv'
<1>1. /\ currentUser \in Users /\ LetsAnswer
      /\ <<>> \in Seq(Row) /\ \A u : OfUser(<<>>, u) /\ NoPrompt(<<>>)
  BY EmptySeq DEF Inv, LockSound, AskInv, Screen, OfUser, NoPrompt, PromptRows
<1>2. ASSUME NEW c, Worker(c) PROVE AskInv'
  <2>1. UNCHANGED <<pam, futures, authenticationUser, authenticated, rows, lock>>
    BY <1>2 DEF Worker
  <2>2. Talk(conversations', events', futures', pam')
    BY <1>2, WorkerTalks
  <2> QED
    BY <2>1, <2>2 DEF AskInv, Screen, LetsAnswer, rows, lock
<1>3. CASE HandleEvent
  BY <1>3, HandleMessageTalks, HandlePromptTalks, FinishPamTalks DEF HandleEvent
<1>4. CASE SendResponse
  BY <1>4, SendResponseTalks
<1>5. ASSUME NEW u \in Users, SelectUser(u) PROVE AskInv'
  BY <1>1, <1>5, AskTalks DEF SelectUser
<1>6. CASE FingerprintRejected
  <2> DEFINE above == <<Message(currentUser)>>
  <2>1. above \in Seq(Row) /\ OfUser(above, currentUser) /\ NoPrompt(above)
    BY <1>1, RowsOfUsers DEF OfUser, NoPrompt, PromptRows, Message
  <2>2. RoomFor(1) /\ Authenticate(currentUser, pam, events, leftovers, above)
    BY <1>6 DEF FingerprintRejected
  <2> HIDE DEF above
  <2> QED
    BY <1>1, <2>1, <2>2, AskTalks
<1>7. CASE ViewLoaded
  <2>1. RoomFor(1) /\ Authenticate(currentUser, pam, events, leftovers, <<>>)
    BY <1>7, LenProperties, BoundsAssumption
       DEF ViewLoaded, Room, RoomFor, Inv, ImplSound
  <2> QED
    BY <1>1, <2>1, AskTalks
<1>8. CASE ForceShow
  <2>1. CASE view' = "loading" /\ UNCHANGED <<impl, rows>>
    BY <2>1, LockTalks DEF rows, LetsAnswer
  <2>2. CASE RoomFor(2) /\ Authenticate(currentUser, pam, events, leftovers, <<>>)
    <3>1. RoomFor(1)
      BY <2>2, LenProperties, BoundsAssumption DEF RoomFor, Inv, ImplSound
    <3> QED
      BY <1>1, <2>2, <3>1, AskTalks
  <2> QED
    BY <1>8, <2>1, <2>2 DEF ForceShow
<1>9. CASE Login
  <2>1. /\ UNCHANGED <<impl, prompts, leftovers, responded, view, forcedUnlock>>
        /\ view = "loaded" /\ (authenticated \/ forcedUnlock)
    BY <1>9 DEF Login, Locked, Usable
  <2> QED
    BY <2>1, LockTalks DEF LetsAnswer, impl
<1>10. CASE ForceUnlock \/ SessionUnlocked \/ HideDone
  <2>1. UNCHANGED <<impl, prompts, leftovers, responded>> /\ (forcedUnlock' \/ view' = "none")
    BY <1>10 DEF ForceUnlock, SessionUnlocked, HideDone, rows
  <2> QED
    BY <2>1, LockTalks DEF LetsAnswer
<1>11. CASE Quit
  BY <1>11, QuitTalks
<1>12. CASE UNCHANGED vars
  BY <1>12, LockTalks DEF vars, rows, lock, impl, LetsAnswer, AskInv, Screen
<1> QED
  BY <1>2, <1>3, <1>4, <1>5, <1>6, <1>7, <1>8, <1>9, <1>10, <1>11, <1>12 DEF Next

LEMMA AskInit == Init => AskInv
<1> SUFFICES ASSUME Init PROVE AskInv
  OBVIOUS
<1>1. /\ conversations = <<>> /\ pam = None /\ futures = <<>> /\ events = <<>>
      /\ prompts = <<>> /\ leftovers = <<>> /\ responded = FALSE /\ view = "loading"
  BY DEF Init, Started
<1>2. Talk(conversations, events, futures, pam)
  BY <1>1 DEF Talk, OwnHandles, PromptsPosted, Queued
<1>3. Screen
  BY <1>1 DEF Screen, Shown, OfUser, NoPrompt, PromptRows, OneForOne, LetsAnswer
<1> QED
  BY <1>2, <1>3 DEF AskInv

(* Unless PAM gives a new conversation the address of a freed handle, what *)
(* is on the screen is what PAM waits for, whatever is cancelled, answered *)
(* or said at the same time (Greeter.cpp:217, PromptList.qml:56).          *)
THEOREM PromptsCanBeAnswered ==
  ASSUME "reuse" \notin Environment
  PROVE  Spec => []PromptsAnswerable
<1>1. Init => Inv /\ AskInv
  BY InitIsSound, AskInit
<1>2. Inv /\ AskInv /\ [Next]_vars => Inv' /\ AskInv'
  BY StepIsSound, AskStep
<1>3. Inv /\ AskInv => PromptsAnswerable
  BY DEF Inv, LockSound, AskInv, Screen, OneForOne, LetsAnswer, PromptsAnswerable, Ready, Locked
<1> QED
  BY <1>1, <1>2, <1>3, PTL DEF Spec

(* Under the same condition no queued prompt is of a cancelled             *)
(* conversation (GreeterPrivate.cpp:220).                                  *)
THEOREM StalePromptsAreDismissed ==
  ASSUME "reuse" \notin Environment
  PROVE  Spec => []StalePromptsDismissed
<1>1. Init => Inv /\ AskInv
  BY InitIsSound, AskInit
<1>2. Inv /\ AskInv /\ [Next]_vars => Inv' /\ AskInv'
  BY StepIsSound, AskStep
<1>3. Inv /\ AskInv => StalePromptsDismissed
  BY DEF AskInv, Talk, Queued, StalePromptsDismissed
<1> QED
  BY <1>1, <1>2, <1>3, PTL DEF Spec

(* Under the same condition no row survives a change of the user, whoever  *)
(* cancels the conversation that brought it (Greeter.cpp:161).             *)
THEOREM RowsBelongToTheUser ==
  ASSUME "reuse" \notin Environment
  PROVE  Spec => []RowsAreOfTheUser
<1>1. Init => Inv /\ AskInv
  BY InitIsSound, AskInit
<1>2. Inv /\ AskInv /\ [Next]_vars => Inv' /\ AskInv'
  BY StepIsSound, AskStep
<1>3. Inv /\ AskInv => RowsAreOfTheUser
  BY DEF AskInv, Screen, Shown, OfUser, RowsAreOfTheUser, Elements
<1> QED
  BY <1>1, <1>2, <1>3, PTL DEF Spec
=============================================================================
