------------------------ MODULE WindowSignalsProofs ------------------------
(***************************************************************************)
(* What TLAPS proves of TopLevelWindowModel and the signals on their way   *)
(* to it: which surfaces have windows, and who has the focus.  Mir's state *)
(* runs ahead of the model's, and the difference is in the queue of        *)
(* signals; so the invariants say what the signals that are still to be    *)
(* delivered will do, for any applications, surfaces, windows and bounds.  *)
(***************************************************************************)
EXTENDS TopLevelWindowModelProofs

\* A signal of one of the kinds in K about surface s; one is in the queue q.
Is(e, K, s) == e.kind \in K /\ e.of # <<>> /\ e.of[1] = s
Says(q, K, s) == \E i \in 1 .. Len(q) : Is(q[i], K, s)
Mentions(q, s) == \E i \in 1 .. Len(q) : s \in ToSet(q[i].of)

Arrivals == {"added", "hidden", "shown"}
Leaving == {"died", "destroyed"}

(* The life of each surface, as MirSurface tells it (L are the surfaces    *)
(* that live in the shell's eyes), lags behind Mir's by the signals in q,  *)
(* in which it dies before it is destroyed, and nothing comes after that.  *)
LifeOf(q, life, lives, s) ==
    /\ life = "none" => ~Mentions(q, s)
    /\ life = "live" => lives /\ ~Says(q, Leaving, s)
    /\ life = "dead" => ~Says(q, {"destroyed"}, s)
    /\ life # "live" /\ lives => Says(q, {"died"}, s)
    /\ Says(q, Arrivals, s) => lives
    /\ \A i, j \in 1 .. Len(q) : i < j => ~(Is(q[i], Leaving, s) /\ Is(q[j], Arrivals, s))
    /\ \A j \in 1 .. Len(q) : Is(q[j], {"destroyed"}, s) /\ lives =>
          \E i \in 1 .. Len(q) : i < j /\ Is(q[i], {"died"}, s)
Lives(q, life, L) == \A s \in Surfaces : LifeOf(q, life[s], s \in L, s)
-----------------------------------------------------------------------------
(* Signals and queues.                                                     *)

LEMMA IsEvent ==
    ASSUME NEW K, NEW s
    PROVE  /\ \A kind, t : Is(Event(kind, t), K, s) <=> kind \in K /\ t = s
           /\ ~Is(Started, K, s) /\ ~Is(Ended, K, s)
           /\ \A kind, t : s \in ToSet(Event(kind, t).of) <=> s = t
           /\ s \notin ToSet(Started.of) /\ s \notin ToSet(Ended.of)
<1>1. \A t : <<t>> # <<>> /\ <<t>>[1] = t
    OBVIOUS
<1>3. \A t : ToSet(<<t>>) = {t}
    BY DEF ToSet
<1>4. ToSet(<<>>) = {}
    BY DEF ToSet
<1> QED
    BY <1>1, <1>3, <1>4 DEF Is, Event, Started, Ended

\* A signal put at the end of a queue.
LEMMA Queued ==
    ASSUME NEW q \in Seq(Signals), NEW e \in Signals
    PROVE  LET r == q \o <<e>>
           IN  /\ r \in Seq(Signals) /\ Len(r) = Len(q) + 1 /\ Len(q) \in Nat
               /\ r[Len(q) + 1] = e /\ Append(q, e) = r
               /\ \A i \in 1 .. Len(q) : r[i] = q[i]
               /\ \A i \in 1 .. Len(r) : i \in 1 .. Len(q) \/ i = Len(q) + 1
    OBVIOUS

\* ... and one taken from the front.
LEMMA Taken ==
    ASSUME NEW q \in Seq(Signals), q # <<>>
    PROVE  /\ Tail(q) \in Seq(Signals) /\ Len(q) = Len(Tail(q)) + 1 /\ Len(Tail(q)) \in Nat
           /\ Head(q) = q[1]
           /\ \A i \in 1 .. Len(Tail(q)) : Tail(q)[i] = q[i + 1] /\ i + 1 \in 1 .. Len(q)
           /\ \A i \in 1 .. Len(q) : i = 1 \/ (i - 1 \in 1 .. Len(Tail(q)) /\ Tail(q)[i - 1] = q[i])
    OBVIOUS

LEMMA SaysMore ==
    ASSUME NEW q \in Seq(Signals), NEW e \in Signals
    PROVE  /\ \A K, s : Says(q \o <<e>>, K, s) <=> Says(q, K, s) \/ Is(e, K, s)
           /\ \A s : Mentions(q \o <<e>>, s) <=> Mentions(q, s) \/ s \in ToSet(e.of)
<1> DEFINE r == q \o <<e>>
           n == Len(q)
<1>1. /\ Len(r) = n + 1 /\ n \in Nat /\ r[n + 1] = e
      /\ \A i \in 1 .. n : r[i] = q[i] /\ i \in 1 .. Len(r)
      /\ \A i \in 1 .. Len(r) : i \in 1 .. n \/ i = n + 1
      /\ n + 1 \in 1 .. Len(r)
    BY Queued
<1> HIDE DEF r, n
<1>2. ASSUME NEW K, NEW s
      PROVE  (\E i \in 1 .. Len(r) : Is(r[i], K, s)) <=> (\E i \in 1 .. n : Is(q[i], K, s)) \/ Is(e, K, s)
    BY <1>1
<1>3. ASSUME NEW s
      PROVE  (\E i \in 1 .. Len(r) : s \in ToSet(r[i].of))
                <=> (\E i \in 1 .. n : s \in ToSet(q[i].of)) \/ s \in ToSet(e.of)
    BY <1>1
<1> QED
    BY <1>2, <1>3 DEF r, n, Says, Mentions

LEMMA SaysLess ==
    ASSUME NEW q \in Seq(Signals), q # <<>>
    PROVE  /\ \A K, s : Says(q, K, s) <=> Says(Tail(q), K, s) \/ Is(Head(q), K, s)
           /\ \A s : Mentions(Tail(q), s) => Mentions(q, s)
<1> DEFINE r == Tail(q)
<1>1. /\ Len(q) = Len(r) + 1 /\ Len(r) \in Nat /\ Head(q) = q[1] /\ 1 \in 1 .. Len(q)
      /\ \A i \in 1 .. Len(r) : r[i] = q[i + 1] /\ i + 1 \in 1 .. Len(q)
      /\ \A i \in 1 .. Len(q) : i = 1 \/ (i - 1 \in 1 .. Len(r) /\ r[i - 1] = q[i])
    BY Taken
<1> HIDE DEF r
<1>2. ASSUME NEW K, NEW s
      PROVE  (\E i \in 1 .. Len(q) : Is(q[i], K, s)) <=> (\E i \in 1 .. Len(r) : Is(r[i], K, s)) \/ Is(Head(q), K, s)
    BY <1>1
<1>3. ASSUME NEW s, \E i \in 1 .. Len(r) : s \in ToSet(r[i].of)
      PROVE  \E i \in 1 .. Len(q) : s \in ToSet(q[i].of)
    BY <1>1, <1>3
<1> QED
    BY <1>2, <1>3 DEF r, Says, Mentions
-----------------------------------------------------------------------------
(* What the actions add to the queue.                                      *)

\* r is q with signals of the kinds in K after it.
Extends(q, r, K) ==
    \E b \in Seq(Signals) : r = q \o b /\ \A i \in 1 .. Len(b) : b[i].kind \in K

\* No signal of q is of a kind in K.
NoneOf(q, K) == \A i \in 1 .. Len(q) : q[i].kind \notin K

FocusKinds == {"started", "ended", "lost", "gained", "raised", "shown"}

LEMMA ExtendsItself ==
    ASSUME NEW q \in Seq(Signals), NEW K
    PROVE  Extends(q, q, K)
<1>1. <<>> \in Seq(Signals) /\ q = q \o <<>> /\ \A i \in 1 .. Len(<<>>) : FALSE
    OBVIOUS
<1> QED
    BY <1>1, Zenon DEF Extends

LEMMA ExtendsByOne ==
    ASSUME NEW q \in Seq(Signals), NEW e \in Signals, NEW K, e.kind \in K
    PROVE  Extends(q, q \o <<e>>, K)
<1>1. <<e>> \in Seq(Signals) /\ \A i \in 1 .. Len(<<e>>) : <<e>>[i] = e
    OBVIOUS
<1> QED
    BY <1>1, Zenon DEF Extends

LEMMA ExtendsTwice ==
    ASSUME NEW q \in Seq(Signals), NEW K, NEW r, Extends(q, r, K), NEW t, Extends(r, t, K)
    PROVE  Extends(q, t, K) /\ r \in Seq(Signals) /\ t \in Seq(Signals)
<1>1. PICK a \in Seq(Signals) : r = q \o a /\ \A i \in 1 .. Len(a) : a[i].kind \in K
    BY DEF Extends
<1>2. PICK b \in Seq(Signals) : t = r \o b /\ \A i \in 1 .. Len(b) : b[i].kind \in K
    BY DEF Extends
<1>3. t = q \o (a \o b) /\ a \o b \in Seq(Signals) /\ t \in Seq(Signals) /\ r \in Seq(Signals)
    BY <1>1, <1>2
<1>4. \A i \in 1 .. Len(a \o b) : \/ i \in 1 .. Len(a) /\ (a \o b)[i] = a[i]
                                  \/ i - Len(a) \in 1 .. Len(b) /\ (a \o b)[i] = b[i - Len(a)]
    OBVIOUS
<1>5. \A i \in 1 .. Len(a \o b) : (a \o b)[i].kind \in K
    BY <1>1, <1>2, <1>4
<1> QED
    BY <1>3, <1>5, Zenon DEF Extends

LEMMA ExtendsMore ==
    ASSUME NEW q, NEW r, NEW K, Extends(q, r, K), NEW M, \A k \in K : k \in M
    PROVE  Extends(q, r, M)
BY DEF Extends

LEMMA NoneOfMore ==
    ASSUME NEW q \in Seq(Signals), NEW r, NEW K, Extends(q, r, K),
           NEW M, \A k \in M : k \notin K
    PROVE  NoneOf(q, M) <=> NoneOf(r, M)
<1>1. PICK b \in Seq(Signals) : r = q \o b /\ \A i \in 1 .. Len(b) : b[i].kind \in K
    BY DEF Extends
<1>2. /\ \A i \in 1 .. Len(r) : \/ i \in 1 .. Len(q) /\ r[i] = q[i]
                                \/ i - Len(q) \in 1 .. Len(b) /\ r[i] = b[i - Len(q)]
      /\ \A i \in 1 .. Len(q) : i \in 1 .. Len(r) /\ r[i] = q[i]
    BY <1>1
<1> QED
    BY <1>1, <1>2 DEF NoneOf

LEMMA SaysNoMore ==
    ASSUME NEW q \in Seq(Signals), NEW r, NEW K, Extends(q, r, K),
           NEW M, \A k \in M : k \notin K
    PROVE  \A s : Says(q, M, s) <=> Says(r, M, s)
<1>1. PICK b \in Seq(Signals) : r = q \o b /\ \A i \in 1 .. Len(b) : b[i].kind \in K
    BY DEF Extends
<1>2. /\ \A i \in 1 .. Len(r) : \/ i \in 1 .. Len(q) /\ r[i] = q[i]
                                \/ i - Len(q) \in 1 .. Len(b) /\ r[i] = b[i - Len(q)]
      /\ \A i \in 1 .. Len(q) : i \in 1 .. Len(r) /\ r[i] = q[i]
    BY <1>1
<1>3. ASSUME NEW s
      PROVE  (\E i \in 1 .. Len(q) : Is(q[i], M, s)) <=> (\E i \in 1 .. Len(r) : Is(r[i], M, s))
    BY <1>1, <1>2 DEF Is
<1> QED
    BY <1>3 DEF Says

LEMMA NoneOfTail ==
    ASSUME NEW q \in Seq(Signals), q # <<>>, NEW K, NoneOf(q, K)
    PROVE  NoneOf(Tail(q), K) /\ Head(q).kind \notin K
BY Taken DEF NoneOf

\* A block of Mir's about its focus.
LEMMA SignalsAreFocusKinds ==
    /\ Started.kind \in FocusKinds /\ Ended.kind \in FocusKinds
    /\ \A s : /\ Event("shown", s).kind \in FocusKinds /\ Event("lost", s).kind \in FocusKinds
              /\ Event("gained", s).kind \in FocusKinds /\ Event("raised", s).kind \in FocusKinds
    /\ Started \in Signals /\ Ended \in Signals
    /\ \A s \in Surfaces : /\ Event("shown", s) \in Signals /\ Event("lost", s) \in Signals
                           /\ Event("gained", s) \in Signals /\ Event("raised", s) \in Signals
<1>1. \A s \in Surfaces : /\ Event("shown", s) \in Signals /\ Event("lost", s) \in Signals
                          /\ Event("gained", s) \in Signals /\ Event("raised", s) \in Signals
    BY EventType DEF EventKinds, Brackets
<1> QED
    BY <1>1, BracketType DEF Started, Ended, Event, FocusKinds

\* Signals put at the end together are signals put there one after the other.
LEMMA SignalsAtOnce ==
    ASSUME NEW q \in Seq(Signals), NEW a \in Signals, NEW b \in Signals
    PROVE  /\ q \o <<a, b>> = (q \o <<a>>) \o <<b>>
           /\ \A c \in Signals : q \o <<a, b, c>> = ((q \o <<a>>) \o <<b>>) \o <<c>>
<1>1. q \o <<a, b>> = (q \o <<a>>) \o <<b>>
    <2> DEFINE l == q \o <<a, b>>
               r == (q \o <<a>>) \o <<b>>
    <2>1. l \in Seq(Signals) /\ Len(l) = Len(q) + 2 /\ Len(q) \in Nat
          /\ l[Len(q) + 1] = a /\ l[Len(q) + 2] = b
          /\ \A i \in 1 .. Len(q) : l[i] = q[i]
        OBVIOUS
    <2>2. r \in Seq(Signals) /\ Len(r) = Len(q) + 2 /\ r[Len(q) + 1] = a /\ r[Len(q) + 2] = b
          /\ \A i \in 1 .. Len(q) : r[i] = q[i]
        OBVIOUS
    <2> HIDE DEF l, r
    <2>3. \A i \in 1 .. Len(l) : i \in 1 .. Len(q) \/ i = Len(q) + 1 \/ i = Len(q) + 2
        BY <2>1
    <2>4. \A i \in 1 .. Len(l) : l[i] = r[i]
        BY <2>1, <2>2, <2>3
    <2>5. l = r
        BY <2>1, <2>2, <2>4, SeqEqual
    <2> QED
        BY <2>5 DEF l, r
<1>2. ASSUME NEW c \in Signals
      PROVE  q \o <<a, b, c>> = ((q \o <<a>>) \o <<b>>) \o <<c>>
    <2> DEFINE l == q \o <<a, b, c>>
               p == (q \o <<a>>) \o <<b>>
               r == p \o <<c>>
    <2>1. l \in Seq(Signals) /\ Len(l) = Len(q) + 3 /\ Len(q) \in Nat
          /\ l[Len(q) + 1] = a /\ l[Len(q) + 2] = b /\ l[Len(q) + 3] = c
          /\ \A i \in 1 .. Len(q) : l[i] = q[i]
        OBVIOUS
    <2>2. p \in Seq(Signals) /\ Len(p) = Len(q) + 2 /\ p[Len(q) + 1] = a /\ p[Len(q) + 2] = b
          /\ \A i \in 1 .. Len(q) : p[i] = q[i]
        OBVIOUS
    <2> HIDE DEF p
    <2>3. r \in Seq(Signals) /\ Len(r) = Len(p) + 1 /\ r[Len(p) + 1] = c
          /\ \A i \in 1 .. Len(p) : r[i] = p[i]
        BY <2>2
    <2> HIDE DEF l, r
    <2>4. \A i \in 1 .. Len(l) : i \in 1 .. Len(q) \/ i = Len(q) + 1 \/ i = Len(q) + 2 \/ i = Len(q) + 3
        BY <2>1
    <2>5. \A i \in 1 .. Len(q) : i \in 1 .. Len(p)
        BY <2>1, <2>2
    <2>6. Len(q) + 1 \in 1 .. Len(p) /\ Len(q) + 2 \in 1 .. Len(p) /\ Len(p) + 1 = Len(q) + 3
        BY <2>1, <2>2
    <2>7. \A i \in 1 .. Len(l) : l[i] = r[i]
        BY <2>1, <2>2, <2>3, <2>4, <2>5, <2>6
    <2>8. Len(l) = Len(r)
        BY <2>1, <2>2, <2>3
    <2>9. l = r
        BY <2>1, <2>3, <2>7, <2>8, SeqEqual
    <2> QED
        BY <2>9 DEF l, r, p
<1> QED
    BY <1>1, <1>2

\* activateTopMostWindowWithoutId() does nothing or activates a row's window.
LEMMA TopMostIsRow ==
    ASSUME NEW id, NEW S, NEW r \in Seq(S), NEW sf, NEW hf, NEW f, NEW q,
           ActivateTopMostWindowWithoutId(id, r, sf, hf, f, q)
    PROVE  \/ /\ rows' = r /\ hasFocus' = hf /\ focus' = f /\ events' = q
              /\ UNCHANGED <<mirFocus, mirHidden>>
           \/ \E i \in 1 .. Len(r) : r[i] # id /\ Activate(r[i], r, sf, hf, f, q)
<1> DEFINE I == {i \in 1 .. Len(r) : r[i] # id}
           i == IF I # {} THEN Min(I) ELSE 0
<1>1. SelectInSeq(r, LAMBDA w : w # id) = i
    BY DEF SelectInSeq
<1>2. I \subseteq Nat
    OBVIOUS
<1>3. i = 0 \/ i \in I
    BY <1>2, MinIsLeast
<1> HIDE DEF i
<1>4. CASE i = 0
    BY <1>1, <1>4 DEF ActivateTopMostWindowWithoutId
<1>5. CASE i \in I
    <2>1. i \in 1 .. Len(r) /\ r[i] # id /\ i # 0
        BY <1>5
    <2>2. Activate(r[i], r, sf, hf, f, q)
        BY <1>1, <2>1 DEF ActivateTopMostWindowWithoutId
    <2> QED
        BY <2>1, <2>2
<1> QED
    BY <1>3, <1>4, <1>5

OptionalSignal(cond, e) == IF cond THEN <<e>> ELSE <<>>
LostSignals(s) == OptionalSignal(s # NoSurface, Event("lost", s))
GainedSignals(s) == IF s = NoSurface THEN <<>> ELSE <<Event("gained", s), Event("raised", s)>>

LEMMA OptionalSignalType ==
    ASSUME NEW cond, NEW e, cond => e \in Signals
    PROVE  OptionalSignal(cond, e) \in Seq(Signals)
BY DEF OptionalSignal

LEMMA FocusSignalsTypes ==
    ASSUME NEW s \in Surfaces \cup {NoSurface}
    PROVE  LostSignals(s) \in Seq(Signals) /\ GainedSignals(s) \in Seq(Signals)
<1>1. s # NoSurface => s \in Surfaces
    OBVIOUS
<1>2. LostSignals(s) \in Seq(Signals)
    BY <1>1, OptionalSignalType, SignalsAreFocusKinds DEF LostSignals
<1>3. GainedSignals(s) \in Seq(Signals)
    BY <1>1, SignalsAreFocusKinds DEF GainedSignals
<1> QED
    BY <1>2, <1>3

\* What Mir reports when it moves its focus to s, in the order of its parts.
MovesFocus(q, shown, old, s) ==
    (((q \o <<Started>>) \o shown) \o LostSignals(old)) \o GainedSignals(s) \o <<Ended>>

LEMMA MirActivateMoves ==
    ASSUME NEW s \in Surfaces \cup {NoSurface}, NEW q \in Seq(Signals), MirActivate(s, q),
           mirFocus \in Surfaces \cup {NoSurface}, mirHidden \subseteq Surfaces
    PROVE  \/ events' = q /\ UNCHANGED <<mirFocus, mirHidden>>
           \/ /\ s # mirFocus
              /\ s # NoSurface => Live(s)
              /\ mirFocus' = s /\ mirHidden' = mirHidden \ {s}
              /\ events' = MovesFocus(q, OptionalSignal(s \in mirHidden, Event("shown", s)), mirFocus, s)
<1>1. CASE s = mirFocus \/ (s # NoSurface /\ ~Live(s))
    BY <1>1 DEF MirActivate
<1>2. CASE ~(s = mirFocus \/ (s # NoSurface /\ ~Live(s)))
    <2> DEFINE shown == OptionalSignal(s \in mirHidden, Event("shown", s))
    <2>1. shown \in Seq(Signals)
        BY OptionalSignalType, SignalsAreFocusKinds
    <2>2. FocusSignals(mirFocus, s) = LostSignals(mirFocus) \o GainedSignals(s)
        BY DEF FocusSignals, LostSignals, GainedSignals, OptionalSignal
    <2>3. /\ mirFocus' = s /\ mirHidden' = mirHidden \ {s}
          /\ events' = q \o <<Started>> \o shown \o FocusSignals(mirFocus, s) \o <<Ended>>
        BY <1>2 DEF MirActivate, OptionalSignal
    <2> HIDE DEF shown
    <2>4. LostSignals(mirFocus) \in Seq(Signals) /\ GainedSignals(s) \in Seq(Signals)
        BY FocusSignalsTypes
    <2>5. q \o <<Started>> \o shown \o (LostSignals(mirFocus) \o GainedSignals(s)) \o <<Ended>>
              = (((q \o <<Started>>) \o shown) \o LostSignals(mirFocus)) \o GainedSignals(s) \o <<Ended>>
        <3> DEFINE x == q \o <<Started>> \o shown
                   l == LostSignals(mirFocus)
                   g == GainedSignals(s)
        <3>1. x \in Seq(Signals)
            BY <2>1, BracketType
        <3>2. l \in Seq(Signals) /\ g \in Seq(Signals)
            BY <2>4
        <3> HIDE DEF x, l, g
        <3>3. x \o (l \o g) = (x \o l) \o g
            BY <3>1, <3>2
        <3>4. (x \o (l \o g)) \o <<Ended>> = ((x \o l) \o g) \o <<Ended>>
            BY <3>3, Zenon
        <3> QED
            BY <3>4, Zenon DEF x, l, g
    <2>6. events' = MovesFocus(q, shown, mirFocus, s)
        BY <2>2, <2>3, <2>5, Zenon DEF MovesFocus
    <2> QED
        BY <1>2, <2>3, <2>6 DEF shown
<1> QED
    BY <1>1, <1>2

LEMMA ExtendsByOptional ==
    ASSUME NEW q \in Seq(Signals), NEW cond, NEW e, cond => e \in Signals, NEW K, e.kind \in K
    PROVE  Extends(q, q \o OptionalSignal(cond, e), K) /\ q \o OptionalSignal(cond, e) \in Seq(Signals)
<1>1. CASE cond
    BY <1>1, ExtendsByOne DEF OptionalSignal
<1>2. CASE ~cond
    BY <1>2, ExtendsItself DEF OptionalSignal
<1> QED
    BY <1>1, <1>2

LEMMA MovesFocusExtends ==
    ASSUME NEW q \in Seq(Signals), NEW old \in Surfaces \cup {NoSurface},
           NEW s \in Surfaces \cup {NoSurface}, NEW cond, NEW e, cond => e \in Signals,
           NEW K, e.kind \in K, \A k \in FocusKinds : k \in K
    PROVE  Extends(q, MovesFocus(q, OptionalSignal(cond, e), old, s), K)
<1> DEFINE shown == OptionalSignal(cond, e)
           q1 == q \o <<Started>>
           q2 == q1 \o shown
           q3 == q2 \o LostSignals(old)
           q4 == q3 \o GainedSignals(s)
           q5 == q4 \o <<Ended>>
<1>0. /\ Started.kind \in K /\ Ended.kind \in K
      /\ \A x : Event("lost", x).kind \in K /\ Event("gained", x).kind \in K
                /\ Event("raised", x).kind \in K
    BY SignalsAreFocusKinds
<1>1. Extends(q, q1, K) /\ q1 \in Seq(Signals)
    BY <1>0, ExtendsByOne, SignalsAreFocusKinds
<1> HIDE DEF q1
<1>2. Extends(q1, q2, K) /\ q2 \in Seq(Signals)
    BY <1>0, <1>1, ExtendsByOptional, SignalsAreFocusKinds
<1> HIDE DEF q2
<1>3. Extends(q2, q3, K) /\ q3 \in Seq(Signals)
    BY <1>0, <1>2, ExtendsByOptional, SignalsAreFocusKinds DEF LostSignals
<1> HIDE DEF q3
<1>4. Extends(q3, q4, K) /\ q4 \in Seq(Signals)
    <2>1. CASE s = NoSurface
        BY <1>3, <2>1, ExtendsItself DEF GainedSignals
    <2>2. CASE s # NoSurface
        <3>1. Event("gained", s) \in Signals /\ Event("raised", s) \in Signals
            BY <2>2, SignalsAreFocusKinds
        <3>2. q4 = (q3 \o <<Event("gained", s)>>) \o <<Event("raised", s)>>
            BY <1>3, <2>2, <3>1 DEF GainedSignals
        <3>3. /\ Extends(q3, q3 \o <<Event("gained", s)>>, K)
              /\ q3 \o <<Event("gained", s)>> \in Seq(Signals)
            BY <1>0, <1>3, <3>1, ExtendsByOne, SignalsAreFocusKinds
        <3>4. Extends(q3 \o <<Event("gained", s)>>, q4, K)
            BY <1>0, <3>1, <3>2, <3>3, ExtendsByOne, SignalsAreFocusKinds
        <3> QED
            BY <1>3, <3>3, <3>4, ExtendsTwice
    <2> QED
        BY <2>1, <2>2
<1> HIDE DEF q4
<1>5. Extends(q4, q5, K) /\ q5 \in Seq(Signals)
    BY <1>0, <1>4, ExtendsByOne, SignalsAreFocusKinds
<1>6. q5 = MovesFocus(q, shown, old, s)
    BY DEF MovesFocus, q4, q3, q2, q1
<1> HIDE DEF q5
<1>7. Extends(q, q2, K)
    BY <1>1, <1>2, ExtendsTwice
<1>8. Extends(q, q3, K)
    BY <1>3, <1>7, ExtendsTwice
<1>9. Extends(q, q4, K)
    BY <1>4, <1>8, ExtendsTwice
<1>10. Extends(q, q5, K)
    BY <1>5, <1>9, ExtendsTwice
<1> QED
    BY <1>6, <1>10

LEMMA MirActivateExtends ==
    ASSUME NEW s \in Surfaces \cup {NoSurface}, NEW q \in Seq(Signals), MirActivate(s, q), TypeOK
    PROVE  Extends(q, events', FocusKinds)
<1>1. mirFocus \in Surfaces \cup {NoSurface} /\ mirHidden \subseteq Surfaces
    BY DEF TypeOK
<1>2. CASE events' = q
    BY <1>2, ExtendsItself
<1>3. CASE events' = MovesFocus(q, OptionalSignal(s \in mirHidden, Event("shown", s)), mirFocus, s)
    <2>1. s \in mirHidden => Event("shown", s) \in Signals
        BY <1>1, SignalsAreFocusKinds
    <2> QED
        BY <1>1, <1>3, <2>1, MovesFocusExtends, SignalsAreFocusKinds
<1> QED
    BY <1>1, <1>2, <1>3, MirActivateMoves

(* Mir's other steps, as blocks of that form.                              *)
LEMMA MirSteps ==
    ASSUME TypeOK, NEW s \in Surfaces, NEW next \in Surfaces \cup {NoSurface}
    PROVE  /\ HideSurface(s, next) =>
                 events' = MovesFocus(events, OptionalSignal(TRUE, Event("hidden", s)),
                                      IF mirFocus = s THEN s ELSE NoSurface, next)
           /\ ShowSurface(s) =>
                 events' = MovesFocus(events, OptionalSignal(TRUE, Event("shown", s)),
                                      NoSurface, NoSurface)
           /\ Destroy(s, next) =>
                 events' = (IF mirFocus = s
                            THEN MovesFocus(events, OptionalSignal(FALSE, Event("shown", s)),
                                            NoSurface, next)
                            ELSE events) \o <<Event("destroyed", s)>>
<1>1. /\ events \in Seq(Signals) /\ mirFocus \in Surfaces \cup {NoSurface} /\ s # NoSurface
      /\ Started \in Signals /\ Ended \in Signals
      /\ Event("hidden", s) \in Signals /\ Event("shown", s) \in Signals
      /\ Event("destroyed", s) \in Signals
    BY EventType, BracketType, SurfacesAssumption DEF TypeOK, EventKinds, Brackets
<1>2. /\ LostSignals(NoSurface) = <<>> /\ GainedSignals(NoSurface) = <<>>
      /\ \A e : OptionalSignal(TRUE, e) = <<e>> /\ OptionalSignal(FALSE, e) = <<>>
      /\ \A old, new : FocusSignals(old, new) = LostSignals(old) \o GainedSignals(new)
    BY DEF LostSignals, GainedSignals, OptionalSignal, FocusSignals
<1>3. \A q \in Seq(Signals) : q \o <<>> = q
    OBVIOUS
<1>4. LostSignals(s) \in Seq(Signals) /\ GainedSignals(next) \in Seq(Signals)
    BY FocusSignalsTypes
<1>5. ASSUME HideSurface(s, next)
      PROVE  events' = MovesFocus(events, OptionalSignal(TRUE, Event("hidden", s)),
                                  IF mirFocus = s THEN s ELSE NoSurface, next)
    <2> DEFINE q == (events \o <<Started>>) \o <<Event("hidden", s)>>
               focused == IF mirFocus = s THEN s ELSE NoSurface
    <2>1. q \in Seq(Signals) /\ events \o <<Started, Event("hidden", s)>> = q
        BY <1>1, SignalsAtOnce
    <2>2. events' = q \o (IF mirFocus = s THEN FocusSignals(s, next) ELSE <<>>) \o <<Ended>>
        BY <1>5, <2>1 DEF HideSurface
    <2> HIDE DEF q
    <2>3. ASSUME mirFocus # s
          PROVE  next = NoSurface
        BY <1>5, <2>3 DEF HideSurface
    <2>4. (IF mirFocus = s THEN FocusSignals(s, next) ELSE <<>>)
              = LostSignals(focused) \o GainedSignals(next)
        BY <1>2, <2>3
    <2>5. LostSignals(focused) \in Seq(Signals)
        BY FocusSignalsTypes
    <2>6. q \o (LostSignals(focused) \o GainedSignals(next))
              = (q \o LostSignals(focused)) \o GainedSignals(next)
        BY <1>4, <2>1, <2>5, SMTT(20)
    <2> QED
        BY <1>2, <2>2, <2>4, <2>6, Zenon DEF MovesFocus, q
<1>6. ASSUME ShowSurface(s)
      PROVE  events' = MovesFocus(events, OptionalSignal(TRUE, Event("shown", s)), NoSurface, NoSurface)
    <2> DEFINE q == (events \o <<Started>>) \o <<Event("shown", s)>>
    <2>1. q \in Seq(Signals)
        BY <1>1
    <2>2. events' = q \o <<Ended>>
        <3>1. events' = events \o <<Started, Event("shown", s), Ended>>
            BY <1>6 DEF ShowSurface
        <3>2. events \o <<Started, Event("shown", s), Ended>>
                  = ((events \o <<Started>>) \o <<Event("shown", s)>>) \o <<Ended>>
            <4>1. events \in Seq(Signals)
                BY <1>1
            <4>2. ASSUME NEW a \in Signals, NEW b \in Signals, NEW c \in Signals
                  PROVE  events \o <<a, b, c>> = ((events \o <<a>>) \o <<b>>) \o <<c>>
                BY <4>1, SignalsAtOnce, ZenonT(30)
            <4> QED
                BY <1>1, <4>2, ZenonT(30)
        <3> QED
            BY <3>1, <3>2
    <2>3. q = (q \o <<>>) \o <<>>
        BY <1>3, <2>1
    <2> QED
        BY <1>2, <2>2, <2>3, Zenon DEF MovesFocus, q
<1>7. ASSUME Destroy(s, next)
      PROVE  events' = (IF mirFocus = s
                        THEN MovesFocus(events, OptionalSignal(FALSE, Event("shown", s)), NoSurface, next)
                        ELSE events) \o <<Event("destroyed", s)>>
    <2>1. CASE mirFocus = s
        <3> DEFINE x == <<Started>>
                   y == GainedSignals(next)
                   z == <<Ended>>
        <3>1. x \in Seq(Signals) /\ y \in Seq(Signals) /\ z \in Seq(Signals)
            BY <1>1, <1>4
        <3>2. events' = events \o (x \o (<<>> \o y) \o z) \o <<Event("destroyed", s)>>
            BY <1>2, <1>7, <2>1 DEF Destroy
        <3>3. MovesFocus(events, OptionalSignal(FALSE, Event("shown", s)), NoSurface, next)
                  = (((events \o x) \o <<>>) \o <<>>) \o y \o z
            BY <1>2 DEF MovesFocus
        <3> HIDE DEF x, y, z
        <3>4. <<>> \o y = y /\ ((events \o x) \o <<>>) \o <<>> = events \o x
            BY <1>1, <3>1
        <3>5. events \o (x \o y \o z) = (events \o x) \o y \o z
            BY <1>1, <3>1
        <3> QED
            BY <2>1, <3>2, <3>3, <3>4, <3>5
    <2>2. CASE mirFocus # s
        <3>1. events' = events \o <<>> \o <<Event("destroyed", s)>>
            BY <1>7, <2>2 DEF Destroy
        <3> QED
            BY <1>1, <1>3, <2>2, <3>1
    <2> QED
        BY <2>1, <2>2
<1> QED
    BY <1>5, <1>6, <1>7, Zenon

(* What a call of the shell's has Mir do: raise a surface, and then focus  *)
(* one, or none, or leave the focus where it is.                           *)
RaisedIn(q, t) ==
    \/ t = q
    \/ \E s \in Surfaces : Live(s) /\ t = ((q \o <<Started>>) \o <<Event("raised", s)>>) \o <<Ended>>
Calls(q) == \E t, s : RaisedIn(q, t) /\ s \in Surfaces \cup {NoSurface} /\ MirActivate(s, t)

LEMMA RaisedIsQueue ==
    ASSUME NEW q \in Seq(Signals), NEW t, RaisedIn(q, t)
    PROVE  t \in Seq(Signals)
<1>1. Started \in Signals /\ Ended \in Signals /\ \A s \in Surfaces : Event("raised", s) \in Signals
    BY SignalsAreFocusKinds
<1>2. ASSUME NEW a \in Signals, NEW b \in Signals, NEW c \in Signals
      PROVE  ((q \o <<a>>) \o <<b>>) \o <<c>> \in Seq(Signals)
    OBVIOUS
<1> QED
    BY <1>1, <1>2, Zenon DEF RaisedIn

\* No call at all.
LEMMA NothingCalled ==
    ASSUME TypeOK, NEW q, events' = q, UNCHANGED <<mirFocus, mirHidden>>
    PROVE  Calls(q)
BY DEF TypeOK, Calls, RaisedIn, MirActivate

LEMMA RaisedQueueRaises ==
    ASSUME NEW id, NEW r \in Seq(Rows), NEW sf \in SurfaceMaps, NEW q \in Seq(Signals)
    PROVE  RaisedIn(q, RaisedQueue(id, r, sf, q))
<1> DEFINE i == IndexForId(id, r)
           s == sf[r[i]]
<1>1. CASE RaisedQueue(id, r, sf, q) = q
    BY <1>1 DEF RaisedIn
<1>2. CASE RaisedQueue(id, r, sf, q) = MirRaise(s, q) /\ i > 1
    <2>1. i \in 1 .. Len(r)
        BY <1>2, IndexForIdFinds
    <2>2. s \in Surfaces \cup {NoSurface}
        BY <2>1 DEF SurfaceMaps, Rows
    <2>3. CASE ~Live(s)
        BY <1>2, <2>3 DEF MirRaise, RaisedIn
    <2>4. CASE Live(s)
        <3>1. s \in Surfaces /\ Event("raised", s) \in Signals
            BY <2>2, <2>4, SignalsAreFocusKinds DEF Live
        <3>2. RaisedQueue(id, r, sf, q) = q \o <<Started, Event("raised", s), Ended>>
            BY <1>2, <2>4 DEF MirRaise
        <3> HIDE DEF s
        <3>3. RaisedQueue(id, r, sf, q) = ((q \o <<Started>>) \o <<Event("raised", s)>>) \o <<Ended>>
            <4>1. ASSUME NEW a \in Signals, NEW b \in Signals, NEW c \in Signals
                  PROVE  q \o <<a, b, c>> = ((q \o <<a>>) \o <<b>>) \o <<c>>
                BY SignalsAtOnce, ZenonT(30)
            <4>2. Started \in Signals /\ Ended \in Signals
                BY BracketType
            <4> QED
                BY <3>1, <3>2, <4>1, <4>2, Zenon
        <3> QED
            BY <2>4, <3>1, <3>3, Zenon DEF RaisedIn
    <2> QED
        BY <2>3, <2>4
<1> QED
    BY <1>1, <1>2 DEF RaisedQueue

LEMMA ActivateCalls ==
    ASSUME NEW w \in Windows, NEW r \in Seq(Rows), NEW sf \in SurfaceMaps, NEW hf, NEW f,
           NEW q \in Seq(Signals), TypeOK, Activate(w, r, sf, hf, f, q)
    PROVE  Calls(q)
<1>1. CASE sf[w] = NoSurface
    <2> DEFINE p == RaisedQueue(IdOf(w), r, sf, q)
    <2>1. RaisedIn(q, p)
        BY RaisedQueueRaises
    <2>2. (events' = p /\ UNCHANGED <<mirFocus, mirHidden>>) \/ MirActivate(NoSurface, p)
        BY <1>1 DEF Activate, ActivateEmptyWindow
    <2> HIDE DEF p
    <2>3. MirActivate(mirFocus, p) \/ MirActivate(NoSurface, p)
        BY <2>2 DEF MirActivate
    <2> QED
        BY <2>1, <2>3 DEF Calls, TypeOK
<1>2. CASE sf[w] # NoSurface
    <2>1. sf[w] \in Surfaces \cup {NoSurface}
        BY SurfaceMapsType
    <2>2. MirActivate(sf[w], q)
        BY <1>2 DEF Activate
    <2>3. RaisedIn(q, q)
        BY DEF RaisedIn
    <2> QED
        BY <2>1, <2>2, <2>3, Zenon DEF Calls
<1> QED
    BY <1>1, <1>2

LEMMA TopMostCalls ==
    ASSUME NEW id, NEW r \in Seq(Rows), NEW sf \in SurfaceMaps, NEW hf, NEW f,
           NEW q \in Seq(Signals), TypeOK, ActivateTopMostWindowWithoutId(id, r, sf, hf, f, q)
    PROVE  Calls(q)
<1>1. CASE events' = q /\ UNCHANGED <<mirFocus, mirHidden>>
    BY <1>1, NothingCalled
<1>2. CASE \E i \in 1 .. Len(r) : Activate(r[i], r, sf, hf, f, q)
    <2>1. PICK i \in 1 .. Len(r) : Activate(r[i], r, sf, hf, f, q)
        BY <1>2
    <2>2. r[i] \in Windows
        BY DEF Rows
    <2> QED
        BY <2>1, <2>2, ActivateCalls
<1> QED
    BY <1>1, <1>2, TopMostIsRow

LEMMA ShellCalls ==
    ASSUME TypeOK, ShellNext
    PROVE  Calls(events)
<1>1. /\ rows \in Seq(Rows) /\ surfaceOf \in SurfaceMaps /\ events \in Seq(Signals)
      /\ windows \subseteq Windows /\ NullWindow \in Windows
      /\ mirFocus \in Surfaces \cup {NoSurface}
    BY SurfaceMapsType DEF TypeOK, Rows, SurfaceMaps
<1>2. ASSUME NEW w \in Windows, Activate(w, rows, surfaceOf, hasFocus, focus, events)
      PROVE  Calls(events)
    BY <1>1, <1>2, ActivateCalls
<1>3. ASSUME NEW id, NEW f, ActivateTopMostWindowWithoutId(id, rows, surfaceOf, hasFocus, f, events)
      PROVE  Calls(events)
    BY <1>1, <1>3, TopMostCalls
<1>4. ASSUME events' = events, UNCHANGED <<mirFocus, mirHidden>>
      PROVE  Calls(events)
    BY <1>4, NothingCalled
<1>5. ASSUME NEW wanted, SetRootFocus(wanted)
      PROVE  Calls(events)
    BY <1>1, <1>2, <1>3, <1>4, <1>5 DEF SetRootFocus
<1>6. ASSUME NEW w \in Windows, RaiseId(w)
      PROVE  Calls(events)
    <2>1. RaisedIn(events, events') /\ UNCHANGED <<mirFocus, mirHidden>>
        BY <1>1, <1>6, RaisedQueueRaises DEF RaiseId
    <2>2. MirActivate(mirFocus, events')
        BY <2>1 DEF MirActivate
    <2> QED
        BY <1>1, <2>1, <2>2 DEF Calls
<1>7. ASSUME NEW w \in Windows, ActivateWindow(w) \/ CloseWindow(w)
      PROVE  Calls(events)
    BY <1>1, <1>2, <1>3, <1>4, <1>7 DEF ActivateWindow, CloseWindow
<1>8. ASSUME PendingActivation \/ CloseAllWindows
      PROVE  Calls(events)
    BY <1>3, <1>4, <1>8 DEF PendingActivation, CloseAllWindows
<1> QED
    BY <1>5, <1>6, <1>7, <1>8 DEF ShellNext

LEMMA ApplicationsCall ==
    ASSUME TypeOK, ApplicationNext
    PROVE  Calls(events)
<1>1. /\ rows \in Seq(Rows) /\ surfaceOf \in SurfaceMaps /\ events \in Seq(Signals)
    BY DEF TypeOK, Rows, SurfaceMaps
<1>2. CASE UNCHANGED events /\ UNCHANGED <<mirFocus, mirHidden>>
    BY <1>2, NothingCalled
<1>3. CASE NewWindow(NoSurface) /\ Activate(nextId, <<nextId>> \o rows, surfaceOf, hasFocus, focus, events)
    <2>1. nextId \in Rows /\ nextId \in Windows
        BY <1>3, NewWindowType
    <2>2. <<nextId>> \o rows \in Seq(Rows)
        BY <1>1, <2>1
    <2> QED
        BY <1>1, <1>3, <2>1, <2>2, ActivateCalls
<1> QED
    BY <1>2, <1>3 DEF ApplicationNext, AddApplication, RemoveApplication

LEMMA PrependCalls ==
    ASSUME TypeOK, NEW s \in Surfaces, NEW r, NEW q, PrependSurface(s, r, q)
    PROVE  Calls(q)
<1>1. (events' = q /\ UNCHANGED <<mirFocus, mirHidden>>) \/ MirActivate(s, q)
    BY DEF PrependSurface
<1>2. CASE MirActivate(s, q)
    BY <1>2 DEF Calls, RaisedIn
<1> QED
    BY <1>1, <1>2, NothingCalled

LEMMA SignalsCall ==
    ASSUME TypeOK, SignalNext
    PROVE  /\ events \in Seq(Signals) /\ events # <<>> /\ Tail(events) \in Seq(Signals)
           /\ Calls(Tail(events))
<1>1. events \in Seq(Signals) /\ events # <<>> /\ Tail(events) \in Seq(Signals)
    <2>1. events # <<>>
        BY Zenon
        DEF SignalNext, OnModificationsStarted, OnModificationsEnded, FocusLost, FocusGained,
            UpdateFocused, OnSurfacesRaised, SkipKnownSurface, RemoveSurfaces, DeferHiddenSurface,
            AddTopLevelSurface, WrapSurface, SetInputMethodWindow, Arrives, SurfaceHidden,
            SurfaceShown, SurfaceDied, InputMethodDied, SurfaceDestroyed, Deliver
    <2> QED
        BY <2>1 DEF TypeOK
<1> DEFINE q == Tail(events)
<1> SUFFICES Calls(q)
    BY <1>1
<1> HIDE DEF q
<1>2. ASSUME NEW s \in Surfaces, NEW r, PrependSurface(s, r, q)
      PROVE  Calls(q)
    BY <1>2, PrependCalls
<1>3. ASSUME events' = q, UNCHANGED <<mirFocus, mirHidden>>
      PROVE  Calls(q)
    BY <1>3, NothingCalled
<1>4. CASE \E s \in Surfaces : AddTopLevelSurface(s)
    <2>1. PICK s \in Surfaces : AddTopLevelSurface(s)
        BY <1>4
    <2>2. PrependSurface(s, rows, q)
        BY <2>1, Zenon DEF AddTopLevelSurface, q
    <2> QED
        BY <2>2, <1>2
<1>5. CASE SurfaceShown
    <2>1. Subject \in Surfaces
        BY <1>5, SubjectType DEF SurfaceShown, Brackets
    <2>2. (events' = q /\ UNCHANGED <<mirFocus, mirHidden>>) \/ \E r : PrependSurface(Subject, r, q)
        BY <1>5 DEF SurfaceShown, q
    <2>3. CASE events' = q /\ UNCHANGED <<mirFocus, mirHidden>>
        BY <1>3, <2>3
    <2>4. CASE \E r : PrependSurface(Subject, r, q)
        BY <1>2, <2>1, <2>4
    <2> QED
        BY <2>2, <2>3, <2>4
<1>6. CASE ~(\E s \in Surfaces : AddTopLevelSurface(s)) /\ ~SurfaceShown
    <2>1. events' = q /\ UNCHANGED <<mirFocus, mirHidden>>
        BY <1>6
        DEF q, SignalNext, OnModificationsStarted, OnModificationsEnded, FocusLost, FocusGained,
            UpdateFocused, OnSurfacesRaised, SkipKnownSurface, RemoveSurfaces, DeferHiddenSurface,
            WrapSurface, SetInputMethodWindow, SurfaceHidden, SurfaceDied, InputMethodDied,
            SurfaceDestroyed, modelVars, mirVars
    <2> QED
        BY <2>1, <1>3
<1> QED
    BY <1>4, <1>5, <1>6

\* Such a call adds signals about the focus to the queue.
LEMMA CallsExtend ==
    ASSUME TypeOK, NEW q \in Seq(Signals), Calls(q)
    PROVE  Extends(q, events', FocusKinds)
<1>1. PICK t, s : RaisedIn(q, t) /\ s \in Surfaces \cup {NoSurface} /\ MirActivate(s, t)
    BY DEF Calls
<1>2. t \in Seq(Signals)
    BY <1>1, RaisedIsQueue
<1>3. Extends(t, events', FocusKinds)
    BY <1>1, <1>2, MirActivateExtends
<1>4. ASSUME NEW a \in Surfaces, t = ((q \o <<Started>>) \o <<Event("raised", a)>>) \o <<Ended>>
      PROVE  Extends(q, t, FocusKinds)
    <2> DEFINE q1 == q \o <<Started>>
               q2 == q1 \o <<Event("raised", a)>>
               q3 == q2 \o <<Ended>>
    <2>1. Extends(q, q1, FocusKinds) /\ q1 \in Seq(Signals)
        BY ExtendsByOne, SignalsAreFocusKinds
    <2> HIDE DEF q1
    <2>2. Extends(q1, q2, FocusKinds) /\ q2 \in Seq(Signals)
        BY <2>1, ExtendsByOne, SignalsAreFocusKinds
    <2> HIDE DEF q2
    <2>3. Extends(q2, q3, FocusKinds) /\ q3 \in Seq(Signals)
        BY <2>2, ExtendsByOne, SignalsAreFocusKinds
    <2> HIDE DEF q3
    <2>4. Extends(q, q3, FocusKinds)
        BY <2>1, <2>2, <2>3, ExtendsTwice
    <2> QED
        BY <1>4, <2>4 DEF q3, q2, q1
<1>5. Extends(q, t, FocusKinds)
    BY <1>1, <1>4, ExtendsItself DEF RaisedIn
<1> QED
    BY <1>2, <1>3, <1>5, ExtendsTwice
-----------------------------------------------------------------------------
(* Who has a row.                                                          *)

LEMMA InRowsByNumber ==
    ASSUME NEW S, NEW r \in Seq(S)
    PROVE  \A w : InRows(w, r) <=> \E i \in 1 .. Len(r) : r[i] = w
BY DEF InRows

LEMMA RowsPrepended ==
    ASSUME NEW S, NEW r \in Seq(S), NEW x \in S
    PROVE  \A w : InRows(w, <<x>> \o r) <=> w = x \/ InRows(w, r)
<1> DEFINE q == <<x>> \o r
<1>1. q \in Seq(S) /\ Len(q) = Len(r) + 1 /\ Len(r) \in Nat /\ q[1] = x
    OBVIOUS
<1>2. \A i \in 1 .. Len(r) : q[i + 1] = r[i]
    OBVIOUS
<1> HIDE DEF q
<1>3. ASSUME NEW w, NEW i \in 1 .. Len(q), q[i] = w, w # x
      PROVE  \E j \in 1 .. Len(r) : r[j] = w
    <2>1. i # 1
        BY <1>1, <1>3
    <2>2. i - 1 \in 1 .. Len(r) /\ (i - 1) + 1 = i
        BY <1>1, <2>1
    <2>3. r[i - 1] = w
        BY <1>2, <1>3, <2>2
    <2> QED
        BY <2>2, <2>3
<1>4. ASSUME NEW w, NEW j \in 1 .. Len(r), r[j] = w
      PROVE  \E i \in 1 .. Len(q) : q[i] = w
    <2>1. j + 1 \in 1 .. Len(q)
        BY <1>1
    <2> QED
        BY <1>2, <1>4, <2>1
<1>5. 1 \in 1 .. Len(q)
    BY <1>1
<1>6. \A w : (\E i \in 1 .. Len(q) : q[i] = w) <=> w = x \/ \E j \in 1 .. Len(r) : r[j] = w
    BY <1>1, <1>3, <1>4, <1>5
<1>7. \A w : InRows(w, q) <=> \E i \in 1 .. Len(q) : q[i] = w
    BY <1>1, InRowsByNumber
<1>8. \A w : InRows(w, r) <=> \E i \in 1 .. Len(r) : r[i] = w
    BY InRowsByNumber
<1> QED
    BY <1>6, <1>7, <1>8, Zenon DEF q

LEMMA RowsMoved ==
    ASSUME NEW S, NEW r \in Seq(S), NEW i \in 1 .. Len(r)
    PROVE  \A w : InRows(w, MoveToFront(r, i)) <=> InRows(w, r)
<1> DEFINE q == MoveToFront(r, i)
<1>0. Len(r) \in Nat
    OBVIOUS
<1>1. /\ q \in Seq(S) /\ Len(q) = Len(r) /\ Len(r) \in Nat
      /\ \A k \in 1 .. Len(r) : q[k] = IF k = 1 THEN r[i] ELSE IF k <= i THEN r[k - 1] ELSE r[k]
    BY <1>0, MovedRows
<1> HIDE DEF q
<1>2. ASSUME NEW w, NEW k \in 1 .. Len(q), q[k] = w
      PROVE  \E j \in 1 .. Len(r) : r[j] = w
    <2>1. CASE k = 1
        BY <1>1, <1>2, <2>1
    <2>2. CASE k # 1 /\ k <= i
        <3>1. k - 1 \in 1 .. Len(r) /\ r[k - 1] = w
            BY <1>1, <1>2, <2>2
        <3> QED
            BY <3>1
    <2>3. CASE k # 1 /\ ~(k <= i)
        BY <1>1, <1>2, <2>3
    <2> QED
        BY <2>1, <2>2, <2>3
<1>3. ASSUME NEW w, NEW j \in 1 .. Len(r), r[j] = w
      PROVE  \E k \in 1 .. Len(q) : q[k] = w
    <2>1. CASE j = i
        <3>1. 1 \in 1 .. Len(q) /\ q[1] = w
            BY <1>1, <1>3, <2>1
        <3> QED
            BY <3>1
    <2>2. CASE j < i
        <3>1. j + 1 \in 1 .. Len(q) /\ q[j + 1] = r[j]
            BY <1>1, <2>2
        <3> QED
            BY <1>3, <3>1
    <2>3. CASE j > i
        <3>1. j \in 1 .. Len(q) /\ q[j] = r[j]
            BY <1>1, <2>3
        <3> QED
            BY <1>3, <3>1
    <2> QED
        BY <2>1, <2>2, <2>3
<1>4. \A w : (\E k \in 1 .. Len(q) : q[k] = w) <=> (\E j \in 1 .. Len(r) : r[j] = w)
    BY <1>2, <1>3
<1>5. \A w : InRows(w, q) <=> \E k \in 1 .. Len(q) : q[k] = w
    BY <1>1, InRowsByNumber
<1>6. \A w : InRows(w, r) <=> \E j \in 1 .. Len(r) : r[j] = w
    BY InRowsByNumber
<1> QED
    BY <1>4, <1>5, <1>6, Zenon DEF q

LEMMA RowsWithout ==
    ASSUME NEW S, NEW r \in Seq(S), NEW R
    PROVE  \A w : InRows(w, Without(r, R)) <=> InRows(w, r) /\ w \notin R
<1> DEFINE q == Without(r, R)
<1>1. /\ q \in Seq(S)
      /\ \A k \in 1 .. Len(q) : \E i \in 1 .. Len(r) : r[i] \notin R /\ q[k] = r[i]
      /\ \A i \in 1 .. Len(r) : r[i] \notin R => \E k \in 1 .. Len(q) : q[k] = r[i]
    BY WithoutRows
<1> HIDE DEF q
<1>2. ASSUME NEW w
      PROVE  (\E k \in 1 .. Len(q) : q[k] = w) <=> (\E i \in 1 .. Len(r) : r[i] = w) /\ w \notin R
    BY <1>1
<1>3. \A w : InRows(w, q) <=> \E i \in 1 .. Len(q) : q[i] = w
    BY <1>1, InRowsByNumber
<1>4. \A w : InRows(w, r) <=> \E i \in 1 .. Len(r) : r[i] = w
    BY InRowsByNumber
<1> QED
    BY <1>2, <1>3, <1>4, Zenon DEF q

LEMMA RowsRaised ==
    ASSUME NEW S, NEW r \in Seq(S), NEW id, NEW sf
    PROVE  \A w : InRows(w, RaisedRows(id, r, sf)) <=> InRows(w, r)
<1>1. IndexForId(id, r) = 0 \/ IndexForId(id, r) \in 1 .. Len(r)
    BY IndexForIdFinds
<1> QED
    BY <1>1, RowsMoved DEF RaisedRows

LEMMA RowsActivated ==
    ASSUME NEW w, NEW S, NEW r \in Seq(S), NEW sf, NEW hf, NEW f, NEW q, Activate(w, r, sf, hf, f, q)
    PROVE  \A v : InRows(v, rows') <=> InRows(v, r)
BY RowsRaised DEF Activate, ActivateEmptyWindow

LEMMA RowsTopMost ==
    ASSUME NEW id, NEW S, NEW r \in Seq(S), NEW sf, NEW hf, NEW f, NEW q,
           ActivateTopMostWindowWithoutId(id, r, sf, hf, f, q)
    PROVE  \A v : InRows(v, rows') <=> InRows(v, r)
BY TopMostIsRow, RowsActivated

LEMMA RowsKept ==
    ASSUME TypeOK, ShellNext
    PROVE  \A v : InRows(v, rows') <=> InRows(v, rows)
<1>1. rows \in Seq(Rows)
    BY DEF TypeOK, Rows
<1>2. ASSUME NEW w, Activate(w, rows, surfaceOf, hasFocus, focus, events)
      PROVE  \A v : InRows(v, rows') <=> InRows(v, rows)
    BY <1>1, <1>2, RowsActivated
<1>3. ASSUME NEW id, NEW f, ActivateTopMostWindowWithoutId(id, rows, surfaceOf, hasFocus, f, events)
      PROVE  \A v : InRows(v, rows') <=> InRows(v, rows)
    BY <1>1, <1>3, RowsTopMost
<1>4. ASSUME NEW wanted, SetRootFocus(wanted)
      PROVE  \A v : InRows(v, rows') <=> InRows(v, rows)
    BY <1>2, <1>3, <1>4 DEF SetRootFocus
<1>5. ASSUME NEW w, RaiseId(w) \/ ActivateWindow(w) \/ CloseWindow(w)
      PROVE  \A v : InRows(v, rows') <=> InRows(v, rows)
    BY <1>1, <1>2, <1>3, <1>5, RowsRaised DEF RaiseId, ActivateWindow, CloseWindow
<1>6. ASSUME PendingActivation \/ CloseAllWindows
      PROVE  \A v : InRows(v, rows') <=> InRows(v, rows)
    BY <1>3, <1>6 DEF PendingActivation, CloseAllWindows
<1> QED
    BY <1>4, <1>5, <1>6 DEF ShellNext

-----------------------------------------------------------------------------
(* The focus of windows without surface.                                   *)

\* Of the windows of D one without surface has the focus only if f names it.
Tracked(D, sf, hf, f) == \A v \in D : sf[v] = NoSurface /\ hf[v] => f.window = v

(* The focus moves to w, and leaves an empty window for it.                *)
LEMMA TrackedMoves ==
    ASSUME NEW D, D \subseteq Windows, NEW sf, NEW hf \in FocusMaps, NEW f \in FocusRecords,
           Tracked(D, sf, hf, f), NEW w, NEW hf1 \in FocusMaps,
           \A v \in Windows : v # w => hf1[v] = hf[v], NEW g, g.window = w
    PROVE  Tracked(D, sf, LeaveEmpty(hf1, sf, f, w), g)
<1> SUFFICES ASSUME NEW v \in D, sf[v] = NoSurface, LeaveEmpty(hf1, sf, f, w)[v], v # w
             PROVE  FALSE
    BY DEF Tracked
<1>1. v \in Windows /\ NoWindow \notin Windows
    BY DEF NoWindow, Windows
<1>2. LeaveEmpty(hf1, sf, f, w)[v] => hf1[v]
    BY <1>1 DEF LeaveEmpty, FocusMaps
<1>3. f.window = v
    BY <1>1, <1>2 DEF Tracked
<1> QED
    BY <1>1, <1>3 DEF LeaveEmpty, FocusMaps

LEMMA TrackedActivate ==
    ASSUME NEW D, D \subseteq Windows, NEW w \in Windows, NEW r, NEW sf, NEW hf \in FocusMaps,
           NEW f \in FocusRecords, NEW q, Activate(w, r, sf, hf, f, q), Tracked(D, sf, hf, f)
    PROVE  Tracked(D, sf, hasFocus', focus')
<1>1. CASE sf[w] # NoSurface
    BY <1>1 DEF Activate
<1>2. CASE sf[w] = NoSurface
    <2>1. /\ hasFocus' = LeaveEmpty([hf EXCEPT ![w] = TRUE], sf, f, w)
          /\ focus' = SetFocusedWindow(f, w)
        BY <1>2 DEF Activate, ActivateEmptyWindow
    <2>2. focus'.window = w
        BY <2>1 DEF SetFocusedWindow, FocusRecords
    <2>3. [hf EXCEPT ![w] = TRUE] \in FocusMaps /\ \A v \in Windows : v # w => [hf EXCEPT ![w] = TRUE][v] = hf[v]
        BY DEF FocusMaps
    <2> QED
        BY <2>1, <2>2, <2>3, TrackedMoves
<1> QED
    BY <1>1, <1>2

LEMMA TrackedTopMost ==
    ASSUME NEW D, D \subseteq Windows, NEW id, NEW r \in Seq(Rows), NEW sf, NEW hf \in FocusMaps,
           NEW f \in FocusRecords, NEW q, ActivateTopMostWindowWithoutId(id, r, sf, hf, f, q),
           Tracked(D, sf, hf, f)
    PROVE  Tracked(D, sf, hasFocus', focus')
<1>1. \A i \in 1 .. Len(r) : r[i] \in Windows
    BY DEF Rows
<1> QED
    BY <1>1, TopMostIsRow, TrackedActivate
-----------------------------------------------------------------------------
\* What clients and Mir may do in a behaviour is settled when it starts.
LEMMA EnvironmentStays ==
    ASSUME [Next]_vars
    PROVE  UNCHANGED environment
<1>1. CASE ShellNext \/ ApplicationNext
    BY <1>1, Zenon
    DEF ShellNext, SetRootFocus, RaiseId, ActivateWindow, CloseWindow, PendingActivation,
        CloseAllWindows, unfocusable, ApplicationNext, AddApplication, RemoveApplication, DeleteRows
<1>2. CASE SignalNext
    BY <1>2, Zenon
    DEF SignalNext, OnModificationsStarted, OnModificationsEnded, FocusLost, FocusGained,
        UpdateFocused, OnSurfacesRaised, SkipKnownSurface, RemoveSurfaces, DeferHiddenSurface,
        AddTopLevelSurface, WrapSurface, SetInputMethodWindow, SurfaceHidden, modelVars,
        SurfaceShown, SurfaceDied, InputMethodDied, SurfaceDestroyed
<1>3. CASE MirNext
    BY <1>3, MirLeavesModel DEF modelVars
<1>4. CASE (\E w \in Windows : DeferredDelete(w)) \/ UNCHANGED vars
    BY <1>4, Zenon DEF DeferredDelete, vars, modelVars
<1> QED
    BY <1>1, <1>2, <1>3, <1>4 DEF Next
-----------------------------------------------------------------------------
(* EmptyFocusIsKept.  A window that has lost its surface is deleted or     *)
(* about to be, unless its row is kept; a window that is still to come has *)
(* no surface and no focus.  When surfaces move away from the workspace    *)
(* their windows stay without rows, and lose no focus with them.           *)

ToCome == \A w \in Windows : w >= nextId => surfaceOf[w] = NoSurface /\ ~hasFocus[w]
EmptyHaveRows ==
    \A w \in windows \ condemned : surfaceOf[w] = NoSurface => w = NullWindow \/ InRows(w, rows)
Vacant == ToCome /\ EmptyHaveRows /\ Tracked(windows \ condemned, surfaceOf, hasFocus, focus)

\* What Sound says of the windows a step may touch.
LEMMA SoundWindows ==
    ASSUME Sound
    PROVE  /\ rows \in Seq(Rows) /\ surfaceOf \in SurfaceMaps /\ hasFocus \in FocusMaps
           /\ focus \in FocusRecords /\ windows \subseteq Windows /\ nextId \in Nat \ {0}
           /\ \A i \in 1 .. Len(rows) : rows[i] \in windows /\ rows[i] \in Windows
           /\ \A w \in windows \cup condemned : w < nextId
           /\ windows \ condemned \subseteq Windows
<1>1. TypeOK /\ RowsFrom(rows, MayBeRows)
      /\ \A w \in windows \cup hiddenWindows \cup condemned : w < nextId
    BY Zenon DEF Sound
<1>2. nextId \in Nat \ {0}
    BY <1>1, BoundsAssumption DEF TypeOK
<1>3. /\ rows \in Seq(Rows) /\ surfaceOf \in SurfaceMaps /\ hasFocus \in FocusMaps
      /\ focus \in FocusRecords /\ windows \subseteq Windows
    BY <1>1, Zenon DEF TypeOK, Rows, FocusMaps
<1>4. \A i \in 1 .. Len(rows) : rows[i] \in windows
    BY <1>1 DEF RowsFrom, MayBeRows
<1> QED
    BY <1>1, <1>2, <1>3, <1>4

\* Where no window comes or goes or changes its surface.
LEMMA VacantWhereWindowsStay ==
    ASSUME Vacant, \A v : InRows(v, rows') <=> InRows(v, rows),
           UNCHANGED <<windows, condemned, nextId, surfaceOf>>,
           \A w \in Windows : w >= nextId => ~hasFocus'[w],
           Tracked(windows \ condemned, surfaceOf, hasFocus', focus')
    PROVE  Vacant'
BY DEF Vacant, ToCome, EmptyHaveRows, Tracked

\* The focus of an activated window, and who has it then.
LEMMA ActivateFocuses ==
    ASSUME NEW w \in Windows, NEW r, NEW sf, NEW hf \in FocusMaps, NEW f, NEW q,
           Activate(w, r, sf, hf, f, q), NEW v \in Windows, v # w
    PROVE  hasFocus'[v] => hf[v]
BY DEF Activate, ActivateEmptyWindow, LeaveEmpty, FocusMaps

LEMMA ShellVacant ==
    ASSUME Sound, Vacant, ShellNext
    PROVE  Vacant'
<1> DEFINE D == windows \ condemned
<1>1. /\ rows \in Seq(Rows) /\ surfaceOf \in SurfaceMaps /\ hasFocus \in FocusMaps
      /\ focus \in FocusRecords /\ windows \subseteq Windows /\ nextId \in Nat \ {0}
      /\ \A i \in 1 .. Len(rows) : rows[i] \in windows /\ rows[i] \in Windows
      /\ \A w \in windows : w < nextId
      /\ D \subseteq Windows
    BY SoundWindows
<1>2. TypeOK
    BY DEF Sound
<1>3. \A v : InRows(v, rows') <=> InRows(v, rows)
    BY <1>2, RowsKept
<1>4. UNCHANGED <<windows, condemned, nextId, surfaceOf>>
    BY Zenon DEF ShellNext, SetRootFocus, RaiseId, PendingActivation, ActivateWindow, CloseWindow,
                 CloseAllWindows, unfocusable
<1>5. ToCome /\ Tracked(D, surfaceOf, hasFocus, focus)
    BY DEF Vacant
<1> DEFINE Done == /\ Tracked(D, surfaceOf, hasFocus', focus')
                   /\ \A w \in Windows : w >= nextId => ~hasFocus'[w]
<1>6. ASSUME NEW w \in Windows, w < nextId, NEW f \in FocusRecords, f.window = focus.window,
             Activate(w, rows, surfaceOf, hasFocus, f, events)
      PROVE  Done
    <2>1. Tracked(D, surfaceOf, hasFocus, f)
        BY <1>5, <1>6 DEF Tracked
    <2>2. Tracked(D, surfaceOf, hasFocus', focus')
        BY <1>1, <1>6, <2>1, TrackedActivate
    <2>3. ASSUME NEW v \in Windows, v >= nextId
          PROVE  ~hasFocus'[v]
        <3>1. v # w
            BY <1>1, <1>6, <2>3 DEF Windows
        <3> QED
            BY <1>1, <1>5, <1>6, <2>3, <3>1, ActivateFocuses DEF ToCome
    <2> QED
        BY <2>2, <2>3
<1>7. ASSUME hasFocus' = hasFocus, focus'.window = focus.window
      PROVE  Done
    BY <1>5, <1>7 DEF Tracked, ToCome
<1>8. ASSUME NEW id, NEW f \in FocusRecords, f.window = focus.window,
             ActivateTopMostWindowWithoutId(id, rows, surfaceOf, hasFocus, f, events)
      PROVE  Done
    <2>1. CASE hasFocus' = hasFocus /\ focus' = f
        BY <1>7, <1>8, <2>1
    <2>2. CASE \E i \in 1 .. Len(rows) : Activate(rows[i], rows, surfaceOf, hasFocus, f, events)
        BY <1>1, <1>6, <1>8, <2>2
    <2> QED
        BY <1>1, <1>8, <2>1, <2>2, TopMostIsRow
<1>9. ASSUME NEW wanted, SetRootFocus(wanted)
      PROVE  Done
    <2> DEFINE read == [focus EXCEPT !.usedDeleted = @ \/ focus.previous \notin windows \cup {NoWindow}]
    <2>1. read \in FocusRecords /\ read.window = focus.window
        BY <1>1 DEF FocusRecords
    <2> HIDE DEF read
    <2>2. NullWindow \in Windows /\ NullWindow < nextId
        BY <1>1, SurfaceMapsType DEF NullWindow
    <2>3. \/ focus.previous \in windows
             /\ Activate(focus.previous, rows, surfaceOf, hasFocus, focus, events)
          \/ focus' = read /\ hasFocus' = hasFocus
          \/ ActivateTopMostWindowWithoutId(-1, rows, surfaceOf, hasFocus, read, events)
          \/ Activate(NullWindow, rows, surfaceOf, hasFocus, focus, events)
        BY <1>9 DEF SetRootFocus, read
    <2> QED
        BY <1>1, <1>6, <1>7, <1>8, <2>1, <2>2, <2>3
<1>10. ASSUME NEW w \in Windows, RaiseId(w) \/ ActivateWindow(w) \/ CloseWindow(w)
       PROVE  Done
    <2>1. CASE RaiseId(w)
        BY <1>7, <2>1 DEF RaiseId
    <2>2. CASE ActivateWindow(w)
        <3>1. w < nextId
            BY <1>1, <2>2 DEF ActivateWindow, InRows
        <3> QED
            BY <1>1, <1>6, <2>2, <3>1 DEF ActivateWindow
    <2>3. CASE CloseWindow(w)
        BY <1>1, <1>7, <1>8, <2>3 DEF CloseWindow
    <2> QED
        BY <1>10, <2>1, <2>2, <2>3
<1>11. ASSUME PendingActivation
       PROVE  Done
    <2>1. hasFocus' = hasFocus /\ focus' = [focus EXCEPT !.pending = TRUE]
        BY <1>11, Zenon DEF PendingActivation
    <2>2. focus'.window = focus.window
        BY <1>1, <2>1 DEF FocusRecords
    <2> QED
        BY <1>7, <2>1, <2>2
<1>12. ASSUME CloseAllWindows
       PROVE  Done
    BY <1>1, <1>7, <1>8, <1>12 DEF CloseAllWindows
<1>13. Done
    BY <1>9, <1>10, <1>11, <1>12 DEF ShellNext
<1> QED
    BY <1>3, <1>4, <1>13, VacantWhereWindowsStay

LEMMA MirVacant ==
    ASSUME Vacant, MirNext
    PROVE  Vacant'
<1>1. UNCHANGED modelVars
    BY MirLeavesModel
<1> QED
    BY <1>1 DEF modelVars, Vacant, ToCome, EmptyHaveRows, Tracked, InRows

\* Windows go, with their rows.
LEMMA DeleteRowsVacant ==
    ASSUME Sound, Vacant, NEW R, DeleteRows(R), condemned' = condemned
    PROVE  Vacant'
<1>1. /\ surfaceOf' = [w \in Windows |-> IF w \in R THEN NoSurface ELSE surfaceOf[w]]
      /\ hasFocus' = [w \in Windows |-> hasFocus[w] /\ w \notin R]
      /\ windows' = windows \ R /\ nextId' = nextId
      /\ rows' = Without(rows, R) /\ focus' = ForgetWindows(focus, R)
    BY Zenon DEF DeleteRows
<1>2. /\ rows \in Seq(Rows) /\ focus \in FocusRecords /\ windows \subseteq Windows
    BY SoundWindows
<1>3. \A w : InRows(w, rows') <=> InRows(w, rows) /\ w \notin R
    BY <1>1, <1>2, RowsWithout
<1>4. focus.window \notin R => focus'.window = focus.window
    BY <1>1, <1>2 DEF ForgetWindows, FocusRecords
<1>5. ToCome'
    BY <1>1 DEF Vacant, ToCome
<1>6. EmptyHaveRows'
    BY <1>1, <1>2, <1>3 DEF Vacant, EmptyHaveRows
<1>7. Tracked(windows \ condemned, surfaceOf, hasFocus, focus)'
    BY <1>1, <1>2, <1>4 DEF Vacant, Tracked
<1> QED
    BY <1>5, <1>6, <1>7 DEF Vacant

LEMMA ApplicationsVacant ==
    ASSUME Sound, Vacant, ApplicationNext
    PROVE  Vacant'
<1>1. /\ rows \in Seq(Rows) /\ surfaceOf \in SurfaceMaps /\ hasFocus \in FocusMaps
      /\ focus \in FocusRecords /\ windows \subseteq Windows /\ nextId \in Nat \ {0}
      /\ \A w \in windows \cup condemned : w < nextId
      /\ windows \ condemned \subseteq Windows
    BY SoundWindows
<1>2. ASSUME NEW a \in Apps, RemoveApplication(a)
      PROVE  Vacant'
    <2>1. \E R : DeleteRows(R) /\ condemned' = condemned
        BY <1>2, Zenon DEF RemoveApplication, DeleteRows
    <2> QED
        BY <2>1, DeleteRowsVacant
<1>3. ASSUME NEW a \in Apps, NEW active \in BOOLEAN, AddApplication(a, active)
      PROVE  Vacant'
    <2>1. CASE ~(active /\ a \in SplashApps)
        <3>1. UNCHANGED <<rows, windows, condemned, nextId, surfaceOf, hasFocus, focus>>
            BY <1>3, <2>1, Zenon DEF AddApplication
        <3> QED
            BY <3>1 DEF Vacant, ToCome, EmptyHaveRows, Tracked, InRows
    <2>2. CASE active /\ a \in SplashApps
        <3>1. /\ NewWindow(NoSurface) /\ condemned' = condemned
              /\ Activate(nextId, <<nextId>> \o rows, surfaceOf, hasFocus, focus, events)
            BY <1>3, <2>2 DEF AddApplication
        <3>2. TypeOK
            BY DEF Sound
        <3>3. nextId \in Rows /\ nextId \in Windows
            BY <3>1, <3>2, NewWindowType
        <3>4. /\ nextId' = nextId + 1 /\ windows' = windows \cup {nextId}
              /\ surfaceOf' = [surfaceOf EXCEPT ![nextId] = NoSurface]
            BY <3>1 DEF NewWindow
        <3>5. surfaceOf[nextId] = NoSurface /\ ~hasFocus[nextId]
            BY <1>1, <3>3 DEF Vacant, ToCome
        <3>6. surfaceOf' = surfaceOf
            BY <1>1, <3>3, <3>4, <3>5 DEF SurfaceMaps
        <3>7. \A v : InRows(v, rows') <=> v = nextId \/ InRows(v, rows)
            <4>1. <<nextId>> \o rows \in Seq(Rows)
                BY <1>1, <3>3
            <4>2. \A v : InRows(v, rows') <=> InRows(v, <<nextId>> \o rows)
                BY <3>1, <4>1, RowsActivated
            <4> QED
                BY <1>1, <3>3, <4>2, RowsPrepended
        <3> DEFINE D == windows' \ condemned'
        <3>8. D \subseteq Windows /\ D = (windows \ condemned) \cup {nextId}
            BY <1>1, <3>1, <3>3, <3>4
        <3>9. Tracked(D, surfaceOf, hasFocus, focus)
            BY <3>5, <3>8 DEF Vacant, Tracked
        <3> HIDE DEF D
        <3>10. Tracked(D, surfaceOf, hasFocus', focus')
            BY <1>1, <3>1, <3>3, <3>8, <3>9, TrackedActivate
        <3>11. ASSUME NEW v \in Windows, v >= nextId'
               PROVE  surfaceOf'[v] = NoSurface /\ ~hasFocus'[v]
            <4>1. v >= nextId /\ v # nextId
                BY <1>1, <3>4, <3>11 DEF Windows
            <4>2. surfaceOf[v] = NoSurface /\ ~hasFocus[v]
                BY <3>11, <4>1 DEF Vacant, ToCome
            <4> QED
                BY <1>1, <3>1, <3>3, <3>6, <3>11, <4>1, <4>2, ActivateFocuses
        <3>12. EmptyHaveRows'
            BY <3>6, <3>7, <3>8 DEF D, Vacant, EmptyHaveRows
        <3>13. Tracked(windows \ condemned, surfaceOf, hasFocus, focus)'
            BY <3>6, <3>10 DEF D, Tracked
        <3> QED
            BY <3>11, <3>12, <3>13 DEF Vacant, ToCome
    <2> QED
        BY <2>1, <2>2
<1> QED
    BY <1>2, <1>3 DEF ApplicationNext

\* A new window for a surface, which has the focus as the surface has it.
LEMMA WrappedVacant ==
    ASSUME Sound, Vacant, NEW s \in Surfaces, NewWindow(s), condemned' = condemned,
           \A v : InRows(v, rows) => InRows(v, rows'),
           \/ /\ hasFocus' = LeaveEmpty([hasFocus EXCEPT ![nextId] = TRUE], surfaceOf, focus, nextId)
              /\ focus' = FocusedChanged(focus, nextId, TRUE)
           \/ hasFocus' = [hasFocus EXCEPT ![nextId] = FALSE] /\ focus' = focus
           \/ hasFocus' = hasFocus /\ focus' = focus
    PROVE  Vacant'
<1>1. /\ surfaceOf \in SurfaceMaps /\ hasFocus \in FocusMaps
      /\ focus \in FocusRecords /\ nextId \in Nat \ {0}
      /\ windows \ condemned \subseteq Windows /\ TypeOK
    BY SoundWindows DEF Sound
<1>2. nextId \in Windows /\ s # NoSurface
    BY <1>1, NewWindowType, SurfacesAssumption
<1>3. /\ nextId' = nextId + 1 /\ windows' = windows \cup {nextId}
      /\ surfaceOf' = [surfaceOf EXCEPT ![nextId] = s]
    BY DEF NewWindow
<1>4. /\ surfaceOf'[nextId] = s
      /\ \A v \in Windows : v # nextId => surfaceOf'[v] = surfaceOf[v]
    BY <1>1, <1>2, <1>3 DEF SurfaceMaps
<1>5. surfaceOf[nextId] = NoSurface /\ ~hasFocus[nextId]
    BY <1>1, <1>2 DEF Vacant, ToCome
<1> DEFINE D == windows' \ condemned'
<1>6. D \subseteq Windows /\ D \subseteq (windows \ condemned) \cup {nextId}
    BY <1>1, <1>2, <1>3
<1>7. Tracked(D, surfaceOf, hasFocus, focus)
    BY <1>5, <1>6 DEF Vacant, Tracked
<1> HIDE DEF D
<1>8. Tracked(D, surfaceOf, hasFocus', focus')
    <2>1. CASE /\ hasFocus' = LeaveEmpty([hasFocus EXCEPT ![nextId] = TRUE], surfaceOf, focus, nextId)
               /\ focus' = FocusedChanged(focus, nextId, TRUE)
        <3>1. focus'.window = nextId
            BY <1>1, <2>1 DEF FocusedChanged, SetFocusedWindow, FocusRecords
        <3>2. [hasFocus EXCEPT ![nextId] = TRUE] \in FocusMaps
              /\ \A v \in Windows : v # nextId => [hasFocus EXCEPT ![nextId] = TRUE][v] = hasFocus[v]
            BY <1>1 DEF FocusMaps
        <3> QED
            BY <1>1, <1>6, <1>7, <2>1, <3>1, <3>2, TrackedMoves
    <2>2. CASE hasFocus' = [hasFocus EXCEPT ![nextId] = FALSE] /\ focus' = focus
        BY <1>1, <1>6, <1>7, <2>2 DEF Tracked, FocusMaps
    <2>3. CASE hasFocus' = hasFocus /\ focus' = focus
        BY <1>7, <2>3
    <2> QED
        BY <2>1, <2>2, <2>3
<1>9. Tracked(windows \ condemned, surfaceOf, hasFocus, focus)'
    BY <1>2, <1>4, <1>6, <1>8 DEF D, Tracked
<1>10. ASSUME NEW v \in Windows, v >= nextId'
       PROVE  surfaceOf'[v] = NoSurface /\ ~hasFocus'[v]
    <2>1. v >= nextId /\ v # nextId
        BY <1>1, <1>3, <1>10 DEF Windows
    <2>2. surfaceOf[v] = NoSurface /\ ~hasFocus[v]
        BY <1>10, <2>1 DEF Vacant, ToCome
    <2> QED
        BY <1>1, <1>4, <1>10, <2>1, <2>2 DEF LeaveEmpty, FocusMaps
<1>11. EmptyHaveRows'
    BY <1>2, <1>4, <1>6 DEF D, Vacant, EmptyHaveRows
<1> QED
    BY <1>9, <1>10, <1>11 DEF Vacant, ToCome

LEMMA PrependVacant ==
    ASSUME Sound, Vacant, NEW s \in Surfaces, NEW r \in Seq(Rows), NEW q, PrependSurface(s, r, q),
           condemned' = condemned, \A v : InRows(v, rows) => InRows(v, r)
    PROVE  Vacant'
<1> DEFINE i == FillRow(s)
           w == rows[i]
           focused == s \in qtFocused
           sf == [surfaceOf EXCEPT ![w] = s]
           hf == [hasFocus EXCEPT ![w] = focused]
<1>1. /\ surfaceOf \in SurfaceMaps /\ hasFocus \in FocusMaps /\ rows \in Seq(Rows)
      /\ focus \in FocusRecords /\ nextId \in Nat \ {0}
      /\ windows \ condemned \subseteq Windows /\ TypeOK
      /\ \A k \in 1 .. Len(rows) : rows[k] \in windows /\ rows[k] \in Windows
      /\ \A v \in windows \cup condemned : v < nextId
    BY SoundWindows DEF Sound
<1>2. i \in 0 .. Len(rows) /\ s # NoSurface
    BY <1>1, FillRowType, SurfacesAssumption
<1>3. CASE i = 0
    <2>1. /\ NewWindow(s) /\ rows' = <<nextId>> \o r
          /\ \/ /\ hasFocus' = LeaveEmpty([hasFocus EXCEPT ![nextId] = TRUE], surfaceOf, focus, nextId)
                /\ focus' = FocusedChanged(focus, nextId, TRUE)
             \/ hasFocus' = [hasFocus EXCEPT ![nextId] = FALSE] /\ focus' = focus
        <3>1. /\ NewWindow(s) /\ rows' = <<nextId>> \o r
              /\ LET fresh == [hasFocus EXCEPT ![nextId] = focused]
                 IN  /\ hasFocus' = IF focused THEN LeaveEmpty(fresh, surfaceOf, focus, nextId) ELSE fresh
                     /\ focus' = IF focused THEN FocusedChanged(focus, nextId, TRUE) ELSE focus
            BY <1>3, Zenon DEF PrependSurface
        <3>2. CASE focused
            <4>1. focused = TRUE
                BY <3>2
            <4> QED
                BY <3>1, <4>1, Zenon
        <3>3. CASE ~focused
            <4>1. focused = FALSE
                BY <3>3
            <4> QED
                BY <3>1, <4>1, Zenon
        <3> QED
            BY <3>2, <3>3
    <2>2. nextId \in Rows
        BY <1>1, <2>1, NewWindowType
    <2>3. \A v : InRows(v, rows') <=> v = nextId \/ InRows(v, r)
        BY <2>1, <2>2, RowsPrepended
    <2> QED
        BY <2>1, <2>3, WrappedVacant
<1>4. CASE i # 0
    <2>1. w \in Windows /\ w \in windows /\ w < nextId
        BY <1>1, <1>2, <1>4
    <2>2. /\ surfaceOf' = sf /\ rows' = r /\ UNCHANGED <<nextId, windows>>
          /\ hasFocus' = IF focused /\ ~hasFocus[w] THEN LeaveEmpty(hf, sf, focus, w) ELSE hf
          /\ focus' = IF focused = hasFocus[w] THEN focus ELSE FocusedChanged(focus, w, focused)
        BY <1>4 DEF PrependSurface
    <2> HIDE DEF w
    <2>3. sf[w] = s /\ \A v \in Windows : v # w => sf[v] = surfaceOf[v]
        BY <1>1, <2>1 DEF SurfaceMaps
    <2>4. hf \in FocusMaps /\ hf[w] = focused /\ \A v \in Windows : v # w => hf[v] = hasFocus[v]
        BY <1>1, <2>1 DEF FocusMaps
    <2> HIDE DEF sf, hf
    <2> DEFINE D == windows \ condemned
    <2>5. Tracked(D, sf, hasFocus, focus)
        BY <1>1, <1>2, <2>3 DEF Vacant, Tracked
    <2>6. Tracked(D, sf, hasFocus', focus')
        <3>1. CASE focused /\ ~hasFocus[w]
            <4>1. hasFocus' = LeaveEmpty(hf, sf, focus, w) /\ focus' = FocusedChanged(focus, w, TRUE)
                BY <2>2, <3>1
            <4>2. focus'.window = w
                BY <1>1, <4>1 DEF FocusedChanged, SetFocusedWindow, FocusRecords
            <4> QED
                BY <1>1, <2>4, <2>5, <4>1, <4>2, TrackedMoves
        <3>2. CASE ~(focused /\ ~hasFocus[w])
            <4>1. hasFocus' = hf
                BY <2>2, <3>2
            <4>2. focus'.window = focus.window
                BY <1>1, <2>1, <2>2, <3>2 DEF FocusedChanged, FocusRecords, FocusMaps
            <4> QED
                BY <1>1, <1>2, <2>3, <2>4, <2>5, <4>1, <4>2 DEF Tracked
        <3> QED
            BY <3>1, <3>2
    <2>7. Tracked(windows \ condemned, surfaceOf, hasFocus, focus)'
        BY <2>2, <2>6
    <2>8. ASSUME NEW v \in Windows, v >= nextId'
          PROVE  surfaceOf'[v] = NoSurface /\ ~hasFocus'[v]
        <3>1. v # w
            BY <1>1, <2>1, <2>2, <2>8 DEF Windows
        <3>2. surfaceOf[v] = NoSurface /\ ~hasFocus[v]
            BY <2>2, <2>8 DEF Vacant, ToCome
        <3>3. hasFocus'[v] => hf[v]
            BY <2>2, <2>4, <2>8 DEF LeaveEmpty, FocusMaps
        <3> QED
            BY <2>2, <2>3, <2>4, <2>8, <3>1, <3>2, <3>3
    <2>9. EmptyHaveRows'
        BY <1>1, <1>2, <2>2, <2>3 DEF Vacant, EmptyHaveRows
    <2> QED
        BY <2>7, <2>8, <2>9 DEF Vacant, ToCome
<1> QED
    BY <1>3, <1>4

LEMMA SignalsVacant ==
    ASSUME Sound, Vacant, SignalNext, NoneOf(events, {"away"})
    PROVE  Vacant'
<1> DEFINE D == windows \ condemned
<1>1. /\ surfaceOf \in SurfaceMaps /\ hasFocus \in FocusMaps /\ rows \in Seq(Rows)
      /\ focus \in FocusRecords /\ nextId \in Nat \ {0}
      /\ windows \subseteq Windows /\ D \subseteq Windows /\ TypeOK
      /\ \A k \in 1 .. Len(rows) : rows[k] \in windows /\ rows[k] \in Windows
      /\ \A v \in windows \cup condemned : v < nextId
    BY SoundWindows DEF Sound
<1>2. CASE OnModificationsStarted \/ SkipKnownSurface \/ \E s \in Surfaces : DeferHiddenSurface(s)
    <2>1. UNCHANGED <<rows, windows, condemned, nextId, surfaceOf, hasFocus, focus>>
        BY <1>2, Zenon DEF OnModificationsStarted, SkipKnownSurface, DeferHiddenSurface, modelVars
    <2> QED
        BY <2>1 DEF Vacant, ToCome, EmptyHaveRows, Tracked, InRows
<1>3. CASE OnModificationsEnded
    <2>1. UNCHANGED <<rows, windows, condemned, nextId, surfaceOf>>
        BY <1>3 DEF OnModificationsEnded
    <2>2. CASE ~focus.cleared
        <3>1. UNCHANGED <<hasFocus, focus>>
            BY <1>3, <2>2 DEF OnModificationsEnded
        <3> QED
            BY <2>1, <3>1 DEF Vacant, ToCome, EmptyHaveRows, Tracked, InRows
    <2>3. CASE focus.cleared
        <3>1. /\ focus' = [SetFocusedWindow(focus, NoWindow) EXCEPT !.cleared = FALSE]
              /\ hasFocus' = LeaveEmpty(hasFocus, surfaceOf, focus, NoWindow)
            BY <1>3, <2>3 DEF OnModificationsEnded
        <3>2. focus'.window = NoWindow
            BY <1>1, <3>1 DEF SetFocusedWindow, FocusRecords
        <3>3. Tracked(D, surfaceOf, hasFocus', focus')
            BY <1>1, <3>1, <3>2, TrackedMoves DEF Vacant
        <3>4. \A v \in Windows : hasFocus'[v] => hasFocus[v]
            BY <1>1, <3>1 DEF LeaveEmpty, FocusMaps
        <3> QED
            BY <2>1, <3>3, <3>4, VacantWhereWindowsStay DEF InRows, Vacant, ToCome
    <2> QED
        BY <2>2, <2>3
<1>4. ASSUME NEW kind \in {"lost", "gained"}, NEW focused \in BOOLEAN, UpdateFocused(kind, focused)
      PROVE  Vacant'
    <2>1. UNCHANGED <<rows, windows, condemned, nextId, surfaceOf>>
        BY <1>4 DEF UpdateFocused
    <2>2. CASE ~(HasWindow(Subject) /\ hasFocus[WindowOf(Subject)] # focused)
        <3>1. UNCHANGED <<hasFocus, focus>>
            BY <1>4, <2>2 DEF UpdateFocused
        <3> QED
            BY <2>1, <3>1 DEF Vacant, ToCome, EmptyHaveRows, Tracked, InRows
    <2>3. CASE HasWindow(Subject) /\ hasFocus[WindowOf(Subject)] # focused
        <3> DEFINE w == WindowOf(Subject)
                   hf == [hasFocus EXCEPT ![w] = focused]
        <3>1. w \in windows
            BY <2>3 DEF HasWindow, WindowOf
        <3>2. /\ focus' = FocusedChanged(focus, w, focused)
              /\ hasFocus' = IF focused THEN LeaveEmpty(hf, surfaceOf, focus, w) ELSE hf
            BY <1>4, <2>3 DEF UpdateFocused
        <3> HIDE DEF w
        <3>3. hf \in FocusMaps /\ hf[w] = focused /\ \A v \in Windows : v # w => hf[v] = hasFocus[v]
            BY <1>1, <3>1 DEF FocusMaps
        <3> HIDE DEF hf
        <3>4. Tracked(D, surfaceOf, hasFocus', focus')
            <4>1. CASE focused
                <5>1. focus'.window = w /\ hasFocus' = LeaveEmpty(hf, surfaceOf, focus, w)
                    BY <1>1, <3>2, <4>1 DEF FocusedChanged, SetFocusedWindow, FocusRecords
                <5> QED
                    BY <1>1, <3>3, <5>1, TrackedMoves DEF Vacant
            <4>2. CASE ~focused
                <5>1. focus'.window = focus.window /\ hasFocus' = hf
                    BY <1>1, <3>2, <4>2 DEF FocusedChanged, FocusRecords
                <5> QED
                    BY <1>1, <3>3, <4>2, <5>1 DEF Vacant, Tracked
            <4> QED
                BY <4>1, <4>2
        <3>5. ASSUME NEW v \in Windows, v >= nextId
              PROVE  ~hasFocus'[v]
            <4>1. v # w
                BY <1>1, <3>1, <3>5 DEF Windows
            <4>2. ~hasFocus[v]
                BY <3>5 DEF Vacant, ToCome
            <4> QED
                BY <3>2, <3>3, <3>5, <4>1, <4>2 DEF LeaveEmpty, FocusMaps
        <3> QED
            BY <2>1, <3>4, <3>5, VacantWhereWindowsStay DEF InRows
    <2> QED
        BY <2>2, <2>3
<1>5. CASE OnSurfacesRaised
    <2>1. /\ UNCHANGED <<windows, condemned, nextId, surfaceOf, hasFocus, focus>>
          /\ LET i == IndexOf(Subject, rows, surfaceOf)
             IN  rows' = IF i > 1 THEN MoveToFront(rows, i) ELSE rows
        BY <1>5 DEF OnSurfacesRaised
    <2>2. LET i == IndexOf(Subject, rows, surfaceOf) IN i = 0 \/ i \in 1 .. Len(rows)
        BY <1>1, IndexOfFinds
    <2>3. \A v : InRows(v, rows') <=> InRows(v, rows)
        BY <1>1, <2>1, <2>2, RowsMoved
    <2> QED
        BY <2>1, <2>3 DEF Vacant, ToCome, EmptyHaveRows, Tracked
<1>6. CASE RemoveSurfaces
    <2>1. events \in Seq(Signals) /\ events # <<>> /\ Head(events).kind = "away"
        BY <1>1, <1>6 DEF RemoveSurfaces, Deliver, TypeOK
    <2> QED
        BY <2>1, NoneOfTail
<1>7. ASSUME NEW s \in Surfaces, AddTopLevelSurface(s)
      PROVE  Vacant'
    BY <1>1, <1>7, PrependVacant DEF AddTopLevelSurface
<1>8. ASSUME NEW s \in Surfaces, WrapSurface(s)
      PROVE  Vacant'
    <2>1. NewWindow(s) /\ condemned' = condemned /\ rows' = rows
        BY <1>8 DEF WrapSurface
    <2>2. \/ /\ hasFocus' = LeaveEmpty([hasFocus EXCEPT ![nextId] = TRUE], surfaceOf, focus, nextId)
             /\ focus' = FocusedChanged(focus, nextId, TRUE)
          \/ hasFocus' = hasFocus /\ focus' = focus
        BY <1>8 DEF WrapSurface
    <2> QED
        BY <2>1, <2>2, WrappedVacant DEF InRows
<1>9. ASSUME NEW s \in Surfaces, SetInputMethodWindow(s)
      PROVE  Vacant'
    <2>1. /\ nextId <= MaxWindows /\ nextId' = nextId + 1
          /\ windows' = (windows \ {inputMethodWindow}) \cup {nextId}
          /\ surfaceOf' = [v \in Windows |-> IF v = nextId THEN s
                                             ELSE IF v = inputMethodWindow THEN NoSurface
                                             ELSE surfaceOf[v]]
          /\ UNCHANGED <<rows, condemned, hasFocus, focus>>
        BY <1>9 DEF SetInputMethodWindow
    <2>2. nextId \in Windows /\ s # NoSurface
        BY <1>1, <2>1, BoundsAssumption, SurfacesAssumption DEF Windows
    <2>3. ASSUME NEW v \in Windows, v >= nextId'
          PROVE  surfaceOf'[v] = NoSurface /\ ~hasFocus'[v]
        <3>1. v >= nextId /\ v # nextId
            BY <1>1, <2>1, <2>3 DEF Windows
        <3> QED
            BY <2>1, <2>3, <3>1 DEF Vacant, ToCome
    <2>4. EmptyHaveRows'
        BY <1>1, <2>1, <2>2 DEF Vacant, EmptyHaveRows, InRows
    <2>5. Tracked(windows \ condemned, surfaceOf, hasFocus, focus)'
        BY <1>1, <2>1, <2>2 DEF Vacant, Tracked
    <2> QED
        BY <2>3, <2>4, <2>5 DEF Vacant, ToCome
<1>10. CASE SurfaceHidden
    <2> DEFINE R == {w \in windows : surfaceOf[w] = Subject /\ w \notin hiddenWindows /\ InRows(w, rows)}
    <2>1. Subject \in Surfaces /\ Subject # NoSurface
        BY <1>1, <1>10, SubjectType, SurfacesAssumption DEF SurfaceHidden, Brackets
    <2>2. /\ UNCHANGED <<windows, condemned, nextId, surfaceOf, hasFocus>>
          /\ \E Q : Q = R /\ rows' = Without(rows, Q) /\ focus' = ForgetWindows(focus, Q)
        <3>1. {w \in {w \in windows : surfaceOf[w] = Subject /\ w \notin hiddenWindows} : InRows(w, rows)} = R
            OBVIOUS
        <3> QED
            BY <1>10, <3>1 DEF SurfaceHidden
    <2>3. \A v : InRows(v, rows') <=> InRows(v, rows) /\ v \notin R
        BY <1>1, <2>2, RowsWithout
    <2>4. focus.window \notin R => focus'.window = focus.window
        BY <1>1, <2>2 DEF ForgetWindows, FocusRecords
    <2>5. \A w \in R : surfaceOf[w] = Subject
        OBVIOUS
    <2> HIDE DEF R
    <2> QED
        BY <1>1, <2>1, <2>2, <2>3, <2>4, <2>5 DEF Vacant, ToCome, EmptyHaveRows, Tracked
<1>11. CASE SurfaceShown
    <2> DEFINE back == {w \in windows : surfaceOf[w] = Subject /\ w \in hiddenWindows
                                        /\ ~InRows(w, rows) /\ IsTopLevel(Subject)}
    <2>1. Subject \in Surfaces /\ Subject # NoSurface
        BY <1>1, <1>11, SubjectType, SurfacesAssumption DEF SurfaceShown, Brackets
    <2>2. PICK r : /\ r = rows \/ \E w \in back : r = <<w>> \o rows
                   /\ \/ PrependSurface(Subject, r, Tail(events))
                      \/ rows' = r /\ UNCHANGED <<windows, nextId, surfaceOf, hasFocus, focus>>
        <3>1. {w \in {w \in windows : surfaceOf[w] = Subject /\ w \in hiddenWindows} :
                  ~InRows(w, rows) /\ IsTopLevel(Subject)} = back
            OBVIOUS
        <3>2. back = {} \/ (CHOOSE w \in back : TRUE) \in back
            OBVIOUS
        <3> HIDE DEF back
        <3> QED
            BY <1>11, <3>1, <3>2 DEF SurfaceShown
    <2>3. condemned' = condemned
        BY <1>11 DEF SurfaceShown
    <2>4. \A w \in back : w \in Rows
        <3>1. \A w \in back : w \in Windows /\ surfaceOf[w] = Subject
            BY <1>1
        <3> QED
            BY <1>1, <2>1, <3>1, SurfaceMapsType DEF Rows
    <2> HIDE DEF back
    <2>5. r \in Seq(Rows) /\ \A v : InRows(v, rows) => InRows(v, r)
        <3>1. CASE r = rows
            BY <1>1, <3>1
        <3>2. CASE \E w \in back : r = <<w>> \o rows
            BY <1>1, <2>4, <3>2, RowsPrepended
        <3> QED
            BY <2>2, <3>1, <3>2
    <2>6. CASE PrependSurface(Subject, r, Tail(events))
        BY <2>1, <2>3, <2>5, <2>6, PrependVacant
    <2>7. CASE rows' = r /\ UNCHANGED <<windows, nextId, surfaceOf, hasFocus, focus>>
        BY <2>3, <2>5, <2>7 DEF Vacant, ToCome, EmptyHaveRows, Tracked
    <2> QED
        BY <2>2, <2>6, <2>7
<1>12. CASE SurfaceDied
    <2> DEFINE H == {v \in hiddenWindows : surfaceOf[v] = Subject}
    <2>1. /\ UNCHANGED <<rows, condemned, nextId, focus>>
          /\ windows' = windows \ H
          /\ surfaceOf' = [v \in Windows |-> IF v \in H THEN NoSurface ELSE surfaceOf[v]]
          /\ hasFocus' = [v \in Windows |-> hasFocus[v] /\ v \notin H]
        BY <1>12 DEF SurfaceDied
    <2> HIDE DEF H
    <2> QED
        BY <1>1, <2>1 DEF Vacant, ToCome, EmptyHaveRows, Tracked, InRows
<1>13. CASE InputMethodDied
    <2> DEFINE w == inputMethodWindow
    <2>1. UNCHANGED <<rows, condemned, nextId>>
        BY <1>13 DEF InputMethodDied
    <2>2. CASE w = NoWindow
        <3>1. UNCHANGED <<windows, surfaceOf, hasFocus, focus>>
            BY <1>13, <2>2 DEF InputMethodDied
        <3> QED
            BY <2>1, <3>1 DEF Vacant, ToCome, EmptyHaveRows, Tracked, InRows
    <2>3. CASE w # NoWindow
        <3>1. /\ windows' = windows \ {w}
              /\ surfaceOf' = [surfaceOf EXCEPT ![w] = NoSurface]
              /\ hasFocus' = [hasFocus EXCEPT ![w] = FALSE]
              /\ focus' = IF focus.window = w
                          THEN [SetFocusedWindow(focus, NoWindow) EXCEPT !.cleared = FALSE]
                          ELSE focus
            BY <1>13, <2>3 DEF InputMethodDied
        <3>2. /\ \A v \in Windows : v # w => surfaceOf'[v] = surfaceOf[v] /\ hasFocus'[v] = hasFocus[v]
              /\ w \in Windows => surfaceOf'[w] = NoSurface /\ ~hasFocus'[w]
            BY <1>1, <3>1 DEF SurfaceMaps, FocusMaps
        <3> HIDE DEF w
        <3>3. ToCome'
            BY <2>1, <3>2 DEF Vacant, ToCome
        <3>4. EmptyHaveRows'
            BY <1>1, <2>1, <3>1, <3>2 DEF Vacant, EmptyHaveRows, InRows
        <3>5. Tracked(windows \ condemned, surfaceOf, hasFocus, focus)'
            BY <1>1, <2>1, <3>1, <3>2 DEF Vacant, Tracked
        <3> QED
            BY <3>3, <3>4, <3>5 DEF Vacant
    <2> QED
        BY <2>2, <2>3
<1>14. CASE SurfaceDestroyed
    <2> DEFINE i == IndexOf(Subject, rows, surfaceOf)
               w == rows[i]
               wrapper == {v \in windows : surfaceOf[v] = Subject}
    <2>1. \/ i # 0 /\ DeleteRows({w}) /\ condemned' = condemned
          \/ /\ i # 0
             /\ hasFocus' = [hasFocus EXCEPT ![w] = FALSE]
             /\ focus' = IF hasFocus[w] THEN FocusedChanged(focus, w, FALSE) ELSE focus
             /\ surfaceOf' = [surfaceOf EXCEPT ![w] = NoSurface]
             /\ UNCHANGED <<rows, windows, condemned, nextId>>
          \/ /\ surfaceOf' = [v \in Windows |-> IF v \in wrapper THEN NoSurface ELSE surfaceOf[v]]
             /\ condemned' = condemned \cup wrapper
             /\ UNCHANGED <<rows, focus, windows, hasFocus, nextId>>
        BY <1>14 DEF SurfaceDestroyed, DeleteRows
    <2>2. i = 0 \/ i \in 1 .. Len(rows)
        BY <1>1, IndexOfFinds
    <2>3. i # 0 => w \in windows /\ w \in Windows /\ InRows(w, rows)
        BY <1>1, <2>2 DEF InRows
    <2> HIDE DEF i, w, wrapper
    <2>4. CASE DeleteRows({w}) /\ condemned' = condemned
        BY <2>4, DeleteRowsVacant
    <2>5. CASE /\ i # 0
               /\ hasFocus' = [hasFocus EXCEPT ![w] = FALSE]
               /\ focus' = IF hasFocus[w] THEN FocusedChanged(focus, w, FALSE) ELSE focus
               /\ surfaceOf' = [surfaceOf EXCEPT ![w] = NoSurface]
               /\ UNCHANGED <<rows, windows, condemned, nextId>>
        <3>1. /\ \A v \in Windows : v # w => surfaceOf'[v] = surfaceOf[v] /\ hasFocus'[v] = hasFocus[v]
              /\ surfaceOf'[w] = NoSurface /\ ~hasFocus'[w]
            BY <1>1, <2>3, <2>5 DEF SurfaceMaps, FocusMaps
        <3>2. focus'.window = focus.window
            BY <1>1, <2>5 DEF FocusedChanged, FocusRecords
        <3> QED
            <4>1. ToCome'
                BY <1>1, <2>3, <2>5, <3>1 DEF Vacant, ToCome
            <4>2. EmptyHaveRows'
                BY <1>1, <2>3, <2>5, <3>1 DEF Vacant, EmptyHaveRows, InRows
            <4>3. Tracked(windows \ condemned, surfaceOf, hasFocus, focus)'
                BY <1>1, <2>3, <2>5, <3>1, <3>2 DEF Vacant, Tracked
            <4> QED
                BY <4>1, <4>2, <4>3 DEF Vacant
    <2>6. CASE /\ surfaceOf' = [v \in Windows |-> IF v \in wrapper THEN NoSurface ELSE surfaceOf[v]]
               /\ condemned' = condemned \cup wrapper
               /\ UNCHANGED <<rows, focus, windows, hasFocus, nextId>>
        BY <1>1, <2>6 DEF Vacant, ToCome, EmptyHaveRows, Tracked, InRows
    <2> QED
        BY <2>1, <2>4, <2>5, <2>6
<1> QED
    BY <1>2, <1>3, <1>4, <1>5, <1>6, <1>7, <1>8, <1>9, <1>10, <1>11, <1>12, <1>13, <1>14
    DEF SignalNext, FocusLost, FocusGained

LEMMA DeferredDeleteVacant ==
    ASSUME Sound, Vacant, NEW w \in Windows, DeferredDelete(w)
    PROVE  Vacant'
<1>1. /\ hasFocus \in FocusMaps /\ windows \subseteq Windows
    BY SoundWindows
<1>2. /\ w \in condemned /\ condemned' = condemned \ {w} /\ windows' = windows \ {w}
      /\ hasFocus' = [hasFocus EXCEPT ![w] = FALSE]
      /\ UNCHANGED <<rows, nextId, surfaceOf, focus>>
    BY DEF DeferredDelete
<1>3. \A v \in Windows : hasFocus'[v] => hasFocus[v]
    BY <1>1, <1>2 DEF FocusMaps
<1> QED
    BY <1>1, <1>2, <1>3 DEF Vacant, ToCome, EmptyHaveRows, Tracked, InRows

LEMMA MirExtends ==
    ASSUME TypeOK, MirNext, ~Allowed("move"), ~Allowed("moveAll")
    PROVE  Extends(events, events', EventKinds \ {"away"})
<1> DEFINE K == EventKinds \ {"away"}
<1>1. /\ events \in Seq(Signals) /\ mirFocus \in Surfaces \cup {NoSurface} /\ NoSurface \notin Surfaces
      /\ \A k \in FocusKinds : k \in K
    BY SurfacesAssumption DEF TypeOK, FocusKinds, EventKinds
<1>2. ASSUME NEW s \in Surfaces
      PROVE  /\ Event("hidden", s) \in Signals /\ Event("shown", s) \in Signals
             /\ Event("destroyed", s) \in Signals /\ Event("died", s) \in Signals
             /\ Event("added", s) \in Signals
             /\ Event("hidden", s).kind \in K /\ Event("shown", s).kind \in K
             /\ Event("destroyed", s).kind \in K /\ Event("died", s).kind \in K
             /\ Event("added", s).kind \in K
    <2>1. /\ Event("hidden", s) \in Signals /\ Event("shown", s) \in Signals
          /\ Event("destroyed", s) \in Signals /\ Event("died", s) \in Signals
          /\ Event("added", s) \in Signals
        BY EventType DEF EventKinds, Brackets
    <2> QED
        BY <2>1 DEF Event, EventKinds
<1>3. ASSUME NEW e \in Signals, e.kind \in K, Append(events, e) = events'
      PROVE  Extends(events, events', K)
    <2>1. events \o <<e>> = events'
        BY <1>1, <1>3, Queued
    <2>2. Extends(events, events \o <<e>>, K)
        BY <1>1, <1>3, ExtendsByOne
    <2> QED
        BY <2>1, <2>2
<1> HIDE DEF K
<1>4. ASSUME NEW s \in Surfaces, NEW hide \in BOOLEAN, NEW here \in BOOLEAN, CreateSurface(s, hide, here)
      PROVE  Extends(events, events', K)
    <2>1. here
        BY <1>4 DEF CreateSurface
    <2>2. events' = Append(events, Event("added", s))
        BY <1>4, <2>1 DEF CreateSurface
    <2> QED
        BY <1>2, <1>3, <2>2
<1>5. ASSUME NEW s \in Surfaces, Refocus(s)
      PROVE  Extends(events, events', K)
    BY <1>1, <1>5, MirActivateExtends, ExtendsMore DEF Refocus
<1>6. ASSUME NEW s \in Surfaces, ShowSurface(s)
      PROVE  Extends(events, events', K)
    <2>1. events' = MovesFocus(events, OptionalSignal(TRUE, Event("shown", s)), NoSurface, NoSurface)
        BY <1>6, MirSteps
    <2> QED
        BY <1>1, <1>2, <2>1, MovesFocusExtends
<1>7. ASSUME NEW s \in Surfaces, Die(s)
      PROVE  Extends(events, events', K)
    BY <1>2, <1>3, <1>7 DEF Die
<1>8. ASSUME NEW s \in Surfaces, NEW next \in Surfaces \cup {NoSurface}, HideSurface(s, next)
      PROVE  Extends(events, events', K)
    <2> DEFINE old == IF mirFocus = s THEN s ELSE NoSurface
    <2>1. events' = MovesFocus(events, OptionalSignal(TRUE, Event("hidden", s)), old, next)
        BY <1>8, MirSteps
    <2>2. old \in Surfaces \cup {NoSurface}
        OBVIOUS
    <2> HIDE DEF old
    <2> QED
        BY <1>1, <1>2, <2>1, <2>2, MovesFocusExtends
<1>9. ASSUME NEW s \in Surfaces, NEW next \in Surfaces \cup {NoSurface}, Destroy(s, next)
      PROVE  Extends(events, events', K)
    <2> DEFINE q == IF mirFocus = s
                    THEN MovesFocus(events, OptionalSignal(FALSE, Event("shown", s)), NoSurface, next)
                    ELSE events
    <2>1. events' = q \o <<Event("destroyed", s)>>
        BY <1>9, MirSteps
    <2>2. Extends(events, q, K)
        <3>1. Extends(events, MovesFocus(events, OptionalSignal(FALSE, Event("shown", s)), NoSurface, next), K)
            BY <1>1, <1>2, MovesFocusExtends
        <3> QED
            BY <1>1, <3>1, ExtendsItself
    <2> HIDE DEF q
    <2>3. q \in Seq(Signals)
        BY <1>1, <2>2, ExtendsItself, ExtendsTwice
    <2>4. Extends(q, events', K)
        BY <1>2, <2>1, <2>3, ExtendsByOne
    <2> QED
        BY <1>1, <2>2, <2>4, ExtendsTwice
<1>10. ~MoveWorkspaceContent /\ \A s \in Surfaces : \A here \in BOOLEAN : ~MoveSurface(s, here)
    BY DEF MoveWorkspaceContent, MoveSurface
<1>11. Extends(events, events', K)
    BY <1>4, <1>5, <1>6, <1>7, <1>8, <1>9, <1>10 DEF MirNext
<1> QED
    BY <1>11 DEF K

\* Nothing moves away, in a behaviour of whose environment it is no part.
LEMMA NothingLeaves ==
    ASSUME Unmoved, TypeOK, NoneOf(events, {"away"}), [Next]_vars
    PROVE  NoneOf(events', {"away"})
<1>1. events \in Seq(Signals) /\ ~Allowed("move") /\ ~Allowed("moveAll")
    BY DEF TypeOK, Unmoved, Allowed
<1>2. ASSUME NEW q \in Seq(Signals), NoneOf(q, {"away"}), NEW K, "away" \notin K,
             Extends(q, events', K)
      PROVE  NoneOf(events', {"away"})
    <2>1. \A k \in {"away"} : k \notin K
        BY <1>2
    <2> QED
        BY <1>2, <2>1, NoneOfMore
<1>3. "away" \notin FocusKinds /\ "away" \notin EventKinds \ {"away"}
    BY DEF FocusKinds
<1>4. CASE ShellNext \/ ApplicationNext
    BY <1>1, <1>2, <1>3, <1>4, ShellCalls, ApplicationsCall, CallsExtend
<1>5. CASE SignalNext
    <2>1. events # <<>> /\ Tail(events) \in Seq(Signals) /\ Calls(Tail(events))
        BY <1>5, SignalsCall
    <2> QED
        BY <1>1, <1>2, <1>3, <2>1, NoneOfTail, CallsExtend
<1>6. CASE MirNext
    BY <1>1, <1>2, <1>3, <1>6, MirExtends
<1>7. CASE (\E w \in Windows : DeferredDelete(w)) \/ UNCHANGED vars
    BY <1>7 DEF DeferredDelete, vars
<1> QED
    BY <1>4, <1>5, <1>6, <1>7 DEF Next

(* In every behaviour in which no surface moves, only the focused window   *)
(* may be a window without surface that has the focus, and it is the null  *)
(* window or has a row.                                                    *)
THEOREM EmptyFocusTracked == Spec => []EmptyFocusIsKept
<1> DEFINE I == Unmoved => NoneOf(events, {"away"}) /\ Vacant
<1>1. Init => I
    <2> SUFFICES ASSUME Init PROVE I
        OBVIOUS
    <2>1. /\ events = <<>> /\ windows = {NullWindow}
          /\ surfaceOf = [w \in Windows |-> NoSurface] /\ hasFocus = [w \in Windows |-> FALSE]
        BY DEF Init
    <2>2. NoneOf(events, {"away"})
        BY <2>1 DEF NoneOf
    <2>3. NullWindow \in Windows
        BY SurfaceMapsType
    <2>4. ToCome /\ EmptyHaveRows /\ Tracked(windows \ condemned, surfaceOf, hasFocus, focus)
        BY <2>1, <2>3 DEF ToCome, EmptyHaveRows, Tracked
    <2> QED
        BY <2>2, <2>4 DEF Vacant
<1>2. I /\ Sound /\ [Next]_vars => I'
    <2> SUFFICES ASSUME I, Sound, [Next]_vars, Unmoved'
                 PROVE  NoneOf(events', {"away"}) /\ Vacant'
        BY DEF NoneOf
    <2>0. Unmoved /\ NoneOf(events, {"away"}) /\ Vacant
        BY EnvironmentStays DEF Unmoved
    <2>1. TypeOK
        BY DEF Sound
    <2>2. NoneOf(events', {"away"})
        BY <2>0, <2>1, NothingLeaves
    <2>3. Vacant'
        <3>1. CASE UNCHANGED vars
            BY <2>0, <3>1 DEF vars, modelVars, Vacant, ToCome, EmptyHaveRows, Tracked, InRows
        <3> QED
            BY <2>0, <3>1, ShellVacant, ApplicationsVacant, SignalsVacant, MirVacant, DeferredDeleteVacant
            DEF Next
    <2> QED
        BY <2>2, <2>3
<1>3. I => EmptyFocusIsKept
    BY DEF Vacant, EmptyHaveRows, Tracked, EmptyFocusIsTracked, EmptyFocusIsKept
<1> HIDE DEF I
<1>4. Spec => []Sound
    BY SoundAlways
<1> QED
    BY <1>1, <1>2, <1>3, <1>4, PTL DEF Spec
-----------------------------------------------------------------------------
(* The lives of surfaces, as the signals tell them.                        *)

LEMMA KindsApart ==
    ASSUME NEW e, NEW s
    PROVE  /\ Is(e, Leaving, s) <=> Is(e, {"died"}, s) \/ Is(e, {"destroyed"}, s)
           /\ Is(e, {"died"}, s) => ~Is(e, {"destroyed"}, s)
           /\ Is(e, Leaving, s) => ~Is(e, Arrivals, s)
           /\ Is(e, {"added"}, s) \/ Is(e, {"hidden"}, s) \/ Is(e, {"shown"}, s) <=> Is(e, Arrivals, s)
           /\ \A K : \A t : Is(e, K, s) /\ Is(e, K, t) => s = t
BY DEF Is, Leaving, Arrivals

LEMMA IsMentions ==
    ASSUME NEW e \in Signals, NEW K, NEW s, Is(e, K, s)
    PROVE  s \in ToSet(e.of)
<1>1. e.of \in Seq(Surfaces) /\ e.of # <<>> /\ e.of[1] = s
    BY DEF Is, Signals
<1>2. \A o \in Seq(Surfaces) : o # <<>> => 1 \in DOMAIN o
    OBVIOUS
<1> QED
    BY <1>1, <1>2 DEF ToSet

\* What is told of a surface, with one signal more.
LEMMA LifeMore ==
    ASSUME NEW q \in Seq(Signals), NEW e \in Signals, NEW life, NEW lives, NEW s,
           LifeOf(q, life, lives, s)
    PROVE  /\ /\ s \in ToSet(e.of) => life # "none"
              /\ ~Is(e, Leaving, s)
              /\ Is(e, Arrivals, s) => life = "live"
              => LifeOf(q \o <<e>>, life, lives, s)
           /\ life = "live" /\ Is(e, {"died"}, s) => LifeOf(q \o <<e>>, "dead", lives, s)
           /\ life = "dead" /\ Is(e, {"destroyed"}, s) => LifeOf(q \o <<e>>, "gone", lives, s)
           /\ ~Mentions(q, s) /\ ~Is(e, Leaving, s) => LifeOf(q \o <<e>>, "live", TRUE, s)
<1> DEFINE r == q \o <<e>>
           n == Len(q)
<1>1. /\ Len(r) = n + 1 /\ n \in Nat /\ r[n + 1] = e
      /\ \A i \in 1 .. n : r[i] = q[i] /\ i \in 1 .. Len(r) /\ i < n + 1
      /\ \A i \in 1 .. Len(r) : i \in 1 .. n \/ i = n + 1
      /\ n + 1 \in 1 .. Len(r)
      /\ \A i, j \in 1 .. n : i < j <=> i < j
      /\ \A j \in 1 .. Len(r) : ~(n + 1 < j)
    BY Queued
<1>2. /\ \A K : Says(r, K, s) <=> Says(q, K, s) \/ Is(e, K, s)
      /\ Mentions(r, s) <=> Mentions(q, s) \/ s \in ToSet(e.of)
    BY SaysMore
<1>3. \A K : Is(e, K, s) => s \in ToSet(e.of)
    BY IsMentions
<1> HIDE DEF r
<1>4. \A K : \A i \in 1 .. n : Is(q[i], K, s) => Says(q, K, s)
    BY DEF Says
<1>5. \A K : \A i \in 1 .. n : Is(q[i], K, s) => Mentions(q, s)
    <2>1. \A i \in 1 .. n : q[i] \in Signals
        BY <1>1
    <2> QED
        BY <2>1, IsMentions DEF Mentions
<1> HIDE DEF n
<1>6. /\ life = "none" => ~Mentions(q, s)
      /\ life = "live" => lives /\ ~Says(q, Leaving, s)
      /\ life = "dead" => ~Says(q, {"destroyed"}, s)
      /\ life # "live" /\ lives => Says(q, {"died"}, s)
      /\ Says(q, Arrivals, s) => lives
    BY DEF LifeOf
<1>7. \A i, j \in 1 .. n : i < j => ~(Is(q[i], Leaving, s) /\ Is(q[j], Arrivals, s))
    BY DEF LifeOf, n
<1>8. \A j \in 1 .. n : Is(q[j], {"destroyed"}, s) /\ lives =>
          \E i \in 1 .. n : i < j /\ Is(q[i], {"died"}, s)
    BY DEF LifeOf, n
<1> DEFINE Ordered == \A i, j \in 1 .. Len(r) : i < j => ~(Is(r[i], Leaving, s) /\ Is(r[j], Arrivals, s))
           Before(l) == \A j \in 1 .. Len(r) : Is(r[j], {"destroyed"}, s) /\ l =>
                            \E i \in 1 .. Len(r) : i < j /\ Is(r[i], {"died"}, s)
<1>9. ASSUME Is(e, Arrivals, s) => ~Says(q, Leaving, s)
      PROVE  Ordered
    BY <1>1, <1>4, <1>7, <1>9
<1>10. ASSUME Is(e, {"destroyed"}, s) => (lives => Says(q, {"died"}, s))
       PROVE  Before(lives)
    <2>1. Says(q, {"died"}, s) => \E i \in 1 .. n : Is(q[i], {"died"}, s)
        BY DEF Says, n
    <2> QED
        BY <1>1, <1>8, <1>10, <2>1
<1>11. ASSUME ~Mentions(q, s), ~Is(e, Leaving, s)
       PROVE  Before(TRUE) /\ Ordered
    BY <1>1, <1>5, <1>11, KindsApart
<1>12. \A life1, lives1 :
          LifeOf(r, life1, lives1, s) <=>
              /\ life1 = "none" => ~Mentions(r, s)
              /\ life1 = "live" => lives1 /\ ~Says(r, Leaving, s)
              /\ life1 = "dead" => ~Says(r, {"destroyed"}, s)
              /\ life1 # "live" /\ lives1 => Says(r, {"died"}, s)
              /\ Says(r, Arrivals, s) => lives1
              /\ Ordered
              /\ Before(lives1)
    BY Zenon DEF LifeOf
<1>13. \A K : Says(q, K, s) => Mentions(q, s)
    BY <1>5 DEF Says, n
<1> HIDE DEF Ordered, Before
<1>14. /\ Is(e, Leaving, s) <=> Is(e, {"died"}, s) \/ Is(e, {"destroyed"}, s)
       /\ Is(e, {"died"}, s) => ~Is(e, {"destroyed"}, s)
       /\ Is(e, Leaving, s) => ~Is(e, Arrivals, s)
    BY KindsApart
<1>15. Says(q, {"destroyed"}, s) => Says(q, Leaving, s)
    BY KindsApart DEF Says
<1>16. ASSUME s \in ToSet(e.of) => life # "none", ~Is(e, Leaving, s),
              Is(e, Arrivals, s) => life = "live"
       PROVE  LifeOf(r, life, lives, s)
    BY <1>2, <1>6, <1>9, <1>10, <1>12, <1>14, <1>16
<1>17. ASSUME life = "live", Is(e, {"died"}, s)
       PROVE  LifeOf(r, "dead", lives, s)
    BY <1>2, <1>6, <1>9, <1>10, <1>12, <1>14, <1>15, <1>17
<1>18. ASSUME life = "dead", Is(e, {"destroyed"}, s)
       PROVE  LifeOf(r, "gone", lives, s)
    BY <1>2, <1>6, <1>9, <1>10, <1>12, <1>14, <1>18
<1>19. ASSUME ~Mentions(q, s), ~Is(e, Leaving, s)
       PROVE  LifeOf(r, "live", TRUE, s)
    BY <1>2, <1>11, <1>12, <1>13, <1>14, <1>19
<1> QED
    BY <1>16, <1>17, <1>18, <1>19 DEF r

\* ... and with the first one delivered: a surface whose death is delivered lives no more.
LEMMA LifeLess ==
    ASSUME NEW q \in Seq(Signals), q # <<>>, NEW life, NEW lives \in BOOLEAN, NEW s,
           LifeOf(q, life, lives, s)
    PROVE  LifeOf(Tail(q), life, lives /\ ~Is(Head(q), {"died"}, s), s)
<1> DEFINE r == Tail(q)
           e == Head(q)
           l == lives /\ ~Is(e, {"died"}, s)
<1>1. /\ Len(q) = Len(r) + 1 /\ Len(r) \in Nat /\ e = q[1] /\ 1 \in 1 .. Len(q)
      /\ \A i \in 1 .. Len(r) : r[i] = q[i + 1] /\ i + 1 \in 1 .. Len(q) /\ 1 < i + 1
      /\ \A i, j \in 1 .. Len(r) : i < j <=> i + 1 < j + 1
      /\ \A i \in 1 .. Len(q) : i = 1 \/ (i - 1 \in 1 .. Len(r) /\ r[i - 1] = q[i] /\ (i - 1) + 1 = i)
    BY Taken
<1>2. /\ \A K : Says(q, K, s) <=> Says(r, K, s) \/ Is(e, K, s)
      /\ Mentions(r, s) => Mentions(q, s)
    BY SaysLess
<1> HIDE DEF r, e
<1>3. /\ life = "none" => ~Mentions(q, s)
      /\ life = "live" => lives /\ ~Says(q, Leaving, s)
      /\ life = "dead" => ~Says(q, {"destroyed"}, s)
      /\ life # "live" /\ lives => Says(q, {"died"}, s)
      /\ Says(q, Arrivals, s) => lives
    BY DEF LifeOf
<1>4. \A i, j \in 1 .. Len(q) : i < j => ~(Is(q[i], Leaving, s) /\ Is(q[j], Arrivals, s))
    BY DEF LifeOf
<1>5. \A j \in 1 .. Len(q) : Is(q[j], {"destroyed"}, s) /\ lives =>
          \E i \in 1 .. Len(q) : i < j /\ Is(q[i], {"died"}, s)
    BY DEF LifeOf
<1>6. /\ Is(e, Leaving, s) <=> Is(e, {"died"}, s) \/ Is(e, {"destroyed"}, s)
      /\ Is(e, Leaving, s) => ~Is(e, Arrivals, s)
    BY KindsApart
<1>7. \A i, j \in 1 .. Len(r) : i < j => ~(Is(r[i], Leaving, s) /\ Is(r[j], Arrivals, s))
    BY <1>1, <1>4
<1>8. Says(r, Arrivals, s) => ~Is(e, Leaving, s)
    BY <1>1, <1>4 DEF Says
<1>9. ASSUME NEW j \in 1 .. Len(r), Is(r[j], {"destroyed"}, s), l
      PROVE  \E i \in 1 .. Len(r) : i < j /\ Is(r[i], {"died"}, s)
    <2>1. PICK i \in 1 .. Len(q) : i < j + 1 /\ Is(q[i], {"died"}, s)
        BY <1>1, <1>5, <1>9
    <2>2. i # 1
        BY <1>1, <1>9, <2>1
    <2>3. i - 1 \in 1 .. Len(r) /\ r[i - 1] = q[i] /\ i - 1 < j
        BY <1>1, <2>1, <2>2
    <2> QED
        BY <2>1, <2>3
<1>10. /\ life = "none" => ~Mentions(r, s)
       /\ life = "live" => l /\ ~Says(r, Leaving, s)
       /\ life = "dead" => ~Says(r, {"destroyed"}, s)
       /\ life # "live" /\ l => Says(r, {"died"}, s)
       /\ Says(r, Arrivals, s) => l
    BY <1>2, <1>3, <1>6, <1>8
<1> QED
    BY <1>7, <1>9, <1>10 DEF LifeOf, r, e

\* A signal that tells nothing new of any surface's life.
TellsNothing(e, life) ==
    \A s \in Surfaces : /\ s \in ToSet(e.of) => life[s] # "none"
                        /\ ~Is(e, Leaving, s)
                        /\ Is(e, Arrivals, s) => life[s] = "live"

LEMMA TellNothing ==
    ASSUME NEW life, NEW s \in Surfaces
    PROVE  /\ TellsNothing(Started, life) /\ TellsNothing(Ended, life)
           /\ life[s] # "none" => \A kind \in {"lost", "gained", "raised"} : TellsNothing(Event(kind, s), life)
           /\ life[s] = "live" => \A kind \in {"added", "hidden", "shown"} : TellsNothing(Event(kind, s), life)
<1>1. ASSUME NEW K, NEW t
      PROVE  /\ \A kind, u : Is(Event(kind, u), K, t) <=> kind \in K /\ u = t
             /\ ~Is(Started, K, t) /\ ~Is(Ended, K, t)
             /\ \A kind, u : t \in ToSet(Event(kind, u).of) <=> t = u
             /\ t \notin ToSet(Started.of) /\ t \notin ToSet(Ended.of)
    BY IsEvent
<1>2. TellsNothing(Started, life) /\ TellsNothing(Ended, life)
    BY <1>1, Zenon DEF TellsNothing
<1>3. ASSUME life[s] # "none", NEW kind \in {"lost", "gained", "raised"}
      PROVE  TellsNothing(Event(kind, s), life)
    <2>1. kind \notin Leaving /\ kind \notin Arrivals
        BY <1>3 DEF Leaving, Arrivals
    <2> QED
        BY <1>1, <1>3, <2>1, Zenon DEF TellsNothing
<1>4. ASSUME life[s] = "live", NEW kind \in {"added", "hidden", "shown"}
      PROVE  TellsNothing(Event(kind, s), life)
    <2>1. kind \notin Leaving /\ life[s] # "none"
        BY <1>4 DEF Leaving
    <2>2. ASSUME NEW t
          PROVE  /\ ~Is(Event(kind, s), Leaving, t)
                 /\ Is(Event(kind, s), Arrivals, t) => s = t
                 /\ t \in ToSet(Event(kind, s).of) => s = t
        BY <1>1, <2>1, Zenon
    <2> QED
        BY <1>4, <2>1, <2>2, Zenon DEF TellsNothing
<1> QED
    BY <1>2, <1>3, <1>4

LEMMA LivesMore ==
    ASSUME NEW q \in Seq(Signals), NEW life, NEW L, Lives(q, life, L),
           NEW e \in Signals, TellsNothing(e, life)
    PROVE  Lives(q \o <<e>>, life, L) /\ q \o <<e>> \in Seq(Signals)
BY LifeMore, Queued DEF Lives, TellsNothing

LEMMA LivesOptional ==
    ASSUME NEW q \in Seq(Signals), NEW life, NEW L, Lives(q, life, L),
           NEW cond, NEW e, cond => e \in Signals /\ TellsNothing(e, life)
    PROVE  Lives(q \o OptionalSignal(cond, e), life, L) /\ q \o OptionalSignal(cond, e) \in Seq(Signals)
<1>1. CASE cond
    BY <1>1, LivesMore DEF OptionalSignal
<1>2. CASE ~cond
    BY <1>2 DEF OptionalSignal
<1> QED
    BY <1>1, <1>2

LEMMA LivesMoves ==
    ASSUME NEW q \in Seq(Signals), NEW life, NEW L, Lives(q, life, L),
           NEW cond, NEW e, cond => e \in Signals /\ TellsNothing(e, life),
           NEW old \in Surfaces \cup {NoSurface}, old # NoSurface => life[old] # "none",
           NEW s \in Surfaces \cup {NoSurface}, s # NoSurface => life[s] # "none"
    PROVE  /\ Lives(MovesFocus(q, OptionalSignal(cond, e), old, s), life, L)
           /\ MovesFocus(q, OptionalSignal(cond, e), old, s) \in Seq(Signals)
<1> DEFINE q1 == q \o <<Started>>
           q2 == q1 \o OptionalSignal(cond, e)
           q3 == q2 \o LostSignals(old)
           q4 == q3 \o GainedSignals(s)
           q5 == q4 \o <<Ended>>
<1>1. /\ Started \in Signals /\ Ended \in Signals
      /\ \A t \in Surfaces : Event("lost", t) \in Signals /\ Event("gained", t) \in Signals
                             /\ Event("raised", t) \in Signals
    BY SignalsAreFocusKinds
<1>2. \A t \in Surfaces : life[t] # "none" =>
          TellsNothing(Event("lost", t), life) /\ TellsNothing(Event("gained", t), life)
          /\ TellsNothing(Event("raised", t), life)
    BY TellNothing
<1>3. TellsNothing(Started, life) /\ TellsNothing(Ended, life)
    <2>1. CASE Surfaces = {}
        BY <2>1 DEF TellsNothing
    <2>2. CASE Surfaces # {}
        BY <2>2, TellNothing
    <2> QED
        BY <2>1, <2>2
<1>4. Lives(q1, life, L) /\ q1 \in Seq(Signals)
    BY <1>1, <1>3, LivesMore
<1> HIDE DEF q1
<1>5. Lives(q2, life, L) /\ q2 \in Seq(Signals)
    BY <1>4, LivesOptional
<1> HIDE DEF q2
<1>6. Lives(q3, life, L) /\ q3 \in Seq(Signals)
    BY <1>1, <1>2, <1>5, LivesOptional DEF LostSignals
<1> HIDE DEF q3
<1>7. Lives(q4, life, L) /\ q4 \in Seq(Signals)
    <2>1. CASE s = NoSurface
        BY <1>6, <2>1 DEF GainedSignals
    <2>2. CASE s # NoSurface
        <3> DEFINE g == q3 \o <<Event("gained", s)>>
        <3>1. Lives(g, life, L) /\ g \in Seq(Signals)
            BY <1>1, <1>2, <1>6, <2>2, LivesMore
        <3> HIDE DEF g
        <3>2. Lives(g \o <<Event("raised", s)>>, life, L) /\ g \o <<Event("raised", s)>> \in Seq(Signals)
            BY <1>1, <1>2, <2>2, <3>1, LivesMore
        <3>3. q3 \o <<Event("gained", s), Event("raised", s)>> = g \o <<Event("raised", s)>>
            BY <1>1, <1>6, <2>2, SignalsAtOnce, SMTT(20) DEF g
        <3>4. GainedSignals(s) = <<Event("gained", s), Event("raised", s)>>
            BY <2>2 DEF GainedSignals
        <3> QED
            BY <3>2, <3>3, <3>4
    <2> QED
        BY <2>1, <2>2
<1> HIDE DEF q4
<1>8. Lives(q5, life, L) /\ q5 \in Seq(Signals)
    BY <1>1, <1>3, <1>7, LivesMore
<1> QED
    BY <1>8 DEF q5, q4, q3, q2, q1, MovesFocus

\* Mir's focus is on a surface that exists.
FocusExists == mirFocus # NoSurface => mirLife[mirFocus] \in {"live", "dead"}

LEMMA CallsLive ==
    ASSUME TypeOK, FocusExists, NEW q \in Seq(Signals), Calls(q), NEW L, Lives(q, mirLife, L),
           mirLife' = mirLife
    PROVE  Lives(events', mirLife, L) /\ FocusExists'
<1>1. PICK t, s : RaisedIn(q, t) /\ s \in Surfaces \cup {NoSurface} /\ MirActivate(s, t)
    BY DEF Calls
<1>2. /\ Started \in Signals /\ Ended \in Signals
      /\ \A a \in Surfaces : Event("raised", a) \in Signals /\ Event("shown", a) \in Signals
    BY SignalsAreFocusKinds
<1>3. mirFocus \in Surfaces \cup {NoSurface} /\ mirHidden \subseteq Surfaces
    BY DEF TypeOK
<1>4. Lives(t, mirLife, L) /\ t \in Seq(Signals)
    <2>1. ASSUME NEW a \in Surfaces, Live(a),
                 t = ((q \o <<Started>>) \o <<Event("raised", a)>>) \o <<Ended>>
          PROVE  Lives(t, mirLife, L)
        <3>1. /\ TellsNothing(Started, mirLife) /\ TellsNothing(Ended, mirLife)
              /\ TellsNothing(Event("raised", a), mirLife)
            BY <2>1, TellNothing DEF Live
        <3> DEFINE q1 == q \o <<Started>>
                   q2 == q1 \o <<Event("raised", a)>>
                   q3 == q2 \o <<Ended>>
        <3>2. Lives(q1, mirLife, L) /\ q1 \in Seq(Signals)
            BY <1>2, <3>1, LivesMore
        <3> HIDE DEF q1
        <3>3. Lives(q2, mirLife, L) /\ q2 \in Seq(Signals)
            BY <1>2, <3>1, <3>2, LivesMore
        <3> HIDE DEF q2
        <3>4. Lives(q3, mirLife, L) /\ q3 \in Seq(Signals)
            BY <1>2, <3>1, <3>3, LivesMore
        <3> QED
            BY <2>1, <3>4 DEF q2, q1
    <2> QED
        BY <1>1, <2>1, RaisedIsQueue DEF RaisedIn
<1>5. CASE events' = t /\ UNCHANGED mirFocus
    BY <1>4, <1>5 DEF FocusExists
<1>6. CASE /\ s # NoSurface => Live(s)
           /\ mirFocus' = s
           /\ events' = MovesFocus(t, OptionalSignal(s \in mirHidden, Event("shown", s)), mirFocus, s)
    <2>1. s # NoSurface => s \in Surfaces /\ mirLife[s] = "live"
        BY <1>1, <1>6 DEF Live
    <2>2. s \in mirHidden => Event("shown", s) \in Signals /\ TellsNothing(Event("shown", s), mirLife)
        BY <1>2, <1>3, <2>1, SurfacesAssumption, TellNothing
    <2>3. mirFocus # NoSurface => mirLife[mirFocus] # "none"
        BY DEF FocusExists
    <2>4. s # NoSurface => mirLife[s] # "none"
        BY <2>1
    <2>5. Lives(events', mirLife, L)
        BY <1>1, <1>3, <1>4, <1>6, <2>2, <2>3, <2>4, LivesMoves
    <2> QED
        BY <1>6, <2>1, <2>5 DEF FocusExists
<1>7. \/ events' = t /\ UNCHANGED <<mirFocus, mirHidden>>
      \/ /\ s # mirFocus
         /\ s # NoSurface => Live(s)
         /\ mirFocus' = s /\ mirHidden' = mirHidden \ {s}
         /\ events' = MovesFocus(t, OptionalSignal(s \in mirHidden, Event("shown", s)), mirFocus, s)
    BY <1>1, <1>3, <1>4, MirActivateMoves, Zenon
<1> QED
    BY <1>1, <1>3, <1>5, <1>6, <1>7

\* A delivered signal is what kills a surface in the shell's eyes.
LEMMA DeathsDelivered ==
    ASSUME TypeOK, SignalNext
    PROVE  /\ \A s \in Surfaces : s \in liveSurfaces' <=> s \in liveSurfaces /\ ~Is(Head(events), {"died"}, s)
           /\ UNCHANGED <<mirLife, environment>>
<1>1. UNCHANGED <<mirLife, environment>>
    BY Zenon
    DEF SignalNext, OnModificationsStarted, OnModificationsEnded, FocusLost, FocusGained,
        UpdateFocused, OnSurfacesRaised, SkipKnownSurface, RemoveSurfaces, DeferHiddenSurface,
        AddTopLevelSurface, WrapSurface, SetInputMethodWindow, SurfaceHidden, modelVars, mirVars,
        SurfaceShown, SurfaceDied, InputMethodDied, SurfaceDestroyed
<1>2. CASE SurfaceDied \/ InputMethodDied
    <2>1. Deliver("died") /\ liveSurfaces' = liveSurfaces \ {Subject}
        BY <1>2, Zenon DEF SurfaceDied, InputMethodDied
    <2>2. Head(events) \in Signals /\ Head(events).kind = "died"
        BY <2>1, SubjectType DEF Deliver
    <2>3. Head(events).of # <<>>
        BY <2>2 DEF Signals, Brackets
    <2>4. \A s : Is(Head(events), {"died"}, s) <=> s = Subject
        BY <2>2, <2>3 DEF Is, Subject
    <2> QED
        BY <1>1, <2>1, <2>4
<1>3. ASSUME liveSurfaces' = liveSurfaces, NEW kind, kind # "died", Deliver(kind)
      PROVE  \A s \in Surfaces : s \in liveSurfaces' <=> s \in liveSurfaces /\ ~Is(Head(events), {"died"}, s)
    BY <1>3 DEF Deliver, Is
<1>4. CASE ~(SurfaceDied \/ InputMethodDied)
    <2>1. /\ liveSurfaces' = liveSurfaces
          /\ \/ Deliver("started") \/ Deliver("ended") \/ Deliver("lost") \/ Deliver("gained")
             \/ Deliver("raised") \/ Deliver("added") \/ Deliver("away") \/ Deliver("hidden")
             \/ Deliver("shown") \/ Deliver("destroyed")
        BY <1>4, Zenon
        DEF SignalNext, OnModificationsStarted, OnModificationsEnded, FocusLost, FocusGained,
            UpdateFocused, OnSurfacesRaised, SkipKnownSurface, RemoveSurfaces, DeferHiddenSurface,
            AddTopLevelSurface, WrapSurface, SetInputMethodWindow, Arrives, SurfaceHidden,
            SurfaceShown, SurfaceDestroyed, objectVars
    <2> QED
        BY <1>1, <1>3, <2>1
<1> QED
    BY <1>2, <1>4

(* What Mir and MirSurface know of the surfaces agrees but for the signals *)
(* that are on their way.                                                  *)
Living ==
    /\ Lives(events, mirLife, liveSurfaces)
    /\ FocusExists
    /\ \A s \in mirHere : mirLife[s] # "none"

\* A signal about s is about no other surface.
LEMMA AboutOne ==
    ASSUME NEW kind, NEW s, NEW e, e = Event(kind, s)
    PROVE  /\ \A K : Is(e, K, s) <=> kind \in K
           /\ \A t : t # s => t \notin ToSet(e.of) /\ \A K : ~Is(e, K, t)
<1>1. ASSUME NEW K, NEW t
      PROVE  /\ Is(e, K, t) <=> kind \in K /\ s = t
             /\ t \in ToSet(e.of) <=> t = s
    <2>1. e.kind = kind /\ e.of = <<s>> /\ <<s>> # <<>> /\ <<s>>[1] = s
        BY DEF Event
    <2>2. t \in ToSet(<<s>>) <=> t = s
        BY DEF ToSet
    <2> QED
        BY <2>1, <2>2 DEF Is
<1> QED
    BY <1>1, Zenon

LEMMA LivesDie ==
    ASSUME TypeOK, Living, NEW s \in Surfaces, Die(s)
    PROVE  Living'
<1> DEFINE e == Event("died", s)
<1>1. /\ events \in Seq(Signals) /\ mirLife \in [Surfaces -> {"none", "live", "dead", "gone"}]
      /\ e \in Signals
    BY EventType DEF TypeOK, EventKinds, Brackets
<1>2. /\ mirLife[s] = "live" /\ mirLife' = [mirLife EXCEPT ![s] = "dead"]
      /\ events' = Append(events, e) /\ UNCHANGED <<mirHere, mirFocus, liveSurfaces>>
    BY DEF Die, Live, objectVars
<1>3. events' = events \o <<e>>
    BY <1>1, <1>2
<1>4. \A t : /\ Is(e, {"died"}, s)
             /\ t # s => t \notin ToSet(e.of) /\ ~Is(e, Leaving, t) /\ ~Is(e, Arrivals, t)
    BY AboutOne
<1>5. ASSUME NEW t \in Surfaces
      PROVE  LifeOf(events', mirLife'[t], t \in liveSurfaces, t)
    <2>1. LifeOf(events, mirLife[t], t \in liveSurfaces, t)
        BY DEF Living, Lives
    <2> HIDE DEF e
    <2>2. CASE t = s
        <3>1. mirLife'[t] = "dead"
            BY <1>1, <1>2, <2>2
        <3>2. mirLife[t] = "live" /\ Is(e, {"died"}, t)
            BY <1>2, <1>4, <2>2
        <3>3. LifeOf(events \o <<e>>, "dead", t \in liveSurfaces, t)
            BY <1>1, <2>1, <3>2, LifeMore
        <3> QED
            BY <1>3, <3>1, <3>3
    <2>3. CASE t # s
        <3>1. mirLife'[t] = mirLife[t]
            BY <1>1, <1>2, <2>3
        <3>2. LifeOf(events \o <<e>>, mirLife[t], t \in liveSurfaces, t)
            BY <1>1, <1>4, <2>1, <2>3, LifeMore
        <3> QED
            BY <1>3, <3>1, <3>2
    <2> QED
        BY <2>2, <2>3
<1>6. \A t \in Surfaces : mirLife'[t] \in {"live", "dead"} <=> mirLife[t] \in {"live", "dead"}
    BY <1>1, <1>2
<1>7. \A t \in Surfaces : mirLife[t] # "none" => mirLife'[t] # "none"
    BY <1>1, <1>2
<1>8. mirFocus \in Surfaces \cup {NoSurface} /\ mirHere \subseteq Surfaces
    BY DEF TypeOK
<1> QED
    BY <1>2, <1>5, <1>6, <1>7, <1>8 DEF Living, Lives, FocusExists

LEMMA LivesCreate ==
    ASSUME TypeOK, Living, NEW s \in Surfaces, NEW hide \in BOOLEAN, NEW here \in BOOLEAN,
           CreateSurface(s, hide, here)
    PROVE  Living'
<1> DEFINE e == Event(IF here THEN "added" ELSE "away", s)
<1>1. /\ events \in Seq(Signals) /\ mirLife \in [Surfaces -> {"none", "live", "dead", "gone"}]
      /\ e \in Signals /\ liveSurfaces \subseteq Surfaces
    BY EventType DEF TypeOK, EventKinds, Brackets
<1>2. /\ mirLife[s] = "none" \/ (mirLife[s] = "gone" /\ ~Pending(s))
      /\ mirLife' = [mirLife EXCEPT ![s] = "live"]
      /\ events' = Append(events, e) /\ liveSurfaces' = liveSurfaces \cup {s}
      /\ mirFocus' = mirFocus /\ \A t \in mirHere' : t \in mirHere \/ t = s
    BY DEF CreateSurface
<1>3. events' = events \o <<e>>
    BY <1>1, <1>2
<1>4. \A t : /\ ~Is(e, Leaving, t)
             /\ t # s => t \notin ToSet(e.of) /\ ~Is(e, Arrivals, t)
    <2>1. (IF here THEN "added" ELSE "away") \notin Leaving
        BY DEF Leaving
    <2> QED
        BY <2>1, AboutOne
<1>5. ~Mentions(events, s)
    <2>1. LifeOf(events, mirLife[s], s \in liveSurfaces, s)
        BY DEF Living, Lives
    <2>2. mirLife[s] = "none" => ~Mentions(events, s)
        BY <2>1 DEF LifeOf
    <2>3. DOMAIN events = 1 .. Len(events)
        BY <1>1
    <2> QED
        BY <1>2, <2>2, <2>3 DEF Pending, Mentions
<1>6. ASSUME NEW t \in Surfaces
      PROVE  LifeOf(events', mirLife'[t], t \in liveSurfaces', t)
    <2>1. LifeOf(events, mirLife[t], t \in liveSurfaces, t)
        BY DEF Living, Lives
    <2> HIDE DEF e
    <2>2. CASE t = s
        <3>1. mirLife'[t] = "live" /\ (t \in liveSurfaces') = TRUE
            BY <1>1, <1>2, <2>2
        <3>2. LifeOf(events \o <<e>>, "live", TRUE, t)
            BY <1>1, <1>4, <1>5, <2>1, <2>2, LifeMore
        <3> QED
            BY <1>3, <3>1, <3>2
    <2>3. CASE t # s
        <3>1. mirLife'[t] = mirLife[t] /\ (t \in liveSurfaces') = (t \in liveSurfaces)
            BY <1>1, <1>2, <2>3
        <3>2. LifeOf(events \o <<e>>, mirLife[t], t \in liveSurfaces, t)
            BY <1>1, <1>4, <2>1, <2>3, LifeMore
        <3> QED
            BY <1>3, <3>1, <3>2
    <2> QED
        BY <2>2, <2>3
<1>7. mirFocus \in Surfaces \cup {NoSurface} /\ mirHere \subseteq Surfaces
    BY DEF TypeOK
<1>8. FocusExists'
    BY <1>1, <1>2, <1>7 DEF Living, FocusExists
<1>9. \A t \in mirHere' : mirLife'[t] # "none"
    BY <1>1, <1>2, <1>7 DEF Living
<1> QED
    BY <1>6, <1>8, <1>9 DEF Living, Lives

LEMMA LivesDestroy ==
    ASSUME TypeOK, Living, NEW s \in Surfaces, NEW next \in Surfaces \cup {NoSurface},
           Destroy(s, next)
    PROVE  Living'
<1> DEFINE e == Event("destroyed", s)
           q == IF mirFocus = s
                THEN MovesFocus(events, OptionalSignal(FALSE, Event("shown", s)), NoSurface, next)
                ELSE events
<1>1. /\ events \in Seq(Signals) /\ mirLife \in [Surfaces -> {"none", "live", "dead", "gone"}]
      /\ e \in Signals /\ mirFocus \in Surfaces \cup {NoSurface} /\ mirHere \subseteq Surfaces
    BY EventType DEF TypeOK, EventKinds, Brackets
<1>2. /\ mirLife[s] = "dead" /\ mirLife' = [mirLife EXCEPT ![s] = "gone"]
      /\ mirHere' = mirHere \ {s} /\ liveSurfaces' = liveSurfaces
      /\ mirFocus' = IF mirFocus = s THEN next ELSE mirFocus
      /\ next # NoSurface => mirLife[next] = "live"
    BY SurfacesAssumption DEF Destroy, objectVars, Focusable, Live
<1>3. events' = q \o <<e>>
    BY MirSteps
<1>4. Lives(q, mirLife, liveSurfaces) /\ q \in Seq(Signals)
    <2>1. Lives(events, mirLife, liveSurfaces)
        BY DEF Living
    <2>2. next # NoSurface => mirLife[next] # "none"
        BY <1>2
    <2> DEFINE m == MovesFocus(events, OptionalSignal(FALSE, Event("shown", s)), NoSurface, next)
    <2>3. Lives(m, mirLife, liveSurfaces) /\ m \in Seq(Signals)
        BY <1>1, <2>1, <2>2, LivesMoves
    <2> HIDE DEF m
    <2> QED
        BY <1>1, <2>1, <2>3 DEF m
<1> HIDE DEF q
<1>5. \A t : /\ Is(e, {"destroyed"}, s)
             /\ t # s => t \notin ToSet(e.of) /\ ~Is(e, Leaving, t) /\ ~Is(e, Arrivals, t)
    BY AboutOne
<1>6. ASSUME NEW t \in Surfaces
      PROVE  LifeOf(events', mirLife'[t], t \in liveSurfaces, t)
    <2>1. LifeOf(q, mirLife[t], t \in liveSurfaces, t)
        BY <1>4 DEF Lives
    <2> HIDE DEF e
    <2>2. CASE t = s
        <3>1. mirLife'[t] = "gone"
            BY <1>1, <1>2, <2>2
        <3>2. mirLife[t] = "dead" /\ Is(e, {"destroyed"}, t)
            BY <1>2, <1>5, <2>2
        <3>3. LifeOf(q \o <<e>>, "gone", t \in liveSurfaces, t)
            BY <1>1, <1>4, <2>1, <3>2, LifeMore
        <3> QED
            BY <1>3, <3>1, <3>3
    <2>3. CASE t # s
        <3>1. mirLife'[t] = mirLife[t]
            BY <1>1, <1>2, <2>3
        <3>2. LifeOf(q \o <<e>>, mirLife[t], t \in liveSurfaces, t)
            BY <1>1, <1>4, <1>5, <2>1, <2>3, LifeMore
        <3> QED
            BY <1>3, <3>1, <3>2
    <2> QED
        BY <2>2, <2>3
<1>7. FocusExists'
    BY <1>1, <1>2 DEF Living, FocusExists
<1>8. \A t \in mirHere' : mirLife'[t] # "none"
    BY <1>1, <1>2 DEF Living
<1> QED
    BY <1>2, <1>6, <1>7, <1>8 DEF Living, Lives

\* What neither begins nor ends a life.
LEMMA LivesKept ==
    ASSUME TypeOK, Living, Lives(events', mirLife, liveSurfaces),
           UNCHANGED <<mirLife, liveSurfaces>>,
           FocusExists', \A s \in mirHere' : mirLife[s] # "none"
    PROVE  Living'
BY DEF Living

LEMMA LivesBlock ==
    ASSUME TypeOK, Living, NEW kind \in {"hidden", "shown"}, NEW s \in Surfaces, mirLife[s] = "live",
           NEW old \in {NoSurface, mirFocus}, NEW next \in Surfaces \cup {NoSurface},
           next # NoSurface => mirLife[next] = "live",
           events' = MovesFocus(events, OptionalSignal(TRUE, Event(kind, s)), old, next),
           UNCHANGED <<mirLife, liveSurfaces, mirHere>>, mirFocus' = mirFocus \/ mirFocus' = next
    PROVE  Living'
<1>1. /\ events \in Seq(Signals) /\ old \in Surfaces \cup {NoSurface}
      /\ Event(kind, s) \in Signals
    BY EventType DEF TypeOK, EventKinds, Brackets
<1>2. TellsNothing(Event(kind, s), mirLife)
    BY TellNothing
<1>3. Lives(events, mirLife, liveSurfaces) /\ FocusExists
    BY DEF Living
<1>4. /\ old # NoSurface => mirLife[old] # "none"
      /\ next # NoSurface => mirLife[next] # "none"
    BY <1>3 DEF FocusExists
<1>5. Lives(events', mirLife, liveSurfaces)
    BY <1>1, <1>2, <1>3, <1>4, LivesMoves
<1>6. FocusExists'
    BY <1>3 DEF FocusExists
<1>7. \A t \in mirHere' : mirLife[t] # "none"
    BY DEF Living
<1> QED
    BY <1>5, <1>6, <1>7, LivesKept

LEMMA MirLives ==
    ASSUME TypeOK, Living, MirNext
    PROVE  Living'
<1>1. /\ events \in Seq(Signals) /\ mirFocus \in Surfaces \cup {NoSurface}
      /\ mirHere \subseteq Surfaces /\ NoSurface \notin Surfaces
    BY SurfacesAssumption DEF TypeOK
<1>2. ASSUME NEW s \in Surfaces, Refocus(s)
      PROVE  Living'
    <2>1. MirActivate(s, events) /\ UNCHANGED <<mirLife, mirHere, liveSurfaces>>
        BY <1>2 DEF Refocus, objectVars
    <2>2. Calls(events)
        BY <2>1 DEF Calls, RaisedIn
    <2>3. Lives(events', mirLife, liveSurfaces) /\ FocusExists'
        BY <1>1, <2>1, <2>2, CallsLive DEF Living
    <2> QED
        BY <2>1, <2>3, LivesKept DEF Living
<1>3. ASSUME NEW s \in Surfaces, ShowSurface(s)
      PROVE  Living'
    <2>1. events' = MovesFocus(events, OptionalSignal(TRUE, Event("shown", s)), NoSurface, NoSurface)
        BY <1>3, MirSteps
    <2>2. mirLife[s] = "live" /\ UNCHANGED <<mirLife, liveSurfaces, mirHere, mirFocus>>
        BY <1>3 DEF ShowSurface, Live, objectVars
    <2> QED
        BY <2>1, <2>2, LivesBlock
<1>4. ASSUME NEW s \in Surfaces, NEW next \in Surfaces \cup {NoSurface}, HideSurface(s, next)
      PROVE  Living'
    <2> DEFINE old == IF mirFocus = s THEN s ELSE NoSurface
    <2>1. events' = MovesFocus(events, OptionalSignal(TRUE, Event("hidden", s)), old, next)
        BY <1>4, MirSteps
    <2>2. /\ mirLife[s] = "live" /\ UNCHANGED <<mirLife, liveSurfaces, mirHere>>
          /\ mirFocus' = mirFocus \/ mirFocus' = next
          /\ next # NoSurface => mirLife[next] = "live"
        BY <1>4 DEF HideSurface, Focusable, Live, objectVars
    <2>3. old \in {NoSurface, mirFocus}
        OBVIOUS
    <2> HIDE DEF old
    <2> QED
        BY <2>1, <2>2, <2>3, LivesBlock
<1>5. ASSUME NEW e \in Signals, TellsNothing(e, mirLife), events' = Append(events, e),
             UNCHANGED <<mirLife, liveSurfaces, mirFocus>>, \A t \in mirHere' : mirLife[t] # "none"
      PROVE  Living'
    <2>1. events' = events \o <<e>>
        BY <1>1, <1>5
    <2>2. Lives(events \o <<e>>, mirLife, liveSurfaces)
        BY <1>1, <1>5, LivesMore DEF Living
    <2>3. FocusExists'
        BY <1>5 DEF Living, FocusExists
    <2> QED
        BY <1>5, <2>1, <2>2, <2>3, LivesKept
<1>6. ASSUME NEW s \in Surfaces, NEW here \in BOOLEAN, MoveSurface(s, here)
      PROVE  Living'
    <2> DEFINE e == Event(IF here THEN "added" ELSE "away", s)
    <2>1. /\ mirLife[s] = "live" /\ UNCHANGED <<mirLife, liveSurfaces, mirFocus>>
          /\ events' = Append(events, e) /\ \A t \in mirHere' : t \in mirHere \/ t = s
        BY <1>6 DEF MoveSurface, Live, objectVars
    <2>2. e \in Signals
        BY EventType DEF EventKinds, Brackets
    <2>3. (IF here THEN "added" ELSE "away") \notin Leaving
        BY DEF Leaving
    <2>4. TellsNothing(e, mirLife)
        BY <2>1, <2>3, AboutOne DEF TellsNothing
    <2>5. \A t \in mirHere' : mirLife[t] # "none"
        BY <2>1 DEF Living
    <2> HIDE DEF e
    <2> QED
        BY <1>5, <2>1, <2>2, <2>4, <2>5
<1>7. CASE MoveWorkspaceContent
    <2>1. PICK ss \in SetToSeqs(mirHere) : events' = Append(events, [kind |-> "away", of |-> ss])
        BY <1>7 DEF MoveWorkspaceContent
    <2> DEFINE e == [kind |-> "away", of |-> ss]
    <2>2. UNCHANGED <<mirLife, liveSurfaces, mirFocus>> /\ mirHere' = {}
        BY <1>7 DEF MoveWorkspaceContent, objectVars
    <2>3. ss \in [1 .. Cardinality(mirHere) -> mirHere]
        BY <2>1 DEF SetToSeqs
    <2>4. e \in Signals
        <3>1. Cardinality(mirHere) \in Nat /\ Cardinality(mirHere) # 0
            <4>1. mirHere \in SUBSET Surfaces /\ mirHere # {}
                BY <1>1, <1>7 DEF MoveWorkspaceContent
            <4>2. IsFiniteSet(mirHere)
                BY <4>1, FS_Subset, SurfacesAssumption
            <4> QED
                BY <4>1, <4>2, FS_EmptySet, FS_CardinalityType
        <3>2. ss \in Seq(Surfaces) /\ ss # <<>>
            BY <1>1, <2>3, <3>1
        <3> QED
            BY <3>2 DEF Signals, EventKinds, Brackets
    <2>5. \A t : t \in ToSet(ss) => t \in mirHere
        BY <2>3 DEF ToSet
    <2>6. TellsNothing(e, mirLife)
        BY <2>5 DEF TellsNothing, Is, Leaving, Arrivals, Living
    <2> QED
        BY <1>5, <2>1, <2>2, <2>4, <2>6
<1> QED
    BY <1>2, <1>3, <1>4, <1>6, <1>7, LivesCreate, LivesDie, LivesDestroy DEF MirNext

LEMMA SignalsLive ==
    ASSUME TypeOK, Living, SignalNext
    PROVE  Living'
<1> DEFINE q == Tail(events)
           e == Head(events)
<1>1. /\ events \in Seq(Signals) /\ events # <<>> /\ q \in Seq(Signals)
      /\ Calls(q)
    BY SignalsCall
<1>2. /\ \A s \in Surfaces : s \in liveSurfaces' <=> s \in liveSurfaces /\ ~Is(e, {"died"}, s)
      /\ UNCHANGED mirLife
    BY DeathsDelivered
<1>3. ASSUME NEW s \in Surfaces
      PROVE  LifeOf(q, mirLife[s], s \in liveSurfaces', s)
    <2>1. LifeOf(events, mirLife[s], s \in liveSurfaces, s)
        BY DEF Living, Lives
    <2> DEFINE life == mirLife[s]
               lives == s \in liveSurfaces
    <2>2. LifeOf(q, mirLife[s], (s \in liveSurfaces) /\ ~Is(e, {"died"}, s), s)
        <3>1. lives \in BOOLEAN /\ LifeOf(events, life, lives, s)
            BY <2>1
        <3> HIDE DEF life, lives
        <3>2. LifeOf(Tail(events), life, lives /\ ~Is(Head(events), {"died"}, s), s)
            BY <1>1, <3>1, LifeLess
        <3> QED
            BY <3>2 DEF life, lives
    <2>3. ((s \in liveSurfaces) /\ ~Is(e, {"died"}, s)) = (s \in liveSurfaces')
        BY <1>2
    <2> QED
        BY <2>2, <2>3
<1>4. Lives(q, mirLife, liveSurfaces')
    BY <1>3 DEF Lives
<1> HIDE DEF q, e
<1>5. Lives(events', mirLife, liveSurfaces') /\ FocusExists'
    <2>1. FocusExists
        BY DEF Living
    <2> QED
        BY <1>1, <1>2, <1>4, <2>1, CallsLive
<1>6. mirHere' = mirHere
    BY Zenon
    DEF SignalNext, OnModificationsStarted, OnModificationsEnded, FocusLost, FocusGained,
        UpdateFocused, OnSurfacesRaised, SkipKnownSurface, RemoveSurfaces, DeferHiddenSurface,
        AddTopLevelSurface, WrapSurface, SetInputMethodWindow, SurfaceHidden, modelVars, mirVars,
        SurfaceShown, SurfaceDied, InputMethodDied, SurfaceDestroyed
<1> QED
    BY <1>2, <1>5, <1>6 DEF Living

LEMMA LivesAlways == Spec => []Living
<1>1. Init => Living
    <2> SUFFICES ASSUME Init PROVE Living
        OBVIOUS
    <2>1. /\ events = <<>> /\ mirLife = [s \in Surfaces |-> "none"] /\ liveSurfaces = {}
          /\ mirHere = {} /\ mirFocus = NoSurface
        BY DEF Init
    <2> QED
        BY <2>1 DEF Living, Lives, LifeOf, Says, Mentions, FocusExists
<1>2. TypeOK /\ Living /\ [Next]_vars => Living'
    <2> SUFFICES ASSUME TypeOK, Living, [Next]_vars
                 PROVE  Living'
        OBVIOUS
    <2>1. CASE ShellNext \/ ApplicationNext
        <3>1. Calls(events)
            BY <2>1, ShellCalls, ApplicationsCall
        <3>2. UNCHANGED <<mirLife, mirHere, liveSurfaces>>
            BY <2>1, Zenon
            DEF ShellNext, SetRootFocus, RaiseId, ActivateWindow, CloseWindow, PendingActivation,
                CloseAllWindows, unfocusable, objectVars, ApplicationNext, AddApplication,
                RemoveApplication
        <3>3. Lives(events', mirLife, liveSurfaces) /\ FocusExists'
            BY <3>1, <3>2, CallsLive DEF Living, TypeOK
        <3> QED
            BY <3>2, <3>3, LivesKept DEF Living
    <2>2. CASE SignalNext
        BY <2>2, SignalsLive
    <2>3. CASE MirNext
        BY <2>3, MirLives
    <2>4. CASE (\E w \in Windows : DeferredDelete(w)) \/ UNCHANGED vars
        BY <2>4 DEF DeferredDelete, vars, mirVars, objectVars, Living, FocusExists
    <2> QED
        BY <2>1, <2>2, <2>3, <2>4 DEF Next
<1>3. Spec => []TypeOK
    BY TypeCorrectness
<1> QED
    BY <1>1, <1>2, <1>3, PTL DEF Spec
-----------------------------------------------------------------------------
(* The keyboard.                                                           *)

(* Of the signals that are still to be delivered the last one about a      *)
(* keyboard decides which surface the input method's window will wrap.     *)
AboutKeyboards(e) == \E s \in InputMethods : Is(e, {"added", "died"}, s)
Silent(q) == \A i \in 1 .. Len(q) : ~AboutKeyboards(q[i])
EndsWith(q, kind, s) ==
    \E i \in 1 .. Len(q) : /\ Is(q[i], {kind}, s)
                           /\ \A j \in 1 .. Len(q) : i < j => ~AboutKeyboards(q[j])

\* A keyboard's surface is wrapped, or will be; without keyboard none is.
Board(q, life, wrapped) ==
    /\ \A s, t \in InputMethods : life[s] = "live" /\ life[t] = "live" => s = t
    /\ \A s \in InputMethods :
          life[s] = "live" => EndsWith(q, "added", s) \/ (Silent(q) /\ wrapped = s)
    /\ (\A s \in InputMethods : life[s] # "live") =>
          (\E s \in InputMethods : EndsWith(q, "died", s)) \/ (Silent(q) /\ wrapped = NoSurface)

Keyboard == IF inputMethodWindow = NoWindow THEN NoSurface ELSE surfaceOf[inputMethodWindow]

Wrapped ==
    /\ inputMethodWindow # NoWindow =>
          inputMethodWindow \in windows /\ Keyboard \in InputMethods \cap liveSurfaces
    /\ \A s \in allSurfaces \cup deferred : IsTopLevel(s)

LEMMA BoardMore ==
    ASSUME NEW q \in Seq(Signals), NEW b \in Seq(Signals), Silent(b), NEW life, NEW wrapped,
           Board(q, life, wrapped)
    PROVE  Board(q \o b, life, wrapped)
<1> DEFINE r == q \o b
<1>1. /\ \A i \in 1 .. Len(r) : \/ i \in 1 .. Len(q) /\ r[i] = q[i]
                                \/ i - Len(q) \in 1 .. Len(b) /\ r[i] = b[i - Len(q)]
      /\ \A i \in 1 .. Len(q) : i \in 1 .. Len(r) /\ r[i] = q[i]
    OBVIOUS
<1> HIDE DEF r
<1>2. Silent(q) => Silent(r)
    BY <1>1 DEF Silent
<1>3. ASSUME NEW kind, NEW s, EndsWith(q, kind, s)
      PROVE  EndsWith(r, kind, s)
    <2>1. PICK i \in 1 .. Len(q) : /\ Is(q[i], {kind}, s)
                                   /\ \A j \in 1 .. Len(q) : i < j => ~AboutKeyboards(q[j])
        BY <1>3 DEF EndsWith
    <2>2. \A j \in 1 .. Len(r) : i < j => ~AboutKeyboards(r[j])
        BY <1>1, <2>1 DEF Silent
    <2> QED
        BY <1>1, <2>1, <2>2 DEF EndsWith
<1> QED
    BY <1>2, <1>3 DEF Board, r

LEMMA BoardExtends ==
    ASSUME NEW q \in Seq(Signals), NEW r, NEW K, "added" \notin K, "died" \notin K, Extends(q, r, K),
           NEW life, NEW wrapped, Board(q, life, wrapped)
    PROVE  Board(r, life, wrapped)
<1>1. PICK b \in Seq(Signals) : r = q \o b /\ \A i \in 1 .. Len(b) : b[i].kind \in K
    BY DEF Extends
<1>2. Silent(b)
    BY <1>1 DEF Silent, AboutKeyboards, Is
<1> QED
    BY <1>1, <1>2, BoardMore

LEMMA BoardLess ==
    ASSUME NEW q \in Seq(Signals), q # <<>>, NEW life, NEW old, NEW new, Board(q, life, old),
           ~AboutKeyboards(Head(q)) => new = old,
           \A s \in InputMethods : /\ Is(Head(q), {"added"}, s) => new = s
                                   /\ Is(Head(q), {"died"}, s) => new = NoSurface
    PROVE  Board(Tail(q), life, new)
<1> DEFINE r == Tail(q)
           e == Head(q)
<1>1. /\ Len(q) = Len(r) + 1 /\ Len(r) \in Nat /\ e = q[1] /\ 1 \in 1 .. Len(q)
      /\ \A i \in 1 .. Len(r) : r[i] = q[i + 1] /\ i + 1 \in 1 .. Len(q) /\ 1 < i + 1
      /\ \A i, j \in 1 .. Len(r) : i < j <=> i + 1 < j + 1
      /\ \A i \in 1 .. Len(q) : i = 1 \/ (i - 1 \in 1 .. Len(r) /\ r[i - 1] = q[i] /\ (i - 1) + 1 = i)
    BY Taken
<1> HIDE DEF r, e
<1>2. Silent(q) => Silent(r) /\ ~AboutKeyboards(e)
    BY <1>1 DEF Silent
<1>3. ASSUME NEW kind, NEW s, EndsWith(q, kind, s)
      PROVE  EndsWith(r, kind, s) \/ (Is(e, {kind}, s) /\ Silent(r))
    <2>1. PICK i \in 1 .. Len(q) : /\ Is(q[i], {kind}, s)
                                   /\ \A j \in 1 .. Len(q) : i < j => ~AboutKeyboards(q[j])
        BY <1>3 DEF EndsWith
    <2>2. CASE i = 1
        BY <1>1, <2>1, <2>2 DEF Silent
    <2>3. CASE i # 1
        <3>1. i - 1 \in 1 .. Len(r) /\ r[i - 1] = q[i] /\ (i - 1) + 1 = i
            BY <1>1, <2>3
        <3>2. \A j \in 1 .. Len(r) : i - 1 < j => ~AboutKeyboards(r[j])
            BY <1>1, <2>1, <3>1
        <3> QED
            BY <2>1, <3>1, <3>2 DEF EndsWith
    <2> QED
        BY <2>2, <2>3
<1>4. /\ ~AboutKeyboards(e) => new = old
      /\ \A s \in InputMethods : (Is(e, {"added"}, s) => new = s) /\ (Is(e, {"died"}, s) => new = NoSurface)
    BY DEF e
<1>5. /\ \A s, t \in InputMethods : life[s] = "live" /\ life[t] = "live" => s = t
      /\ \A s \in InputMethods :
            life[s] = "live" => EndsWith(q, "added", s) \/ (Silent(q) /\ old = s)
      /\ (\A s \in InputMethods : life[s] # "live") =>
            (\E s \in InputMethods : EndsWith(q, "died", s)) \/ (Silent(q) /\ old = NoSurface)
    BY DEF Board
<1>6. ASSUME NEW s \in InputMethods, life[s] = "live"
      PROVE  EndsWith(r, "added", s) \/ (Silent(r) /\ new = s)
    BY <1>2, <1>3, <1>4, <1>5, <1>6
<1>7. ASSUME \A s \in InputMethods : life[s] # "live"
      PROVE  (\E s \in InputMethods : EndsWith(r, "died", s)) \/ (Silent(r) /\ new = NoSurface)
    BY <1>2, <1>3, <1>4, <1>5, <1>7
<1> QED
    BY <1>5, <1>6, <1>7 DEF Board, r

\* Only which keyboards live matters of their lives.
LEMMA BoardLife ==
    ASSUME NEW q, NEW life, NEW life1, NEW wrapped, Board(q, life, wrapped),
           \A s \in InputMethods : life[s] = "live" <=> life1[s] = "live"
    PROVE  Board(q, life1, wrapped)
BY DEF Board

\* A keyboard starts, or dies.
LEMMA BoardNews ==
    ASSUME NEW q \in Seq(Signals), NEW kind \in {"added", "died"}, NEW s \in InputMethods,
           Event(kind, s) \in Signals
    PROVE  EndsWith(q \o <<Event(kind, s)>>, kind, s)
<1> DEFINE e == Event(kind, s)
           r == q \o <<e>>
<1>1. Len(r) = Len(q) + 1 /\ Len(q) \in Nat /\ r[Len(q) + 1] = e
    BY Queued
<1>2. Is(e, {kind}, s)
    BY AboutOne
<1> HIDE DEF r, e
<1>3. Len(r) \in 1 .. Len(r) /\ r[Len(r)] = e /\ \A j \in 1 .. Len(r) : ~(Len(r) < j)
    BY <1>1
<1> QED
    BY <1>2, <1>3 DEF EndsWith, r, e

LEMMA MirBoards ==
    ASSUME ~Allowed("keyboards"), TypeOK, MirNext, NEW wrapped, Board(events, mirLife, wrapped)
    PROVE  Board(events', mirLife', wrapped)
<1> DEFINE K == EventKinds \ {"added", "died"}
<1>1. /\ events \in Seq(Signals) /\ mirFocus \in Surfaces \cup {NoSurface} /\ NoSurface \notin Surfaces
      /\ \A k \in FocusKinds : k \in K
      /\ "added" \notin K /\ "died" \notin K
      /\ mirLife \in [Surfaces -> {"none", "live", "dead", "gone"}]
      /\ InputMethods \subseteq Surfaces
      /\ ~Allowed("keyboards")
    BY SurfacesAssumption DEF TypeOK, FocusKinds, EventKinds
<1>2. ASSUME NEW s \in Surfaces
      PROVE  /\ Event("hidden", s) \in Signals /\ Event("shown", s) \in Signals
             /\ Event("destroyed", s) \in Signals /\ Event("died", s) \in Signals
             /\ Event("added", s) \in Signals /\ Event("away", s) \in Signals
             /\ Event("hidden", s).kind \in K /\ Event("shown", s).kind \in K
             /\ Event("destroyed", s).kind \in K
    <2>1. /\ Event("hidden", s) \in Signals /\ Event("shown", s) \in Signals
          /\ Event("destroyed", s) \in Signals /\ Event("died", s) \in Signals
          /\ Event("added", s) \in Signals /\ Event("away", s) \in Signals
        BY EventType DEF EventKinds, Brackets
    <2> QED
        BY <2>1 DEF Event, EventKinds
<1> HIDE DEF K
<1>3. ASSUME Extends(events, events', K),
             \A s \in InputMethods : mirLife[s] = "live" <=> mirLife'[s] = "live"
      PROVE  Board(events', mirLife', wrapped)
    <2>1. Board(events', mirLife, wrapped)
        BY <1>1, <1>3, BoardExtends
    <2> QED
        BY <1>3, <2>1, BoardLife
\* A signal that is about no keyboard.
<1>4. ASSUME NEW e \in Signals, ~AboutKeyboards(e), events' = Append(events, e),
             \A s \in InputMethods : mirLife[s] = "live" <=> mirLife'[s] = "live"
      PROVE  Board(events', mirLife', wrapped)
    <2>1. <<e>> \in Seq(Signals) /\ events' = events \o <<e>>
        BY <1>1, <1>4
    <2>2. Silent(<<e>>)
        BY <1>4 DEF Silent
    <2>3. Board(events', mirLife, wrapped)
        BY <1>1, <2>1, <2>2, BoardMore
    <2> QED
        BY <1>4, <2>3, BoardLife
<1>5. ASSUME NEW s \in Surfaces, NEW kind, s \notin InputMethods \/ kind \notin {"added", "died"}
      PROVE  ~AboutKeyboards(Event(kind, s))
    <2> DEFINE e == Event(kind, s)
    <2>1. /\ \A K1 : Is(e, K1, s) <=> kind \in K1
          /\ \A t : t # s => \A K1 : ~Is(e, K1, t)
        BY AboutOne
    <2> HIDE DEF e
    <2>2. ~AboutKeyboards(e)
        BY <1>5, <2>1 DEF AboutKeyboards
    <2> QED
        BY <2>2 DEF e
<1>6. ASSUME NEW s \in Surfaces, NEW hide \in BOOLEAN, NEW here \in BOOLEAN, CreateSurface(s, hide, here)
      PROVE  Board(events', mirLife', wrapped)
    <2>1. /\ mirLife' = [mirLife EXCEPT ![s] = "live"]
          /\ events' = Append(events, Event(IF here THEN "added" ELSE "away", s))
          /\ ~here => IsTopLevel(s)
          /\ s \in InputMethods => \A t \in InputMethods : mirLife[t] \in {"none", "gone"}
        <3>1. ~Allowed("keyboards")
            BY <1>1
        <3> QED
            BY <1>6, <3>1, Zenon DEF CreateSurface
    <2>2. CASE s \in InputMethods
        <3>1. here
            BY <2>1, <2>2 DEF IsTopLevel
        <3>2. events' = events \o <<Event("added", s)>>
            BY <1>1, <1>2, <2>1, <3>1, Queued
        <3>3. EndsWith(events', "added", s)
            BY <1>1, <1>2, <2>2, <3>2, BoardNews
        <3>4. \A t \in InputMethods : mirLife'[t] = "live" <=> t = s
            BY <1>1, <2>1, <2>2
        <3> QED
            BY <2>2, <3>3, <3>4 DEF Board
    <2>3. CASE s \notin InputMethods
        <3> DEFINE e == Event(IF here THEN "added" ELSE "away", s)
        <3>1. e \in Signals /\ ~AboutKeyboards(e)
            BY <1>2, <1>5, <2>3
        <3>2. \A t \in InputMethods : mirLife'[t] = mirLife[t]
            BY <1>1, <2>1, <2>3
        <3> HIDE DEF e
        <3>3. events' = Append(events, e)
            BY <2>1 DEF e
        <3> QED
            BY <1>4, <3>1, <3>2, <3>3
    <2> QED
        BY <2>2, <2>3
<1>7. ASSUME NEW s \in Surfaces, Refocus(s)
      PROVE  Board(events', mirLife', wrapped)
    <2>1. Extends(events, events', K)
        BY <1>1, <1>7, MirActivateExtends, ExtendsMore DEF Refocus
    <2>2. mirLife' = mirLife
        BY <1>7 DEF Refocus
    <2> QED
        BY <1>3, <2>1, <2>2
<1>8. ASSUME NEW s \in Surfaces, ShowSurface(s)
      PROVE  Board(events', mirLife', wrapped)
    <2>1. events' = MovesFocus(events, OptionalSignal(TRUE, Event("shown", s)), NoSurface, NoSurface)
        BY <1>8, MirSteps
    <2>2. Extends(events, events', K)
        BY <1>1, <1>2, <2>1, MovesFocusExtends
    <2>3. mirLife' = mirLife
        BY <1>8 DEF ShowSurface
    <2> QED
        BY <1>3, <2>2, <2>3
<1>9. ASSUME NEW s \in Surfaces, Die(s)
      PROVE  Board(events', mirLife', wrapped)
    <2>1. /\ mirLife[s] = "live" /\ mirLife' = [mirLife EXCEPT ![s] = "dead"]
          /\ events' = Append(events, Event("died", s))
        BY <1>9 DEF Die, Live
    <2>2. CASE s \in InputMethods
        <3>1. events' = events \o <<Event("died", s)>>
            BY <1>1, <1>2, <2>1, Queued
        <3>2. EndsWith(events', "died", s)
            BY <1>1, <1>2, <2>2, <3>1, BoardNews
        <3>3. \A t \in InputMethods : mirLife'[t] # "live"
            BY <1>1, <2>1, <2>2 DEF Board
        <3> QED
            BY <2>2, <3>2, <3>3 DEF Board
    <2>3. CASE s \notin InputMethods
        <3>1. Event("died", s) \in Signals /\ ~AboutKeyboards(Event("died", s))
            BY <1>2, <1>5, <2>3
        <3>2. \A t \in InputMethods : mirLife'[t] = mirLife[t]
            BY <1>1, <2>1, <2>3
        <3> QED
            BY <1>4, <2>1, <3>1, <3>2
    <2> QED
        BY <2>2, <2>3
<1>10. ASSUME NEW s \in Surfaces, NEW next \in Surfaces \cup {NoSurface}, HideSurface(s, next)
       PROVE  Board(events', mirLife', wrapped)
    <2> DEFINE old == IF mirFocus = s THEN s ELSE NoSurface
    <2>1. events' = MovesFocus(events, OptionalSignal(TRUE, Event("hidden", s)), old, next)
        BY <1>10, MirSteps
    <2>2. old \in Surfaces \cup {NoSurface}
        OBVIOUS
    <2> HIDE DEF old
    <2>3. Extends(events, events', K)
        BY <1>1, <1>2, <2>1, <2>2, MovesFocusExtends
    <2>4. mirLife' = mirLife
        BY <1>10 DEF HideSurface
    <2> QED
        BY <1>3, <2>3, <2>4
<1>11. ASSUME NEW s \in Surfaces, NEW next \in Surfaces \cup {NoSurface}, Destroy(s, next)
       PROVE  Board(events', mirLife', wrapped)
    <2> DEFINE q == IF mirFocus = s
                    THEN MovesFocus(events, OptionalSignal(FALSE, Event("shown", s)), NoSurface, next)
                    ELSE events
    <2>1. events' = q \o <<Event("destroyed", s)>>
        BY <1>11, MirSteps
    <2>2. Extends(events, q, K)
        <3>1. Extends(events, MovesFocus(events, OptionalSignal(FALSE, Event("shown", s)), NoSurface, next), K)
            BY <1>1, <1>2, MovesFocusExtends
        <3> QED
            BY <1>1, <3>1, ExtendsItself
    <2> HIDE DEF q
    <2>3. q \in Seq(Signals)
        BY <1>1, <2>2, ExtendsItself, ExtendsTwice
    <2>4. Extends(q, events', K)
        BY <1>2, <2>1, <2>3, ExtendsByOne
    <2>5. Extends(events, events', K)
        BY <1>1, <2>2, <2>4, ExtendsTwice
    <2>6. mirLife[s] = "dead" /\ mirLife' = [mirLife EXCEPT ![s] = "gone"]
        BY <1>11 DEF Destroy
    <2>7. \A t \in InputMethods : mirLife[t] = "live" <=> mirLife'[t] = "live"
        BY <1>1, <2>6
    <2> QED
        BY <1>3, <2>5, <2>7
<1>12. ASSUME NEW s \in Surfaces, NEW here \in BOOLEAN, MoveSurface(s, here)
       PROVE  Board(events', mirLife', wrapped)
    <2> DEFINE e == Event(IF here THEN "added" ELSE "away", s)
    <2>1. s \notin InputMethods /\ mirLife' = mirLife /\ events' = Append(events, e)
        BY <1>12 DEF MoveSurface, IsTopLevel
    <2>2. e \in Signals /\ ~AboutKeyboards(e)
        BY <1>2, <1>5, <2>1
    <2> HIDE DEF e
    <2> QED
        BY <1>4, <2>1, <2>2
<1>13. CASE MoveWorkspaceContent
    <2>1. mirLife' = mirLife
        BY <1>13 DEF MoveWorkspaceContent
    <2>2. PICK ss : events' = Append(events, [kind |-> "away", of |-> ss])
        BY <1>13 DEF MoveWorkspaceContent
    <2> DEFINE e == [kind |-> "away", of |-> ss]
    <2>3. events' = events \o <<e>> /\ Len(events') = Len(events) + 1 /\ events'[Len(events')] = e
        BY <1>1, <2>2
    <2>4. e \in Signals
        <3>1. events' \in Seq(Signals)
            BY MirKeepsType DEF TypeOK
        <3>2. Len(events') \in 1 .. Len(events')
            BY <1>1, <2>3
        <3> QED
            BY <2>3, <3>1, <3>2
    <2>5. ~AboutKeyboards(e)
        BY DEF AboutKeyboards, Is
    <2> QED
        BY <1>4, <2>1, <2>2, <2>4, <2>5
<1> QED
    BY <1>6, <1>7, <1>8, <1>9, <1>10, <1>11, <1>12, <1>13 DEF MirNext

\* What actions do with the window of the keyboard, if they leave it alone.
KeepsKeyboard ==
    /\ UNCHANGED inputMethodWindow
    /\ inputMethodWindow # NoWindow =>
          inputMethodWindow \in windows' /\ surfaceOf'[inputMethodWindow] = surfaceOf[inputMethodWindow]

LEMMA KeyboardKept ==
    ASSUME Wrapped, KeepsKeyboard, inputMethodWindow # NoWindow => Keyboard \in liveSurfaces',
           \A s \in allSurfaces' \cup deferred' : IsTopLevel(s)
    PROVE  Wrapped' /\ Keyboard' = Keyboard
BY DEF Wrapped, KeepsKeyboard, Keyboard

\* Windows without rows, and rows: the keyboard's window has none.
LEMMA KeyboardApart ==
    ASSUME Sound, Wrapped, inputMethodWindow # NoWindow
    PROVE  /\ inputMethodWindow \in windows \ condemned /\ inputMethodWindow \in Windows
           /\ inputMethodWindow # nextId /\ ~InRows(inputMethodWindow, rows)
           /\ surfaceOf[inputMethodWindow] = Keyboard /\ Keyboard \in InputMethods /\ Keyboard \in liveSurfaces
           /\ Keyboard # NoSurface /\ Keyboard \in Surfaces
<1>1. /\ inputMethodWindow \in windows /\ Keyboard \in InputMethods /\ Keyboard \in liveSurfaces
      /\ surfaceOf[inputMethodWindow] = Keyboard
    BY DEF Wrapped, Keyboard
<1>2. Keyboard # NoSurface /\ Keyboard \in Surfaces
    BY <1>1, SurfacesAssumption
<1>3. inputMethodWindow \notin condemned /\ inputMethodWindow \in Windows
    BY <1>1, <1>2 DEF Sound, TypeOK
<1>4. inputMethodWindow # nextId
    BY NewWindowIsNew
<1>5. \A i \in 1 .. Len(rows) : rows[i] # inputMethodWindow
    BY DEF Sound, RowsFrom, MayBeRows
<1>6. DOMAIN rows = 1 .. Len(rows)
    BY DEF Sound, RowsFrom
<1> QED
    BY <1>1, <1>2, <1>3, <1>4, <1>5, <1>6 DEF InRows

LEMMA NewWindowKeeps ==
    ASSUME Sound, Wrapped, NEW s, NewWindow(s), UNCHANGED inputMethodWindow
    PROVE  KeepsKeyboard
<1>1. windows' = windows \cup {nextId} /\ surfaceOf' = [surfaceOf EXCEPT ![nextId] = s]
    BY DEF NewWindow
<1>2. surfaceOf \in [Windows -> Surfaces \cup {NoSurface}]
    BY DEF Sound, TypeOK, SurfaceMaps
<1> QED
    BY <1>1, <1>2, KeyboardApart DEF KeepsKeyboard

LEMMA RowsGoKeep ==
    ASSUME Sound, Wrapped, NEW R, \A w \in R : w \in Windows /\ InRows(w, rows),
           windows' = windows \ R \/ UNCHANGED windows,
           surfaceOf' = [w \in Windows |-> IF w \in R THEN NoSurface ELSE surfaceOf[w]],
           UNCHANGED inputMethodWindow
    PROVE  KeepsKeyboard
BY KeyboardApart DEF KeepsKeyboard

LEMMA PrependKeeps ==
    ASSUME Sound, Wrapped, NEW s \in Surfaces, NEW r, NEW q, PrependSurface(s, r, q),
           UNCHANGED inputMethodWindow
    PROVE  KeepsKeyboard /\ allSurfaces' = allSurfaces \cup {s}
<1> DEFINE i == FillRow(s)
           w == rows[i]
<1>1. allSurfaces' = allSurfaces \cup {s}
    BY DEF PrependSurface
<1>2. \/ i # 0 /\ surfaceOf' = [surfaceOf EXCEPT ![w] = s] /\ UNCHANGED windows
      \/ NewWindow(s)
    BY DEF PrependSurface
<1>3. i \in 0 .. Len(rows) /\ rows \in Seq(Rows)
    BY FillRowType DEF Sound, RowsFrom
<1>4. i # 0 => InRows(w, rows)
    BY <1>3 DEF InRows
<1>5. surfaceOf \in [Windows -> Surfaces \cup {NoSurface}]
    BY DEF Sound, TypeOK, SurfaceMaps
<1> HIDE DEF i, w
<1>6. CASE i # 0 /\ surfaceOf' = [surfaceOf EXCEPT ![w] = s] /\ UNCHANGED windows
    BY <1>1, <1>4, <1>5, <1>6, KeyboardApart DEF KeepsKeyboard
<1> QED
    BY <1>1, <1>2, <1>6, NewWindowKeeps

LEMMA ShellKeepsKeyboard ==
    ASSUME Sound, Wrapped, ShellNext \/ ApplicationNext
    PROVE  Wrapped' /\ Keyboard' = Keyboard /\ UNCHANGED <<mirLife, liveSurfaces>>
<1>1. UNCHANGED <<mirLife, liveSurfaces, inputMethodWindow, deferred>>
    BY Zenon
    DEF ShellNext, SetRootFocus, RaiseId, ActivateWindow, CloseWindow, PendingActivation,
        CloseAllWindows, unfocusable, objectVars, ApplicationNext, AddApplication, RemoveApplication
<1>2. ASSUME ShellNext
      PROVE  UNCHANGED <<windows, surfaceOf, allSurfaces>>
    BY <1>2, Zenon
    DEF ShellNext, SetRootFocus, RaiseId, ActivateWindow, CloseWindow, PendingActivation,
        CloseAllWindows, unfocusable
<1>3. ASSUME NEW a \in Apps, NEW active \in BOOLEAN, AddApplication(a, active)
      PROVE  UNCHANGED allSurfaces /\ (NewWindow(NoSurface) \/ UNCHANGED <<windows, surfaceOf>>)
    BY <1>3, Zenon DEF AddApplication
<1>4. ASSUME NEW a \in Apps, RemoveApplication(a)
      PROVE  KeepsKeyboard /\ \A s \in allSurfaces' : s \in allSurfaces
    <2> DEFINE R == {w \in Windows : InRows(w, rows) /\ entryApp[w] = a}
    <2>1. DeleteRows(R)
        BY <1>4 DEF RemoveApplication
    <2>2. \A w \in R : w \in Windows /\ InRows(w, rows)
        OBVIOUS
    <2> HIDE DEF R
    <2>3. /\ windows' = windows \ R
          /\ surfaceOf' = [w \in Windows |-> IF w \in R THEN NoSurface ELSE surfaceOf[w]]
          /\ \A s \in allSurfaces' : s \in allSurfaces
        BY <2>1 DEF DeleteRows
    <2> QED
        BY <1>1, <2>2, <2>3, RowsGoKeep
<1>5. KeepsKeyboard /\ \A s \in allSurfaces' : s \in allSurfaces
    <2>1. CASE UNCHANGED <<windows, surfaceOf, allSurfaces>>
        BY <1>1, <2>1, KeyboardApart DEF KeepsKeyboard
    <2>2. CASE NewWindow(NoSurface) /\ UNCHANGED allSurfaces
        BY <1>1, <2>2, NewWindowKeeps
    <2> QED
        BY <1>2, <1>3, <1>4, <2>1, <2>2 DEF ApplicationNext
<1>6. \A s \in allSurfaces' \cup deferred' : IsTopLevel(s)
    BY <1>1, <1>5 DEF Wrapped
<1>7. inputMethodWindow # NoWindow => Keyboard \in liveSurfaces'
    BY <1>1 DEF Wrapped
<1> QED
    BY <1>1, <1>5, <1>6, <1>7, KeyboardKept

\* The signal that is delivered decides what the keyboard's window wraps if it is about a keyboard.
LEMMA SignalsKeepKeyboard ==
    ASSUME Sound, Living, Wrapped, SignalNext
    PROVE  /\ Wrapped'
           /\ ~AboutKeyboards(Head(events)) => Keyboard' = Keyboard
           /\ \A s \in InputMethods : /\ Is(Head(events), {"added"}, s) => Keyboard' = s
                                      /\ Is(Head(events), {"died"}, s) => Keyboard' = NoSurface
<1> DEFINE e == Head(events)
<1>1. /\ TypeOK /\ InputMethods \subseteq Surfaces /\ NoSurface \notin Surfaces
      /\ \A s : IsTopLevel(s) => s \notin InputMethods
      /\ surfaceOf \in [Windows -> Surfaces \cup {NoSurface}]
      /\ \A s \in allSurfaces \cup deferred : IsTopLevel(s)
      /\ events # <<>> /\ e \in Signals
      /\ rows \in Seq(Rows)
    BY SignalsCall, SurfacesAssumption DEF Sound, TypeOK, SurfaceMaps, IsTopLevel, Wrapped, RowsFrom
<1>2. \A K, s : Is(e, K, s) => e.kind \in K /\ Subject = s
    BY DEF Is, Subject
<1>3. \A kind \in {"added", "died", "destroyed"} : Deliver(kind) => e.kind = kind /\ Is(e, {kind}, Subject)
    <2>1. \A kind \in {"added", "died", "destroyed"} : Deliver(kind) => e.kind = kind /\ e.of # <<>>
        BY <1>1 DEF Deliver, Signals, Brackets
    <2> QED
        BY <2>1 DEF Is, Subject
<1> HIDE DEF e
\* The signal is about no keyboard.
<1>4. ASSUME Subject \notin InputMethods \/ e.kind \notin {"added", "died"}, KeepsKeyboard,
             inputMethodWindow # NoWindow => Keyboard \in liveSurfaces',
             \A s \in allSurfaces' \cup deferred' : s \in allSurfaces \cup deferred \/ IsTopLevel(s)
      PROVE  /\ Wrapped'
             /\ ~AboutKeyboards(e) => Keyboard' = Keyboard
             /\ \A s \in InputMethods : ~Is(e, {"added"}, s) /\ ~Is(e, {"died"}, s)
    <2>1. Wrapped' /\ Keyboard' = Keyboard
        BY <1>1, <1>4, KeyboardKept
    <2>2. \A s \in InputMethods : ~Is(e, {"added"}, s) /\ ~Is(e, {"died"}, s)
        BY <1>2, <1>4
    <2> QED
        BY <2>1, <2>2
<1> DEFINE G == /\ Wrapped'
                /\ ~AboutKeyboards(e) => Keyboard' = Keyboard
                /\ \A s \in InputMethods : /\ Is(e, {"added"}, s) => Keyboard' = s
                                           /\ Is(e, {"died"}, s) => Keyboard' = NoSurface
<1> SUFFICES G
    BY DEF e
<1>5. Wrapped /\ UNCHANGED <<inputMethodWindow, windows, surfaceOf>> => KeepsKeyboard
    BY DEF KeepsKeyboard, Wrapped
<1>6. ASSUME UNCHANGED liveSurfaces
      PROVE  inputMethodWindow # NoWindow => Keyboard \in liveSurfaces'
    BY <1>6 DEF Wrapped
<1>7. CASE \/ OnModificationsStarted \/ OnModificationsEnded \/ FocusLost \/ FocusGained
           \/ OnSurfacesRaised \/ SurfaceHidden
    <2>1. \/ Deliver("started") \/ Deliver("ended") \/ Deliver("lost") \/ Deliver("gained")
          \/ Deliver("raised") \/ Deliver("hidden")
        BY <1>7, Zenon DEF OnModificationsStarted, OnModificationsEnded, FocusLost, FocusGained,
            UpdateFocused, OnSurfacesRaised, SurfaceHidden
    <2>2. e.kind \notin {"added", "died"}
        BY <2>1 DEF Deliver, e
    <2>3. UNCHANGED <<inputMethodWindow, windows, surfaceOf, liveSurfaces, deferred>>
        BY <1>7, Zenon DEF OnModificationsStarted, OnModificationsEnded, FocusLost, FocusGained,
            UpdateFocused, OnSurfacesRaised, SurfaceHidden, objectVars
    <2>4. \A s \in allSurfaces' : s \in allSurfaces
        BY <1>7 DEF OnModificationsStarted, OnModificationsEnded, FocusLost, FocusGained,
            UpdateFocused, OnSurfacesRaised, SurfaceHidden
    <2> QED
        BY <1>4, <1>5, <1>6, <2>2, <2>3, <2>4
<1>8. CASE SkipKnownSurface
    <2>1. Subject \in allSurfaces /\ UNCHANGED <<modelVars, objectVars>>
        BY <1>8 DEF SkipKnownSurface
    <2>2. UNCHANGED <<inputMethodWindow, windows, surfaceOf, liveSurfaces, deferred, allSurfaces>>
        BY <2>1 DEF modelVars, objectVars
    <2>3. Subject \notin InputMethods
        BY <1>1, <2>1
    <2> QED
        BY <1>4, <1>5, <1>6, <2>2, <2>3
<1>9. CASE RemoveSurfaces
    <2> DEFINE R == {w \in Windows : InRows(w, rows) /\ surfaceOf[w] \in ToSet(Head(events).of)}
    <2>1. /\ surfaceOf' = [w \in Windows |-> IF w \in R THEN NoSurface ELSE surfaceOf[w]]
          /\ \A s \in allSurfaces' : s \in allSurfaces
          /\ UNCHANGED <<inputMethodWindow, windows, liveSurfaces, deferred>>
          /\ e.kind = "away"
        BY <1>9 DEF RemoveSurfaces, Deliver, objectVars, e
    <2>2. \A w \in R : w \in Windows /\ InRows(w, rows)
        OBVIOUS
    <2> HIDE DEF R
    <2>3. KeepsKeyboard
        BY <2>1, <2>2, RowsGoKeep
    <2> QED
        BY <1>4, <1>6, <2>1, <2>3
<1>10. ASSUME NEW s \in Surfaces, DeferHiddenSurface(s)
       PROVE  G
    <2>1. /\ IsTopLevel(s) /\ Subject = s /\ deferred' = deferred \cup {s}
          /\ UNCHANGED <<inputMethodWindow, windows, surfaceOf, allSurfaces, liveSurfaces>>
        BY <1>10 DEF DeferHiddenSurface, Arrives, objectVars
    <2> QED
        BY <1>1, <1>4, <1>5, <1>6, <2>1
<1>11. ASSUME NEW s \in Surfaces, AddTopLevelSurface(s)
       PROVE  G
    <2>1. /\ IsTopLevel(s) /\ Subject = s /\ PrependSurface(s, rows, Tail(events))
          /\ UNCHANGED <<inputMethodWindow, deferred, liveSurfaces>>
        BY <1>11, Zenon DEF AddTopLevelSurface, Arrives, objectVars
    <2>2. KeepsKeyboard /\ allSurfaces' = allSurfaces \cup {s}
        BY <2>1, PrependKeeps
    <2> QED
        BY <1>1, <1>4, <1>6, <2>1, <2>2
<1>12. ASSUME NEW s \in Surfaces, WrapSurface(s)
       PROVE  G
    <2>1. /\ Subject = s /\ s \notin InputMethods /\ NewWindow(s)
          /\ UNCHANGED <<inputMethodWindow, allSurfaces, deferred, liveSurfaces>>
        BY <1>12, Zenon DEF WrapSurface, Arrives, objectVars
    <2>2. KeepsKeyboard
        BY <2>1, NewWindowKeeps
    <2> QED
        BY <1>4, <1>6, <2>1, <2>2
<1>13. ASSUME NEW s \in Surfaces, SetInputMethodWindow(s)
       PROVE  G
    <2>1. /\ Deliver("added") /\ Subject = s /\ s \in InputMethods
          /\ windows' = (windows \ {inputMethodWindow}) \cup {nextId}
          /\ surfaceOf' = [w \in Windows |-> IF w = nextId THEN s
                                             ELSE IF w = inputMethodWindow THEN NoSurface
                                             ELSE surfaceOf[w]]
          /\ inputMethodWindow' = nextId /\ nextId <= MaxWindows
          /\ UNCHANGED <<allSurfaces, deferred, liveSurfaces>>
        BY <1>13, Zenon DEF SetInputMethodWindow, Arrives, objectVars
    <2>2. nextId \in Windows /\ nextId # NoWindow
        BY <2>1, NewWindowIsNew, BoundsAssumption DEF Windows, NoWindow
    <2>3. Keyboard' = s
        BY <2>1, <2>2 DEF Keyboard
    <2>4. s \in liveSurfaces
        <3>1. Is(Head(events), {"added"}, s)
            BY <1>3, <2>1 DEF e
        <3>2. Is(Head(events), Arrivals, s)
            BY <3>1, KindsApart
        <3>3. Says(events, Arrivals, s)
            BY <1>1, <3>2, SaysLess, SignalsCall
        <3> QED
            BY <3>3 DEF Living, Lives, LifeOf
    <2>5. Is(e, {"added"}, s) /\ e.kind = "added"
        BY <1>3, <2>1
    <2>6. AboutKeyboards(e)
        BY <2>1, <2>5 DEF AboutKeyboards, Is
    <2>7. \A t \in InputMethods : /\ Is(e, {"added"}, t) => t = s
                                  /\ ~Is(e, {"died"}, t)
        BY <1>2, <2>1, <2>5
    <2>8. Wrapped'
        BY <2>1, <2>2, <2>3, <2>4 DEF Wrapped
    <2> QED
        BY <2>3, <2>6, <2>7, <2>8
<1>14. CASE SurfaceShown
    <2>1. Subject \in Surfaces
        BY <1>1, <1>14, SubjectType DEF SurfaceShown, Brackets
    <2>2. /\ \/ Subject \in deferred /\ \E r : PrependSurface(Subject, r, Tail(events))
             \/ UNCHANGED <<windows, surfaceOf, allSurfaces>>
          /\ deferred' = deferred \ {Subject}
          /\ UNCHANGED <<inputMethodWindow, liveSurfaces>>
          /\ e.kind = "shown"
        BY <1>14 DEF SurfaceShown, Deliver, e
    <2>3. CASE Subject \in deferred /\ \E r : PrependSurface(Subject, r, Tail(events))
        <3>1. PICK r : PrependSurface(Subject, r, Tail(events))
            BY <2>3
        <3>2. KeepsKeyboard /\ allSurfaces' = allSurfaces \cup {Subject}
            BY <2>1, <2>2, <3>1, PrependKeeps
        <3> QED
            BY <1>4, <1>6, <2>2, <2>3, <3>2
    <2>4. CASE UNCHANGED <<windows, surfaceOf, allSurfaces>>
        BY <1>4, <1>5, <1>6, <2>2, <2>4
    <2> QED
        BY <2>2, <2>3, <2>4
<1>15. CASE SurfaceDied
    <2> DEFINE H == {v \in hiddenWindows : surfaceOf[v] = Subject}
    <2>1. /\ Subject \notin InputMethods /\ liveSurfaces' = liveSurfaces \ {Subject}
          /\ windows' = windows \ H
          /\ surfaceOf' = [v \in Windows |-> IF v \in H THEN NoSurface ELSE surfaceOf[v]]
          /\ UNCHANGED <<inputMethodWindow, allSurfaces, deferred>>
        BY <1>15 DEF SurfaceDied
    <2>2. \A v \in H : surfaceOf[v] = Subject
        OBVIOUS
    <2> HIDE DEF H
    <2>3. KeepsKeyboard
        BY <2>1, <2>2, KeyboardApart DEF KeepsKeyboard
    <2>4. inputMethodWindow # NoWindow => Keyboard \in liveSurfaces'
        BY <2>1, KeyboardApart
    <2> QED
        BY <1>4, <2>1, <2>3, <2>4
<1>16. CASE InputMethodDied
    <2>1. /\ Deliver("died") /\ Subject \in InputMethods /\ inputMethodWindow' = NoWindow
          /\ \A s \in allSurfaces' : s \in allSurfaces
          /\ UNCHANGED deferred
        BY <1>16 DEF InputMethodDied
    <2>2. Wrapped' /\ Keyboard' = NoSurface
        BY <1>1, <2>1 DEF Wrapped, Keyboard
    <2>3. Is(e, {"died"}, Subject) /\ e.kind = "died"
        BY <1>3, <2>1
    <2>4. AboutKeyboards(e)
        BY <2>1, <2>3 DEF AboutKeyboards, Is
    <2>5. \A t \in InputMethods : ~Is(e, {"added"}, t)
        BY <1>2, <2>3
    <2> QED
        BY <2>2, <2>4, <2>5
<1>17. CASE SurfaceDestroyed
    <2> DEFINE i == IndexOf(Subject, rows, surfaceOf)
               w == rows[i]
               wrapper == {v \in windows : surfaceOf[v] = Subject}
    <2>1. /\ Deliver("destroyed")
          /\ \/ i # 0 /\ DeleteRows({w})
             \/ /\ i # 0
                /\ surfaceOf' = [surfaceOf EXCEPT ![w] = NoSurface]
                /\ allSurfaces' = allSurfaces \ {Subject}
                /\ UNCHANGED windows
             \/ /\ surfaceOf' = [v \in Windows |-> IF v \in wrapper THEN NoSurface ELSE surfaceOf[v]]
                /\ UNCHANGED <<windows, allSurfaces>>
          /\ deferred' = deferred \ {Subject}
          /\ UNCHANGED <<inputMethodWindow, liveSurfaces>>
        BY <1>17 DEF SurfaceDestroyed
    <2>2. i = 0 \/ i \in 1 .. Len(rows)
        BY <1>1, IndexOfFinds
    <2>3. i # 0 => w \in Windows /\ InRows(w, rows)
        BY <1>1, <2>2 DEF InRows, Rows
    <2>4. inputMethodWindow # NoWindow => Keyboard # Subject
        <3>1. Is(e, {"destroyed"}, Subject)
            BY <1>3, <2>1
        <3>2. Subject \in Surfaces
            BY <1>1, <2>1, SubjectType DEF Brackets
        <3>3. Subject \notin liveSurfaces
            <4>1. /\ events[1] = e /\ 1 \in 1 .. Len(events)
                  /\ \A k \in 1 .. Len(events) : ~(k < 1)
                BY <1>1 DEF TypeOK, e
            <4>2. LifeOf(events, mirLife[Subject], Subject \in liveSurfaces, Subject)
                BY <3>2 DEF Living, Lives
            <4> QED
                BY <3>1, <4>1, <4>2 DEF LifeOf
        <3> QED
            BY <3>3 DEF Wrapped
    <2> HIDE DEF i, w
    <2>5. KeepsKeyboard /\ \A s \in allSurfaces' : s \in allSurfaces
        <3>1. CASE i # 0 /\ DeleteRows({w})
            <4>1. /\ windows' = windows \ {w}
                  /\ surfaceOf' = [v \in Windows |-> IF v \in {w} THEN NoSurface ELSE surfaceOf[v]]
                  /\ \A s \in allSurfaces' : s \in allSurfaces
                BY <3>1 DEF DeleteRows
            <4> QED
                BY <2>1, <2>3, <3>1, <4>1, RowsGoKeep
        <3>2. CASE /\ i # 0
                   /\ surfaceOf' = [surfaceOf EXCEPT ![w] = NoSurface]
                   /\ allSurfaces' = allSurfaces \ {Subject}
                   /\ UNCHANGED windows
            BY <1>1, <2>1, <2>3, <3>2, KeyboardApart DEF KeepsKeyboard
        <3>3. CASE /\ surfaceOf' = [v \in Windows |-> IF v \in wrapper THEN NoSurface ELSE surfaceOf[v]]
                   /\ UNCHANGED <<windows, allSurfaces>>
            BY <2>1, <2>4, <3>3, KeyboardApart DEF KeepsKeyboard
        <3> QED
            BY <2>1, <3>1, <3>2, <3>3
    <2>6. e.kind = "destroyed"
        BY <1>3, <2>1
    <2> QED
        BY <1>4, <1>6, <2>1, <2>5, <2>6
<1> QED
    BY <1>7, <1>8, <1>9, <1>10, <1>11, <1>12, <1>13, <1>14, <1>15, <1>16, <1>17 DEF SignalNext

LEMMA SignalsBoard ==
    ASSUME Sound, Living, Wrapped, Board(events, mirLife, Keyboard), SignalNext
    PROVE  Board(events', mirLife', Keyboard')
<1>1. /\ events \in Seq(Signals) /\ events # <<>> /\ Tail(events) \in Seq(Signals)
      /\ Calls(Tail(events)) /\ TypeOK
    BY SignalsCall DEF Sound
<1>2. /\ Wrapped'
      /\ ~AboutKeyboards(Head(events)) => Keyboard' = Keyboard
      /\ \A s \in InputMethods : /\ Is(Head(events), {"added"}, s) => Keyboard' = s
                                 /\ Is(Head(events), {"died"}, s) => Keyboard' = NoSurface
    BY SignalsKeepKeyboard
<1> DEFINE old == Keyboard
           new == Keyboard'
<1>3. Board(Tail(events), mirLife, new)
    <2>1. /\ Board(events, mirLife, old)
          /\ ~AboutKeyboards(Head(events)) => new = old
          /\ \A s \in InputMethods : /\ Is(Head(events), {"added"}, s) => new = s
                                     /\ Is(Head(events), {"died"}, s) => new = NoSurface
        BY <1>2
    <2> HIDE DEF old, new
    <2> QED
        BY <1>1, <2>1, BoardLess
<1>4. Extends(Tail(events), events', FocusKinds) /\ "added" \notin FocusKinds /\ "died" \notin FocusKinds
    BY <1>1, CallsExtend DEF FocusKinds
<1> HIDE DEF new
<1>5. Board(events', mirLife, new)
    BY <1>1, <1>3, <1>4, BoardExtends
<1>6. mirLife' = mirLife
    BY <1>1, DeathsDelivered
<1> QED
    BY <1>2, <1>5, <1>6 DEF new

(* Once every signal is delivered the window the shell shows as keyboard,  *)
(* if it shows one, is the window of a keyboard that lives, however many   *)
(* keyboards come and go; and where they take turns the one there is shows.*)
THEOREM KeyboardShown == Spec => []KeyboardIsKept
<1> DEFINE I == Wrapped /\ (~Allowed("keyboards") => Board(events, mirLife, Keyboard))
<1>1. Init => I
    <2> SUFFICES ASSUME Init PROVE I
        OBVIOUS
    <2>1. /\ events = <<>> /\ mirLife = [s \in Surfaces |-> "none"] /\ inputMethodWindow = NoWindow
          /\ allSurfaces = {} /\ deferred = {}
        BY DEF Init
    <2>2. Silent(events) /\ Keyboard = NoSurface /\ Wrapped
        BY <2>1 DEF Silent, Keyboard, Wrapped
    <2>3. \A s \in InputMethods : mirLife[s] # "live"
        BY <2>1, SurfacesAssumption
    <2> QED
        BY <2>2, <2>3 DEF Board
<1>2. I /\ Sound /\ Living /\ [Next]_vars => I'
    <2> SUFFICES ASSUME I, Sound, Living, [Next]_vars
                 PROVE  I'
        OBVIOUS
    <2>0. Allowed("keyboards")' <=> Allowed("keyboards")
        BY EnvironmentStays DEF Allowed
    <2> SUFFICES Wrapped' /\ (~Allowed("keyboards") => Board(events', mirLife', Keyboard'))
        BY <2>0 DEF Board, Silent, EndsWith
    <2>1. TypeOK /\ events \in Seq(Signals) /\ Wrapped
        BY DEF Sound, TypeOK
    <2>2. CASE ShellNext \/ ApplicationNext
        <3>1. Calls(events)
            BY <2>1, <2>2, ShellCalls, ApplicationsCall
        <3>2. Wrapped' /\ Keyboard' = Keyboard /\ mirLife' = mirLife
            BY <2>1, <2>2, ShellKeepsKeyboard
        <3>3. Extends(events, events', FocusKinds) /\ "added" \notin FocusKinds /\ "died" \notin FocusKinds
            BY <2>1, <3>1, CallsExtend DEF FocusKinds
        <3>4. Board(events, mirLife, Keyboard) => Board(events', mirLife, Keyboard)
            BY <2>1, <3>3, BoardExtends
        <3> QED
            BY <3>2, <3>4
    <2>3. CASE SignalNext
        <3>1. Wrapped'
            BY <2>1, <2>3, SignalsKeepKeyboard
        <3>2. Board(events, mirLife, Keyboard) => Board(events', mirLife', Keyboard')
            BY <2>1, <2>3, SignalsBoard
        <3> QED
            BY <3>1, <3>2
    <2>4. CASE MirNext
        <3>1. /\ UNCHANGED <<inputMethodWindow, windows, surfaceOf, allSurfaces, deferred>>
              /\ \A s \in liveSurfaces : s \in liveSurfaces'
            BY <2>4, MirLeavesModel DEF modelVars
        <3>2. Wrapped' /\ Keyboard' = Keyboard
            BY <2>1, <3>1, KeyboardKept DEF KeepsKeyboard, Wrapped
        <3>3. ~Allowed("keyboards") => Board(events', mirLife', Keyboard)
            BY <2>1, <2>4, MirBoards
        <3> QED
            BY <3>2, <3>3
    <2>5. CASE \E w \in Windows : DeferredDelete(w)
        <3>1. PICK w \in Windows : DeferredDelete(w)
            BY <2>5
        <3>2. /\ w \in condemned /\ windows' = windows \ {w}
              /\ UNCHANGED <<inputMethodWindow, surfaceOf, allSurfaces, deferred, mirLife, events, liveSurfaces>>
            BY <3>1 DEF DeferredDelete, mirVars, objectVars
        <3>3. KeepsKeyboard
            BY <2>1, <3>2, KeyboardApart DEF KeepsKeyboard
        <3>4. Wrapped' /\ Keyboard' = Keyboard
            BY <2>1, <3>2, <3>3, KeyboardKept DEF Wrapped
        <3> QED
            BY <3>2, <3>4
    <2>6. CASE UNCHANGED vars
        BY <2>6 DEF vars, modelVars, mirVars, objectVars, Wrapped, Keyboard
    <2> QED
        BY <2>2, <2>3, <2>4, <2>5, <2>6 DEF Next
<1>3. I /\ Living => KeyboardIsKept
    <2> SUFFICES ASSUME I, Living, events = <<>>
                 PROVE  /\ inputMethodWindow # NoWindow =>
                              inputMethodWindow \in windows /\ Live(surfaceOf[inputMethodWindow])
                        /\ ~Allowed("keyboards") =>
                              ((\E s \in InputMethods : Live(s)) => inputMethodWindow # NoWindow)
        BY DEF KeyboardIsKept, Settled
    <2>1. \A kind, s : ~EndsWith(events, kind, s)
        BY DEF EndsWith
    <2>2. NoSurface \notin InputMethods /\ InputMethods \subseteq Surfaces
        BY SurfacesAssumption
    <2>3. ~Allowed("keyboards") => \A s \in InputMethods : mirLife[s] = "live" => Keyboard = s
        BY <2>1 DEF Board
    <2>4. \A s \in Surfaces : s \in liveSurfaces => mirLife[s] = "live"
        <3>1. \A s : ~Says(events, {"died"}, s)
            BY DEF Says
        <3>2. \A s \in Surfaces : LifeOf(events, mirLife[s], s \in liveSurfaces, s)
            BY DEF Living, Lives
        <3> QED
            BY <3>1, <3>2 DEF LifeOf
    <2>5. inputMethodWindow # NoWindow =>
              /\ inputMethodWindow \in windows /\ Keyboard = surfaceOf[inputMethodWindow]
              /\ Keyboard \in InputMethods \cap liveSurfaces
        BY DEF Wrapped, Keyboard
    <2>6. inputMethodWindow = NoWindow => Keyboard = NoSurface
        BY DEF Keyboard
    <2> QED
        BY <2>2, <2>3, <2>4, <2>5, <2>6 DEF Live
<1> HIDE DEF I
<1>4. Spec => []Sound
    BY SoundAlways
<1>5. Spec => []Living
    BY LivesAlways
<1> QED
    BY <1>1, <1>2, <1>3, <1>4, <1>5, PTL DEF Spec
-----------------------------------------------------------------------------
(* OneWindowPerSurface.  Mir announces a surface once in its life, unless  *)
(* it moves; a surface that moves has a row and is known while it has a    *)
(* window, so that another announcement is skipped.  Neither holds of a    *)
(* hidden surface that moves: it is in no list the model asks, is wrapped  *)
(* when it is announced again, and once more when it is shown.             *)

\* No behaviour in which surfaces hide has them move.
HidesOrMoves == \A e \in Environments : "hide" \in e.licences => e.licences \cap {"move", "moveAll"} = {}

Moves == Allowed("move") \/ Allowed("moveAll")
OnceOnly(s) == ~IsTopLevel(s) \/ ~Moves

\* A surface has a window, or the model waits for its first show.
Wraps(s) == \E w \in Windows : surfaceOf[w] = s
Held(s) == s \in deferred \/ Wraps(s)

Unhidden == Moves => qtHidden = {} /\ deferred = {} /\ hiddenWindows = {}

Places ==
    /\ \A v, w \in Windows : surfaceOf[v] = surfaceOf[w] /\ surfaceOf[v] # NoSurface => v = w
    /\ \A w \in Windows : surfaceOf[w] # NoSurface => w \in windows /\ surfaceOf[w] \notin deferred
    /\ Moves => \A w \in Windows : surfaceOf[w] # NoSurface /\ IsTopLevel(surfaceOf[w]) =>
                    InRows(w, rows) /\ surfaceOf[w] \in allSurfaces

\* How surface s, with what the queue still tells of it, was announced.
Told(q, life, held, once, s) ==
    /\ held => life # "none"
    /\ life = "gone" /\ (held \/ Says(q, {"added"}, s)) => Says(q, {"destroyed"}, s)
    /\ once => /\ held => ~Says(q, {"added"}, s)
               /\ \A i, j \in 1 .. Len(q) : Is(q[i], {"added"}, s) /\ Is(q[j], {"added"}, s) => i = j
Announced(q, life) == \A s \in Surfaces : Told(q, life[s], Held(s), OnceOnly(s), s)

\* With one signal more.
LEMMA ToldMore ==
    ASSUME NEW q \in Seq(Signals), NEW e \in Signals, NEW life, NEW life2, NEW held \in BOOLEAN,
           NEW once \in BOOLEAN, NEW s, Told(q, life, held, once, s)
    PROVE  /\ /\ ~Is(e, {"added"}, s)
              /\ life2 = "none" => life = "none"
              /\ life2 = "gone" => life = "gone" \/ Is(e, {"destroyed"}, s)
              => Told(q \o <<e>>, life2, held, once, s)
           /\ life2 = "live" /\ (once => ~held /\ ~Says(q, {"added"}, s))
              => Told(q \o <<e>>, life2, held, once, s)
<1> DEFINE r == q \o <<e>>
           n == Len(q)
           Single(p) == \A i, j \in 1 .. Len(p) : Is(p[i], {"added"}, s) /\ Is(p[j], {"added"}, s) => i = j
<1>1. /\ Len(r) = n + 1 /\ n \in Nat /\ r[n + 1] = e
      /\ \A i \in 1 .. n : r[i] = q[i]
      /\ \A i \in 1 .. Len(r) : i \in 1 .. n \/ i = n + 1
    BY Queued
<1>2. \A K : Says(r, K, s) <=> Says(q, K, s) \/ Is(e, K, s)
    BY SaysMore
<1> HIDE DEF r
<1>3. ASSUME ~Is(e, {"added"}, s), Single(q)
      PROVE  Single(r)
    BY <1>1, <1>3 DEF n
<1>4. ASSUME ~Says(q, {"added"}, s)
      PROVE  Single(r)
    <2>1. \A i \in 1 .. n : ~Is(q[i], {"added"}, s)
        BY <1>4 DEF Says
    <2> QED
        BY <1>1, <2>1
<1>5. \A p, l : Told(p, l, held, once, s) <=>
          /\ held => l # "none"
          /\ l = "gone" /\ (held \/ Says(p, {"added"}, s)) => Says(p, {"destroyed"}, s)
          /\ once => (held => ~Says(p, {"added"}, s)) /\ Single(p)
    BY Zenon DEF Told
<1> HIDE DEF Single, n
<1>6. /\ held => life # "none"
      /\ life = "gone" /\ (held \/ Says(q, {"added"}, s)) => Says(q, {"destroyed"}, s)
      /\ once => (held => ~Says(q, {"added"}, s)) /\ Single(q)
    BY <1>5
<1>7. ASSUME ~Is(e, {"added"}, s), life2 = "none" => life = "none",
             life2 = "gone" => life = "gone" \/ Is(e, {"destroyed"}, s)
      PROVE  Told(r, life2, held, once, s)
    BY <1>2, <1>3, <1>5, <1>6, <1>7
<1>8. ASSUME life2 = "live", once => ~held /\ ~Says(q, {"added"}, s)
      PROVE  Told(r, life2, held, once, s)
    <2>1. life2 # "none" /\ life2 # "gone"
        BY <1>8
    <2> QED
        BY <1>4, <1>5, <1>8, <2>1
<1> QED
    BY <1>7, <1>8 DEF r

\* ... with one delivered, upon which the surface may be held or let go.
LEMMA ToldLess ==
    ASSUME NEW q \in Seq(Signals), q # <<>>, NEW life, NEW lives, NEW held \in BOOLEAN,
           NEW held2 \in BOOLEAN, NEW once \in BOOLEAN, NEW s,
           LifeOf(q, life, lives, s), Told(q, life, held, once, s),
           held2 => held \/ Is(Head(q), {"added"}, s),
           Is(Head(q), {"destroyed"}, s) => ~held2
    PROVE  Told(Tail(q), life, held2, once, s)
<1> DEFINE r == Tail(q)
           e == Head(q)
<1>1. /\ Len(q) = Len(r) + 1 /\ Len(r) \in Nat /\ e = q[1] /\ 1 \in 1 .. Len(q)
      /\ \A i \in 1 .. Len(r) : r[i] = q[i + 1] /\ i + 1 \in 1 .. Len(q) /\ 1 < i + 1
      /\ e \in Signals
    BY Taken
<1>2. \A K : Says(q, K, s) <=> Says(r, K, s) \/ Is(e, K, s)
    BY SaysLess
<1>3. Is(e, {"added"}, s) => Mentions(q, s)
    BY <1>1, IsMentions DEF Mentions
<1> HIDE DEF r, e
<1>4. /\ life = "none" => ~Mentions(q, s)
      /\ \A i, j \in 1 .. Len(q) : i < j => ~(Is(q[i], Leaving, s) /\ Is(q[j], Arrivals, s))
    BY DEF LifeOf
<1>5. /\ held => life # "none"
      /\ life = "gone" /\ (held \/ Says(q, {"added"}, s)) => Says(q, {"destroyed"}, s)
      /\ once => /\ held => ~Says(q, {"added"}, s)
                 /\ \A i, j \in 1 .. Len(q) : Is(q[i], {"added"}, s) /\ Is(q[j], {"added"}, s) => i = j
    BY DEF Told
<1>6. Says(r, {"added"}, s) => ~Is(e, {"destroyed"}, s)
    <2>1. \A i \in 1 .. Len(r) : Is(r[i], {"added"}, s) => Is(q[i + 1], Arrivals, s)
        BY <1>1, KindsApart
    <2>2. Is(e, {"destroyed"}, s) => Is(q[1], Leaving, s)
        BY <1>1, KindsApart
    <2> QED
        BY <1>1, <1>4, <2>1, <2>2 DEF Says
<1>7. once /\ Is(e, {"added"}, s) => ~Says(r, {"added"}, s)
    <2> SUFFICES ASSUME once, Is(e, {"added"}, s), NEW i \in 1 .. Len(r), Is(r[i], {"added"}, s)
                 PROVE  FALSE
        BY DEF Says
    <2>1. Is(q[1], {"added"}, s) /\ Is(q[i + 1], {"added"}, s) /\ i + 1 # 1
        BY <1>1
    <2> QED
        BY <1>1, <1>5, <2>1
<1>8. ASSUME once, NEW i \in 1 .. Len(r), NEW j \in 1 .. Len(r),
             Is(r[i], {"added"}, s), Is(r[j], {"added"}, s)
      PROVE  i = j
    <2>1. i + 1 = j + 1
        BY <1>1, <1>5, <1>8
    <2> QED
        BY <1>1, <2>1
<1>9. held2 => held \/ Is(e, {"added"}, s)
    BY DEF e
<1>10. Is(e, {"destroyed"}, s) => ~held2
    BY DEF e
<1>11. held2 => life # "none"
    BY <1>3, <1>4, <1>5, <1>9
<1>12. life = "gone" /\ (held2 \/ Says(r, {"added"}, s)) => Says(r, {"destroyed"}, s)
    BY <1>2, <1>5, <1>6, <1>9, <1>10
<1>13. once => (held2 => ~Says(r, {"added"}, s))
    BY <1>2, <1>5, <1>7, <1>9
<1>14. Told(r, life, held2, once, s)
    BY <1>8, <1>11, <1>12, <1>13 DEF Told
<1> QED
    BY <1>14 DEF r

\* ... and with signals that neither announce a surface nor say that it is destroyed.
LEMMA ToldExtends ==
    ASSUME NEW q \in Seq(Signals), NEW r, NEW K, Extends(q, r, K), "added" \notin K,
           NEW life, NEW held \in BOOLEAN, NEW once \in BOOLEAN, NEW s, Told(q, life, held, once, s)
    PROVE  Told(r, life, held, once, s)
<1>1. PICK b \in Seq(Signals) : r = q \o b /\ \A i \in 1 .. Len(b) : b[i].kind \in K
    BY DEF Extends
<1>2. /\ \A i \in 1 .. Len(r) : \/ i \in 1 .. Len(q) /\ r[i] = q[i]
                                \/ i - Len(q) \in 1 .. Len(b) /\ r[i] = b[i - Len(q)]
      /\ \A i \in 1 .. Len(q) : i \in 1 .. Len(r) /\ r[i] = q[i]
    BY <1>1
<1>3. \A i \in 1 .. Len(r) : Is(r[i], {"added"}, s) => i \in 1 .. Len(q) /\ r[i] = q[i]
    BY <1>1, <1>2 DEF Is
<1>4. Says(r, {"added"}, s) <=> Says(q, {"added"}, s)
    BY <1>2, <1>3, Zenon DEF Says
<1>5. Says(q, {"destroyed"}, s) => Says(r, {"destroyed"}, s)
    BY <1>2, Zenon DEF Says
<1>6. ASSUME once, NEW i \in 1 .. Len(r), NEW j \in 1 .. Len(r),
             Is(r[i], {"added"}, s), Is(r[j], {"added"}, s)
      PROVE  i = j
    <2>1. i \in 1 .. Len(q) /\ r[i] = q[i] /\ j \in 1 .. Len(q) /\ r[j] = q[j]
        BY <1>3, <1>6
    <2> QED
        BY <1>6, <2>1 DEF Told
<1> QED
    BY <1>4, <1>5, <1>6 DEF Told
-----------------------------------------------------------------------------
(* Windows take surfaces and let go of them.                               *)

\* Windows let go of their surfaces, except that window n may take s.
LEMMA WindowsTake ==
    ASSUME Places, NEW n, NEW s, Wraps(s) => s = NoSurface, UNCHANGED environment,
           \A w \in Windows : surfaceOf'[w] \in {surfaceOf[w], NoSurface} \/ (w = n /\ surfaceOf'[w] = s),
           \A w \in Windows : surfaceOf'[w] # NoSurface => w \in windows',
           \A t \in deferred' : (t \in deferred /\ t # s) \/ (\A w \in Windows : surfaceOf'[w] # t),
           Moves => \A w \in Windows :
               surfaceOf'[w] # NoSurface /\ IsTopLevel(surfaceOf'[w]) =>
                   \/ /\ surfaceOf'[w] = surfaceOf[w]
                      /\ InRows(w, rows) => InRows(w, rows')
                      /\ surfaceOf[w] \in allSurfaces => surfaceOf[w] \in allSurfaces'
                   \/ InRows(w, rows') /\ surfaceOf'[w] \in allSurfaces'
    PROVE  Places' /\ \A t \in Surfaces : Wraps(t)' => Wraps(t) \/ t = s
<1>1. Moves' <=> Moves
    BY DEF Moves, Allowed
<1>2. ASSUME NEW v \in Windows, NEW w \in Windows, surfaceOf'[v] = surfaceOf'[w], surfaceOf'[v] # NoSurface
      PROVE  v = w
    BY <1>2 DEF Places, Wraps
<1>3. ASSUME NEW w \in Windows, surfaceOf'[w] # NoSurface
      PROVE  w \in windows' /\ surfaceOf'[w] \notin deferred'
    BY <1>3 DEF Places
<1>4. ASSUME Moves, NEW w \in Windows, surfaceOf'[w] # NoSurface, IsTopLevel(surfaceOf'[w])
      PROVE  InRows(w, rows') /\ surfaceOf'[w] \in allSurfaces'
    BY <1>4 DEF Places
<1>5. Places'
    BY <1>1, <1>2, <1>3, <1>4 DEF Places
<1>6. ASSUME NEW t \in Surfaces, NEW w \in Windows, surfaceOf'[w] = t
      PROVE  Wraps(t) \/ t = s
    BY <1>6, SurfacesAssumption DEF Wraps
<1> QED
    BY <1>5, <1>6 DEF Wraps

\* No window takes a surface.
LEMMA WindowsLetGo ==
    ASSUME Places, UNCHANGED environment, \A t \in deferred' : t \in deferred,
           \A w \in Windows : surfaceOf'[w] \in {surfaceOf[w], NoSurface},
           \A w \in Windows : surfaceOf'[w] # NoSurface => w \in windows',
           Moves => \A w \in Windows :
               surfaceOf'[w] # NoSurface =>
                   /\ InRows(w, rows) => InRows(w, rows')
                   /\ IsTopLevel(surfaceOf[w]) /\ surfaceOf[w] \in allSurfaces => surfaceOf[w] \in allSurfaces'
    PROVE  Places' /\ \A t \in Surfaces : Held(t)' => Held(t)
<1>1. ASSUME NEW t \in deferred', t = NoSurface
      PROVE  \A w \in Windows : surfaceOf'[w] # NoSurface => surfaceOf'[w] # t
    BY <1>1
<1>2. Moves' <=> Moves
    BY DEF Moves, Allowed
<1>3. \A w \in Windows : surfaceOf'[w] # NoSurface => surfaceOf'[w] = surfaceOf[w]
    OBVIOUS
<1>4. Places'
    BY <1>2, <1>3 DEF Places
<1>5. \A t \in Surfaces : Wraps(t)' => Wraps(t)
    BY SurfacesAssumption DEF Wraps
<1> QED
    BY <1>4, <1>5 DEF Held

LEMMA DeleteRowsPlaces ==
    ASSUME Sound, Places, NEW R, R \subseteq Windows, DeleteRows(R), UNCHANGED environment,
           \A t \in deferred' : t \in deferred
    PROVE  /\ Places'
           /\ \A t \in Surfaces : Held(t)' => Held(t)
           /\ \A w \in R : surfaceOf'[w] = NoSurface
<1>1. /\ rows' = Without(rows, R) /\ windows' = windows \ R
      /\ surfaceOf' = [w \in Windows |-> IF w \in R THEN NoSurface ELSE surfaceOf[w]]
      /\ allSurfaces' = allSurfaces \ {surfaceOf[w] : w \in R}
    BY DEF DeleteRows
<1>2. rows \in Seq(Rows)
    BY SoundWindows
<1>3. \A w : InRows(w, rows') <=> InRows(w, rows) /\ w \notin R
    BY <1>1, <1>2, RowsWithout
<1>4. ASSUME NEW w \in Windows, surfaceOf'[w] # NoSurface
      PROVE  /\ w \in windows'
             /\ InRows(w, rows) => InRows(w, rows')
             /\ surfaceOf[w] \in allSurfaces => surfaceOf[w] \in allSurfaces'
    <2>1. w \notin R /\ surfaceOf[w] # NoSurface
        BY <1>1, <1>4
    <2>2. \A v \in R : surfaceOf[v] # surfaceOf[w]
        BY <2>1 DEF Places
    <2> QED
        BY <1>1, <1>3, <2>1, <2>2 DEF Places
<1>5. \A w \in Windows : surfaceOf'[w] \in {surfaceOf[w], NoSurface}
    BY <1>1
<1>6. Places' /\ \A t \in Surfaces : Held(t)' => Held(t)
    BY <1>4, <1>5, WindowsLetGo
<1> QED
    BY <1>1, <1>6

\* A surface that no window wraps gets a new window.
LEMMA NewWindowPlaces ==
    ASSUME Sound, Places, NEW s \in Surfaces, ~Wraps(s), NewWindow(s), UNCHANGED environment,
           \A t \in deferred' : t \in deferred /\ t # s, \A v : InRows(v, rows) => InRows(v, rows'),
           \A t \in allSurfaces : t \in allSurfaces',
           IsTopLevel(s) => InRows(nextId, rows') /\ s \in allSurfaces'
    PROVE  Places' /\ \A t \in Surfaces : Wraps(t)' => Wraps(t) \/ t = s
<1>1. /\ windows' = windows \cup {nextId} /\ surfaceOf' = [surfaceOf EXCEPT ![nextId] = s]
      /\ surfaceOf \in SurfaceMaps /\ nextId \in Windows
    BY SoundWindows, NewWindowType DEF NewWindow, Sound
<1>2. \A w \in Windows : surfaceOf'[w] = IF w = nextId THEN s ELSE surfaceOf[w]
    BY <1>1 DEF SurfaceMaps
<1>3. \A w \in Windows : surfaceOf'[w] # NoSurface => w \in windows'
    BY <1>1, <1>2 DEF Places
<1> QED
    BY <1>2, <1>3, WindowsTake

\* ... or fills a row, or gets a new one.
LEMMA PrependPlaces ==
    ASSUME Sound, Places, NEW s \in Surfaces, ~Wraps(s), NEW r \in Seq(Rows), NEW q,
           PrependSurface(s, r, q), UNCHANGED environment,
           \A t \in deferred' : t \in deferred /\ t # s, \A v : InRows(v, rows) => InRows(v, r)
    PROVE  Places' /\ \A t \in Surfaces : Wraps(t)' => Wraps(t) \/ t = s
<1> DEFINE i == FillRow(s)
           w == rows[i]
<1>1. allSurfaces' = allSurfaces \cup {s}
    BY DEF PrependSurface
<1>2. /\ rows \in Seq(Rows) /\ surfaceOf \in SurfaceMaps /\ TypeOK
      /\ \A k \in 1 .. Len(rows) : rows[k] \in windows /\ rows[k] \in Windows
    BY SoundWindows DEF Sound
<1>3. i \in 0 .. Len(rows)
    BY <1>2, FillRowType
<1>4. CASE i = 0
    <2>1. NewWindow(s) /\ rows' = <<nextId>> \o r
        BY <1>4, Zenon DEF PrependSurface
    <2>2. nextId \in Rows
        BY <1>2, <2>1, NewWindowType
    <2>3. \A v : InRows(v, rows') <=> v = nextId \/ InRows(v, r)
        BY <2>1, <2>2, RowsPrepended
    <2> QED
        BY <1>1, <2>1, <2>3, NewWindowPlaces
<1>5. CASE i # 0
    <2>1. w \in Windows /\ w \in windows /\ InRows(w, rows)
        BY <1>2, <1>3, <1>5 DEF InRows
    <2>2. /\ surfaceOf' = [surfaceOf EXCEPT ![w] = s] /\ rows' = r /\ windows' = windows
        BY <1>5 DEF PrependSurface
    <2> HIDE DEF w, i
    <2>3. \A v \in Windows : surfaceOf'[v] = IF v = w THEN s ELSE surfaceOf[v]
        BY <1>2, <2>1, <2>2 DEF SurfaceMaps
    <2>4. \A v \in Windows : surfaceOf'[v] # NoSurface => v \in windows'
        BY <2>1, <2>2, <2>3 DEF Places
    <2>5. \A v \in Windows : surfaceOf'[v] \in {surfaceOf[v], NoSurface} \/ (v = w /\ surfaceOf'[v] = s)
        BY <2>3
    <2>6. ASSUME NEW v \in Windows
          PROVE  \/ /\ surfaceOf'[v] = surfaceOf[v]
                    /\ InRows(v, rows) => InRows(v, rows')
                    /\ surfaceOf[v] \in allSurfaces => surfaceOf[v] \in allSurfaces'
                 \/ InRows(v, rows') /\ surfaceOf'[v] \in allSurfaces'
        BY <1>1, <2>1, <2>2, <2>3
    <2>7. \A v \in Windows : surfaceOf'[v] # NoSurface /\ IsTopLevel(surfaceOf'[v]) =>
              \/ /\ surfaceOf'[v] = surfaceOf[v]
                 /\ InRows(v, rows) => InRows(v, rows')
                 /\ surfaceOf[v] \in allSurfaces => surfaceOf[v] \in allSurfaces'
              \/ InRows(v, rows') /\ surfaceOf'[v] \in allSurfaces'
        BY <2>6
    <2>8. PICK n \in Windows : n = w
        BY <2>1
    <2>9. \A v \in Windows : surfaceOf'[v] \in {surfaceOf[v], NoSurface} \/ (v = n /\ surfaceOf'[v] = s)
        BY <2>5, <2>8
    <2> QED
        BY <2>4, <2>7, <2>9, WindowsTake
<1> QED
    BY <1>4, <1>5

\* A surface that is announced, and is not known, is not yet held.
LEMMA ArrivesUnheld ==
    ASSUME Sound, Places, Unhidden, Announced(events, mirLife), NEW s \in Surfaces, Arrives(s)
    PROVE  ~Held(s)
<1>1. events \in Seq(Signals) /\ events # <<>> /\ Head(events).kind = "added"
      /\ Subject = s /\ s \notin allSurfaces /\ s # NoSurface
    BY SurfacesAssumption DEF Arrives, Deliver, Sound, TypeOK
<1>2. Head(events) \in Signals
    BY <1>1
<1>3. Is(Head(events), {"added"}, s)
    BY <1>1, <1>2 DEF Is, Subject, Signals, Brackets
<1>4. Says(events, {"added"}, s)
    BY <1>1, <1>3, SaysLess
<1>5. CASE OnceOnly(s)
    BY <1>4, <1>5 DEF Announced, Told
<1>6. CASE ~OnceOnly(s)
    <2>1. Moves /\ IsTopLevel(s)
        BY <1>6 DEF OnceOnly
    <2>2. deferred = {}
        BY <2>1 DEF Unhidden
    <2>3. ~Wraps(s)
        BY <1>1, <2>1 DEF Places, Wraps
    <2> QED
        BY <2>2, <2>3 DEF Held
<1> QED
    BY <1>5, <1>6

LEMMA SignalsPlace ==
    ASSUME Sound, Places, Unhidden, Announced(events, mirLife), Moves => NoneOf(events, {"hidden"}),
           SignalNext
    PROVE  /\ Places' /\ Unhidden'
           /\ \A t \in Surfaces : /\ Held(t)' => Held(t) \/ Is(Head(events), {"added"}, t)
                                  /\ Is(Head(events), {"destroyed"}, t) => ~Held(t)'
<1> DEFINE e == Head(events)
           H2(t) == Held(t)'
           G == /\ Places' /\ Unhidden'
                /\ \A t \in Surfaces : /\ H2(t) => Held(t) \/ Is(e, {"added"}, t)
                                       /\ Is(e, {"destroyed"}, t) => ~H2(t)
<1>1. /\ TypeOK /\ NoSurface \notin Surfaces
      /\ \A s : IsTopLevel(s) => s \notin InputMethods
      /\ surfaceOf \in SurfaceMaps /\ rows \in Seq(Rows) /\ windows \subseteq Windows
      /\ events \in Seq(Signals) /\ events # <<>> /\ e \in Signals
    BY SignalsCall, SoundWindows, SurfacesAssumption DEF Sound, IsTopLevel
<1>2. \A K, s : Is(e, K, s) => e.kind \in K /\ Subject = s
    BY DEF Is, Subject
<1>3. \A kind \in {"added", "destroyed"} : Deliver(kind) => e.kind = kind /\ Is(e, {kind}, Subject)
    <2>1. \A kind \in {"added", "destroyed"} : Deliver(kind) => e.kind = kind /\ e.of # <<>>
        BY <1>1 DEF Deliver, Signals, Brackets
    <2> QED
        BY <2>1 DEF Is, Subject
<1>4. ASSUME UNCHANGED environment
      PROVE  Moves' <=> Moves
    BY <1>4 DEF Moves, Allowed
<1>5. Moves => e.kind # "hidden"
    <2>1. e = events[1] /\ 1 \in 1 .. Len(events)
        BY <1>1
    <2> QED
        BY <2>1 DEF NoneOf
<1> SUFFICES G
    OBVIOUS
<1> HIDE DEF e, H2
\* No surface becomes held.
<1>6. ASSUME Places', Unhidden', \A t \in Surfaces : Held(t)' => Held(t), e.kind # "destroyed"
      PROVE  G
    BY <1>2, <1>6 DEF H2
\* ... or the one that arrives.
<1>7. ASSUME NEW s \in Surfaces, Places', Unhidden', Is(e, {"added"}, s),
             \A t \in Surfaces : Held(t)' => Held(t) \/ t = s
      PROVE  G
    BY <1>2, <1>7 DEF H2
<1>8. ASSUME UNCHANGED <<environment, windows, surfaceOf, deferred>>,
             \A v : InRows(v, rows) => InRows(v, rows'), \A s \in allSurfaces : s \in allSurfaces'
      PROVE  Places' /\ \A t \in Surfaces : Held(t)' => Held(t)
    BY <1>4, <1>8 DEF Places, Held, Wraps
<1>9. CASE \/ OnModificationsStarted \/ OnModificationsEnded \/ FocusLost \/ FocusGained
           \/ SkipKnownSurface
    <2>1. \/ Deliver("started") \/ Deliver("ended") \/ Deliver("lost") \/ Deliver("gained")
          \/ Deliver("added")
        BY <1>9, Zenon DEF OnModificationsStarted, OnModificationsEnded, FocusLost, FocusGained,
            UpdateFocused, SkipKnownSurface
    <2>2. e.kind # "destroyed"
        BY <2>1 DEF Deliver, e
    <2>3. UNCHANGED <<rows, windows, surfaceOf, allSurfaces, deferred, environment, hiddenWindows, qtHidden>>
        BY <1>9, Zenon DEF OnModificationsStarted, OnModificationsEnded, FocusLost, FocusGained,
            UpdateFocused, SkipKnownSurface, objectVars, modelVars
    <2>4. Unhidden'
        BY <1>4, <2>3 DEF Unhidden
    <2>5. \A v : InRows(v, rows) => InRows(v, rows')
        BY <2>3
    <2> QED
        BY <1>6, <1>8, <2>2, <2>3, <2>4, <2>5
<1>10. CASE OnSurfacesRaised
    <2>1. /\ UNCHANGED <<windows, surfaceOf, allSurfaces, deferred, environment, hiddenWindows, qtHidden>>
          /\ LET i == IndexOf(Subject, rows, surfaceOf)
             IN  rows' = IF i > 1 THEN MoveToFront(rows, i) ELSE rows
          /\ e.kind = "raised"
        BY <1>10 DEF OnSurfacesRaised, Deliver, objectVars, e
    <2>2. LET i == IndexOf(Subject, rows, surfaceOf) IN i = 0 \/ i \in 1 .. Len(rows)
        BY <1>1, IndexOfFinds
    <2>3. \A v : InRows(v, rows') <=> InRows(v, rows)
        BY <1>1, <2>1, <2>2, RowsMoved
    <2>4. Unhidden'
        BY <1>4, <2>1 DEF Unhidden
    <2> QED
        BY <1>6, <1>8, <2>1, <2>3, <2>4
<1>11. CASE SurfaceHidden
    <2>1. /\ UNCHANGED <<windows, surfaceOf, deferred, environment>>
          /\ e.kind = "hidden"
        BY <1>11 DEF SurfaceHidden, Deliver, e
    <2>2. ~Moves /\ ~Moves'
        BY <1>4, <1>5, <2>1
    <2>3. Places' /\ \A t \in Surfaces : Held(t)' => Held(t)
        BY <2>1, <2>2 DEF Places, Held, Wraps
    <2> QED
        BY <1>6, <2>1, <2>2, <2>3 DEF Unhidden
<1>12. CASE RemoveSurfaces
    <2> DEFINE ss == Head(events).of
               R == {w \in Windows : InRows(w, rows) /\ surfaceOf[w] \in ToSet(ss)}
    <2>1. /\ rows' = Without(rows, R)
          /\ surfaceOf' = [w \in Windows |-> IF w \in R THEN NoSurface ELSE surfaceOf[w]]
          /\ allSurfaces' = allSurfaces \ {ss[i] : i \in {j \in DOMAIN ss : Leads(ss, j)}}
          /\ UNCHANGED <<windows, deferred, environment, hiddenWindows, qtHidden>>
          /\ e.kind = "away"
        BY <1>12 DEF RemoveSurfaces, Deliver, objectVars, e
    <2>2. \A s \in allSurfaces : s \in allSurfaces' \/ s \in ToSet(ss)
        BY <2>1 DEF ToSet
    <2>3. \A w \in Windows : w \in R <=> InRows(w, rows) /\ surfaceOf[w] \in ToSet(ss)
        OBVIOUS
    <2> HIDE DEF R, ss
    <2>4. \A w : InRows(w, rows') <=> InRows(w, rows) /\ w \notin R
        BY <1>1, <2>1, RowsWithout
    <2>5. \A w \in Windows : surfaceOf'[w] # NoSurface => w \in windows' /\ w \notin R
        BY <2>1 DEF Places
    <2>6. ASSUME Moves, NEW w \in Windows, surfaceOf'[w] # NoSurface
          PROVE  /\ InRows(w, rows) => InRows(w, rows')
                 /\ IsTopLevel(surfaceOf[w]) /\ surfaceOf[w] \in allSurfaces => surfaceOf[w] \in allSurfaces'
        BY <2>1, <2>2, <2>3, <2>4, <2>5, <2>6 DEF Places
    <2>7. \A w \in Windows : surfaceOf'[w] \in {surfaceOf[w], NoSurface}
        BY <2>1
    <2>8. Places' /\ \A t \in Surfaces : Held(t)' => Held(t)
        BY <2>1, <2>5, <2>6, <2>7, WindowsLetGo
    <2> QED
        BY <1>4, <1>6, <2>1, <2>8 DEF Unhidden
<1>13. ASSUME NEW s \in Surfaces, Arrives(s)
       PROVE  /\ ~Held(s) /\ ~Wraps(s) /\ s \notin deferred /\ s \notin allSurfaces
              /\ Subject = s /\ Is(e, {"added"}, s) /\ s # NoSurface
    BY <1>1, <1>3, <1>13, ArrivesUnheld DEF Arrives, Held
<1>14. ASSUME NEW s \in Surfaces, DeferHiddenSurface(s)
       PROVE  G
    <2>1. /\ Arrives(s) /\ s \in qtHidden /\ deferred' = deferred \cup {s}
          /\ UNCHANGED <<rows, windows, surfaceOf, allSurfaces, environment>>
        BY <1>14 DEF DeferHiddenSurface
    <2>2. ~Moves /\ ~Moves' /\ Unhidden'
        BY <1>4, <2>1 DEF Unhidden
    <2>3. Places'
        BY <1>13, <2>1, <2>2 DEF Places, Wraps
    <2>4. \A t \in Surfaces : Held(t)' => Held(t) \/ t = s
        BY <2>1 DEF Held, Wraps
    <2> QED
        BY <1>7, <1>13, <2>1, <2>2, <2>3, <2>4
<1>15. ASSUME NEW s \in Surfaces, AddTopLevelSurface(s)
       PROVE  G
    <2>1. /\ Arrives(s) /\ PrependSurface(s, rows, Tail(events))
          /\ UNCHANGED <<hiddenWindows, deferred, environment, qtHidden>>
        BY <1>15, Zenon DEF AddTopLevelSurface, objectVars
    <2>2. \A t \in deferred' : t \in deferred /\ t # s
        BY <1>13, <2>1
    <2>3. Places' /\ \A t \in Surfaces : Wraps(t)' => Wraps(t) \/ t = s
        BY <1>1, <1>13, <2>1, <2>2, PrependPlaces
    <2>4. \A t \in Surfaces : Held(t)' => Held(t) \/ t = s
        BY <2>2, <2>3 DEF Held
    <2>5. Unhidden'
        BY <1>4, <2>1 DEF Unhidden
    <2> QED
        BY <1>7, <1>13, <2>1, <2>3, <2>4, <2>5
<1>16. ASSUME NEW s \in Surfaces, WrapSurface(s)
       PROVE  G
    <2>1. /\ Arrives(s) /\ ~IsTopLevel(s) /\ NewWindow(s)
          /\ hiddenWindows' = IF s \in qtHidden THEN hiddenWindows \cup {nextId} ELSE hiddenWindows
          /\ UNCHANGED <<rows, allSurfaces, deferred, environment, qtHidden>>
        BY <1>16, Zenon DEF WrapSurface, objectVars
    <2>2. \A t \in deferred' : t \in deferred /\ t # s
        BY <1>13, <2>1
    <2>3. Places' /\ \A t \in Surfaces : Wraps(t)' => Wraps(t) \/ t = s
        BY <1>13, <2>1, <2>2, NewWindowPlaces
    <2>4. \A t \in Surfaces : Held(t)' => Held(t) \/ t = s
        BY <2>2, <2>3 DEF Held
    <2>5. Unhidden'
        BY <1>4, <2>1 DEF Unhidden
    <2> QED
        BY <1>7, <1>13, <2>1, <2>3, <2>4, <2>5
<1>17. ASSUME NEW s \in Surfaces, SetInputMethodWindow(s)
       PROVE  G
    <2>1. /\ Arrives(s) /\ s \in InputMethods /\ nextId <= MaxWindows
          /\ windows' = (windows \ {inputMethodWindow}) \cup {nextId}
          /\ surfaceOf' = [w \in Windows |-> IF w = nextId THEN s
                                             ELSE IF w = inputMethodWindow THEN NoSurface
                                             ELSE surfaceOf[w]]
          /\ UNCHANGED <<rows, allSurfaces, deferred, environment, hiddenWindows, qtHidden>>
        BY <1>17, Zenon DEF SetInputMethodWindow, objectVars
    <2>2. \A w \in Windows : surfaceOf'[w] \in {surfaceOf[w], NoSurface} \/ (w = nextId /\ surfaceOf'[w] = s)
        BY <2>1
    <2>3. \A w \in Windows : surfaceOf'[w] # NoSurface => w \in windows'
        BY <2>1 DEF Places
    <2>4. \A t \in deferred' : t \in deferred /\ t # s
        BY <1>13, <2>1
    <2>5. ~IsTopLevel(s)
        BY <1>1, <2>1
    <2>6. ASSUME Moves, NEW w \in Windows, surfaceOf'[w] # NoSurface, IsTopLevel(surfaceOf'[w])
          PROVE  /\ surfaceOf'[w] = surfaceOf[w]
                 /\ InRows(w, rows) => InRows(w, rows')
                 /\ surfaceOf[w] \in allSurfaces => surfaceOf[w] \in allSurfaces'
        BY <2>1, <2>2, <2>5, <2>6
    <2>7. Places' /\ \A t \in Surfaces : Wraps(t)' => Wraps(t) \/ t = s
        BY <1>13, <2>1, <2>2, <2>3, <2>4, <2>6, WindowsTake
    <2>8. \A t \in Surfaces : Held(t)' => Held(t) \/ t = s
        BY <2>4, <2>7 DEF Held
    <2>9. Unhidden'
        BY <1>4, <2>1 DEF Unhidden
    <2> QED
        BY <1>7, <1>13, <2>1, <2>7, <2>8, <2>9
<1>18. CASE SurfaceShown
    <2> DEFINE back == {w \in windows : surfaceOf[w] = Subject /\ w \in hiddenWindows
                                        /\ ~InRows(w, rows) /\ IsTopLevel(Subject)}
    <2>1. Subject \in Surfaces /\ e.kind = "shown"
        BY <1>1, <1>18, SubjectType DEF SurfaceShown, Brackets, Deliver, e
    <2>2. /\ deferred' = deferred \ {Subject} /\ qtHidden' = qtHidden \ {Subject}
          /\ \A w \in hiddenWindows' : w \in hiddenWindows
          /\ UNCHANGED environment
        BY <1>18 DEF SurfaceShown
    <2>3. PICK r : /\ r = rows \/ \E w \in back : r = <<w>> \o rows
                   /\ \/ Subject \in deferred /\ PrependSurface(Subject, r, Tail(events))
                      \/ rows' = r /\ UNCHANGED <<windows, surfaceOf, allSurfaces>>
        <3>1. {w \in {w \in windows : surfaceOf[w] = Subject /\ w \in hiddenWindows} :
                  ~InRows(w, rows) /\ IsTopLevel(Subject)} = back
            OBVIOUS
        <3>2. back = {} \/ (CHOOSE w \in back : TRUE) \in back
            OBVIOUS
        <3> HIDE DEF back
        <3> QED
            BY <1>18, <3>1, <3>2 DEF SurfaceShown
    <2>4. r \in Seq(Rows) /\ \A v : InRows(v, rows) => InRows(v, r)
        <3>1. \A w \in back : w \in Rows
            <4>1. \A w \in back : w \in Windows /\ surfaceOf[w] = Subject
                BY <1>1
            <4> QED
                BY <1>1, <2>1, <4>1, SurfaceMapsType DEF Rows
        <3> HIDE DEF back
        <3>2. CASE r = rows
            BY <1>1, <3>2
        <3>3. CASE \E w \in back : r = <<w>> \o rows
            BY <1>1, <3>1, <3>3, RowsPrepended
        <3> QED
            BY <2>3, <3>2, <3>3
    <2> HIDE DEF back
    <2>5. Unhidden'
        BY <1>4, <2>2 DEF Unhidden
    <2>6. \A t \in deferred' : t \in deferred /\ t # Subject
        BY <2>2
    <2>7. CASE Subject \in deferred /\ PrependSurface(Subject, r, Tail(events))
        <3>1. ~Wraps(Subject)
            BY <1>1, <2>1, <2>7 DEF Places, Wraps
        <3>2. Places' /\ \A t \in Surfaces : Wraps(t)' => Wraps(t) \/ t = Subject
            BY <2>1, <2>2, <2>4, <2>6, <2>7, <3>1, PrependPlaces
        <3>3. \A t \in Surfaces : Held(t)' => Held(t)
            BY <2>6, <2>7, <3>2 DEF Held
        <3> QED
            BY <1>6, <2>1, <2>5, <3>2, <3>3
    <2>8. CASE rows' = r /\ UNCHANGED <<windows, surfaceOf, allSurfaces>>
        <3>1. \A w \in Windows : surfaceOf'[w] # NoSurface => w \in windows'
            BY <2>8 DEF Places
        <3>2. Places' /\ \A t \in Surfaces : Held(t)' => Held(t)
            BY <2>2, <2>4, <2>6, <2>8, <3>1, WindowsLetGo
        <3> QED
            BY <1>6, <2>1, <2>5, <3>2
    <2> QED
        BY <2>3, <2>7, <2>8
<1>19. CASE SurfaceDied
    <2> DEFINE H == {v \in hiddenWindows : surfaceOf[v] = Subject}
    <2>1. /\ windows' = windows \ H /\ hiddenWindows' = hiddenWindows \ H
          /\ surfaceOf' = [v \in Windows |-> IF v \in H THEN NoSurface ELSE surfaceOf[v]]
          /\ UNCHANGED <<rows, allSurfaces, deferred, environment, qtHidden>>
          /\ e.kind = "died"
        BY <1>19 DEF SurfaceDied, Deliver, e
    <2> HIDE DEF H
    <2>2. \A w \in Windows : surfaceOf'[w] # NoSurface => w \in windows'
        BY <2>1 DEF Places
    <2>3. \A w \in Windows : surfaceOf'[w] \in {surfaceOf[w], NoSurface}
        BY <2>1
    <2>4. Places' /\ \A t \in Surfaces : Held(t)' => Held(t)
        BY <2>1, <2>2, <2>3, WindowsLetGo
    <2>5. Unhidden'
        BY <1>4, <2>1 DEF Unhidden
    <2> QED
        BY <1>6, <2>1, <2>4, <2>5
<1>20. CASE InputMethodDied
    <2> DEFINE w == inputMethodWindow
    <2>1. /\ UNCHANGED <<rows, hiddenWindows, deferred, environment, qtHidden>>
          /\ e.kind = "died"
          /\ \/ UNCHANGED <<windows, surfaceOf, allSurfaces>>
             \/ /\ w # NoWindow
                /\ windows' = windows \ {w}
                /\ allSurfaces' = allSurfaces \ {surfaceOf[w]}
                /\ surfaceOf' = [surfaceOf EXCEPT ![w] = NoSurface]
        BY <1>20 DEF InputMethodDied, Deliver, e
    <2>2. w # NoWindow => w \in Windows /\ surfaceOf[w] \in InputMethods \cup {NoSurface}
        BY <1>1 DEF Sound, TypeOK
    <2> HIDE DEF w
    <2>3. CASE UNCHANGED <<windows, surfaceOf, allSurfaces>>
        <3>1. Places' /\ \A t \in Surfaces : Held(t)' => Held(t)
            BY <1>8, <2>1, <2>3
        <3> QED
            BY <1>4, <1>6, <2>1, <3>1 DEF Unhidden
    <2>4. CASE /\ w # NoWindow
               /\ windows' = windows \ {w}
               /\ allSurfaces' = allSurfaces \ {surfaceOf[w]}
               /\ surfaceOf' = [surfaceOf EXCEPT ![w] = NoSurface]
        <3>1. \A v \in Windows : surfaceOf'[v] = IF v = w THEN NoSurface ELSE surfaceOf[v]
            BY <1>1, <2>2, <2>4 DEF SurfaceMaps
        <3>2. \A v \in Windows : surfaceOf'[v] # NoSurface => v \in windows'
            BY <2>4, <3>1 DEF Places
        <3>3. ASSUME NEW v \in Windows, surfaceOf'[v] # NoSurface
              PROVE  /\ InRows(v, rows) => InRows(v, rows')
                     /\ IsTopLevel(surfaceOf[v]) /\ surfaceOf[v] \in allSurfaces => surfaceOf[v] \in allSurfaces'
            BY <1>1, <2>1, <2>2, <2>4, <3>1, <3>3
        <3>4. Places' /\ \A t \in Surfaces : Held(t)' => Held(t)
            BY <2>1, <3>1, <3>2, <3>3, WindowsLetGo
        <3> QED
            BY <1>4, <1>6, <2>1, <3>4 DEF Unhidden
    <2> QED
        BY <2>1, <2>3, <2>4
<1>21. CASE SurfaceDestroyed
    <2> DEFINE i == IndexOf(Subject, rows, surfaceOf)
               w == rows[i]
               wrapper == {v \in windows : surfaceOf[v] = Subject}
    <2>1. /\ e.kind = "destroyed" /\ Subject \in Surfaces
          /\ deferred' = deferred \ {Subject} /\ qtHidden' = qtHidden \ {Subject}
          /\ UNCHANGED <<hiddenWindows, environment>>
          /\ \/ i # 0 /\ DeleteRows({w})
             \/ /\ i # 0
                /\ allSurfaces' = allSurfaces \ {Subject}
                /\ surfaceOf' = [surfaceOf EXCEPT ![w] = NoSurface]
                /\ UNCHANGED <<rows, windows>>
             \/ /\ surfaceOf' = [v \in Windows |-> IF v \in wrapper THEN NoSurface ELSE surfaceOf[v]]
                /\ UNCHANGED <<rows, windows, allSurfaces>>
        BY <1>1, <1>3, <1>21, SubjectType DEF SurfaceDestroyed, DeleteRows, Brackets
    <2>2. i # 0 => w \in Windows /\ surfaceOf[w] = Subject
        <3>1. i # 0 => i \in 1 .. Len(rows) /\ surfaceOf[rows[i]] = Subject
            BY <1>1, IndexOfFinds
        <3> HIDE DEF i
        <3> QED
            BY <1>1, <3>1 DEF Rows
    <2>3. \A v \in Windows : surfaceOf[v] = Subject => v \in wrapper
        BY <1>1, <2>1 DEF Places
    <2>4. \A v \in wrapper : surfaceOf[v] = Subject
        OBVIOUS
    <2> HIDE DEF i, w, wrapper
    <2>5. \A t \in deferred' : t \in deferred
        BY <2>1
    <2>6. /\ Places' /\ \A t \in Surfaces : Held(t)' => Held(t)
          /\ \A v \in Windows : surfaceOf'[v] # Subject
        <3>1. CASE i # 0 /\ DeleteRows({w})
            <4>1. Places' /\ \A t \in Surfaces : Held(t)' => Held(t)
                BY <2>1, <2>2, <2>5, <3>1, DeleteRowsPlaces
            <4>2. surfaceOf' = [v \in Windows |-> IF v \in {w} THEN NoSurface ELSE surfaceOf[v]]
                BY <3>1 DEF DeleteRows
            <4>3. \A v \in Windows : surfaceOf'[v] # Subject
                BY <1>1, <2>1, <2>2, <3>1, <4>2 DEF Places
            <4> QED
                BY <4>1, <4>3
        <3>2. CASE /\ i # 0
                   /\ allSurfaces' = allSurfaces \ {Subject}
                   /\ surfaceOf' = [surfaceOf EXCEPT ![w] = NoSurface]
                   /\ UNCHANGED <<rows, windows>>
            <4>1. \A v \in Windows : surfaceOf'[v] = IF v = w THEN NoSurface ELSE surfaceOf[v]
                BY <1>1, <2>2, <3>2 DEF SurfaceMaps
            <4>2. \A v \in Windows : surfaceOf'[v] # Subject
                BY <1>1, <2>1, <2>2, <3>2, <4>1 DEF Places
            <4>3. \A v \in Windows : surfaceOf'[v] \in {surfaceOf[v], NoSurface}
                BY <4>1
            <4>4. \A v \in Windows : surfaceOf'[v] # NoSurface => v \in windows'
                BY <3>2, <4>1 DEF Places
            <4>5. \A v \in Windows : surfaceOf'[v] # NoSurface /\ surfaceOf[v] \in allSurfaces => surfaceOf[v] \in allSurfaces'
                BY <3>2, <4>2, <4>3
            <4>6. Places' /\ \A t \in Surfaces : Held(t)' => Held(t)
                BY <2>1, <2>5, <3>2, <4>3, <4>4, <4>5, WindowsLetGo
            <4> QED
                BY <4>2, <4>6
        <3>3. CASE /\ surfaceOf' = [v \in Windows |-> IF v \in wrapper THEN NoSurface ELSE surfaceOf[v]]
                   /\ UNCHANGED <<rows, windows, allSurfaces>>
            <4>1. \A v \in Windows : surfaceOf'[v] # Subject
                BY <1>1, <2>1, <2>3, <3>3
            <4>2. \A v \in Windows : surfaceOf'[v] \in {surfaceOf[v], NoSurface}
                BY <3>3
            <4>3. \A v \in Windows : surfaceOf'[v] # NoSurface => v \in windows'
                BY <3>3, <4>2 DEF Places
            <4>4. Places' /\ \A t \in Surfaces : Held(t)' => Held(t)
                BY <2>1, <2>5, <3>3, <4>2, <4>3, WindowsLetGo
            <4> QED
                BY <4>1, <4>4
        <3> QED
            BY <2>1, <3>1, <3>2, <3>3
    <2>7. \A t \in Surfaces : t = Subject => ~Held(t)'
        BY <2>1, <2>6 DEF Held, Wraps
    <2>8. Unhidden'
        BY <1>4, <2>1 DEF Unhidden
    <2>9. \A t \in Surfaces : Is(e, {"destroyed"}, t) => t = Subject
        BY <1>2
    <2> QED
        BY <2>6, <2>7, <2>8, <2>9 DEF H2
<1> QED
    BY <1>9, <1>10, <1>11, <1>12, <1>14, <1>15, <1>16, <1>17, <1>18, <1>19, <1>20, <1>21 DEF SignalNext

\* What Mir adds to the queue.
LEMMA MirAnnounces ==
    ASSUME HidesOrMoves, TypeOK, Living, MirNext, Announced(events, mirLife),
           Moves => NoneOf(events, {"hidden"}) /\ qtHidden = {}
    PROVE  /\ Announced(events', mirLife')
           /\ Moves => NoneOf(events', {"hidden"}) /\ qtHidden' = {}
<1> DEFINE Unseen == Moves => NoneOf(events', {"hidden"}) /\ qtHidden' = {}
           G == Announced(events', mirLife') /\ Unseen
           K == EventKinds \ {"added"}
           M == EventKinds \ {"added", "hidden"}
<1>1. /\ events \in Seq(Signals) /\ mirFocus \in Surfaces \cup {NoSurface} /\ NoSurface \notin Surfaces
      /\ mirLife \in [Surfaces -> {"none", "live", "dead", "gone"}]
      /\ \A k \in FocusKinds : k \in K /\ k \in M
      /\ "added" \notin K /\ "added" \notin M /\ "hidden" \notin M
      /\ Moves => ~Allowed("hide")
    <2>1. \A k \in FocusKinds : k \in K /\ k \in M
        BY DEF FocusKinds, EventKinds
    <2>2. environment \in Environments
        BY DEF TypeOK
    <2>3. Moves => ~Allowed("hide")
        BY <2>2 DEF Moves, Allowed, HidesOrMoves
    <2> QED
        BY <2>1, <2>3, SurfacesAssumption DEF TypeOK
<1>2. ASSUME NEW s \in Surfaces
      PROVE  \A kind \in EventKinds \ Brackets : Event(kind, s) \in Signals /\ Event(kind, s).kind = kind
    BY EventType DEF Event
<1>3. \A kind \in {"hidden", "shown", "destroyed", "died", "added", "away"} : kind \in EventKinds \ Brackets
    BY DEF EventKinds, Brackets
<1>4. "destroyed" \in M /\ "hidden" \in K /\ "shown" \in K
    BY DEF EventKinds
<1>5. \A s \in Surfaces : Held(s) \in BOOLEAN /\ OnceOnly(s) \in BOOLEAN
    BY DEF Held, Wraps, OnceOnly, IsTopLevel, Moves, Allowed
<1> SUFFICES G
    OBVIOUS
<1> HIDE DEF K, M, Unseen
<1>6. \A s \in Surfaces : Told(events, mirLife[s], Held(s), OnceOnly(s), s)
    BY DEF Announced
\* A block of signals, none of which announces a surface.
<1>7. ASSUME NEW B, "added" \notin B, "hidden" \notin B \/ ~Moves, Extends(events, events', B),
             UNCHANGED <<mirLife, qtHidden>>
      PROVE  G
    <2>1. \A s \in Surfaces : Told(events', mirLife[s], Held(s), OnceOnly(s), s)
        BY <1>1, <1>5, <1>6, <1>7, ToldExtends
    <2>2. CASE ~Moves
        BY <1>7, <2>1, <2>2 DEF Announced, Unseen
    <2>3. CASE Moves
        <3>1. \A k \in {"hidden"} : k \notin B
            BY <1>7, <2>3
        <3>2. NoneOf(events', {"hidden"})
            BY <1>1, <1>7, <2>3, <3>1, NoneOfMore
        <3> QED
            BY <1>7, <2>1, <2>3, <3>2 DEF Announced, Unseen
    <2> QED
        BY <2>2, <2>3
\* One signal.
<1>8. ASSUME NEW e \in Signals, e.kind # "hidden", events' = Append(events, e), Moves => qtHidden' = {}
      PROVE  Unseen
    <2>1. events' = events \o <<e>>
        BY <1>1, <1>8
    <2>2. Extends(events, events', {e.kind})
        BY <1>1, <2>1, ExtendsByOne
    <2>3. \A k \in {"hidden"} : k \notin {e.kind}
        BY <1>8
    <2>4. NoneOf(events, {"hidden"}) => NoneOf(events', {"hidden"})
        BY <1>1, <2>2, <2>3, NoneOfMore
    <2> QED
        BY <1>8, <2>4 DEF Unseen
<1>9. ASSUME NEW e \in Signals, events' = Append(events, e),
             NEW s \in Surfaces, ~Is(e, {"added"}, s),
             mirLife'[s] = "none" => mirLife[s] = "none",
             mirLife'[s] = "gone" => mirLife[s] = "gone"
      PROVE  Told(events', mirLife'[s], Held(s), OnceOnly(s), s)
    <2>1. events' = events \o <<e>>
        BY <1>1, <1>9
    <2> DEFINE life == mirLife[s]
               life2 == mirLife'[s]
               held == Held(s)
               once == OnceOnly(s)
    <2>2. held \in BOOLEAN /\ once \in BOOLEAN /\ Told(events, life, held, once, s)
        BY <1>5, <1>6
    <2>3. (life2 = "none" => life = "none") /\ (life2 = "gone" => life = "gone")
        BY <1>9
    <2> HIDE DEF life, life2, held, once
    <2>4. Told(events \o <<e>>, life2, held, once, s)
        BY <1>1, <1>9, <2>2, <2>3, ToldMore
    <2> QED
        BY <2>1, <2>4 DEF life, life2, held, once
<1>10. ASSUME NEW e \in Signals, events' = Append(events, e),
              NEW s \in Surfaces, mirLife'[s] = "live",
              OnceOnly(s) => ~Held(s) /\ ~Says(events, {"added"}, s)
       PROVE  Told(events', mirLife'[s], Held(s), OnceOnly(s), s)
    <2>1. events' = events \o <<e>>
        BY <1>1, <1>10
    <2> DEFINE life == mirLife[s]
               held == Held(s)
               once == OnceOnly(s)
    <2>2. held \in BOOLEAN /\ once \in BOOLEAN /\ Told(events, life, held, once, s)
        BY <1>5, <1>6
    <2>3. once => ~held /\ ~Says(events, {"added"}, s)
        BY <1>10
    <2> HIDE DEF life, held, once
    <2>4. Told(events \o <<e>>, "live", held, once, s)
        BY <1>1, <1>10, <2>2, <2>3, ToldMore
    <2> QED
        BY <1>10, <2>1, <2>4 DEF life, held, once
<1>11. ASSUME NEW s \in Surfaces, NEW hide \in BOOLEAN, NEW here \in BOOLEAN, CreateSurface(s, hide, here)
       PROVE  G
    <2> DEFINE kind == IF here THEN "added" ELSE "away"
               e == Event(kind, s)
    <2>1. /\ mirLife[s] = "none" \/ (mirLife[s] = "gone" /\ ~Pending(s))
          /\ mirLife' = [mirLife EXCEPT ![s] = "live"]
          /\ events' = Append(events, e)
          /\ hide => Allowed("hide")
          /\ qtHidden' = IF hide THEN qtHidden \cup {s} ELSE qtHidden \ {s}
        BY <1>11, Zenon DEF CreateSurface
    <2>2. e \in Signals /\ e.kind # "hidden"
        BY <1>2, <1>3 DEF Event
    <2>3. ~Held(s) /\ ~Says(events, {"added"}, s)
        <3>1. LifeOf(events, mirLife[s], s \in liveSurfaces, s)
            BY DEF Living, Lives
        <3>2. \A L : Says(events, L, s) => Mentions(events, s) /\ Pending(s)
            <4>1. DOMAIN events = 1 .. Len(events) /\ \A i \in 1 .. Len(events) : events[i] \in Signals
                BY <1>1
            <4>2. \A i \in 1 .. Len(events) : \A L : Is(events[i], L, s) => s \in ToSet(events[i].of)
                BY <4>1, IsMentions
            <4> QED
                BY <4>1, <4>2 DEF Says, Mentions, Pending
        <3> QED
            BY <1>6, <2>1, <3>1, <3>2 DEF Told, LifeOf
    <2>4. mirLife'[s] = "live" /\ \A t \in Surfaces : t # s => mirLife'[t] = mirLife[t]
        BY <1>1, <2>1
    <2>5. \A t : t # s => ~Is(e, {"added"}, t)
        BY AboutOne
    <2> HIDE DEF e
    <2>6. ASSUME NEW t \in Surfaces
          PROVE  Told(events', mirLife'[t], Held(t), OnceOnly(t), t)
        <3>1. CASE t = s
            BY <1>10, <2>1, <2>2, <2>3, <2>4, <3>1
        <3>2. CASE t # s
            BY <1>9, <2>1, <2>2, <2>4, <2>5, <3>2
        <3> QED
            BY <3>1, <3>2
    <2>7. Moves => qtHidden' = {}
        BY <1>1, <2>1
    <2>8. Unseen
        BY <1>8, <2>1, <2>2, <2>7
    <2> QED
        BY <2>6, <2>8 DEF Announced
<1>12. ASSUME NEW s \in Surfaces, Refocus(s)
       PROVE  G
    <2>1. Extends(events, events', FocusKinds)
        BY <1>1, <1>12, MirActivateExtends DEF Refocus
    <2>2. UNCHANGED <<mirLife, qtHidden>>
        BY <1>12 DEF Refocus, objectVars
    <2>3. "added" \notin FocusKinds /\ "hidden" \notin FocusKinds
        BY DEF FocusKinds
    <2> QED
        BY <1>7, <2>1, <2>2, <2>3
<1>13. ASSUME NEW s \in Surfaces, ShowSurface(s)
       PROVE  G
    <2>1. events' = MovesFocus(events, OptionalSignal(TRUE, Event("shown", s)), NoSurface, NoSurface)
        BY <1>13, MirSteps
    <2>2. Extends(events, events', M)
        <3>1. Event("shown", s) \in Signals /\ Event("shown", s).kind \in M
            BY <1>2, <1>3 DEF M, EventKinds
        <3> QED
            BY <1>1, <2>1, <3>1, MovesFocusExtends
    <2>3. UNCHANGED <<mirLife, qtHidden>>
        BY <1>13 DEF ShowSurface, objectVars
    <2> QED
        BY <1>1, <1>7, <2>2, <2>3
<1>14. ASSUME NEW s \in Surfaces, Die(s)
       PROVE  G
    <2> DEFINE e == Event("died", s)
    <2>1. /\ mirLife[s] = "live" /\ mirLife' = [mirLife EXCEPT ![s] = "dead"]
          /\ events' = Append(events, e) /\ qtHidden' = qtHidden
        BY <1>14 DEF Die, Live, objectVars
    <2>2. e \in Signals /\ e.kind # "hidden"
        BY <1>2, <1>3 DEF Event
    <2>3. \A t : ~Is(e, {"added"}, t)
        <3>1. ~Is(e, {"added"}, s) /\ \A t : t # s => ~Is(e, {"added"}, t)
            BY AboutOne
        <3> QED
            BY <3>1
    <2>4. ASSUME NEW t \in Surfaces
          PROVE  (mirLife'[t] = "none" => mirLife[t] = "none") /\ (mirLife'[t] = "gone" => mirLife[t] = "gone")
        BY <1>1, <2>1
    <2> HIDE DEF e
    <2>5. \A t \in Surfaces : Told(events', mirLife'[t], Held(t), OnceOnly(t), t)
        BY <1>9, <2>1, <2>2, <2>3, <2>4
    <2>6. Unseen
        BY <1>8, <2>1, <2>2
    <2> QED
        BY <2>5, <2>6 DEF Announced
<1>15. ASSUME NEW s \in Surfaces, NEW next \in Surfaces \cup {NoSurface}, HideSurface(s, next)
       PROVE  G
    <2> DEFINE old == IF mirFocus = s THEN s ELSE NoSurface
    <2>1. events' = MovesFocus(events, OptionalSignal(TRUE, Event("hidden", s)), old, next)
        BY <1>15, MirSteps
    <2>2. old \in Surfaces \cup {NoSurface}
        OBVIOUS
    <2> HIDE DEF old
    <2>3. Extends(events, events', K)
        <3>1. Event("hidden", s) \in Signals /\ Event("hidden", s).kind \in K
            BY <1>2, <1>3, <1>4
        <3> QED
            BY <1>1, <2>1, <2>2, <3>1, MovesFocusExtends
    <2>4. UNCHANGED <<mirLife, qtHidden>> /\ Allowed("hide")
        BY <1>15 DEF HideSurface, objectVars
    <2> QED
        BY <1>1, <1>7, <2>3, <2>4
<1>16. ASSUME NEW s \in Surfaces, NEW here \in BOOLEAN, MoveSurface(s, here)
       PROVE  G
    <2> DEFINE kind == IF here THEN "added" ELSE "away"
               e == Event(kind, s)
    <2>1. /\ mirLife[s] = "live" /\ UNCHANGED <<mirLife, qtHidden>> /\ events' = Append(events, e)
          /\ ~OnceOnly(s)
        BY <1>16 DEF MoveSurface, Live, objectVars, OnceOnly, Moves
    <2>2. e \in Signals /\ e.kind # "hidden"
        BY <1>2, <1>3 DEF Event
    <2>3. \A t : t # s => ~Is(e, {"added"}, t)
        BY AboutOne
    <2> HIDE DEF e
    <2>4. ASSUME NEW t \in Surfaces
          PROVE  Told(events', mirLife'[t], Held(t), OnceOnly(t), t)
        <3>1. CASE t = s
            BY <1>10, <2>1, <2>2, <3>1
        <3>2. CASE t # s
            BY <1>9, <2>1, <2>2, <2>3, <3>2
        <3> QED
            BY <3>1, <3>2
    <2>5. Unseen
        BY <1>8, <2>1, <2>2
    <2> QED
        BY <2>4, <2>5 DEF Announced
<1>17. CASE MoveWorkspaceContent
    <2>1. UNCHANGED <<mirLife, qtHidden>>
        BY <1>17 DEF MoveWorkspaceContent, objectVars
    <2>2. PICK ss : events' = Append(events, [kind |-> "away", of |-> ss])
        BY <1>17 DEF MoveWorkspaceContent
    <2> DEFINE e == [kind |-> "away", of |-> ss]
    <2>3. events' = events \o <<e>> /\ Len(events') = Len(events) + 1 /\ events'[Len(events')] = e
        BY <1>1, <2>2
    <2>4. e \in Signals
        <3>1. events' \in Seq(Signals)
            BY MirKeepsType DEF TypeOK
        <3>2. Len(events') \in 1 .. Len(events')
            BY <1>1, <2>3
        <3> QED
            BY <2>3, <3>1, <3>2
    <2>5. e.kind # "hidden" /\ \A t : ~Is(e, {"added"}, t)
        BY DEF Is
    <2> HIDE DEF e
    <2>6. events' = Append(events, e)
        BY <2>2 DEF e
    <2>7. \A t \in Surfaces : Told(events', mirLife'[t], Held(t), OnceOnly(t), t)
        BY <1>9, <2>1, <2>4, <2>5, <2>6
    <2>8. Unseen
        BY <1>8, <2>1, <2>4, <2>5, <2>6
    <2> QED
        BY <2>7, <2>8 DEF Announced
<1>18. ASSUME NEW s \in Surfaces, NEW next \in Surfaces \cup {NoSurface}, Destroy(s, next)
       PROVE  G
    <2> DEFINE q == IF mirFocus = s
                    THEN MovesFocus(events, OptionalSignal(FALSE, Event("shown", s)), NoSurface, next)
                    ELSE events
               e == Event("destroyed", s)
    <2>1. events' = q \o <<e>>
        BY <1>18, MirSteps
    <2>2. Extends(events, q, M)
        <3>1. Event("shown", s).kind \in M
            BY DEF M, EventKinds, Event
        <3>2. Extends(events, MovesFocus(events, OptionalSignal(FALSE, Event("shown", s)), NoSurface, next), M)
            BY <1>1, <3>1, MovesFocusExtends
        <3> QED
            BY <1>1, <3>2, ExtendsItself
    <2> HIDE DEF q
    <2>3. q \in Seq(Signals)
        BY <1>1, <2>2, ExtendsItself, ExtendsTwice
    <2>4. e \in Signals /\ e.kind \in M
        BY <1>2, <1>3, <1>4
    <2>5. Extends(q, events', M)
        BY <2>1, <2>3, <2>4, ExtendsByOne
    <2>6. Extends(events, events', M)
        BY <1>1, <2>2, <2>5, ExtendsTwice
    <2>7. mirLife' = [mirLife EXCEPT ![s] = "gone"] /\ qtHidden' = qtHidden
        BY <1>18 DEF Destroy, objectVars
    <2>8. Unseen
        <3>1. \A k \in {"hidden"} : k \notin M
            BY <1>1
        <3>2. NoneOf(events, {"hidden"}) => NoneOf(events', {"hidden"})
            BY <1>1, <2>6, <3>1, NoneOfMore
        <3> QED
            BY <2>7, <3>2 DEF Unseen
    <2>9. Is(e, {"destroyed"}, s) /\ \A t : ~Is(e, {"added"}, t)
        <3>1. /\ Is(e, {"destroyed"}, s) /\ ~Is(e, {"added"}, s)
              /\ \A t : t # s => ~Is(e, {"added"}, t)
            BY AboutOne
        <3> QED
            BY <3>1
    <2> HIDE DEF e
    <2>10. ASSUME NEW t \in Surfaces
           PROVE  Told(events', mirLife'[t], Held(t), OnceOnly(t), t)
        <3> DEFINE life == mirLife[t]
                   life2 == mirLife'[t]
                   held == Held(t)
                   once == OnceOnly(t)
        <3>1. held \in BOOLEAN /\ once \in BOOLEAN /\ Told(events, life, held, once, t)
            BY <1>5, <1>6
        <3>2. /\ life2 = "none" => life = "none"
              /\ life2 = "gone" => life = "gone" \/ Is(e, {"destroyed"}, t)
            BY <1>1, <2>7, <2>9
        <3> HIDE DEF life, life2, held, once
        <3>3. Told(q, life, held, once, t)
            BY <1>1, <2>2, <3>1, ToldExtends
        <3>4. Told(q \o <<e>>, life2, held, once, t)
            BY <2>3, <2>4, <2>9, <3>1, <3>2, <3>3, ToldMore
        <3> QED
            BY <2>1, <3>4 DEF life, life2, held, once
    <2> QED
        BY <2>8, <2>10 DEF Announced
<1> QED
    BY <1>11, <1>12, <1>13, <1>14, <1>15, <1>16, <1>17, <1>18 DEF MirNext

\* Calls of the shell and of the ApplicationManager.
LEMMA ShellPlaces ==
    ASSUME Sound, Places, Unhidden, ShellNext \/ ApplicationNext
    PROVE  /\ Places' /\ Unhidden' /\ \A t \in Surfaces : Held(t)' => Held(t)
           /\ UNCHANGED <<mirLife, environment, qtHidden>>
<1>1. TypeOK /\ rows \in Seq(Rows) /\ surfaceOf \in SurfaceMaps /\ NoSurface \notin Surfaces
    BY SoundWindows, SurfacesAssumption DEF Sound
<1>2. UNCHANGED <<mirLife, environment, qtHidden, hiddenWindows, deferred>>
    BY Zenon
    DEF ShellNext, SetRootFocus, RaiseId, ActivateWindow, CloseWindow, PendingActivation,
        CloseAllWindows, unfocusable, objectVars, ApplicationNext, AddApplication, RemoveApplication,
        DeleteRows
<1>3. Unhidden'
    BY <1>2 DEF Unhidden, Moves, Allowed
<1> DEFINE G == Places' /\ \A t \in Surfaces : Held(t)' => Held(t)
<1>4. ASSUME UNCHANGED <<windows, surfaceOf, allSurfaces>>, \A v : InRows(v, rows) => InRows(v, rows')
      PROVE  G
    <2>1. \A w \in Windows : surfaceOf'[w] # NoSurface => w \in windows'
        BY <1>4 DEF Places
    <2> QED
        BY <1>2, <1>4, <2>1, WindowsLetGo
<1>5. CASE ShellNext
    <2>1. UNCHANGED <<windows, surfaceOf, allSurfaces>>
        BY <1>5, Zenon
        DEF ShellNext, SetRootFocus, RaiseId, ActivateWindow, CloseWindow, PendingActivation,
            CloseAllWindows, unfocusable
    <2>2. \A v : InRows(v, rows) => InRows(v, rows')
        BY <1>1, <1>5, RowsKept
    <2> QED
        BY <1>2, <1>3, <1>4, <2>1, <2>2
<1>6. ASSUME NEW a \in Apps, RemoveApplication(a)
      PROVE  G
    <2> DEFINE R == {w \in Windows : InRows(w, rows) /\ entryApp[w] = a}
    <2>1. DeleteRows(R)
        BY <1>6 DEF RemoveApplication
    <2>2. R \subseteq Windows
        OBVIOUS
    <2> HIDE DEF R
    <2> QED
        BY <1>2, <2>1, <2>2, DeleteRowsPlaces
<1>7. ASSUME NEW a \in Apps, NEW active \in BOOLEAN, AddApplication(a, active)
      PROVE  G
    <2>1. CASE UNCHANGED <<windows, surfaceOf, rows>>
        <3>1. allSurfaces' = allSurfaces
            BY <1>7 DEF AddApplication
        <3> QED
            BY <1>4, <2>1, <3>1
    <2>2. CASE /\ NewWindow(NoSurface)
               /\ Activate(nextId, <<nextId>> \o rows, surfaceOf, hasFocus, focus, events)
        <3>1. allSurfaces' = allSurfaces
            BY <1>7 DEF AddApplication
        <3>2. /\ windows' = windows \cup {nextId}
              /\ surfaceOf' = [surfaceOf EXCEPT ![nextId] = NoSurface]
              /\ nextId \in Windows /\ nextId \in Rows
            BY <1>1, <2>2, NewWindowType DEF NewWindow
        <3>3. \A w \in Windows : surfaceOf'[w] \in {surfaceOf[w], NoSurface}
            BY <1>1, <3>2 DEF SurfaceMaps
        <3>4. \A w \in Windows : surfaceOf'[w] # NoSurface => w \in windows'
            BY <3>2, <3>3 DEF Places
        <3>5. \A v : InRows(v, rows) => InRows(v, rows')
            <4>1. <<nextId>> \o rows \in Seq(Rows)
                BY <1>1, <3>2
            <4>2. \A v : InRows(v, rows') <=> InRows(v, <<nextId>> \o rows)
                BY <2>2, <4>1, RowsActivated
            <4> QED
                BY <1>1, <3>2, <4>2, RowsPrepended
        <3> QED
            BY <1>2, <3>1, <3>3, <3>4, <3>5, WindowsLetGo
    <2> QED
        BY <1>7, <2>1, <2>2 DEF AddApplication
<1> QED
    BY <1>2, <1>3, <1>5, <1>6, <1>7 DEF ApplicationNext

\* A signal is delivered.
LEMMA SignalsAnnounced ==
    ASSUME Sound, Living, Places, Unhidden, Announced(events, mirLife),
           Moves => NoneOf(events, {"hidden"}), SignalNext
    PROVE  /\ Places' /\ Unhidden' /\ Announced(events, mirLife)'
           /\ (Moves => NoneOf(events, {"hidden"}))'
<1>1. /\ events \in Seq(Signals) /\ events # <<>> /\ Tail(events) \in Seq(Signals)
      /\ Calls(Tail(events)) /\ TypeOK
    BY SignalsCall DEF Sound
<1>2. /\ Places' /\ Unhidden'
      /\ \A t \in Surfaces : /\ Held(t)' => Held(t) \/ Is(Head(events), {"added"}, t)
                             /\ Is(Head(events), {"destroyed"}, t) => ~Held(t)'
    BY SignalsPlace
<1>3. Extends(Tail(events), events', FocusKinds) /\ "added" \notin FocusKinds /\ "hidden" \notin FocusKinds
    BY <1>1, CallsExtend DEF FocusKinds
<1>4. mirLife' = mirLife
    BY <1>1, DeathsDelivered
<1> DEFINE q == Tail(events)
<1>5. q \in Seq(Signals) /\ Extends(q, events', FocusKinds)
    BY <1>1, <1>3
<1>6. environment' = environment
    BY Zenon
    DEF SignalNext, OnModificationsStarted, OnModificationsEnded, FocusLost, FocusGained,
        UpdateFocused, OnSurfacesRaised, SkipKnownSurface, RemoveSurfaces, DeferHiddenSurface,
        AddTopLevelSurface, WrapSurface, SetInputMethodWindow, SurfaceHidden, modelVars,
        SurfaceShown, SurfaceDied, InputMethodDied, SurfaceDestroyed
<1>7. ASSUME NEW s \in Surfaces
      PROVE  Told(events', mirLife[s], Held(s)', OnceOnly(s)', s)
    <2> DEFINE life == mirLife[s]
               lives == s \in liveSurfaces
               held == Held(s)
               held2 == Held(s)'
               once == OnceOnly(s)
    <2>1. held \in BOOLEAN /\ held2 \in BOOLEAN /\ once \in BOOLEAN /\ OnceOnly(s)' = once
        BY <1>6 DEF Held, Wraps, OnceOnly, IsTopLevel, Moves, Allowed
    <2>2. /\ Told(events, life, held, once, s) /\ LifeOf(events, life, lives, s)
          /\ held2 => held \/ Is(Head(events), {"added"}, s)
          /\ Is(Head(events), {"destroyed"}, s) => ~held2
        BY <1>2 DEF Announced, Living, Lives
    <2> HIDE DEF life, lives, held, held2, once
    <2>3. Told(Tail(events), life, held2, once, s)
        BY <1>1, <2>1, <2>2, ToldLess
    <2>4. Told(events', life, held2, once, s)
        <3>1. Told(q, life, held2, once, s)
            BY <2>3
        <3> HIDE DEF q
        <3> QED
            BY <1>3, <1>5, <2>1, <3>1, ToldExtends
    <2> QED
        BY <2>1, <2>4 DEF life, held2
<1>8. Announced(events, mirLife)'
    BY <1>4, <1>7 DEF Announced
<1>9. (Moves => NoneOf(events, {"hidden"}))'
    <2>1. Moves' <=> Moves
        BY <1>6 DEF Moves, Allowed
    <2>2. \A k \in {"hidden"} : k \notin FocusKinds
        BY <1>3
    <2>3. NoneOf(events, {"hidden"}) => NoneOf(q, {"hidden"})
        BY <1>1, NoneOfTail
    <2> HIDE DEF q
    <2>4. NoneOf(q, {"hidden"}) => NoneOf(events', {"hidden"})
        BY <1>5, <2>2, NoneOfMore
    <2> QED
        BY <2>1, <2>3, <2>4
<1> QED
    BY <1>2, <1>8, <1>9

\* The places, and what is on its way to them.
Placed ==
    /\ Places /\ Unhidden /\ Announced(events, mirLife)
    /\ Moves => NoneOf(events, {"hidden"})

(* Where surfaces do not both hide and move, they stay in their places.    *)
LEMMA PlacedAlways ==
    ASSUME HidesOrMoves
    PROVE  Spec => []Placed
<1> USE DEF Placed
<1>1. Init => Placed
    <2> SUFFICES ASSUME Init PROVE Placed
        OBVIOUS
    <2>1. /\ events = <<>> /\ mirLife = [s \in Surfaces |-> "none"] /\ deferred = {}
          /\ qtHidden = {} /\ hiddenWindows = {} /\ surfaceOf = [w \in Windows |-> NoSurface]
        BY DEF Init
    <2>2. Places /\ Unhidden
        BY <2>1 DEF Places, Unhidden
    <2>3. \A s \in Surfaces : ~Held(s) /\ mirLife[s] = "none"
        BY <2>1, SurfacesAssumption DEF Held, Wraps
    <2>4. Announced(events, mirLife) /\ NoneOf(events, {"hidden"})
        BY <2>1, <2>3 DEF Announced, Told, Says, NoneOf
    <2> QED
        BY <2>2, <2>4
<1>2. Placed /\ Sound /\ Living /\ [Next]_vars => Placed'
    <2> SUFFICES ASSUME Placed, Sound, Living, [Next]_vars
                 PROVE  Placed'
        OBVIOUS
    <2>1. TypeOK /\ events \in Seq(Signals)
        BY DEF Sound, TypeOK
    <2>2. ASSUME Places', Unhidden', UNCHANGED <<mirLife, environment>>,
                 \A s \in Surfaces : Held(s)' => Held(s),
                 Extends(events, events', FocusKinds)
          PROVE  Placed'
        <3>1. "added" \notin FocusKinds /\ \A k \in {"hidden"} : k \notin FocusKinds
            BY DEF FocusKinds
        <3>2. ASSUME NEW s \in Surfaces
              PROVE  Told(events', mirLife[s], Held(s)', OnceOnly(s)', s)
            <4> DEFINE life == mirLife[s]
                       held == Held(s)
                       held2 == Held(s)'
                       once == OnceOnly(s)
            <4>1. held \in BOOLEAN /\ once \in BOOLEAN /\ OnceOnly(s)' = once /\ (held2 => held)
                BY <2>2 DEF Held, Wraps, OnceOnly, IsTopLevel, Moves, Allowed
            <4>2. Told(events, life, held, once, s)
                BY DEF Announced
            <4> HIDE DEF life, held, held2, once
            <4>3. Told(events', life, held, once, s)
                BY <2>1, <2>2, <3>1, <4>1, <4>2, ToldExtends
            <4>4. Told(events', life, held2, once, s)
                BY <4>1, <4>3 DEF Told
            <4> QED
                BY <4>1, <4>4 DEF life, held2
        <3>3. Announced(events, mirLife)'
            BY <2>2, <3>2 DEF Announced
        <3>4. (Moves => NoneOf(events, {"hidden"}))'
            <4>1. Moves' <=> Moves
                BY <2>2 DEF Moves, Allowed
            <4> QED
                BY <2>1, <2>2, <3>1, <4>1, NoneOfMore
        <3> QED
            BY <2>2, <3>3, <3>4
    <2>3. CASE ShellNext \/ ApplicationNext
        <3>1. Extends(events, events', FocusKinds)
            BY <2>1, <2>3, ShellCalls, ApplicationsCall, CallsExtend
        <3> QED
            BY <2>2, <2>3, <3>1, ShellPlaces
    <2>4. CASE SignalNext
        BY <2>4, SignalsAnnounced
    <2>5. CASE MirNext
        <3>1. UNCHANGED <<environment, windows, surfaceOf, allSurfaces, deferred, rows, hiddenWindows>>
            BY <2>5, MirLeavesModel DEF modelVars
        <3>2. Announced(events', mirLife') /\ (Moves => NoneOf(events', {"hidden"}) /\ qtHidden' = {})
            BY <2>1, <2>5, MirAnnounces DEF Unhidden
        <3>3. Moves' <=> Moves
            BY <3>1 DEF Moves, Allowed
        <3>4. \A s : (Held(s)' <=> Held(s)) /\ (OnceOnly(s)' <=> OnceOnly(s))
            BY <3>1, <3>3 DEF Held, Wraps, OnceOnly
        <3>5. Announced(events, mirLife)'
            BY <3>2, <3>4 DEF Announced, Told
        <3>6. Places' /\ Unhidden'
            BY <3>1, <3>2, <3>3 DEF Places, Unhidden
        <3> QED
            BY <3>2, <3>3, <3>5, <3>6
    <2>6. CASE \E w \in Windows : DeferredDelete(w)
        <3>1. PICK w \in Windows : DeferredDelete(w)
            BY <2>6
        <3>2. /\ surfaceOf[w] = NoSurface /\ windows' = windows \ {w}
              /\ hiddenWindows' = hiddenWindows \ {w}
              /\ UNCHANGED <<rows, surfaceOf, allSurfaces, deferred, mirLife, events, environment, qtHidden>>
            BY <3>1 DEF DeferredDelete, mirVars, objectVars, Sound
        <3>3. \A v \in Windows : surfaceOf'[v] # NoSurface => v \in windows'
            BY <3>2 DEF Places
        <3>4. Places' /\ \A t \in Surfaces : Held(t)' => Held(t)
            BY <3>2, <3>3, WindowsLetGo
        <3>5. Unhidden'
            BY <3>2 DEF Unhidden, Moves, Allowed
        <3>6. Extends(events, events', FocusKinds)
            BY <2>1, <3>2, ExtendsItself
        <3> QED
            BY <2>2, <3>2, <3>4, <3>5, <3>6
    <2>7. CASE UNCHANGED vars
        <3>1. UNCHANGED <<rows, windows, surfaceOf, allSurfaces, deferred, mirLife, events, environment,
                          qtHidden, hiddenWindows>>
            BY <2>7 DEF vars, modelVars, mirVars, objectVars
        <3>2. Places' /\ Unhidden' /\ \A t \in Surfaces : Held(t)' => Held(t)
            BY <3>1 DEF Places, Unhidden, Held, Wraps, Moves, Allowed
        <3>3. Extends(events, events', FocusKinds)
            BY <2>1, <3>1, ExtendsItself
        <3> QED
            BY <2>2, <3>1, <3>2, <3>3
    <2> QED
        BY <2>3, <2>4, <2>5, <2>6, <2>7 DEF Next
<1> HIDE DEF Placed
<1>3. Spec => []Sound
    BY SoundAlways
<1>4. Spec => []Living
    BY LivesAlways
<1> QED
    BY <1>1, <1>2, <1>3, <1>4, PTL DEF Spec

(* No surface has two windows at a time, if surfaces do not both hide and  *)
(* move: each is announced once while it has a window, or is skipped.      *)
THEOREM OneWindowForEach ==
    ASSUME HidesOrMoves
    PROVE  Spec => []OneWindowPerSurface
<1>1. Placed /\ Sound => OneWindowPerSurface
    BY SoundWindows DEF Placed, Places, OneWindowPerSurface
<1>2. Spec => []Placed
    BY PlacedAlways
<1>3. Spec => []Sound
    BY SoundAlways
<1> QED
    BY <1>1, <1>2, <1>3, PTL
-----------------------------------------------------------------------------
(* AtMostOneEmptyRow.  A row without surface fills with the next surface   *)
(* of its application.  A row whose surface has died is left without one   *)
(* only if it was the only row of its application when the surface died.   *)

\* A row that has no surface, or will lose it and stay.
Waiting(w) == surfaceOf[w] = NoSurface \/ (surfaceOf[w] \notin liveSurfaces /\ w \notin removeOnce)

Waits ==
    /\ \A v, w \in Windows : /\ InRows(v, rows) /\ InRows(w, rows) /\ entryApp[v] = entryApp[w]
                             /\ Waiting(v) /\ Waiting(w)
                             => v = w
    /\ \A w \in Windows : InRows(w, rows) => /\ entryApp[w] \in Apps /\ appState[entryApp[w]] # "new"
                                             /\ surfaceOf[w] \notin InputMethods
    /\ \A s \in deferred : IsTopLevel(s)

\* A surface that Mir has had is of an application that has started.
Owned == \A s \in Surfaces : mirLife[s] # "none" /\ AppOf[s] # NoApp => appState[AppOf[s]] # "new"

\* What most steps do: the rows wait no more than before, and a new row does not wait.
StillThere(w) ==
    InRows(w, rows) /\ entryApp'[w] = entryApp[w] /\ (Waiting(w)' => Waiting(w))
    /\ surfaceOf'[w] \in {surfaceOf[w], NoSurface}
Occupied(w) ==
    ~Waiting(w)' /\ entryApp'[w] \in Apps /\ appState[entryApp'[w]] # "new" /\ surfaceOf'[w] \notin InputMethods

(* The rows wait no more than before, and a new row does not wait.         *)
LEMMA WaitsNoMore ==
    ASSUME Waits, \A w \in Windows : InRows(w, rows') => StillThere(w) \/ Occupied(w),
           \A a \in Apps : appState[a] # "new" => appState'[a] # "new",
           \A s \in deferred' : IsTopLevel(s)
    PROVE  Waits'
<1>1. NoSurface \notin InputMethods
    BY SurfacesAssumption
<1>2. ASSUME NEW w \in Windows, InRows(w, rows'), Waiting(w)'
      PROVE  InRows(w, rows) /\ entryApp'[w] = entryApp[w] /\ Waiting(w)
    BY <1>2 DEF StillThere, Occupied
<1>3. \A w \in Windows : InRows(w, rows') => /\ entryApp'[w] \in Apps /\ appState[entryApp'[w]] # "new"
                                             /\ surfaceOf'[w] \notin InputMethods
    BY <1>1 DEF StillThere, Occupied, Waits
<1>4. \A v, w \in Windows : /\ InRows(v, rows') /\ InRows(w, rows') /\ entryApp'[v] = entryApp'[w]
                            /\ Waiting(v)' /\ Waiting(w)'
                            => v = w
    BY <1>2 DEF Waits
<1> QED
    BY <1>3, <1>4 DEF Waits, IsTopLevel

(* Rows that go leave the others as they are.                              *)
LEMMA DeleteRowsWait ==
    ASSUME Sound, NEW R, DeleteRows(R), UNCHANGED liveSurfaces
    PROVE  \A w \in Windows : InRows(w, rows') => StillThere(w)
<1>1. /\ rows' = Without(rows, R)
      /\ surfaceOf' = [w \in Windows |-> IF w \in R THEN NoSurface ELSE surfaceOf[w]]
      /\ UNCHANGED <<entryApp, removeOnce>>
    BY DEF DeleteRows
<1>2. \A w : InRows(w, rows') <=> InRows(w, rows) /\ w \notin R
    BY <1>1, SoundWindows, RowsWithout
<1> QED
    BY <1>1, <1>2 DEF StillThere, Waiting

(* What is signalled of a surface that arrives: it lives, and so did its   *)
(* application.                                                            *)
LEMMA ArrivalLives ==
    ASSUME TypeOK, Living, Owned, NEW s \in Surfaces, IsTopLevel(s), events # <<>>,
           Is(Head(events), Arrivals, s)
    PROVE  s \in liveSurfaces /\ AppOf[s] \in Apps /\ appState[AppOf[s]] # "new"
<1>1. events \in Seq(Signals) /\ Head(events) \in Signals
    BY DEF TypeOK
<1>2. Says(events, Arrivals, s)
    BY <1>1, SaysLess
<1>3. Mentions(events, s)
    <2>1. s \in ToSet(Head(events).of) /\ Head(events) = events[1] /\ 1 \in 1 .. Len(events)
        BY <1>1, IsMentions
    <2> QED
        BY <2>1 DEF Mentions
<1>4. LifeOf(events, mirLife[s], s \in liveSurfaces, s)
    BY DEF Living, Lives
<1>5. s \in liveSurfaces /\ mirLife[s] # "none"
    BY <1>2, <1>3, <1>4 DEF LifeOf
<1>6. AppOf[s] \in Apps /\ AppOf[s] # NoApp
    BY SurfacesAssumption DEF IsTopLevel
<1> QED
    BY <1>5, <1>6 DEF Owned

(* The surface that is prepended lives in its row.                         *)
LEMMA PrependWaits ==
    ASSUME Sound, Waits, NEW s \in Surfaces, IsTopLevel(s), s \in liveSurfaces, AppOf[s] \in Apps,
           appState[AppOf[s]] # "new", NEW q, PrependSurface(s, rows, q), UNCHANGED liveSurfaces
    PROVE  \A w \in Windows : InRows(w, rows') => StillThere(w) \/ Occupied(w)
<1>1. /\ s # NoSurface /\ s \notin InputMethods /\ surfaceOf \in SurfaceMaps
      /\ entryApp \in [Windows -> Apps \cup {NoApp}] /\ rows \in Seq(Rows) /\ TypeOK
      /\ \A k \in 1 .. Len(rows) : rows[k] \in Windows
    BY SoundWindows, SurfacesAssumption DEF Sound, TypeOK, IsTopLevel
<1> DEFINE i == FillRow(s)
<1>2. i \in 0 .. Len(rows)
    BY <1>1, FillRowType
<1>3. CASE i # 0
    <2>w. PICK w : w = rows[i]
        OBVIOUS
    <2>1. /\ surfaceOf' = [surfaceOf EXCEPT ![w] = s] /\ rows' = rows
          /\ UNCHANGED <<entryApp, removeOnce>>
        BY <1>3, <2>w DEF PrependSurface
    <2>2. w \in Windows /\ InRows(w, rows)
        BY <1>1, <1>2, <1>3, <2>w DEF InRows
    <2> HIDE DEF i
    <2>3. surfaceOf'[w] = s /\ \A v \in Windows : v # w => surfaceOf'[v] = surfaceOf[v]
        BY <1>1, <2>1, <2>2 DEF SurfaceMaps
    <2>4. Occupied(w)
        BY <1>1, <2>1, <2>2, <2>3 DEF Occupied, Waiting, Waits
    <2>5. \A v \in Windows : v # w /\ InRows(v, rows') => StillThere(v)
        BY <2>1, <2>3 DEF StillThere, Waiting
    <2> QED
        BY <2>4, <2>5
<1>4. CASE i = 0
    <2>n. PICK n : n = nextId
        OBVIOUS
    <2>1. /\ NewWindow(s) /\ rows' = <<nextId>> \o rows
          /\ entryApp' = [entryApp EXCEPT ![nextId] = AppOf[s]]
          /\ removeOnce' = removeOnce \ {nextId}
        BY <1>4, Zenon DEF PrependSurface
    <2>2. nextId \in Rows /\ nextId \in Windows /\ surfaceOf' = [surfaceOf EXCEPT ![nextId] = s]
        BY <1>1, <2>1, NewWindowType DEF NewWindow
    <2>3. \A v : InRows(v, rows') <=> v = nextId \/ InRows(v, rows)
        BY <1>1, <2>1, <2>2, RowsPrepended
    <2>4. /\ surfaceOf'[nextId] = s /\ entryApp'[nextId] = AppOf[s]
          /\ \A v \in Windows : v # nextId => surfaceOf'[v] = surfaceOf[v] /\ entryApp'[v] = entryApp[v]
        BY <1>1, <2>1, <2>2 DEF SurfaceMaps
    <2>5. Occupied(n)
        BY <1>1, <2>n, <2>4 DEF Occupied, Waiting
    <2>6. \A v \in Windows : v # n /\ InRows(v, rows') => StillThere(v)
        BY <2>n, <2>1, <2>3, <2>4 DEF StillThere, Waiting
    <2> QED
        BY <2>5, <2>6
<1> QED
    BY <1>3, <1>4

(* Where the surfaces and the applications of rows stay as they are.       *)
LEMMA RowsStayOccupied ==
    ASSUME \A w \in Windows : InRows(w, rows') => InRows(w, rows) /\ surfaceOf'[w] = surfaceOf[w],
           UNCHANGED <<entryApp, removeOnce>>, \A s \in liveSurfaces : s \in liveSurfaces'
    PROVE  \A w \in Windows : InRows(w, rows') => StillThere(w)
BY DEF StillThere, Waiting

(* The only row of an application.                                         *)
LEMMA OnlyRow ==
    ASSUME NEW S, rows \in Seq(S), NEW a, CountWindowsWithApplication(a) = 1,
           NEW v, NEW w, InRows(v, rows), InRows(w, rows), entryApp[v] = a, entryApp[w] = a
    PROVE  v = w
<1> DEFINE I == {i \in DOMAIN rows : entryApp[rows[i]] = a}
<1>1. IsFiniteSet(1 .. Len(rows)) /\ DOMAIN rows = 1 .. Len(rows)
    BY FS_Interval
<1>2. IsFiniteSet(I) /\ Cardinality(I) = 1
    BY <1>1, FS_Subset DEF CountWindowsWithApplication
<1>3. PICK i \in DOMAIN rows : rows[i] = v
    BY DEF InRows
<1>4. PICK j \in DOMAIN rows : rows[j] = w
    BY DEF InRows
<1>5. i \in I /\ j \in I
    BY <1>3, <1>4
<1> HIDE DEF I
<1>6. i = j
    <2>1. SUFFICES ASSUME i # j PROVE FALSE
        OBVIOUS
    <2>2. IsFiniteSet(I \ {i}) /\ Cardinality(I \ {i}) = 0
        BY <1>2, <1>5, FS_RemoveElement
    <2>3. I \ {i} = {}
        BY <2>2, FS_EmptySet
    <2> QED
        BY <1>5, <2>1, <2>3
<1> QED
    BY <1>3, <1>4, <1>6

(* A signal leaves no second row of an application waiting: a surface that *)
(* dies leaves its row to wait only if that is the only one.               *)
LEMMA SignalsWait ==
    ASSUME Sound, Living, Places, Waits, Owned, SignalNext
    PROVE  Waits'
<1> DEFINE e == Head(events)
<1>1. /\ TypeOK /\ NoSurface \notin Surfaces
      /\ surfaceOf \in SurfaceMaps /\ rows \in Seq(Rows) /\ windows \subseteq Windows
      /\ \A i \in 1 .. Len(rows) : rows[i] \in windows /\ rows[i] \in Windows
      /\ events \in Seq(Signals) /\ events # <<>> /\ e \in Signals
    BY SignalsCall, SoundWindows, SurfacesAssumption DEF Sound
<1>2. \A v : InRows(v, rows) => v \in Windows /\ v \in MayBeRows
    BY <1>1 DEF Sound, RowsFrom, InRows
<1>3. UNCHANGED appState
    <2>1. CASE \E s \in Surfaces : \/ DeferHiddenSurface(s) \/ AddTopLevelSurface(s)
                                   \/ WrapSurface(s) \/ SetInputMethodWindow(s)
        BY <2>1, Zenon DEF DeferHiddenSurface, AddTopLevelSurface, WrapSurface, SetInputMethodWindow, mirVars
    <2>2. CASE \/ OnModificationsStarted \/ OnModificationsEnded \/ FocusLost \/ FocusGained
               \/ OnSurfacesRaised \/ SkipKnownSurface \/ RemoveSurfaces
        BY <2>2, Zenon DEF OnModificationsStarted, OnModificationsEnded, FocusLost, FocusGained,
            UpdateFocused, OnSurfacesRaised, SkipKnownSurface, RemoveSurfaces, mirVars
    <2>3. CASE SurfaceHidden \/ SurfaceShown \/ SurfaceDied \/ InputMethodDied \/ SurfaceDestroyed
        BY <2>3, Zenon DEF SurfaceHidden, SurfaceShown, SurfaceDied, InputMethodDied,
            SurfaceDestroyed, mirVars
    <2> QED
        BY <2>1, <2>2, <2>3 DEF SignalNext
<1>4. \A s \in deferred : IsTopLevel(s)
    BY DEF Waits
<1>5. ASSUME \A w \in Windows : InRows(w, rows') => StillThere(w) \/ Occupied(w),
             \A s \in deferred' : s \in deferred \/ IsTopLevel(s)
      PROVE  Waits'
    <2>1. \A s \in deferred' : IsTopLevel(s)
        BY <1>4, <1>5
    <2>2. \A a \in Apps : appState[a] # "new" => appState'[a] # "new"
        BY <1>3
    <2> QED
        BY <1>5, <2>1, <2>2, WaitsNoMore
<1>6. ASSUME \A w \in Windows : InRows(w, rows') => InRows(w, rows) /\ surfaceOf'[w] = surfaceOf[w],
             UNCHANGED <<entryApp, removeOnce, liveSurfaces>>,
             \A s \in deferred' : s \in deferred \/ IsTopLevel(s)
      PROVE  Waits'
    BY <1>5, <1>6, RowsStayOccupied
<1>7. ASSUME NEW s \in Surfaces, Subject = s, IsTopLevel(s), e.kind \in Arrivals
      PROVE  s \in liveSurfaces /\ AppOf[s] \in Apps /\ appState[AppOf[s]] # "new"
    <2>1. Is(e, Arrivals, s)
        BY <1>1, <1>7 DEF Is, Subject, Signals, Brackets, Arrivals
    <2> QED
        BY <1>1, <1>7, <2>1, ArrivalLives
<1> HIDE DEF e
<1>9. CASE \/ OnModificationsStarted \/ OnModificationsEnded \/ FocusLost \/ FocusGained
           \/ SkipKnownSurface
    <2>1. UNCHANGED <<rows, surfaceOf, entryApp, removeOnce, liveSurfaces, deferred>>
        BY <1>9, Zenon DEF OnModificationsStarted, OnModificationsEnded, FocusLost, FocusGained,
            UpdateFocused, SkipKnownSurface, objectVars, modelVars
    <2> QED
        BY <1>6, <2>1
<1>10. CASE OnSurfacesRaised
    <2>1. /\ UNCHANGED <<surfaceOf, entryApp, removeOnce, liveSurfaces, deferred>>
          /\ LET i == IndexOf(Subject, rows, surfaceOf)
             IN  rows' = IF i > 1 THEN MoveToFront(rows, i) ELSE rows
        BY <1>10 DEF OnSurfacesRaised, objectVars
    <2>2. LET i == IndexOf(Subject, rows, surfaceOf) IN i = 0 \/ i \in 1 .. Len(rows)
        BY <1>1, IndexOfFinds
    <2>3. \A v : InRows(v, rows') <=> InRows(v, rows)
        BY <1>1, <2>1, <2>2, RowsMoved
    <2> QED
        BY <1>6, <2>1, <2>3
<1>11. CASE SurfaceHidden
    <2>1. /\ UNCHANGED <<surfaceOf, entryApp, removeOnce, liveSurfaces, deferred>>
          /\ \E R : rows' = Without(rows, R)
        BY <1>11 DEF SurfaceHidden
    <2>2. \A v : InRows(v, rows') => InRows(v, rows)
        BY <1>1, <2>1, RowsWithout
    <2> QED
        BY <1>6, <2>1, <2>2
<1>12. CASE RemoveSurfaces
    <2>1. /\ UNCHANGED <<entryApp, removeOnce, liveSurfaces, deferred>>
          /\ \E R : /\ rows' = Without(rows, R)
                    /\ surfaceOf' = [w \in Windows |-> IF w \in R THEN NoSurface ELSE surfaceOf[w]]
        BY <1>12 DEF RemoveSurfaces, objectVars
    <2>2. \A w \in Windows : InRows(w, rows') => InRows(w, rows) /\ surfaceOf'[w] = surfaceOf[w]
        BY <1>1, <2>1, RowsWithout
    <2> QED
        BY <1>6, <2>1, <2>2
<1>13. ASSUME NEW s \in Surfaces, DeferHiddenSurface(s)
       PROVE  Waits'
    <2>1. /\ IsTopLevel(s) /\ deferred' = deferred \cup {s}
          /\ UNCHANGED <<rows, surfaceOf, entryApp, removeOnce, liveSurfaces>>
        BY <1>13, Zenon DEF DeferHiddenSurface, objectVars
    <2> QED
        BY <1>6, <2>1
<1>14. ASSUME NEW s \in Surfaces, AddTopLevelSurface(s)
       PROVE  Waits'
    <2>1. /\ IsTopLevel(s) /\ Subject = s /\ e.kind = "added"
          /\ PrependSurface(s, rows, Tail(events)) /\ UNCHANGED <<deferred, liveSurfaces>>
        BY <1>14, Zenon DEF AddTopLevelSurface, Arrives, Deliver, objectVars, e
    <2>2. s \in liveSurfaces /\ AppOf[s] \in Apps /\ appState[AppOf[s]] # "new"
        BY <1>7, <2>1 DEF Arrivals
    <2>3. \A w \in Windows : InRows(w, rows') => StillThere(w) \/ Occupied(w)
        BY <2>1, <2>2, PrependWaits
    <2> QED
        BY <1>5, <2>1, <2>3
<1>15. ASSUME NEW s \in Surfaces, WrapSurface(s)
       PROVE  Waits'
    <2>1. /\ surfaceOf' = [surfaceOf EXCEPT ![nextId] = s]
          /\ UNCHANGED <<rows, entryApp, removeOnce, liveSurfaces, deferred>>
        BY <1>15, Zenon DEF WrapSurface, NewWindow, objectVars
    <2>2. \A w \in Windows : w # nextId => surfaceOf'[w] = surfaceOf[w]
        BY <1>1, <2>1 DEF SurfaceMaps
    <2>3. \A w \in Windows : InRows(w, rows') => InRows(w, rows) /\ surfaceOf'[w] = surfaceOf[w]
        BY <1>2, <2>1, <2>2, NewWindowIsNew
    <2> QED
        BY <1>6, <2>1, <2>3
<1>16. ASSUME NEW s \in Surfaces, SetInputMethodWindow(s)
       PROVE  Waits'
    <2>1. /\ surfaceOf' = [w \in Windows |-> IF w = nextId THEN s
                                             ELSE IF w = inputMethodWindow THEN NoSurface
                                             ELSE surfaceOf[w]]
          /\ UNCHANGED <<rows, entryApp, removeOnce, liveSurfaces, deferred>>
        BY <1>16, Zenon DEF SetInputMethodWindow, objectVars
    <2>2. \A w \in Windows : w # nextId /\ w # inputMethodWindow => surfaceOf'[w] = surfaceOf[w]
        BY <2>1
    <2>3. \A w \in Windows : InRows(w, rows') => InRows(w, rows) /\ surfaceOf'[w] = surfaceOf[w]
        BY <1>2, <2>1, <2>2, NewWindowIsNew DEF MayBeRows
    <2> QED
        BY <1>6, <2>1, <2>3
<1>17. CASE SurfaceShown
    <2> DEFINE back == {w \in windows : surfaceOf[w] = Subject /\ w \in hiddenWindows
                                        /\ ~InRows(w, rows) /\ IsTopLevel(Subject)}
    <2>1. Subject \in Surfaces /\ e.kind \in Arrivals
        BY <1>1, <1>17, SubjectType DEF SurfaceShown, Brackets, Deliver, e, Arrivals
    <2>2. /\ deferred' = deferred \ {Subject} /\ UNCHANGED liveSurfaces
        BY <1>17 DEF SurfaceShown
    <2>3. PICK r : /\ r = IF back = {} THEN rows ELSE <<CHOOSE w \in back : TRUE>> \o rows
                   /\ \/ Subject \in deferred /\ PrependSurface(Subject, r, Tail(events))
                      \/ /\ rows' = r /\ UNCHANGED surfaceOf
                         /\ entryApp' = [w \in Windows |-> IF w \in back THEN AppOf[Subject]
                                                           ELSE entryApp[w]]
                         /\ removeOnce' = removeOnce \ back
        <3>1. {w \in {w \in windows : surfaceOf[w] = Subject /\ w \in hiddenWindows} :
                  ~InRows(w, rows) /\ IsTopLevel(Subject)} = back
            OBVIOUS
        <3> HIDE DEF back
        <3> QED
            BY <1>17, <3>1 DEF SurfaceShown
    <2>4. \A w \in back : /\ w \in Windows /\ surfaceOf[w] = Subject /\ IsTopLevel(Subject)
                          /\ ~InRows(w, rows)
        BY <1>1
    <2>5. back # {} => (CHOOSE w \in back : TRUE) \in back
        OBVIOUS
    <2> HIDE DEF back
    <2>6. PICK t : t = Subject
        OBVIOUS
    <2>7. IsTopLevel(t) => t \in liveSurfaces /\ AppOf[t] \in Apps /\ appState[AppOf[t]] # "new"
        BY <1>7, <2>1, <2>6
    <2>8. CASE Subject \in deferred /\ PrependSurface(Subject, r, Tail(events))
        <3>1. back = {} /\ r = rows
            BY <1>1, <2>1, <2>3, <2>4, <2>8 DEF Places
        <3>2. IsTopLevel(t)
            BY <1>4, <2>6, <2>8
        <3>3. \A w \in Windows : InRows(w, rows') => StillThere(w) \/ Occupied(w)
            BY <2>1, <2>2, <2>6, <2>7, <2>8, <3>1, <3>2, PrependWaits
        <3> QED
            BY <1>5, <2>2, <3>3
    <2>9. CASE /\ rows' = r /\ UNCHANGED surfaceOf
               /\ entryApp' = [w \in Windows |-> IF w \in back THEN AppOf[Subject] ELSE entryApp[w]]
               /\ removeOnce' = removeOnce \ back
        <3>1. \A v : InRows(v, rows') => InRows(v, rows) \/ v \in back
            <4>1. CASE back = {}
                BY <2>3, <2>9, <4>1
            <4>2. CASE back # {}
                <5>1. PICK b : b = (CHOOSE w \in back : TRUE)
                    OBVIOUS
                <5>2. b \in back /\ rows' = <<b>> \o rows
                    BY <2>3, <2>5, <2>9, <4>2, <5>1
                <5>3. b \in Rows
                    BY <1>1, <2>1, <2>4, <5>2, SurfaceMapsType DEF Rows
                <5> QED
                    BY <1>1, <5>2, <5>3, RowsPrepended
            <4> QED
                BY <4>1, <4>2
        <3>2. PICK B : B = back
            OBVIOUS
        <3>3. ASSUME NEW w \in Windows, w \in B
              PROVE  Occupied(w)
            BY <1>1, <2>1, <2>2, <2>4, <2>6, <2>7, <2>9, <3>2, <3>3, SurfacesAssumption
            DEF Occupied, Waiting, IsTopLevel
        <3>4. ASSUME NEW w \in Windows, w \notin B, InRows(w, rows')
              PROVE  StillThere(w)
            BY <2>2, <2>9, <3>1, <3>2, <3>4 DEF StillThere, Waiting
        <3> QED
            BY <1>5, <2>2, <3>3, <3>4
    <2> QED
        BY <2>3, <2>8, <2>9
<1>18. CASE SurfaceDied
    <2> DEFINE H == {v \in hiddenWindows : surfaceOf[v] = Subject}
    <2>i. PICK i : i = IndexOf(Subject, rows, surfaceOf)
        OBVIOUS
    <2>w. PICK w : w = rows[i]
        OBVIOUS
    <2>t. PICK t : t = Subject
        OBVIOUS
    <2>1. /\ liveSurfaces' = liveSurfaces \ {t}
          /\ surfaceOf' = [v \in Windows |-> IF v \in H THEN NoSurface ELSE surfaceOf[v]]
          /\ removeOnce' = IF i = 0 THEN removeOnce
                           ELSE IF entryApp[w] \in TouchApps
                                    /\ CountWindowsWithApplication(entryApp[w]) = 1
                           THEN removeOnce \ {w} ELSE removeOnce \cup {w}
          /\ UNCHANGED <<rows, entryApp, deferred>>
        BY <1>18, <2>i, <2>w, <2>t DEF SurfaceDied
    <2>2. \A v \in Windows : InRows(v, rows) => surfaceOf'[v] = surfaceOf[v]
        BY <1>2, <2>1 DEF MayBeRows
    <2> HIDE DEF H
    <2>3. t \in Surfaces /\ t # NoSurface
        BY <1>1, <1>18, <2>t, SubjectType DEF SurfaceDied, Deliver, Brackets
    <2>4. \/ i \in 1 .. Len(rows) /\ surfaceOf[rows[i]] = t
          \/ i = 0 /\ \A j \in 1 .. Len(rows) : surfaceOf[rows[j]] # t
        BY <1>1, <2>i, <2>t, IndexOfFinds
    <2>5. CASE i = 0
        <3>1. \A v \in Windows : InRows(v, rows) => surfaceOf[v] # t
            BY <1>1, <2>4, <2>5 DEF InRows
        <3>2. \A v \in Windows : InRows(v, rows') => StillThere(v)
            BY <2>1, <2>2, <2>5, <3>1 DEF StillThere, Waiting
        <3> QED
            BY <1>5, <2>1, <3>2
    <2>6. CASE i # 0
        <3>1. w \in Windows /\ InRows(w, rows) /\ surfaceOf[w] = t
            BY <1>1, <2>4, <2>6, <2>w DEF InRows
        <3>2. \A v \in Windows : v # w => surfaceOf[v] # t
            BY <2>3, <3>1 DEF Places
        <3>3. \A v \in Windows : v # w => (v \in removeOnce' <=> v \in removeOnce)
            BY <2>1
        <3>4. \A v \in Windows : InRows(v, rows') /\ v # w => StillThere(v)
            BY <2>1, <2>2, <3>2, <3>3 DEF StillThere, Waiting
        <3>5. CASE w \in removeOnce'
            <4>1. Occupied(w)
                BY <2>1, <2>2, <2>3, <3>1, <3>5, <1>1, SurfacesAssumption DEF Occupied, Waiting, Waits
            <4> QED
                BY <1>5, <2>1, <3>4, <4>1
        <3>6. CASE w \notin removeOnce'
            <4>1. CountWindowsWithApplication(entryApp[w]) = 1
                BY <2>1, <2>6, <3>6
            <4>2. \A v \in Windows : InRows(v, rows) /\ entryApp[v] = entryApp[w] => v = w
                BY <1>1, <3>1, <4>1, OnlyRow
            <4>3. ASSUME NEW u \in Windows, NEW v \in Windows, InRows(u, rows'), InRows(v, rows'),
                         entryApp'[u] = entryApp'[v], Waiting(u)', Waiting(v)'
                  PROVE  u = v
                <5>1. CASE u = w \/ v = w
                    BY <2>1, <4>2, <4>3, <5>1
                <5>2. CASE u # w /\ v # w
                    BY <2>1, <3>4, <4>3, <5>2 DEF StillThere, Waits
                <5> QED
                    BY <5>1, <5>2
            <4>4. \A v \in Windows : InRows(v, rows') =>
                      /\ entryApp'[v] \in Apps /\ appState'[entryApp'[v]] # "new"
                      /\ surfaceOf'[v] \notin InputMethods
                BY <1>3, <2>1, <2>2 DEF Waits
            <4>5. \A s \in deferred' : IsTopLevel(s)
                BY <1>4, <2>1
            <4> QED
                BY <4>3, <4>4, <4>5 DEF Waits, IsTopLevel
        <3> QED
            BY <3>5, <3>6
    <2> QED
        BY <2>5, <2>6
<1>19. CASE InputMethodDied
    <2>t. PICK t : t = Subject
        OBVIOUS
    <2>1. /\ t \in InputMethods /\ liveSurfaces' = liveSurfaces \ {t}
          /\ UNCHANGED <<rows, entryApp, removeOnce, deferred>>
          /\ UNCHANGED surfaceOf \/ surfaceOf' = [surfaceOf EXCEPT ![inputMethodWindow] = NoSurface]
        BY <1>19, <2>t DEF InputMethodDied
    <2>2. \A v \in Windows : v # inputMethodWindow => surfaceOf'[v] = surfaceOf[v]
        BY <1>1, <2>1 DEF SurfaceMaps
    <2>3. \A v \in Windows : InRows(v, rows) => surfaceOf'[v] = surfaceOf[v] /\ surfaceOf[v] # t
        BY <1>2, <2>1, <2>2 DEF MayBeRows, Waits
    <2>4. \A v \in Windows : InRows(v, rows') => StillThere(v)
        BY <2>1, <2>3 DEF StillThere, Waiting
    <2> QED
        BY <1>5, <2>1, <2>4
<1>20. CASE SurfaceDestroyed
    <2>i. PICK i : i = IndexOf(Subject, rows, surfaceOf)
        OBVIOUS
    <2>w. PICK w : w = rows[i]
        OBVIOUS
    <2>t. PICK t : t = Subject
        OBVIOUS
    <2>1. /\ e.kind = "destroyed" /\ deferred' = deferred \ {t} /\ UNCHANGED liveSurfaces
          /\ \/ i # 0 /\ DeleteRows({w})
             \/ /\ i # 0 /\ w \notin removeOnce
                /\ surfaceOf' = [surfaceOf EXCEPT ![w] = NoSurface]
                /\ UNCHANGED <<rows, entryApp, removeOnce>>
             \/ /\ i = 0
                /\ \A v \in Windows : surfaceOf'[v] = surfaceOf[v] \/ surfaceOf[v] = t
                /\ UNCHANGED <<rows, entryApp, removeOnce>>
        BY <1>20, <2>i, <2>w, <2>t DEF SurfaceDestroyed, Deliver, e
    <2>2. t \in Surfaces
        BY <1>1, <1>20, <2>t, SubjectType DEF SurfaceDestroyed, Deliver, Brackets
    <2>3. t \notin liveSurfaces
        <3>1. Is(e, {"destroyed"}, t)
            BY <1>1, <2>1, <2>t DEF Is, Subject, Signals, Brackets, e
        <3>2. e = events[1] /\ 1 \in 1 .. Len(events)
            BY <1>1 DEF e
        <3>3. LifeOf(events, mirLife[t], t \in liveSurfaces, t)
            BY <2>2 DEF Living, Lives
        <3>4. ~\E k \in 1 .. Len(events) : k < 1
            OBVIOUS
        <3>5. Is(events[1], {"destroyed"}, t)
            BY <3>1, <3>2
        <3> QED
            BY <3>2, <3>3, <3>4, <3>5 DEF LifeOf
    <2>4. \/ i \in 1 .. Len(rows) /\ surfaceOf[rows[i]] = t
          \/ i = 0 /\ \A j \in 1 .. Len(rows) : surfaceOf[rows[j]] # t
        BY <1>1, <2>i, <2>t, IndexOfFinds
    <2>5. CASE i # 0 /\ DeleteRows({w})
        <3>1. \A v \in Windows : InRows(v, rows') => StillThere(v)
            BY <2>1, <2>5, DeleteRowsWait
        <3> QED
            BY <1>5, <2>1, <3>1
    <2>6. CASE /\ i # 0 /\ w \notin removeOnce
               /\ surfaceOf' = [surfaceOf EXCEPT ![w] = NoSurface]
               /\ UNCHANGED <<rows, entryApp, removeOnce>>
        <3>1. w \in Windows /\ surfaceOf[w] = t /\ InRows(w, rows)
            BY <1>1, <2>4, <2>6, <2>w DEF InRows
        <3>2. surfaceOf'[w] = NoSurface /\ \A v \in Windows : v # w => surfaceOf'[v] = surfaceOf[v]
            BY <1>1, <2>6, <3>1 DEF SurfaceMaps
        <3>3. StillThere(w)
            BY <2>3, <2>6, <3>1, <3>2 DEF StillThere, Waiting
        <3>4. \A v \in Windows : v # w /\ InRows(v, rows') => StillThere(v)
            BY <2>1, <2>6, <3>2 DEF StillThere, Waiting
        <3> QED
            BY <1>5, <2>1, <3>3, <3>4
    <2>7. CASE /\ i = 0
               /\ \A v \in Windows : surfaceOf'[v] = surfaceOf[v] \/ surfaceOf[v] = t
               /\ UNCHANGED <<rows, entryApp, removeOnce>>
        <3>1. \A v \in Windows : InRows(v, rows) => surfaceOf[v] # t
            BY <1>1, <2>4, <2>7 DEF InRows
        <3>2. \A v \in Windows : InRows(v, rows') => InRows(v, rows) /\ surfaceOf'[v] = surfaceOf[v]
            BY <2>7, <3>1
        <3> QED
            BY <1>6, <2>1, <2>7, <3>2
    <2> QED
        BY <2>1, <2>5, <2>6, <2>7
<1> QED
    BY <1>9, <1>10, <1>11, <1>12, <1>13, <1>14, <1>15, <1>16, <1>17, <1>18, <1>19, <1>20 DEF SignalNext

(* An application that arrives has no row, and one that leaves leaves none.*)
LEMMA ApplicationsWait ==
    ASSUME Sound, Waits, ApplicationNext
    PROVE  Waits'
<1>1. /\ rows \in Seq(Rows) /\ surfaceOf \in SurfaceMaps
      /\ entryApp \in [Windows -> Apps \cup {NoApp}] /\ TypeOK
      /\ appState \in [Apps -> {"new", "running", "stopped"}]
      /\ \A i \in 1 .. Len(rows) : rows[i] \in Windows
    BY SoundWindows DEF Sound, TypeOK
<1>2. \A v : InRows(v, rows) => v \in Windows /\ v \in MayBeRows
    BY <1>1 DEF Sound, RowsFrom, InRows
<1>3. ASSUME NEW a \in Apps, RemoveApplication(a)
      PROVE  Waits'
    <2>1. /\ appState' = [appState EXCEPT ![a] = "stopped"]
          /\ \E R : DeleteRows(R)
          /\ UNCHANGED <<deferred, liveSurfaces>>
        BY <1>3, Zenon DEF RemoveApplication, objectVars
    <2>2. \A w \in Windows : InRows(w, rows') => StillThere(w)
        BY <2>1, DeleteRowsWait
    <2>3. \A b \in Apps : appState[b] # "new" => appState'[b] # "new"
        BY <1>1, <2>1
    <2>4. \A s \in deferred' : IsTopLevel(s)
        BY <2>1 DEF Waits
    <2> QED
        BY <2>2, <2>3, <2>4, WaitsNoMore
<1>4. ASSUME NEW a \in Apps, NEW active \in BOOLEAN, AddApplication(a, active)
      PROVE  Waits'
    <2>1. /\ appState[a] = "new" /\ appState' = [appState EXCEPT ![a] = "running"]
          /\ UNCHANGED <<deferred, liveSurfaces>>
        BY <1>4, Zenon DEF AddApplication, objectVars
    <2>2. \A b \in Apps : appState[b] # "new" => appState'[b] # "new"
        BY <1>1, <2>1
    <2>3. \A s \in deferred' : IsTopLevel(s)
        BY <2>1 DEF Waits
    <2>4. CASE ~(active /\ a \in SplashApps)
        <3>1. UNCHANGED <<rows, surfaceOf, entryApp, removeOnce>>
            BY <1>4, <2>4, Zenon DEF AddApplication
        <3>2. \A w \in Windows : InRows(w, rows') => StillThere(w)
            BY <2>1, <3>1 DEF StillThere, Waiting
        <3> QED
            BY <2>2, <2>3, <3>2, WaitsNoMore
    <2>5. CASE active /\ a \in SplashApps
        <3>n. PICK n : n = nextId
            OBVIOUS
        <3>1. /\ NewWindow(NoSurface) /\ NewEntry(n, a)
              /\ Activate(nextId, <<nextId>> \o rows, surfaceOf, hasFocus, focus, events)
            BY <1>4, <2>5, <3>n DEF AddApplication
        <3>2. nextId \in Rows /\ nextId \in Windows
            BY <1>1, <3>1, NewWindowType
        <3>3. \A v : InRows(v, rows') <=> v = n \/ InRows(v, rows)
            <4>1. <<nextId>> \o rows \in Seq(Rows)
                BY <1>1, <3>2
            <4>2. \A v : InRows(v, rows') <=> InRows(v, <<nextId>> \o rows)
                BY <3>1, <4>1, RowsActivated
            <4> QED
                BY <1>1, <3>n, <3>2, <4>2, RowsPrepended
        <3>4. /\ surfaceOf' = [surfaceOf EXCEPT ![n] = NoSurface]
              /\ entryApp' = [entryApp EXCEPT ![n] = a] /\ removeOnce' = removeOnce \ {n}
            BY <3>n, <3>1 DEF NewWindow, NewEntry
        <3>5. /\ surfaceOf'[n] = NoSurface /\ entryApp'[n] = a
              /\ \A v \in Windows : v # n =>
                    /\ surfaceOf'[v] = surfaceOf[v] /\ entryApp'[v] = entryApp[v]
                    /\ (v \in removeOnce' <=> v \in removeOnce)
            BY <1>1, <3>n, <3>2, <3>4 DEF SurfaceMaps
        <3>6. ASSUME NEW v \in Windows, v # n, InRows(v, rows')
              PROVE  /\ InRows(v, rows) /\ entryApp'[v] = entryApp[v] /\ entryApp'[v] # a
                     /\ Waiting(v)' => Waiting(v)
            BY <2>1, <3>3, <3>5, <3>6 DEF Waits, Waiting
        <3>7. ASSUME NEW u \in Windows, NEW v \in Windows, InRows(u, rows'), InRows(v, rows'),
                     entryApp'[u] = entryApp'[v], Waiting(u)', Waiting(v)'
              PROVE  u = v
            <4>1. CASE u = n \/ v = n
                BY <3>5, <3>6, <3>7, <4>1
            <4>2. CASE u # n /\ v # n
                BY <3>6, <3>7, <4>2 DEF Waits
            <4> QED
                BY <4>1, <4>2
        <3>8. appState'[a] # "new" /\ NoSurface \notin InputMethods
            BY <1>1, <2>1, SurfacesAssumption
        <3>9. ASSUME NEW v \in Windows, InRows(v, rows')
              PROVE  /\ entryApp'[v] \in Apps /\ appState'[entryApp'[v]] # "new"
                     /\ surfaceOf'[v] \notin InputMethods
            <4>1. CASE v = n
                BY <3>5, <3>8, <4>1
            <4>2. CASE v # n
                BY <2>2, <3>5, <3>6, <3>9, <4>2 DEF Waits
            <4> QED
                BY <4>1, <4>2
        <3> QED
            BY <2>3, <3>7, <3>9 DEF Waits, IsTopLevel
    <2> QED
        BY <2>4, <2>5
<1> QED
    BY <1>3, <1>4 DEF ApplicationNext

(* A client has surfaces while its application runs, and an application    *)
(* that has stopped does not start anew.                                   *)
LEMMA OwnedKept ==
    ASSUME TypeOK, Owned, [Next]_vars
    PROVE  Owned'
<1>1. /\ appState \in [Apps -> {"new", "running", "stopped"}]
      /\ mirLife \in [Surfaces -> {"none", "live", "dead", "gone"}]
      /\ \A s \in Surfaces : AppOf[s] # NoApp => AppOf[s] \in Apps
    BY SurfacesAssumption DEF TypeOK
<1>2. ASSUME UNCHANGED mirLife, \A a \in Apps : appState[a] # "new" => appState'[a] # "new"
      PROVE  Owned'
    BY <1>1, <1>2 DEF Owned
<1>3. ASSUME UNCHANGED <<mirLife, appState>>
      PROVE  Owned'
    BY <1>3 DEF Owned
<1>4. CASE ApplicationNext
    <2>1. PICK a \in Apps : RemoveApplication(a) \/ \E active \in BOOLEAN : AddApplication(a, active)
        BY <1>4 DEF ApplicationNext
    <2>2. /\ UNCHANGED mirLife
          /\ \/ appState' = [appState EXCEPT ![a] = "stopped"]
             \/ appState' = [appState EXCEPT ![a] = "running"]
        BY <2>1, Zenon DEF RemoveApplication, AddApplication
    <2> QED
        BY <1>1, <1>2, <2>2
<1>5. CASE SignalNext
    <2>1. CASE \E s \in Surfaces : \/ DeferHiddenSurface(s) \/ AddTopLevelSurface(s)
                                   \/ WrapSurface(s) \/ SetInputMethodWindow(s)
        BY <1>3, <2>1, Zenon DEF DeferHiddenSurface, AddTopLevelSurface, WrapSurface, SetInputMethodWindow, mirVars
    <2>2. CASE \/ OnModificationsStarted \/ OnModificationsEnded \/ FocusLost \/ FocusGained
               \/ OnSurfacesRaised \/ SkipKnownSurface \/ RemoveSurfaces
        BY <1>3, <2>2, Zenon DEF OnModificationsStarted, OnModificationsEnded, FocusLost, FocusGained,
            UpdateFocused, OnSurfacesRaised, SkipKnownSurface, RemoveSurfaces, mirVars
    <2>3. CASE SurfaceHidden \/ SurfaceShown \/ SurfaceDied \/ InputMethodDied \/ SurfaceDestroyed
        BY <1>3, <2>3, Zenon DEF SurfaceHidden, SurfaceShown, SurfaceDied, InputMethodDied,
            SurfaceDestroyed, mirVars
    <2> QED
        BY <1>5, <2>1, <2>2, <2>3 DEF SignalNext
<1>6. CASE ShellNext
    <2>1. UNCHANGED <<mirLife, appState>>
        BY <1>6, Zenon
        DEF ShellNext, SetRootFocus, RaiseId, ActivateWindow, CloseWindow, PendingActivation,
            CloseAllWindows, unfocusable
    <2> QED
        BY <1>3, <2>1
<1>7. CASE MirNext
    <2>1. UNCHANGED appState
        BY <1>7, Zenon DEF MirNext, CreateSurface, Refocus, ShowSurface, Die, MoveSurface,
            HideSurface, Destroy, MoveWorkspaceContent
    <2>2. \A s \in Surfaces : \/ mirLife'[s] = mirLife[s] \/ mirLife[s] # "none"
                              \/ (AppOf[s] # NoApp => appState[AppOf[s]] = "running")
        <3>1. CASE UNCHANGED mirLife
            BY <3>1
        <3>2. ASSUME NEW s \in Surfaces, NEW hide, NEW here, CreateSurface(s, hide, here)
              PROVE  /\ mirLife' = [mirLife EXCEPT ![s] = "live"]
                     /\ AppOf[s] # NoApp => appState[AppOf[s]] = "running"
            BY <3>2, Zenon DEF CreateSurface
        <3>3. ASSUME NEW s \in Surfaces, Die(s)
              PROVE  mirLife[s] # "none" /\ mirLife' = [mirLife EXCEPT ![s] = "dead"]
            BY <3>3 DEF Die, Live
        <3>4. ASSUME NEW s \in Surfaces, NEW next, Destroy(s, next)
              PROVE  mirLife[s] # "none" /\ mirLife' = [mirLife EXCEPT ![s] = "gone"]
            BY <3>4 DEF Destroy
        <3>5. ASSUME NEW s \in Surfaces, NEW x, mirLife' = [mirLife EXCEPT ![s] = x],
                     mirLife[s] # "none" \/ (AppOf[s] # NoApp => appState[AppOf[s]] = "running")
              PROVE  \A t \in Surfaces : \/ mirLife'[t] = mirLife[t] \/ mirLife[t] # "none"
                                         \/ (AppOf[t] # NoApp => appState[AppOf[t]] = "running")
            BY <1>1, <3>5
        <3>6. UNCHANGED mirLife \/ \E s \in Surfaces : \/ \E hide, here \in BOOLEAN : CreateSurface(s, hide, here)
                                                       \/ Die(s)
                                                       \/ \E next \in Surfaces \cup {NoSurface} : Destroy(s, next)
            BY <1>7, Zenon DEF MirNext, Refocus, ShowSurface, MoveSurface, HideSurface, MoveWorkspaceContent
        <3> QED
            BY <3>1, <3>2, <3>3, <3>4, <3>5, <3>6
    <2> QED
        BY <2>1, <2>2 DEF Owned
<1>8. CASE \E w \in Windows : DeferredDelete(w)
    BY <1>3, <1>8, Zenon DEF DeferredDelete, mirVars
<1>9. CASE UNCHANGED vars
    BY <1>3, <1>9, Zenon DEF vars, mirVars
<1> QED
    BY <1>4, <1>5, <1>6, <1>7, <1>8, <1>9 DEF Next

(* An application that was killed leaves at most one row without surface   *)
(* for the shell to show its screenshot in, if surfaces do not both hide   *)
(* and move.                                                               *)
THEOREM OneEmptyRow ==
    ASSUME HidesOrMoves
    PROVE  Spec => []AtMostOneEmptyRow
<1>1. Init => Waits /\ Owned
    <2> SUFFICES ASSUME Init PROVE Waits /\ Owned
        OBVIOUS
    <2>1. rows = <<>> /\ deferred = {} /\ mirLife = [s \in Surfaces |-> "none"]
        BY DEF Init
    <2>2. \A w : ~InRows(w, rows)
        BY <2>1 DEF InRows
    <2> QED
        BY <2>1, <2>2 DEF Waits, Owned
<1>2. Sound /\ Living /\ Placed /\ Waits /\ Owned /\ [Next]_vars => Waits' /\ Owned'
    <2> SUFFICES ASSUME Sound, Living, Placed, Waits, Owned, [Next]_vars
                 PROVE  Waits' /\ Owned'
        OBVIOUS
    <2>1. TypeOK /\ Owned'
        BY OwnedKept DEF Sound
    <2>2. ASSUME \A v : InRows(v, rows') <=> InRows(v, rows),
                 UNCHANGED <<surfaceOf, entryApp, removeOnce, appState, deferred>>,
                 \A s \in liveSurfaces : s \in liveSurfaces'
          PROVE  Waits'
        <3>1. \A w \in Windows : InRows(w, rows') => StillThere(w)
            BY <2>2, RowsStayOccupied
        <3>2. /\ \A a \in Apps : appState[a] # "new" => appState'[a] # "new"
              /\ \A s \in deferred' : IsTopLevel(s)
            BY <2>2 DEF Waits
        <3> QED
            BY <3>1, <3>2, WaitsNoMore
    <2>3. CASE ApplicationNext
        BY <2>1, <2>3, ApplicationsWait
    <2>4. CASE SignalNext
        BY <2>1, <2>4, SignalsWait DEF Placed
    <2>5. CASE ShellNext
        <3>1. UNCHANGED <<surfaceOf, entryApp, removeOnce, appState, deferred, liveSurfaces>>
            BY <2>5, Zenon
            DEF ShellNext, SetRootFocus, RaiseId, ActivateWindow, CloseWindow, PendingActivation,
                CloseAllWindows, unfocusable, objectVars
        <3> QED
            BY <2>1, <2>2, <2>5, <3>1, RowsKept
    <2>6. CASE MirNext
        <3>1. UNCHANGED modelVars /\ \A s \in liveSurfaces : s \in liveSurfaces'
            BY <2>6, MirLeavesModel
        <3>2. UNCHANGED appState
            BY <2>6, Zenon DEF MirNext, CreateSurface, Refocus, ShowSurface, Die, MoveSurface,
                HideSurface, Destroy, MoveWorkspaceContent
        <3> QED
            BY <2>1, <2>2, <3>1, <3>2 DEF modelVars
    <2>7. CASE \E w \in Windows : DeferredDelete(w)
        <3>1. UNCHANGED <<rows, surfaceOf, entryApp, removeOnce, appState, deferred, liveSurfaces>>
            BY <2>7, Zenon DEF DeferredDelete, mirVars, objectVars
        <3> QED
            BY <2>1, <2>2, <3>1
    <2>8. CASE UNCHANGED vars
        BY <2>1, <2>2, <2>8 DEF vars, modelVars, mirVars, objectVars
    <2> QED
        BY <2>1, <2>3, <2>4, <2>5, <2>6, <2>7, <2>8 DEF Next
<1>3. Waits => AtMostOneEmptyRow
    BY DEF Waits, Waiting, AtMostOneEmptyRow
<1> QED
    BY <1>1, <1>2, <1>3, SoundAlways, LivesAlways, PlacedAlways, PTL DEF Spec

-----------------------------------------------------------------------------
(* HidingKeepsRows.  Whether a surface is hidden the shell learns from the *)
(* signals on their way: the last of them about it decides, and where      *)
(* there is none the shell knows already.                                  *)
Views == {"hidden", "shown"}
Lastly(q, kind, s) ==
    \E i \in 1 .. Len(q) : /\ Is(q[i], {kind}, s)
                           /\ \A j \in 1 .. Len(q) : i < j => ~Is(q[j], Views, s)
Follows(q, known, hidden, s) ==
    /\ hidden => Lastly(q, "hidden", s) \/ (known /\ ~Says(q, Views, s))
    /\ ~hidden => Lastly(q, "shown", s) \/ (~known /\ ~Says(q, Views, s))

\* A signal about a surface says that it is hidden or that it is shown.
LEMMA ViewsApart ==
    ASSUME NEW e, NEW s
    PROVE  /\ Is(e, Views, s) <=> Is(e, {"hidden"}, s) \/ Is(e, {"shown"}, s)
           /\ ~(Is(e, {"hidden"}, s) /\ Is(e, {"shown"}, s))
BY DEF Is, Views

\* One signal more.
LEMMA FollowsMore ==
    ASSUME NEW q \in Seq(Signals), NEW e \in Signals, NEW known, NEW hidden, NEW s,
           Follows(q, known, hidden, s)
    PROVE  /\ ~Is(e, Views, s) => Follows(q \o <<e>>, known, hidden, s)
           /\ Is(e, {"hidden"}, s) => Follows(q \o <<e>>, known, TRUE, s)
           /\ Is(e, {"shown"}, s) => Follows(q \o <<e>>, known, FALSE, s)
<1> DEFINE r == q \o <<e>>
           n == Len(q)
<1>1. /\ Len(r) = n + 1 /\ n \in Nat /\ r[n + 1] = e
      /\ \A i \in 1 .. n : r[i] = q[i] /\ i \in 1 .. Len(r)
      /\ \A i \in 1 .. Len(r) : i \in 1 .. n \/ i = n + 1
      /\ n + 1 \in 1 .. Len(r) /\ \A j \in 1 .. Len(r) : ~(n + 1 < j)
    BY Queued
<1>2. \A K : Says(r, K, s) <=> Says(q, K, s) \/ Is(e, K, s)
    BY SaysMore
<1> HIDE DEF r
<1>3. ASSUME ~Is(e, Views, s), NEW kind, Lastly(q, kind, s)
      PROVE  Lastly(r, kind, s)
    <2>1. PICK i \in 1 .. n : Is(q[i], {kind}, s) /\ \A j \in 1 .. n : i < j => ~Is(q[j], Views, s)
        BY <1>3 DEF Lastly
    <2>2. i \in 1 .. Len(r) /\ Is(r[i], {kind}, s)
        BY <1>1, <2>1
    <2>3. \A j \in 1 .. Len(r) : i < j => ~Is(r[j], Views, s)
        BY <1>1, <1>3, <2>1
    <2> QED
        BY <2>2, <2>3 DEF Lastly
<1>4. \A kind : Is(e, {kind}, s) => Lastly(r, kind, s)
    BY <1>1 DEF Lastly
<1>5. ASSUME ~Is(e, Views, s)
      PROVE  Follows(r, known, hidden, s)
    BY <1>2, <1>3, <1>5 DEF Follows
<1>6. ASSUME Is(e, {"hidden"}, s)
      PROVE  Follows(r, known, TRUE, s)
    BY <1>4, <1>6 DEF Follows
<1>7. ASSUME Is(e, {"shown"}, s)
      PROVE  Follows(r, known, FALSE, s)
    BY <1>4, <1>7 DEF Follows
<1> QED
    BY <1>5, <1>6, <1>7 DEF r

\* One delivered.
LEMMA FollowsLess ==
    ASSUME NEW q \in Seq(Signals), q # <<>>, NEW old, NEW new, NEW hidden, NEW s,
           Follows(q, old, hidden, s),
           ~Is(Head(q), Views, s) => (new <=> old),
           Is(Head(q), {"hidden"}, s) => new,
           Is(Head(q), {"shown"}, s) => ~new
    PROVE  Follows(Tail(q), new, hidden, s)
<1> DEFINE r == Tail(q)
           e == Head(q)
<1>1. /\ Len(q) = Len(r) + 1 /\ Len(r) \in Nat /\ e = q[1] /\ 1 \in 1 .. Len(q)
      /\ \A i \in 1 .. Len(r) : r[i] = q[i + 1] /\ i + 1 \in 1 .. Len(q) /\ 1 < i + 1
      /\ \A i, j \in 1 .. Len(r) : i < j <=> i + 1 < j + 1
      /\ \A i \in 1 .. Len(q) : i = 1 \/ (i - 1 \in 1 .. Len(r) /\ r[i - 1] = q[i] /\ (i - 1) + 1 = i)
    BY Taken
<1>2. \A K : Says(q, K, s) <=> Says(r, K, s) \/ Is(e, K, s)
    BY SaysLess
<1>3. /\ ~Is(e, Views, s) => (new <=> old)
      /\ Is(e, {"hidden"}, s) => new
      /\ Is(e, {"shown"}, s) => ~new
    BY DEF e
<1> HIDE DEF r, e
<1>4. ASSUME NEW kind, Lastly(q, kind, s)
      PROVE  Lastly(r, kind, s) \/ (Is(e, {kind}, s) /\ ~Says(r, Views, s))
    <2>1. PICK i \in 1 .. Len(q) : /\ Is(q[i], {kind}, s)
                                   /\ \A j \in 1 .. Len(q) : i < j => ~Is(q[j], Views, s)
        BY <1>4 DEF Lastly
    <2>2. CASE i = 1
        BY <1>1, <2>1, <2>2 DEF Says
    <2>3. CASE i # 1
        <3>1. i - 1 \in 1 .. Len(r) /\ r[i - 1] = q[i] /\ (i - 1) + 1 = i
            BY <1>1, <2>3
        <3>2. \A j \in 1 .. Len(r) : i - 1 < j => ~Is(r[j], Views, s)
            BY <1>1, <2>1, <3>1
        <3> QED
            BY <2>1, <3>1, <3>2 DEF Lastly
    <2> QED
        BY <2>2, <2>3
<1>5. /\ hidden => Lastly(q, "hidden", s) \/ (old /\ ~Says(q, Views, s))
      /\ ~hidden => Lastly(q, "shown", s) \/ (~old /\ ~Says(q, Views, s))
    BY DEF Follows
<1>6. ~Says(q, Views, s) => ~Says(r, Views, s) /\ ~Is(e, Views, s)
    BY <1>2
<1>7. Follows(r, new, hidden, s)
    BY <1>3, <1>4, <1>5, <1>6 DEF Follows
<1> QED
    BY <1>7 DEF r

\* A signal that is only emitted at times decides only then.
LEMMA FollowsOptional ==
    ASSUME NEW q \in Seq(Signals), NEW known, NEW hidden, NEW t, Follows(q, known, hidden, t),
           NEW cond, NEW e, cond => e \in Signals
    PROVE  /\ q \o OptionalSignal(cond, e) \in Seq(Signals)
           /\ ~(cond /\ Is(e, Views, t)) => Follows(q \o OptionalSignal(cond, e), known, hidden, t)
           /\ cond /\ Is(e, {"hidden"}, t) => Follows(q \o OptionalSignal(cond, e), known, TRUE, t)
           /\ cond /\ Is(e, {"shown"}, t) => Follows(q \o OptionalSignal(cond, e), known, FALSE, t)
<1>1. CASE cond
    BY <1>1, FollowsMore, Queued DEF OptionalSignal
<1>2. CASE ~cond
    <2>1. q \o <<>> = q
        OBVIOUS
    <2> QED
        BY <1>2, <2>1 DEF OptionalSignal
<1> QED
    BY <1>1, <1>2

\* What Mir reports of its focus says of no surface that it is hidden or shown.
LEMMA FocusIsNoView ==
    ASSUME NEW t
    PROVE  /\ ~Is(Started, Views, t) /\ ~Is(Ended, Views, t)
           /\ \A kind, s : Is(Event(kind, s), Views, t) => kind \in {"hidden", "shown"}
           /\ \A s : ~Is(Event("lost", s), Views, t) /\ ~Is(Event("gained", s), Views, t)
                     /\ ~Is(Event("raised", s), Views, t)
<1>1. /\ ~Is(Started, Views, t) /\ ~Is(Ended, Views, t)
      /\ \A kind, s : Is(Event(kind, s), Views, t) => kind \in {"hidden", "shown"}
    BY IsEvent DEF Views
<1>2. "lost" \notin {"hidden", "shown"} /\ "gained" \notin {"hidden", "shown"} /\ "raised" \notin {"hidden", "shown"}
    OBVIOUS
<1> QED
    BY <1>1, <1>2, Zenon

\* The view that is told while the focus moves is the last one.
LEMMA FollowsMoves ==
    ASSUME NEW q \in Seq(Signals), NEW known, NEW hidden, NEW t, Follows(q, known, hidden, t),
           NEW cond, NEW e, cond => e \in Signals,
           NEW old \in Surfaces \cup {NoSurface}, NEW s \in Surfaces \cup {NoSurface},
           NEW r, r = MovesFocus(q, OptionalSignal(cond, e), old, s)
    PROVE  /\ r \in Seq(Signals)
           /\ ~(cond /\ Is(e, Views, t)) => Follows(r, known, hidden, t)
           /\ cond /\ Is(e, {"hidden"}, t) => Follows(r, known, TRUE, t)
           /\ cond /\ Is(e, {"shown"}, t) => Follows(r, known, FALSE, t)
<1> DEFINE q1 == q \o <<Started>>
           q2 == q1 \o OptionalSignal(cond, e)
           q3 == q2 \o LostSignals(old)
           q4 == q3 \o GainedSignals(s)
           q5 == q4 \o <<Ended>>
<1>1. /\ Started \in Signals /\ Ended \in Signals
      /\ \A u \in Surfaces : Event("lost", u) \in Signals /\ Event("gained", u) \in Signals
                             /\ Event("raised", u) \in Signals
    BY SignalsAreFocusKinds
<1>2. /\ ~Is(Started, Views, t) /\ ~Is(Ended, Views, t)
      /\ \A u : ~Is(Event("lost", u), Views, t) /\ ~Is(Event("gained", u), Views, t)
                /\ ~Is(Event("raised", u), Views, t)
    BY FocusIsNoView
<1>3. Follows(q1, known, hidden, t) /\ q1 \in Seq(Signals)
    BY <1>1, <1>2, FollowsMore, Queued
<1>4. q5 = r
    BY DEF MovesFocus
<1> HIDE DEF q1
<1>5. /\ q2 \in Seq(Signals)
      /\ ~(cond /\ Is(e, Views, t)) => Follows(q2, known, hidden, t)
      /\ cond /\ Is(e, {"hidden"}, t) => Follows(q2, known, TRUE, t)
      /\ cond /\ Is(e, {"shown"}, t) => Follows(q2, known, FALSE, t)
    BY <1>3, FollowsOptional
<1> HIDE DEF q2
<1>6. /\ q3 \in Seq(Signals)
      /\ \A h \in {hidden, TRUE, FALSE} : Follows(q2, known, h, t) => Follows(q3, known, h, t)
    <2>1. q3 \in Seq(Signals)
        BY <1>5, FocusSignalsTypes
    <2>2. ASSUME NEW h, Follows(q2, known, h, t)
          PROVE  Follows(q3, known, h, t)
        <3>1. /\ old # NoSurface => Event("lost", old) \in Signals
              /\ ~Is(Event("lost", old), Views, t)
            BY <1>1, <1>2
        <3> QED
            BY <1>5, <2>2, <3>1, FollowsOptional DEF LostSignals
    <2> QED
        BY <2>1, <2>2
<1> HIDE DEF q3
<1>7. /\ q4 \in Seq(Signals)
      /\ \A h \in {hidden, TRUE, FALSE} : Follows(q3, known, h, t) => Follows(q4, known, h, t)
    <2>1. q4 \in Seq(Signals)
        BY <1>6, FocusSignalsTypes
    <2>2. ASSUME NEW h, Follows(q3, known, h, t)
          PROVE  Follows(q4, known, h, t)
        <3>1. CASE s = NoSurface
            <4>1. q4 = q3
                BY <1>6, <3>1 DEF GainedSignals
            <4> QED
                BY <2>2, <4>1
        <3>2. CASE s # NoSurface
            <4> DEFINE g == q3 \o <<Event("gained", s)>>
            <4>1. Follows(g, known, h, t) /\ g \in Seq(Signals)
                BY <1>1, <1>2, <1>6, <2>2, <3>2, FollowsMore, Queued
            <4>2. q4 = g \o <<Event("raised", s)>>
                <5>1. GainedSignals(s) = <<Event("gained", s), Event("raised", s)>>
                    BY <3>2 DEF GainedSignals
                <5>2. q3 \in Seq(Signals) /\ Event("gained", s) \in Signals /\ Event("raised", s) \in Signals
                    BY <1>1, <1>6, <3>2
                <5>3. q4 = q3 \o <<Event("gained", s), Event("raised", s)>>
                    BY <5>1
                <5> HIDE DEF q4
                <5> QED
                    BY <5>2, <5>3, SignalsAtOnce
            <4> HIDE DEF g, q4
            <4>3. Follows(g \o <<Event("raised", s)>>, known, h, t)
                BY <1>1, <1>2, <3>2, <4>1, FollowsMore
            <4> QED
                BY <4>2, <4>3
        <3> QED
            BY <3>1, <3>2
    <2> QED
        BY <2>1, <2>2
<1> HIDE DEF q4
<1>8. /\ q5 \in Seq(Signals)
      /\ \A h \in {hidden, TRUE, FALSE} : Follows(q4, known, h, t) => Follows(q5, known, h, t)
    BY <1>1, <1>2, <1>7, FollowsMore, Queued
<1>9. \A h \in {hidden, TRUE, FALSE} : Follows(q2, known, h, t) => Follows(r, known, h, t)
    BY <1>4, <1>6, <1>7, <1>8
<1> HIDE DEF q5
<1> QED
    BY <1>4, <1>5, <1>8, <1>9

\* A change of the focus alone changes nothing for what is shown.
LEMMA FollowsFocus ==
    ASSUME NEW q \in Seq(Signals), NEW known, NEW hidden, NEW t, Follows(q, known, hidden, t),
           NEW old \in Surfaces \cup {NoSurface}, NEW s \in Surfaces \cup {NoSurface},
           NEW r, r = MovesFocus(q, <<>>, old, s)
    PROVE  r \in Seq(Signals) /\ Follows(r, known, hidden, t)
<1>1. PICK cond : cond = FALSE
    OBVIOUS
<1>2. PICK e, none : none = OptionalSignal(cond, e)
    OBVIOUS
<1>3. none = <<>>
    BY <1>1, <1>2 DEF OptionalSignal
<1>4. r = MovesFocus(q, OptionalSignal(cond, e), old, s) /\ (cond => e \in Signals)
    BY <1>1, <1>2, <1>3
<1>5. /\ r \in Seq(Signals)
      /\ ~(cond /\ Is(e, Views, t)) => Follows(r, known, hidden, t)
    BY <1>4, FollowsMoves
<1> QED
    BY <1>1, <1>5

\* A call of the shell's that has Mir show a surface says so.
LEMMA CallsFollow ==
    ASSUME TypeOK, NEW q \in Seq(Signals), Calls(q), NEW u \in Surfaces, NEW known,
           Follows(q, known, u \in mirHidden, u)
    PROVE  Follows(events', known, u \in mirHidden', u)
<1>1. PICK t, s : RaisedIn(q, t) /\ s \in Surfaces \cup {NoSurface} /\ MirActivate(s, t)
    BY DEF Calls
<1>2. /\ Started \in Signals /\ Ended \in Signals
      /\ \A a \in Surfaces : Event("raised", a) \in Signals /\ Event("shown", a) \in Signals
    BY SignalsAreFocusKinds
<1>3. mirFocus \in Surfaces \cup {NoSurface} /\ mirHidden \subseteq Surfaces
    BY DEF TypeOK
<1>4. PICK h : h = (u \in mirHidden)
    OBVIOUS
<1>5. Follows(t, known, h, u) /\ t \in Seq(Signals)
    <2>0. Follows(q, known, h, u)
        BY <1>4
    <2>1. ASSUME NEW a \in Surfaces, t = ((q \o <<Started>>) \o <<Event("raised", a)>>) \o <<Ended>>
          PROVE  Follows(t, known, h, u)
        <3>1. ~Is(Started, Views, u) /\ ~Is(Ended, Views, u) /\ ~Is(Event("raised", a), Views, u)
            BY FocusIsNoView
        <3> DEFINE q1 == q \o <<Started>>
                   q2 == q1 \o <<Event("raised", a)>>
                   q3 == q2 \o <<Ended>>
        <3>2. Follows(q1, known, h, u) /\ q1 \in Seq(Signals)
            BY <1>2, <2>0, <3>1, FollowsMore, Queued
        <3> HIDE DEF q1
        <3>3. Follows(q2, known, h, u) /\ q2 \in Seq(Signals)
            BY <1>2, <3>1, <3>2, FollowsMore, Queued
        <3> HIDE DEF q2
        <3>4. Follows(q3, known, h, u)
            BY <1>2, <3>1, <3>3, FollowsMore
        <3> QED
            BY <2>1, <3>4 DEF q2, q1
    <2> QED
        BY <1>1, <2>0, <2>1, RaisedIsQueue DEF RaisedIn
<1>6. CASE events' = t /\ UNCHANGED mirHidden
    BY <1>4, <1>5, <1>6
<1>7. CASE /\ s # NoSurface => Live(s)
           /\ mirHidden' = mirHidden \ {s}
           /\ events' = MovesFocus(t, OptionalSignal(s \in mirHidden, Event("shown", s)), mirFocus, s)
    <2>1. PICK cond : cond = (s \in mirHidden)
        OBVIOUS
    <2>2. PICK e : e = Event("shown", s)
        OBVIOUS
    <2>3. cond => e \in Signals
        BY <1>2, <1>3, <2>1, <2>2
    <2>4. events' = MovesFocus(t, OptionalSignal(cond, e), mirFocus, s)
        BY <1>7, <2>1, <2>2
    <2>5. /\ ~(cond /\ Is(e, Views, u)) => Follows(events', known, h, u)
          /\ cond /\ Is(e, {"shown"}, u) => Follows(events', known, FALSE, u)
        BY <1>1, <1>3, <1>5, <2>3, <2>4, FollowsMoves
    <2>6. /\ Is(e, {"shown"}, u) <=> u = s
          /\ Is(e, Views, u) <=> u = s
        <3>1. /\ \A K : Is(e, K, s) <=> "shown" \in K
              /\ \A v : v # s => \A K : ~Is(e, K, v)
            BY <2>2, AboutOne
        <3>2. "shown" \in {"shown"} /\ "shown" \in Views
            BY DEF Views
        <3> QED
            BY <3>1, <3>2, Zenon
    <2>7. CASE u = s /\ cond
        <3>1. (u \in mirHidden') = FALSE
            BY <1>7, <2>7
        <3> QED
            BY <2>5, <2>6, <2>7, <3>1
    <2>8. CASE ~(u = s /\ cond)
        <3>1. u \in mirHidden' <=> u \in mirHidden
            BY <1>7, <2>1, <2>8
        <3>2. (u \in mirHidden') = (u \in mirHidden)
            BY <3>1
        <3>3. (u \in mirHidden') = h
            BY <1>4, <3>2, Zenon
        <3> QED
            BY <2>5, <2>6, <2>8, <3>3
    <2> QED
        BY <2>7, <2>8
<1>8. \/ events' = t /\ UNCHANGED <<mirFocus, mirHidden>>
      \/ /\ s # NoSurface => Live(s)
         /\ mirFocus' = s /\ mirHidden' = mirHidden \ {s}
         /\ events' = MovesFocus(t, OptionalSignal(s \in mirHidden, Event("shown", s)), mirFocus, s)
    BY <1>1, <1>3, <1>5, MirActivateMoves, Zenon
<1> QED
    BY <1>6, <1>7, <1>8

\* What a delivered signal tells the shell of a surface's state.
LEMMA ViewsDelivered ==
    ASSUME TypeOK, SignalNext
    PROVE  \A s \in Surfaces : ~Is(Head(events), {"destroyed"}, s) =>
               /\ ~Is(Head(events), Views, s) => (s \in qtHidden' <=> s \in qtHidden)
               /\ Is(Head(events), {"hidden"}, s) => s \in qtHidden'
               /\ Is(Head(events), {"shown"}, s) => s \notin qtHidden'
<1> DEFINE e == Head(events)
<1>1. ASSUME NEW kind \in {"hidden", "shown", "destroyed"}, Deliver(kind)
      PROVE  e.kind = kind /\ \A s, K : Is(e, K, s) <=> kind \in K /\ s = Subject
    <2>1. e \in Signals /\ e.kind = kind
        BY <1>1, SubjectType DEF Deliver
    <2>2. e.of # <<>>
        BY <2>1 DEF Signals, Brackets
    <2> QED
        BY <2>1, <2>2 DEF Is, Subject
<1> SUFFICES ASSUME NEW s \in Surfaces, ~Is(e, {"destroyed"}, s)
             PROVE  /\ ~Is(e, Views, s) => (s \in qtHidden' <=> s \in qtHidden)
                    /\ Is(e, {"hidden"}, s) => s \in qtHidden'
                    /\ Is(e, {"shown"}, s) => s \notin qtHidden'
    OBVIOUS
<1>2. CASE SurfaceHidden
    <2>1. Deliver("hidden") /\ qtHidden' = qtHidden \cup {Subject}
        BY <1>2, Zenon DEF SurfaceHidden
    <2>2. \A K : Is(e, K, s) <=> "hidden" \in K /\ s = Subject
        BY <1>1, <2>1
    <2> HIDE DEF e
    <2> QED
        BY <2>1, <2>2 DEF Views
<1>3. CASE SurfaceShown
    <2>1. Deliver("shown") /\ qtHidden' = qtHidden \ {Subject}
        BY <1>3, Zenon DEF SurfaceShown
    <2>2. \A K : Is(e, K, s) <=> "shown" \in K /\ s = Subject
        BY <1>1, <2>1
    <2> HIDE DEF e
    <2> QED
        BY <2>1, <2>2 DEF Views
<1>4. CASE SurfaceDestroyed
    <2>1. Deliver("destroyed") /\ qtHidden' = qtHidden \ {Subject}
        BY <1>4, Zenon DEF SurfaceDestroyed
    <2>2. \A K : Is(e, K, s) <=> "destroyed" \in K /\ s = Subject
        BY <1>1, <2>1
    <2> HIDE DEF e
    <2> QED
        BY <2>1, <2>2 DEF Views
<1>5. CASE ~(SurfaceHidden \/ SurfaceShown \/ SurfaceDestroyed)
    <2>1. /\ qtHidden' = qtHidden
          /\ \/ Deliver("started") \/ Deliver("ended") \/ Deliver("lost") \/ Deliver("gained")
             \/ Deliver("raised") \/ Deliver("added") \/ Deliver("away") \/ Deliver("died")
        BY <1>5, Zenon
        DEF SignalNext, OnModificationsStarted, OnModificationsEnded, FocusLost, FocusGained,
            UpdateFocused, OnSurfacesRaised, SkipKnownSurface, RemoveSurfaces, DeferHiddenSurface,
            AddTopLevelSurface, WrapSurface, SetInputMethodWindow, Arrives, SurfaceDied,
            InputMethodDied, objectVars
    <2>2. e.kind \notin {"hidden", "shown"}
        BY <2>1 DEF Deliver
    <2> QED
        BY <2>1, <2>2 DEF Is
<1> QED
    BY <1>2, <1>3, <1>4, <1>5

\* What the shell knows of a live surface's state, and Mir has, agrees.
Follow == \A s \in Surfaces : mirLife[s] = "live" => Follows(events, s \in qtHidden, s \in mirHidden, s)

\* A surface that lives on while one signal is added, which does not say it is hidden or shown.
LEMMA FollowsKept ==
    ASSUME TypeOK, NEW t \in Surfaces, Follows(events, t \in qtHidden, t \in mirHidden, t),
           NEW e \in Signals, ~Is(e, Views, t), events' = Append(events, e),
           t \in qtHidden' <=> t \in qtHidden, t \in mirHidden' <=> t \in mirHidden
    PROVE  Follows(events', t \in qtHidden', t \in mirHidden', t)
<1>1. events \in Seq(Signals) /\ Append(events, e) = events \o <<e>>
    BY Queued DEF TypeOK
<1>2. (t \in qtHidden') = (t \in qtHidden) /\ (t \in mirHidden') = (t \in mirHidden)
    OBVIOUS
<1>3. Follows(events \o <<e>>, t \in qtHidden, t \in mirHidden, t)
    BY <1>1, FollowsMore
<1> QED
    BY <1>1, <1>2, <1>3

\* A new surface is shown until it is said to be hidden.
LEMMA CreatedFollows ==
    ASSUME TypeOK, Living, Follow, NEW s \in Surfaces, NEW hide \in BOOLEAN, NEW here \in BOOLEAN,
           CreateSurface(s, hide, here)
    PROVE  Follow'
<1> DEFINE kind == IF here THEN "added" ELSE "away"
           e == Event(kind, s)
<1>1. /\ events \in Seq(Signals) /\ mirLife \in [Surfaces -> {"none", "live", "dead", "gone"}]
      /\ e \in Signals
    BY EventType DEF TypeOK, EventKinds, Brackets
<1>2. /\ mirLife[s] = "none" \/ (mirLife[s] = "gone" /\ ~Pending(s))
      /\ mirLife' = [mirLife EXCEPT ![s] = "live"]
      /\ events' = Append(events, e)
      /\ \A t : t # s => (t \in qtHidden' <=> t \in qtHidden) /\ (t \in mirHidden' <=> t \in mirHidden)
      /\ s \in qtHidden' <=> s \in mirHidden'
    BY DEF CreateSurface
<1>3. \A t : ~Is(e, Views, t)
    BY FocusIsNoView
<1> HIDE DEF e
<1>4. ~Says(events, Views, s)
    <2>1. LifeOf(events, mirLife[s], s \in liveSurfaces, s)
        BY DEF Living, Lives
    <2>2. mirLife[s] = "none" => ~Mentions(events, s)
        BY <2>1 DEF LifeOf
    <2>3. DOMAIN events = 1 .. Len(events) /\ \A i \in 1 .. Len(events) : events[i] \in Signals
        BY <1>1
    <2>4. ~Mentions(events, s)
        BY <1>2, <2>2, <2>3 DEF Pending, Mentions
    <2> QED
        BY <2>3, <2>4, IsMentions DEF Says, Mentions
<1>5. Append(events, e) = events \o <<e>>
    BY <1>1, Queued
<1>6. ASSUME NEW t \in Surfaces, mirLife'[t] = "live"
      PROVE  Follows(events', t \in qtHidden', t \in mirHidden', t)
    <2>1. CASE t = s
        <3>1. Follows(events, s \in qtHidden', s \in mirHidden', s)
            BY <1>2, <1>4 DEF Follows
        <3>2. Follows(events \o <<e>>, s \in qtHidden', s \in mirHidden', s)
            BY <1>1, <1>3, <3>1, FollowsMore
        <3> QED
            BY <1>2, <1>5, <2>1, <3>2
    <2>2. CASE t # s
        <3>1. mirLife[t] = "live"
            BY <1>1, <1>2, <1>6, <2>2
        <3> QED
            BY <1>1, <1>2, <1>3, <2>2, <3>1, FollowsKept DEF Follow
    <2> QED
        BY <2>1, <2>2
<1> QED
    BY <1>6 DEF Follow

\* The signal that tells of a workspace's content.
LEMMA ContentLeaves ==
    ASSUME TypeOK, MoveWorkspaceContent, NEW ss \in SetToSeqs(mirHere)
    PROVE  [kind |-> "away", of |-> ss] \in Signals
<1>1. ss \in [1 .. Cardinality(mirHere) -> mirHere]
    BY DEF SetToSeqs
<1>2. Cardinality(mirHere) \in Nat /\ Cardinality(mirHere) # 0
    <2>1. mirHere \in SUBSET Surfaces /\ mirHere # {}
        BY DEF MoveWorkspaceContent, TypeOK
    <2>2. IsFiniteSet(mirHere)
        BY <2>1, FS_Subset, SurfacesAssumption
    <2> QED
        BY <2>1, <2>2, FS_EmptySet, FS_CardinalityType
<1>3. ss \in Seq(Surfaces) /\ ss # <<>>
    <2>1. mirHere \subseteq Surfaces
        BY DEF TypeOK
    <2> QED
        BY <1>1, <1>2, <2>1
<1> QED
    BY <1>3 DEF Signals, EventKinds, Brackets

\* Mir keeps what it emits in step with its surfaces.
LEMMA MirFollow ==
    ASSUME TypeOK, Living, Follow, MirNext
    PROVE  Follow'
<1>1. /\ events \in Seq(Signals) /\ mirFocus \in Surfaces \cup {NoSurface}
      /\ mirLife \in [Surfaces -> {"none", "live", "dead", "gone"}]
    BY DEF TypeOK
<1>2. ASSUME NEW s \in Surfaces, Refocus(s)
      PROVE  Follow'
    <2>1. MirActivate(s, events) /\ UNCHANGED <<mirLife, qtHidden>>
        BY <1>2 DEF Refocus, objectVars
    <2>2. Calls(events)
        BY <2>1 DEF Calls, RaisedIn
    <2>3. ASSUME NEW t \in Surfaces, mirLife[t] = "live"
          PROVE  Follows(events', t \in qtHidden, t \in mirHidden', t)
        BY <1>1, <2>2, <2>3, CallsFollow DEF Follow
    <2> QED
        BY <2>1, <2>3 DEF Follow
<1>3. ASSUME NEW s \in Surfaces, NEW kind \in {"hidden", "shown"},
             NEW old \in Surfaces \cup {NoSurface}, NEW next \in Surfaces \cup {NoSurface},
             events' = MovesFocus(events, OptionalSignal(TRUE, Event(kind, s)), old, next),
             \A t : t # s => (t \in mirHidden' <=> t \in mirHidden),
             s \in mirHidden' <=> kind = "hidden",
             UNCHANGED <<mirLife, qtHidden>>
      PROVE  Follow'
    <2>1. ASSUME NEW t \in Surfaces, mirLife[t] = "live"
          PROVE  Follows(events', t \in qtHidden, t \in mirHidden', t)
        <3>1. Follows(events, t \in qtHidden, t \in mirHidden, t)
            BY <2>1 DEF Follow
        <3>2. PICK e : e = Event(kind, s)
            OBVIOUS
        <3>3. e \in Signals /\ events' = MovesFocus(events, OptionalSignal(TRUE, e), old, next)
            BY <1>3, <3>2, EventType DEF EventKinds, Brackets
        <3>4. /\ ~Is(e, Views, t) => Follows(events', t \in qtHidden, t \in mirHidden, t)
              /\ Is(e, {"hidden"}, t) => Follows(events', t \in qtHidden, TRUE, t)
              /\ Is(e, {"shown"}, t) => Follows(events', t \in qtHidden, FALSE, t)
            BY <1>1, <3>1, <3>3, FollowsMoves
        <3>5. /\ \A K : Is(e, K, s) <=> kind \in K
              /\ \A v : v # s => \A K : ~Is(e, K, v)
            BY <3>2, AboutOne
        <3>6. CASE t # s
            <4>1. (t \in mirHidden') = (t \in mirHidden)
                BY <1>3, <3>6
            <4> QED
                BY <3>4, <3>5, <3>6, <4>1
        <3>7. CASE t = s /\ kind = "hidden"
            <4>1. (t \in mirHidden') = TRUE
                BY <1>3, <3>7
            <4> QED
                BY <3>4, <3>5, <3>7, <4>1
        <3>8. CASE t = s /\ kind = "shown"
            <4>1. (t \in mirHidden') = FALSE
                BY <1>3, <3>8
            <4> QED
                BY <3>4, <3>5, <3>8, <4>1
        <3> QED
            BY <1>3, <3>6, <3>7, <3>8
    <2> QED
        BY <1>3, <2>1 DEF Follow
<1>4. ASSUME NEW s \in Surfaces, ShowSurface(s)
      PROVE  Follow'
    <2>1. events' = MovesFocus(events, OptionalSignal(TRUE, Event("shown", s)), NoSurface, NoSurface)
        BY <1>4, MirSteps
    <2>2. mirHidden' = mirHidden \ {s} /\ UNCHANGED <<mirLife, qtHidden>>
        BY <1>4 DEF ShowSurface, objectVars
    <2> QED
        BY <1>3, <2>1, <2>2
<1>5. ASSUME NEW s \in Surfaces, NEW next \in Surfaces \cup {NoSurface}, HideSurface(s, next)
      PROVE  Follow'
    <2> DEFINE old == IF mirFocus = s THEN s ELSE NoSurface
    <2>1. events' = MovesFocus(events, OptionalSignal(TRUE, Event("hidden", s)), old, next)
        BY <1>5, MirSteps
    <2>2. mirHidden' = mirHidden \cup {s} /\ UNCHANGED <<mirLife, qtHidden>>
        BY <1>5 DEF HideSurface, objectVars
    <2>3. old \in Surfaces \cup {NoSurface}
        OBVIOUS
    <2> HIDE DEF old
    <2> QED
        BY <1>3, <2>1, <2>2, <2>3
<1>6. ASSUME NEW e \in Signals, events' = Append(events, e), \A t : ~Is(e, Views, t),
             UNCHANGED <<qtHidden, mirHidden>>, \A t \in Surfaces : mirLife'[t] = "live" => mirLife[t] = "live"
      PROVE  Follow'
    <2>1. ASSUME NEW t \in Surfaces, mirLife'[t] = "live"
          PROVE  Follows(events', t \in qtHidden', t \in mirHidden', t)
        BY <1>6, <2>1, FollowsKept DEF Follow
    <2> QED
        BY <2>1 DEF Follow
<1>7. ASSUME NEW s \in Surfaces, Die(s)
      PROVE  Follow'
    <2>1. /\ events' = Append(events, Event("died", s)) /\ UNCHANGED <<qtHidden, mirHidden>>
          /\ \A t \in Surfaces : mirLife'[t] = "live" => mirLife[t] = "live"
        BY <1>1, <1>7 DEF Die, objectVars
    <2>2. Event("died", s) \in Signals
        BY EventType DEF EventKinds, Brackets
    <2>3. "died" \notin {"hidden", "shown"}
        OBVIOUS
    <2>4. \A t : ~Is(Event("died", s), Views, t)
        BY <2>3, FocusIsNoView, Zenon
    <2> QED
        BY <1>6, <2>1, <2>2, <2>4
<1>8. ASSUME NEW s \in Surfaces, NEW here \in BOOLEAN, MoveSurface(s, here)
      PROVE  Follow'
    <2> DEFINE kind == IF here THEN "added" ELSE "away"
    <2>1. events' = Append(events, Event(kind, s)) /\ UNCHANGED <<qtHidden, mirHidden, mirLife>>
        BY <1>8 DEF MoveSurface, objectVars
    <2>2. Event(kind, s) \in Signals
        BY EventType DEF EventKinds, Brackets
    <2>3. kind \notin {"hidden", "shown"}
        OBVIOUS
    <2>4. \A t : ~Is(Event(kind, s), Views, t)
        BY <2>3, FocusIsNoView, Zenon
    <2> QED
        BY <1>6, <2>1, <2>2, <2>4
<1>9. CASE MoveWorkspaceContent
    <2>1. PICK ss \in SetToSeqs(mirHere) : events' = Append(events, [kind |-> "away", of |-> ss])
        BY <1>9 DEF MoveWorkspaceContent
    <2> DEFINE e == [kind |-> "away", of |-> ss]
    <2>2. UNCHANGED <<qtHidden, mirHidden, mirLife>>
        BY <1>9 DEF MoveWorkspaceContent, objectVars
    <2>3. e \in Signals
        BY <1>9, <2>1, ContentLeaves
    <2>4. \A t : ~Is(e, Views, t)
        BY DEF Is, Views
    <2> HIDE DEF e
    <2>5. events' = Append(events, e)
        BY <2>1 DEF e
    <2> QED
        BY <1>6, <2>2, <2>3, <2>4, <2>5
<1>10. ASSUME NEW s \in Surfaces, NEW next \in Surfaces \cup {NoSurface}, Destroy(s, next)
       PROVE  Follow'
    <2> DEFINE q == IF mirFocus = s
                    THEN MovesFocus(events, OptionalSignal(FALSE, Event("shown", s)), NoSurface, next)
                    ELSE events
    <2>1. events' = q \o <<Event("destroyed", s)>>
        BY <1>10, MirSteps
    <2>2. /\ mirLife' = [mirLife EXCEPT ![s] = "gone"] /\ mirHidden' = mirHidden \ {s}
          /\ qtHidden' = qtHidden
        BY <1>10 DEF Destroy, objectVars
    <2>3. ASSUME NEW t \in Surfaces, mirLife'[t] = "live"
          PROVE  Follows(events', t \in qtHidden', t \in mirHidden', t)
        <3>1. t # s /\ mirLife[t] = "live"
            BY <1>1, <2>2, <2>3
        <3>2. Follows(events, t \in qtHidden, t \in mirHidden, t)
            BY <3>1 DEF Follow
        <3>3. Follows(q, t \in qtHidden, t \in mirHidden, t) /\ q \in Seq(Signals)
            <4>1. PICK known, hidden :
                    known = (t \in qtHidden) /\ hidden = (t \in mirHidden)
                OBVIOUS
            <4>2. Follows(events, known, hidden, t) /\ events \in Seq(Signals)
                BY <1>1, <3>2, <4>1
            <4>3. OptionalSignal(FALSE, Event("shown", s)) = <<>>
                BY DEF OptionalSignal
            <4>4. PICK m : m = MovesFocus(events, <<>>, NoSurface, next)
                OBVIOUS
            <4>5. q = IF mirFocus = s THEN m ELSE events
                BY <4>3, <4>4
            <4> HIDE DEF q
            <4>6. next \in Surfaces \cup {NoSurface} /\ NoSurface \in Surfaces \cup {NoSurface}
                BY <1>10
            <4>7. \A q0 : q0 \in Seq(Signals) /\ Follows(q0, known, hidden, t)
                            /\ m = MovesFocus(q0, <<>>, NoSurface, next)
                         => m \in Seq(Signals) /\ Follows(m, known, hidden, t)
                BY <4>6, FollowsFocus
            <4>8. m \in Seq(Signals) /\ Follows(m, known, hidden, t)
                BY <4>2, <4>4, <4>7, Zenon
            <4> QED
                BY <4>1, <4>2, <4>5, <4>8
        <3> HIDE DEF q
        <3>4. Event("destroyed", s) \in Signals
            BY EventType DEF EventKinds, Brackets
        <3>5. "destroyed" \notin {"hidden", "shown"}
            OBVIOUS
        <3>6. ~Is(Event("destroyed", s), Views, t)
            BY <3>5, FocusIsNoView, Zenon
        <3>7. Follows(events', t \in qtHidden, t \in mirHidden, t)
            BY <2>1, <3>3, <3>4, <3>6, FollowsMore
        <3>8. (t \in qtHidden') = (t \in qtHidden) /\ (t \in mirHidden') = (t \in mirHidden)
            BY <2>2, <3>1
        <3> QED
            BY <3>7, <3>8
    <2> QED
        BY <2>3 DEF Follow
<1> QED
    BY <1>2, <1>4, <1>5, <1>7, <1>8, <1>9, <1>10, CreatedFollows DEF MirNext

\* The handlers of signals keep up with what was emitted.
LEMMA SignalsFollow ==
    ASSUME TypeOK, Living, Follow, SignalNext
    PROVE  Follow'
<1>1. /\ events \in Seq(Signals) /\ events # <<>> /\ Tail(events) \in Seq(Signals)
      /\ Calls(Tail(events))
    BY SignalsCall
<1>2. UNCHANGED mirLife
    BY DeathsDelivered
<1>3. ASSUME NEW s \in Surfaces, mirLife[s] = "live"
      PROVE  Follows(events', s \in qtHidden', s \in mirHidden', s)
    <2>1. LifeOf(events, mirLife[s], s \in liveSurfaces, s)
        BY DEF Living, Lives
    <2>2. ~Says(events, Leaving, s)
        BY <1>3, <2>1 DEF LifeOf
    <2>3. ~Is(Head(events), {"destroyed"}, s)
        BY <1>1, <2>2, SaysLess, KindsApart
    <2>4. /\ ~Is(Head(events), Views, s) => (s \in qtHidden' <=> s \in qtHidden)
          /\ Is(Head(events), {"hidden"}, s) => s \in qtHidden'
          /\ Is(Head(events), {"shown"}, s) => s \notin qtHidden'
        BY <2>3, ViewsDelivered
    <2>5. Follows(events, s \in qtHidden, s \in mirHidden, s)
        BY <1>3 DEF Follow
    <2>6. Follows(Tail(events), s \in qtHidden', s \in mirHidden, s)
        BY <1>1, <2>4, <2>5, FollowsLess
    <2> QED
        BY <1>1, <2>6, CallsFollow
<1> QED
    BY <1>2, <1>3 DEF Follow

\* So the shell follows the views of the surfaces at all times.
LEMMA FollowAlways == Spec => []Follow
<1>1. Init => Follow
    BY DEF Init, Follow
<1>2. TypeOK /\ Living /\ Follow /\ [Next]_vars => Follow'
    <2> SUFFICES ASSUME TypeOK, Living, Follow, [Next]_vars
                 PROVE  Follow'
        OBVIOUS
    <2>1. CASE ShellNext \/ ApplicationNext
        <3>1. Calls(events) /\ events \in Seq(Signals)
            BY <2>1, ShellCalls, ApplicationsCall DEF TypeOK
        <3>2. UNCHANGED <<mirLife, qtHidden>>
            BY <2>1, Zenon
            DEF ShellNext, SetRootFocus, RaiseId, ActivateWindow, CloseWindow, PendingActivation,
                CloseAllWindows, unfocusable, objectVars, ApplicationNext, AddApplication,
                RemoveApplication
        <3>3. ASSUME NEW t \in Surfaces, mirLife[t] = "live"
              PROVE  Follows(events', t \in qtHidden, t \in mirHidden', t)
            BY <3>1, <3>3, CallsFollow DEF Follow
        <3> QED
            BY <3>2, <3>3 DEF Follow
    <2>2. CASE (\E w \in Windows : DeferredDelete(w)) \/ UNCHANGED vars
        BY <2>2 DEF DeferredDelete, vars, mirVars, objectVars, Follow
    <2> QED
        BY <2>1, <2>2, SignalsFollow, MirFollow DEF Next
<1> QED
    BY <1>1, <1>2, LivesAlways, TypeCorrectness, PTL DEF Spec

-----------------------------------------------------------------------------
\* The surfaces with a row are not X11 ones, which may fill rows of other applications.
NoX11Surfaces == \A s \in Surfaces : IsTopLevel(s) => AppOf[s] # XwaylandApp

(* Where a surface is once it was announced: its first show is awaited, or *)
(* it has a window, which is hidden or has a row.                          *)
HasWindowInPlace(s) ==
    \E w \in Windows : /\ surfaceOf[w] = s
                       /\ IF s \in qtHidden THEN w \in hiddenWindows ELSE InRows(w, rows)
InPlace(s) == (s \in deferred /\ s \in qtHidden) \/ HasWindowInPlace(s)

\* The rows are of the applications of their surfaces.
RowsFit ==
    \A w \in Windows : InRows(w, rows) /\ surfaceOf[w] # NoSurface => AppOf[surfaceOf[w]] = entryApp[w]

\* What most steps do to the place of a surface, and to the rows.
KeepsPlace(s) ==
    /\ s \in deferred => s \in deferred'
    /\ s \in qtHidden' <=> s \in qtHidden
    /\ \A w \in Windows : surfaceOf[w] = s => /\ surfaceOf'[w] = s
                                              /\ w \in hiddenWindows => w \in hiddenWindows'
                                              /\ InRows(w, rows) => InRows(w, rows')
FitsStill(w) ==
    \/ InRows(w, rows) /\ entryApp'[w] = entryApp[w] /\ surfaceOf'[w] \in {surfaceOf[w], NoSurface}
    \/ entryApp'[w] = AppOf[surfaceOf'[w]]

\* A surface stays in its place where windows and deferral stay.
LEMMA PlaceKept ==
    ASSUME NEW s, KeepsPlace(s), InPlace(s)
    PROVE  InPlace(s)'
<1>1. CASE s \in deferred /\ s \in qtHidden
    BY <1>1 DEF KeepsPlace, InPlace
<1>2. CASE HasWindowInPlace(s)
    <2>1. PICK w \in Windows : /\ surfaceOf[w] = s
                               /\ IF s \in qtHidden THEN w \in hiddenWindows ELSE InRows(w, rows)
        BY <1>2 DEF HasWindowInPlace
    <2>2. surfaceOf'[w] = s /\ IF s \in qtHidden' THEN w \in hiddenWindows' ELSE InRows(w, rows')
        BY <2>1 DEF KeepsPlace
    <2> QED
        BY <2>2 DEF InPlace, HasWindowInPlace
<1> QED
    BY <1>1, <1>2 DEF InPlace

\* The rows fit where windows keep their surfaces and applications.
LEMMA RowsFitStill ==
    ASSUME RowsFit, \A w \in Windows : InRows(w, rows') => FitsStill(w)
    PROVE  RowsFit'
BY DEF RowsFit, FitsStill

\* The row a surface fills, if it is no X11 surface, is of its application.
LEMMA FilledRowFits ==
    ASSUME NEW s, AppOf[s] # XwaylandApp, NEW S, rows \in Seq(S), NEW i, i = FillRow(s), i # 0
    PROVE  i \in 1 .. Len(rows) /\ Fillable(rows[i]) /\ entryApp[rows[i]] = AppOf[s]
<1> DEFINE I == {k \in 1 .. Len(rows) : Fillable(rows[k]) /\ entryApp[rows[k]] \in {AppOf[s]}}
<1>1. i = FirstFillable({AppOf[s]})
    BY DEF FillRow
<1>2. DOMAIN rows = 1 .. Len(rows)
    OBVIOUS
<1>3. i = IF I # {} THEN Min(I) ELSE 0
    BY <1>1, <1>2 DEF FirstFillable, SelectInSeq
<1>4. I \subseteq Nat
    OBVIOUS
<1>5. i \in I
    <2> HIDE DEF I
    <2> QED
        BY <1>3, <1>4, MinIsLeast
<1> QED
    BY <1>5

\* The surface that is prepended takes no living surface's place.
LEMMA PrependFits ==
    ASSUME Sound, Places, NEW s \in Surfaces, AppOf[s] # XwaylandApp, NEW q, PrependSurface(s, rows, q)
    PROVE  /\ \E w \in Windows : surfaceOf'[w] = s /\ InRows(w, rows')
           /\ \A w \in Windows : surfaceOf[w] \in liveSurfaces => surfaceOf'[w] = surfaceOf[w]
           /\ \A w \in Windows : /\ InRows(w, rows) => InRows(w, rows')
                                 /\ InRows(w, rows') => FitsStill(w)
           /\ allSurfaces' = allSurfaces \cup {s}
<1>1. /\ surfaceOf \in SurfaceMaps /\ rows \in Seq(Rows) /\ TypeOK
      /\ entryApp \in [Windows -> Apps \cup {NoApp}]
      /\ \A k \in 1 .. Len(rows) : rows[k] \in Windows
      /\ NoSurface \notin liveSurfaces
    BY SoundWindows, SurfacesAssumption DEF Sound, TypeOK
<1> DEFINE i == FillRow(s)
<1>2. allSurfaces' = allSurfaces \cup {s}
    BY Zenon DEF PrependSurface
<1>3. CASE i # 0
    <2>w. PICK w : w = rows[i]
        OBVIOUS
    <2>1. /\ surfaceOf' = [surfaceOf EXCEPT ![w] = s] /\ rows' = rows
          /\ UNCHANGED entryApp
        BY <1>3, <2>w DEF PrependSurface
    <2>2. i \in 1 .. Len(rows) /\ Fillable(w) /\ entryApp[w] = AppOf[s]
        <3>1. PICK j : j = i
            OBVIOUS
        <3>2. j \in 1 .. Len(rows) /\ Fillable(rows[j]) /\ entryApp[rows[j]] = AppOf[s]
            BY <1>1, <1>3, <3>1, FilledRowFits
        <3> QED
            BY <2>w, <3>1, <3>2
    <2> HIDE DEF i
    <2>3. w \in Windows /\ InRows(w, rows)
        BY <1>1, <2>2, <2>w DEF InRows
    <2>4. surfaceOf'[w] = s /\ \A v \in Windows : v # w => surfaceOf'[v] = surfaceOf[v]
        BY <1>1, <2>1, <2>3 DEF SurfaceMaps
    <2>5. surfaceOf[w] \notin liveSurfaces
        BY <1>1, <2>2 DEF Fillable
    <2>6. FitsStill(w)
        BY <2>1, <2>2, <2>4 DEF FitsStill
    <2>7. \A v \in Windows : v # w /\ InRows(v, rows') => FitsStill(v)
        BY <2>1, <2>4 DEF FitsStill
    <2> QED
        BY <1>2, <2>1, <2>3, <2>4, <2>5, <2>6, <2>7
<1>4. CASE i = 0
    <2>n. PICK n : n = nextId
        OBVIOUS
    <2>1. /\ NewWindow(s) /\ rows' = <<nextId>> \o rows
          /\ entryApp' = [entryApp EXCEPT ![nextId] = AppOf[s]]
        BY <1>4, Zenon DEF PrependSurface
    <2>2. nextId \in Rows /\ nextId \in Windows /\ surfaceOf' = [surfaceOf EXCEPT ![nextId] = s]
        BY <1>1, <2>1, NewWindowType DEF NewWindow
    <2>3. \A v : InRows(v, rows') <=> v = n \/ InRows(v, rows)
        BY <1>1, <2>n, <2>1, <2>2, RowsPrepended
    <2>4. /\ n \in Windows /\ surfaceOf'[n] = s /\ entryApp'[n] = AppOf[s]
          /\ \A v \in Windows : v # n => surfaceOf'[v] = surfaceOf[v] /\ entryApp'[v] = entryApp[v]
        BY <1>1, <2>n, <2>1, <2>2 DEF SurfaceMaps
    <2>5. surfaceOf[n] \notin liveSurfaces
        BY <1>1, <2>n, <2>4, NewWindowIsNew DEF Places
    <2>6. FitsStill(n)
        BY <2>4 DEF FitsStill
    <2>7. \A v \in Windows : v # n /\ InRows(v, rows') => FitsStill(v)
        BY <2>3, <2>4 DEF FitsStill
    <2> QED
        BY <1>2, <2>3, <2>4, <2>5, <2>6, <2>7
<1> QED
    BY <1>3, <1>4

\* Rows that go are not those of other surfaces.
LEMMA RowsGoFit ==
    ASSUME Sound, NEW R, rows' = Without(rows, R), UNCHANGED entryApp,
           \A w \in Windows : surfaceOf'[w] \in {surfaceOf[w], NoSurface}
    PROVE  /\ \A w \in Windows : InRows(w, rows') => FitsStill(w)
           /\ \A w \in Windows : InRows(w, rows) /\ w \notin R => InRows(w, rows')
<1>1. \A w : InRows(w, rows') <=> InRows(w, rows) /\ w \notin R
    BY SoundWindows, RowsWithout
<1> QED
    BY <1>1 DEF FitsStill

Ours(s) == mirLife[s] = "live" /\ IsTopLevel(s)
Settles ==
    /\ RowsFit'
    /\ \A s \in Surfaces : Ours(s) /\ (InPlace(s) \/ Is(Head(events), {"added"}, s)) => InPlace(s)'
    /\ \A s \in allSurfaces' : s \in allSurfaces \/ Wraps(s)'
    /\ \A s \in deferred' : IsTopLevel(s)

(* A signal puts the surface it announces in its place, and leaves every   *)
(* other one in its own.                                                   *)
LEMMA SignalsSettle ==
    ASSUME NoX11Surfaces, Sound, Living, Places, RowsFit, \A s \in deferred : IsTopLevel(s),
           NoneOf(events, {"away"}), \A s \in allSurfaces : ~Says(events, {"added"}, s), SignalNext
    PROVE  Settles
<1> DEFINE e == Head(events)
<1>1. /\ TypeOK /\ NoSurface \notin Surfaces
      /\ surfaceOf \in SurfaceMaps /\ rows \in Seq(Rows) /\ windows \subseteq Windows
      /\ entryApp \in [Windows -> Apps \cup {NoApp}]
      /\ events \in Seq(Signals) /\ events # <<>> /\ e \in Signals
      /\ \A s : IsTopLevel(s) => s \notin InputMethods
    BY SignalsCall, SoundWindows, SurfacesAssumption DEF Sound, TypeOK, IsTopLevel
<1>2. /\ e.kind # "away"
      /\ \A s : Is(e, {"added"}, s) => s \notin allSurfaces
    BY <1>1, NoneOfTail, SaysLess
<1>3. \A s \in Surfaces : Ours(s) => s \in liveSurfaces /\ ~Is(e, Leaving, s)
    <2>1. ASSUME NEW s \in Surfaces, Ours(s)
          PROVE  s \in liveSurfaces /\ ~Is(e, Leaving, s)
        <3>1. LifeOf(events, mirLife[s], s \in liveSurfaces, s)
            BY DEF Living, Lives
        <3> QED
            BY <1>1, <2>1, <3>1, SaysLess DEF LifeOf, Ours
    <2> QED
        BY <2>1
<1>4. \A s : Is(e, {"added"}, s) => e.kind = "added" /\ Subject = s
    BY DEF Is, Subject
<1>5. e.kind \in Leaving => Is(e, Leaving, Subject)
    BY <1>1 DEF Is, Subject, Signals, Brackets, Leaving
<1>6. \A w : InRows(w, rows) => w \in windows /\ w \notin hiddenWindows /\ w # inputMethodWindow
    BY DEF Sound, RowsFrom, MayBeRows, InRows
<1> HIDE DEF e
\* Most of the steps.
<1>7. ASSUME \A s \in Surfaces : Ours(s) => KeepsPlace(s) /\ ~Is(e, {"added"}, s),
             \A w \in Windows : InRows(w, rows') => FitsStill(w),
             \A s \in allSurfaces' : s \in allSurfaces,
             \A s \in deferred' : s \in deferred
      PROVE  Settles
    <2>1. RowsFit'
        BY <1>7, RowsFitStill
    <2>2. \A s \in Surfaces : Ours(s) /\ (InPlace(s) \/ Is(Head(events), {"added"}, s)) => InPlace(s)'
        BY <1>7, PlaceKept DEF e
    <2> QED
        BY <1>7, <2>1, <2>2 DEF Settles
<1>8. CASE \/ OnModificationsStarted \/ OnModificationsEnded \/ FocusLost \/ FocusGained
           \/ SkipKnownSurface
    <2>1. UNCHANGED <<rows, surfaceOf, entryApp, allSurfaces, deferred, hiddenWindows, qtHidden>>
        BY <1>8, Zenon DEF OnModificationsStarted, OnModificationsEnded, FocusLost, FocusGained,
            UpdateFocused, SkipKnownSurface, objectVars, modelVars
    <2>2. e.kind = "added" => Subject \in allSurfaces
        BY <1>8 DEF OnModificationsStarted, OnModificationsEnded, FocusLost, FocusGained,
            UpdateFocused, SkipKnownSurface, Deliver, e
    <2>3. \A s : ~Is(e, {"added"}, s)
        BY <1>2, <1>4, <2>2
    <2>4. \A s : KeepsPlace(s)
        BY <2>1 DEF KeepsPlace
    <2>5. \A w \in Windows : InRows(w, rows') => FitsStill(w)
        BY <2>1 DEF FitsStill
    <2> QED
        BY <1>7, <2>1, <2>3, <2>4, <2>5
<1>9. CASE OnSurfacesRaised
    <2>1. /\ UNCHANGED <<surfaceOf, entryApp, allSurfaces, deferred, hiddenWindows, qtHidden>>
          /\ LET i == IndexOf(Subject, rows, surfaceOf)
             IN  rows' = IF i > 1 THEN MoveToFront(rows, i) ELSE rows
          /\ e.kind # "added"
        BY <1>9 DEF OnSurfacesRaised, objectVars, Deliver, e
    <2>2. LET i == IndexOf(Subject, rows, surfaceOf) IN i = 0 \/ i \in 1 .. Len(rows)
        BY <1>1, IndexOfFinds
    <2>3. \A v : InRows(v, rows') <=> InRows(v, rows)
        BY <1>1, <2>1, <2>2, RowsMoved
    <2>4. \A s : KeepsPlace(s)
        BY <2>1, <2>3 DEF KeepsPlace
    <2>5. \A w \in Windows : InRows(w, rows') => FitsStill(w)
        BY <2>1, <2>3 DEF FitsStill
    <2> QED
        BY <1>4, <1>7, <2>1, <2>4, <2>5
<1>10. ASSUME RemoveSurfaces
       PROVE  FALSE
    BY <1>2, <1>10 DEF RemoveSurfaces, Deliver, e
<1>12. ASSUME NEW s \in Surfaces, DeferHiddenSurface(s)
       PROVE  Settles
    <2>1. /\ Subject = s /\ IsTopLevel(s) /\ s \in qtHidden /\ deferred' = deferred \cup {s}
          /\ UNCHANGED <<rows, surfaceOf, entryApp, allSurfaces, hiddenWindows, qtHidden>>
        BY <1>12, Zenon DEF DeferHiddenSurface, Arrives, objectVars
    <2>2. \A t : KeepsPlace(t)
        BY <2>1 DEF KeepsPlace
    <2>3. \A w \in Windows : InRows(w, rows') => FitsStill(w)
        BY <2>1 DEF FitsStill
    <2>4. InPlace(s)'
        BY <2>1 DEF InPlace
    <2>5. \A t \in Surfaces : Ours(t) /\ (InPlace(t) \/ Is(Head(events), {"added"}, t)) => InPlace(t)'
        BY <1>4, <2>1, <2>2, <2>4, PlaceKept DEF e
    <2>6. RowsFit'
        BY <2>3, RowsFitStill
    <2> QED
        BY <2>1, <2>5, <2>6 DEF Settles
<1>13. ASSUME NEW s \in Surfaces, AddTopLevelSurface(s)
       PROVE  Settles
    <2>1. /\ Subject = s /\ IsTopLevel(s) /\ s \notin qtHidden
          /\ PrependSurface(s, rows, Tail(events))
          /\ UNCHANGED <<deferred, hiddenWindows, qtHidden>>
        BY <1>13, Zenon DEF AddTopLevelSurface, Arrives, objectVars
    <2>2. /\ \E w \in Windows : surfaceOf'[w] = s /\ InRows(w, rows')
          /\ \A w \in Windows : surfaceOf[w] \in liveSurfaces => surfaceOf'[w] = surfaceOf[w]
          /\ \A w \in Windows : /\ InRows(w, rows) => InRows(w, rows')
                                /\ InRows(w, rows') => FitsStill(w)
          /\ allSurfaces' = allSurfaces \cup {s}
        BY <2>1, PrependFits DEF NoX11Surfaces
    <2>3. InPlace(s)' /\ Wraps(s)'
        BY <2>1, <2>2 DEF InPlace, HasWindowInPlace, Wraps
    <2>4. \A t \in Surfaces : Ours(t) => KeepsPlace(t)
        BY <1>3, <2>1, <2>2 DEF KeepsPlace
    <2>5. \A t \in Surfaces : Ours(t) /\ (InPlace(t) \/ Is(Head(events), {"added"}, t)) => InPlace(t)'
        BY <1>4, <2>1, <2>3, <2>4, PlaceKept DEF e
    <2>6. RowsFit'
        BY <2>2, RowsFitStill
    <2>7. \A t \in allSurfaces' : t \in allSurfaces \/ t = s
        BY <2>2
    <2> QED
        BY <2>1, <2>3, <2>5, <2>6, <2>7 DEF Settles
\* A window that is no row.
<1>14. ASSUME NEW s \in Surfaces, ~IsTopLevel(s), Subject = s,
              \A w \in Windows : surfaceOf'[w] = surfaceOf[w] \/ w = nextId \/ w = inputMethodWindow,
              \A w \in hiddenWindows : w \in hiddenWindows',
              UNCHANGED <<rows, entryApp, allSurfaces, deferred, qtHidden>>
       PROVE  Settles
    <2>1. \A w \in Windows : InRows(w, rows') => FitsStill(w)
        BY <1>6, <1>14, NewWindowIsNew DEF FitsStill
    <2>2. surfaceOf[nextId] \notin Surfaces \/ nextId \notin Windows
        BY <1>1, NewWindowIsNew DEF Places
    <2>3. inputMethodWindow \in Windows => surfaceOf[inputMethodWindow] \in InputMethods \cup {NoSurface}
        BY DEF Sound, NoWindow, Windows
    <2>4. ASSUME NEW t \in Surfaces, Ours(t)
          PROVE  KeepsPlace(t) /\ ~Is(e, {"added"}, t)
        <3>1. ~Is(e, {"added"}, t)
            BY <1>4, <1>14, <2>4 DEF Ours
        <3>2. \A w \in Windows : surfaceOf[w] = t => surfaceOf'[w] = t
            BY <1>1, <1>14, <2>2, <2>3, <2>4 DEF Ours
        <3> QED
            BY <1>14, <3>1, <3>2 DEF KeepsPlace
    <2> QED
        BY <1>7, <1>14, <2>1, <2>4
<1>15. ASSUME NEW s \in Surfaces, WrapSurface(s)
       PROVE  Settles
    <2>1. /\ ~IsTopLevel(s) /\ Subject = s
          /\ surfaceOf' = [surfaceOf EXCEPT ![nextId] = s]
          /\ hiddenWindows' = IF s \in qtHidden THEN hiddenWindows \cup {nextId} ELSE hiddenWindows
          /\ UNCHANGED <<rows, entryApp, allSurfaces, deferred, qtHidden>>
        BY <1>15, Zenon DEF WrapSurface, Arrives, NewWindow, objectVars
    <2>2. \A w \in Windows : surfaceOf'[w] = surfaceOf[w] \/ w = nextId
        BY <1>1, <2>1 DEF SurfaceMaps
    <2> QED
        BY <1>14, <2>1, <2>2
<1>16. ASSUME NEW s \in Surfaces, SetInputMethodWindow(s)
       PROVE  Settles
    <2>1. /\ s \in InputMethods /\ Subject = s
          /\ surfaceOf' = [w \in Windows |-> IF w = nextId THEN s
                                             ELSE IF w = inputMethodWindow THEN NoSurface
                                             ELSE surfaceOf[w]]
          /\ UNCHANGED <<rows, entryApp, allSurfaces, deferred, qtHidden, hiddenWindows>>
        BY <1>16, Zenon DEF SetInputMethodWindow, Arrives, objectVars
    <2>2. \A w \in Windows : surfaceOf'[w] = surfaceOf[w] \/ w = nextId \/ w = inputMethodWindow
        BY <2>1
    <2> QED
        BY <1>1, <1>14, <2>1, <2>2
<1>17. CASE SurfaceHidden
    <2>t. PICK t : t = Subject
        OBVIOUS
    <2> DEFINE W == {w \in windows : surfaceOf[w] = t /\ w \notin hiddenWindows}
    <2>1. /\ qtHidden' = qtHidden \cup {t} /\ hiddenWindows' = hiddenWindows \cup W
          /\ rows' = Without(rows, {w \in W : InRows(w, rows)})
          /\ \A s \in allSurfaces' : s \in allSurfaces
          /\ UNCHANGED <<surfaceOf, entryApp, deferred>>
          /\ e.kind # "added"
        BY <1>17, <2>t DEF SurfaceHidden, Deliver, e
    <2>2. \A w : w \in W <=> w \in windows /\ surfaceOf[w] = t /\ w \notin hiddenWindows
        OBVIOUS
    <2> HIDE DEF W
    <2>3. /\ \A w \in Windows : InRows(w, rows') => FitsStill(w)
          /\ \A w \in Windows : InRows(w, rows) /\ w \notin W => InRows(w, rows')
        BY <2>1, RowsGoFit
    <2>4. \A s : s # t => KeepsPlace(s)
        BY <2>1, <2>2, <2>3 DEF KeepsPlace
    <2>5. t \in Surfaces /\ InPlace(t) => InPlace(t)'
        <3>1. CASE t \in deferred /\ t \in qtHidden
            BY <2>1, <3>1 DEF InPlace
        <3>2. ASSUME t \in Surfaces, HasWindowInPlace(t)
              PROVE  InPlace(t)'
            <4>1. PICK w \in Windows : surfaceOf[w] = t
                BY <3>2 DEF HasWindowInPlace
            <4>2. w \in windows
                BY <1>1, <3>2, <4>1 DEF Places
            <4>3. surfaceOf'[w] = t /\ t \in qtHidden' /\ w \in hiddenWindows'
                BY <2>1, <2>2, <4>1, <4>2
            <4> QED
                BY <4>3 DEF InPlace, HasWindowInPlace
        <3> QED
            BY <3>1, <3>2 DEF InPlace
    <2>6. \A s \in Surfaces : Ours(s) /\ (InPlace(s) \/ Is(Head(events), {"added"}, s)) => InPlace(s)'
        BY <1>4, <2>1, <2>4, <2>5, PlaceKept DEF e
    <2>7. RowsFit'
        BY <2>3, RowsFitStill
    <2> QED
        BY <2>1, <2>6, <2>7 DEF Settles
<1>18. CASE SurfaceShown
    <2>t. PICK t : t = Subject
        OBVIOUS
    <2> DEFINE W == {w \in windows : surfaceOf[w] = t /\ w \in hiddenWindows}
               back == {w \in W : ~InRows(w, rows) /\ IsTopLevel(t)}
    <2>1. /\ qtHidden' = qtHidden \ {t} /\ hiddenWindows' = hiddenWindows \ W
          /\ deferred' = deferred \ {t}
          /\ e.kind = "shown" /\ t \in Surfaces
        BY <1>1, <1>18, <2>t, SubjectType DEF SurfaceShown, Deliver, Brackets, e
    <2>2. \A w : /\ w \in W <=> w \in windows /\ surfaceOf[w] = t /\ w \in hiddenWindows
                 /\ w \in back <=> w \in W /\ ~InRows(w, rows) /\ IsTopLevel(t)
        OBVIOUS
    <2>3. PICK r : /\ r = IF back = {} THEN rows ELSE <<CHOOSE w \in back : TRUE>> \o rows
                   /\ \/ t \in deferred /\ PrependSurface(t, r, Tail(events))
                      \/ /\ t \notin deferred /\ rows' = r /\ UNCHANGED <<surfaceOf, allSurfaces>>
                         /\ entryApp' = [w \in Windows |-> IF w \in back THEN AppOf[t] ELSE entryApp[w]]
        BY <1>18, <2>t DEF SurfaceShown
    <2>4. back # {} => (CHOOSE w \in back : TRUE) \in back
        OBVIOUS
    <2> HIDE DEF W, back
    <2>5. \A w \in back : w \in Rows
        BY <1>1, <2>1, <2>2, SurfaceMapsType DEF Rows
    <2>6. /\ \A w \in Windows : InRows(w, rows) => InRows(w, r)
          /\ \A w \in Windows : InRows(w, r) => InRows(w, rows) \/ w \in back
          /\ back # {} => \E b \in back : InRows(b, r)
        <3>1. CASE back = {}
            BY <2>3, <3>1
        <3>2. CASE back # {}
            <4>1. PICK b : b = (CHOOSE w \in back : TRUE)
                OBVIOUS
            <4>2. b \in back /\ b \in Rows /\ r = <<b>> \o rows
                BY <2>3, <2>4, <2>5, <3>2, <4>1
            <4>3. \A w : InRows(w, r) <=> w = b \/ InRows(w, rows)
                BY <1>1, <4>2, RowsPrepended
            <4> QED
                BY <4>2, <4>3
        <3> QED
            BY <3>1, <3>2
    <2>7. CASE t \in deferred /\ PrependSurface(t, r, Tail(events))
        <3>1. back = {} /\ r = rows
            BY <1>1, <2>1, <2>2, <2>3, <2>7 DEF Places
        <3>2. AppOf[t] # XwaylandApp
            BY <2>1, <2>7 DEF NoX11Surfaces
        <3>3. /\ \E w \in Windows : surfaceOf'[w] = t /\ InRows(w, rows')
              /\ \A w \in Windows : surfaceOf[w] \in liveSurfaces => surfaceOf'[w] = surfaceOf[w]
              /\ \A w \in Windows : /\ InRows(w, rows) => InRows(w, rows')
                                    /\ InRows(w, rows') => FitsStill(w)
              /\ allSurfaces' = allSurfaces \cup {t}
            BY <2>1, <2>7, <3>1, <3>2, PrependFits
        <3>4. InPlace(t)' /\ Wraps(t)'
            BY <2>1, <3>3 DEF InPlace, HasWindowInPlace, Wraps
        <3>5. \A s \in Surfaces : Ours(s) /\ s # t => KeepsPlace(s)
            BY <1>3, <2>1, <2>2, <3>3 DEF KeepsPlace
        <3>6. \A s \in Surfaces : Ours(s) /\ (InPlace(s) \/ Is(Head(events), {"added"}, s)) => InPlace(s)'
            BY <1>4, <2>1, <3>4, <3>5, PlaceKept DEF e
        <3>7. RowsFit'
            BY <3>3, RowsFitStill
        <3>8. \A s \in allSurfaces' : s \in allSurfaces \/ s = t
            BY <3>3
        <3> QED
            BY <2>1, <3>4, <3>6, <3>7, <3>8 DEF Settles
    <2>8. CASE /\ t \notin deferred /\ rows' = r /\ UNCHANGED <<surfaceOf, allSurfaces>>
               /\ entryApp' = [w \in Windows |-> IF w \in back THEN AppOf[t] ELSE entryApp[w]]
        <3>1. ASSUME NEW w \in Windows, InRows(w, rows')
              PROVE  FitsStill(w)
            BY <2>2, <2>6, <2>8, <3>1 DEF FitsStill
        <3>2. \A s : s # t => KeepsPlace(s)
            BY <2>1, <2>2, <2>6, <2>8 DEF KeepsPlace
        <3>3. ASSUME InPlace(t), IsTopLevel(t)
              PROVE  InPlace(t)'
            <4>1. PICK w \in Windows : /\ surfaceOf[w] = t
                                       /\ IF t \in qtHidden THEN w \in hiddenWindows ELSE InRows(w, rows)
                BY <2>8, <3>3 DEF InPlace, HasWindowInPlace
            <4>2. w \in windows
                BY <1>1, <2>1, <4>1 DEF Places
            <4>3. CASE t \in qtHidden
                <5>1. w \in back
                    BY <1>6, <2>2, <3>3, <4>1, <4>2, <4>3
                <5>2. PICK b \in back : InRows(b, r)
                    BY <2>6, <5>1
                <5>3. b \in Windows /\ surfaceOf'[b] = t /\ InRows(b, rows') /\ t \notin qtHidden'
                    BY <1>1, <2>1, <2>2, <2>8, <5>2
                <5> QED
                    BY <5>3 DEF InPlace, HasWindowInPlace
            <4>4. CASE t \notin qtHidden
                <5>1. surfaceOf'[w] = t /\ InRows(w, rows') /\ t \notin qtHidden'
                    BY <2>1, <2>6, <2>8, <4>1, <4>4
                <5> QED
                    BY <5>1 DEF InPlace, HasWindowInPlace
            <4> QED
                BY <4>3, <4>4
        <3>4. \A s \in Surfaces : Ours(s) /\ (InPlace(s) \/ Is(Head(events), {"added"}, s)) => InPlace(s)'
            <4>1. \A s : ~Is(e, {"added"}, s)
                BY <1>4, <2>1
            <4>2. \A s : Ours(s) => IsTopLevel(s)
                BY DEF Ours
            <4> QED
                BY <3>2, <3>3, <4>1, <4>2, PlaceKept DEF e
        <3>5. RowsFit'
            BY <3>1, RowsFitStill
        <3> QED
            BY <2>1, <2>8, <3>4, <3>5 DEF Settles
    <2> QED
        BY <2>3, <2>7, <2>8
\* The surface leaves its row or its window.
<1>19. ASSUME e.kind \in Leaving,
              \A w \in Windows : /\ InRows(w, rows') => InRows(w, rows)
                                 /\ InRows(w, rows) => InRows(w, rows') \/ surfaceOf[w] = Subject
                                 /\ \/ surfaceOf'[w] = surfaceOf[w]
                                    \/ surfaceOf[w] = Subject /\ surfaceOf'[w] = NoSurface,
              \A w \in hiddenWindows : w \in hiddenWindows' \/ surfaceOf[w] = Subject,
              \A s : s # Subject => (s \in qtHidden' <=> s \in qtHidden) /\ (s \in deferred => s \in deferred'),
              \A s \in allSurfaces' : s \in allSurfaces, \A s \in deferred' : s \in deferred,
              UNCHANGED entryApp
       PROVE  Settles
    <2>1. \A w \in Windows : InRows(w, rows') => FitsStill(w)
        BY <1>19 DEF FitsStill
    <2>2. ASSUME NEW s \in Surfaces, Ours(s)
          PROVE  KeepsPlace(s) /\ ~Is(e, {"added"}, s)
        <3>1. s # Subject
            BY <1>3, <1>5, <1>19, <2>2
        <3>2. e.kind # "added"
            BY <1>19 DEF Leaving
        <3> QED
            BY <1>4, <1>19, <3>1, <3>2 DEF KeepsPlace
    <2> QED
        BY <1>7, <1>19, <2>1, <2>2
<1>20. CASE SurfaceDied
    <2> DEFINE H == {v \in hiddenWindows : surfaceOf[v] = Subject}
    <2>1. /\ hiddenWindows' = hiddenWindows \ H
          /\ surfaceOf' = [v \in Windows |-> IF v \in H THEN NoSurface ELSE surfaceOf[v]]
          /\ UNCHANGED <<rows, entryApp, allSurfaces, deferred, qtHidden>>
          /\ e.kind = "died"
        BY <1>20 DEF SurfaceDied, Deliver, e
    <2>2. \A w : w \in H => surfaceOf[w] = Subject
        OBVIOUS
    <2> HIDE DEF H
    <2>3. /\ e.kind \in Leaving
          /\ \A w \in Windows : surfaceOf'[w] = surfaceOf[w] \/ (surfaceOf[w] = Subject /\ surfaceOf'[w] = NoSurface)
          /\ \A w \in hiddenWindows : w \in hiddenWindows' \/ surfaceOf[w] = Subject
        BY <2>1, <2>2 DEF Leaving
    <2> QED
        BY <1>19, <2>1, <2>3
<1>21. CASE InputMethodDied
    <2>w. PICK w : w = inputMethodWindow
        OBVIOUS
    <2>1. /\ UNCHANGED <<rows, entryApp, hiddenWindows, deferred, qtHidden>>
          /\ e.kind = "died"
          /\ \/ UNCHANGED <<surfaceOf, allSurfaces>>
             \/ /\ w # NoWindow
                /\ allSurfaces' = allSurfaces \ {surfaceOf[w]}
                /\ surfaceOf' = [surfaceOf EXCEPT ![w] = NoSurface]
        BY <1>21, <2>w DEF InputMethodDied, Deliver, e
    <2>2. w # NoWindow => w \in Windows /\ surfaceOf[w] \in InputMethods \cup {NoSurface}
        BY <1>1, <2>w DEF Sound, TypeOK
    <2>3. /\ \A v \in Windows : v # w => surfaceOf'[v] = surfaceOf[v]
          /\ \A v \in Windows : surfaceOf'[v] \in {surfaceOf[v], NoSurface}
          /\ w = NoWindow => UNCHANGED surfaceOf
          /\ \A s \in allSurfaces' : s \in allSurfaces
        BY <1>1, <2>1, <2>2 DEF SurfaceMaps
    <2>4. \A v \in Windows : InRows(v, rows') => FitsStill(v)
        BY <2>1, <2>3 DEF FitsStill
    <2>5. ASSUME NEW s \in Surfaces, Ours(s)
          PROVE  KeepsPlace(s) /\ ~Is(e, {"added"}, s)
        <3>1. \A v \in Windows : surfaceOf[v] = s => surfaceOf'[v] = s
            BY <1>1, <2>2, <2>3, <2>5 DEF Ours
        <3> QED
            BY <1>4, <2>1, <3>1 DEF KeepsPlace
    <2> QED
        BY <1>7, <2>1, <2>3, <2>4, <2>5
<1>22. CASE SurfaceDestroyed
    <2>i. PICK i : i = IndexOf(Subject, rows, surfaceOf)
        OBVIOUS
    <2>w. PICK w : w = rows[i]
        OBVIOUS
    <2>1. /\ e.kind = "destroyed"
          /\ deferred' = deferred \ {Subject} /\ qtHidden' = qtHidden \ {Subject}
          /\ UNCHANGED <<hiddenWindows, entryApp>>
          /\ \/ i # 0 /\ DeleteRows({w})
             \/ /\ i # 0
                /\ allSurfaces' = allSurfaces \ {Subject}
                /\ surfaceOf' = [surfaceOf EXCEPT ![w] = NoSurface]
                /\ UNCHANGED rows
             \/ /\ surfaceOf' = [v \in Windows |-> IF v \in {u \in windows : surfaceOf[u] = Subject}
                                                    THEN NoSurface ELSE surfaceOf[v]]
                /\ UNCHANGED <<rows, allSurfaces>>
        BY <1>22, <2>i, <2>w DEF SurfaceDestroyed, DeleteRows, Deliver, e
    <2>2. i # 0 => w \in Windows /\ surfaceOf[w] = Subject
        <3>1. i # 0 => i \in 1 .. Len(rows) /\ surfaceOf[rows[i]] = Subject
            BY <1>1, <2>i, IndexOfFinds
        <3> QED
            BY <1>1, <2>w, <3>1 DEF Rows
    <2>3. /\ \A v \in Windows : /\ InRows(v, rows') => InRows(v, rows)
                                /\ InRows(v, rows) => InRows(v, rows') \/ surfaceOf[v] = Subject
                                /\ \/ surfaceOf'[v] = surfaceOf[v]
                                   \/ surfaceOf[v] = Subject /\ surfaceOf'[v] = NoSurface
          /\ \A s \in allSurfaces' : s \in allSurfaces
        <3>1. CASE i # 0 /\ DeleteRows({w})
            <4>1. /\ rows' = Without(rows, {w})
                  /\ surfaceOf' = [v \in Windows |-> IF v \in {w} THEN NoSurface ELSE surfaceOf[v]]
                  /\ \A s \in allSurfaces' : s \in allSurfaces
                BY <3>1 DEF DeleteRows
            <4>2. \A v : InRows(v, rows') <=> InRows(v, rows) /\ v # w
                BY <1>1, <4>1, RowsWithout
            <4> QED
                BY <2>2, <3>1, <4>1, <4>2
        <3>2. CASE /\ i # 0
                   /\ allSurfaces' = allSurfaces \ {Subject}
                   /\ surfaceOf' = [surfaceOf EXCEPT ![w] = NoSurface]
                   /\ UNCHANGED rows
            BY <1>1, <2>2, <3>2 DEF SurfaceMaps
        <3>3. CASE /\ surfaceOf' = [v \in Windows |-> IF v \in {u \in windows : surfaceOf[u] = Subject}
                                                      THEN NoSurface ELSE surfaceOf[v]]
                   /\ UNCHANGED <<rows, allSurfaces>>
            BY <3>3
        <3> QED
            BY <2>1, <3>1, <3>2, <3>3
    <2>4. e.kind \in Leaving
        BY <2>1 DEF Leaving
    <2> QED
        BY <1>19, <2>1, <2>3, <2>4
<1> QED
    BY <1>8, <1>9, <1>10, <1>12, <1>13, <1>15, <1>16, <1>17, <1>18, <1>20, <1>21, <1>22 DEF SignalNext

\* What Mir does where surfaces stay: it announces a new surface, or none.
Announces(s) ==
    /\ mirLife[s] = "none" /\ mirLife' = [mirLife EXCEPT ![s] = "live"]
    /\ mirHere' = mirHere \cup {s}
    /\ \A t : t # s => (t \in qtHidden' <=> t \in qtHidden)
    /\ \A t : Says(events', {"added"}, t) <=> Says(events, {"added"}, t) \/ t = s
AnnouncesNone ==
    /\ UNCHANGED qtHidden
    /\ \A t \in Surfaces : /\ mirLife'[t] = "live" => mirLife[t] = "live"
                           /\ mirLife'[t] = "none" => mirLife[t] = "none"
                           /\ mirLife'[t] = "live" /\ t \in mirHere => t \in mirHere'
    /\ \A t : Says(events', {"added"}, t) <=> Says(events, {"added"}, t)

\* What Mir does leaves each surface where it is.
LEMMA MirStays ==
    ASSUME TypeOK, Stays, MirNext
    PROVE  AnnouncesNone \/ \E s \in Surfaces : Announces(s)
<1> DEFINE K == EventKinds \ {"added"}
<1>1. /\ events \in Seq(Signals) /\ mirFocus \in Surfaces \cup {NoSurface} /\ NoSurface \notin Surfaces
      /\ mirLife \in [Surfaces -> {"none", "live", "dead", "gone"}]
      /\ \A k \in FocusKinds : k \in K
      /\ \A k \in {"added"} : k \notin K
      /\ ~Allowed("move") /\ ~Allowed("moveAll") /\ ~Allowed("reuse")
    BY SurfacesAssumption DEF TypeOK, FocusKinds, EventKinds, Stays, Allowed
<1>2. ASSUME NEW s \in Surfaces
      PROVE  /\ \A kind \in EventKinds \ Brackets : Event(kind, s) \in Signals /\ Event(kind, s).kind = kind
             /\ {"hidden", "shown", "destroyed", "died"} \subseteq (EventKinds \ Brackets) \cap K
             /\ "added" \in EventKinds \ Brackets
    BY EventType DEF Event, EventKinds, Brackets
<1> HIDE DEF K
<1>3. ASSUME Extends(events, events', K), UNCHANGED qtHidden,
             \A t \in Surfaces : /\ mirLife'[t] = "live" => mirLife[t] = "live"
                                 /\ mirLife'[t] = "none" => mirLife[t] = "none"
                                 /\ mirLife'[t] = "live" /\ t \in mirHere => t \in mirHere'
      PROVE  AnnouncesNone
    BY <1>1, <1>3, SaysNoMore DEF AnnouncesNone
<1>4. ASSUME NEW s \in Surfaces, NEW hide \in BOOLEAN, NEW here \in BOOLEAN, CreateSurface(s, hide, here)
      PROVE  Announces(s)
    <2>1. /\ mirLife[s] = "none" /\ mirLife' = [mirLife EXCEPT ![s] = "live"] /\ here
          /\ mirHere' = mirHere \cup {s}
          /\ \A t : t # s => (t \in qtHidden' <=> t \in qtHidden)
          /\ events' = Append(events, Event("added", s))
        BY <1>1, <1>4 DEF CreateSurface
    <2>2. PICK e : e = Event("added", s)
        OBVIOUS
    <2>3. e \in Signals /\ events' = events \o <<e>>
        BY <1>1, <1>2, <2>1, <2>2, Queued
    <2>4. \A t : Is(e, {"added"}, t) <=> t = s
        BY <2>2, AboutOne
    <2>5. \A t : Says(events', {"added"}, t) <=> Says(events, {"added"}, t) \/ t = s
        BY <1>1, <2>3, <2>4, SaysMore
    <2> QED
        BY <2>1, <2>5 DEF Announces
<1>5. ASSUME NEW s \in Surfaces, Refocus(s)
      PROVE  AnnouncesNone
    <2>1. Extends(events, events', FocusKinds) /\ UNCHANGED <<mirLife, mirHere, qtHidden>>
        BY <1>1, <1>5, MirActivateExtends DEF Refocus, objectVars
    <2>2. Extends(events, events', K)
        BY <1>1, <2>1, ExtendsMore
    <2> QED
        BY <1>3, <2>1, <2>2
<1>6. ASSUME NEW s \in Surfaces, ShowSurface(s)
      PROVE  AnnouncesNone
    <2>1. events' = MovesFocus(events, OptionalSignal(TRUE, Event("shown", s)), NoSurface, NoSurface)
        BY <1>6, MirSteps
    <2>2. Extends(events, events', K)
        <3>1. Event("shown", s) \in Signals /\ Event("shown", s).kind \in K
            BY <1>2
        <3> QED
            BY <1>1, <2>1, <3>1, MovesFocusExtends
    <2>3. UNCHANGED <<mirLife, mirHere, qtHidden>>
        BY <1>6 DEF ShowSurface, objectVars
    <2> QED
        BY <1>3, <2>2, <2>3
<1>7. ASSUME NEW s \in Surfaces, NEW next \in Surfaces \cup {NoSurface}, HideSurface(s, next)
      PROVE  AnnouncesNone
    <2> DEFINE old == IF mirFocus = s THEN s ELSE NoSurface
    <2>1. events' = MovesFocus(events, OptionalSignal(TRUE, Event("hidden", s)), old, next)
        BY <1>7, MirSteps
    <2>2. old \in Surfaces \cup {NoSurface}
        OBVIOUS
    <2> HIDE DEF old
    <2>3. Extends(events, events', K)
        <3>1. Event("hidden", s) \in Signals /\ Event("hidden", s).kind \in K
            BY <1>2
        <3> QED
            BY <1>1, <2>1, <2>2, <3>1, MovesFocusExtends
    <2>4. UNCHANGED <<mirLife, mirHere, qtHidden>>
        BY <1>7 DEF HideSurface, objectVars
    <2> QED
        BY <1>3, <2>3, <2>4
<1>8. ASSUME NEW s \in Surfaces, Die(s)
      PROVE  AnnouncesNone
    <2>1. /\ mirLife[s] = "live" /\ mirLife' = [mirLife EXCEPT ![s] = "dead"]
          /\ events' = Append(events, Event("died", s)) /\ UNCHANGED <<mirHere, qtHidden>>
        BY <1>8 DEF Die, Live, objectVars
    <2>2. Event("died", s) \in Signals /\ Event("died", s).kind \in K
        BY <1>2
    <2>3. Extends(events, events', K)
        <3>1. PICK e \in Signals : e = Event("died", s)
            BY <2>2
        <3>2. events' = events \o <<e>> /\ e.kind \in K
            BY <1>1, <2>1, <2>2, <3>1, Queued
        <3> QED
            BY <1>1, <3>2, ExtendsByOne
    <2>4. \A t \in Surfaces : /\ mirLife'[t] = "live" => mirLife[t] = "live"
                              /\ mirLife'[t] = "none" => mirLife[t] = "none"
        BY <1>1, <2>1
    <2> QED
        BY <1>3, <2>1, <2>3, <2>4
<1>9. ASSUME NEW s \in Surfaces, NEW next \in Surfaces \cup {NoSurface}, Destroy(s, next)
      PROVE  AnnouncesNone
    <2> DEFINE q == IF mirFocus = s
                    THEN MovesFocus(events, OptionalSignal(FALSE, Event("shown", s)), NoSurface, next)
                    ELSE events
               e == Event("destroyed", s)
    <2>1. events' = q \o <<e>>
        BY <1>9, MirSteps
    <2>2. Extends(events, q, K)
        <3>1. Event("shown", s) \in Signals /\ Event("shown", s).kind \in K
            BY <1>2
        <3>2. Extends(events, MovesFocus(events, OptionalSignal(FALSE, Event("shown", s)), NoSurface, next), K)
            BY <1>1, <3>1, MovesFocusExtends
        <3> QED
            BY <1>1, <3>2, ExtendsItself
    <2> HIDE DEF q
    <2>3. q \in Seq(Signals)
        BY <1>1, <2>2, ExtendsItself, ExtendsTwice
    <2>4. e \in Signals /\ e.kind \in K
        BY <1>2
    <2>5. Extends(q, events', K)
        BY <2>1, <2>3, <2>4, ExtendsByOne
    <2>6. Extends(events, events', K)
        BY <1>1, <2>2, <2>5, ExtendsTwice
    <2>7. /\ mirLife[s] = "dead" /\ mirLife' = [mirLife EXCEPT ![s] = "gone"]
          /\ mirHere' = mirHere \ {s} /\ UNCHANGED qtHidden
        BY <1>9 DEF Destroy, objectVars
    <2>8. \A t \in Surfaces : /\ mirLife'[t] = "live" => mirLife[t] = "live"
                              /\ mirLife'[t] = "none" => mirLife[t] = "none"
                              /\ mirLife'[t] = "live" /\ t \in mirHere => t \in mirHere'
        BY <1>1, <2>7
    <2> QED
        BY <1>3, <2>6, <2>7, <2>8
<1>10. /\ ~MoveWorkspaceContent
       /\ \A s, here : ~MoveSurface(s, here)
    BY <1>1, Zenon DEF MoveWorkspaceContent, MoveSurface
<1> QED
    BY <1>4, <1>5, <1>6, <1>7, <1>8, <1>9, <1>10 DEF MirNext

(* What the model knows of the surfaces that stay on the workspace: a live *)
(* one is about to be announced or in its place, and none that it knows    *)
(* will be announced again.                                                *)
Known ==
    /\ RowsFit /\ NoneOf(events, {"away"}) /\ \A s \in deferred : IsTopLevel(s)
    /\ \A s \in allSurfaces : mirLife[s] # "none" /\ ~Says(events, {"added"}, s)
    /\ \A s \in Surfaces : mirLife[s] = "live" => s \in mirHere
    /\ \A s \in Surfaces : Ours(s) => Says(events, {"added"}, s) \/ InPlace(s)

\* What Mir does keeps the shell's knowledge of the surfaces.
LEMMA MirKnows ==
    ASSUME TypeOK, Stays, Known, MirNext
    PROVE  Known'
<1>1. /\ events \in Seq(Signals) /\ mirLife \in [Surfaces -> {"none", "live", "dead", "gone"}]
      /\ allSurfaces \subseteq Surfaces
      /\ ~Allowed("move") /\ ~Allowed("moveAll")
    BY DEF TypeOK, Stays, Allowed
<1>2. UNCHANGED <<rows, entryApp, surfaceOf, deferred, hiddenWindows, allSurfaces>>
    BY MirLeavesModel DEF modelVars
<1>3. RowsFit' /\ (\A s \in deferred : IsTopLevel(s))'
    BY <1>2 DEF Known, RowsFit
<1>4. NoneOf(events', {"away"})
    <2>1. \A k \in {"away"} : k \notin EventKinds \ {"away"}
        OBVIOUS
    <2>2. Extends(events, events', EventKinds \ {"away"})
        BY <1>1, MirExtends
    <2>3. NoneOf(events, {"away"})
        BY DEF Known
    <2> QED
        BY <1>1, <2>1, <2>2, <2>3, NoneOfMore
<1>5. ASSUME NEW s, s \in qtHidden' <=> s \in qtHidden, InPlace(s)
      PROVE  InPlace(s)'
    BY <1>2, <1>5, PlaceKept DEF KeepsPlace
<1>6. ASSUME AnnouncesNone
      PROVE  Known'
    <2>1. \A s \in allSurfaces' : mirLife'[s] # "none" /\ ~Says(events', {"added"}, s)
        BY <1>1, <1>2, <1>6 DEF Known, AnnouncesNone
    <2>2. \A s \in Surfaces : mirLife'[s] = "live" => s \in mirHere'
        BY <1>6 DEF Known, AnnouncesNone
    <2>3. \A s \in Surfaces : Ours(s)' => Says(events', {"added"}, s) \/ InPlace(s)'
        BY <1>5, <1>6 DEF Known, AnnouncesNone, Ours
    <2> QED
        BY <1>3, <1>4, <2>1, <2>2, <2>3 DEF Known
<1>7. ASSUME NEW u \in Surfaces, Announces(u)
      PROVE  Known'
    <2>1. /\ mirLife'[u] = "live" /\ u \in mirHere' /\ Says(events', {"added"}, u) /\ u \notin allSurfaces
          /\ \A s \in Surfaces : s # u => /\ mirLife'[s] = mirLife[s] /\ (s \in mirHere => s \in mirHere')
                                          /\ (s \in qtHidden' <=> s \in qtHidden)
                                          /\ (Says(events', {"added"}, s) <=> Says(events, {"added"}, s))
        BY <1>1, <1>7 DEF Announces, Known
    <2>2. \A s \in allSurfaces' : mirLife'[s] # "none" /\ ~Says(events', {"added"}, s)
        BY <1>1, <1>2, <2>1 DEF Known
    <2>3. \A s \in Surfaces : mirLife'[s] = "live" => s \in mirHere'
        BY <2>1 DEF Known
    <2>4. \A s \in Surfaces : Ours(s)' => Says(events', {"added"}, s) \/ InPlace(s)'
        BY <1>5, <2>1 DEF Known, Ours
    <2> QED
        BY <1>3, <1>4, <2>2, <2>3, <2>4 DEF Known
<1> QED
    BY <1>6, <1>7, MirStays

\* ... and so do the handlers of signals ...
LEMMA SignalsKnow ==
    ASSUME NoX11Surfaces, Sound, Living, Placed, Placed', Stays, Known, SignalNext
    PROVE  Known'
<1>1. /\ TypeOK /\ events \in Seq(Signals) /\ events # <<>> /\ Tail(events) \in Seq(Signals)
      /\ Extends(Tail(events), events', FocusKinds)
      /\ allSurfaces \subseteq Surfaces
    BY SignalsCall, CallsExtend DEF Sound, TypeOK
<1>2. \A kind \in {"added", "away"} : kind \notin FocusKinds
    BY DEF FocusKinds
<1>3. UNCHANGED <<mirLife, environment>>
    BY <1>1, DeathsDelivered
<1>4. UNCHANGED mirHere
    <2>1. CASE \E s \in Surfaces : \/ DeferHiddenSurface(s) \/ AddTopLevelSurface(s)
                                   \/ WrapSurface(s) \/ SetInputMethodWindow(s)
        BY <2>1, Zenon DEF DeferHiddenSurface, AddTopLevelSurface, WrapSurface, SetInputMethodWindow, mirVars
    <2>2. CASE \/ OnModificationsStarted \/ OnModificationsEnded \/ FocusLost \/ FocusGained
               \/ OnSurfacesRaised \/ SkipKnownSurface \/ RemoveSurfaces
        BY <2>2, Zenon DEF OnModificationsStarted, OnModificationsEnded, FocusLost, FocusGained,
            UpdateFocused, OnSurfacesRaised, SkipKnownSurface, RemoveSurfaces, mirVars
    <2>3. CASE SurfaceHidden \/ SurfaceShown \/ SurfaceDied \/ InputMethodDied \/ SurfaceDestroyed
        BY <2>3, Zenon DEF SurfaceHidden, SurfaceShown, SurfaceDied, InputMethodDied,
            SurfaceDestroyed, mirVars
    <2> QED
        BY <2>1, <2>2, <2>3 DEF SignalNext
<1>5. /\ RowsFit'
      /\ \A s \in Surfaces : Ours(s) /\ (InPlace(s) \/ Is(Head(events), {"added"}, s)) => InPlace(s)'
      /\ \A s \in allSurfaces' : s \in allSurfaces \/ Wraps(s)'
      /\ (\A s \in deferred : IsTopLevel(s))'
    <2>1. \A s \in allSurfaces : ~Says(events, {"added"}, s)
        BY DEF Known
    <2>2. Settles
        BY <2>1, SignalsSettle DEF Known, Placed
    <2> QED
        BY <2>2 DEF Settles
<1>6. NoneOf(events', {"away"})
    <2>1. NoneOf(Tail(events), {"away"})
        BY <1>1, NoneOfTail DEF Known
    <2>2. \A k \in {"away"} : k \notin FocusKinds
        BY <1>2
    <2> QED
        BY <1>1, <2>1, <2>2, NoneOfMore
<1>7. \A s : Says(events', {"added"}, s) <=> Says(Tail(events), {"added"}, s)
    <2>1. \A k \in {"added"} : k \notin FocusKinds
        BY <1>2
    <2> QED
        BY <1>1, <2>1, SaysNoMore
<1>8. \A s : Says(events, {"added"}, s) <=> Says(Tail(events), {"added"}, s) \/ Is(Head(events), {"added"}, s)
    BY <1>1, SaysLess
<1>9. ASSUME NEW s \in allSurfaces'
      PROVE  mirLife'[s] # "none" /\ ~Says(events', {"added"}, s)
    <2>1. CASE s \in allSurfaces
        BY <1>3, <1>7, <1>8, <2>1 DEF Known
    <2>2. CASE Wraps(s)' /\ s \in Surfaces
        <3>1. Told(events', mirLife'[s], Held(s)', OnceOnly(s)', s)
            BY <2>2 DEF Placed, Announced
        <3>2. Held(s)' /\ OnceOnly(s)'
            BY <1>3, <2>2 DEF Held, OnceOnly, Moves, Allowed, Stays
        <3> QED
            BY <3>1, <3>2 DEF Told
    <2>3. allSurfaces' \subseteq Surfaces
        BY <1>1, SignalsKeepType DEF TypeOK
    <2> QED
        BY <1>5, <2>1, <2>2, <2>3
<1>10. \A s \in Surfaces : mirLife'[s] = "live" => s \in mirHere'
    BY <1>3, <1>4 DEF Known
<1>11. \A s \in Surfaces : Ours(s)' => Says(events', {"added"}, s) \/ InPlace(s)'
    BY <1>3, <1>5, <1>7, <1>8 DEF Known, Ours
<1> QED
    BY <1>5, <1>6, <1>9, <1>10, <1>11 DEF Known

\* ... and the calls of the shell.
LEMMA CallsKnow ==
    ASSUME Sound, Living, Places, Known, ShellNext \/ ApplicationNext
    PROVE  Known'
<1>1. /\ TypeOK /\ NoSurface \notin Surfaces
      /\ surfaceOf \in SurfaceMaps /\ rows \in Seq(Rows)
      /\ entryApp \in [Windows -> Apps \cup {NoApp}]
      /\ events \in Seq(Signals) /\ allSurfaces \subseteq Surfaces
    BY SoundWindows, SurfacesAssumption DEF Sound, TypeOK
<1>2. Calls(events)
    BY <1>1, ShellCalls, ApplicationsCall
<1>3. Extends(events, events', FocusKinds)
    BY <1>1, <1>2, CallsExtend
<1>4. NoneOf(events', {"away"}) /\ \A s : Says(events', {"added"}, s) <=> Says(events, {"added"}, s)
    <2>1. /\ \A k \in {"away"} : k \notin FocusKinds
          /\ \A k \in {"added"} : k \notin FocusKinds
        BY DEF FocusKinds
    <2>2. NoneOf(events, {"away"})
        BY DEF Known
    <2> QED
        BY <1>1, <1>3, <2>1, <2>2, NoneOfMore, SaysNoMore
<1>5. UNCHANGED <<mirLife, mirHere, qtHidden, hiddenWindows, deferred>>
    BY Zenon
    DEF ShellNext, SetRootFocus, RaiseId, ActivateWindow, CloseWindow, PendingActivation,
        CloseAllWindows, unfocusable, objectVars, ApplicationNext, AddApplication, RemoveApplication,
        DeleteRows
<1>6. ASSUME \A s \in Surfaces : Ours(s) => KeepsPlace(s),
             \A w \in Windows : InRows(w, rows') => FitsStill(w),
             \A s \in allSurfaces' : s \in allSurfaces
      PROVE  Known'
    <2>1. RowsFit' /\ (\A s \in deferred : IsTopLevel(s))'
        BY <1>5, <1>6, RowsFitStill DEF Known
    <2>2. \A s \in allSurfaces' : mirLife'[s] # "none" /\ ~Says(events', {"added"}, s)
        BY <1>4, <1>5, <1>6 DEF Known
    <2>3. \A s \in Surfaces : mirLife'[s] = "live" => s \in mirHere'
        BY <1>5 DEF Known
    <2>4. \A s \in Surfaces : Ours(s)' => Says(events', {"added"}, s) \/ InPlace(s)'
        BY <1>4, <1>5, <1>6, PlaceKept DEF Known, Ours
    <2> QED
        BY <1>4, <2>1, <2>2, <2>3, <2>4 DEF Known
<1>7. CASE ShellNext
    <2>1. UNCHANGED <<surfaceOf, entryApp, allSurfaces>>
        BY <1>7, Zenon
        DEF ShellNext, SetRootFocus, RaiseId, ActivateWindow, CloseWindow, PendingActivation,
            CloseAllWindows, unfocusable
    <2>2. \A v : InRows(v, rows') <=> InRows(v, rows)
        BY <1>1, <1>7, RowsKept
    <2>3. \A s : KeepsPlace(s)
        BY <1>5, <2>1, <2>2 DEF KeepsPlace
    <2>4. \A w \in Windows : InRows(w, rows') => FitsStill(w)
        BY <2>1, <2>2 DEF FitsStill
    <2> QED
        BY <1>6, <2>1, <2>3, <2>4
<1>8. ASSUME NEW a \in Apps, RemoveApplication(a)
      PROVE  Known'
    <2> DEFINE R == {w \in Windows : InRows(w, rows) /\ entryApp[w] = a}
    <2>1. /\ rows' = Without(rows, R)
          /\ surfaceOf' = [w \in Windows |-> IF w \in R THEN NoSurface ELSE surfaceOf[w]]
          /\ \A s \in allSurfaces' : s \in allSurfaces
          /\ UNCHANGED entryApp
          /\ \A s \in Surfaces : AppOf[s] = a => mirLife[s] # "live"
        BY <1>8 DEF RemoveApplication, DeleteRows
    <2>2. \A w \in Windows : w \in R <=> InRows(w, rows) /\ entryApp[w] = a
        OBVIOUS
    <2> HIDE DEF R
    <2>3. \A w \in Windows : surfaceOf'[w] \in {surfaceOf[w], NoSurface} /\ (w \notin R => surfaceOf'[w] = surfaceOf[w])
        BY <2>1
    <2>4. /\ \A w \in Windows : InRows(w, rows') => FitsStill(w)
          /\ \A w \in Windows : InRows(w, rows) /\ w \notin R => InRows(w, rows')
        BY <2>1, <2>3, RowsGoFit
    <2>5. ASSUME NEW s \in Surfaces, Ours(s)
          PROVE  KeepsPlace(s)
        <3>1. \A w \in Windows : surfaceOf[w] = s => w \notin R
            BY <1>1, <2>1, <2>2, <2>5 DEF Known, RowsFit, Ours
        <3> QED
            BY <1>5, <2>3, <2>4, <3>1 DEF KeepsPlace
    <2> QED
        BY <1>6, <2>1, <2>4, <2>5
<1>9. ASSUME NEW a \in Apps, NEW active \in BOOLEAN, AddApplication(a, active)
      PROVE  Known'
    <2>1. UNCHANGED allSurfaces
        BY <1>9, Zenon DEF AddApplication
    <2>2. CASE UNCHANGED <<surfaceOf, entryApp, rows>>
        <3>1. \A s : KeepsPlace(s)
            BY <1>5, <2>2 DEF KeepsPlace
        <3>2. \A w \in Windows : InRows(w, rows') => FitsStill(w)
            BY <2>2 DEF FitsStill
        <3> QED
            BY <1>6, <2>1, <3>1, <3>2
    <2>3. CASE /\ NewWindow(NoSurface) /\ NewEntry(nextId, a)
               /\ Activate(nextId, <<nextId>> \o rows, surfaceOf, hasFocus, focus, events)
        <3>n. PICK n : n = nextId
            OBVIOUS
        <3>1. /\ surfaceOf' = [surfaceOf EXCEPT ![n] = NoSurface]
              /\ entryApp' = [entryApp EXCEPT ![n] = a]
              /\ nextId \in Windows /\ nextId \in Rows
            BY <1>1, <2>3, <3>n, NewWindowType DEF NewWindow, NewEntry
        <3>2. \A v : InRows(v, rows') <=> v = n \/ InRows(v, rows)
            <4>1. <<nextId>> \o rows \in Seq(Rows)
                BY <1>1, <3>1
            <4>2. \A v : InRows(v, rows') <=> InRows(v, <<nextId>> \o rows)
                BY <2>3, <4>1, RowsActivated
            <4> QED
                BY <1>1, <3>n, <3>1, <4>2, RowsPrepended
        <3>3. n \in Windows /\ surfaceOf[n] = NoSurface
            BY <1>1, <3>n, <3>1, NewWindowIsNew DEF Places
        <3>4. /\ \A w \in Windows : surfaceOf'[w] = surfaceOf[w]
              /\ \A w \in Windows : w # n => entryApp'[w] = entryApp[w]
            BY <1>1, <3>1, <3>3 DEF SurfaceMaps
        <3>5. RowsFit'
            BY <3>2, <3>3, <3>4 DEF Known, RowsFit
        <3>6. \A s : KeepsPlace(s)
            BY <1>5, <3>2, <3>4 DEF KeepsPlace
        <3>7. /\ (\A s \in deferred : IsTopLevel(s))'
              /\ \A s \in allSurfaces' : mirLife'[s] # "none" /\ ~Says(events', {"added"}, s)
              /\ \A s \in Surfaces : mirLife'[s] = "live" => s \in mirHere'
            BY <1>4, <1>5, <2>1 DEF Known
        <3>8. \A s \in Surfaces : Ours(s)' => Says(events', {"added"}, s) \/ InPlace(s)'
            BY <1>4, <1>5, <3>6, PlaceKept DEF Known, Ours
        <3> QED
            BY <1>4, <3>5, <3>7, <3>8 DEF Known
    <2> QED
        BY <1>9, <2>2, <2>3 DEF AddApplication
<1> QED
    BY <1>7, <1>8, <1>9 DEF ApplicationNext

(* Once every signal is delivered, each live surface that is not hidden    *)
(* has a row and no hidden one has, where surfaces hide and show but       *)
(* neither move nor take the addresses of others.                          *)
THEOREM RowsOfSurfaces ==
    ASSUME HidesOrMoves, NoX11Surfaces
    PROVE  Spec => []HidingKeepsRows
<1>1. Init => (Stays => Known)
    <2> SUFFICES ASSUME Init PROVE Known
        OBVIOUS
    <2>1. /\ rows = <<>> /\ deferred = {} /\ allSurfaces = {} /\ events = <<>>
          /\ mirLife = [s \in Surfaces |-> "none"]
        BY DEF Init
    <2>2. \A w : ~InRows(w, rows)
        BY <2>1 DEF InRows
    <2> QED
        BY <2>1, <2>2 DEF Known, RowsFit, NoneOf, Ours
<1>2. Sound /\ Living /\ Placed /\ Placed' /\ (Stays => Known) /\ [Next]_vars => (Stays => Known)'
    <2> SUFFICES ASSUME Sound, Living, Placed, Placed', Stays => Known, [Next]_vars, Stays'
                 PROVE  Known'
        OBVIOUS
    <2>0. TypeOK
        BY DEF Sound
    <2>1. UNCHANGED environment
        BY EnvironmentStays
    <2>2. Stays /\ Known
        BY <2>1 DEF Stays
    <2>3. CASE ShellNext \/ ApplicationNext
        BY <2>2, <2>3, CallsKnow DEF Placed
    <2>4. CASE SignalNext
        BY <2>2, <2>4, SignalsKnow
    <2>5. CASE MirNext
        BY <2>0, <2>2, <2>5, MirKnows
    <2>6. ASSUME UNCHANGED <<rows, entryApp, surfaceOf, deferred, allSurfaces, events, mirLife, mirHere, qtHidden>>,
                 \A w \in hiddenWindows : w \in hiddenWindows' \/ surfaceOf[w] = NoSurface
          PROVE  Known'
        <3>1. \A s \in Surfaces : KeepsPlace(s)
            BY <2>6, SurfacesAssumption DEF KeepsPlace
        <3>2. \A s \in Surfaces : Ours(s)' => Says(events', {"added"}, s) \/ InPlace(s)'
            BY <2>2, <2>6, <3>1, PlaceKept DEF Known, Ours
        <3> QED
            BY <2>2, <2>6, <3>2 DEF Known, RowsFit
    <2>7. CASE \E w \in Windows : DeferredDelete(w)
        <3>1. PICK w \in Windows : DeferredDelete(w)
            BY <2>7
        <3>2. /\ UNCHANGED <<rows, entryApp, surfaceOf, deferred, allSurfaces, events, mirLife, mirHere, qtHidden>>
              /\ w \in condemned /\ hiddenWindows' = hiddenWindows \ {w}
            BY <3>1, Zenon DEF DeferredDelete, mirVars, objectVars
        <3>3. surfaceOf[w] = NoSurface
            BY <3>2 DEF Sound
        <3> QED
            BY <2>6, <3>2, <3>3
    <2>8. CASE UNCHANGED vars
        BY <2>6, <2>8 DEF vars, modelVars, mirVars, objectVars
    <2> QED
        BY <2>3, <2>4, <2>5, <2>7, <2>8 DEF Next
<1>3. Sound /\ Placed /\ Follow /\ (Stays => Known) => HidingKeepsRows
    <2> SUFFICES ASSUME Sound, Placed, Follow, Known, Settled, NEW s \in Surfaces, Live(s), IsTopLevel(s)
                 PROVE  (s \in mirHere /\ s \notin mirHidden) <=> \E i \in DOMAIN rows : surfaceOf[rows[i]] = s
        BY DEF HidingKeepsRows, RowsShowSurfaces
    <2>1. /\ mirLife[s] = "live" /\ Ours(s) /\ s \in mirHere /\ NoSurface \notin Surfaces
          /\ events = <<>>
        BY SurfacesAssumption DEF Live, Ours, Known, Settled
    <2>2. \A K : ~Says(events, K, s)
        BY <2>1 DEF Says
    <2>3. s \in mirHidden <=> s \in qtHidden
        <3>1. Follows(events, s \in qtHidden, s \in mirHidden, s)
            BY <2>1 DEF Follow
        <3>2. \A kind : ~Lastly(events, kind, s)
            BY <2>1 DEF Lastly
        <3> QED
            BY <3>1, <3>2 DEF Follows
    <2>4. InPlace(s)
        BY <2>1, <2>2 DEF Known
    <2>5. (\E i \in DOMAIN rows : surfaceOf[rows[i]] = s) <=> \E w \in Windows : InRows(w, rows) /\ surfaceOf[w] = s
        <3>1. \A i \in DOMAIN rows : rows[i] \in Windows
            BY SoundWindows
        <3> QED
            BY <3>1 DEF InRows
    <2>6. \A w : InRows(w, rows) => w \notin hiddenWindows
        BY DEF Sound, RowsFrom, MayBeRows, InRows
    <2>7. \A v, w \in Windows : surfaceOf[v] = s /\ surfaceOf[w] = s => v = w
        BY <2>1 DEF Placed, Places
    <2>8. \A w \in Windows : surfaceOf[w] = s => s \notin deferred
        BY <2>1 DEF Placed, Places
    <2> QED
        BY <2>1, <2>3, <2>4, <2>5, <2>6, <2>7, <2>8 DEF InPlace, HasWindowInPlace
<1> QED
    BY <1>1, <1>2, <1>3, SoundAlways, LivesAlways, PlacedAlways, FollowAlways, PTL DEF Spec
=============================================================================
