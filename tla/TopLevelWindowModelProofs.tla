--------------------- MODULE TopLevelWindowModelProofs ---------------------
(* What TLAPS proves of TopLevelWindowModel, for every number of           *)
(* applications, surfaces and windows and for every environment.           *)
EXTENDS TopLevelWindowModel, SequenceTheorems, FiniteSetTheorems, WellFoundedInduction, TLAPS

-----------------------------------------------------------------------------
(* Least elements, and what they say of SelectInSeq.                       *)

(* A set of natural numbers that is not empty has a least element.         *)
LEMMA LeastNatural ==
    ASSUME NEW T, T \subseteq Nat, T # {}
    PROVE  \E x \in T : \A y \in T : x <= y
<1>1. PICK x \in T : \A y \in T : <<y, x>> \notin OpToRel(<, Nat)
    BY NatLessThanWellFounded, WFMin
<1>2. ASSUME NEW y \in T, y < x
      PROVE  <<y, x>> \in OpToRel(<, Nat)
    BY <1>2 DEF OpToRel
<1>3. \A y \in T : ~(y < x)
    BY <1>1, <1>2
<1> QED
    BY <1>3

(* FiniteSetsExt's Min() is that element.                                  *)
LEMMA MinIsLeast ==
    ASSUME NEW T, T \subseteq Nat, T # {}
    PROVE  Min(T) \in T /\ \A y \in T : Min(T) <= y
BY LeastNatural DEF Min

(* indexForId() finds a row with the id, or none.                          *)
LEMMA IndexForIdFinds ==
    ASSUME NEW id, NEW S, NEW r \in Seq(S)
    PROVE  LET i == IndexForId(id, r)
           IN  \/ i \in 1 .. Len(r) /\ r[i] = id
               \/ i = 0 /\ \A j \in 1 .. Len(r) : r[j] # id
<1> DEFINE I == {i \in 1 .. Len(r) : r[i] = id}
<1>1. I \subseteq Nat
    OBVIOUS
<1>2. IndexForId(id, r) = IF I # {} THEN Min(I) ELSE 0
    BY DEF IndexForId, SelectInSeq
<1> QED
    BY <1>1, <1>2, MinIsLeast

(* indexOf() finds a row whose window has the surface, or none.            *)
LEMMA IndexOfFinds ==
    ASSUME NEW s, NEW S, NEW r \in Seq(S), NEW sf
    PROVE  LET i == IndexOf(s, r, sf)
           IN  \/ i \in 1 .. Len(r) /\ sf[r[i]] = s
               \/ i = 0 /\ \A j \in 1 .. Len(r) : sf[r[j]] # s
<1> DEFINE I == {i \in 1 .. Len(r) : sf[r[i]] = s}
<1>1. I \subseteq Nat
    OBVIOUS
<1>2. IndexOf(s, r, sf) = IF I # {} THEN Min(I) ELSE 0
    BY DEF IndexOf, SelectInSeq
<1> QED
    BY <1>1, <1>2, MinIsLeast

-----------------------------------------------------------------------------
(* Moving a row to the front.                                              *)

(* move(from, 0) keeps the rows and shifts those before it by one.         *)
LEMMA MovedRows ==
    ASSUME NEW S, NEW r \in Seq(S), NEW i \in 1 .. Len(r)
    PROVE  /\ MoveToFront(r, i) \in Seq(S)
           /\ Len(MoveToFront(r, i)) = Len(r)
           /\ \A k \in 1 .. Len(r) :
                 MoveToFront(r, i)[k] = IF k = 1 THEN r[i]
                                        ELSE IF k <= i THEN r[k - 1] ELSE r[k]
<1>1. ASSUME NEW a \in Seq(S), NEW b \in Seq(S),
             Len(a) = i - 1, Len(b) = Len(r) - i,
             \A k \in 1 .. i - 1 : a[k] = r[k],
             \A k \in 1 .. Len(r) - i : b[k] = r[i + k]
      PROVE  /\ a \o b \in Seq(S) /\ Len(a \o b) = Len(r) - 1
             /\ \A k \in 1 .. Len(r) - 1 : (a \o b)[k] = IF k < i THEN r[k] ELSE r[k + 1]
    <2>1. a \o b \in Seq(S) /\ Len(a \o b) = Len(r) - 1
        <3>1. a \o b \in Seq(S) /\ Len(a \o b) = Len(a) + Len(b)
            OBVIOUS
        <3>2. Len(r) \in Nat
            OBVIOUS
        <3>3. (i - 1) + (Len(r) - i) = Len(r) - 1
            BY <3>2
        <3> QED
            BY <1>1, <3>1, <3>3, Zenon
    <2>2. ASSUME NEW k \in 1 .. Len(r) - 1, k < i
          PROVE  (a \o b)[k] = r[k]
        BY <1>1, <2>2
    <2>3. ASSUME NEW k \in 1 .. Len(r) - 1, ~(k < i)
          PROVE  (a \o b)[k] = r[k + 1]
        <3>1. k - (i - 1) \in 1 .. Len(r) - i /\ i + (k - (i - 1)) = k + 1
            BY <2>3
        <3>2. (a \o b)[k] = b[k - (i - 1)]
            BY <1>1, <2>3
        <3> QED
            BY <1>1, <3>1, <3>2
    <2> QED
        BY <2>1, <2>2, <2>3
<1>2. \A c \in Seq(S) :
         /\ Len(c) = Len(r) - 1
         /\ \A k \in 1 .. Len(r) - 1 : c[k] = IF k < i THEN r[k] ELSE r[k + 1]
         => /\ <<r[i]>> \o c \in Seq(S) /\ Len(<<r[i]>> \o c) = Len(r)
            /\ \A k \in 1 .. Len(r) :
                  (<<r[i]>> \o c)[k] = IF k = 1 THEN r[i] ELSE IF k <= i THEN r[k - 1] ELSE r[k]
    OBVIOUS
<1>3. /\ SubSeq(r, 1, i - 1) \in Seq(S) /\ Len(SubSeq(r, 1, i - 1)) = i - 1
      /\ \A k \in 1 .. i - 1 : SubSeq(r, 1, i - 1)[k] = r[k]
    OBVIOUS
<1>4. /\ SubSeq(r, i + 1, Len(r)) \in Seq(S) /\ Len(SubSeq(r, i + 1, Len(r))) = Len(r) - i
      /\ \A k \in 1 .. Len(r) - i : SubSeq(r, i + 1, Len(r))[k] = r[i + k]
    OBVIOUS
<1> QED
    BY <1>1, <1>2, <1>3, <1>4 DEF MoveToFront, RemoveAt

-----------------------------------------------------------------------------
(* Taking rows away.                                                       *)

UpTo(K, i) == {j \in K : j <= i}
Rank(K, i) == Cardinality(UpTo(K, i))

LEMMA UpToIsFinite ==
    ASSUME NEW K, IsFiniteSet(K), NEW i
    PROVE  IsFiniteSet(UpTo(K, i)) /\ Rank(K, i) \in Nat /\ Rank(K, i) <= Cardinality(K)
<1>1. UpTo(K, i) \in SUBSET K
    BY DEF UpTo
<1> QED
    BY <1>1, FS_Subset, FS_CardinalityType DEF Rank

(* Of a finite set of numbers every rank is that of one element, and of    *)
(* one only.                                                               *)
LEMMA RankExists ==
    ASSUME NEW n \in Nat, NEW K, IsFiniteSet(K), \A j \in K : j \in 1 .. n,
           NEW k \in 1 .. Cardinality(K)
    PROVE  \E i \in K : Rank(K, i) = k
<1> DEFINE T == {m \in Nat : Rank(K, m) >= k}
<1>1. Cardinality(K) \in Nat
    BY FS_CardinalityType
<1>2. UpTo(K, n) = K
    BY DEF UpTo
<1>3. n \in T
    BY <1>1, <1>2 DEF Rank
<1>4. PICK m \in T : \A y \in T : m <= y
    BY <1>3, LeastNatural
<1>5. m # 0
    <2>1. UpTo(K, 0) = {}
        BY DEF UpTo
    <2> QED
        BY <2>1, FS_EmptySet DEF Rank
<1>6. m - 1 \in Nat /\ Rank(K, m - 1) < k
    BY <1>4, <1>5, UpToIsFinite
<1>7. m \in K
    <2> SUFFICES ASSUME m \notin K PROVE FALSE
        OBVIOUS
    <2>1. UpTo(K, m) = UpTo(K, m - 1)
        BY <1>5 DEF UpTo
    <2> QED
        BY <2>1, <1>4, <1>6, UpToIsFinite DEF Rank
<1>8. UpTo(K, m) = UpTo(K, m - 1) \cup {m} /\ m \notin UpTo(K, m - 1)
    <2>1. m \in Nat /\ \A j \in K : j \in Nat
        OBVIOUS
    <2>2. \A j \in K : j <= m <=> j <= m - 1 \/ j = m
        BY <2>1
    <2>3. ~(m <= m - 1)
        BY <2>1
    <2> HIDE DEF T
    <2> QED
        BY <2>2, <2>3, <1>7, Zenon DEF UpTo
<1>9. Rank(K, m) = Rank(K, m - 1) + 1
    <2>1. IsFiniteSet(UpTo(K, m - 1))
        BY UpToIsFinite
    <2> QED
        BY <2>1, <1>8, FS_AddElement DEF Rank
<1>10. Rank(K, m) = k
    BY <1>4, <1>6, <1>9, UpToIsFinite
<1> QED
    BY <1>7, <1>10

LEMMA RankIsUnique ==
    ASSUME NEW K, IsFiniteSet(K), \A x \in K : x \in Nat, NEW i \in K, NEW j \in K,
           Rank(K, i) = Rank(K, j)
    PROVE  i = j
<1>1. ASSUME NEW a \in K, NEW b \in K, a < b
      PROVE  Rank(K, a) # Rank(K, b)
    <2>1. /\ \A x \in UpTo(K, a) : x \in UpTo(K, b)
          /\ b \in UpTo(K, b) /\ b \notin UpTo(K, a)
        BY <1>1 DEF UpTo
    <2>2. UpTo(K, a) \in SUBSET UpTo(K, b) /\ UpTo(K, a) # UpTo(K, b)
        BY <2>1
    <2>3. IsFiniteSet(UpTo(K, b))
        BY UpToIsFinite
    <2> QED
        BY <2>2, <2>3, FS_Subset DEF Rank
<1> QED
    BY <1>1

(* The rows that stay are those not taken away, each once.                 *)
LEMMA WithoutRows ==
    ASSUME NEW S, NEW r \in Seq(S), NEW R
    PROVE  /\ Without(r, R) \in Seq(S)
           /\ \A k \in 1 .. Len(Without(r, R)) :
                 \E i \in 1 .. Len(r) : r[i] \notin R /\ Without(r, R)[k] = r[i]
           /\ \A i \in 1 .. Len(r) : r[i] \notin R =>
                 \E k \in 1 .. Len(Without(r, R)) : Without(r, R)[k] = r[i]
           /\ (\A i, j \in 1 .. Len(r) : r[i] = r[j] => i = j) =>
                 \A k, l \in 1 .. Len(Without(r, R)) :
                    Without(r, R)[k] = Without(r, R)[l] => k = l
<1> DEFINE K == {i \in DOMAIN r : r[i] \notin R}
           Nth(k) == CHOOSE i \in K : Rank(K, i) = k
           n == Cardinality(K)
<1>1. Without(r, R) = [k \in 1 .. n |-> r[Nth(k)]]
    BY DEF Without, Rank, UpTo
<1>2. /\ \A j \in K : j \in 1 .. Len(r) /\ j \in Nat
      /\ \A j \in K : r[j] \in S /\ r[j] \notin R
      /\ \A j \in 1 .. Len(r) : r[j] \notin R => j \in K
      /\ Len(r) \in Nat
    OBVIOUS
<1>3. IsFiniteSet(K) /\ n \in Nat
    <2>1. IsFiniteSet(1 .. Len(r))
        BY <1>2, FS_Interval
    <2>2. K \in SUBSET (1 .. Len(r))
        OBVIOUS
    <2> QED
        BY <2>1, <2>2, FS_Subset, FS_CardinalityType
<1> HIDE DEF K
<1>4. ASSUME NEW k \in 1 .. n
      PROVE  Nth(k) \in K /\ Rank(K, Nth(k)) = k
    <2>1. \E i \in K : Rank(K, i) = k
        BY <1>2, <1>3, RankExists
    <2> QED
        BY <2>1
<1>5. ASSUME NEW i \in K
      PROVE  Rank(K, i) \in 1 .. n /\ Nth(Rank(K, i)) = i
    <2>1. Rank(K, i) \in Nat /\ Rank(K, i) <= n
        BY <1>3, UpToIsFinite
    <2>2. Rank(K, i) # 0
        <3>1. i \in UpTo(K, i)
            BY <1>2 DEF UpTo
        <3>2. IsFiniteSet(UpTo(K, i))
            BY <1>3, UpToIsFinite
        <3> QED
            BY <3>1, <3>2, FS_EmptySet DEF Rank
    <2>3. Rank(K, i) \in 1 .. n
        BY <1>3, <2>1, <2>2
    <2>4. Nth(Rank(K, i)) \in K /\ Rank(K, Nth(Rank(K, i))) = Rank(K, i)
        BY <1>4, <2>3
    <2> QED
        BY <1>2, <1>3, <2>3, <2>4, RankIsUnique
<1> HIDE DEF Nth, n
<1>6. Without(r, R) \in Seq(S) /\ Len(Without(r, R)) = n
    BY <1>1, <1>2, <1>3, <1>4
<1>7. \A k \in 1 .. n : Without(r, R)[k] = r[Nth(k)]
    BY <1>1
<1>8. ASSUME \A i, j \in 1 .. Len(r) : r[i] = r[j] => i = j,
             NEW k \in 1 .. n, NEW l \in 1 .. n,
             Without(r, R)[k] = Without(r, R)[l]
      PROVE  k = l
    BY <1>2, <1>4, <1>7, <1>8
<1>9. ASSUME NEW k \in 1 .. n
      PROVE  \E i \in 1 .. Len(r) : r[i] \notin R /\ Without(r, R)[k] = r[i]
    BY <1>2, <1>4, <1>7
<1>10. ASSUME NEW i \in 1 .. Len(r), r[i] \notin R
       PROVE  \E k \in 1 .. n : Without(r, R)[k] = r[i]
    BY <1>2, <1>5, <1>7, <1>10
<1> QED
    BY <1>6, <1>8, <1>9, <1>10

-----------------------------------------------------------------------------
(* The parts the actions are built from.                                   *)

LEMMA EventType ==
    ASSUME NEW kind \in EventKinds \ Brackets, NEW s \in Surfaces
    PROVE  Event(kind, s) \in Signals
BY DEF Event, Signals

LEMMA BracketType == Started \in Signals /\ Ended \in Signals
BY DEF Started, Ended, Signals, Brackets

LEMMA FocusSignalsType ==
    ASSUME NEW old \in Surfaces \cup {NoSurface}, NEW new \in Surfaces \cup {NoSurface}
    PROVE  FocusSignals(old, new) \in Seq(Signals)
<1>1. ASSUME old # NoSurface
      PROVE  Event("lost", old) \in Signals
    BY <1>1, EventType DEF EventKinds, Brackets
<1>2. ASSUME new # NoSurface
      PROVE  Event("gained", new) \in Signals /\ Event("raised", new) \in Signals
    BY <1>2, EventType DEF EventKinds, Brackets
<1> QED
    BY <1>1, <1>2 DEF FocusSignals

LEMMA MirActivateType ==
    ASSUME NEW s \in Surfaces \cup {NoSurface}, NEW queue \in Seq(Signals),
           mirFocus \in Surfaces \cup {NoSurface}, mirHidden \subseteq Surfaces,
           MirActivate(s, queue)
    PROVE  /\ mirFocus' \in Surfaces \cup {NoSurface} /\ mirHidden' \subseteq Surfaces
           /\ events' \in Seq(Signals)
<1>1. FocusSignals(mirFocus, s) \in Seq(Signals)
    BY FocusSignalsType
<1>2. ASSUME s \in mirHidden
      PROVE  Event("shown", s) \in Signals
    BY <1>2, EventType DEF EventKinds, Brackets
<1> DEFINE shown == IF s \in mirHidden THEN <<Event("shown", s)>> ELSE <<>>
<1>3. shown \in Seq(Signals)
    BY <1>2
<1>4. <<Started>> \in Seq(Signals) /\ <<Ended>> \in Seq(Signals)
    BY BracketType
<1> HIDE DEF shown
<1>5. queue \o <<Started>> \o shown \o FocusSignals(mirFocus, s) \o <<Ended>> \in Seq(Signals)
    BY <1>1, <1>3, <1>4
<1> QED
    BY <1>5 DEF MirActivate, shown

LEMMA MirRaiseType ==
    ASSUME NEW s \in Surfaces \cup {NoSurface}, NEW queue \in Seq(Signals)
    PROVE  MirRaise(s, queue) \in Seq(Signals)
<1>1. ASSUME s # NoSurface
      PROVE  Event("raised", s) \in Signals
    BY <1>1, EventType DEF EventKinds, Brackets
<1> QED
    BY <1>1, BracketType DEF MirRaise, Live

Rows == Windows \ {NullWindow}

(* The null window never gets a surface; any other window may.             *)
LEMMA SurfaceMapsType ==
    /\ NullWindow \in Windows
    /\ \A sf \in SurfaceMaps : \A w \in Windows : sf[w] \in Surfaces \cup {NoSurface}
    /\ \A sf \in SurfaceMaps : sf[NullWindow] = NoSurface
    /\ \A sf \in SurfaceMaps : \A w : \A s \in Surfaces \cup {NoSurface} :
          w # NullWindow \/ s = NoSurface => [sf EXCEPT ![w] = s] \in SurfaceMaps
    /\ \A sf \in SurfaceMaps : \A R :
          [w \in Windows |-> IF w \in R THEN NoSurface ELSE sf[w]] \in SurfaceMaps
<1>1. NullWindow \in Windows
    BY BoundsAssumption DEF Windows, NullWindow
<1> QED
    BY <1>1 DEF SurfaceMaps


LEMMA RaisedRowsType ==
    ASSUME NEW id, NEW r \in Seq(Rows), NEW sf \in SurfaceMaps
    PROVE  RaisedRows(id, r, sf) \in Seq(Rows)
<1>1. IndexForId(id, r) \in 0 .. Len(r)
    BY IndexForIdFinds
<1> QED
    BY <1>1, MovedRows DEF RaisedRows

LEMMA RaisedQueueType ==
    ASSUME NEW id, NEW r \in Seq(Rows), NEW sf \in SurfaceMaps, NEW queue \in Seq(Signals)
    PROVE  RaisedQueue(id, r, sf, queue) \in Seq(Signals)
<1>1. IndexForId(id, r) \in 0 .. Len(r)
    BY IndexForIdFinds
<1>2. ASSUME IndexForId(id, r) > 1
      PROVE  sf[r[IndexForId(id, r)]] \in Surfaces \cup {NoSurface}
    BY <1>1, <1>2 DEF SurfaceMaps, Rows
<1> QED
    BY <1>2, MirRaiseType DEF RaisedQueue

FocusMaps == [Windows -> BOOLEAN]

LEMMA SetFocusedWindowType ==
    ASSUME NEW f \in FocusRecords, NEW w \in Windows \cup {NoWindow}
    PROVE  SetFocusedWindow(f, w) \in FocusRecords
BY DEF SetFocusedWindow, FocusRecords

LEMMA FocusedChangedType ==
    ASSUME NEW f \in FocusRecords, NEW w \in Windows, NEW focused \in BOOLEAN
    PROVE  FocusedChanged(f, w, focused) \in FocusRecords
<1>1. SetFocusedWindow(f, w) \in FocusRecords
    BY SetFocusedWindowType
<1> QED
    BY <1>1 DEF FocusedChanged, FocusRecords

LEMMA ForgetWindowsType ==
    ASSUME NEW f \in FocusRecords, NEW R
    PROVE  ForgetWindows(f, R) \in FocusRecords
BY DEF ForgetWindows, FocusRecords

LEMMA LeaveEmptyType ==
    ASSUME NEW hf \in FocusMaps, NEW sf, NEW f, NEW w
    PROVE  LeaveEmpty(hf, sf, f, w) \in FocusMaps
BY DEF LeaveEmpty, FocusMaps

LEMMA ActivateEmptyWindowType ==
    ASSUME NEW w \in Windows, NEW r \in Seq(Rows), NEW sf \in SurfaceMaps, NEW hf \in FocusMaps,
           NEW f \in FocusRecords, NEW queue \in Seq(Signals),
           mirFocus \in Surfaces \cup {NoSurface}, mirHidden \subseteq Surfaces,
           ActivateEmptyWindow(w, r, sf, hf, f, queue)
    PROVE  /\ rows' \in Seq(Rows) /\ hasFocus' \in FocusMaps /\ focus' \in FocusRecords
           /\ mirFocus' \in Surfaces \cup {NoSurface} /\ mirHidden' \subseteq Surfaces
           /\ events' \in Seq(Signals)
<1>1. RaisedRows(IdOf(w), r, sf) \in Seq(Rows)
    BY RaisedRowsType
<1>2. RaisedQueue(IdOf(w), r, sf, queue) \in Seq(Signals)
    BY RaisedQueueType
<1>3. [hf EXCEPT ![w] = TRUE] \in FocusMaps
    BY DEF FocusMaps
<1>4. LeaveEmpty([hf EXCEPT ![w] = TRUE], sf, f, w) \in FocusMaps
    BY <1>3, LeaveEmptyType
<1>5. SetFocusedWindow(f, w) \in FocusRecords
    BY SetFocusedWindowType
<1>6. ASSUME MirActivate(NoSurface, RaisedQueue(IdOf(w), r, sf, queue))
      PROVE  /\ mirFocus' \in Surfaces \cup {NoSurface} /\ mirHidden' \subseteq Surfaces
             /\ events' \in Seq(Signals)
    BY <1>2, <1>6, MirActivateType
<1> QED
    BY <1>1, <1>2, <1>4, <1>5, <1>6 DEF ActivateEmptyWindow

LEMMA ActivateType ==
    ASSUME NEW w \in Windows, NEW r \in Seq(Rows), NEW sf \in SurfaceMaps, NEW hf \in FocusMaps,
           NEW f \in FocusRecords, NEW queue \in Seq(Signals),
           mirFocus \in Surfaces \cup {NoSurface}, mirHidden \subseteq Surfaces,
           Activate(w, r, sf, hf, f, queue)
    PROVE  /\ rows' \in Seq(Rows) /\ hasFocus' \in FocusMaps /\ focus' \in FocusRecords
           /\ mirFocus' \in Surfaces \cup {NoSurface} /\ mirHidden' \subseteq Surfaces
           /\ events' \in Seq(Signals)
<1>1. CASE sf[w] = NoSurface
    BY <1>1, ActivateEmptyWindowType DEF Activate
<1>2. CASE sf[w] # NoSurface
    <2>1. sf[w] \in Surfaces \cup {NoSurface}
        BY SurfaceMapsType
    <2>2. MirActivate(sf[w], queue) /\ rows' = r /\ hasFocus' = hf /\ focus' = f
        BY <1>2 DEF Activate
    <2> QED
        BY <2>1, <2>2, MirActivateType
<1> QED
    BY <1>1, <1>2

LEMMA ActivateTopMostType ==
    ASSUME NEW id, NEW r \in Seq(Rows), NEW sf \in SurfaceMaps, NEW hf \in FocusMaps,
           NEW f \in FocusRecords, NEW queue \in Seq(Signals),
           mirFocus \in Surfaces \cup {NoSurface}, mirHidden \subseteq Surfaces,
           ActivateTopMostWindowWithoutId(id, r, sf, hf, f, queue)
    PROVE  /\ rows' \in Seq(Rows) /\ hasFocus' \in FocusMaps /\ focus' \in FocusRecords
           /\ mirFocus' \in Surfaces \cup {NoSurface} /\ mirHidden' \subseteq Surfaces
           /\ events' \in Seq(Signals)
<1> DEFINE I == {i \in 1 .. Len(r) : r[i] # id}
           i == IF I # {} THEN Min(I) ELSE 0
<1>1. SelectInSeq(r, LAMBDA w : w # id) = i
    BY DEF SelectInSeq
<1>2. I \subseteq Nat /\ I \subseteq 1 .. Len(r)
    OBVIOUS
<1>3. i = 0 \/ i \in 1 .. Len(r)
    BY <1>2, MinIsLeast
<1> HIDE DEF i
<1>4. CASE i = 0
    BY <1>1, <1>4 DEF ActivateTopMostWindowWithoutId
<1>5. CASE i \in 1 .. Len(r)
    <2>1. r[i] \in Windows /\ i # 0
        BY <1>5 DEF Rows
    <2>2. Activate(r[i], r, sf, hf, f, queue)
        BY <1>1, <2>1 DEF ActivateTopMostWindowWithoutId
    <2> QED
        BY <2>1, <2>2, ActivateType
<1> QED
    BY <1>3, <1>4, <1>5

(* The row a surface fills is one of the rows, or none.                    *)
LEMMA FillRowType ==
    ASSUME NEW s, NEW S, rows \in Seq(S)
    PROVE  FillRow(s) \in 0 .. Len(rows)
<1>1. Len(rows) \in Nat /\ DOMAIN rows = 1 .. Len(rows)
    OBVIOUS
<1>2. ASSUME NEW I, I \subseteq 1 .. Len(rows)
      PROVE  (IF I # {} THEN Min(I) ELSE 0) \in 0 .. Len(rows)
    <2>1. \A i \in I : i \in 1 .. Len(rows) /\ i \in Nat
        BY <1>1, <1>2
    <2>2. CASE I = {}
        BY <1>1, <2>2
    <2>3. CASE I # {}
        <3>1. I \subseteq Nat
            BY <2>1
        <3>2. Min(I) \in I
            BY <2>3, <3>1, MinIsLeast
        <3> QED
            BY <1>1, <2>1, <2>3, <3>2
    <2> QED
        BY <2>2, <2>3
<1>6. ASSUME NEW apps
      PROVE  FirstFillable(apps) \in 0 .. Len(rows)
    <2> DEFINE I == {i \in 1 .. Len(rows) : Fillable(rows[i]) /\ entryApp[rows[i]] \in apps}
    <2>1. FirstFillable(apps) = IF I # {} THEN Min(I) ELSE 0
        BY DEF FirstFillable, SelectInSeq
    <2>2. I \subseteq 1 .. Len(rows)
        OBVIOUS
    <2> QED
        BY <1>2, <2>1, <2>2
<1>7. ASSUME Cardinality(Resembling(s)) = 1
      PROVE  (CHOOSE i \in Resembling(s) : TRUE) \in 0 .. Len(rows)
    <2>1. Resembling(s) \subseteq 1 .. Len(rows)
        BY <1>1 DEF Resembling
    <2>2. Resembling(s) # {}
        <3>1. Cardinality({}) = 0
            BY FS_EmptySet
        <3>2. ASSUME Resembling(s) = {}
              PROVE  Cardinality(Resembling(s)) = 0
            BY <3>1, <3>2, Zenon
        <3> QED
            BY <1>7, <3>2
    <2> QED
        BY <1>1, <2>1, <2>2
<1> QED
    BY <1>1, <1>6, <1>7 DEF FillRow

LEMMA NewWindowType ==
    ASSUME TypeOK, NEW s \in Surfaces \cup {NoSurface}, NewWindow(s)
    PROVE  /\ nextId \in Windows /\ nextId \in Rows
           /\ nextId' \in 1 .. MaxWindows + 1 /\ windows' \subseteq Windows
           /\ surfaceOf' \in SurfaceMaps
<1>1. /\ nextId \in 1 .. MaxWindows + 1 /\ nextId <= MaxWindows /\ nextId' = nextId + 1
      /\ windows' = windows \cup {nextId} /\ windows \subseteq Windows
      /\ surfaceOf' = [surfaceOf EXCEPT ![nextId] = s] /\ surfaceOf \in SurfaceMaps
    BY DEF NewWindow, TypeOK, SurfaceMaps
<1>2. nextId \in 0 .. MaxWindows /\ nextId # 0 /\ nextId' \in 1 .. MaxWindows + 1
    BY <1>1, BoundsAssumption
<1>3. surfaceOf' \in SurfaceMaps
    BY <1>1, <1>2, SurfaceMapsType DEF NullWindow
<1> QED
    BY <1>1, <1>2, <1>3, Zenon DEF Windows, Rows, NullWindow

(* Deleting rows leaves windows behind that are rows still.                *)
LEMMA DeleteRowsType ==
    ASSUME TypeOK, NEW R, R \subseteq Windows, DeleteRows(R)
    PROVE  /\ rows' \in Seq(Rows) /\ focus' \in FocusRecords
           /\ windows' \subseteq Windows /\ surfaceOf' \in SurfaceMaps
           /\ hasFocus' \in FocusMaps /\ allSurfaces' \subseteq Surfaces
           /\ closedAllWindows' \in BOOLEAN
           /\ UNCHANGED <<entryApp, removeOnce, condemned, nextId, hiddenWindows>>
<1>1. rows \in Seq(Rows) /\ focus \in FocusRecords
    BY DEF TypeOK, Rows
<1>2. Without(rows, R) \in Seq(Rows)
    BY <1>1, WithoutRows
<1>3. ForgetWindows(focus, R) \in FocusRecords
    BY <1>1, ForgetWindowsType
<1>4. closedAllWindows' \in BOOLEAN
    BY DEF DeleteRows, TypeOK
<1> QED
    BY <1>2, <1>3, <1>4, SurfaceMapsType DEF DeleteRows, TypeOK, FocusMaps

(* So does adding a surface to the model.                                  *)
LEMMA PrependSurfaceType ==
    ASSUME TypeOK, NEW s \in Surfaces, NEW r \in Seq(Rows), NEW queue \in Seq(Signals),
           PrependSurface(s, r, queue)
    PROVE  /\ rows' \in Seq(Rows) /\ focus' \in FocusRecords
           /\ windows' \subseteq Windows /\ surfaceOf' \in SurfaceMaps
           /\ hasFocus' \in FocusMaps /\ allSurfaces' \subseteq Surfaces
           /\ entryApp' \in [Windows -> Apps \cup {NoApp}] /\ removeOnce' \subseteq Windows
           /\ nextId' \in 1 .. MaxWindows + 1
           /\ mirFocus' \in Surfaces \cup {NoSurface} /\ mirHidden' \subseteq Surfaces
           /\ events' \in Seq(Signals)
<1> DEFINE i == FillRow(s)
           w == rows[i]
           focused == s \in qtFocused
<1>1. /\ rows \in Seq(Rows) /\ focus \in FocusRecords /\ hasFocus \in FocusMaps
      /\ surfaceOf \in SurfaceMaps /\ nextId \in Nat /\ nextId # 0 /\ focused \in BOOLEAN
    BY BoundsAssumption DEF TypeOK, Rows, FocusMaps, SurfaceMaps
<1>2. allSurfaces' \subseteq Surfaces
    BY DEF PrependSurface, TypeOK
<1>3. i \in 0 .. Len(rows)
    BY <1>1, FillRowType
<1>4. CASE i # 0
    <2>1. w \in Windows /\ w # NullWindow
        BY <1>1, <1>3, <1>4 DEF Rows
    <2>2. [surfaceOf EXCEPT ![w] = s] \in SurfaceMaps
        BY <1>1, <2>1, SurfaceMapsType
    <2>3. LeaveEmpty([hasFocus EXCEPT ![w] = focused], [surfaceOf EXCEPT ![w] = s], focus, w)
              \in FocusMaps
        <3>1. [hasFocus EXCEPT ![w] = focused] \in FocusMaps
            BY <1>1 DEF FocusMaps
        <3> QED
            BY <3>1, LeaveEmptyType
    <2>4. FocusedChanged(focus, w, focused) \in FocusRecords
        BY <1>1, <2>1, FocusedChangedType
    <2>5. [hasFocus EXCEPT ![w] = focused] \in FocusMaps
        BY <1>1 DEF FocusMaps
    <2>6. /\ surfaceOf' = [surfaceOf EXCEPT ![w] = s]
          /\ hasFocus' = IF focused /\ ~hasFocus[w]
                         THEN LeaveEmpty([hasFocus EXCEPT ![w] = focused],
                                         [surfaceOf EXCEPT ![w] = s], focus, w)
                         ELSE [hasFocus EXCEPT ![w] = focused]
          /\ focus' = IF focused = hasFocus[w] THEN focus ELSE FocusedChanged(focus, w, focused)
          /\ rows' = r
          /\ MirActivate(s, queue) \/ (events' = queue /\ UNCHANGED <<mirFocus, mirHidden>>)
          /\ UNCHANGED <<entryApp, removeOnce, nextId, windows>>
        BY <1>4 DEF PrependSurface
    <2>7. /\ mirFocus' \in Surfaces \cup {NoSurface} /\ mirHidden' \subseteq Surfaces
          /\ events' \in Seq(Signals)
        BY <2>6, MirActivateType DEF TypeOK
    <2> QED
        BY <1>1, <1>2, <2>2, <2>3, <2>4, <2>5, <2>6, <2>7 DEF TypeOK
<1>5. CASE i = 0
    <2>1. /\ NewWindow(s)
          /\ entryApp' = [entryApp EXCEPT ![nextId] = AppOf[s]]
          /\ removeOnce' = removeOnce \ {nextId}
          /\ rows' = <<nextId>> \o r
          /\ hasFocus' = IF focused
                         THEN LeaveEmpty([hasFocus EXCEPT ![nextId] = focused], surfaceOf,
                                         focus, nextId)
                         ELSE [hasFocus EXCEPT ![nextId] = focused]
          /\ focus' = IF focused THEN FocusedChanged(focus, nextId, TRUE) ELSE focus
          /\ MirActivate(s, queue)
        BY <1>5 DEF PrependSurface
    <2>2. /\ nextId \in Windows /\ nextId \in Rows
          /\ nextId' \in 1 .. MaxWindows + 1 /\ windows' \subseteq Windows
          /\ surfaceOf' \in SurfaceMaps
        BY <2>1, NewWindowType
    <2>5. hasFocus' \in FocusMaps
        <3>1. [hasFocus EXCEPT ![nextId] = focused] \in FocusMaps
            BY <1>1 DEF FocusMaps
        <3> QED
            BY <2>1, <3>1, LeaveEmptyType
    <2>6. focus' \in FocusRecords
        BY <1>1, <2>1, <2>2, FocusedChangedType
    <2>7. rows' \in Seq(Rows)
        BY <2>1, <2>2
    <2>8. entryApp' \in [Windows -> Apps \cup {NoApp}] /\ removeOnce' \subseteq Windows
        BY <2>1, SurfacesAssumption DEF TypeOK
    <2>9. /\ mirFocus' \in Surfaces \cup {NoSurface} /\ mirHidden' \subseteq Surfaces
          /\ events' \in Seq(Signals)
        BY <2>1, MirActivateType DEF TypeOK
    <2> QED
        BY <1>2, <2>2, <2>5, <2>6, <2>7, <2>8, <2>9
<1> QED
    BY <1>4, <1>5

(* A signal that is delivered is about a surface, unless it starts or ends *)
(* a block of modifications.                                               *)
LEMMA SubjectType ==
    ASSUME TypeOK, NEW kind, Deliver(kind)
    PROVE  /\ Head(events) \in Signals /\ Tail(events) \in Seq(Signals)
           /\ kind \notin Brackets => Subject \in Surfaces
           /\ kind \notin Brackets => Head(events).of \in Seq(Surfaces)
<1>1. events \in Seq(Signals) /\ events # <<>> /\ Head(events).kind = kind
    BY DEF TypeOK, Deliver
<1>2. Head(events) \in Signals /\ Tail(events) \in Seq(Signals)
    BY <1>1
<1>3. ASSUME kind \notin Brackets
      PROVE  Head(events).of \in Seq(Surfaces) /\ Head(events).of # <<>>
    BY <1>1, <1>2, <1>3 DEF Signals
<1>4. \A ss \in Seq(Surfaces) : ss # <<>> => ss[1] \in Surfaces
    OBVIOUS
<1> QED
    BY <1>2, <1>3, <1>4 DEF Subject

LEMMA ShellKeepsType ==
    ASSUME TypeOK, ShellNext
    PROVE  TypeOK'
<1> DEFINE Focused == /\ rows' \in Seq(Rows) /\ hasFocus' \in FocusMaps /\ focus' \in FocusRecords
                      /\ mirFocus' \in Surfaces \cup {NoSurface} /\ mirHidden' \subseteq Surfaces
                      /\ events' \in Seq(Signals)
<1>1. /\ rows \in Seq(Rows) /\ hasFocus \in FocusMaps /\ focus \in FocusRecords
      /\ surfaceOf \in SurfaceMaps /\ mirFocus \in Surfaces \cup {NoSurface}
      /\ mirHidden \subseteq Surfaces /\ events \in Seq(Signals)
    BY DEF TypeOK, Rows, FocusMaps, SurfaceMaps
<1>2. ASSUME Focused, UNCHANGED unfocusable, closeAsked' \subseteq Apps \cup {NoApp} \cup Surfaces,
             closingAllApps' \in BOOLEAN, closedAllWindows' \in BOOLEAN
      PROVE  TypeOK'
    BY <1>2 DEF TypeOK, Rows, FocusMaps, SurfaceMaps, unfocusable, objectVars
<1>3. closeAsked \subseteq Apps \cup {NoApp} \cup Surfaces /\ closingAllApps \in BOOLEAN
      /\ closedAllWindows \in BOOLEAN
    BY DEF TypeOK
<1>4. ASSUME NEW w \in Windows
      PROVE  CloseTarget(w) \subseteq Apps \cup {NoApp} \cup Surfaces
    BY SurfaceMapsType DEF CloseTarget, Live, TypeOK
<1> HIDE DEF Focused
<1>5. ASSUME NEW w \in Windows, Activate(w, rows, surfaceOf, hasFocus, focus, events)
      PROVE  Focused
    BY <1>1, <1>5, ActivateType DEF Focused
<1>6. ASSUME NEW id, NEW f \in FocusRecords,
             ActivateTopMostWindowWithoutId(id, rows, surfaceOf, hasFocus, f, events)
      PROVE  Focused
    BY <1>1, <1>6, ActivateTopMostType DEF Focused
<1>7. ASSUME UNCHANGED <<rows, hasFocus, focus, mirFocus, mirHidden, events>>
      PROVE  Focused
    BY <1>1, <1>7 DEF Focused
<1>8. ASSUME NEW wanted \in BOOLEAN, SetRootFocus(wanted)
      PROVE  TypeOK'
    <2> DEFINE prev == focus.previous
               read == [focus EXCEPT !.usedDeleted = @ \/ prev \notin windows \cup {NoWindow}]
    <2>1. read \in FocusRecords
        BY <1>1 DEF FocusRecords
    <2>2. UNCHANGED <<unfocusable, closeAsked, closingAllApps, closedAllWindows>>
        BY <1>8 DEF SetRootFocus
    <2>3. \/ prev \in windows /\ Activate(prev, rows, surfaceOf, hasFocus, focus, events)
          \/ focus' = read /\ UNCHANGED <<rows, hasFocus, events, mirFocus, mirHidden>>
          \/ ActivateTopMostWindowWithoutId(-1, rows, surfaceOf, hasFocus, read, events)
          \/ Activate(NullWindow, rows, surfaceOf, hasFocus, focus, events)
        BY <1>8 DEF SetRootFocus
    <2>4. windows \subseteq Windows /\ NullWindow \in Windows
        BY BoundsAssumption DEF TypeOK, Windows, NullWindow
    <2> HIDE DEF read, prev
    <2>5. Focused
        <3>1. ASSUME focus' = read, UNCHANGED <<rows, hasFocus, events, mirFocus, mirHidden>>
              PROVE  Focused
            BY <1>1, <2>1, <3>1 DEF Focused
        <3> QED
            BY <1>5, <1>6, <2>1, <2>3, <2>4, <3>1
    <2> QED
        BY <1>2, <1>3, <2>2, <2>5
<1>9. ASSUME NEW w \in Windows, RaiseId(w)
      PROVE  TypeOK'
    <2>1. Focused
        BY <1>1, <1>9, RaisedRowsType, RaisedQueueType DEF RaiseId, Focused
    <2> QED
        BY <1>2, <1>3, <1>9, <2>1 DEF RaiseId
<1>10. ASSUME NEW w \in Windows, ActivateWindow(w)
       PROVE  TypeOK'
    BY <1>2, <1>3, <1>5, <1>10 DEF ActivateWindow
<1>11. ASSUME NEW w \in Windows, CloseWindow(w)
       PROVE  TypeOK'
    <2>1. Focused
        BY <1>1, <1>6, <1>7, <1>11 DEF CloseWindow
    <2> QED
        BY <1>2, <1>3, <1>4, <1>11, <2>1 DEF CloseWindow
<1>12. CASE PendingActivation
    <2>1. Focused
        BY <1>1, <1>12 DEF PendingActivation, Focused, FocusRecords
    <2> QED
        BY <1>2, <1>3, <1>12, <2>1 DEF PendingActivation
<1>13. CASE CloseAllWindows
    <2>1. Focused
        BY <1>1, <1>6, <1>7, <1>13 DEF CloseAllWindows
    <2>2. UNION {CloseTarget(rows[i]) : i \in {j \in DOMAIN rows : ~PassedOver(j)}}
              \subseteq Apps \cup {NoApp} \cup Surfaces
        BY <1>1, <1>4 DEF Rows
    <2> QED
        BY <1>2, <1>3, <1>13, <2>1, <2>2 DEF CloseAllWindows
<1> QED
    BY <1>8, <1>9, <1>10, <1>11, <1>12, <1>13 DEF ShellNext

LEMMA ApplicationsKeepType ==
    ASSUME TypeOK, ApplicationNext
    PROVE  TypeOK'
<1>1. /\ rows \in Seq(Rows) /\ hasFocus \in FocusMaps /\ focus \in FocusRecords
      /\ surfaceOf \in SurfaceMaps /\ mirFocus \in Surfaces \cup {NoSurface}
      /\ mirHidden \subseteq Surfaces /\ events \in Seq(Signals)
    BY DEF TypeOK, Rows, FocusMaps, SurfaceMaps
<1>2. ASSUME NEW a \in Apps, NEW active \in BOOLEAN, AddApplication(a, active)
      PROVE  TypeOK'
    <2>1. appState' \in [Apps -> {"new", "running", "stopped"}]
        BY <1>2 DEF AddApplication, TypeOK
    <2>2. CASE active /\ a \in SplashApps
        <3>1. /\ NewWindow(NoSurface) /\ NewEntry(nextId, a)
              /\ Activate(nextId, <<nextId>> \o rows, surfaceOf, hasFocus, focus, events)
            BY <1>2, <2>2 DEF AddApplication
        <3>2. /\ nextId \in Windows /\ nextId \in Rows
              /\ nextId' \in 1 .. MaxWindows + 1 /\ windows' \subseteq Windows
              /\ surfaceOf' \in SurfaceMaps
            BY <3>1, NewWindowType
        <3>3. <<nextId>> \o rows \in Seq(Rows)
            BY <1>1, <3>2
        <3>4. /\ rows' \in Seq(Rows) /\ hasFocus' \in FocusMaps /\ focus' \in FocusRecords
              /\ mirFocus' \in Surfaces \cup {NoSurface} /\ mirHidden' \subseteq Surfaces
              /\ events' \in Seq(Signals)
            BY <1>1, <3>1, <3>2, <3>3, ActivateType
        <3>5. entryApp' \in [Windows -> Apps \cup {NoApp}] /\ removeOnce' \subseteq Windows
            BY <3>1 DEF NewEntry, TypeOK
        <3> QED
            BY <1>2, <2>1, <3>2, <3>4, <3>5
            DEF AddApplication, TypeOK, Rows, FocusMaps, SurfaceMaps, objectVars
    <2>3. CASE ~(active /\ a \in SplashApps)
        BY <1>2, <2>1, <2>3 DEF AddApplication, TypeOK, objectVars
    <2> QED
        BY <2>2, <2>3
<1>3. ASSUME NEW a \in Apps, RemoveApplication(a)
      PROVE  TypeOK'
    <2>1. DeleteRows({w \in Windows : InRows(w, rows) /\ entryApp[w] = a})
        BY <1>3 DEF RemoveApplication
    <2>2. /\ rows' \in Seq(Rows) /\ focus' \in FocusRecords
          /\ windows' \subseteq Windows /\ surfaceOf' \in SurfaceMaps
          /\ hasFocus' \in FocusMaps /\ allSurfaces' \subseteq Surfaces
          /\ closedAllWindows' \in BOOLEAN
          /\ UNCHANGED <<entryApp, removeOnce, condemned, nextId, hiddenWindows>>
        BY <2>1, DeleteRowsType
    <2> QED
        BY <1>3, <2>2 DEF RemoveApplication, TypeOK, Rows, FocusMaps, SurfaceMaps, objectVars
<1> QED
    BY <1>2, <1>3 DEF ApplicationNext

LEMMA MirKeepsType ==
    ASSUME TypeOK, MirNext
    PROVE  TypeOK'
<1> USE DEF objectVars
<1>1. mirFocus \in Surfaces \cup {NoSurface} /\ mirHidden \subseteq Surfaces
      /\ events \in Seq(Signals) /\ mirLife \in [Surfaces -> {"none", "live", "dead", "gone"}]
    BY DEF TypeOK
<1>2. ASSUME NEW kind \in {"added", "away", "hidden", "shown", "died", "destroyed"},
             NEW s \in Surfaces
      PROVE  Event(kind, s) \in Signals
    BY EventType DEF EventKinds, Brackets
<1>3. ASSUME NEW s \in Surfaces, NEW hide \in BOOLEAN, NEW here \in BOOLEAN,
             CreateSurface(s, hide, here)
      PROVE  TypeOK'
    <2>1. events' \in Seq(Signals)
        BY <1>1, <1>2, <1>3 DEF CreateSurface
    <2> QED
        BY <1>3, <2>1 DEF CreateSurface, TypeOK, modelVars
<1>4. ASSUME NEW s \in Surfaces, Refocus(s)
      PROVE  TypeOK'
    <2>1. /\ mirFocus' \in Surfaces \cup {NoSurface} /\ mirHidden' \subseteq Surfaces
          /\ events' \in Seq(Signals)
        BY <1>1, <1>4, MirActivateType DEF Refocus
    <2> QED
        BY <1>4, <2>1 DEF Refocus, TypeOK, modelVars
<1>5. ASSUME NEW s \in Surfaces, ShowSurface(s)
      PROVE  TypeOK'
    <2>1. events' \in Seq(Signals)
        BY <1>1, <1>2, <1>5, BracketType DEF ShowSurface
    <2> QED
        BY <1>5, <2>1 DEF ShowSurface, TypeOK, modelVars
<1>6. ASSUME NEW s \in Surfaces, Die(s)
      PROVE  TypeOK'
    <2>1. events' \in Seq(Signals)
        BY <1>1, <1>2, <1>6 DEF Die
    <2> QED
        BY <1>6, <2>1 DEF Die, TypeOK, modelVars
<1>7. ASSUME NEW s \in Surfaces, NEW here \in BOOLEAN, MoveSurface(s, here)
      PROVE  TypeOK'
    <2>1. events' \in Seq(Signals)
        BY <1>1, <1>2, <1>7 DEF MoveSurface
    <2> QED
        BY <1>7, <2>1 DEF MoveSurface, TypeOK, modelVars
<1>8. ASSUME NEW s \in Surfaces, NEW next \in Surfaces \cup {NoSurface}, HideSurface(s, next)
      PROVE  TypeOK'
    <2> DEFINE block == IF mirFocus = s THEN FocusSignals(s, next) ELSE <<>>
    <2>1. block \in Seq(Signals)
        BY FocusSignalsType
    <2>2. <<Started, Event("hidden", s)>> \in Seq(Signals) /\ <<Ended>> \in Seq(Signals)
        BY <1>2, BracketType
    <2> HIDE DEF block
    <2>3. events \o <<Started, Event("hidden", s)>> \o block \o <<Ended>> \in Seq(Signals)
        BY <1>1, <2>1, <2>2
    <2> QED
        BY <1>8, <2>3 DEF HideSurface, TypeOK, modelVars, block
<1>9. ASSUME NEW s \in Surfaces, NEW next \in Surfaces \cup {NoSurface}, Destroy(s, next)
      PROVE  TypeOK'
    <2> DEFINE block == IF mirFocus = s
                        THEN <<Started>> \o FocusSignals(NoSurface, next) \o <<Ended>> ELSE <<>>
    <2>1. block \in Seq(Signals)
        <3>1. FocusSignals(NoSurface, next) \in Seq(Signals)
            BY FocusSignalsType
        <3>2. <<Started>> \in Seq(Signals) /\ <<Ended>> \in Seq(Signals)
            BY BracketType
        <3> QED
            BY <3>1, <3>2
    <2>2. <<Event("destroyed", s)>> \in Seq(Signals)
        BY <1>2
    <2> HIDE DEF block
    <2>3. events \o block \o <<Event("destroyed", s)>> \in Seq(Signals)
        BY <1>1, <2>1, <2>2
    <2> QED
        BY <1>9, <2>3 DEF Destroy, TypeOK, modelVars, block
<1>10. CASE MoveWorkspaceContent
    <2>1. PICK ss \in SetToSeqs(mirHere) : events' = Append(events, [kind |-> "away", of |-> ss])
        BY <1>10 DEF MoveWorkspaceContent
    <2>2. Cardinality(mirHere) \in Nat /\ Cardinality(mirHere) # 0
        <3>1. mirHere \in SUBSET Surfaces /\ mirHere # {}
            BY <1>10 DEF MoveWorkspaceContent, TypeOK
        <3>2. IsFiniteSet(mirHere)
            BY <3>1, FS_Subset, SurfacesAssumption
        <3> QED
            BY <3>1, <3>2, FS_EmptySet, FS_CardinalityType
    <2>3. ss \in [1 .. Cardinality(mirHere) -> mirHere] /\ mirHere \subseteq Surfaces
        BY <2>1 DEF SetToSeqs, TypeOK
    <2>4. ss \in Seq(Surfaces) /\ ss # <<>>
        BY <2>2, <2>3
    <2>5. events' \in Seq(Signals)
        BY <1>1, <2>1, <2>4 DEF Signals, EventKinds, Brackets
    <2> QED
        BY <1>10, <2>5 DEF MoveWorkspaceContent, TypeOK, modelVars
<1> QED
    BY <1>3, <1>4, <1>5, <1>6, <1>7, <1>8, <1>9, <1>10 DEF MirNext

LEMMA SignalsKeepType ==
    ASSUME TypeOK, SignalNext
    PROVE  TypeOK'
<1> USE DEF objectVars, mirVars
<1>1. /\ rows \in Seq(Rows) /\ hasFocus \in FocusMaps /\ focus \in FocusRecords
      /\ surfaceOf \in SurfaceMaps /\ mirFocus \in Surfaces \cup {NoSurface}
      /\ mirHidden \subseteq Surfaces /\ inputMethodWindow \in Windows \cup {NoWindow}
    BY DEF TypeOK, Rows, FocusMaps, SurfaceMaps
<1>2. NoWindow \notin Windows
    BY DEF NoWindow, Windows
<1>3. ASSUME NEW w \in Windows \cup {NoWindow}
      PROVE  LeaveEmpty(hasFocus, surfaceOf, focus, w) \in FocusMaps
    BY <1>1, LeaveEmptyType
<1>4. ASSUME NEW s, IndexOf(s, rows, surfaceOf) # 0
      PROVE  rows[IndexOf(s, rows, surfaceOf)] \in Windows
    <2>1. IndexOf(s, rows, surfaceOf) \in 1 .. Len(rows)
        BY <1>1, <1>4, IndexOfFinds
    <2> QED
        BY <1>1, <2>1 DEF Rows
<1>5. CASE OnModificationsStarted
    <2>1. Tail(events) \in Seq(Signals)
        BY <1>5, SubjectType DEF OnModificationsStarted
    <2> QED
        BY <1>5, <2>1 DEF OnModificationsStarted, TypeOK
<1>6. CASE OnModificationsEnded
    <2>1. Tail(events) \in Seq(Signals)
        BY <1>6, SubjectType DEF OnModificationsEnded
    <2>2. SetFocusedWindow(focus, NoWindow) \in FocusRecords
        BY <1>1, SetFocusedWindowType
    <2>3. [SetFocusedWindow(focus, NoWindow) EXCEPT !.cleared = FALSE] \in FocusRecords
        BY <2>2 DEF FocusRecords
    <2>4. focus' \in FocusRecords /\ hasFocus' \in FocusMaps
        BY <1>1, <1>3, <1>6, <2>3 DEF OnModificationsEnded
    <2> QED
        BY <1>6, <2>1, <2>4 DEF OnModificationsEnded, TypeOK, FocusMaps
<1>7. ASSUME NEW kind \in EventKinds \ Brackets, NEW focused \in BOOLEAN, UpdateFocused(kind, focused)
      PROVE  TypeOK'
    <2>1. Tail(events) \in Seq(Signals) /\ Subject \in Surfaces
        BY <1>7, SubjectType DEF UpdateFocused
    <2>2. qtFocused' \subseteq Surfaces
        BY <1>7, <2>1 DEF UpdateFocused, TypeOK
    <2>3. CASE HasWindow(Subject) /\ hasFocus[WindowOf(Subject)] # focused
        <3> DEFINE w == WindowOf(Subject)
                   hf == [hasFocus EXCEPT ![w] = focused]
        <3>1. w \in Windows
            BY <2>3 DEF HasWindow, WindowOf, TypeOK
        <3>2. hf \in FocusMaps
            BY <1>1 DEF FocusMaps
        <3>3. LeaveEmpty(hf, surfaceOf, focus, w) \in FocusMaps
            BY <3>2, LeaveEmptyType
        <3>4. FocusedChanged(focus, w, focused) \in FocusRecords
            BY <1>1, <3>1, FocusedChangedType
        <3>5. /\ focus' = FocusedChanged(focus, w, focused)
              /\ hasFocus' = IF focused THEN LeaveEmpty(hf, surfaceOf, focus, w) ELSE hf
            BY <1>7, <2>3 DEF UpdateFocused
        <3>6. focus' \in FocusRecords /\ hasFocus' \in FocusMaps
            BY <3>2, <3>3, <3>4, <3>5
        <3> QED
            BY <1>7, <2>1, <2>2, <3>6 DEF UpdateFocused, TypeOK, FocusMaps
    <2>4. CASE ~(HasWindow(Subject) /\ hasFocus[WindowOf(Subject)] # focused)
        BY <1>7, <2>1, <2>2, <2>4 DEF UpdateFocused, TypeOK
    <2> QED
        BY <2>3, <2>4
<1>8. CASE OnSurfacesRaised
    <2>1. Tail(events) \in Seq(Signals)
        BY <1>8, SubjectType DEF OnSurfacesRaised
    <2>2. LET i == IndexOf(Subject, rows, surfaceOf) IN i = 0 \/ i \in 1 .. Len(rows)
        BY <1>1, IndexOfFinds
    <2>3. rows' \in Seq(Rows)
        BY <1>1, <1>8, <2>2, MovedRows DEF OnSurfacesRaised
    <2> QED
        BY <1>8, <2>1, <2>3 DEF OnSurfacesRaised, TypeOK, Rows
<1>9. CASE SkipKnownSurface
    <2>1. Tail(events) \in Seq(Signals)
        BY <1>9, SubjectType DEF SkipKnownSurface
    <2> QED
        BY <1>9, <2>1 DEF SkipKnownSurface, TypeOK, modelVars
<1>10. CASE RemoveSurfaces
    <2> DEFINE ss == Head(events).of
               R == {w \in Windows : InRows(w, rows) /\ surfaceOf[w] \in ToSet(ss)}
    <2>1. Tail(events) \in Seq(Signals) /\ ss \in Seq(Surfaces)
        BY <1>10, SubjectType DEF RemoveSurfaces, Brackets
    <2>2. rows' = Without(rows, R)
        BY <1>10 DEF RemoveSurfaces
    <2> HIDE DEF R
    <2>3. rows' \in Seq(Rows)
        BY <1>1, <2>2, WithoutRows
    <2>4. surfaceOf' \in SurfaceMaps /\ hasFocus' \in FocusMaps
        BY <1>1, <1>10, SurfaceMapsType DEF RemoveSurfaces, FocusMaps
    <2>5. focus' \in FocusRecords
        BY <1>1, <1>10 DEF RemoveSurfaces, FocusRecords
    <2>6. allSurfaces' \subseteq Surfaces
        BY <1>10 DEF RemoveSurfaces, TypeOK
    <2> QED
        BY <1>10, <2>1, <2>3, <2>4, <2>5, <2>6
        DEF RemoveSurfaces, TypeOK, Rows, SurfaceMaps, FocusMaps
<1>11. ASSUME NEW s \in Surfaces, DeferHiddenSurface(s)
       PROVE  TypeOK'
    <2>1. Tail(events) \in Seq(Signals)
        BY <1>11, SubjectType DEF DeferHiddenSurface, Arrives
    <2> QED
        BY <1>11, <2>1 DEF DeferHiddenSurface, TypeOK
<1>12. ASSUME NEW s \in Surfaces, AddTopLevelSurface(s)
       PROVE  TypeOK'
    <2>1. Tail(events) \in Seq(Signals) /\ PrependSurface(s, rows, Tail(events))
        BY <1>12, SubjectType DEF AddTopLevelSurface, Arrives
    <2>2. /\ rows' \in Seq(Rows) /\ focus' \in FocusRecords
          /\ windows' \subseteq Windows /\ surfaceOf' \in SurfaceMaps
          /\ hasFocus' \in FocusMaps /\ allSurfaces' \subseteq Surfaces
          /\ entryApp' \in [Windows -> Apps \cup {NoApp}] /\ removeOnce' \subseteq Windows
          /\ nextId' \in 1 .. MaxWindows + 1
          /\ mirFocus' \in Surfaces \cup {NoSurface} /\ mirHidden' \subseteq Surfaces
          /\ events' \in Seq(Signals)
        BY <1>1, <2>1, PrependSurfaceType
    <2> QED
        BY <1>12, <2>2 DEF AddTopLevelSurface, TypeOK, Rows, SurfaceMaps, FocusMaps
<1>13. ASSUME NEW s \in Surfaces, WrapSurface(s)
       PROVE  TypeOK'
    <2>1. Tail(events) \in Seq(Signals) /\ NewWindow(s)
        BY <1>13, SubjectType DEF WrapSurface, Arrives
    <2>2. /\ nextId \in Windows
          /\ nextId' \in 1 .. MaxWindows + 1 /\ windows' \subseteq Windows
          /\ surfaceOf' \in SurfaceMaps
        BY <2>1, NewWindowType
    <2> DEFINE hf == [hasFocus EXCEPT ![nextId] = s \in qtFocused]
    <2>3. hf \in FocusMaps
        <3> DEFINE focused == s \in qtFocused
        <3>1. focused \in BOOLEAN
            OBVIOUS
        <3> HIDE DEF focused
        <3>2. [hasFocus EXCEPT ![nextId] = focused] \in FocusMaps
            BY <1>1, <3>1 DEF FocusMaps
        <3> QED
            BY <3>2 DEF focused
    <2>4. LeaveEmpty(hf, surfaceOf, focus, nextId) \in FocusMaps
        BY <2>3, LeaveEmptyType
    <2>5. FocusedChanged(focus, nextId, TRUE) \in FocusRecords
        BY <1>1, <2>2, FocusedChangedType
    <2>6. focus' \in FocusRecords /\ hasFocus' \in FocusMaps
        BY <1>1, <1>13, <2>4, <2>5 DEF WrapSurface
    <2>7. hiddenWindows' \subseteq Windows
        BY <1>13, <2>2 DEF WrapSurface, TypeOK
    <2> QED
        BY <1>13, <2>1, <2>2, <2>6, <2>7 DEF WrapSurface, TypeOK, SurfaceMaps, FocusMaps
<1>14. ASSUME NEW s \in Surfaces, SetInputMethodWindow(s)
       PROVE  TypeOK'
    <2>1. Tail(events) \in Seq(Signals)
        BY <1>14, SubjectType DEF SetInputMethodWindow, Arrives
    <2>2. nextId \in 0 .. MaxWindows /\ nextId # 0 /\ nextId' \in 1 .. MaxWindows + 1
        BY <1>14, BoundsAssumption DEF SetInputMethodWindow, TypeOK
    <2>3. nextId \in Windows \ {NullWindow}
        BY <2>2, Zenon DEF Windows, NullWindow
    <2>4. /\ surfaceOf' \in SurfaceMaps /\ windows' \subseteq Windows
          /\ inputMethodWindow' \in (Windows \ {NullWindow}) \cup {NoWindow}
        BY <1>1, <1>14, <2>3, SurfaceMapsType DEF SetInputMethodWindow, TypeOK, SurfaceMaps
    <2> QED
        BY <1>14, <2>1, <2>2, <2>4 DEF SetInputMethodWindow, TypeOK, SurfaceMaps
<1>15. CASE SurfaceHidden
    <2> DEFINE W == {w \in windows : surfaceOf[w] = Subject /\ w \notin hiddenWindows}
               R == {w \in W : InRows(w, rows)}
    <2>1. Tail(events) \in Seq(Signals) /\ Subject \in Surfaces
        BY <1>15, SubjectType DEF SurfaceHidden, Brackets
    <2>2. rows' = Without(rows, R) /\ focus' = ForgetWindows(focus, R)
        BY <1>15 DEF SurfaceHidden
    <2> HIDE DEF R
    <2>3. rows' \in Seq(Rows) /\ focus' \in FocusRecords
        BY <1>1, <2>2, WithoutRows, ForgetWindowsType
    <2>4. hiddenWindows' \subseteq Windows /\ qtHidden' \subseteq Surfaces
          /\ allSurfaces' \subseteq Surfaces /\ closedAllWindows' \in BOOLEAN
        BY <1>15, <2>1 DEF SurfaceHidden, TypeOK
    <2> QED
        BY <1>15, <2>1, <2>3, <2>4 DEF SurfaceHidden, TypeOK, Rows
<1>16. CASE SurfaceShown
    <2> DEFINE W == {w \in windows : surfaceOf[w] = Subject /\ w \in hiddenWindows}
               back == {w \in W : ~InRows(w, rows) /\ IsTopLevel(Subject)}
               r == IF back = {} THEN rows ELSE <<CHOOSE w \in back : TRUE>> \o rows
    <2>1. Tail(events) \in Seq(Signals) /\ Subject \in Surfaces
        BY <1>16, SubjectType DEF SurfaceShown, Brackets
    <2>2. r \in Seq(Rows)
        <3>1. ASSUME NEW w \in back
              PROVE  w \in Rows
            BY <1>1, <2>1, SurfacesAssumption DEF TypeOK, Rows, SurfaceMaps
        <3> HIDE DEF back
        <3>2. back # {} => (CHOOSE w \in back : TRUE) \in Rows
            BY <3>1
        <3> QED
            BY <1>1, <3>2
    <2>3. hiddenWindows' \subseteq Windows /\ qtHidden' \subseteq Surfaces
          /\ deferred' \subseteq Surfaces
        BY <1>16 DEF SurfaceShown, TypeOK
    <2>4. /\ rows' \in Seq(Rows) /\ focus' \in FocusRecords
          /\ windows' \subseteq Windows /\ surfaceOf' \in SurfaceMaps
          /\ hasFocus' \in FocusMaps /\ allSurfaces' \subseteq Surfaces
          /\ entryApp' \in [Windows -> Apps \cup {NoApp}] /\ removeOnce' \subseteq Windows
          /\ nextId' \in 1 .. MaxWindows + 1
          /\ mirFocus' \in Surfaces \cup {NoSurface} /\ mirHidden' \subseteq Surfaces
          /\ events' \in Seq(Signals)
        <3>1. CASE Subject \in deferred
            <4>1. PrependSurface(Subject, r, Tail(events))
                BY <1>16, <3>1 DEF SurfaceShown
            <4> HIDE DEF r
            <4> QED
                BY <2>1, <2>2, <4>1, PrependSurfaceType
        <3>2. CASE Subject \notin deferred
            <4>1. /\ rows' = r
                  /\ entryApp' = [w \in Windows |-> IF w \in back THEN AppOf[Subject]
                                                   ELSE entryApp[w]]
                  /\ removeOnce' = removeOnce \ back
                  /\ events' = Tail(events)
                  /\ UNCHANGED <<windows, nextId, surfaceOf, hasFocus, focus,
                                 allSurfaces, mirFocus, mirHidden>>
                BY <1>16, <3>2 DEF SurfaceShown
            <4> HIDE DEF r, back
            <4>2. entryApp' \in [Windows -> Apps \cup {NoApp}]
                BY <2>1, <4>1, SurfacesAssumption DEF TypeOK
            <4> QED
                BY <1>1, <2>1, <2>2, <4>1, <4>2 DEF TypeOK
        <3> QED
            BY <3>1, <3>2
    <2> QED
        BY <1>16, <2>3, <2>4 DEF SurfaceShown, TypeOK, Rows, SurfaceMaps, FocusMaps
<1>17. CASE SurfaceDied
    <2>1. Tail(events) \in Seq(Signals)
        BY <1>17, SubjectType DEF SurfaceDied
    <2>2. removeOnce' \subseteq Windows
        BY <1>4, <1>17 DEF SurfaceDied, TypeOK
    <2>3. /\ windows' \subseteq Windows /\ hiddenWindows' \subseteq Windows
          /\ surfaceOf' \in SurfaceMaps /\ hasFocus' \in FocusMaps
        BY <1>1, <1>17, SurfaceMapsType DEF SurfaceDied, TypeOK, FocusMaps
    <2> QED
        BY <1>17, <2>1, <2>2, <2>3 DEF SurfaceDied, TypeOK, SurfaceMaps, FocusMaps
<1>18. CASE InputMethodDied
    <2>1. Tail(events) \in Seq(Signals)
        BY <1>18, SubjectType DEF InputMethodDied
    <2>2. SetFocusedWindow(focus, NoWindow) \in FocusRecords
        BY <1>1, SetFocusedWindowType
    <2>3. [SetFocusedWindow(focus, NoWindow) EXCEPT !.cleared = FALSE] \in FocusRecords
        BY <2>2 DEF FocusRecords
    <2>4. focus' \in FocusRecords
        BY <1>1, <1>18, <2>3 DEF InputMethodDied
    <2>5. /\ windows' \subseteq Windows /\ allSurfaces' \subseteq Surfaces
          /\ inputMethodWindow' \in (Windows \ {NullWindow}) \cup {NoWindow}
        BY <1>18 DEF InputMethodDied, TypeOK
    <2>6. surfaceOf' = surfaceOf \/ surfaceOf' = [surfaceOf EXCEPT ![inputMethodWindow] = NoSurface]
        BY <1>18 DEF InputMethodDied
    <2>7. hasFocus' = hasFocus \/ hasFocus' = [hasFocus EXCEPT ![inputMethodWindow] = FALSE]
        BY <1>18 DEF InputMethodDied
    <2>8. surfaceOf' \in SurfaceMaps
        <3>1. NullWindow \in Windows
            BY SurfaceMapsType
        <3>2. [surfaceOf EXCEPT ![inputMethodWindow] = NoSurface] \in SurfaceMaps
            BY <1>1, <3>1 DEF SurfaceMaps
        <3> QED
            BY <1>1, <2>6, <3>2
    <2>9. hasFocus' \in FocusMaps
        BY <1>1, <2>7 DEF FocusMaps
    <2> QED
        BY <1>18, <2>1, <2>4, <2>5, <2>8, <2>9 DEF InputMethodDied, TypeOK, FocusMaps
<1>19. CASE SurfaceDestroyed
    <2>1. Tail(events) \in Seq(Signals)
        BY <1>19, SubjectType DEF SurfaceDestroyed
    <2> DEFINE i == IndexOf(Subject, rows, surfaceOf)
               w == rows[i]
               wrapper == {v \in windows : surfaceOf[v] = Subject}
    <2>2. Subject \in Surfaces
        BY <1>19, SubjectType DEF SurfaceDestroyed, Brackets
    <2>3. \/ i # 0 /\ DeleteRows({w})
          \/ /\ i # 0
             /\ hasFocus' = [hasFocus EXCEPT ![w] = FALSE]
             /\ focus' = IF hasFocus[w] THEN FocusedChanged(focus, w, FALSE) ELSE focus
             /\ allSurfaces' = allSurfaces \ {Subject}
             /\ surfaceOf' = [surfaceOf EXCEPT ![w] = NoSurface]
             /\ UNCHANGED <<rows, windows, closedAllWindows, entryApp, removeOnce, condemned,
                            nextId, hiddenWindows>>
          \/ /\ surfaceOf' = [v \in Windows |-> IF v \in wrapper THEN NoSurface ELSE surfaceOf[v]]
             /\ condemned' = condemned \cup wrapper
             /\ UNCHANGED <<rows, focus, windows, hasFocus, allSurfaces, closedAllWindows,
                            entryApp, removeOnce, nextId, hiddenWindows>>
        BY <1>19 DEF SurfaceDestroyed
    <2>4. i # 0 => w \in Windows
        BY <1>4
    <2>5. \A v \in wrapper : v \in Windows \ {NullWindow}
        BY <1>1, <2>2, SurfacesAssumption DEF TypeOK, SurfaceMaps
    <2> HIDE DEF i, w, wrapper
    <2>6. /\ rows' \in Seq(Rows) /\ focus' \in FocusRecords
          /\ windows' \subseteq Windows /\ surfaceOf' \in SurfaceMaps
          /\ hasFocus' \in FocusMaps /\ allSurfaces' \subseteq Surfaces
          /\ closedAllWindows' \in BOOLEAN /\ condemned' \subseteq Windows \ {NullWindow}
          /\ UNCHANGED <<entryApp, removeOnce, nextId, hiddenWindows>>
        <3>1. CASE i # 0 /\ DeleteRows({w})
            <4>1. {w} \subseteq Windows
                BY <2>4, <3>1
            <4>2. UNCHANGED condemned
                BY <3>1 DEF DeleteRows
            <4> QED
                BY <3>1, <4>1, <4>2, DeleteRowsType DEF TypeOK
        <3>2. CASE /\ i # 0
                   /\ hasFocus' = [hasFocus EXCEPT ![w] = FALSE]
                   /\ focus' = IF hasFocus[w] THEN FocusedChanged(focus, w, FALSE) ELSE focus
                   /\ allSurfaces' = allSurfaces \ {Subject}
                   /\ surfaceOf' = [surfaceOf EXCEPT ![w] = NoSurface]
                   /\ UNCHANGED <<rows, windows, closedAllWindows, entryApp, removeOnce, condemned,
                                  nextId, hiddenWindows>>
            <4>1. FocusedChanged(focus, w, FALSE) \in FocusRecords
                BY <1>1, <2>4, <3>2, FocusedChangedType
            <4>2. hasFocus' \in FocusMaps /\ surfaceOf' \in SurfaceMaps
                BY <1>1, <3>2, SurfaceMapsType DEF FocusMaps
            <4> QED
                BY <1>1, <3>2, <4>1, <4>2 DEF TypeOK
        <3>3. CASE /\ surfaceOf' = [v \in Windows |-> IF v \in wrapper THEN NoSurface ELSE surfaceOf[v]]
                   /\ condemned' = condemned \cup wrapper
                   /\ UNCHANGED <<rows, focus, windows, hasFocus, allSurfaces, closedAllWindows,
                                  entryApp, removeOnce, nextId, hiddenWindows>>
            <4>1. surfaceOf' \in SurfaceMaps
                BY <1>1, <3>3, SurfaceMapsType
            <4> QED
                BY <1>1, <2>5, <3>3, <4>1 DEF TypeOK
        <3> QED
            BY <2>3, <3>1, <3>2, <3>3
    <2>7. qtFocused' \subseteq Surfaces /\ qtHidden' \subseteq Surfaces /\ deferred' \subseteq Surfaces
        BY <1>19 DEF SurfaceDestroyed, TypeOK
    <2> QED
        BY <1>19, <2>1, <2>6, <2>7 DEF SurfaceDestroyed, TypeOK, Rows, FocusMaps
<1> QED
    BY <1>5, <1>6, <1>7, <1>8, <1>9, <1>10, <1>11, <1>12, <1>13, <1>14, <1>15, <1>16, <1>17,
       <1>18, <1>19
    DEF SignalNext, FocusLost, FocusGained, EventKinds, Brackets

LEMMA DeferredDeleteKeepsType ==
    ASSUME TypeOK, NEW w \in Windows, DeferredDelete(w)
    PROVE  TypeOK'
BY DEF DeferredDelete, TypeOK, mirVars, objectVars

LEMMA InitialType == Init => TypeOK
<1> SUFFICES ASSUME Init PROVE TypeOK
    OBVIOUS
<1>1. NullWindow \in Windows /\ 1 \in 1 .. MaxWindows + 1
    BY BoundsAssumption DEF Windows, NullWindow
<1>2. surfaceOf \in SurfaceMaps
    BY <1>1 DEF Init, SurfaceMaps
<1>3. focus \in FocusRecords
    BY DEF Init, FocusRecords
<1>4. rows \in Seq(Windows \ {NullWindow}) /\ events \in Seq(Signals)
    BY DEF Init
<1> QED
    BY <1>1, <1>2, <1>3, <1>4 DEF Init, TypeOK

(* The model's state keeps its shape, whatever the applications, the       *)
(* surfaces and the environment: Spec => []TypeOK.                         *)
THEOREM TypeCorrectness == Spec => []TypeOK
<1>1. Init => TypeOK
    BY InitialType
<1>2. TypeOK /\ [Next]_vars => TypeOK'
    <2> SUFFICES ASSUME TypeOK, [Next]_vars
                 PROVE  TypeOK'
        OBVIOUS
    <2>1. CASE Next
        BY <2>1, ApplicationsKeepType, SignalsKeepType, ShellKeepsType, MirKeepsType,
           DeferredDeleteKeepsType
        DEF Next
    <2>2. CASE UNCHANGED vars
        BY <2>2 DEF TypeOK, vars, modelVars, mirVars, objectVars
    <2> QED
        BY <2>1, <2>2
<1> QED
    BY <1>1, <1>2, PTL DEF Spec

-----------------------------------------------------------------------------
(* The rows are sound. Besides them the inductive invariant speaks of the  *)
(* windows that are not rows: hidden ones have left the rows, so that the  *)
(* death of one deletes no row's window; no window has an id that is still *)
(* to come, so that a new row is new; and condemned windows and the input  *)
(* method's have no surface that could bring them back into the rows.      *)

RowsFrom(r, T) ==
    /\ r \in Seq(Rows)
    /\ \A i, j \in 1 .. Len(r) : r[i] = r[j] => i = j
    /\ \A i \in 1 .. Len(r) : r[i] \in T

MayBeRows == (windows \ (condemned \cup hiddenWindows)) \ {inputMethodWindow}

Sound ==
    /\ TypeOK
    /\ RowsFrom(rows, MayBeRows)
    /\ \A w \in windows \cup hiddenWindows \cup condemned : w < nextId
    /\ inputMethodWindow # NoWindow =>
          inputMethodWindow < nextId /\ surfaceOf[inputMethodWindow] \in InputMethods \cup {NoSurface}
    /\ \A w \in condemned : surfaceOf[w] = NoSurface

LEMMA RowsFromMore ==
    ASSUME NEW T, NEW U, \A w \in T : w \in U, NEW r, RowsFrom(r, T)
    PROVE  RowsFrom(r, U)
BY DEF RowsFrom

LEMMA MovedRowsFrom ==
    ASSUME NEW T, NEW r, RowsFrom(r, T), NEW i \in 1 .. Len(r)
    PROVE  RowsFrom(MoveToFront(r, i), T)
<1> DEFINE q == MoveToFront(r, i)
<1>1. r \in Seq(Rows) /\ Len(r) \in Nat
    BY DEF RowsFrom
<1>2. /\ q \in Seq(Rows) /\ Len(q) = Len(r)
      /\ \A k \in 1 .. Len(r) : q[k] = IF k = 1 THEN r[i]
                                      ELSE IF k <= i THEN r[k - 1] ELSE r[k]
    BY <1>1, MovedRows
<1> HIDE DEF q
<1>3. ASSUME NEW k \in 1 .. Len(r), NEW l \in 1 .. Len(r), q[k] = q[l]
      PROVE  k = l
    BY <1>1, <1>2, <1>3, SMTT(30) DEF RowsFrom
<1>4. ASSUME NEW k \in 1 .. Len(r)
      PROVE  q[k] \in T
    BY <1>1, <1>2 DEF RowsFrom
<1> QED
    BY <1>2, <1>3, <1>4 DEF RowsFrom, q

LEMMA WithoutFrom ==
    ASSUME NEW T, NEW r, RowsFrom(r, T), NEW R
    PROVE  RowsFrom(Without(r, R), T \ R)
BY WithoutRows, SMTT(20) DEF RowsFrom

LEMMA PrependedFrom ==
    ASSUME NEW T, NEW r, RowsFrom(r, T), NEW w \in Rows, w \notin T
    PROVE  RowsFrom(<<w>> \o r, T \cup {w})
<1>1. r \in Seq(Rows) /\ Len(r) \in Nat
    BY DEF RowsFrom
<1>2. /\ <<w>> \o r \in Seq(Rows) /\ Len(<<w>> \o r) = Len(r) + 1
      /\ \A k \in 1 .. Len(r) + 1 : (<<w>> \o r)[k] = IF k = 1 THEN w ELSE r[k - 1]
    BY <1>1
<1>3. \A k \in 1 .. Len(r) + 1 : k = 1 \/ k - 1 \in 1 .. Len(r)
    BY <1>1
<1> QED
    BY <1>1, <1>2, <1>3 DEF RowsFrom

LEMMA RaisedRowsFrom ==
    ASSUME NEW T, NEW r, RowsFrom(r, T), NEW id, NEW sf
    PROVE  RowsFrom(RaisedRows(id, r, sf), T)
<1>1. LET i == IndexForId(id, r) IN i = 0 \/ i \in 1 .. Len(r)
    BY IndexForIdFinds DEF RowsFrom
<1> QED
    BY <1>1, MovedRowsFrom DEF RaisedRows

LEMMA ActivateFrom ==
    ASSUME NEW T, NEW r, RowsFrom(r, T), NEW w, NEW sf, NEW hf, NEW f, NEW queue,
           Activate(w, r, sf, hf, f, queue)
    PROVE  RowsFrom(rows', T)
BY RaisedRowsFrom DEF Activate, ActivateEmptyWindow

LEMMA ActivateTopMostFrom ==
    ASSUME NEW T, NEW r, RowsFrom(r, T), NEW id, NEW sf, NEW hf, NEW f, NEW queue,
           ActivateTopMostWindowWithoutId(id, r, sf, hf, f, queue)
    PROVE  RowsFrom(rows', T)
BY ActivateFrom DEF ActivateTopMostWindowWithoutId

(* Where no window comes, goes or changes its surface, only the rows       *)
(* matter.                                                                 *)
LEMMA SoundRowsAlone ==
    ASSUME Sound, TypeOK', RowsFrom(rows', MayBeRows),
           UNCHANGED <<windows, condemned, hiddenWindows, inputMethodWindow, nextId, surfaceOf>>
    PROVE  Sound'
BY DEF Sound, MayBeRows

LEMMA ShellKeepsRowsSound ==
    ASSUME Sound, ShellNext, TypeOK'
    PROVE  Sound'
<1>1. RowsFrom(rows, MayBeRows)
    BY DEF Sound
<1>2. UNCHANGED <<windows, condemned, hiddenWindows, inputMethodWindow, nextId, surfaceOf>>
    BY DEF ShellNext, SetRootFocus, RaiseId, ActivateWindow, CloseWindow, PendingActivation,
           CloseAllWindows, unfocusable
<1>3. ASSUME NEW w, Activate(w, rows, surfaceOf, hasFocus, focus, events)
      PROVE  RowsFrom(rows', MayBeRows)
    BY <1>1, <1>3, ActivateFrom
<1>4. ASSUME NEW id, NEW f, ActivateTopMostWindowWithoutId(id, rows, surfaceOf, hasFocus, f, events)
      PROVE  RowsFrom(rows', MayBeRows)
    BY <1>1, <1>4, ActivateTopMostFrom
<1>5. ASSUME rows' = rows
      PROVE  RowsFrom(rows', MayBeRows)
    BY <1>1, <1>5
<1>6. ASSUME NEW wanted, SetRootFocus(wanted)
      PROVE  RowsFrom(rows', MayBeRows)
    BY <1>3, <1>4, <1>5, <1>6 DEF SetRootFocus
<1>7. ASSUME NEW w, RaiseId(w) \/ ActivateWindow(w) \/ CloseWindow(w)
      PROVE  RowsFrom(rows', MayBeRows)
    BY <1>1, <1>3, <1>4, <1>5, <1>7, RaisedRowsFrom DEF RaiseId, ActivateWindow, CloseWindow
<1>8. ASSUME PendingActivation \/ CloseAllWindows
      PROVE  RowsFrom(rows', MayBeRows)
    BY <1>4, <1>5, <1>8 DEF PendingActivation, CloseAllWindows
<1>9. RowsFrom(rows', MayBeRows)
    BY <1>6, <1>7, <1>8 DEF ShellNext
<1> QED
    BY <1>2, <1>9, SoundRowsAlone

\* What happens in Mir reaches the model by signals only.
LEMMA MirLeavesModel ==
    ASSUME MirNext
    PROVE  UNCHANGED modelVars /\ \A s \in liveSurfaces : s \in liveSurfaces'
<1> DEFINE G == UNCHANGED modelVars /\ \A s \in liveSurfaces : s \in liveSurfaces'
<1>1. ASSUME NEW s \in Surfaces, NEW hide \in BOOLEAN, NEW here \in BOOLEAN, CreateSurface(s, hide, here)
      PROVE  G
    <2>1. UNCHANGED modelVars /\ liveSurfaces' = liveSurfaces \cup {s}
        BY <1>1, Zenon DEF CreateSurface
    <2> QED
        BY <2>1
<1>2. ASSUME UNCHANGED modelVars, UNCHANGED objectVars
      PROVE  G
    BY <1>2 DEF objectVars
<1>3. ASSUME NEW s \in Surfaces, Refocus(s) \/ ShowSurface(s) \/ Die(s)
      PROVE  UNCHANGED modelVars /\ UNCHANGED objectVars
    BY <1>3, Zenon DEF Refocus, ShowSurface, Die
<1>4. ASSUME NEW s \in Surfaces, NEW here \in BOOLEAN, MoveSurface(s, here)
      PROVE  UNCHANGED modelVars /\ UNCHANGED objectVars
    BY <1>4, Zenon DEF MoveSurface
<1>5. ASSUME NEW s \in Surfaces, NEW next \in Surfaces \cup {NoSurface}, HideSurface(s, next)
      PROVE  UNCHANGED modelVars /\ UNCHANGED objectVars
    BY <1>5, Zenon DEF HideSurface
<1>6. ASSUME NEW s \in Surfaces, NEW next \in Surfaces \cup {NoSurface}, Destroy(s, next)
      PROVE  UNCHANGED modelVars /\ UNCHANGED objectVars
    BY <1>6, Zenon DEF Destroy
<1>7. ASSUME MoveWorkspaceContent
      PROVE  UNCHANGED modelVars /\ UNCHANGED objectVars
    BY <1>7, Zenon DEF MoveWorkspaceContent
<1> HIDE DEF G
<1>8. G
    BY <1>1, <1>2, <1>3, <1>4, <1>5, <1>6, <1>7, Zenon DEF MirNext
<1> QED
    BY <1>8 DEF G

LEMMA MirKeepsRowsSound ==
    ASSUME Sound, MirNext, TypeOK'
    PROVE  Sound'
<1>1. UNCHANGED modelVars
    BY MirLeavesModel
<1> QED
    BY <1>1, SoundRowsAlone DEF modelVars, Sound

LEMMA DeleteRowsSound ==
    ASSUME Sound, TypeOK', NEW R, DeleteRows(R), UNCHANGED inputMethodWindow
    PROVE  Sound'
<1>1. RowsFrom(rows', MayBeRows \ R)
    BY WithoutFrom DEF Sound, DeleteRows
<1>2. \A w \in MayBeRows \ R : w \in MayBeRows'
    BY DEF MayBeRows, DeleteRows
<1>3. RowsFrom(rows', MayBeRows')
    BY <1>1, <1>2, RowsFromMore
<1>4. \A w \in Windows : surfaceOf'[w] \in {surfaceOf[w], NoSurface}
    BY DEF DeleteRows
<1>5. condemned \subseteq Windows /\ inputMethodWindow \in Windows \cup {NoWindow}
    BY DEF Sound, TypeOK
<1> QED
    BY <1>3, <1>4, <1>5 DEF Sound, DeleteRows

(* A window that is created has an id no window had before.                *)
LEMMA NewWindowIsNew ==
    ASSUME Sound
    PROVE  /\ nextId \notin windows /\ nextId \notin hiddenWindows /\ nextId \notin condemned
           /\ nextId # inputMethodWindow /\ nextId \notin MayBeRows
           /\ nextId \in Nat /\ nextId # 0 /\ nextId < nextId + 1
<1>1. nextId \in Nat /\ nextId # 0 /\ nextId < nextId + 1
    BY BoundsAssumption DEF Sound, TypeOK
<1>2. nextId # inputMethodWindow
    BY <1>1 DEF Sound, NoWindow
<1> QED
    BY <1>1, <1>2 DEF Sound, MayBeRows

LEMMA ApplicationsKeepRowsSound ==
    ASSUME Sound, ApplicationNext, TypeOK'
    PROVE  Sound'
<1>1. ASSUME NEW a \in Apps, RemoveApplication(a)
      PROVE  Sound'
    BY <1>1, DeleteRowsSound DEF RemoveApplication
<1>2. ASSUME NEW a \in Apps, NEW active \in BOOLEAN, AddApplication(a, active)
      PROVE  Sound'
    <2>1. CASE active /\ a \in SplashApps
        <3>1. /\ NewWindow(NoSurface)
              /\ Activate(nextId, <<nextId>> \o rows, surfaceOf, hasFocus, focus, events)
              /\ UNCHANGED <<condemned, hiddenWindows, inputMethodWindow>>
            BY <1>2, <2>1 DEF AddApplication
        <3>2. nextId \in Rows /\ TypeOK
            BY <3>1, NewWindowType DEF Sound
        <3>3. RowsFrom(<<nextId>> \o rows, MayBeRows \cup {nextId})
            BY <3>2, NewWindowIsNew, PrependedFrom DEF Sound
        <3>4. RowsFrom(rows', MayBeRows \cup {nextId})
            BY <3>1, <3>3, ActivateFrom
        <3>5. \A w \in MayBeRows \cup {nextId} : w \in MayBeRows'
            BY <3>1, NewWindowIsNew DEF NewWindow, MayBeRows
        <3>6. RowsFrom(rows', MayBeRows')
            BY <3>4, <3>5, RowsFromMore
        <3>7. \A w \in Windows : w # nextId => surfaceOf'[w] = surfaceOf[w]
            BY <3>1, <3>2 DEF NewWindow, TypeOK, SurfaceMaps
        <3>8. condemned \subseteq Windows /\ inputMethodWindow \in Windows \cup {NoWindow}
            BY DEF Sound, TypeOK
        <3>9. \A w \in Int : w < nextId => w < nextId + 1
            BY NewWindowIsNew
        <3>10. \A w \in Windows : w \in Int
            BY DEF Windows
        <3>11. /\ windows' = windows \cup {nextId} /\ nextId' = nextId + 1
               /\ windows \subseteq Windows /\ hiddenWindows \subseteq Windows
            BY <3>1 DEF NewWindow, Sound, TypeOK
        <3>12. \A w \in windows' \cup hiddenWindows' \cup condemned' : w < nextId'
            BY <3>1, <3>8, <3>9, <3>10, <3>11, NewWindowIsNew DEF Sound
        <3> QED
            BY <3>1, <3>6, <3>7, <3>8, <3>9, <3>10, <3>11, <3>12, NewWindowIsNew DEF Sound
    <2>2. CASE ~(active /\ a \in SplashApps)
        <3>1. /\ UNCHANGED <<windows, condemned, hiddenWindows, inputMethodWindow, nextId, surfaceOf>>
              /\ UNCHANGED rows
            BY <1>2, <2>2 DEF AddApplication
        <3> QED
            BY <3>1, SoundRowsAlone DEF Sound
    <2> QED
        BY <2>1, <2>2
<1> QED
    BY <1>1, <1>2 DEF ApplicationNext

LEMMA DeferredDeleteKeepsRowsSound ==
    ASSUME Sound, NEW w \in Windows, DeferredDelete(w), TypeOK'
    PROVE  Sound'
<1>1. \A v \in MayBeRows : v \in MayBeRows'
    BY DEF DeferredDelete, MayBeRows
<1>2. RowsFrom(rows', MayBeRows')
    BY <1>1, RowsFromMore DEF Sound, DeferredDelete
<1> QED
    BY <1>2 DEF Sound, DeferredDelete

(* A surface that is added fills a row or gets a new one, while hidden     *)
(* windows may come back.                                                  *)
LEMMA PrependSurfaceSound ==
    ASSUME Sound, TypeOK', NEW s \in Surfaces, NEW queue, NEW r,
           PrependSurface(s, r, queue), UNCHANGED <<condemned, inputMethodWindow>>,
           \A w \in hiddenWindows' : w \in hiddenWindows,
           RowsFrom(r, (windows \ (condemned \cup hiddenWindows')) \ {inputMethodWindow})
    PROVE  Sound'
<1> DEFINE T == (windows \ (condemned \cup hiddenWindows')) \ {inputMethodWindow}
           i == FillRow(s)
           w == rows[i]
<1>1. /\ surfaceOf \in SurfaceMaps /\ rows \in Seq(Rows) /\ condemned \subseteq Windows
      /\ windows \subseteq Windows /\ hiddenWindows \subseteq Windows
      /\ inputMethodWindow \in Windows \cup {NoWindow} /\ TypeOK
    BY DEF Sound, TypeOK, Rows
<1>2. i \in 0 .. Len(rows)
    BY <1>1, FillRowType
<1>3. CASE i # 0
    <2>1. w \in MayBeRows
        BY <1>1, <1>2, <1>3 DEF Sound, RowsFrom
    <2>2. /\ surfaceOf' = [surfaceOf EXCEPT ![w] = s] /\ rows' = r
          /\ UNCHANGED <<nextId, windows>>
        BY <1>3 DEF PrependSurface
    <2>3. RowsFrom(rows', MayBeRows')
        BY <2>2 DEF MayBeRows
    <2>4. \A v \in Windows : v # w => surfaceOf'[v] = surfaceOf[v]
        BY <1>1, <2>2 DEF SurfaceMaps
    <2>5. w # inputMethodWindow /\ w \notin condemned
        BY <2>1 DEF MayBeRows
    <2> HIDE DEF w
    <2> QED
        BY <1>1, <2>2, <2>3, <2>4, <2>5 DEF Sound
<1>4. CASE i = 0
    <2>1. NewWindow(s) /\ rows' = <<nextId>> \o r
        BY <1>4 DEF PrependSurface
    <2>2. /\ nextId \in Rows /\ windows' = windows \cup {nextId} /\ nextId' = nextId + 1
        BY <1>1, <2>1, NewWindowType DEF NewWindow
    <2>3. RowsFrom(rows', T \cup {nextId})
        BY <2>1, <2>2, NewWindowIsNew, PrependedFrom
    <2>4. \A v \in T \cup {nextId} : v \in MayBeRows'
        BY <2>2, NewWindowIsNew DEF MayBeRows
    <2>5. RowsFrom(rows', MayBeRows')
        BY <2>3, <2>4, RowsFromMore
    <2>6. \A v \in Windows : v # nextId => surfaceOf'[v] = surfaceOf[v]
        BY <1>1, <2>1 DEF NewWindow, SurfaceMaps
    <2>7. \A v \in Windows : v < nextId => v < nextId + 1
        BY NewWindowIsNew DEF Windows
    <2> QED
        BY <1>1, <2>2, <2>5, <2>6, <2>7, NewWindowIsNew DEF Sound
<1> QED
    BY <1>3, <1>4

LEMMA SignalsKeepRowsSound ==
    ASSUME Sound, SignalNext, TypeOK'
    PROVE  Sound'
<1>1. /\ surfaceOf \in SurfaceMaps /\ rows \in Seq(Rows) /\ condemned \subseteq Windows
      /\ windows \subseteq Windows /\ hiddenWindows \subseteq Windows
      /\ inputMethodWindow \in Windows \cup {NoWindow} /\ TypeOK
      /\ RowsFrom(rows, MayBeRows)
    BY DEF Sound, TypeOK, Rows
<1>2. \A v \in Windows : v < nextId => v < nextId + 1
    BY NewWindowIsNew DEF Windows
<1>3. CASE OnModificationsStarted \/ OnModificationsEnded \/ SkipKnownSurface
           \/ FocusLost \/ FocusGained
    BY <1>1, <1>3, SoundRowsAlone
    DEF OnModificationsStarted, OnModificationsEnded, SkipKnownSurface, FocusLost, FocusGained,
        UpdateFocused, modelVars
<1>4. CASE OnSurfacesRaised
    <2>1. LET i == IndexOf(Subject, rows, surfaceOf) IN i = 0 \/ i \in 1 .. Len(rows)
        BY <1>1, IndexOfFinds
    <2>2. RowsFrom(rows', MayBeRows)
        BY <1>1, <1>4, <2>1, MovedRowsFrom DEF OnSurfacesRaised
    <2> QED
        BY <1>4, <2>2, SoundRowsAlone DEF OnSurfacesRaised
<1>5. CASE RemoveSurfaces
    <2>1. PICK R : rows' = Without(rows, R)
        BY <1>5 DEF RemoveSurfaces
    <2>2. RowsFrom(rows', MayBeRows \ R)
        BY <1>1, <2>1, WithoutFrom
    <2>3. UNCHANGED <<windows, condemned, hiddenWindows, inputMethodWindow, nextId>>
        BY <1>5 DEF RemoveSurfaces
    <2>4. \A w \in MayBeRows \ R : w \in MayBeRows'
        BY <2>3 DEF MayBeRows
    <2>5. RowsFrom(rows', MayBeRows')
        BY <2>2, <2>4, RowsFromMore
    <2>6. \A w \in Windows : surfaceOf'[w] \in {surfaceOf[w], NoSurface}
        BY <1>5 DEF RemoveSurfaces
    <2> QED
        BY <1>1, <2>3, <2>5, <2>6 DEF Sound
<1>6. ASSUME NEW s \in Surfaces, DeferHiddenSurface(s)
      PROVE  Sound'
    BY <1>1, <1>6, SoundRowsAlone DEF DeferHiddenSurface
<1>7. ASSUME NEW s \in Surfaces, AddTopLevelSurface(s)
      PROVE  Sound'
    <2>1. /\ PrependSurface(s, rows, Tail(events))
          /\ UNCHANGED <<condemned, hiddenWindows, inputMethodWindow>>
        BY <1>7 DEF AddTopLevelSurface
    <2> QED
        BY <1>1, <2>1, PrependSurfaceSound DEF MayBeRows
<1>8. ASSUME NEW s \in Surfaces, WrapSurface(s)
      PROVE  Sound'
    <2>1. /\ NewWindow(s) /\ nextId' = nextId + 1 /\ windows' = windows \cup {nextId}
          /\ \A w \in hiddenWindows' : w = nextId \/ w \in hiddenWindows
          /\ UNCHANGED <<rows, condemned, inputMethodWindow>>
        BY <1>8 DEF WrapSurface, NewWindow
    <2>2. \A w \in MayBeRows : w \in MayBeRows'
        BY <2>1, NewWindowIsNew DEF MayBeRows
    <2>3. RowsFrom(rows', MayBeRows')
        BY <1>1, <2>1, <2>2, RowsFromMore
    <2>4. \A w \in Windows : w # nextId => surfaceOf'[w] = surfaceOf[w]
        BY <1>1, <2>1 DEF NewWindow, SurfaceMaps
    <2> QED
        BY <1>1, <1>2, <2>1, <2>3, <2>4, NewWindowIsNew DEF Sound
<1>9. ASSUME NEW s \in Surfaces, SetInputMethodWindow(s)
      PROVE  Sound'
    <2>1. /\ nextId' = nextId + 1 /\ windows' = (windows \ {inputMethodWindow}) \cup {nextId}
          /\ inputMethodWindow' = nextId /\ s \in InputMethods
          /\ UNCHANGED <<rows, condemned, hiddenWindows>>
          /\ \A w \in Windows : w # nextId => surfaceOf'[w] \in {surfaceOf[w], NoSurface}
          /\ nextId \in Windows => surfaceOf'[nextId] = s
        BY <1>9 DEF SetInputMethodWindow
    <2>2. nextId \in Windows
        BY <1>9, NewWindowIsNew DEF SetInputMethodWindow, Windows
    <2>3. \A w \in MayBeRows : w \in MayBeRows'
        BY <2>1, NewWindowIsNew DEF MayBeRows
    <2>4. RowsFrom(rows', MayBeRows')
        BY <1>1, <2>1, <2>3, RowsFromMore
    <2> QED
        BY <1>1, <1>2, <2>1, <2>2, <2>4, NewWindowIsNew DEF Sound
<1>10. CASE SurfaceHidden
    <2> DEFINE W == {w \in windows : surfaceOf[w] = Subject /\ w \notin hiddenWindows}
               R == {w \in W : InRows(w, rows)}
               Q == {w \in MayBeRows : InRows(w, rows)}
    <2>1. /\ rows' = Without(rows, R) /\ hiddenWindows' = hiddenWindows \cup W
          /\ UNCHANGED <<windows, condemned, inputMethodWindow, nextId, surfaceOf>>
        BY <1>10 DEF SurfaceHidden
    <2>2. RowsFrom(rows, Q)
        BY <1>1 DEF RowsFrom, InRows
    <2>3. RowsFrom(rows', Q \ R)
        BY <2>1, <2>2, WithoutFrom
    <2>4. \A w \in Q \ R : w \in MayBeRows'
        BY <2>1 DEF MayBeRows
    <2>5. RowsFrom(rows', MayBeRows')
        BY <2>3, <2>4, RowsFromMore
    <2> QED
        BY <1>1, <2>1, <2>5 DEF Sound
<1>11. CASE SurfaceShown
    <2> DEFINE W == {w \in windows : surfaceOf[w] = Subject /\ w \in hiddenWindows}
               back == {w \in W : ~InRows(w, rows) /\ IsTopLevel(Subject)}
               r == IF back = {} THEN rows ELSE <<CHOOSE w \in back : TRUE>> \o rows
               T == (windows \ (condemned \cup hiddenWindows')) \ {inputMethodWindow}
    <2>1. /\ hiddenWindows' = hiddenWindows \ W /\ UNCHANGED <<condemned, inputMethodWindow>>
          /\ Subject \in Surfaces
        BY <1>1, <1>11, SubjectType DEF SurfaceShown, Brackets
    <2>2. ASSUME NEW w \in back
          PROVE  w \in T /\ w \notin MayBeRows /\ w \in Rows
        <3>1. surfaceOf[w] = Subject /\ IsTopLevel(Subject) /\ w \in windows /\ w \in hiddenWindows
            OBVIOUS
        <3>2. surfaceOf[w] # NoSurface /\ surfaceOf[w] \notin InputMethods
            BY <2>1, <3>1, SurfacesAssumption DEF IsTopLevel
        <3>3. w # NullWindow /\ w \notin condemned /\ w # inputMethodWindow
            BY <1>1, <3>2, NewWindowIsNew DEF Sound, SurfaceMaps, NoWindow, Windows
        <3> QED
            BY <1>1, <2>1, <3>1, <3>3 DEF Rows, MayBeRows
    <2>3. \A w \in MayBeRows : w \in T
        BY <2>1 DEF MayBeRows
    <2>4. RowsFrom(r, T)
        <3>1. CASE back = {}
            BY <1>1, <2>3, <3>1, RowsFromMore
        <3>2. CASE back # {}
            <4>1. PICK w \in back : r = <<w>> \o rows
                BY <3>2
            <4>2. RowsFrom(r, MayBeRows \cup {w})
                BY <1>1, <2>2, <4>1, PrependedFrom
            <4>3. \A v \in MayBeRows \cup {w} : v \in T
                BY <2>2, <2>3
            <4> HIDE DEF r, T
            <4> QED
                BY <4>2, <4>3, RowsFromMore
        <3> QED
            BY <3>1, <3>2
    <2>5. CASE Subject \in deferred
        <3>1. PrependSurface(Subject, r, Tail(events))
            BY <1>11, <2>5 DEF SurfaceShown
        <3>2. \A w \in hiddenWindows' : w \in hiddenWindows
            BY <2>1
        <3> HIDE DEF r
        <3> QED
            BY <2>1, <2>4, <3>1, <3>2, PrependSurfaceSound
    <2>6. CASE Subject \notin deferred
        <3>1. rows' = r /\ UNCHANGED <<windows, nextId, surfaceOf>>
            BY <1>11, <2>6 DEF SurfaceShown
        <3>2. MayBeRows' = T
            BY <2>1, <3>1 DEF MayBeRows
        <3> HIDE DEF r, T
        <3> QED
            BY <1>1, <2>1, <2>4, <3>1, <3>2 DEF Sound
    <2> QED
        BY <2>5, <2>6
<1>12. CASE SurfaceDied
    <2> DEFINE H == {v \in hiddenWindows : surfaceOf[v] = Subject}
    <2>1. /\ windows' = windows \ H /\ hiddenWindows' = hiddenWindows \ H
          /\ \A v \in Windows : surfaceOf'[v] \in {surfaceOf[v], NoSurface}
          /\ UNCHANGED <<rows, condemned, inputMethodWindow, nextId>>
        BY <1>12 DEF SurfaceDied
    <2>2. \A w \in MayBeRows : w \in MayBeRows'
        BY <2>1 DEF MayBeRows
    <2>3. RowsFrom(rows', MayBeRows')
        BY <1>1, <2>1, <2>2, RowsFromMore
    <2> QED
        BY <1>1, <2>1, <2>3 DEF Sound
<1>13. CASE InputMethodDied
    <2>1. CASE inputMethodWindow = NoWindow
        BY <1>1, <1>13, <2>1, SoundRowsAlone DEF InputMethodDied
    <2>2. CASE inputMethodWindow # NoWindow
        <3>1. /\ windows' = windows \ {inputMethodWindow} /\ inputMethodWindow' = NoWindow
              /\ surfaceOf' = [surfaceOf EXCEPT ![inputMethodWindow] = NoSurface]
              /\ UNCHANGED <<rows, condemned, hiddenWindows, nextId>>
            BY <1>13, <2>2 DEF InputMethodDied
        <3>2. NoWindow \notin windows
            BY <1>1 DEF NoWindow, Windows
        <3>3. \A w \in MayBeRows : w \in MayBeRows'
            BY <3>1, <3>2 DEF MayBeRows
        <3>4. RowsFrom(rows', MayBeRows')
            BY <1>1, <3>1, <3>3, RowsFromMore
        <3>5. \A w \in Windows : surfaceOf'[w] \in {surfaceOf[w], NoSurface}
            BY <1>1, <3>1 DEF SurfaceMaps
        <3> QED
            BY <1>1, <3>1, <3>4, <3>5 DEF Sound
    <2> QED
        BY <2>1, <2>2
<1>14. CASE SurfaceDestroyed
    <2> DEFINE i == IndexOf(Subject, rows, surfaceOf)
               w == rows[i]
               wrapper == {v \in windows : surfaceOf[v] = Subject}
    <2>1. CASE i # 0 /\ DeleteRows({w})
        BY <1>14, <2>1, DeleteRowsSound DEF SurfaceDestroyed
    <2>2. CASE /\ surfaceOf' = [surfaceOf EXCEPT ![w] = NoSurface]
               /\ UNCHANGED <<rows, windows, condemned, nextId, hiddenWindows>>
        <3>1. \A v \in Windows : surfaceOf'[v] \in {surfaceOf[v], NoSurface}
            BY <1>1, <2>2 DEF SurfaceMaps
        <3>2. UNCHANGED <<inputMethodWindow, MayBeRows>>
            BY <1>14, <2>2 DEF SurfaceDestroyed, MayBeRows
        <3> QED
            BY <1>1, <2>2, <3>1, <3>2 DEF Sound
    <2>3. CASE /\ i = 0
               /\ surfaceOf' = [v \in Windows |-> IF v \in wrapper THEN NoSurface ELSE surfaceOf[v]]
               /\ condemned' = condemned \cup wrapper
               /\ UNCHANGED <<rows, windows, nextId, hiddenWindows>>
        <3>1. \A j \in 1 .. Len(rows) : rows[j] \notin wrapper
            <4>1. \/ i \in 1 .. Len(rows) /\ surfaceOf[rows[i]] = Subject
                  \/ i = 0 /\ \A j \in 1 .. Len(rows) : surfaceOf[rows[j]] # Subject
                BY <1>1, IndexOfFinds
            <4>2. 0 \notin 1 .. Len(rows)
                OBVIOUS
            <4> QED
                BY <2>3, <4>1, <4>2
        <3>2. RowsFrom(rows, MayBeRows \ wrapper)
            BY <1>1, <3>1 DEF RowsFrom
        <3>3. UNCHANGED inputMethodWindow
            BY <1>14 DEF SurfaceDestroyed
        <3>4. \A v \in MayBeRows \ wrapper : v \in MayBeRows'
            BY <2>3, <3>3 DEF MayBeRows
        <3>5. RowsFrom(rows', MayBeRows')
            BY <2>3, <3>2, <3>4, RowsFromMore
        <3> QED
            BY <1>1, <2>3, <3>3, <3>5 DEF Sound
    <2> QED
        BY <1>14, <2>1, <2>2, <2>3 DEF SurfaceDestroyed
<1> QED
    BY <1>3, <1>4, <1>5, <1>6, <1>7, <1>8, <1>9, <1>10, <1>11, <1>12, <1>13, <1>14 DEF SignalNext

LEMMA SoundAlways == Spec => []Sound
<1>1. Init => Sound
    <2> SUFFICES ASSUME Init PROVE Sound
        OBVIOUS
    <2>1. TypeOK /\ rows = <<>>
        BY InitialType DEF Init
    <2>2. RowsFrom(rows, MayBeRows)
        BY <2>1 DEF RowsFrom
    <2> QED
        BY <2>1, <2>2 DEF Init, Sound, NullWindow
<1>2. Sound /\ [Next]_vars => Sound'
    <2> SUFFICES ASSUME Sound, [Next]_vars
                 PROVE  Sound'
        OBVIOUS
    <2>1. TypeOK
        BY DEF Sound
    <2>2. CASE ApplicationNext
        BY <2>1, <2>2, ApplicationsKeepType, ApplicationsKeepRowsSound
    <2>3. CASE SignalNext
        BY <2>1, <2>3, SignalsKeepType, SignalsKeepRowsSound
    <2>4. CASE ShellNext
        BY <2>1, <2>4, ShellKeepsType, ShellKeepsRowsSound
    <2>5. CASE MirNext
        BY <2>1, <2>5, MirKeepsType, MirKeepsRowsSound
    <2>6. CASE \E w \in Windows : DeferredDelete(w)
        BY <2>1, <2>6, DeferredDeleteKeepsType, DeferredDeleteKeepsRowsSound
    <2>7. CASE UNCHANGED vars
        BY <2>1, <2>7, SoundRowsAlone DEF vars, modelVars, mirVars, objectVars, TypeOK, Sound
    <2> QED
        BY <2>2, <2>3, <2>4, <2>5, <2>6, <2>7 DEF Next
<1> QED
    BY <1>1, <1>2, PTL DEF Spec

(* The rows hold distinct windows that exist and are neither condemned nor *)
(* the input method's: windowAt() "Will always be valid", whatever hides,  *)
(* moves, dies or is destroyed in whichever order.                         *)
THEOREM RowSoundness == Spec => []RowsAreSound
<1>1. Sound => RowsAreSound
    <2> SUFFICES ASSUME Sound PROVE RowsAreSound
        OBVIOUS
    <2>1. ASSUME NEW i \in DOMAIN rows
          PROVE  /\ rows[i] \in windows \ condemned /\ rows[i] \in 1 .. nextId - 1
                 /\ rows[i] # inputMethodWindow
        <3>1. /\ i \in 1 .. Len(rows) /\ rows[i] \in MayBeRows /\ rows[i] \in Rows
              /\ nextId \in Nat
            BY NewWindowIsNew DEF Sound, RowsFrom
        <3>2. rows[i] \in windows \ condemned /\ rows[i] < nextId /\ rows[i] # inputMethodWindow
            BY <3>1 DEF MayBeRows, Sound
        <3>3. rows[i] \in Nat /\ rows[i] # 0
            BY <3>1, BoundsAssumption DEF Rows, Windows, NullWindow
        <3> QED
            BY <3>1, <3>2, <3>3
    <2> QED
        BY <2>1 DEF RowsAreSound, Sound, RowsFrom
<1> QED
    BY <1>1, SoundAlways, PTL
====
