----------------------------- MODULE ListProofs -----------------------------
(***************************************************************************)
(* What TLAPS proves of the lists the shell shows, for any contents:       *)
(* LauncherModel, which a session writes, GreeterLauncher, which the       *)
(* greeter shows, AppDrawerModel, which lists what is installed,           *)
(* Indicators, the rows of the panel, and LimitProxyModel, the first rows  *)
(* of any list.  WorkspacesProofs builds on the lemmas of this module.     *)
(*                                                                         *)
(* Both launchers bring a list to the order of another by a loop that      *)
(* inserts and moves; the panel's rows come from loops over directories    *)
(* and their files.  The loops are folds.  What a fold has after each      *)
(* element is shown to exist first, for all of them together; what is true *)
(* of it then follows element by element.                                  *)
(***************************************************************************)
EXTENDS LauncherModel, GreeterLauncher, AppDrawerModel, Indicators,
        LimitProxyModel, Workspaces, SequenceTheorems, FiniteSetTheorems,
        WellFoundedInduction, TLAPS

-----------------------------------------------------------------------------
(* Least elements, indexes and sequences.                                  *)

(* A set of natural numbers that is not empty has a least element.         *)
LEMMA HasLeast ==
  ASSUME NEW T, T \subseteq Nat, T # {}
  PROVE  \E x \in T : \A y \in T : x <= y
<1>1. PICK x \in T : \A y \in T : <<y, x>> \notin OpToRel(<, Nat)
  BY NatLessThanWellFounded, WFMin
<1>2. ASSUME NEW y \in T, y < x PROVE <<y, x>> \in OpToRel(<, Nat)
  BY <1>2 DEF OpToRel
<1>3. \A y \in T : ~(y < x)
  BY <1>1, <1>2
<1> QED
  BY <1>3

(* What holds of 0 and, with a number, of the next one up to n, holds      *)
(* up to n.                                                                *)
LEMMA UpTo ==
  ASSUME NEW n \in Nat, NEW T, 0 \in T, \A m \in 0 .. n - 1 : m \in T => m + 1 \in T
  PROVE  \A m \in 0 .. n : m \in T
<1> DEFINE Bad == {m \in 0 .. n : m \notin T}
<1>1. SUFFICES ASSUME Bad # {} PROVE FALSE
  OBVIOUS
<1>2. Bad \subseteq Nat
  OBVIOUS
<1>3. PICK m \in Bad : \A k \in Bad : m <= k
  <2> HIDE DEF Bad
  <2> QED  BY <1>1, <1>2, HasLeast
<1>4. m # 0 /\ m \in 0 .. n
  BY <1>3
<1>5. m - 1 \in 0 .. n - 1 /\ m - 1 \notin Bad
  BY <1>3, <1>4
<1>6. m - 1 \in T
  BY <1>4, <1>5
<1> QED
  BY <1>3, <1>4, <1>5, <1>6

(* findApplication() of a session's launcher.                              *)
LEMMA FindIs ==
  ASSUME NEW S, NEW items \in Seq(S), NEW app
  PROVE  \/ /\ Find(items, app) \in 1 .. Len(items)
            /\ items[Find(items, app)].app = app
         \/ /\ Find(items, app) = 0
            /\ \A j \in 1 .. Len(items) : items[j].app # app
<1> DEFINE I == {j \in 1 .. Len(items) : items[j].app = app}
<1>1. I \subseteq Nat
  OBVIOUS
<1>2. Find(items, app) = IF I # {} THEN Min(I) ELSE 0
  BY DEF Find, SelectInSeq
<1>3. I # {} => Min(I) \in I
  <2> HIDE DEF I
  <2> QED  BY <1>1, HasLeast DEF Min
<1> QED
  BY <1>2, <1>3

(* findApplication() of the greeter's.                                     *)
LEMMA FindShownIs ==
  ASSUME NEW S, NEW items \in Seq(S), NEW app
  PROVE  \/ /\ FindShown(items, app) \in 1 .. Len(items)
            /\ items[FindShown(items, app)].app = app
         \/ /\ FindShown(items, app) = 0
            /\ \A j \in 1 .. Len(items) : items[j].app # app
<1>1. FindShown(items, app) = Find(items, app)
  BY DEF FindShown, Find
<1> QED
  BY <1>1, FindIs

\* t is s with e put in.
PutIn(t, s, i, e) ==
  /\ Len(t) = Len(s) + 1
  /\ \A j \in 1 .. Len(s) + 1 : t[j] = IF j < i THEN s[j] ELSE IF j = i THEN e ELSE s[j - 1]

(* What a list has when an element is put in.                              *)
LEMMA InsertIs ==
  ASSUME NEW S, NEW s \in Seq(S), NEW i \in 1 .. Len(s) + 1, NEW e \in S
  PROVE  InsertAt(s, i, e) \in Seq(S) /\ PutIn(InsertAt(s, i, e), s, i, e)
<1>1. i \in Nat /\ Len(s) \in Nat /\ 1 <= i /\ i <= Len(s) + 1
  OBVIOUS
<1> DEFINE left == SubSeq(s, 1, i - 1)
           right == SubSeq(s, i, Len(s))
<1>2. /\ left \in Seq(S) /\ Len(left) = i - 1
      /\ \A j \in 1 .. i - 1 : left[j] = s[j]
  BY <1>1
<1>3. /\ right \in Seq(S) /\ Len(right) = Len(s) - i + 1
      /\ \A j \in 1 .. Len(s) - i + 1 : right[j] = s[i + j - 1]
  BY <1>1
<1>4. InsertAt(s, i, e) = (left \o <<e>>) \o right
  BY DEF InsertAt
<1> HIDE DEF left, right
<1>5. /\ left \o <<e>> \in Seq(S) /\ Len(left \o <<e>>) = i
      /\ \A j \in 1 .. i : (left \o <<e>>)[j] = IF j < i THEN s[j] ELSE e
  BY <1>1, <1>2
<1> DEFINE start == left \o <<e>>
<1> HIDE DEF start
<1>6. /\ start \in Seq(S) /\ Len(start) = i
      /\ \A j \in 1 .. i : start[j] = IF j < i THEN s[j] ELSE e
  BY <1>5 DEF start
<1>7. /\ start \o right \in Seq(S) /\ Len(start \o right) = Len(s) + 1
      /\ \A j \in 1 .. Len(s) + 1 :
           (start \o right)[j] = IF j <= i THEN start[j] ELSE right[j - i]
  BY <1>1, <1>3, <1>6, ConcatProperties
<1>8. ASSUME NEW j \in 1 .. Len(s) + 1
      PROVE  (start \o right)[j] = IF j < i THEN s[j] ELSE IF j = i THEN e ELSE s[j - 1]
  <2>1. CASE j <= i
    <3>1. j \in Nat /\ j \in 1 .. i
      BY <1>1, <2>1
    <3>2. (start \o right)[j] = start[j]
      BY <1>7, <2>1
    <3>3. start[j] = IF j < i THEN s[j] ELSE e
      BY <1>6, <3>1
    <3> QED
      BY <1>1, <2>1, <3>1, <3>2, <3>3
  <2>2. CASE j > i
    <3>1. j - i \in 1 .. Len(s) - i + 1
      BY <1>1, <2>2
    <3>2. right[j - i] = s[i + (j - i) - 1]
      BY <1>3, <3>1
    <3> QED
      BY <1>1, <1>7, <2>2, <3>2
  <2>3. j <= i \/ j > i
    BY <1>1
  <2> QED
    BY <2>1, <2>2, <2>3, Zenon
<1> QED
  BY <1>4, <1>7, <1>8 DEF start, PutIn

(* What is left when one is taken out.                                     *)
LEMMA RemoveIs ==
  ASSUME NEW S, NEW s \in Seq(S), NEW i \in 1 .. Len(s)
  PROVE  /\ RemoveAt(s, i) \in Seq(S)
         /\ Len(RemoveAt(s, i)) = Len(s) - 1
         /\ \A j \in 1 .. Len(s) - 1 : RemoveAt(s, i)[j] = IF j < i THEN s[j] ELSE s[j + 1]
<1>1. i \in Nat /\ Len(s) \in Nat /\ 1 <= i /\ i <= Len(s)
  OBVIOUS
<1> DEFINE left == SubSeq(s, 1, i - 1)
           right == SubSeq(s, i + 1, Len(s))
<1>2. /\ left \in Seq(S) /\ Len(left) = i - 1
      /\ \A j \in 1 .. i - 1 : left[j] = s[j]
  BY <1>1
<1>3. /\ right \in Seq(S) /\ Len(right) = Len(s) - i
      /\ \A j \in 1 .. Len(s) - i : right[j] = s[i + 1 + j - 1]
  BY <1>1
<1>4. RemoveAt(s, i) = left \o right
  BY DEF RemoveAt
<1> HIDE DEF left, right
<1>5. /\ left \o right \in Seq(S) /\ Len(left \o right) = Len(s) - 1
      /\ \A j \in 1 .. Len(s) - 1 :
           (left \o right)[j] = IF j <= i - 1 THEN left[j] ELSE right[j - (i - 1)]
  <2>1. /\ left \o right \in Seq(S) /\ Len(left \o right) = Len(left) + Len(right)
        /\ \A j \in 1 .. Len(left) + Len(right) :
             (left \o right)[j] = IF j <= Len(left) THEN left[j] ELSE right[j - Len(left)]
    BY <1>2, <1>3, ConcatProperties, Zenon
  <2>2. Len(left) + Len(right) = Len(s) - 1
    BY <1>1, <1>2, <1>3
  <2> QED
    BY <1>2, <2>1, <2>2
<1>6. ASSUME NEW j \in 1 .. Len(s) - 1
      PROVE  (left \o right)[j] = IF j < i THEN s[j] ELSE s[j + 1]
  <2>1. CASE j < i
    BY <1>1, <1>2, <1>5, <2>1
  <2>2. CASE j >= i
    <3>1. j - (i - 1) \in 1 .. Len(s) - i
      BY <1>1, <2>2
    <3>2. right[j - (i - 1)] = s[i + 1 + (j - (i - 1)) - 1]
      BY <1>3, <3>1
    <3>3. (left \o right)[j] = right[j - (i - 1)] /\ i + 1 + (j - (i - 1)) - 1 = j + 1
      BY <1>1, <1>5, <2>2
    <3> QED
      BY <1>1, <2>2, <3>2, <3>3
  <2>3. j < i \/ j >= i
    BY <1>1
  <2> QED
    BY <2>1, <2>2, <2>3, Zenon
<1> QED
  BY <1>4, <1>5, <1>6

\* Where an element was before a move.
WasAt(j, from, to) ==
  IF j = to THEN from
  ELSE LET k == IF j < to THEN j ELSE j - 1 IN IF k < from THEN k ELSE k + 1

MoveOf(t, s, from, to) ==
  /\ Len(t) = Len(s)
  /\ \A j \in 1 .. Len(s) :
       WasAt(j, from, to) \in 1 .. Len(s) /\ t[j] = s[WasAt(j, from, to)]

(* QList::move(): everything is there still, once, and what was before     *)
(* both places stays.                                                      *)
LEMMA MovedIs ==
  ASSUME NEW S, NEW s \in Seq(S), NEW from \in 1 .. Len(s), NEW to \in 1 .. Len(s)
  PROVE  /\ Moved(s, from, to) \in Seq(S)
         /\ MoveOf(Moved(s, from, to), s, from, to)
<1> DEFINE r == RemoveAt(s, from)
<1>1. /\ r \in Seq(S) /\ Len(r) = Len(s) - 1
      /\ \A j \in 1 .. Len(s) - 1 : r[j] = IF j < from THEN s[j] ELSE s[j + 1]
  BY RemoveIs
<1>2. s[from] \in S /\ from \in Nat /\ to \in Nat /\ Len(s) \in Nat
  OBVIOUS
<1> HIDE DEF r
<1>3. to \in 1 .. Len(r) + 1
  BY <1>1, <1>2
<1> DEFINE e == s[from]
<1> HIDE DEF e
<1>4. e \in S
  BY <1>2 DEF e
<1> DEFINE t == InsertAt(r, to, e)
<1> HIDE DEF t
<1>5. /\ t \in Seq(S) /\ Len(t) = Len(r) + 1
      /\ \A j \in 1 .. Len(r) + 1 :
           t[j] = IF j < to THEN r[j] ELSE IF j = to THEN e ELSE r[j - 1]
  <2>1. r \in Seq(S)
    BY <1>1
  <2>2. InsertAt(r, to, e) \in Seq(S) /\ PutIn(InsertAt(r, to, e), r, to, e)
    BY <1>3, <1>4, <2>1, InsertIs
  <2> QED
    BY <2>2 DEF PutIn, t
<1>6. t = Moved(s, from, to)
  BY DEF r, t, e, Moved
<1>7. Len(t) = Len(s) /\ t[to] = s[from]
  BY <1>1, <1>2, <1>5 DEF e
<1>8. ASSUME NEW j \in 1 .. Len(s)
      PROVE  WasAt(j, from, to) \in 1 .. Len(s) /\ t[j] = s[WasAt(j, from, to)]
  <2>1. CASE j = to
    BY <1>2, <1>7, <2>1 DEF WasAt
  <2>2. CASE j < to
    <3>1. t[j] = r[j] /\ j \in 1 .. Len(s) - 1
      BY <1>1, <1>2, <1>5, <2>2
    <3>2. WasAt(j, from, to) = IF j < from THEN j ELSE j + 1
      BY <1>2, <2>2 DEF WasAt
    <3> QED
      BY <1>1, <1>2, <2>2, <3>1, <3>2
  <2>3. CASE j > to
    <3>1. t[j] = r[j - 1] /\ j - 1 \in 1 .. Len(s) - 1
      BY <1>1, <1>2, <1>5, <2>3
    <3>2. r[j - 1] = IF j - 1 < from THEN s[j - 1] ELSE s[(j - 1) + 1]
      BY <1>1, <3>1
    <3>3. WasAt(j, from, to) = IF j - 1 < from THEN j - 1 ELSE (j - 1) + 1
      BY <1>2, <2>3 DEF WasAt
    <3> QED
      BY <1>2, <2>3, <3>1, <3>2, <3>3
  <2> QED
    BY <1>2, <2>1, <2>2, <2>3
<1> QED
  BY <1>5, <1>6, <1>7, <1>8 DEF MoveOf

(* A move keeps elements apart, and what is before both places.            *)
LEMMA WasAtOnce ==
  ASSUME NEW n \in Nat, NEW from \in 1 .. n, NEW to \in 1 .. n, NEW j \in 1 .. n
  PROVE  /\ \A k \in 1 .. n : WasAt(j, from, to) = WasAt(k, from, to) => j = k
         /\ j < from /\ j < to => WasAt(j, from, to) = j
         /\ WasAt(to, from, to) = from
BY DEF WasAt

-----------------------------------------------------------------------------
(* Folds.  StepOf() is what one turn of each loop does, so that what all   *)
(* folds have in common is proved once; c is what a loop refers to besides.*)

StepOf(loop, c, acc, e) ==
  CASE loop = "pinned"  -> PinnedWith(acc, e)
    [] loop = "kept"    -> KeptWithout(acc, e)
    [] loop = "placed"  -> PlacedNext(acc, e)
    [] loop = "shown"   -> ShownWith(acc, e)
    [] loop = "updated" -> Updated(c, acc, e)
    [] loop = "inPlace" -> InPlace(acc, e)
    [] loop = "files"   -> LoadFile(acc, c, e)
    [] loop = "unload"  -> Unload(acc, e)
    [] loop = "dirs"    -> LoadDir(acc, e)
    [] loop = "unassign" -> UnassignUnless(acc, e, c)
    [] loop = "rows"     -> SyncRow(acc, c, e)
    [] loop = "delete"   -> Delete(acc, e, c)
    [] loop = "screens"  -> SyncScreen(acc, e, c)
    [] loop = "load"     -> LoadOne(acc, c)
    [] loop = "destroy"  -> DestroyAt(acc, c[1], e, c[2])

\* What FoldLeft() is the last value of: a result for each set of indexes.
FoldOf(loop, c, f, m, base, seq) ==
  f = [s \in SUBSET (1 .. m) |->
         IF s = {} THEN base ELSE StepOf(loop, c, f[s \ {Max(s)}], seq[Max(s)])]

\* h has the base and then what each element makes of it.
StepsOf(loop, c, h, n, base, seq) ==
  /\ h[0] = base
  /\ \A k \in 1 .. n : h[k] = StepOf(loop, c, h[k - 1], seq[k])

(* The greatest element of a set of indexes that has the last of them.     *)
LEMMA MaxIsLast ==
  ASSUME NEW m \in Nat, NEW s \in SUBSET (1 .. m), m \in s
  PROVE  Max(s) = m
<1>1. \A y \in s : m >= y
  OBVIOUS
<1>2. \A x \in s : (\A y \in s : x >= y) => x = m
  BY <1>1
<1> QED
  BY <1>1, <1>2 DEF Max

(* One index more: the results for the sets with it come from the others.  *)
LEMMA OneMore ==
  ASSUME NEW loop, NEW c, NEW m \in Nat, NEW seq, NEW base, NEW f,
         FoldOf(loop, c, f, m, base, seq)
  PROVE  \E g : FoldOf(loop, c, g, m + 1, base, seq)
<1> DEFINE Step(acc, e) == StepOf(loop, c, acc, e)
<1>0. f = [s \in SUBSET (1 .. m) |->
             IF s = {} THEN base ELSE Step(f[s \ {Max(s)}], seq[Max(s)])]
  BY DEF FoldOf
<1> HIDE DEF Step
<1> DEFINE g == [s \in SUBSET (1 .. m + 1) |->
                   IF s = {} THEN base
                   ELSE IF m + 1 \in s THEN Step(f[s \ {m + 1}], seq[m + 1]) ELSE f[s]]
<1>1. ASSUME NEW s \in SUBSET (1 .. m + 1), s # {}
      PROVE  g[s] = Step(g[s \ {Max(s)}], seq[Max(s)])
  <2>1. CASE m + 1 \in s
    <3>1. Max(s) = m + 1
      BY <2>1, MaxIsLast
    <3>2. s \ {m + 1} \in SUBSET (1 .. m) /\ s \ {m + 1} \in SUBSET (1 .. m + 1)
      OBVIOUS
    <3>3. f[{}] = base
      BY <1>0
    <3>4. g[s \ {m + 1}] = f[s \ {m + 1}]
      BY <3>2, <3>3
    <3> QED
      BY <1>1, <2>1, <3>1, <3>4
  <2>2. CASE m + 1 \notin s
    <3>1. s \in SUBSET (1 .. m)
      BY <2>2
    <3>2. g[s] = f[s] /\ f[s] = Step(f[s \ {Max(s)}], seq[Max(s)])
      BY <1>1, <1>0, <2>2, <3>1
    <3>3. s \ {Max(s)} \in SUBSET (1 .. m) /\ s \ {Max(s)} \in SUBSET (1 .. m + 1)
      BY <3>1
    <3>4. f[{}] = base
      BY <1>0
    <3>5. m + 1 \notin s \ {Max(s)}
      BY <2>2
    <3>6. g[s \ {Max(s)}] = f[s \ {Max(s)}]
      BY <3>3, <3>4, <3>5
    <3> QED
      BY <3>2, <3>6
  <2> QED
    BY <2>1, <2>2
<1>2. g[{}] = base
  OBVIOUS
<1>3. g = [s \in SUBSET (1 .. m + 1) |->
             IF s = {} THEN base ELSE Step(g[s \ {Max(s)}], seq[Max(s)])]
  <2> HIDE DEF g
  <2>1. \A s \in SUBSET (1 .. m + 1) :
          g[s] = IF s = {} THEN base ELSE Step(g[s \ {Max(s)}], seq[Max(s)])
    BY <1>1, <1>2
  <2>2. g = [s \in SUBSET (1 .. m + 1) |-> g[s]]
    BY DEF g
  <2> QED
    BY <2>1, <2>2
<1> QED
  BY <1>3 DEF FoldOf, Step

(* There are such results for every number of indexes.                     *)
LEMMA FoldExists ==
  ASSUME NEW loop, NEW c, NEW n \in Nat, NEW seq, NEW base
  PROVE  \E f : FoldOf(loop, c, f, n, base, seq)
<1> DEFINE T == {m \in 0 .. n : \E f : FoldOf(loop, c, f, m, base, seq)}
<1>1. 0 \in T
  <2> DEFINE f == [s \in SUBSET (1 .. 0) |-> base]
  <2>1. \A s \in SUBSET (1 .. 0) : s = {}
    OBVIOUS
  <2>2. f = [s \in SUBSET (1 .. 0) |->
               IF s = {} THEN base ELSE StepOf(loop, c, f[s \ {Max(s)}], seq[Max(s)])]
    BY <2>1
  <2> QED
    BY <2>2 DEF FoldOf
<1>2. ASSUME NEW m \in 0 .. n - 1, m \in T PROVE m + 1 \in T
  <2>1. m \in Nat /\ m + 1 \in 0 .. n
    OBVIOUS
  <2>2. PICK f : FoldOf(loop, c, f, m, base, seq)
    BY <1>2
  <2>3. \E g : FoldOf(loop, c, g, m + 1, base, seq)
    BY <2>1, <2>2, OneMore
  <2> QED
    BY <2>1, <2>3
<1>3. \A m \in 0 .. n : m \in T
  <2> HIDE DEF T
  <2> QED  BY <1>1, <1>2, UpTo
<1>4. n \in 0 .. n
  OBVIOUS
<1> QED
  BY <1>3, <1>4

(* A fold goes from the base to its result by a step for each element.     *)
LEMMA FoldSteps ==
  ASSUME NEW loop, NEW c, NEW n \in Nat, NEW seq, NEW base, NEW f,
         FoldOf(loop, c, f, n, base, seq)
  PROVE  \E h : StepsOf(loop, c, h, n, base, seq) /\ h[n] = f[1 .. n]
<1> DEFINE Step(acc, e) == StepOf(loop, c, acc, e)
<1>0. f = [s \in SUBSET (1 .. n) |->
             IF s = {} THEN base ELSE Step(f[s \ {Max(s)}], seq[Max(s)])]
  BY DEF FoldOf
<1> HIDE DEF Step
<1> DEFINE h == [k \in 0 .. n |-> f[1 .. k]]
<1>4. h[0] = base
  <2>1. 1 .. 0 = {} /\ {} \in SUBSET (1 .. n) /\ 0 \in 0 .. n
    OBVIOUS
  <2> QED
    BY <1>0, <2>1
<1>5. ASSUME NEW k \in 1 .. n PROVE h[k] = Step(h[k - 1], seq[k])
  <2>1. k \in Nat /\ k \in 1 .. k /\ 1 .. k \in SUBSET (1 .. n) /\ 1 .. k # {}
    OBVIOUS
  <2>2. Max(1 .. k) = k
    BY <2>1, MaxIsLast
  <2>3. (1 .. k) \ {k} = 1 .. k - 1
    BY <2>1
  <2>4. f[1 .. k] = Step(f[1 .. k - 1], seq[k])
    BY <1>0, <2>1, <2>2, <2>3
  <2>5. k \in 0 .. n /\ k - 1 \in 0 .. n
    OBVIOUS
  <2> QED
    BY <2>4, <2>5
<1>6. h[n] = f[1 .. n]
  OBVIOUS
<1> HIDE DEF h
<1> QED
  BY <1>4, <1>5, <1>6 DEF Step, StepsOf

(* The pinned applications, item by item.                                  *)
LEMMA PinnedSteps ==
  ASSUME NEW E, NEW items \in Seq(E)
  PROVE  \E h : /\ h[0] = <<>>
                /\ \A k \in 1 .. Len(items) : h[k] = PinnedWith(h[k - 1], items[k])
                /\ h[Len(items)] = PinnedOf(items)
<1> DEFINE D == DOMAIN items
           Is(f) == f = [s \in SUBSET D |-> IF s = {} THEN <<>>
                                            ELSE PinnedWith(f[s \ {Max(s)}], items[Max(s)])]
           it == CHOOSE f : Is(f)
<1>1. D = 1 .. Len(items) /\ Len(items) \in Nat
  OBVIOUS
<1>2. PinnedOf(items) = it[D]
  BY DEF PinnedOf, FoldLeft, MapThenFoldSet
<1>3. \A acc, e : StepOf("pinned", 0, acc, e) = PinnedWith(acc, e)
  BY DEF StepOf
<1>4. ASSUME NEW f PROVE Is(f) <=> FoldOf("pinned", 0, f, Len(items), <<>>, items)
  <2>1. \A s \in SUBSET D :
          StepOf("pinned", 0, f[s \ {Max(s)}], items[Max(s)])
            = PinnedWith(f[s \ {Max(s)}], items[Max(s)])
    BY <1>3, Zenon
  <2> QED
    BY <1>1, <2>1, Zenon DEF FoldOf
<1> HIDE DEF Is, D
<1>5. \E f : FoldOf("pinned", 0, f, Len(items), <<>>, items)
  BY <1>1, FoldExists, Zenon
<1>6. \E f : Is(f)
  BY <1>4, <1>5, Zenon
<1>7. Is(it)
  BY <1>6, Zenon
<1> HIDE DEF it
<1>8. FoldOf("pinned", 0, it, Len(items), <<>>, items)
  BY <1>4, <1>7, Zenon
<1>9. PICK h : /\ StepsOf("pinned", 0, h, Len(items), <<>>, items)
               /\ h[Len(items)] = it[1 .. Len(items)]
  BY <1>1, <1>8, FoldSteps
<1> QED
  BY <1>1, <1>2, <1>3, <1>9 DEF StepsOf

(* The items that stay, refresh() having gone through some.                *)
LEMMA KeptSteps ==
  ASSUME NEW E, NEW items \in Seq(E)
  PROVE  \E h : /\ h[0] = items
                /\ \A k \in 1 .. Len(items) : h[k] = KeptWithout(h[k - 1], items[k])
                /\ h[Len(items)] = Kept(items)
<1> DEFINE D == DOMAIN items
           Is(f) == f = [s \in SUBSET D |->
                           IF s = {} THEN items
                           ELSE KeptWithout(f[s \ {Max(s)}], items[Max(s)])]
           it == CHOOSE f : Is(f)
<1>1. D = 1 .. Len(items) /\ Len(items) \in Nat
  OBVIOUS
<1>2. Kept(items) = it[D]
  BY DEF Kept, FoldLeft, MapThenFoldSet
<1>3. \A acc, e : StepOf("kept", 0, acc, e) = KeptWithout(acc, e)
  BY DEF StepOf
<1>4. ASSUME NEW f PROVE Is(f) <=> FoldOf("kept", 0, f, Len(items), items, items)
  <2>1. \A s \in SUBSET D :
          StepOf("kept", 0, f[s \ {Max(s)}], items[Max(s)])
            = KeptWithout(f[s \ {Max(s)}], items[Max(s)])
    BY <1>3, Zenon
  <2> QED
    BY <1>1, <2>1, Zenon DEF FoldOf
<1> HIDE DEF Is, D
<1>5. \E f : FoldOf("kept", 0, f, Len(items), items, items)
  BY <1>1, FoldExists, Zenon
<1>6. \E f : Is(f)
  BY <1>4, <1>5, Zenon
<1>7. Is(it)
  BY <1>6, Zenon
<1> HIDE DEF it
<1>8. FoldOf("kept", 0, it, Len(items), items, items)
  BY <1>4, <1>7, Zenon
<1>9. PICK h : /\ StepsOf("kept", 0, h, Len(items), items, items)
               /\ h[Len(items)] = it[1 .. Len(items)]
  BY <1>1, <1>8, FoldSteps
<1> QED
  BY <1>1, <1>2, <1>3, <1>9 DEF StepsOf

(* The items in their places, up to an entry of the settings.              *)
LEMMA PlacedSteps ==
  ASSUME NEW items, settings \in Seq(Apps)
  PROVE  \E h : /\ h[0] = [at |-> 1, items |-> items]
                /\ \A k \in 1 .. Len(settings) : h[k] = PlacedNext(h[k - 1], settings[k])
                /\ h[Len(settings)].items = Placed(items)
<1> DEFINE D == DOMAIN settings
           Is(f) == f = [s \in SUBSET D |->
                           IF s = {} THEN [at |-> 1, items |-> items]
                           ELSE PlacedNext(f[s \ {Max(s)}], settings[Max(s)])]
           it == CHOOSE f : Is(f)
<1>1. D = 1 .. Len(settings) /\ Len(settings) \in Nat
  OBVIOUS
<1>2. Placed(items) = it[D].items
  BY DEF Placed, FoldLeft, MapThenFoldSet
<1>3. \A acc, e : StepOf("placed", 0, acc, e) = PlacedNext(acc, e)
  BY DEF StepOf
<1>4. ASSUME NEW f PROVE Is(f) <=> FoldOf("placed", 0, f, Len(settings), [at |-> 1, items |-> items], settings)
  <2>1. \A s \in SUBSET D :
          StepOf("placed", 0, f[s \ {Max(s)}], settings[Max(s)])
            = PlacedNext(f[s \ {Max(s)}], settings[Max(s)])
    BY <1>3, Zenon
  <2> QED
    BY <1>1, <2>1, Zenon DEF FoldOf
<1> HIDE DEF Is, D
<1>5. \E f : FoldOf("placed", 0, f, Len(settings), [at |-> 1, items |-> items], settings)
  BY <1>1, FoldExists, Zenon
<1>6. \E f : Is(f)
  BY <1>4, <1>5, Zenon
<1>7. Is(it)
  BY <1>6, Zenon
<1> HIDE DEF it
<1>8. FoldOf("placed", 0, it, Len(settings), [at |-> 1, items |-> items], settings)
  BY <1>4, <1>7, Zenon
<1>9. PICK h : /\ StepsOf("placed", 0, h, Len(settings), [at |-> 1, items |-> items], settings)
               /\ h[Len(settings)] = it[1 .. Len(settings)]
  BY <1>1, <1>8, FoldSteps
<1> QED
  BY <1>1, <1>2, <1>3, <1>9 DEF StepsOf

(* The entries that are not skipped, entry by entry.                       *)
LEMMA ShownSteps ==
  ASSUME NEW E, NEW given \in Seq(E)
  PROVE  \E h : /\ h[0] = <<>>
                /\ \A k \in 1 .. Len(given) : h[k] = ShownWith(h[k - 1], given[k])
                /\ h[Len(given)] = Shown(given)
<1> DEFINE D == DOMAIN given
           Is(f) == f = [s \in SUBSET D |->
                           IF s = {} THEN <<>>
                           ELSE ShownWith(f[s \ {Max(s)}], given[Max(s)])]
           it == CHOOSE f : Is(f)
<1>1. D = 1 .. Len(given) /\ Len(given) \in Nat
  OBVIOUS
<1>2. Shown(given) = it[D]
  BY DEF Shown, FoldLeft, MapThenFoldSet
<1>3. \A acc, e : StepOf("shown", 0, acc, e) = ShownWith(acc, e)
  BY DEF StepOf
<1>4. ASSUME NEW f PROVE Is(f) <=> FoldOf("shown", 0, f, Len(given), <<>>, given)
  <2>1. \A s \in SUBSET D :
          StepOf("shown", 0, f[s \ {Max(s)}], given[Max(s)])
            = ShownWith(f[s \ {Max(s)}], given[Max(s)])
    BY <1>3, Zenon
  <2> QED
    BY <1>1, <2>1, Zenon DEF FoldOf
<1> HIDE DEF Is, D
<1>5. \E f : FoldOf("shown", 0, f, Len(given), <<>>, given)
  BY <1>1, FoldExists, Zenon
<1>6. \E f : Is(f)
  BY <1>4, <1>5, Zenon
<1>7. Is(it)
  BY <1>6, Zenon
<1> HIDE DEF it
<1>8. FoldOf("shown", 0, it, Len(given), <<>>, given)
  BY <1>4, <1>7, Zenon
<1>9. PICK h : /\ StepsOf("shown", 0, h, Len(given), <<>>, given)
               /\ h[Len(given)] = it[1 .. Len(given)]
  BY <1>1, <1>8, FoldSteps
<1> QED
  BY <1>1, <1>2, <1>3, <1>9 DEF StepsOf

(* The items that stay, with what the entries say, item by item.           *)
LEMMA UpdatedSteps ==
  ASSUME NEW shown, NEW E, NEW items \in Seq(E)
  PROVE  \E h : /\ h[0] = <<>>
                /\ \A k \in 1 .. Len(items) : h[k] = Updated(shown, h[k - 1], items[k])
                /\ h[Len(items)] = UpdatedItems(shown, items)
<1> DEFINE D == DOMAIN items
           Is(f) == f = [s \in SUBSET D |->
                           IF s = {} THEN <<>>
                           ELSE Updated(shown, f[s \ {Max(s)}], items[Max(s)])]
           it == CHOOSE f : Is(f)
<1>1. D = 1 .. Len(items) /\ Len(items) \in Nat
  OBVIOUS
<1>2. UpdatedItems(shown, items) = it[D]
  BY DEF UpdatedItems, FoldLeft, MapThenFoldSet
<1>3. \A acc, e : StepOf("updated", shown, acc, e) = Updated(shown, acc, e)
  BY DEF StepOf
<1>4. ASSUME NEW f PROVE Is(f) <=> FoldOf("updated", shown, f, Len(items), <<>>, items)
  <2>1. \A s \in SUBSET D :
          StepOf("updated", shown, f[s \ {Max(s)}], items[Max(s)])
            = Updated(shown, f[s \ {Max(s)}], items[Max(s)])
    BY <1>3, Zenon
  <2> QED
    BY <1>1, <2>1, Zenon DEF FoldOf
<1> HIDE DEF Is, D
<1>5. \E f : FoldOf("updated", shown, f, Len(items), <<>>, items)
  BY <1>1, FoldExists, Zenon
<1>6. \E f : Is(f)
  BY <1>4, <1>5, Zenon
<1>7. Is(it)
  BY <1>6, Zenon
<1> HIDE DEF it
<1>8. FoldOf("updated", shown, it, Len(items), <<>>, items)
  BY <1>4, <1>7, Zenon
<1>9. PICK h : /\ StepsOf("updated", shown, h, Len(items), <<>>, items)
               /\ h[Len(items)] = it[1 .. Len(items)]
  BY <1>1, <1>8, FoldSteps
<1> QED
  BY <1>1, <1>2, <1>3, <1>9 DEF StepsOf

(* The greeter's items in their places, up to an entry.                    *)
LEMMA InPlaceSteps ==
  ASSUME NEW items, NEW E, NEW shown \in Seq(E)
  PROVE  \E h : /\ h[0] = [at |-> 1, items |-> items]
                /\ \A k \in 1 .. Len(shown) : h[k] = InPlace(h[k - 1], shown[k])
                /\ h[Len(shown)].items = InPlaces(items, shown)
<1> DEFINE D == DOMAIN shown
           Is(f) == f = [s \in SUBSET D |->
                           IF s = {} THEN [at |-> 1, items |-> items]
                           ELSE InPlace(f[s \ {Max(s)}], shown[Max(s)])]
           it == CHOOSE f : Is(f)
<1>1. D = 1 .. Len(shown) /\ Len(shown) \in Nat
  OBVIOUS
<1>2. InPlaces(items, shown) = it[D].items
  BY DEF InPlaces, FoldLeft, MapThenFoldSet
<1>3. \A acc, e : StepOf("inPlace", 0, acc, e) = InPlace(acc, e)
  BY DEF StepOf
<1>4. ASSUME NEW f PROVE Is(f) <=> FoldOf("inPlace", 0, f, Len(shown), [at |-> 1, items |-> items], shown)
  <2>1. \A s \in SUBSET D :
          StepOf("inPlace", 0, f[s \ {Max(s)}], shown[Max(s)])
            = InPlace(f[s \ {Max(s)}], shown[Max(s)])
    BY <1>3, Zenon
  <2> QED
    BY <1>1, <2>1, Zenon DEF FoldOf
<1> HIDE DEF Is, D
<1>5. \E f : FoldOf("inPlace", 0, f, Len(shown), [at |-> 1, items |-> items], shown)
  BY <1>1, FoldExists, Zenon
<1>6. \E f : Is(f)
  BY <1>4, <1>5, Zenon
<1>7. Is(it)
  BY <1>6, Zenon
<1> HIDE DEF it
<1>8. FoldOf("inPlace", 0, it, Len(shown), [at |-> 1, items |-> items], shown)
  BY <1>4, <1>7, Zenon
<1>9. PICK h : /\ StepsOf("inPlace", 0, h, Len(shown), [at |-> 1, items |-> items], shown)
               /\ h[Len(shown)] = it[1 .. Len(shown)]
  BY <1>1, <1>8, FoldSteps
<1> QED
  BY <1>1, <1>2, <1>3, <1>9 DEF StepsOf

-----------------------------------------------------------------------------
(* Lists that have an application once.                                    *)

Once(items) == \A i, j \in DOMAIN items : items[i].app = items[j].app => i = j

(* They stay so when another is put in, ...                                *)
LEMMA InsertOnce ==
  ASSUME NEW S, NEW items \in Seq(S), Once(items), NEW i \in 1 .. Len(items) + 1,
         NEW item \in S, \A j \in 1 .. Len(items) : items[j].app # item.app
  PROVE  Once(InsertAt(items, i, item))
<1>1. Len(items) \in Nat /\ DOMAIN items = 1 .. Len(items)
  OBVIOUS
<1> DEFINE t == InsertAt(items, i, item)
<1>2. /\ t \in Seq(S) /\ Len(t) = Len(items) + 1
      /\ \A j \in 1 .. Len(items) + 1 :
           t[j] = IF j < i THEN items[j] ELSE IF j = i THEN item ELSE items[j - 1]
  <2>1. t \in Seq(S) /\ PutIn(t, items, i, item)
    BY InsertIs
  <2> QED
    BY <2>1 DEF PutIn
<1> HIDE DEF t
<1>3. DOMAIN t = 1 .. Len(items) + 1
  BY <1>2
<1>4. ASSUME NEW j \in 1 .. Len(items) + 1, j # i
      PROVE  \E k \in 1 .. Len(items) : t[j] = items[k] /\ k = IF j < i THEN j ELSE j - 1
  BY <1>1, <1>2, <1>4
<1> SUFFICES ASSUME NEW j \in 1 .. Len(items) + 1, NEW l \in 1 .. Len(items) + 1,
                    t[j].app = t[l].app, j # l
             PROVE  FALSE
  BY <1>3 DEF Once, t
<1>5. t[i] = item
  BY <1>1, <1>2
<1>6. j # i /\ l # i
  BY <1>4, <1>5
<1>7. PICK k \in 1 .. Len(items) : t[j] = items[k] /\ k = IF j < i THEN j ELSE j - 1
  BY <1>4, <1>6
<1>8. PICK m \in 1 .. Len(items) : t[l] = items[m] /\ m = IF l < i THEN l ELSE l - 1
  BY <1>4, <1>6
<1>9. k = m
  BY <1>1, <1>7, <1>8 DEF Once
<1> QED
  BY <1>6, <1>7, <1>8, <1>9

(* ... when one is added, ...                                              *)
LEMMA AppendOnce ==
  ASSUME NEW S, NEW items \in Seq(S), Once(items),
         NEW item \in S, \A j \in 1 .. Len(items) : items[j].app # item.app
  PROVE  Once(Append(items, item))
<1>1. Len(items) \in Nat /\ DOMAIN items = 1 .. Len(items)
  OBVIOUS
<1> DEFINE t == Append(items, item)
<1>2. /\ DOMAIN t = 1 .. Len(items) + 1 /\ t[Len(items) + 1] = item
      /\ \A j \in 1 .. Len(items) : t[j] = items[j]
  BY <1>1
<1> HIDE DEF t
<1> SUFFICES ASSUME NEW j \in 1 .. Len(items) + 1, NEW l \in 1 .. Len(items) + 1,
                    t[j].app = t[l].app, j # l
             PROVE  FALSE
  BY <1>2 DEF Once, t
<1>3. j # Len(items) + 1 /\ l # Len(items) + 1
  BY <1>1, <1>2
<1>4. j \in 1 .. Len(items) /\ l \in 1 .. Len(items)
  BY <1>1, <1>3
<1> QED
  BY <1>1, <1>2, <1>4 DEF Once

(* ... and when one moves.                                                 *)
LEMMA MovedOnce ==
  ASSUME NEW S, NEW items \in Seq(S), Once(items),
         NEW from \in 1 .. Len(items), NEW to \in 1 .. Len(items)
  PROVE  Once(Moved(items, from, to))
<1>1. Len(items) \in Nat /\ DOMAIN items = 1 .. Len(items)
  OBVIOUS
<1> DEFINE t == Moved(items, from, to)
<1>2. /\ t \in Seq(S) /\ Len(t) = Len(items)
      /\ \A j \in 1 .. Len(items) :
           WasAt(j, from, to) \in 1 .. Len(items) /\ t[j] = items[WasAt(j, from, to)]
  <2>1. t \in Seq(S) /\ MoveOf(t, items, from, to)
    BY MovedIs
  <2> QED
    BY <2>1 DEF MoveOf
<1> HIDE DEF t
<1>3. DOMAIN t = 1 .. Len(items)
  BY <1>2
<1> SUFFICES ASSUME NEW j \in 1 .. Len(items), NEW l \in 1 .. Len(items),
                    t[j].app = t[l].app
             PROVE  j = l
  BY <1>3 DEF Once, t
<1>4. \A k, m \in 1 .. Len(items) : items[k].app = items[m].app => k = m
  BY <1>1 DEF Once
<1>5. /\ WasAt(j, from, to) \in 1 .. Len(items) /\ t[j] = items[WasAt(j, from, to)]
      /\ WasAt(l, from, to) \in 1 .. Len(items) /\ t[l] = items[WasAt(l, from, to)]
  BY <1>2
<1>6. WasAt(j, from, to) = WasAt(l, from, to)
  BY <1>4, <1>5, Zenon
<1> QED
  BY <1>1, <1>6, WasAtOnce

-----------------------------------------------------------------------------
(* LauncherModel.                                                          *)

\* Why an item is there; a recent one that is not pinned runs, or it would be
\* left without a reason when its count goes.
Reason(item, count) ==
  /\ item.pinned \/ item.countVisible \/ count[item.app] >= 0
  /\ item.running => count[item.app] >= 0
  /\ item.recent => item.pinned \/ count[item.app] >= 0

Sound(items, count) ==
  /\ items \in Seq(Items)
  /\ Once(items)
  /\ \A i \in DOMAIN items : Reason(items[i], count)

LauncherInv ==
  /\ Sound(list, surfaces)
  /\ settings \in Seq(Apps) /\ IsInjective(settings)
  /\ installed \subseteq Apps
  /\ surfaces \in [Apps -> Int]
  /\ GreeterIsTold

(* An item can be taken out.                                               *)
LEMMA RemoveSound ==
  ASSUME NEW count, NEW items, Sound(items, count), NEW i \in 1 .. Len(items)
  PROVE  Sound(RemoveAt(items, i), count)
<1>1. items \in Seq(Items) /\ Len(items) \in Nat /\ DOMAIN items = 1 .. Len(items)
  BY DEF Sound
<1> DEFINE r == RemoveAt(items, i)
<1>2. /\ r \in Seq(Items) /\ Len(r) = Len(items) - 1
      /\ \A j \in 1 .. Len(items) - 1 : r[j] = IF j < i THEN items[j] ELSE items[j + 1]
  BY <1>1, RemoveIs
<1> HIDE DEF r
<1>3. DOMAIN r = 1 .. Len(items) - 1
  BY <1>2
<1>4. ASSUME NEW j \in 1 .. Len(items) - 1
      PROVE  \E k \in 1 .. Len(items) : r[j] = items[k] /\ k = IF j < i THEN j ELSE j + 1
  BY <1>1, <1>2
<1>5. Once(r)
  <2> SUFFICES ASSUME NEW j \in 1 .. Len(items) - 1, NEW l \in 1 .. Len(items) - 1,
                      r[j].app = r[l].app
               PROVE  j = l
    BY <1>3 DEF Once
  <2>1. PICK k \in 1 .. Len(items) : r[j] = items[k] /\ k = IF j < i THEN j ELSE j + 1
    BY <1>4
  <2>2. PICK m \in 1 .. Len(items) : r[l] = items[m] /\ m = IF l < i THEN l ELSE l + 1
    BY <1>4
  <2>3. k = m
    BY <1>1, <2>1, <2>2 DEF Sound, Once
  <2> QED
    BY <2>1, <2>2, <2>3
<1>6. \A j \in DOMAIN r : Reason(r[j], count)
  BY <1>1, <1>3, <1>4 DEF Sound
<1> QED
  BY <1>2, <1>5, <1>6 DEF Sound, r

(* An item with a reason can be put in where there is none of its          *)
(* application.                                                            *)
LEMMA InsertSound ==
  ASSUME NEW count, NEW items, Sound(items, count), NEW i \in 1 .. Len(items) + 1,
         NEW item \in Items, Reason(item, count),
         \A j \in 1 .. Len(items) : items[j].app # item.app
  PROVE  Sound(InsertAt(items, i, item), count)
<1>1. items \in Seq(Items) /\ Len(items) \in Nat /\ DOMAIN items = 1 .. Len(items)
  BY DEF Sound
<1> DEFINE t == InsertAt(items, i, item)
<1>2. /\ t \in Seq(Items) /\ Len(t) = Len(items) + 1
      /\ \A j \in 1 .. Len(items) + 1 :
           t[j] = IF j < i THEN items[j] ELSE IF j = i THEN item ELSE items[j - 1]
  <2>1. t \in Seq(Items) /\ PutIn(t, items, i, item)
    BY <1>1, InsertIs
  <2> QED
    BY <2>1 DEF PutIn
<1> HIDE DEF t
<1>3. DOMAIN t = 1 .. Len(items) + 1
  BY <1>2
<1>4. ASSUME NEW j \in 1 .. Len(items) + 1, j # i
      PROVE  \E k \in 1 .. Len(items) : t[j] = items[k]
  BY <1>1, <1>2, <1>4
<1>5. Once(t)
  BY <1>1, InsertOnce DEF Sound, t
<1>6. ASSUME NEW j \in DOMAIN t PROVE Reason(t[j], count)
  <2>1. CASE j = i
    BY <1>1, <1>2, <2>1
  <2>2. CASE j # i
    BY <1>1, <1>3, <1>4, <2>2 DEF Sound
  <2> QED
    BY <2>1, <2>2
<1> QED
  BY <1>2, <1>5, <1>6 DEF Sound, t

(* An item can move.                                                       *)
LEMMA MovedSound ==
  ASSUME NEW count, NEW items, Sound(items, count),
         NEW from \in 1 .. Len(items), NEW to \in 1 .. Len(items)
  PROVE  Sound(Moved(items, from, to), count)
<1>1. items \in Seq(Items) /\ Len(items) \in Nat /\ DOMAIN items = 1 .. Len(items)
  BY DEF Sound
<1> DEFINE t == Moved(items, from, to)
<1>2. /\ t \in Seq(Items) /\ Len(t) = Len(items)
      /\ \A j \in 1 .. Len(items) :
           WasAt(j, from, to) \in 1 .. Len(items) /\ t[j] = items[WasAt(j, from, to)]
  <2>1. items \in Seq(Items)
    BY <1>1
  <2>2. t \in Seq(Items) /\ MoveOf(t, items, from, to)
    BY <2>1, MovedIs
  <2> QED
    BY <2>1, <2>2 DEF MoveOf
<1> HIDE DEF t
<1>3. DOMAIN t = 1 .. Len(items)
  BY <1>2
<1>4. Once(t)
  BY <1>1, MovedOnce DEF Sound, t
<1>5. \A j \in DOMAIN t : Reason(t[j], count)
  BY <1>1, <1>2, <1>3 DEF Sound
<1> QED
  BY <1>2, <1>4, <1>5 DEF Sound, t

(* An item can change into another with a reason.                          *)
LEMMA EditSound ==
  ASSUME NEW count, NEW items, Sound(items, count), NEW i \in 1 .. Len(items),
         NEW item \in Items, Reason(item, count), item.app = items[i].app
  PROVE  Sound([items EXCEPT ![i] = item], count)
<1>1. items \in Seq(Items) /\ Len(items) \in Nat /\ DOMAIN items = 1 .. Len(items)
  BY DEF Sound
<1> DEFINE t == [items EXCEPT ![i] = item]
<1>2. /\ t \in Seq(Items) /\ DOMAIN t = 1 .. Len(items)
      /\ \A j \in 1 .. Len(items) : t[j] = IF j = i THEN item ELSE items[j]
  BY <1>1
<1> HIDE DEF t
<1>3. \A j \in 1 .. Len(items) : t[j].app = items[j].app
  BY <1>2
<1>4. Once(t)
  BY <1>1, <1>2, <1>3 DEF Sound, Once
<1>5. \A j \in DOMAIN t : Reason(t[j], count)
  BY <1>1, <1>2 DEF Sound
<1> QED
  BY <1>2, <1>4, <1>5 DEF Sound, t

(* An item can be added at the end.                                        *)
LEMMA AppendSound ==
  ASSUME NEW count, NEW items, Sound(items, count),
         NEW item \in Items, Reason(item, count),
         \A j \in 1 .. Len(items) : items[j].app # item.app
  PROVE  Sound(Append(items, item), count)
<1>1. items \in Seq(Items) /\ Len(items) \in Nat /\ DOMAIN items = 1 .. Len(items)
  BY DEF Sound
<1> DEFINE t == Append(items, item)
<1>2. /\ t \in Seq(Items) /\ DOMAIN t = 1 .. Len(items) + 1
      /\ t[Len(items) + 1] = item
      /\ \A j \in 1 .. Len(items) : t[j] = items[j]
  BY <1>1
<1> HIDE DEF t
<1>3. Once(t)
  BY <1>1, AppendOnce DEF Sound, t
<1>4. ASSUME NEW j \in DOMAIN t PROVE Reason(t[j], count)
  <2>1. CASE j = Len(items) + 1
    BY <1>2, <2>1
  <2>2. CASE j \in 1 .. Len(items)
    BY <1>1, <1>2, <2>2 DEF Sound
  <2> QED
    BY <1>1, <1>2, <2>1, <2>2
<1> QED
  BY <1>2, <1>3, <1>4 DEF Sound, t

(* What items have by their type.                                          *)
LEMMA ItemsAre ==
  ASSUME NEW items, items \in Seq(Items)
  PROVE  /\ Len(items) \in Nat /\ DOMAIN items = 1 .. Len(items)
         /\ \A i \in 1 .. Len(items) :
              /\ items[i] \in Items /\ items[i].app \in Apps
              /\ items[i].pinned \in BOOLEAN /\ items[i].recent \in BOOLEAN
              /\ items[i].running \in BOOLEAN /\ items[i].countVisible \in BOOLEAN
<1>1. \A i \in 1 .. Len(items) : items[i] \in Items
  OBVIOUS
<1>2. \A item \in Items :
        /\ item.app \in Apps
        /\ item.pinned \in BOOLEAN /\ item.recent \in BOOLEAN
        /\ item.running \in BOOLEAN /\ item.countVisible \in BOOLEAN
  BY DEF Items
<1>3. Len(items) \in Nat /\ DOMAIN items = 1 .. Len(items)
  OBVIOUS
<1> QED
  BY <1>1, <1>2, <1>3, Zenon

(* unpin().                                                                *)
LEMMA UnpinSound ==
  ASSUME NEW items, Sound(items, surfaces), NEW app, surfaces \in [Apps -> Int]
  PROVE  Sound(Unpin(items, app), surfaces)
<1>1. items \in Seq(Items) /\ Len(items) \in Nat /\ DOMAIN items = 1 .. Len(items)
  BY DEF Sound
<1> DEFINE i == Find(items, app)
<1>2. \/ i \in 1 .. Len(items) /\ items[i].app = app
      \/ i = 0
  BY <1>1, FindIs
<1>3. Unpin(items, app) = IF i = 0 THEN items
                          ELSE IF surfaces[app] >= 0 THEN [items EXCEPT ![i].pinned = FALSE]
                          ELSE RemoveAt(items, i)
  BY DEF Unpin, Runs
<1> HIDE DEF i
<1>4. CASE i = 0
  BY <1>3, <1>4
<1>5. CASE i # 0 /\ ~(surfaces[app] >= 0)
  BY <1>1, <1>2, <1>3, <1>5, RemoveSound
<1>6. CASE i # 0 /\ surfaces[app] >= 0
  <2> DEFINE item == [items[i] EXCEPT !.pinned = FALSE]
  <2>1. i \in 1 .. Len(items) /\ items[i].app = app
    BY <1>2, <1>6
  <2>2. items[i] \in Items /\ Reason(items[i], surfaces)
    BY <1>1, <2>1 DEF Sound
  <2>3. item \in Items /\ item.app = items[i].app
    BY <2>2 DEF Items
  <2>4. Reason(item, surfaces)
    BY <1>6, <2>1, <2>2 DEF Reason, Items
  <2>5. [items EXCEPT ![i].pinned = FALSE] = [items EXCEPT ![i] = item]
    BY <1>1, <2>1
  <2> HIDE DEF item
  <2>6. Sound([items EXCEPT ![i] = item], surfaces)
    BY <2>1, <2>3, <2>4, EditSound
  <2> QED
    BY <1>3, <1>6, <2>5, <2>6
<1> QED
  BY <1>4, <1>5, <1>6

(* What refresh() leaves of a list.                                        *)
LEMMA KeptSound ==
  ASSUME NEW items, Sound(items, surfaces), surfaces \in [Apps -> Int]
  PROVE  Sound(Kept(items), surfaces)
<1>1. items \in Seq(Items) /\ Len(items) \in Nat
  BY DEF Sound
<1>2. PICK h : /\ h[0] = items
               /\ \A k \in 1 .. Len(items) : h[k] = KeptWithout(h[k - 1], items[k])
               /\ h[Len(items)] = Kept(items)
  BY <1>1, KeptSteps
<1> DEFINE T == {n \in 0 .. Len(items) : Sound(h[n], surfaces)}
<1>3. 0 \in T
  BY <1>1, <1>2
<1>4. ASSUME NEW m \in 0 .. Len(items) - 1, m \in T PROVE m + 1 \in T
  <2>1. m + 1 \in 1 .. Len(items) /\ m + 1 \in 0 .. Len(items) /\ (m + 1) - 1 = m
    BY <1>1
  <2>2. h[m + 1] = KeptWithout(h[m], items[m + 1])
    BY <1>2, <2>1
  <2>3. Sound(h[m], surfaces)
    BY <1>4
  <2>4. h[m + 1] = h[m] \/ h[m + 1] = Unpin(h[m], items[m + 1].app)
    BY <2>2 DEF KeptWithout
  <2>5. Sound(h[m + 1], surfaces)
    BY <2>3, <2>4, UnpinSound
  <2> QED
    BY <2>1, <2>5
<1>5. \A m \in 0 .. Len(items) : m \in T
  <2> HIDE DEF T
  <2> QED  BY <1>1, <1>3, <1>4, UpTo
<1>6. Len(items) \in T
  BY <1>1, <1>5
<1> QED
  BY <1>2, <1>6

(* A new item is one, and is there because it is pinned.                   *)
LEMMA PinnedItem ==
  ASSUME NEW app \in Apps, NEW count
  PROVE  LET item == [Item(app) EXCEPT !.pinned = TRUE]
         IN  item \in Items /\ item.app = app /\ item.pinned /\ Reason(item, count)
BY DEF Item, Items, Reason

\* The items of acc before acc.at are in the places that n entries give them.
Settled(acc, n) ==
  /\ Sound(acc.items, surfaces)
  /\ acc.at \in 1 .. n + 1 /\ acc.at <= Len(acc.items) + 1
  /\ \A j \in 1 .. acc.at - 1 : \E m \in 1 .. n : acc.items[j].app = settings[m]

(* One entry of the settings: its item is behind those that are in their   *)
(* places, because an entry is in the settings once.                       *)
LEMMA PlacedNextSettled ==
  ASSUME settings \in Seq(Apps), IsInjective(settings), installed \subseteq Apps,
         NEW n \in 0 .. Len(settings) - 1, NEW acc, Settled(acc, n)
  PROVE  Settled(PlacedNext(acc, settings[n + 1]), n + 1)
<1> DEFINE entry == settings[n + 1]
           items == acc.items
           at == acc.at
           i == Find(items, entry)
<1>1. /\ n \in Nat /\ n + 1 \in 1 .. Len(settings) /\ entry \in Apps
      /\ DOMAIN settings = 1 .. Len(settings)
  OBVIOUS
<1>2. /\ Sound(items, surfaces) /\ items \in Seq(Items) /\ Len(items) \in Nat
      /\ at \in 1 .. n + 1 /\ at <= Len(items) + 1
      /\ \A j \in 1 .. at - 1 : \E m \in 1 .. n : items[j].app = settings[m]
  BY DEF Settled, Sound
<1>3. \/ i \in 1 .. Len(items) /\ items[i].app = entry
      \/ i = 0 /\ \A j \in 1 .. Len(items) : items[j].app # entry
  BY <1>2, FindIs
<1>4. PlacedNext(acc, entry)
        = IF i = 0 /\ entry \notin installed THEN acc
          ELSE [at |-> at + 1,
                items |-> IF i = 0
                            THEN InsertAt(items, at, [Item(entry) EXCEPT !.pinned = TRUE])
                            ELSE Moved(items, i, at)]
  BY DEF PlacedNext
<1>5. ASSUME NEW j \in 1 .. at - 1 PROVE items[j].app # entry
  <2>1. PICK m \in 1 .. n : items[j].app = settings[m]
    BY <1>2
  <2>2. m # n + 1 /\ m \in 1 .. Len(settings)
    BY <1>1, <2>1
  <2>3. \A k, l \in 1 .. Len(settings) : settings[k] = settings[l] => k = l
    BY <1>1 DEF IsInjective
  <2>4. settings[m] # settings[n + 1]
    BY <1>1, <2>2, <2>3
  <2> QED
    BY <2>1, <2>4
<1> HIDE DEF entry, items, at, i
<1>6. CASE i = 0 /\ entry \notin installed
  <2>1. PlacedNext(acc, entry) = acc
    BY <1>4, <1>6
  <2>2. Settled(acc, n + 1)
    BY <1>1, <1>2 DEF Settled, items, at
  <2> QED
    BY <2>1, <2>2 DEF entry
<1>7. CASE i = 0 /\ entry \in installed
  <2> DEFINE item == [Item(entry) EXCEPT !.pinned = TRUE]
  <2>1. item \in Items /\ item.app = entry /\ Reason(item, surfaces)
    BY <1>1, PinnedItem
  <2> HIDE DEF item
  <2> DEFINE t == InsertAt(items, at, item)
  <2>2. at \in 1 .. Len(items) + 1
    BY <1>1, <1>2
  <2>3. Sound(t, surfaces)
    BY <1>2, <1>3, <1>7, <2>1, <2>2, InsertSound
  <2>4. /\ t \in Seq(Items) /\ Len(t) = Len(items) + 1
        /\ \A j \in 1 .. Len(items) + 1 :
             t[j] = IF j < at THEN items[j] ELSE IF j = at THEN item ELSE items[j - 1]
    <3>1. items \in Seq(Items)
      BY <1>2
    <3>2. t \in Seq(Items) /\ PutIn(t, items, at, item)
      BY <2>1, <2>2, <3>1, InsertIs
    <3> QED
      BY <3>2 DEF PutIn
  <2> HIDE DEF t
  <2>5. ASSUME NEW j \in 1 .. at PROVE \E m \in 1 .. n + 1 : t[j].app = settings[m]
    <3>1. CASE j = at
      BY <1>1, <2>1, <2>2, <2>4, <3>1 DEF entry
    <3>2. CASE j \in 1 .. at - 1
      <4>1. t[j] = items[j]
        BY <1>2, <2>2, <2>4, <3>2
      <4>2. PICK m \in 1 .. n : items[j].app = settings[m]
        BY <1>2, <3>2
      <4> QED
        BY <1>1, <4>1, <4>2
    <3> QED
      BY <2>2, <3>1, <3>2
  <2>6. PlacedNext(acc, entry) = [at |-> at + 1, items |-> t]
    BY <1>4, <1>7 DEF t, item
  <2>7. Settled([at |-> at + 1, items |-> t], n + 1)
    BY <1>1, <1>2, <2>2, <2>3, <2>4, <2>5 DEF Settled
  <2> QED
    BY <2>6, <2>7 DEF entry
<1>8. CASE i # 0
  <2> DEFINE t == Moved(items, i, at)
  <2>1. i \in 1 .. Len(items) /\ items[i].app = entry
    BY <1>3, <1>8
  <2>2. ~(i \in 1 .. at - 1)
    BY <1>5, <2>1
  <2>3. at <= i /\ at \in 1 .. Len(items)
    BY <1>1, <1>2, <2>1, <2>2
  <2>4. Sound(t, surfaces)
    BY <1>2, <2>1, <2>3, MovedSound
  <2>5. /\ t \in Seq(Items) /\ Len(t) = Len(items)
        /\ \A j \in 1 .. Len(items) :
             WasAt(j, i, at) \in 1 .. Len(items) /\ t[j] = items[WasAt(j, i, at)]
    <3>1. items \in Seq(Items)
      BY <1>2
    <3>2. t \in Seq(Items) /\ MoveOf(t, items, i, at)
      BY <2>1, <2>3, <3>1, MovedIs
    <3> QED
      BY <3>2 DEF MoveOf
  <2> HIDE DEF t
  <2>6. ASSUME NEW j \in 1 .. at PROVE \E m \in 1 .. n + 1 : t[j].app = settings[m]
    <3>1. CASE j = at
      <4>1. WasAt(j, i, at) = i
        BY <3>1 DEF WasAt
      <4>2. t[j] = items[i]
        BY <2>3, <2>5, <3>1, <4>1
      <4> QED
        BY <1>1, <2>1, <4>2 DEF entry
    <3>2. CASE j \in 1 .. at - 1
      <4>1. j \in 1 .. Len(items) /\ j < i /\ j < at
        BY <1>2, <2>1, <2>3, <3>2
      <4>2. WasAt(j, i, at) = j
        BY <1>2, <2>1, <2>3, <4>1 DEF WasAt
      <4>3. t[j] = items[j]
        BY <2>5, <4>1, <4>2
      <4>4. PICK m \in 1 .. n : items[j].app = settings[m]
        BY <1>2, <3>2
      <4> QED
        BY <1>1, <4>3, <4>4
    <3> QED
      BY <2>3, <3>1, <3>2
  <2>7. PlacedNext(acc, entry) = [at |-> at + 1, items |-> t]
    BY <1>4, <1>8 DEF t
  <2>8. Settled([at |-> at + 1, items |-> t], n + 1)
    BY <1>1, <1>2, <2>3, <2>4, <2>5, <2>6 DEF Settled
  <2> QED
    BY <2>7, <2>8 DEF entry
<1> QED
  BY <1>6, <1>7, <1>8

(* What refresh() brings to the places the settings have.                  *)
LEMMA PlacedSound ==
  ASSUME settings \in Seq(Apps), IsInjective(settings), installed \subseteq Apps,
         NEW items, Sound(items, surfaces)
  PROVE  Sound(Placed(items), surfaces)
<1>1. Len(settings) \in Nat /\ items \in Seq(Items) /\ Len(items) \in Nat
  BY DEF Sound
<1>2. PICK h : /\ h[0] = [at |-> 1, items |-> items]
               /\ \A k \in 1 .. Len(settings) : h[k] = PlacedNext(h[k - 1], settings[k])
               /\ h[Len(settings)].items = Placed(items)
  BY PlacedSteps
<1> DEFINE T == {n \in 0 .. Len(settings) : Settled(h[n], n)}
<1>3. 0 \in T
  BY <1>1, <1>2 DEF Settled
<1>4. ASSUME NEW m \in 0 .. Len(settings) - 1, m \in T PROVE m + 1 \in T
  <2>1. m + 1 \in 1 .. Len(settings) /\ m + 1 \in 0 .. Len(settings) /\ (m + 1) - 1 = m
    BY <1>1
  <2>2. h[m + 1] = PlacedNext(h[m], settings[m + 1])
    BY <1>2, <2>1
  <2>3. Settled(h[m], m)
    BY <1>4
  <2>4. Settled(h[m + 1], m + 1)
    BY <2>2, <2>3, PlacedNextSettled
  <2> QED
    BY <2>1, <2>4
<1>5. \A m \in 0 .. Len(settings) : m \in T
  <2> HIDE DEF T
  <2> QED  BY <1>1, <1>3, <1>4, UpTo
<1>6. Settled(h[Len(settings)], Len(settings))
  BY <1>1, <1>5
<1> QED
  BY <1>2, <1>6 DEF Settled

(* refresh().                                                              *)
LEMMA RefreshSound ==
  ASSUME settings \in Seq(Apps), IsInjective(settings), installed \subseteq Apps,
         surfaces \in [Apps -> Int], NEW items, Sound(items, surfaces)
  PROVE  Sound(Placed(Kept(items)), surfaces)
BY KeptSound, PlacedSound

(* What is stored has an application once.                                 *)
LEMMA PinnedOfIs ==
  ASSUME NEW items, items \in Seq(Items), Once(items)
  PROVE  PinnedOf(items) \in Seq(Apps) /\ IsInjective(PinnedOf(items))
<1>1. Len(items) \in Nat /\ DOMAIN items = 1 .. Len(items)
  OBVIOUS
<1>2. PICK h : /\ h[0] = <<>>
               /\ \A k \in 1 .. Len(items) : h[k] = PinnedWith(h[k - 1], items[k])
               /\ h[Len(items)] = PinnedOf(items)
  BY PinnedSteps
<1> DEFINE Of(s, n) == /\ s \in Seq(Apps) /\ IsInjective(s)
                       /\ \A j \in 1 .. Len(s) : \E m \in 1 .. n : s[j] = items[m].app
           T == {n \in 0 .. Len(items) : Of(h[n], n)}
<1>3. 0 \in T
  <2>1. <<>> \in Seq(Apps) /\ Len(<<>>) = 0 /\ DOMAIN <<>> = {}
    OBVIOUS
  <2>2. IsInjective(<<>>)
    BY <2>1 DEF IsInjective
  <2>3. Of(<<>>, 0)
    BY <2>1, <2>2
  <2> HIDE DEF Of
  <2>4. Of(h[0], 0)
    BY <1>2, <2>3, Zenon
  <2> QED
    BY <1>1, <2>4
<1>4. ASSUME NEW n \in 0 .. Len(items) - 1, n \in T PROVE n + 1 \in T
  <2>1. n + 1 \in 1 .. Len(items) /\ n + 1 \in 0 .. Len(items) /\ (n + 1) - 1 = n /\ n \in Nat
    BY <1>1
  <2>2. h[n + 1] = PinnedWith(h[n], items[n + 1])
    BY <1>2, <2>1
  <2>3. PICK s : s = h[n]
    OBVIOUS
  <2>4. Of(s, n)
    BY <1>4, <2>3
  <2>5. items[n + 1].app \in Apps
    BY <2>1, ItemsAre
  <2>6. CASE items[n + 1].pinned
    <3> DEFINE t == Append(s, items[n + 1].app)
    <3>1. /\ t \in Seq(Apps) /\ Len(t) = Len(s) + 1 /\ Len(s) \in Nat
          /\ t[Len(s) + 1] = items[n + 1].app
          /\ \A j \in 1 .. Len(s) : t[j] = s[j]
          /\ DOMAIN t = 1 .. Len(s) + 1 /\ DOMAIN s = 1 .. Len(s)
      BY <2>4, <2>5
    <3> HIDE DEF t
    <3>2. ASSUME NEW j \in 1 .. Len(s) PROVE t[j] # items[n + 1].app
      <4>1. PICK m \in 1 .. n : s[j] = items[m].app
        BY <2>4
      <4>2. m \in DOMAIN items /\ n + 1 \in DOMAIN items /\ m # n + 1
        BY <1>1, <2>1
      <4> QED
        BY <3>1, <4>1, <4>2 DEF Once
    <3>3. IsInjective(t)
      <4> SUFFICES ASSUME NEW j \in 1 .. Len(s) + 1, NEW l \in 1 .. Len(s) + 1,
                          t[j] = t[l], j # l
                   PROVE  FALSE
        BY <3>1 DEF IsInjective
      <4>1. j \in 1 .. Len(s) /\ l \in 1 .. Len(s)
        BY <3>1, <3>2
      <4> QED
        BY <2>4, <3>1, <4>1 DEF IsInjective
    <3>4. \A j \in 1 .. Len(t) : \E m \in 1 .. n + 1 : t[j] = items[m].app
      <4> SUFFICES ASSUME NEW j \in 1 .. Len(t) PROVE \E m \in 1 .. n + 1 : t[j] = items[m].app
        OBVIOUS
      <4>1. CASE j = Len(s) + 1
        BY <2>1, <3>1, <4>1
      <4>2. CASE j \in 1 .. Len(s)
        <5>1. PICK m \in 1 .. n : s[j] = items[m].app
          BY <2>4, <4>2
        <5> QED
          BY <2>1, <3>1, <4>2, <5>1
      <4> QED
        BY <3>1, <4>1, <4>2
    <3>5. h[n + 1] = t
      BY <2>2, <2>3, <2>6 DEF PinnedWith, t
    <3> QED
      BY <2>1, <3>1, <3>3, <3>4, <3>5
  <2>7. CASE ~items[n + 1].pinned
    <3>1. h[n + 1] = s
      BY <2>2, <2>3, <2>7 DEF PinnedWith
    <3>2. Of(s, n + 1)
      <4>1. 1 .. n \subseteq 1 .. n + 1
        BY <2>1
      <4>2. \A j \in 1 .. Len(s) : \E m \in 1 .. n + 1 : s[j] = items[m].app
        BY <2>4, <4>1
      <4> QED
        BY <2>4, <4>2
    <3> HIDE DEF Of
    <3> QED
      BY <2>1, <3>1, <3>2
  <2> QED
    BY <2>6, <2>7
<1>5. \A n \in 0 .. Len(items) : n \in T
  <2> HIDE DEF T
  <2> QED  BY <1>1, <1>3, <1>4, UpTo
<1>6. Len(items) \in T
  BY <1>1, <1>5
<1> QED
  BY <1>2, <1>6

(* A change of the list that AccountsService is told of.                   *)
LEMMA ShowsKeeps ==
  ASSUME LauncherInv, NEW items, Shows(items), Sound(items, surfaces'),
         surfaces' \in [Apps -> Int], installed' \subseteq Apps, UNCHANGED settings
  PROVE  LauncherInv'
BY DEF LauncherInv, Shows, GreeterIsTold

(* A change that is stored.                                                *)
LEMMA StoresKeeps ==
  ASSUME LauncherInv, NEW items, Stores(items), Sound(items, surfaces),
         UNCHANGED <<installed, surfaces>>
  PROVE  LauncherInv'
<1>1. items \in Seq(Items) /\ Once(items)
  BY DEF Sound
<1>2. PinnedOf(items) \in Seq(Apps) /\ IsInjective(PinnedOf(items))
  BY <1>1, PinnedOfIs
<1>3. list' = items /\ synced' = SyncItems(items) /\ settings' = PinnedOf(items)
  BY DEF Stores, Shows
<1>4. Sound(list', surfaces') /\ synced' = SyncItems(list')
  BY <1>3
<1> QED
  BY <1>2, <1>3, <1>4 DEF LauncherInv, GreeterIsTold

(* Pinning an item that is there.                                          *)
LEMMA PinSound ==
  ASSUME NEW items, NEW count, Sound(items, count), NEW i \in 1 .. Len(items)
  PROVE  Sound([items EXCEPT ![i].pinned = TRUE], count)
<1> DEFINE item == [items[i] EXCEPT !.pinned = TRUE]
<1>1. items \in Seq(Items) /\ items[i] \in Items /\ Reason(items[i], count)
  BY DEF Sound
<1>2. item \in Items /\ item.app = items[i].app /\ Reason(item, count)
  BY <1>1 DEF Items, Reason
<1>3. [items EXCEPT ![i].pinned = TRUE] = [items EXCEPT ![i] = item]
  BY <1>1
<1> HIDE DEF item
<1> QED
  BY <1>2, <1>3, EditSound

(* The requests of the user.                                               *)
LEMMA MoveKeeps ==
  ASSUME LauncherInv, NEW from, NEW to, Move(from, to) PROVE LauncherInv'
<1>1. /\ from \in 1 .. Len(list) /\ to \in 1 .. Len(list) /\ Sound(list, surfaces)
      /\ Stores([Moved(list, from, to) EXCEPT ![to].pinned = TRUE])
      /\ UNCHANGED <<installed, surfaces>>
  BY DEF LauncherInv, Move, Sound
<1>2. PICK items : items = Moved(list, from, to)
  OBVIOUS
<1>3. Sound(items, surfaces)
  BY <1>1, <1>2, MovedSound
<1>4. to \in 1 .. Len(items)
  <2>1. list \in Seq(Items)
    BY <1>1 DEF Sound
  <2>2. MoveOf(items, list, from, to)
    BY <1>1, <1>2, <2>1, MovedIs
  <2> QED
    BY <1>1, <2>2 DEF MoveOf
<1>5. Sound([items EXCEPT ![to].pinned = TRUE], surfaces)
  BY <1>3, <1>4, PinSound
<1> QED
  BY <1>1, <1>2, <1>5, StoresKeeps

(* requestPin() and what it does to an item that is listed or not.         *)
LEMMA PinKeeps ==
  ASSUME LauncherInv, NEW app \in Apps, NEW index \in 0 .. Len(list) + 1,
         PinListed(app, index) \/ PinElsewhere(app, index) \/ PinNew(app, index)
  PROVE  LauncherInv'
<1>1. Sound(list, surfaces) /\ list \in Seq(Items) /\ Len(list) \in Nat
  BY DEF LauncherInv, Sound
<1>2. \/ Find(list, app) \in 1 .. Len(list)
      \/ Find(list, app) = 0 /\ \A j \in 1 .. Len(list) : list[j].app # app
  BY <1>1, FindIs
<1>3. CASE PinListed(app, index)
  <2>1. PICK i : i = Find(list, app)
    OBVIOUS
  <2>2. /\ i # 0 /\ Stores([list EXCEPT ![i].pinned = TRUE])
        /\ UNCHANGED <<installed, surfaces>>
    BY <1>3, <2>1 DEF PinListed
  <2>3. Sound([list EXCEPT ![i].pinned = TRUE], surfaces)
    BY <1>1, <1>2, <2>1, <2>2, PinSound
  <2> QED
    BY <2>2, <2>3, StoresKeeps
<1>4. CASE PinElsewhere(app, index)
  BY <1>4, MoveKeeps DEF PinElsewhere
<1>5. CASE PinNew(app, index)
  <2>1. PICK i : i = IF index = 0 THEN Len(list) + 1 ELSE index
    OBVIOUS
  <2>2. PICK item : item = [Item(app) EXCEPT !.pinned = TRUE]
    OBVIOUS
  <2>3. /\ Find(list, app) = 0 /\ i <= Len(list) + 1
        /\ Stores(InsertAt(list, i, item)) /\ UNCHANGED <<installed, surfaces>>
    BY <1>5, <2>1, <2>2 DEF PinNew, Has
  <2>4. item \in Items /\ item.app = app /\ Reason(item, surfaces)
    BY <2>2, PinnedItem
  <2>5. i \in 1 .. Len(list) + 1
    BY <1>1, <2>1, <2>3
  <2>6. Sound(InsertAt(list, i, item), surfaces)
    <3>1. \A j \in 1 .. Len(list) : list[j].app # item.app
      BY <1>2, <2>3, <2>4
    <3> QED
      BY <1>1, <2>4, <2>5, <3>1, InsertSound
  <2> QED
    BY <2>3, <2>6, StoresKeeps
<1> QED
  BY <1>3, <1>4, <1>5

(* requestRemove() unpins; an item that still runs stays.                  *)
LEMMA RequestRemoveKeeps ==
  ASSUME LauncherInv, NEW app, RequestRemove(app) PROVE LauncherInv'
<1>1. Sound(Unpin(list, app), surfaces)
  BY UnpinSound DEF LauncherInv
<1> QED
  BY <1>1, StoresKeeps DEF RequestRemove

(* What the settings, other processes and packages do.                     *)
LEMMA SettingsKeep ==
  ASSUME LauncherInv, SettingsChanged \/ RefreshCalled PROVE LauncherInv'
<1>1. Sound(Placed(Kept(list)), surfaces)
  BY RefreshSound DEF LauncherInv
<1>2. UNCHANGED <<settings, installed, surfaces>>
  BY DEF SettingsChanged, RefreshCalled
<1>3. UNCHANGED <<list, synced>> \/ Shows(Placed(Kept(list)))
  BY DEF SettingsChanged, RefreshCalled, Refreshes
<1>4. CASE UNCHANGED <<list, synced>>
  BY <1>2, <1>4 DEF LauncherInv, GreeterIsTold
<1>5. CASE Shows(Placed(Kept(list)))
  <2>1. /\ Sound(Placed(Kept(list)), surfaces') /\ surfaces' \in [Apps -> Int]
        /\ installed' \subseteq Apps /\ UNCHANGED settings
    BY <1>1, <1>2 DEF LauncherInv
  <2> QED
    BY <1>5, <2>1, ShowsKeeps
<1> QED
  BY <1>3, <1>4, <1>5

(* What other processes write and install does not touch the list.         *)
LEMMA OthersKeep ==
  ASSUME LauncherInv, \/ \E stored \in Seq(Apps) : OthersWrite(stored)
                      \/ \E app \in Apps : InstalledChanges(app)
  PROVE  LauncherInv'
<1>1. CASE \E stored \in Seq(Apps) : OthersWrite(stored)
  BY <1>1 DEF OthersWrite, LauncherInv, GreeterIsTold
<1>2. CASE \E app \in Apps : InstalledChanges(app)
  BY <1>2 DEF InstalledChanges, LauncherInv, GreeterIsTold
<1> QED
  BY <1>1, <1>2

(* The list without or with an item of an application that runs now.       *)
LEMMA RunningItem ==
  ASSUME NEW app \in Apps, NEW count, count[app] >= 0
  PROVE  LET item == [Item(app) EXCEPT !.recent = TRUE, !.running = TRUE]
         IN  item \in Items /\ item.app = app /\ ~item.pinned /\ Reason(item, count)
BY DEF Item, Items, Reason

(* Applications that start leave every reason.                             *)
LEMMA StillSound ==
  ASSUME NEW items, NEW count, Sound(items, count), NEW more,
         \A app \in Apps : count[app] >= 0 => more[app] >= 0
  PROVE  Sound(items, more)
<1>1. items \in Seq(Items) /\ \A i \in DOMAIN items : items[i].app \in Apps
  BY ItemsAre DEF Sound
<1>2. ASSUME NEW i \in DOMAIN items PROVE Reason(items[i], more)
  <2>1. Reason(items[i], count) /\ (count[items[i].app] >= 0 => more[items[i].app] >= 0)
    BY <1>1 DEF Sound
  <2> QED
    BY <2>1 DEF Reason
<1> QED
  BY <1>2 DEF Sound

(* What applications do.                                                   *)
LEMMA ApplicationAddedKeeps ==
  ASSUME LauncherInv, NEW app \in Apps, NEW n \in 0 .. 1, ApplicationAdded(app, n)
  PROVE  LauncherInv'
<1>1. /\ Sound(list, surfaces) /\ list \in Seq(Items) /\ Len(list) \in Nat
      /\ DOMAIN list = 1 .. Len(list) /\ surfaces \in [Apps -> Int]
  BY DEF LauncherInv, Sound
<1>2. /\ surfaces' = [surfaces EXCEPT ![app] = n] /\ UNCHANGED <<settings, installed>>
  BY DEF ApplicationAdded
<1>3. surfaces' \in [Apps -> Int] /\ surfaces'[app] >= 0
  BY <1>1, <1>2
<1>4. Sound(list, surfaces')
  <2>1. \A a \in Apps : surfaces[a] >= 0 => surfaces'[a] >= 0
    BY <1>1, <1>2
  <2>2. PICK more : more = surfaces'
    OBVIOUS
  <2> QED
    BY <1>1, <2>1, <2>2, StillSound
<1>5. PICK i : i = Find(list, app)
  OBVIOUS
<1>6. \/ i \in 1 .. Len(list) /\ list[i].app = app
      \/ i = 0 /\ \A j \in 1 .. Len(list) : list[j].app # app
  BY <1>1, <1>5, FindIs
<1>7. PICK new : new = [Item(app) EXCEPT !.recent = TRUE, !.running = TRUE]
  OBVIOUS
<1>8. Shows(IF i # 0 THEN [list EXCEPT ![i].recent = TRUE, ![i].running = TRUE]
            ELSE IF n > 0 THEN Append(list, new) ELSE list)
  BY <1>5, <1>7 DEF ApplicationAdded
<1>9. \E items : Shows(items) /\ Sound(items, surfaces')
  <2>1. CASE i # 0
    <3> DEFINE item == [list[i] EXCEPT !.recent = TRUE, !.running = TRUE]
    <3>1. i \in 1 .. Len(list) /\ list[i].app = app /\ list[i] \in Items
      BY <1>1, <1>6, <2>1
    <3>2. item \in Items /\ item.app = list[i].app
      BY <3>1 DEF Items
    <3>3. Reason(item, surfaces')
      BY <1>3, <3>1 DEF Reason, Items
    <3>4. [list EXCEPT ![i].recent = TRUE, ![i].running = TRUE] = [list EXCEPT ![i] = item]
      BY <1>1, <3>1
    <3>5. PICK it : it = item
      OBVIOUS
    <3> HIDE DEF item
    <3>6. Sound([list EXCEPT ![i] = it], surfaces')
      BY <1>4, <3>1, <3>2, <3>3, <3>5, EditSound
    <3> QED
      BY <1>8, <2>1, <3>4, <3>5, <3>6
  <2>2. CASE i = 0 /\ n > 0
    <3>1. new \in Items /\ new.app = app /\ Reason(new, surfaces')
      BY <1>3, <1>7, RunningItem
    <3>2. Sound(Append(list, new), surfaces')
      BY <1>4, <1>6, <2>2, <3>1, AppendSound
    <3> QED
      BY <1>8, <2>2, <3>2
  <2>3. CASE i = 0 /\ ~(n > 0)
    BY <1>4, <1>8, <2>3
  <2> QED
    BY <2>1, <2>2, <2>3
<1> QED
  BY <1>2, <1>3, <1>9, ShowsKeeps DEF LauncherInv

(* What no longer has a surface goes unless it is pinned.                  *)
LEMMA SurfaceCountChangedKeeps ==
  ASSUME LauncherInv, NEW app \in Apps, NEW n \in 0 .. 1, SurfaceCountChanged(app, n)
  PROVE  LauncherInv'
<1>1. /\ Sound(list, surfaces) /\ list \in Seq(Items) /\ Len(list) \in Nat
      /\ DOMAIN list = 1 .. Len(list) /\ surfaces \in [Apps -> Int]
  BY DEF LauncherInv, Sound
<1>2. surfaces' = [surfaces EXCEPT ![app] = n] /\ UNCHANGED <<settings, installed>>
  BY DEF SurfaceCountChanged
<1>3. surfaces' \in [Apps -> Int] /\ surfaces'[app] >= 0
  BY <1>1, <1>2
<1>4. Sound(list, surfaces')
  <2>1. \A a \in Apps : surfaces[a] >= 0 => surfaces'[a] >= 0
    BY <1>1, <1>2
  <2>2. PICK more : more = surfaces'
    OBVIOUS
  <2> QED
    BY <1>1, <2>1, <2>2, StillSound
<1>5. PICK i : i = Find(list, app)
  OBVIOUS
<1>6. \/ i \in 1 .. Len(list) /\ list[i].app = app
      \/ i = 0 /\ \A j \in 1 .. Len(list) : list[j].app # app
  BY <1>1, <1>5, FindIs
<1>7. PICK new : new = [Item(app) EXCEPT !.recent = TRUE, !.running = TRUE]
  OBVIOUS
<1>8. new \in Items /\ new.app = app /\ Reason(new, surfaces')
  BY <1>3, <1>7, RunningItem
<1>9. PICK items : items = IF i = 0 THEN Append(list, new) ELSE list
  OBVIOUS
<1>10. Sound(items, surfaces') /\ \E k \in 1 .. Len(items) : items[k].app = app
  <2>1. CASE i = 0
    <3>1. Sound(Append(list, new), surfaces')
      BY <1>4, <1>6, <1>8, <2>1, AppendSound
    <3>2. Len(list) + 1 \in 1 .. Len(items) /\ items[Len(list) + 1] = new
      BY <1>1, <1>8, <1>9, <2>1
    <3> QED
      BY <1>8, <1>9, <2>1, <3>1, <3>2
  <2>2. CASE i # 0
    BY <1>4, <1>6, <1>9, <2>2
  <2> QED
    BY <2>1, <2>2
<1>11. PICK j : j = Find(items, app)
  OBVIOUS
<1>12. j \in 1 .. Len(items) /\ items \in Seq(Items)
  <2>1. items \in Seq(Items)
    BY <1>10 DEF Sound
  <2> QED
    BY <1>10, <1>11, <2>1, FindIs
<1>13. \/ Shows(RemoveAt(items, j))
       \/ list' = items /\ synced' = IF i = 0 THEN SyncItems(items) ELSE synced
  BY <1>5, <1>7, <1>9, <1>11 DEF SurfaceCountChanged
<1>14. CASE Shows(RemoveAt(items, j))
  <2>1. PICK more : more = surfaces'
    OBVIOUS
  <2>2. Sound(RemoveAt(items, j), more)
    BY <1>10, <1>12, <2>1, RemoveSound
  <2>3. Sound(RemoveAt(items, j), surfaces') /\ installed' \subseteq Apps
    BY <1>2, <2>1, <2>2 DEF LauncherInv
  <2> QED
    BY <1>2, <1>3, <1>14, <2>3, ShowsKeeps
<1>15. CASE list' = items /\ synced' = IF i = 0 THEN SyncItems(items) ELSE synced
  <2>1. synced' = SyncItems(list')
    BY <1>9, <1>15 DEF LauncherInv, GreeterIsTold
  <2>2. Sound(list', surfaces') /\ installed' \subseteq Apps
    BY <1>2, <1>10, <1>15 DEF LauncherInv
  <2> QED
    BY <1>2, <1>3, <2>1, <2>2 DEF LauncherInv, GreeterIsTold
<1> QED
  BY <1>13, <1>14, <1>15

(* An application that stops takes along the item only it kept.            *)
LEMMA ApplicationRemovedKeeps ==
  ASSUME LauncherInv, NEW app \in Apps, ApplicationRemoved(app)
  PROVE  LauncherInv'
<1>1. /\ Sound(list, surfaces) /\ list \in Seq(Items) /\ Len(list) \in Nat
      /\ DOMAIN list = 1 .. Len(list) /\ surfaces \in [Apps -> Int]
  BY DEF LauncherInv, Sound
<1>2. /\ surfaces' = [surfaces EXCEPT ![app] = -1] /\ UNCHANGED <<settings, installed>>
      /\ ItemStops(app)
  BY DEF ApplicationRemoved
<1>3. surfaces' \in [Apps -> Int] /\ \A a \in Apps : a # app => surfaces'[a] = surfaces[a]
  BY <1>1, <1>2
<1>4. PICK i : i = Find(list, app)
  OBVIOUS
<1>5. \/ i \in 1 .. Len(list) /\ list[i].app = app
      \/ i = 0 /\ \A j \in 1 .. Len(list) : list[j].app # app
  BY <1>1, <1>4, FindIs
<1>6. ASSUME NEW items, Sound(items, surfaces),
             \A j \in 1 .. Len(items) :
               items[j].app = app => items[j].pinned /\ ~items[j].running
      PROVE  Sound(items, surfaces')
  <2>1. items \in Seq(Items) /\ DOMAIN items = 1 .. Len(items)
    BY <1>6 DEF Sound
  <2>2. ASSUME NEW j \in 1 .. Len(items) PROVE Reason(items[j], surfaces')
    <3>1. Reason(items[j], surfaces) /\ items[j].app \in Apps
      BY <1>6, <2>1, ItemsAre DEF Sound
    <3>2. CASE items[j].app = app
      BY <1>6, <3>2 DEF Reason
    <3>3. CASE items[j].app # app
      BY <1>3, <3>1, <3>3 DEF Reason
    <3> QED
      BY <3>2, <3>3
  <2> QED
    BY <1>6, <2>1, <2>2 DEF Sound
<1>7. installed' \subseteq Apps /\ synced = SyncItems(list)
  BY <1>2 DEF LauncherInv, GreeterIsTold
<1>8. CASE i = 0
  <2>1. UNCHANGED <<list, synced>>
    BY <1>2, <1>4, <1>8 DEF ItemStops
  <2>2. Sound(list, surfaces')
    BY <1>1, <1>5, <1>6, <1>8
  <2> QED
    BY <1>2, <1>3, <1>7, <2>1, <2>2 DEF LauncherInv, GreeterIsTold
<1>9. CASE i # 0 /\ list[i].pinned
  <2> DEFINE item == [list[i] EXCEPT !.running = FALSE]
  <2>1. i \in 1 .. Len(list) /\ list[i].app = app /\ list[i] \in Items
    BY <1>1, <1>5, <1>9
  <2>2. /\ item \in Items /\ item.app = list[i].app /\ item.pinned = list[i].pinned
        /\ item.running = FALSE
    BY <2>1 DEF Items
  <2>3. Reason(item, surfaces)
    BY <1>9, <2>2 DEF Reason
  <2>4. list' = [list EXCEPT ![i] = item] /\ synced' = synced
    BY <1>1, <1>2, <1>4, <1>9, <2>1 DEF ItemStops
  <2>5. PICK it : it = item
    OBVIOUS
  <2> HIDE DEF item
  <2>6. Sound([list EXCEPT ![i] = it], surfaces)
    BY <1>1, <2>1, <2>2, <2>3, <2>5, EditSound
  <2>7. PICK items : items = [list EXCEPT ![i] = it]
    OBVIOUS
  <2>8. /\ items \in Seq(Items) /\ Len(items) = Len(list) /\ DOMAIN items = 1 .. Len(list)
        /\ \A j \in 1 .. Len(list) : items[j] = IF j = i THEN it ELSE list[j]
    BY <1>1, <2>1, <2>2, <2>5, <2>7
  <2>9. ASSUME NEW j \in 1 .. Len(items), items[j].app = app
        PROVE  items[j].pinned /\ ~items[j].running
    <3>1. j = i
      <4>1. CASE j # i
        <5>1. list[j].app = list[i].app
          BY <2>1, <2>8, <2>9, <4>1
        <5> QED
          BY <1>1, <2>1, <2>8, <4>1, <5>1 DEF Sound, Once
      <4> QED
        BY <4>1
    <3> QED
      BY <1>9, <2>1, <2>2, <2>5, <2>8, <3>1
  <2>10. Sound(items, surfaces')
    BY <1>6, <2>6, <2>7, <2>9
  <2>11. SyncItems(items) = SyncItems(list)
    <3>1. \A j \in 1 .. Len(list) : items[j].app = list[j].app /\ items[j].pinned = list[j].pinned
      BY <2>2, <2>5, <2>8
    <3> QED
      BY <1>1, <2>8, <3>1 DEF SyncItems
  <2>12. list' = items /\ synced' = SyncItems(list')
    BY <1>7, <2>4, <2>5, <2>7, <2>11
  <2> QED
    BY <1>2, <1>3, <1>7, <2>10, <2>12 DEF LauncherInv, GreeterIsTold
<1>10. CASE i # 0 /\ ~list[i].pinned
  <2>1. Shows(RemoveAt(list, i)) /\ i \in 1 .. Len(list) /\ list[i].app = app
    BY <1>2, <1>4, <1>5, <1>10 DEF ItemStops
  <2>2. PICK items : items = RemoveAt(list, i)
    OBVIOUS
  <2>3. Sound(items, surfaces)
    BY <1>1, <2>1, <2>2, RemoveSound
  <2>4. /\ Len(items) = Len(list) - 1
        /\ \A j \in 1 .. Len(list) - 1 : items[j] = IF j < i THEN list[j] ELSE list[j + 1]
    BY <1>1, <2>1, <2>2, RemoveIs
  <2>5. ASSUME NEW j \in 1 .. Len(items) PROVE items[j].app # app
    <3>1. PICK k \in 1 .. Len(list) : items[j] = list[k] /\ k # i
      BY <1>1, <2>1, <2>4
    <3> QED
      BY <1>1, <2>1, <3>1 DEF Sound, Once
  <2>6. Sound(items, surfaces')
    BY <1>6, <2>3, <2>5
  <2> QED
    BY <1>2, <1>3, <1>7, <2>1, <2>2, <2>6, ShowsKeeps
<1> QED
  BY <1>8, <1>9, <1>10

(* A count is shown or goes.                                               *)
LEMMA CountVisibleChangedKeeps ==
  ASSUME LauncherInv, NEW app \in Apps, NEW visible \in BOOLEAN,
         CountVisibleChanged(app, visible)
  PROVE  LauncherInv'
<1>1. /\ Sound(list, surfaces) /\ list \in Seq(Items) /\ Len(list) \in Nat
      /\ DOMAIN list = 1 .. Len(list) /\ surfaces \in [Apps -> Int] /\ installed \subseteq Apps
  BY DEF LauncherInv, Sound
<1>2. UNCHANGED <<settings, installed, surfaces>>
  BY DEF CountVisibleChanged
<1>3. PICK i : i = Find(list, app)
  OBVIOUS
<1>4. \/ i \in 1 .. Len(list) /\ list[i].app = app
      \/ i = 0 /\ \A j \in 1 .. Len(list) : list[j].app # app
  BY <1>1, <1>3, FindIs
<1>5. PICK new : new = [Item(app) EXCEPT !.countVisible = TRUE]
  OBVIOUS
<1>6. Shows(IF i # 0
              THEN IF ~visible /\ ~list[i].pinned /\ ~list[i].recent THEN RemoveAt(list, i)
                   ELSE [list EXCEPT ![i].countVisible = visible]
            ELSE IF visible /\ app \in installed THEN Append(list, new)
            ELSE list)
  BY <1>3, <1>5 DEF CountVisibleChanged
<1>7. \E items : Shows(items) /\ Sound(items, surfaces)
  <2>1. CASE i # 0 /\ ~visible /\ ~list[i].pinned /\ ~list[i].recent
    <3>1. Sound(RemoveAt(list, i), surfaces)
      BY <1>1, <1>4, <2>1, RemoveSound
    <3> QED
      BY <1>6, <2>1, <3>1
  <2>2. CASE i # 0 /\ (visible \/ list[i].pinned \/ list[i].recent)
    <3> DEFINE item == [list[i] EXCEPT !.countVisible = visible]
    <3>1. i \in 1 .. Len(list) /\ list[i] \in Items /\ Reason(list[i], surfaces)
      BY <1>1, <1>4, <2>2 DEF Sound
    <3>2. item \in Items /\ item.app = list[i].app
      BY <3>1 DEF Items
    <3>3. Reason(item, surfaces)
      BY <2>2, <3>1 DEF Reason, Items
    <3>4. [list EXCEPT ![i].countVisible = visible] = [list EXCEPT ![i] = item]
      BY <1>1, <3>1
    <3> HIDE DEF item
    <3>5. Sound([list EXCEPT ![i] = item], surfaces)
      BY <1>1, <3>1, <3>2, <3>3, EditSound
    <3> QED
      BY <1>6, <2>2, <3>4, <3>5
  <2>3. CASE i = 0 /\ visible /\ app \in installed
    <3>1. new \in Items /\ new.app = app /\ Reason(new, surfaces)
      BY <1>5 DEF Item, Items, Reason
    <3>2. Sound(Append(list, new), surfaces)
      BY <1>1, <1>4, <2>3, <3>1, AppendSound
    <3> QED
      BY <1>6, <2>3, <3>2
  <2>4. CASE i = 0 /\ ~(visible /\ app \in installed)
    BY <1>1, <1>6, <2>4
  <2> QED
    BY <2>1, <2>2, <2>3, <2>4
<1> QED
  BY <1>1, <1>2, <1>7, ShowsKeeps

(* The launcher starts with what the settings have.                        *)
LEMMA NothingSound == Sound(<<>>, surfaces)
<1>1. <<>> \in Seq(Items) /\ DOMAIN <<>> = {}
  OBVIOUS
<1> QED
  BY <1>1 DEF Sound, Once

LEMMA LauncherStarts == LauncherInit => LauncherInv
<1> SUFFICES ASSUME LauncherInit PROVE LauncherInv
  OBVIOUS
<1>1. /\ list = Placed(<<>>) /\ synced = SyncItems(list) /\ installed \subseteq Apps
      /\ surfaces = [app \in Apps |-> -1]
  BY DEF LauncherInit
<1>2. settings \in Seq(Apps) /\ IsInjective(settings)
  BY DEF LauncherInit, SeqOf
<1>3. Sound(list, surfaces)
  BY <1>1, <1>2, NothingSound, PlacedSound
<1>4. surfaces \in [Apps -> Int]
  BY <1>1
<1> QED
  BY <1>1, <1>2, <1>3, <1>4 DEF LauncherInv, GreeterIsTold

(* Every step of the launcher keeps the invariant.                         *)
LEMMA LauncherStep == LauncherInv /\ [LauncherNext]_launcherVars => LauncherInv'
<1> SUFFICES ASSUME LauncherInv, [LauncherNext]_launcherVars PROVE LauncherInv'
  OBVIOUS
<1>1. CASE UNCHANGED launcherVars
  BY <1>1 DEF launcherVars, LauncherInv, GreeterIsTold
<1>2. CASE \E from, to \in DOMAIN list : Move(from, to)
  BY <1>2, MoveKeeps
<1>3. CASE \E app \in Apps : \E index \in 0 .. Len(list) + 1 :
             PinListed(app, index) \/ PinElsewhere(app, index) \/ PinNew(app, index)
  BY <1>3, PinKeeps
<1>4. CASE \E app \in Apps : RequestRemove(app)
  BY <1>4, RequestRemoveKeeps
<1>5. CASE \E app \in Apps : \E n \in 0 .. 1 : ApplicationAdded(app, n) \/ SurfaceCountChanged(app, n)
  BY <1>5, ApplicationAddedKeeps, SurfaceCountChangedKeeps
<1>6. CASE \E app \in Apps : ApplicationRemoved(app)
  BY <1>6, ApplicationRemovedKeeps
<1>7. CASE \E app \in Apps : \E visible \in BOOLEAN : CountVisibleChanged(app, visible)
  BY <1>7, CountVisibleChangedKeeps
<1>8. CASE \E app \in Apps : InstalledChanges(app)
  BY <1>8, OthersKeep
<1>9. CASE SettingsChanged \/ RefreshCalled
  BY <1>9, SettingsKeep
<1>10. CASE \E stored \in SeqOf(Apps, MaxStored) : OthersWrite(stored)
  <2>1. \A stored \in SeqOf(Apps, MaxStored) : stored \in Seq(Apps)
    BY DEF SeqOf
  <2> QED
    BY <1>10, <2>1, OthersKeep
<1> QED
  BY <1>1, <1>2, <1>3, <1>4, <1>5, <1>6, <1>7, <1>8, <1>9, <1>10, Zenon DEF LauncherNext

(***************************************************************************)
(* For any number of applications, every item of the launcher is there     *)
(* once and for a reason, and is shown as running only if it runs          *)
(* (launchermodel.cpp:388, 410, 568, 645).  A recent item that is not      *)
(* pinned runs, or taking away its count would leave it without a reason;  *)
(* and no application is in the settings twice, or the loop of refresh()   *)
(* would move an item it has placed already.                               *)
(***************************************************************************)
THEOREM ReasonsOfItems == LauncherSpec => []ItemsHaveReasons
<1>1. LauncherInv => ItemsHaveReasons
  BY DEF LauncherInv, ItemsHaveReasons, Sound, Once, Reason, Runs, IsInjective, AppsOf
<1> QED
  BY <1>1, LauncherStarts, LauncherStep, PTL DEF LauncherSpec

(***************************************************************************)
(* What AccountsService was last sent is the list, in its order and with   *)
(* which items are pinned, after every change of the list in any order     *)
(* (launchermodel.cpp:305, 388, 514, 562, 640).                            *)
(***************************************************************************)
THEOREM ListIsSent == LauncherSpec => []GreeterIsTold
<1>1. LauncherInv => GreeterIsTold
  BY DEF LauncherInv
<1> QED
  BY <1>1, LauncherStarts, LauncherStep, PTL DEF LauncherSpec

-----------------------------------------------------------------------------
(* LauncherModel: the order of the pinned items.                           *)

\* Two pinned items of t are pinned items of s and follow one another there as they do here.
PinsFrom(t, s) ==
  \A i, j \in 1 .. Len(t) :
    i <= j /\ t[i].pinned /\ t[j].pinned =>
      \E k, l \in 1 .. Len(s) :
        /\ k <= l /\ s[k].pinned /\ s[l].pinned
        /\ s[k].app = t[i].app /\ s[l].app = t[j].app

(* A list that has its pinned items from another is as well in order.      *)
LEMMA PinsStay ==
  ASSUME NEW t, t \in Seq(Items), NEW s, s \in Seq(Items), NEW stored,
         PinsFrom(t, s), PinsAsIn(s, stored)
  PROVE  PinsAsIn(t, stored)
<1>1. DOMAIN t = 1 .. Len(t) /\ DOMAIN s = 1 .. Len(s)
  OBVIOUS
<1> SUFFICES ASSUME NEW i \in 1 .. Len(t), NEW j \in 1 .. Len(t), i <= j, t[i].pinned, t[j].pinned
             PROVE  \E k, l \in DOMAIN stored :
                      k <= l /\ stored[k] = t[i].app /\ stored[l] = t[j].app
  BY <1>1 DEF PinsAsIn
<1>2. PICK k \in 1 .. Len(s), l \in 1 .. Len(s) :
        /\ k <= l /\ s[k].pinned /\ s[l].pinned
        /\ s[k].app = t[i].app /\ s[l].app = t[j].app
  BY DEF PinsFrom
<1>3. \E m, n \in DOMAIN stored : m <= n /\ stored[m] = s[k].app /\ stored[n] = s[l].app
  BY <1>1, <1>2 DEF PinsAsIn
<1> QED
  BY <1>2, <1>3

(* No item is pinned that was not when one is taken out.                   *)
LEMMA PinsOfRemoved ==
  ASSUME NEW s, s \in Seq(Items), NEW i \in 1 .. Len(s)
  PROVE  RemoveAt(s, i) \in Seq(Items) /\ PinsFrom(RemoveAt(s, i), s)
<1> DEFINE r == RemoveAt(s, i)
<1>1. /\ r \in Seq(Items) /\ Len(r) = Len(s) - 1
      /\ \A j \in 1 .. Len(s) - 1 : r[j] = IF j < i THEN s[j] ELSE s[j + 1]
  BY RemoveIs
<1>2. Len(s) \in Nat /\ i \in Nat
  OBVIOUS
<1> HIDE DEF r
<1>3. ASSUME NEW j \in 1 .. Len(r), NEW l \in 1 .. Len(r), j <= l
      PROVE  \E m, n \in 1 .. Len(s) : m <= n /\ r[j] = s[m] /\ r[l] = s[n]
  <2> DEFINE m == IF j < i THEN j ELSE j + 1
             n == IF l < i THEN l ELSE l + 1
  <2>1. m \in 1 .. Len(s) /\ n \in 1 .. Len(s) /\ m <= n
    BY <1>1, <1>2, <1>3
  <2>2. r[j] = s[m] /\ r[l] = s[n]
    BY <1>1, <1>2
  <2> QED
    BY <2>1, <2>2
<1>4. PinsFrom(r, s)
  <2> SUFFICES ASSUME NEW j \in 1 .. Len(r), NEW l \in 1 .. Len(r),
                      j <= l, r[j].pinned, r[l].pinned
               PROVE  \E m, n \in 1 .. Len(s) :
                        /\ m <= n /\ s[m].pinned /\ s[n].pinned
                        /\ s[m].app = r[j].app /\ s[n].app = r[l].app
    BY DEF PinsFrom
  <2>1. PICK m \in 1 .. Len(s), n \in 1 .. Len(s) : m <= n /\ r[j] = s[m] /\ r[l] = s[n]
    BY <1>3
  <2>2. s[m].pinned /\ s[n].pinned /\ s[m].app = r[j].app /\ s[n].app = r[l].app
    BY <2>1
  <2> QED
    BY <2>1, <2>2
<1> QED
  BY <1>1, <1>4 DEF r

(* ... one that is not pinned is added; ...                                *)
LEMMA PinsOfAppended ==
  ASSUME NEW s, s \in Seq(Items), NEW item \in Items, ~item.pinned
  PROVE  Append(s, item) \in Seq(Items) /\ PinsFrom(Append(s, item), s)
<1> DEFINE t == Append(s, item)
<1>1. /\ t \in Seq(Items) /\ Len(t) = Len(s) + 1 /\ Len(s) \in Nat
      /\ t[Len(s) + 1] = item
      /\ \A j \in 1 .. Len(s) : t[j] = s[j]
  OBVIOUS
<1> HIDE DEF t
<1>2. \A j \in 1 .. Len(t) : t[j].pinned => j \in 1 .. Len(s) /\ t[j] = s[j]
  BY <1>1
<1>3. PinsFrom(t, s)
  BY <1>2 DEF PinsFrom
<1> QED
  BY <1>1, <1>3 DEF t

(* ... or one is changed that stays pinned or not.                         *)
LEMMA PinsOfEdited ==
  ASSUME NEW s, s \in Seq(Items), NEW i \in 1 .. Len(s), NEW item \in Items,
         item.app = s[i].app, item.pinned = s[i].pinned
  PROVE  [s EXCEPT ![i] = item] \in Seq(Items) /\ PinsFrom([s EXCEPT ![i] = item], s)
<1> DEFINE t == [s EXCEPT ![i] = item]
<1>1. /\ t \in Seq(Items) /\ Len(t) = Len(s)
      /\ \A j \in 1 .. Len(s) : t[j] = IF j = i THEN item ELSE s[j]
  OBVIOUS
<1> HIDE DEF t
<1>2. \A j \in 1 .. Len(s) : t[j].app = s[j].app /\ t[j].pinned = s[j].pinned
  BY <1>1
<1>3. PinsFrom(t, s)
  BY <1>1, <1>2 DEF PinsFrom
<1> QED
  BY <1>1, <1>3 DEF t

(* What is stored is in the order of the list.                             *)
LEMMA StoredInOrder ==
  ASSUME NEW items, items \in Seq(Items)
  PROVE  PinsAsIn(items, PinnedOf(items))
<1>1. Len(items) \in Nat /\ DOMAIN items = 1 .. Len(items)
  OBVIOUS
<1>2. PICK h : /\ h[0] = <<>>
               /\ \A k \in 1 .. Len(items) : h[k] = PinnedWith(h[k - 1], items[k])
               /\ h[Len(items)] = PinnedOf(items)
  BY PinnedSteps
<1> DEFINE Upto(s, n) ==
             /\ s \in Seq(Apps)
             /\ \A i, j \in 1 .. n :
                  i <= j /\ items[i].pinned /\ items[j].pinned =>
                    \E k, l \in 1 .. Len(s) : k <= l /\ s[k] = items[i].app /\ s[l] = items[j].app
           T == {n \in 0 .. Len(items) : Upto(h[n], n)}
<1>3. 0 \in T
  <2>1. <<>> \in Seq(Apps)
    OBVIOUS
  <2>2. Upto(<<>>, 0)
    BY <2>1
  <2> HIDE DEF Upto
  <2>3. Upto(h[0], 0)
    BY <1>2, <2>2, Zenon
  <2> QED
    BY <1>1, <2>3
<1>4. ASSUME NEW n \in 0 .. Len(items) - 1, n \in T PROVE n + 1 \in T
  <2>1. n + 1 \in 1 .. Len(items) /\ n + 1 \in 0 .. Len(items) /\ (n + 1) - 1 = n /\ n \in Nat
    BY <1>1
  <2>2. h[n + 1] = PinnedWith(h[n], items[n + 1])
    BY <1>2, <2>1
  <2>3. PICK s : s = h[n]
    OBVIOUS
  <2>4. Upto(s, n)
    <3> HIDE DEF Upto
    <3> QED  BY <1>4, <2>3
  <2>5. items[n + 1].app \in Apps
    BY <2>1, ItemsAre
  <2>6. CASE items[n + 1].pinned
    <3> DEFINE t == Append(s, items[n + 1].app)
    <3>1. /\ t \in Seq(Apps) /\ Len(t) = Len(s) + 1 /\ Len(s) \in Nat
          /\ t[Len(s) + 1] = items[n + 1].app
          /\ \A j \in 1 .. Len(s) : t[j] = s[j]
      BY <2>4, <2>5
    <3> HIDE DEF t
    <3>2. ASSUME NEW i \in 1 .. n + 1, NEW j \in 1 .. n + 1,
                 i <= j, items[i].pinned, items[j].pinned
          PROVE  \E k, l \in 1 .. Len(t) : k <= l /\ t[k] = items[i].app /\ t[l] = items[j].app
      <4>1. CASE j \in 1 .. n
        <5>1. i \in 1 .. n
          BY <2>1, <3>2, <4>1
        <5>2. PICK k \in 1 .. Len(s), l \in 1 .. Len(s) :
                k <= l /\ s[k] = items[i].app /\ s[l] = items[j].app
          BY <2>4, <3>2, <4>1, <5>1
        <5> QED
          BY <3>1, <5>2
      <4>2. CASE j = n + 1 /\ i \in 1 .. n
        <5>1. PICK k \in 1 .. Len(s) : s[k] = items[i].app
          <6>1. i <= i
            BY <2>1
          <6> QED
            BY <2>4, <3>2, <4>2, <6>1
        <5>2. k \in 1 .. Len(t) /\ Len(s) + 1 \in 1 .. Len(t) /\ k <= Len(s) + 1
          BY <3>1
        <5> QED
          BY <3>1, <4>2, <5>1, <5>2
      <4>3. CASE j = n + 1 /\ i = n + 1
        <5>1. Len(s) + 1 \in 1 .. Len(t) /\ Len(s) + 1 <= Len(s) + 1
          BY <3>1
        <5> QED
          BY <3>1, <4>3, <5>1
      <4> QED
        BY <2>1, <4>1, <4>2, <4>3
    <3>3. Upto(t, n + 1)
      BY <3>1, <3>2
    <3>4. h[n + 1] = t
      BY <2>2, <2>3, <2>6 DEF PinnedWith, t
    <3> HIDE DEF Upto
    <3>5. Upto(h[n + 1], n + 1)
      BY <3>3, <3>4, Zenon
    <3> QED
      BY <2>1, <3>5
  <2>7. CASE ~items[n + 1].pinned
    <3>1. h[n + 1] = s
      BY <2>2, <2>3, <2>7 DEF PinnedWith
    <3>2. \A i \in 1 .. n + 1 : items[i].pinned => i \in 1 .. n
      BY <2>1, <2>7
    <3>3. Upto(s, n + 1)
      BY <2>4, <3>2
    <3> HIDE DEF Upto
    <3>4. Upto(h[n + 1], n + 1)
      BY <3>1, <3>3, Zenon
    <3> QED
      BY <2>1, <3>4
  <2> QED
    BY <2>6, <2>7
<1>5. \A n \in 0 .. Len(items) : n \in T
  <2> HIDE DEF T
  <2> QED  BY <1>1, <1>3, <1>4, UpTo
<1>6. Len(items) \in T
  BY <1>1, <1>5
<1>7. PICK s : s = PinnedOf(items)
  OBVIOUS
<1>8. Upto(s, Len(items))
  <2> HIDE DEF Upto
  <2>1. Upto(h[Len(items)], Len(items))
    BY <1>6
  <2> QED
    BY <1>2, <1>7, <2>1, Zenon
<1>9. DOMAIN s = 1 .. Len(s)
  BY <1>8
<1>10. PinsAsIn(items, s)
  <2> SUFFICES ASSUME NEW i \in 1 .. Len(items), NEW j \in 1 .. Len(items),
                      i <= j, items[i].pinned, items[j].pinned
               PROVE  \E k, l \in DOMAIN s : k <= l /\ s[k] = items[i].app /\ s[l] = items[j].app
    BY <1>1 DEF PinsAsIn
  <2>1. \E k, l \in 1 .. Len(s) : k <= l /\ s[k] = items[i].app /\ s[l] = items[j].app
    BY <1>8
  <2> QED
    BY <1>9, <2>1
<1> QED
  BY <1>7, <1>10, Zenon

(* unpin() leaves no pinned item of the application.                       *)
LEMMA PinsOfUnpin ==
  ASSUME NEW items, Sound(items, surfaces), NEW app, NEW t, t = Unpin(items, app),
         NEW j \in 1 .. Len(t), t[j].pinned
  PROVE  t[j].app # app /\ \E k \in 1 .. Len(items) : items[k].pinned /\ items[k].app = t[j].app
<1>1. items \in Seq(Items) /\ Len(items) \in Nat /\ DOMAIN items = 1 .. Len(items)
  BY DEF Sound
<1> DEFINE i == Find(items, app)
<1>2. \/ i \in 1 .. Len(items) /\ items[i].app = app
      \/ i = 0 /\ \A k \in 1 .. Len(items) : items[k].app # app
  BY <1>1, FindIs
<1>3. t = IF i = 0 THEN items
          ELSE IF surfaces[app] >= 0 THEN [items EXCEPT ![i].pinned = FALSE]
          ELSE RemoveAt(items, i)
  BY DEF Unpin, Runs
<1> HIDE DEF i
<1>4. \A k \in 1 .. Len(items) : k # i => items[k].app # app
  BY <1>1, <1>2 DEF Sound, Once
<1>5. \E k \in 1 .. Len(items) : k # i /\ t[j] = items[k]
  <2>1. CASE i = 0
    BY <1>3, <2>1
  <2>2. CASE i # 0 /\ surfaces[app] >= 0
    <3>1. t = [items EXCEPT ![i].pinned = FALSE] /\ i \in 1 .. Len(items)
      BY <1>2, <1>3, <2>2
    <3>2. Len(t) = Len(items) /\ items[i] \in Items
      BY <1>1, <3>1
    <3>3. j # i => t[j] = items[j]
      BY <1>1, <3>1, <3>2
    <3>4. t[i].pinned = FALSE
      BY <1>1, <3>1, <3>2 DEF Items
    <3> QED
      BY <3>2, <3>3, <3>4
  <2>3. CASE i # 0 /\ ~(surfaces[app] >= 0)
    <3>1. t = RemoveAt(items, i) /\ i \in 1 .. Len(items)
      BY <1>2, <1>3, <2>3
    <3>2. /\ Len(t) = Len(items) - 1
          /\ \A k \in 1 .. Len(items) - 1 : t[k] = IF k < i THEN items[k] ELSE items[k + 1]
      BY <1>1, <3>1, RemoveIs
    <3> QED
      BY <1>1, <3>1, <3>2
  <2> QED
    BY <2>1, <2>2, <2>3
<1> QED
  BY <1>4, <1>5

(* refresh() leaves pinned items only of entries of the settings.          *)
LEMMA KeptPins ==
  ASSUME NEW items, Sound(items, surfaces), surfaces \in [Apps -> Int], NEW t, t = Kept(items),
         NEW j \in 1 .. Len(t), t[j].pinned
  PROVE  Contains(settings, t[j].app)
<1>1. items \in Seq(Items) /\ Len(items) \in Nat
  BY DEF Sound
<1>2. PICK h : /\ h[0] = items
               /\ \A k \in 1 .. Len(items) : h[k] = KeptWithout(h[k - 1], items[k])
               /\ h[Len(items)] = Kept(items)
  BY <1>1, KeptSteps
<1> DEFINE Rest(s, n) ==
             /\ Sound(s, surfaces)
             /\ \A i \in 1 .. Len(s) : s[i].pinned =>
                  \/ Contains(settings, s[i].app)
                  \/ \E m \in n + 1 .. Len(items) : items[m].app = s[i].app
           T == {n \in 0 .. Len(items) : Rest(h[n], n)}
<1>3. 0 \in T
  <2>1. Rest(items, 0)
    OBVIOUS
  <2> HIDE DEF Rest
  <2>2. Rest(h[0], 0)
    BY <1>2, <2>1, Zenon
  <2> QED
    BY <1>1, <2>2
<1>4. ASSUME NEW n \in 0 .. Len(items) - 1, n \in T PROVE n + 1 \in T
  <2>1. n + 1 \in 1 .. Len(items) /\ n + 1 \in 0 .. Len(items) /\ (n + 1) - 1 = n /\ n \in Nat
    BY <1>1
  <2>2. h[n + 1] = KeptWithout(h[n], items[n + 1])
    BY <1>2, <2>1
  <2>3. PICK s : s = h[n]
    OBVIOUS
  <2>4. Rest(s, n)
    <3> HIDE DEF Rest
    <3> QED  BY <1>4, <2>3
  <2>5. PICK r : r = h[n + 1]
    OBVIOUS
  <2>6. Rest(r, n + 1)
    <3>1. CASE Contains(settings, items[n + 1].app) /\ r = s
      <4>1. ASSUME NEW i \in 1 .. Len(s), s[i].pinned, ~Contains(settings, s[i].app)
            PROVE  \E m \in n + 1 + 1 .. Len(items) : items[m].app = s[i].app
        <5>1. PICK m \in n + 1 .. Len(items) : items[m].app = s[i].app
          BY <2>4, <4>1
        <5>2. m # n + 1
          BY <3>1, <4>1, <5>1
        <5>3. m \in n + 1 + 1 .. Len(items)
          BY <1>1, <2>1, <5>1, <5>2
        <5> QED
          BY <5>1, <5>3
      <4> QED
        BY <2>4, <3>1, <4>1
    <3>2. CASE r = Unpin(s, items[n + 1].app)
      <4>1. Sound(r, surfaces)
        BY <2>4, <3>2, UnpinSound
      <4>2. ASSUME NEW i \in 1 .. Len(r), r[i].pinned, ~Contains(settings, r[i].app)
            PROVE  \E m \in n + 1 + 1 .. Len(items) : items[m].app = r[i].app
        <5>1. /\ r[i].app # items[n + 1].app
              /\ \E k \in 1 .. Len(s) : s[k].pinned /\ s[k].app = r[i].app
          BY <2>4, <3>2, <4>2, PinsOfUnpin
        <5>2. PICK m \in n + 1 .. Len(items) : items[m].app = r[i].app
          BY <2>4, <4>2, <5>1
        <5>3. m # n + 1
          BY <5>1, <5>2
        <5>4. m \in n + 1 + 1 .. Len(items)
          BY <1>1, <2>1, <5>2, <5>3
        <5> QED
          BY <5>2, <5>4
      <4> QED
        BY <4>1, <4>2
    <3>3. (Contains(settings, items[n + 1].app) /\ r = s) \/ r = Unpin(s, items[n + 1].app)
      BY <2>2, <2>3, <2>5 DEF KeptWithout
    <3> QED
      BY <3>1, <3>2, <3>3
  <2> HIDE DEF Rest
  <2>7. Rest(h[n + 1], n + 1)
    BY <2>5, <2>6, Zenon
  <2> QED
    BY <2>1, <2>7
<1>5. \A n \in 0 .. Len(items) : n \in T
  <2> HIDE DEF T
  <2> QED  BY <1>1, <1>3, <1>4, UpTo
<1>6. Rest(t, Len(items))
  <2> HIDE DEF Rest
  <2>1. Rest(h[Len(items)], Len(items))
    BY <1>1, <1>5
  <2> QED
    BY <1>2, <2>1, Zenon
<1>7. ~\E m \in Len(items) + 1 .. Len(items) : items[m].app = t[j].app
  BY <1>1
<1> QED
  BY <1>6, <1>7

\* The items before acc.at follow one another as n entries do; those behind are still to come.
PinsPlaced(acc, n) ==
  /\ Settled(acc, n)
  /\ \A i, j \in 1 .. acc.at - 1 : i <= j =>
       \E k, l \in 1 .. n : k <= l /\ settings[k] = acc.items[i].app /\ settings[l] = acc.items[j].app
  /\ \A j \in acc.at .. Len(acc.items) : acc.items[j].pinned =>
       \E m \in n + 1 .. Len(settings) : settings[m] = acc.items[j].app

(* One entry: its item comes behind those of the entries before it.        *)
LEMMA PlacedNextPins ==
  ASSUME settings \in Seq(Apps), IsInjective(settings), installed \subseteq Apps,
         NEW n \in 0 .. Len(settings) - 1, NEW acc, PinsPlaced(acc, n)
  PROVE  PinsPlaced(PlacedNext(acc, settings[n + 1]), n + 1)
<1> DEFINE entry == settings[n + 1]
           items == acc.items
           at == acc.at
           i == Find(items, entry)
           next == PlacedNext(acc, entry)
<1>1. /\ n \in Nat /\ n + 1 \in 1 .. Len(settings) /\ entry \in Apps /\ Len(settings) \in Nat
      /\ DOMAIN settings = 1 .. Len(settings)
  OBVIOUS
<1>2. /\ Sound(items, surfaces) /\ items \in Seq(Items) /\ Len(items) \in Nat
      /\ at \in 1 .. n + 1 /\ at <= Len(items) + 1 /\ DOMAIN items = 1 .. Len(items)
      /\ \A j \in 1 .. at - 1 : \E m \in 1 .. n : items[j].app = settings[m]
  BY DEF PinsPlaced, Settled, Sound
<1>3. \A j, l \in 1 .. at - 1 : j <= l =>
        \E k, m \in 1 .. n : k <= m /\ settings[k] = items[j].app /\ settings[m] = items[l].app
  BY DEF PinsPlaced
<1>4. \A j \in at .. Len(items) : items[j].pinned =>
        \E m \in n + 1 .. Len(settings) : settings[m] = items[j].app
  BY DEF PinsPlaced
<1>5. \/ i \in 1 .. Len(items) /\ items[i].app = entry
      \/ i = 0 /\ \A j \in 1 .. Len(items) : items[j].app # entry
  BY <1>2, FindIs
<1>6. next = IF i = 0 /\ entry \notin installed THEN acc
             ELSE [at |-> at + 1,
                   items |-> IF i = 0
                               THEN InsertAt(items, at, [Item(entry) EXCEPT !.pinned = TRUE])
                               ELSE Moved(items, i, at)]
  BY DEF PlacedNext
<1>7. Settled(next, n + 1)
  BY PlacedNextSettled DEF PinsPlaced
<1>8. ASSUME NEW j \in at .. Len(items), items[j].pinned, items[j].app # entry
      PROVE  \E m \in n + 2 .. Len(settings) : settings[m] = items[j].app
  <2>1. PICK m \in n + 1 .. Len(settings) : settings[m] = items[j].app
    BY <1>4, <1>8
  <2>2. m # n + 1
    BY <1>8, <2>1
  <2>3. m \in n + 2 .. Len(settings)
    BY <1>1, <2>1, <2>2
  <2> QED
    BY <2>1, <2>3
<1>9. ASSUME NEW j \in 1 .. at - 1 PROVE items[j].app # entry
  <2>1. PICK m \in 1 .. n : items[j].app = settings[m]
    BY <1>2
  <2>2. m # n + 1 /\ m \in 1 .. Len(settings)
    BY <1>1, <2>1
  <2>3. \A k, l \in 1 .. Len(settings) : settings[k] = settings[l] => k = l
    BY <1>1 DEF IsInjective
  <2>4. settings[m] # settings[n + 1]
    BY <1>1, <2>2, <2>3
  <2> QED
    BY <2>1, <2>4
\* The entry's item is at its place, those before stay, and behind are no others.
<1>10. ASSUME NEW t, Len(t) \in Nat, at <= Len(t), t[at].app = entry,
              \A j \in 1 .. at - 1 : t[j] = items[j],
              \A j \in at + 1 .. Len(t) : \E l \in at .. Len(items) : t[j] = items[l] /\ items[l].app # entry
       PROVE  /\ \A j, l \in 1 .. at : j <= l =>
                   \E k, m \in 1 .. n + 1 : k <= m /\ settings[k] = t[j].app /\ settings[m] = t[l].app
              /\ \A j \in at + 1 .. Len(t) : t[j].pinned =>
                   \E m \in n + 2 .. Len(settings) : settings[m] = t[j].app
  <2>1. ASSUME NEW j \in 1 .. at, NEW l \in 1 .. at, j <= l
        PROVE  \E k, m \in 1 .. n + 1 : k <= m /\ settings[k] = t[j].app /\ settings[m] = t[l].app
    <3>1. CASE l \in 1 .. at - 1
      <4>1. j \in 1 .. at - 1
        BY <1>2, <2>1, <3>1
      <4>2. PICK k \in 1 .. n, m \in 1 .. n :
              k <= m /\ settings[k] = items[j].app /\ settings[m] = items[l].app
        BY <1>3, <2>1, <3>1, <4>1
      <4>3. k \in 1 .. n + 1 /\ m \in 1 .. n + 1
        BY <1>1
      <4> QED
        BY <1>10, <3>1, <4>1, <4>2, <4>3
    <3>2. CASE l = at /\ j \in 1 .. at - 1
      <4>1. PICK k \in 1 .. n : items[j].app = settings[k]
        BY <1>2, <3>2
      <4>2. k \in 1 .. n + 1 /\ n + 1 \in 1 .. n + 1 /\ k <= n + 1
        BY <1>1
      <4> QED
        BY <1>10, <3>2, <4>1, <4>2
    <3>3. CASE l = at /\ j = at
      <4>1. n + 1 \in 1 .. n + 1 /\ n + 1 <= n + 1
        BY <1>1
      <4> QED
        BY <1>10, <3>3, <4>1
    <3> QED
      BY <1>2, <2>1, <3>1, <3>2, <3>3
  <2>2. ASSUME NEW j \in at + 1 .. Len(t), t[j].pinned
        PROVE  \E m \in n + 2 .. Len(settings) : settings[m] = t[j].app
    <3>1. PICK l \in at .. Len(items) : t[j] = items[l] /\ items[l].app # entry
      BY <1>10
    <3> QED
      BY <1>8, <2>2, <3>1
  <2> QED
    BY <2>1, <2>2
<1> HIDE DEF entry, items, at, i, next
<1>11. (n + 1) + 1 = n + 2 /\ (at + 1) - 1 = at
  BY <1>1, <1>2
<1>12. ASSUME NEW t, next = [at |-> at + 1, items |-> t],
              \A j, l \in 1 .. at : j <= l =>
                \E k, m \in 1 .. n + 1 : k <= m /\ settings[k] = t[j].app /\ settings[m] = t[l].app,
              \A j \in at + 1 .. Len(t) : t[j].pinned =>
                \E m \in n + 2 .. Len(settings) : settings[m] = t[j].app
       PROVE  PinsPlaced(next, n + 1)
  <2>1. next.at = at + 1 /\ next.items = t /\ next.at - 1 = at
    BY <1>11, <1>12
  <2>2. \A j, l \in 1 .. next.at - 1 : j <= l =>
          \E k, m \in 1 .. n + 1 : k <= m /\ settings[k] = next.items[j].app /\ settings[m] = next.items[l].app
    BY <1>12, <2>1
  <2>3. \A j \in next.at .. Len(next.items) : next.items[j].pinned =>
          \E m \in (n + 1) + 1 .. Len(settings) : settings[m] = next.items[j].app
    BY <1>11, <1>12, <2>1
  <2> QED
    BY <1>7, <2>2, <2>3 DEF PinsPlaced
<1>13. CASE i = 0 /\ entry \notin installed
  <2>1. next = acc /\ next.items = items /\ next.at = at
    BY <1>6, <1>13 DEF items, at
  <2>2. \A j, l \in 1 .. at - 1 : j <= l =>
          \E k, m \in 1 .. n + 1 : k <= m /\ settings[k] = items[j].app /\ settings[m] = items[l].app
    <3> SUFFICES ASSUME NEW j \in 1 .. at - 1, NEW l \in 1 .. at - 1, j <= l
                 PROVE  \E k, m \in 1 .. n + 1 :
                          k <= m /\ settings[k] = items[j].app /\ settings[m] = items[l].app
      OBVIOUS
    <3>1. PICK k \in 1 .. n, m \in 1 .. n :
            k <= m /\ settings[k] = items[j].app /\ settings[m] = items[l].app
      BY <1>3
    <3>2. k \in 1 .. n + 1 /\ m \in 1 .. n + 1
      BY <1>1
    <3> QED
      BY <3>1, <3>2
  <2>3. \A j \in at .. Len(items) : items[j].pinned =>
          \E m \in n + 2 .. Len(settings) : settings[m] = items[j].app
    <3>1. \A j \in at .. Len(items) : items[j].app # entry
      BY <1>2, <1>5, <1>13
    <3> QED
      BY <1>8, <3>1
  <2>4. PinsPlaced(next, n + 1)
    BY <1>7, <1>11, <2>1, <2>2, <2>3 DEF PinsPlaced
  <2> QED
    BY <2>4 DEF next, entry
<1>14. CASE i = 0 /\ entry \in installed
  <2> DEFINE item == [Item(entry) EXCEPT !.pinned = TRUE]
  <2>1. item \in Items /\ item.app = entry
    BY <1>1, PinnedItem
  <2> HIDE DEF item
  <2> DEFINE t == InsertAt(items, at, item)
  <2>2. at \in 1 .. Len(items) + 1
    BY <1>1, <1>2
  <2>3. /\ t \in Seq(Items) /\ Len(t) = Len(items) + 1
        /\ \A j \in 1 .. Len(items) + 1 :
             t[j] = IF j < at THEN items[j] ELSE IF j = at THEN item ELSE items[j - 1]
    <3>1. t \in Seq(Items) /\ PutIn(t, items, at, item)
      BY <1>2, <2>1, <2>2, InsertIs
    <3> QED
      BY <3>1 DEF PutIn
  <2>4. next = [at |-> at + 1, items |-> t]
    BY <1>6, <1>14 DEF t, item
  <2> HIDE DEF t
  <2>5. /\ Len(t) \in Nat /\ at <= Len(t) /\ t[at].app = entry
        /\ \A j \in 1 .. at - 1 : t[j] = items[j]
    BY <1>2, <2>1, <2>2, <2>3
  <2>6. ASSUME NEW j \in at + 1 .. Len(t)
        PROVE  \E l \in at .. Len(items) : t[j] = items[l] /\ items[l].app # entry
    <3>1. j - 1 \in at .. Len(items) /\ t[j] = items[j - 1] /\ j - 1 \in 1 .. Len(items)
      BY <1>2, <2>2, <2>3
    <3> QED
      BY <1>5, <1>14, <3>1
  <2>7. PinsPlaced(next, n + 1)
    BY <1>10, <1>12, <2>4, <2>5, <2>6
  <2> QED
    BY <2>7 DEF next, entry
<1>15. CASE i # 0
  <2> DEFINE t == Moved(items, i, at)
  <2>1. i \in 1 .. Len(items) /\ items[i].app = entry
    BY <1>5, <1>15
  <2>2. ~(i \in 1 .. at - 1)
    BY <1>9, <2>1
  <2>3. at <= i /\ at \in 1 .. Len(items)
    BY <1>1, <1>2, <2>1, <2>2
  <2>4. /\ t \in Seq(Items) /\ Len(t) = Len(items)
        /\ \A j \in 1 .. Len(items) :
             WasAt(j, i, at) \in 1 .. Len(items) /\ t[j] = items[WasAt(j, i, at)]
    <3>1. items \in Seq(Items)
      BY <1>2
    <3>2. t \in Seq(Items) /\ MoveOf(t, items, i, at)
      BY <2>1, <2>3, <3>1, MovedIs
    <3> QED
      BY <3>2 DEF MoveOf
  <2>5. next = [at |-> at + 1, items |-> t]
    BY <1>6, <1>15 DEF t
  <2> HIDE DEF t
  <2>6. WasAt(at, i, at) = i /\ \A j \in 1 .. at - 1 : WasAt(j, i, at) = j
    BY <1>2, <2>1, <2>3 DEF WasAt
  <2>7. /\ Len(t) \in Nat /\ at <= Len(t) /\ t[at].app = entry
        /\ \A j \in 1 .. at - 1 : t[j] = items[j]
    BY <1>2, <2>1, <2>3, <2>4, <2>6
  <2>8. ASSUME NEW j \in at + 1 .. Len(t)
        PROVE  \E l \in at .. Len(items) : t[j] = items[l] /\ items[l].app # entry
    <3> DEFINE l == WasAt(j, i, at)
    <3>1. j \in 1 .. Len(items) /\ j > at
      BY <1>2, <2>3, <2>4
    <3>2. l \in at .. Len(items) /\ l # i /\ l \in 1 .. Len(items)
      BY <1>2, <2>1, <2>3, <2>4, <3>1 DEF WasAt
    <3>3. items[l].app # entry
      BY <1>2, <2>1, <3>2 DEF Sound, Once
    <3> QED
      BY <2>4, <3>1, <3>2, <3>3
  <2>9. PinsPlaced(next, n + 1)
    BY <1>10, <1>12, <2>5, <2>7, <2>8
  <2> QED
    BY <2>9 DEF next, entry
<1> QED
  BY <1>13, <1>14, <1>15

(* Pinned items of the settings are brought to their order.                *)
LEMMA PlacedInOrder ==
  ASSUME settings \in Seq(Apps), IsInjective(settings), installed \subseteq Apps,
         NEW items, Sound(items, surfaces),
         \A j \in 1 .. Len(items) : items[j].pinned => Contains(settings, items[j].app)
  PROVE  PinsAsIn(Placed(items), settings)
<1>1. Sound(items, surfaces)
  OBVIOUS
<1>2. \A j \in 1 .. Len(items) : items[j].pinned => Contains(settings, items[j].app)
  OBVIOUS
<1>4. Len(settings) \in Nat /\ items \in Seq(Items) /\ Len(items) \in Nat /\ DOMAIN settings = 1 .. Len(settings)
  BY <1>1 DEF Sound
<1>5. PICK h : /\ h[0] = [at |-> 1, items |-> items]
               /\ \A k \in 1 .. Len(settings) : h[k] = PlacedNext(h[k - 1], settings[k])
               /\ h[Len(settings)].items = Placed(items)
  BY PlacedSteps
<1> DEFINE T == {n \in 0 .. Len(settings) : PinsPlaced(h[n], n)}
<1>6. 0 \in T
  <2>1. Settled(h[0], 0)
    BY <1>1, <1>4, <1>5 DEF Settled
  <2>2. \A j \in 1 .. Len(items) : items[j].pinned =>
          \E m \in 1 .. Len(settings) : settings[m] = items[j].app
    BY <1>2 DEF Contains
  <2>3. PinsPlaced(h[0], 0)
    BY <1>4, <1>5, <2>1, <2>2 DEF PinsPlaced
  <2> QED
    BY <1>4, <2>3
<1>7. ASSUME NEW m \in 0 .. Len(settings) - 1, m \in T PROVE m + 1 \in T
  <2>1. m + 1 \in 1 .. Len(settings) /\ m + 1 \in 0 .. Len(settings) /\ (m + 1) - 1 = m
    BY <1>4
  <2>2. h[m + 1] = PlacedNext(h[m], settings[m + 1])
    BY <1>5, <2>1
  <2>3. PinsPlaced(h[m], m)
    BY <1>7
  <2>4. PinsPlaced(h[m + 1], m + 1)
    BY <2>2, <2>3, PlacedNextPins
  <2> QED
    BY <2>1, <2>4
<1>8. \A m \in 0 .. Len(settings) : m \in T
  <2> HIDE DEF T
  <2> QED  BY <1>4, <1>6, <1>7, UpTo
<1>9. PinsPlaced(h[Len(settings)], Len(settings))
  BY <1>4, <1>8
<1>10. PICK acc : acc = h[Len(settings)]
  OBVIOUS
<1>11. PICK t : t = acc.items
  OBVIOUS
<1>12. /\ t \in Seq(Items) /\ Len(t) \in Nat /\ DOMAIN t = 1 .. Len(t)
       /\ acc.at \in Nat /\ acc.at <= Len(t) + 1
       /\ \A i, j \in 1 .. acc.at - 1 : i <= j =>
            \E k, l \in 1 .. Len(settings) : k <= l /\ settings[k] = t[i].app /\ settings[l] = t[j].app
       /\ \A j \in acc.at .. Len(t) : t[j].pinned =>
            \E m \in Len(settings) + 1 .. Len(settings) : settings[m] = t[j].app
  BY <1>4, <1>9, <1>10, <1>11 DEF PinsPlaced, Settled, Sound
<1>13. \A j \in 1 .. Len(t) : t[j].pinned => j \in 1 .. acc.at - 1
  <2> SUFFICES ASSUME NEW j \in 1 .. Len(t), t[j].pinned PROVE j \in 1 .. acc.at - 1
    OBVIOUS
  <2>1. \A m : m \notin Len(settings) + 1 .. Len(settings)
    BY <1>4
  <2>2. j \notin acc.at .. Len(t)
    BY <1>12, <2>1
  <2> QED
    BY <1>12, <2>2
<1>14. PinsAsIn(t, settings)
  <2> SUFFICES ASSUME NEW i \in DOMAIN t, NEW j \in DOMAIN t, i <= j /\ t[i].pinned /\ t[j].pinned
               PROVE  \E k, l \in DOMAIN settings :
                        k <= l /\ settings[k] = t[i].app /\ settings[l] = t[j].app
    BY Zenon DEF PinsAsIn
  <2>1. i \in 1 .. Len(t) /\ j \in 1 .. Len(t)
    BY <1>12
  <2>2. i \in 1 .. acc.at - 1 /\ j \in 1 .. acc.at - 1
    BY <1>13, <2>1
  <2>3. \E k, l \in 1 .. Len(settings) : k <= l /\ settings[k] = t[i].app /\ settings[l] = t[j].app
    BY <1>12, <2>2
  <2> QED
    BY <1>4, <2>3
<1> QED
  BY <1>5, <1>10, <1>11, <1>14

(* refresh() brings the pinned items to the order of the settings.         *)
LEMMA RefreshInOrder ==
  ASSUME settings \in Seq(Apps), IsInjective(settings), installed \subseteq Apps,
         surfaces \in [Apps -> Int], NEW given, Sound(given, surfaces)
  PROVE  PinsAsIn(Placed(Kept(given)), settings)
<1>1. Sound(Kept(given), surfaces)
  BY KeptSound
<1>2. \A j \in 1 .. Len(Kept(given)) : Kept(given)[j].pinned => Contains(settings, Kept(given)[j].app)
  BY KeptPins
<1> QED
  BY <1>1, <1>2, PlacedInOrder

(* Applications change the list, but none of its pins.                     *)
LEMMA ApplicationsKeepPins ==
  ASSUME LauncherInv, NEW app \in Apps, NEW n \in 0 .. 1, NEW visible \in BOOLEAN,
         \/ ApplicationAdded(app, n) \/ SurfaceCountChanged(app, n)
         \/ ApplicationRemoved(app) \/ CountVisibleChanged(app, visible)
  PROVE  list' \in Seq(Items) /\ PinsFrom(list', list)
<1>1. list \in Seq(Items) /\ Len(list) \in Nat /\ DOMAIN list = 1 .. Len(list)
  BY DEF LauncherInv, Sound
<1>2. PICK i : i = Find(list, app)
  OBVIOUS
<1>3. i \in 1 .. Len(list) \/ i = 0
  BY <1>1, <1>2, FindIs
<1>4. \A j \in 1 .. Len(list) : list[j] \in Items
  BY <1>1
<1>5. PinsFrom(list, list)
  BY DEF PinsFrom
<1>6. CASE ApplicationAdded(app, n)
  <2>1. PICK new : new = [Item(app) EXCEPT !.recent = TRUE, !.running = TRUE]
    OBVIOUS
  <2>2. new \in Items /\ ~new.pinned
    BY <2>1 DEF Item, Items
  <2>3. \/ i # 0 /\ list' = [list EXCEPT ![i].recent = TRUE, ![i].running = TRUE]
        \/ list' = Append(list, new)
        \/ list' = list
    BY <1>2, <1>6, <2>1 DEF ApplicationAdded, Shows
  <2>4. CASE i # 0 /\ list' = [list EXCEPT ![i].recent = TRUE, ![i].running = TRUE]
    <3> DEFINE item == [list[i] EXCEPT !.recent = TRUE, !.running = TRUE]
    <3>1. i \in 1 .. Len(list) /\ list[i] \in Items
      BY <1>3, <1>4, <2>4
    <3>2. item \in Items /\ item.app = list[i].app /\ item.pinned = list[i].pinned
      BY <3>1 DEF Items
    <3>3. list' = [list EXCEPT ![i] = item]
      BY <1>1, <2>4, <3>1
    <3> HIDE DEF item
    <3> QED
      BY <1>1, <3>1, <3>2, <3>3, PinsOfEdited
  <2> QED
    BY <1>1, <1>5, <2>2, <2>3, <2>4, PinsOfAppended
<1>7. CASE SurfaceCountChanged(app, n)
  <2>1. PICK new : new = [Item(app) EXCEPT !.recent = TRUE, !.running = TRUE]
    OBVIOUS
  <2>2. new \in Items /\ ~new.pinned /\ new.app = app
    BY <2>1 DEF Item, Items
  <2>3. PICK items : items = IF i = 0 THEN Append(list, new) ELSE list
    OBVIOUS
  <2>4. items \in Seq(Items) /\ PinsFrom(items, list)
    BY <1>1, <1>5, <2>2, <2>3, PinsOfAppended
  <2>5. PICK j : j = Find(items, app)
    OBVIOUS
  <2>6. list' = RemoveAt(items, j) \/ list' = items
    <3>1. Shows(RemoveAt(items, j)) \/ list' = items
      BY <1>2, <1>7, <2>1, <2>3, <2>5 DEF SurfaceCountChanged
    <3> QED
      BY <3>1 DEF Shows
  <2>7. j \in 1 .. Len(items)
    <3>1. \E k \in 1 .. Len(items) : items[k].app = app
      <4>1. CASE i = 0
        <5>1. Len(list) + 1 \in 1 .. Len(items) /\ items[Len(list) + 1] = new
          BY <1>1, <2>2, <2>3, <4>1
        <5> QED
          BY <2>2, <5>1
      <4>2. CASE i # 0
        BY <1>1, <1>2, <2>3, <4>2, FindIs
      <4> QED
        BY <4>1, <4>2
    <3> QED
      BY <2>4, <2>5, <3>1, FindIs
  <2>8. CASE list' = RemoveAt(items, j)
    <3>1. PICK r : r = RemoveAt(items, j)
      OBVIOUS
    <3>2. r \in Seq(Items) /\ PinsFrom(r, items)
      BY <2>4, <2>7, <3>1, PinsOfRemoved
    <3>3. PinsFrom(r, list)
      <4> SUFFICES ASSUME NEW k \in 1 .. Len(r), NEW l \in 1 .. Len(r), k <= l, r[k].pinned, r[l].pinned
                   PROVE  \E c, d \in 1 .. Len(list) :
                            /\ c <= d /\ list[c].pinned /\ list[d].pinned
                            /\ list[c].app = r[k].app /\ list[d].app = r[l].app
        BY DEF PinsFrom
      <4>1. PICK a \in 1 .. Len(items), b \in 1 .. Len(items) :
              /\ a <= b /\ items[a].pinned /\ items[b].pinned
              /\ items[a].app = r[k].app /\ items[b].app = r[l].app
        BY <3>2 DEF PinsFrom
      <4>2. \E c, d \in 1 .. Len(list) :
              /\ c <= d /\ list[c].pinned /\ list[d].pinned
              /\ list[c].app = items[a].app /\ list[d].app = items[b].app
        BY <2>4, <4>1 DEF PinsFrom
      <4> QED
        BY <4>1, <4>2
    <3> QED
      BY <2>8, <3>1, <3>2, <3>3
  <2> QED
    BY <2>4, <2>6, <2>8
<1>8. CASE ApplicationRemoved(app)
  <2>1. \/ list' = list
        \/ i # 0 /\ list' = [list EXCEPT ![i].running = FALSE]
        \/ i # 0 /\ list' = RemoveAt(list, i)
    BY <1>2, <1>8 DEF ApplicationRemoved, ItemStops, Shows
  <2>2. CASE i # 0 /\ list' = [list EXCEPT ![i].running = FALSE]
    <3> DEFINE item == [list[i] EXCEPT !.running = FALSE]
    <3>1. i \in 1 .. Len(list) /\ list[i] \in Items
      BY <1>3, <1>4, <2>2
    <3>2. item \in Items /\ item.app = list[i].app /\ item.pinned = list[i].pinned
      BY <3>1 DEF Items
    <3>3. list' = [list EXCEPT ![i] = item]
      BY <1>1, <2>2, <3>1
    <3> HIDE DEF item
    <3> QED
      BY <1>1, <3>1, <3>2, <3>3, PinsOfEdited
  <2> QED
    BY <1>1, <1>3, <1>5, <2>1, <2>2, PinsOfRemoved
<1>9. CASE CountVisibleChanged(app, visible)
  <2>1. PICK new : new = [Item(app) EXCEPT !.countVisible = TRUE]
    OBVIOUS
  <2>2. new \in Items /\ ~new.pinned
    BY <2>1 DEF Item, Items
  <2>3. \/ i # 0 /\ list' = RemoveAt(list, i)
        \/ i # 0 /\ list' = [list EXCEPT ![i].countVisible = visible]
        \/ list' = Append(list, new)
        \/ list' = list
    BY <1>2, <1>9, <2>1 DEF CountVisibleChanged, Shows
  <2>4. CASE i # 0 /\ list' = [list EXCEPT ![i].countVisible = visible]
    <3> DEFINE item == [list[i] EXCEPT !.countVisible = visible]
    <3>1. i \in 1 .. Len(list) /\ list[i] \in Items
      BY <1>3, <1>4, <2>4
    <3>2. item \in Items /\ item.app = list[i].app /\ item.pinned = list[i].pinned
      BY <3>1 DEF Items
    <3>3. list' = [list EXCEPT ![i] = item]
      BY <1>1, <2>4, <3>1
    <3> HIDE DEF item
    <3> QED
      BY <1>1, <3>1, <3>2, <3>3, PinsOfEdited
  <2> QED
    BY <1>1, <1>3, <1>5, <2>2, <2>3, <2>4, PinsOfAppended, PinsOfRemoved
<1> QED
  BY <1>6, <1>7, <1>8, <1>9

(* What is stored is in the order of the list.                             *)
LEMMA StoresInOrder ==
  ASSUME LauncherInv', NEW items, Stores(items)
  PROVE  PinsKeepTheirOrder'
<1>1. list' = items /\ followed' = PinnedOf(items)
  BY DEF Stores, Shows
<1>2. items \in Seq(Items)
  BY <1>1 DEF LauncherInv, Sound
<1>3. PinsAsIn(items, PinnedOf(items))
  BY <1>2, StoredInOrder
<1> QED
  BY <1>1, <1>3 DEF PinsKeepTheirOrder

(* The pins stay in the order that was followed in every step: either      *)
(* nothing that bears on it changes, or the list is stored, or the list is *)
(* placed by the settings.                                                 *)
LEMMA PinsStep ==
  LauncherInv /\ PinsKeepTheirOrder /\ [LauncherNext]_launcherVars => PinsKeepTheirOrder'
<1> SUFFICES ASSUME LauncherInv, PinsKeepTheirOrder, [LauncherNext]_launcherVars, LauncherInv'
             PROVE  PinsKeepTheirOrder'
  BY LauncherStep
<1>1. CASE UNCHANGED launcherVars
  BY <1>1 DEF launcherVars, PinsKeepTheirOrder
<1>2. ASSUME NEW items, Stores(items) PROVE PinsKeepTheirOrder'
  BY <1>2, StoresInOrder
<1>3. CASE \E from, to \in DOMAIN list : Move(from, to)
  <2>1. PICK from \in DOMAIN list, to \in DOMAIN list : Move(from, to)
    BY <1>3
  <2>2. \E items : Stores(items)
    BY <2>1, Zenon DEF Move
  <2> QED
    BY <1>2, <2>2
<1>4. CASE \E app \in Apps : \E index \in 0 .. Len(list) + 1 :
             PinListed(app, index) \/ PinElsewhere(app, index) \/ PinNew(app, index)
  <2>1. PICK app \in Apps, index \in 0 .. Len(list) + 1 :
          PinListed(app, index) \/ PinElsewhere(app, index) \/ PinNew(app, index)
    BY <1>4
  <2>2. \E items : Stores(items)
    <3>1. CASE PinListed(app, index)
      BY <3>1, Zenon DEF PinListed
    <3>2. CASE PinElsewhere(app, index)
      BY <3>2, Zenon DEF PinElsewhere, Move
    <3>3. CASE PinNew(app, index)
      BY <3>3, Zenon DEF PinNew
    <3> QED
      BY <2>1, <3>1, <3>2, <3>3
  <2> QED
    BY <1>2, <2>2
<1>5. CASE \E app \in Apps : RequestRemove(app)
  <2>1. PICK app \in Apps : RequestRemove(app)
    BY <1>5
  <2>2. \E items : Stores(items)
    BY <2>1 DEF RequestRemove
  <2> QED
    BY <1>2, <2>2
<1>6. ASSUME NEW app \in Apps, NEW n \in 0 .. 1, NEW visible \in BOOLEAN,
             \/ ApplicationAdded(app, n) \/ SurfaceCountChanged(app, n)
             \/ ApplicationRemoved(app) \/ CountVisibleChanged(app, visible)
      PROVE  PinsKeepTheirOrder'
  <2>1. list' \in Seq(Items) /\ PinsFrom(list', list) /\ list \in Seq(Items)
    BY <1>6, ApplicationsKeepPins DEF LauncherInv, Sound
  <2>2. UNCHANGED followed
    BY <1>6 DEF ApplicationAdded, SurfaceCountChanged, ApplicationRemoved, CountVisibleChanged
  <2>3. PICK t : t = list'
    OBVIOUS
  <2>4. PinsAsIn(t, followed)
    BY <2>1, <2>3, PinsStay DEF PinsKeepTheirOrder
  <2> QED
    BY <2>2, <2>3, <2>4 DEF PinsKeepTheirOrder
<1>7. CASE \E app \in Apps : InstalledChanges(app)
  BY <1>7 DEF InstalledChanges, PinsKeepTheirOrder
<1>8. ASSUME Refreshes PROVE PinsKeepTheirOrder'
  <2>1. PinsAsIn(Placed(Kept(list)), settings)
    BY RefreshInOrder DEF LauncherInv
  <2>2. list' = Placed(Kept(list)) /\ followed' = settings
    BY <1>8 DEF Refreshes, Shows
  <2> QED
    BY <2>1, <2>2 DEF PinsKeepTheirOrder
<1>9. CASE SettingsChanged \/ RefreshCalled
  <2>1. Refreshes \/ UNCHANGED <<list, followed>>
    BY <1>9 DEF SettingsChanged, RefreshCalled
  <2> QED
    BY <1>8, <2>1 DEF PinsKeepTheirOrder
<1>10. CASE \E stored \in SeqOf(Apps, MaxStored) : OthersWrite(stored)
  BY <1>10 DEF OthersWrite, PinsKeepTheirOrder
<1>11. CASE \E app \in Apps : \E n \in 0 .. 1 : ApplicationAdded(app, n) \/ SurfaceCountChanged(app, n)
  <2>1. TRUE \in BOOLEAN
    OBVIOUS
  <2> QED
    BY <1>6, <1>11, <2>1
<1>12. CASE \E app \in Apps : ApplicationRemoved(app)
  <2>1. TRUE \in BOOLEAN /\ 0 \in 0 .. 1
    OBVIOUS
  <2> QED
    BY <1>6, <1>12, <2>1
<1>13. CASE \E app \in Apps : \E visible \in BOOLEAN : CountVisibleChanged(app, visible)
  <2>1. 0 \in 0 .. 1
    OBVIOUS
  <2> QED
    BY <1>6, <1>13, <2>1
<1> QED
  BY <1>1, <1>3, <1>4, <1>5, <1>7, <1>9, <1>10, <1>11, <1>12, <1>13, Zenon DEF LauncherNext

(***************************************************************************)
(* The pinned items are stored and stand in the order of the settings, as  *)
(* these were when the list was last read from them or stored to them, for *)
(* any applications, any settings that others write and any order in which *)
(* changes are told of and Refresh is called (launchermodel.cpp:305, 410,  *)
(* 454).  Each entry is put behind those in their places, and what is left *)
(* behind the last one is not pinned.                                      *)
(***************************************************************************)
THEOREM PinsInOrder == LauncherSpec => []PinsKeepTheirOrder
<1>1. LauncherInit => PinsKeepTheirOrder
  <2> SUFFICES ASSUME LauncherInit PROVE PinsKeepTheirOrder
    OBVIOUS
  <2>1. list = Placed(<<>>) /\ followed = settings /\ installed \subseteq Apps
    BY DEF LauncherInit
  <2>2. settings \in Seq(Apps) /\ IsInjective(settings)
    BY DEF LauncherInit, SeqOf
  <2>3. \A j \in 1 .. Len(<<>>) : FALSE
    OBVIOUS
  <2>4. PinsAsIn(Placed(<<>>), settings)
    BY <2>1, <2>2, <2>3, NothingSound, PlacedInOrder
  <2> QED
    BY <2>1, <2>4 DEF PinsKeepTheirOrder
<1> QED
  BY <1>1, LauncherStarts, LauncherStep, PinsStep, PTL DEF LauncherSpec

-----------------------------------------------------------------------------
(* GreeterLauncher: what refreshWithItems() makes of a list.               *)

ShownItems == [app : ShownApps, running : BOOLEAN]

(* A row of the greeter keeps the application of its entry.                *)
LEMMA ItemOfIs ==
  ASSUME NEW entry \in Entries
  PROVE  ItemOf(entry) \in ShownItems /\ ItemOf(entry).app = entry.app
BY DEF ItemOf, ShownItems, Entries

(* The entries that are shown have an application once, as those given.    *)
LEMMA ShownIs ==
  ASSUME NEW given \in Seq(Entries), Once(given)
  PROVE  Shown(given) \in Seq(Entries) /\ Once(Shown(given))
<1>1. Len(given) \in Nat /\ DOMAIN given = 1 .. Len(given)
  OBVIOUS
<1>2. PICK h : /\ h[0] = <<>>
               /\ \A k \in 1 .. Len(given) : h[k] = ShownWith(h[k - 1], given[k])
               /\ h[Len(given)] = Shown(given)
  BY ShownSteps
<1> DEFINE Of(s, n) == /\ s \in Seq(Entries) /\ Once(s)
                       /\ \A j \in 1 .. Len(s) : \E m \in 1 .. n : s[j] = given[m]
           T == {n \in 0 .. Len(given) : Of(h[n], n)}
<1>3. 0 \in T
  <2>1. <<>> \in Seq(Entries) /\ Len(<<>>) = 0 /\ DOMAIN <<>> = {}
    OBVIOUS
  <2>2. Once(<<>>)
    BY <2>1 DEF Once
  <2>3. Of(<<>>, 0)
    BY <2>1, <2>2
  <2> HIDE DEF Of
  <2>4. Of(h[0], 0)
    BY <1>2, <2>3, Zenon
  <2> QED
    BY <1>1, <2>4
<1>4. ASSUME NEW n \in 0 .. Len(given) - 1, n \in T PROVE n + 1 \in T
  <2>1. n + 1 \in 1 .. Len(given) /\ n + 1 \in 0 .. Len(given) /\ (n + 1) - 1 = n /\ n \in Nat
    BY <1>1
  <2>2. h[n + 1] = ShownWith(h[n], given[n + 1])
    BY <1>2, <2>1
  <2>3. PICK s : s = h[n]
    OBVIOUS
  <2>4. Of(s, n)
    BY <1>4, <2>3
  <2>5. given[n + 1] \in Entries
    BY <2>1
  <2>6. CASE h[n + 1] = s
    <3>1. Of(s, n + 1)
      BY <2>1, <2>4
    <3> QED
      BY <2>1, <2>6, <3>1
  <2>7. CASE h[n + 1] = Append(s, given[n + 1])
    <3> DEFINE t == Append(s, given[n + 1])
    <3>1. /\ t \in Seq(Entries) /\ Len(t) = Len(s) + 1 /\ Len(s) \in Nat
          /\ t[Len(s) + 1] = given[n + 1] /\ \A j \in 1 .. Len(s) : t[j] = s[j]
      BY <2>4, <2>5
    <3>2. ASSUME NEW j \in 1 .. Len(s) PROVE s[j].app # given[n + 1].app
      <4>1. PICK m \in 1 .. n : s[j] = given[m]
        BY <2>4
      <4>2. m \in DOMAIN given /\ n + 1 \in DOMAIN given /\ m # n + 1
        BY <1>1, <2>1
      <4> QED
        BY <4>1, <4>2 DEF Once
    <3>3. Once(t)
      BY <2>4, <2>5, <3>2, AppendOnce
    <3> HIDE DEF t
    <3>4. ASSUME NEW j \in 1 .. Len(t) PROVE \E m \in 1 .. n + 1 : t[j] = given[m]
      <4>1. CASE j = Len(s) + 1
        BY <2>1, <3>1, <4>1
      <4>2. CASE j \in 1 .. Len(s)
        <5>1. PICK m \in 1 .. n : s[j] = given[m]
          BY <2>4, <4>2
        <5> QED
          BY <2>1, <3>1, <4>2, <5>1
      <4> QED
        BY <3>1, <4>1, <4>2
    <3>5. h[n + 1] = t
      BY <2>7 DEF t
    <3> QED
      BY <2>1, <3>1, <3>3, <3>4, <3>5
  <2> QED
    BY <2>2, <2>3, <2>6, <2>7 DEF ShownWith
<1>5. \A n \in 0 .. Len(given) : n \in T
  <2> HIDE DEF T
  <2> QED  BY <1>1, <1>3, <1>4, UpTo
<1>6. Len(given) \in T
  <2> HIDE DEF T
  <2> QED  BY <1>1, <1>5
<1> QED
  BY <1>2, <1>6

\* The items are of entries that are shown, and say what those say.
AreOf(items, shown) ==
  /\ items \in Seq(ShownItems) /\ Once(items)
  /\ \A j \in 1 .. Len(items) : \E k \in 1 .. Len(shown) : items[j] = ItemOf(shown[k])

(* The first loop leaves items of entries that are shown, up to date.      *)
LEMMA UpdatedItemsAre ==
  ASSUME NEW shown \in Seq(Entries), Once(shown), NEW items \in Seq(ShownItems), Once(items)
  PROVE  AreOf(UpdatedItems(shown, items), shown)
<1>1. Len(items) \in Nat /\ DOMAIN items = 1 .. Len(items)
  OBVIOUS
<1>2. PICK h : /\ h[0] = <<>>
               /\ \A k \in 1 .. Len(items) : h[k] = Updated(shown, h[k - 1], items[k])
               /\ h[Len(items)] = UpdatedItems(shown, items)
  BY UpdatedSteps
<1> DEFINE Of(s, n) == /\ AreOf(s, shown)
                       /\ \A j \in 1 .. Len(s) : \E m \in 1 .. n : s[j].app = items[m].app
           T == {n \in 0 .. Len(items) : Of(h[n], n)}
<1>3. 0 \in T
  <2>1. <<>> \in Seq(ShownItems) /\ Len(<<>>) = 0 /\ DOMAIN <<>> = {}
    OBVIOUS
  <2>2. Once(<<>>)
    BY <2>1 DEF Once
  <2>3. Of(<<>>, 0)
    BY <2>1, <2>2 DEF AreOf
  <2> HIDE DEF Of
  <2>4. Of(h[0], 0)
    BY <1>2, <2>3, Zenon
  <2> QED
    BY <1>1, <2>4
<1>4. ASSUME NEW n \in 0 .. Len(items) - 1, n \in T PROVE n + 1 \in T
  <2>1. n + 1 \in 1 .. Len(items) /\ n + 1 \in 0 .. Len(items) /\ (n + 1) - 1 = n /\ n \in Nat
    BY <1>1
  <2>2. h[n + 1] = Updated(shown, h[n], items[n + 1])
    BY <1>2, <2>1
  <2>3. PICK s : s = h[n]
    OBVIOUS
  <2>4. Of(s, n)
    BY <1>4, <2>3
  <2>5. PICK i : i = FindShown(shown, items[n + 1].app)
    OBVIOUS
  <2>6. CASE i = 0
    <3>1. h[n + 1] = s
      BY <2>2, <2>3, <2>5, <2>6 DEF Updated
    <3>2. Of(s, n + 1)
      BY <2>1, <2>4
    <3> QED
      BY <2>1, <3>1, <3>2
  <2>7. CASE i # 0
    <3> DEFINE item == ItemOf(shown[i])
               t == Append(s, item)
    <3>1. i \in 1 .. Len(shown) /\ shown[i].app = items[n + 1].app
      BY <2>5, <2>7, FindShownIs
    <3>2. item \in ShownItems /\ item.app = items[n + 1].app
      BY <3>1, ItemOfIs
    <3>3. h[n + 1] = t
      BY <2>2, <2>3, <2>5, <2>7 DEF Updated
    <3>4. item = ItemOf(shown[i])
      OBVIOUS
    <3> HIDE DEF item
    <3>5. /\ t \in Seq(ShownItems) /\ Len(t) = Len(s) + 1 /\ Len(s) \in Nat
          /\ t[Len(s) + 1] = item /\ \A j \in 1 .. Len(s) : t[j] = s[j]
      BY <2>4, <3>2 DEF AreOf
    <3>6. ASSUME NEW j \in 1 .. Len(s) PROVE s[j].app # item.app
      <4>1. PICK m \in 1 .. n : s[j].app = items[m].app
        BY <2>4
      <4>2. m \in DOMAIN items /\ n + 1 \in DOMAIN items /\ m # n + 1
        BY <1>1, <2>1
      <4> QED
        BY <3>2, <4>1, <4>2 DEF Once
    <3>7. Once(t)
      <4>1. s \in Seq(ShownItems) /\ Once(s)
        BY <2>4 DEF AreOf
      <4> QED
        BY <3>2, <3>6, <4>1, AppendOnce
    <3> HIDE DEF t
    <3>8. ASSUME NEW j \in 1 .. Len(t)
          PROVE  /\ \E k \in 1 .. Len(shown) : t[j] = ItemOf(shown[k])
                 /\ \E m \in 1 .. n + 1 : t[j].app = items[m].app
      <4>1. CASE j = Len(s) + 1
        BY <2>1, <3>1, <3>2, <3>4, <3>5, <4>1
      <4>2. CASE j \in 1 .. Len(s)
        <5>1. PICK m \in 1 .. n : s[j].app = items[m].app
          BY <2>4, <4>2
        <5>2. \E k \in 1 .. Len(shown) : s[j] = ItemOf(shown[k])
          BY <2>4, <4>2 DEF AreOf
        <5> QED
          BY <2>1, <3>5, <4>2, <5>1, <5>2
      <4> QED
        BY <3>5, <4>1, <4>2
    <3>9. Of(t, n + 1)
      BY <3>5, <3>7, <3>8 DEF AreOf
    <3> QED
      BY <2>1, <3>3, <3>9
  <2> QED
    BY <2>6, <2>7
<1>5. \A n \in 0 .. Len(items) : n \in T
  <2> HIDE DEF T
  <2> QED  BY <1>1, <1>3, <1>4, UpTo
<1>6. Len(items) \in 0 .. Len(items)
  BY <1>1
<1> HIDE DEF Of
<1>7. Of(h[Len(items)], Len(items))
  BY <1>5, <1>6
<1> QED
  BY <1>2, <1>7 DEF Of

\* n entries have their items in their places.
Filled(acc, n, shown) ==
  /\ AreOf(acc.items, shown)
  /\ acc.at = n + 1 /\ n <= Len(acc.items)
  /\ \A j \in 1 .. n : acc.items[j] = ItemOf(shown[j])

(* The items are looked for behind those that are in their places: what    *)
(* is found has what its entry says, because the first loop updated it.    *)
LEMMA InPlaceFills ==
  ASSUME NEW shown \in Seq(Entries), Once(shown), NEW n \in 0 .. Len(shown) - 1,
         NEW acc, Filled(acc, n, shown)
  PROVE  Filled(InPlace(acc, shown[n + 1]), n + 1, shown)
<1>1. /\ n \in Nat /\ n + 1 \in 1 .. Len(shown) /\ Len(shown) \in Nat
      /\ DOMAIN shown = 1 .. Len(shown)
  OBVIOUS
<1>2. PICK entry : entry = shown[n + 1]
  OBVIOUS
<1>3. entry \in Entries
  BY <1>1, <1>2
<1>4. PICK items : items = acc.items
  OBVIOUS
<1>5. /\ AreOf(items, shown) /\ items \in Seq(ShownItems) /\ Once(items) /\ Len(items) \in Nat
      /\ acc.at = n + 1 /\ n <= Len(items) /\ DOMAIN items = 1 .. Len(items)
      /\ \A j \in 1 .. n : items[j] = ItemOf(shown[j])
  BY <1>4 DEF Filled, AreOf
<1>6. PICK i : i = FindShown(items, entry.app)
  OBVIOUS
<1>7. \/ i \in 1 .. Len(items) /\ items[i].app = entry.app
      \/ i = 0 /\ \A j \in 1 .. Len(items) : items[j].app # entry.app
  BY <1>5, <1>6, FindShownIs
<1>8. InPlace(acc, entry)
        = [at |-> n + 2, items |-> IF i = 0 THEN InsertAt(items, n + 1, ItemOf(entry))
                                   ELSE Moved(items, i, n + 1)]
  BY <1>1, <1>4, <1>5, <1>6 DEF InPlace, Moved
<1>9. ASSUME NEW j \in 1 .. n PROVE items[j].app # entry.app
  <2>1. j \in 1 .. Len(shown) /\ j # n + 1
    BY <1>1
  <2>2. items[j].app = shown[j].app
    BY <1>5, <2>1, ItemOfIs
  <2> QED
    BY <1>1, <1>2, <2>1, <2>2 DEF Once
<1>10. CASE i = 0
  <2>1. PICK item : item = ItemOf(entry)
    OBVIOUS
  <2>2. item \in ShownItems /\ item.app = entry.app /\ n + 1 \in 1 .. Len(items) + 1
    BY <1>1, <1>3, <1>5, <2>1, ItemOfIs
  <2> DEFINE t == InsertAt(items, n + 1, item)
  <2>3. /\ t \in Seq(ShownItems) /\ Len(t) = Len(items) + 1
        /\ \A j \in 1 .. Len(items) + 1 :
             t[j] = IF j < n + 1 THEN items[j] ELSE IF j = n + 1 THEN item ELSE items[j - 1]
    <3>1. items \in Seq(ShownItems)
      BY <1>5
    <3>2. t \in Seq(ShownItems) /\ PutIn(t, items, n + 1, item)
      BY <2>2, <3>1, InsertIs
    <3> QED
      BY <3>2 DEF PutIn
  <2>4. Once(t)
    BY <1>5, <1>7, <1>10, <2>2, InsertOnce
  <2> HIDE DEF t
  <2>5. ASSUME NEW j \in 1 .. Len(t) PROVE \E k \in 1 .. Len(shown) : t[j] = ItemOf(shown[k])
    <3>1. CASE j = n + 1
      BY <1>1, <1>2, <2>1, <2>2, <2>3, <3>1
    <3>2. CASE j # n + 1
      <4>1. PICK k \in 1 .. Len(items) : t[j] = items[k]
        <5>1. CASE j < n + 1
          BY <1>1, <1>5, <2>3, <5>1
        <5>2. CASE j > n + 1
          <6>1. t[j] = items[j - 1] /\ j - 1 \in 1 .. Len(items)
            BY <1>1, <1>5, <2>3, <5>2
          <6> QED
            BY <6>1
        <5> QED
          BY <1>1, <3>2, <5>1, <5>2
      <4> QED
        BY <1>5, <4>1 DEF AreOf
    <3> QED
      BY <3>1, <3>2
  <2>6. ASSUME NEW j \in 1 .. n + 1 PROVE t[j] = ItemOf(shown[j])
    <3>1. CASE j = n + 1
      BY <1>1, <1>2, <2>1, <2>2, <2>3, <3>1
    <3>2. CASE j \in 1 .. n
      BY <1>1, <1>5, <2>3, <3>2
    <3> QED
      BY <1>1, <3>1, <3>2
  <2>7. InPlace(acc, entry) = [at |-> n + 2, items |-> t]
    BY <1>8, <1>10, <2>1 DEF t
  <2>8. AreOf(t, shown) /\ n + 1 <= Len(t)
    BY <1>1, <1>5, <2>3, <2>4, <2>5 DEF AreOf
  <2>9. Filled([at |-> n + 2, items |-> t], n + 1, shown)
    BY <1>1, <2>6, <2>8 DEF Filled
  <2> QED
    BY <1>2, <2>7, <2>9
<1>11. CASE i # 0
  <2>1. i \in 1 .. Len(items) /\ items[i].app = entry.app
    BY <1>7, <1>11
  <2>2. ~(i \in 1 .. n)
    BY <1>9, <2>1
  <2>3. n + 1 <= i /\ n + 1 \in 1 .. Len(items)
    BY <1>1, <1>5, <2>1, <2>2
  <2>4. items[i] = ItemOf(entry)
    <3>1. PICK k \in 1 .. Len(shown) : items[i] = ItemOf(shown[k])
      BY <1>5, <2>1 DEF AreOf
    <3>2. shown[k].app = entry.app
      BY <2>1, <3>1, ItemOfIs
    <3>3. k = n + 1
      BY <1>1, <1>2, <3>2 DEF Once
    <3> QED
      BY <1>2, <3>1, <3>3
  <2> DEFINE t == Moved(items, i, n + 1)
  <2>5. /\ t \in Seq(ShownItems) /\ Len(t) = Len(items)
        /\ \A j \in 1 .. Len(items) :
             WasAt(j, i, n + 1) \in 1 .. Len(items) /\ t[j] = items[WasAt(j, i, n + 1)]
    <3>1. items \in Seq(ShownItems)
      BY <1>5
    <3>2. t \in Seq(ShownItems) /\ MoveOf(t, items, i, n + 1)
      BY <2>1, <2>3, <3>1, MovedIs
    <3> QED
      BY <3>2 DEF MoveOf
  <2>6. Once(t)
    BY <1>5, <2>1, <2>3, MovedOnce
  <2> HIDE DEF t
  <2>7. ASSUME NEW j \in 1 .. Len(t) PROVE \E k \in 1 .. Len(shown) : t[j] = ItemOf(shown[k])
    <3>1. PICK k \in 1 .. Len(items) : t[j] = items[k]
      BY <2>5
    <3> QED
      BY <1>5, <3>1 DEF AreOf
  <2>8. ASSUME NEW j \in 1 .. n + 1 PROVE t[j] = ItemOf(shown[j])
    <3>1. CASE j = n + 1
      <4>1. WasAt(j, i, n + 1) = i
        BY <3>1 DEF WasAt
      <4> QED
        BY <1>2, <2>3, <2>4, <2>5, <3>1, <4>1
    <3>2. CASE j \in 1 .. n
      <4>1. j \in 1 .. Len(items) /\ j < i /\ j < n + 1
        BY <1>1, <1>5, <2>1, <2>3, <3>2
      <4>2. WasAt(j, i, n + 1) = j
        BY <1>1, <2>1, <4>1 DEF WasAt
      <4> QED
        BY <1>5, <2>5, <3>2, <4>1, <4>2
    <3> QED
      BY <1>1, <3>1, <3>2
  <2>9. InPlace(acc, entry) = [at |-> n + 2, items |-> t]
    BY <1>8, <1>11 DEF t
  <2>10. AreOf(t, shown) /\ n + 1 <= Len(t)
    BY <2>3, <2>5, <2>6, <2>7 DEF AreOf
  <2>11. Filled([at |-> n + 2, items |-> t], n + 1, shown)
    BY <1>1, <2>8, <2>10 DEF Filled
  <2> QED
    BY <1>2, <2>9, <2>11
<1> QED
  BY <1>10, <1>11

\* What the greeter is to show of a launcher.
RowsOf(given) == [i \in DOMAIN Shown(given) |-> ItemOf(Shown(given)[i])]

(* refreshWithItems(): whatever was shown before, the list is that of the  *)
(* entries, in their order.                                                *)
LEMMA RefreshShows ==
  ASSUME NEW items \in Seq(ShownItems), Once(items), NEW given \in Seq(Entries), Once(given)
  PROVE  /\ RefreshWithItems(items, given) = RowsOf(given)
         /\ RowsOf(given) \in Seq(ShownItems) /\ Once(RowsOf(given))
<1>1. PICK shown : shown = Shown(given)
  OBVIOUS
<1>2. shown \in Seq(Entries) /\ Once(shown)
  BY <1>1, ShownIs
<1>3. Len(shown) \in Nat /\ DOMAIN shown = 1 .. Len(shown)
  BY <1>2
<1>4. PICK kept : kept = UpdatedItems(shown, items)
  OBVIOUS
<1>5. AreOf(kept, shown)
  BY <1>2, <1>4, UpdatedItemsAre
<1>6. RefreshWithItems(items, given) = InPlaces(kept, shown)
  BY <1>1, <1>4 DEF RefreshWithItems
<1>7. PICK h : /\ h[0] = [at |-> 1, items |-> kept]
               /\ \A k \in 1 .. Len(shown) : h[k] = InPlace(h[k - 1], shown[k])
               /\ h[Len(shown)].items = InPlaces(kept, shown)
  BY <1>2, InPlaceSteps
<1> DEFINE T == {n \in 0 .. Len(shown) : Filled(h[n], n, shown)}
<1>8. 0 \in T
  <2>1. Len(kept) \in Nat
    BY <1>5 DEF AreOf
  <2>2. Filled([at |-> 1, items |-> kept], 0, shown)
    BY <1>5, <2>1 DEF Filled
  <2> QED
    BY <1>3, <1>7, <2>2
<1>9. ASSUME NEW n \in 0 .. Len(shown) - 1, n \in T PROVE n + 1 \in T
  <2>1. n + 1 \in 1 .. Len(shown) /\ n + 1 \in 0 .. Len(shown) /\ (n + 1) - 1 = n
    BY <1>3
  <2>2. h[n + 1] = InPlace(h[n], shown[n + 1])
    BY <1>7, <2>1
  <2>3. Filled(h[n], n, shown)
    BY <1>9
  <2>4. Filled(h[n + 1], n + 1, shown)
    BY <1>2, <2>2, <2>3, InPlaceFills
  <2> QED
    BY <2>1, <2>4
<1>10. \A n \in 0 .. Len(shown) : n \in T
  <2> HIDE DEF T
  <2> QED  BY <1>3, <1>8, <1>9, UpTo
<1>11. Filled(h[Len(shown)], Len(shown), shown)
  BY <1>3, <1>10
<1>12. PICK rows : rows = InPlaces(kept, shown)
  OBVIOUS
<1>13. /\ rows \in Seq(ShownItems) /\ Once(rows) /\ Len(shown) <= Len(rows)
       /\ DOMAIN rows = 1 .. Len(rows) /\ Len(rows) \in Nat
       /\ \A j \in 1 .. Len(shown) : rows[j] = ItemOf(shown[j])
       /\ \A j \in 1 .. Len(rows) : \E k \in 1 .. Len(shown) : rows[j] = ItemOf(shown[k])
  BY <1>7, <1>11, <1>12 DEF Filled, AreOf
<1>14. ASSUME NEW j \in 1 .. Len(rows) PROVE j \in 1 .. Len(shown)
  <2>1. PICK k \in 1 .. Len(shown) : rows[j] = ItemOf(shown[k])
    BY <1>13
  <2>2. k \in 1 .. Len(rows) /\ rows[k] = rows[j]
    BY <1>3, <1>13, <2>1
  <2>3. j = k
    BY <1>13, <2>2 DEF Once
  <2> QED
    BY <2>3
<1>15. DOMAIN rows = 1 .. Len(shown)
  <2>1. \A j \in 1 .. Len(shown) : j \in 1 .. Len(rows)
    BY <1>3, <1>13
  <2> QED
    BY <1>13, <1>14, <2>1
<1>16. rows = [i \in 1 .. Len(shown) |-> ItemOf(shown[i])]
  <2>1. rows = [i \in 1 .. Len(shown) |-> rows[i]]
    BY <1>13, <1>15
  <2>2. \A i \in 1 .. Len(shown) : rows[i] = ItemOf(shown[i])
    BY <1>13
  <2> QED
    BY <2>1, <2>2, Zenon
<1>17. rows = RowsOf(given)
  BY <1>1, <1>3, <1>16 DEF RowsOf
<1> QED
  BY <1>6, <1>12, <1>13, <1>17
(* The rows of the current user are the same as long as the mode and that  *)
(* user's launcher are.                                                    *)
LEMMA RowsStay ==
  ASSUME onlyPinned' = onlyPinned, entries'[shownUser'] = entries[shownUser]
  PROVE  RowsOf(entries[shownUser])' = RowsOf(entries[shownUser])
BY DEF RowsOf, Shown, ShownWith, FoldLeft, MapThenFoldSet

(***************************************************************************)
(* The greeter's invariant.  While it has asked and no answer has been     *)
(* made, what it asked for last is its current user.  When all its calls   *)
(* have been handled, it will hear that the user's launcher has changed,   *)
(* or the last answer on its way is that launcher, or there is none on its *)
(* way and the launcher is shown.                                          *)
(***************************************************************************)
OnceEach == {given \in Seq(Entries) : Once(given)}
Answers == [kind : {"reply"}, items : OnceEach] \cup [kind : {"changed"}, user : ShownUsers]

ShownTypes ==
  /\ entries \in [ShownUsers -> OnceEach]
  /\ shownUser \in ShownUsers
  /\ shownList \in Seq(ShownItems) /\ Once(shownList)
  /\ shownCalls \in Seq(ShownUsers)
  /\ shownMessages \in Seq(Answers)

LastAsked == shownCalls # <<>> => shownCalls[Len(shownCalls)] = shownUser

Hears == \E k \in DOMAIN shownMessages :
           shownMessages[k].kind = "changed" /\ shownMessages[k].user = shownUser
NoReplyAfter(messages, k) == \A l \in DOMAIN messages : l > k => messages[l].kind # "reply"
Answered == \E k \in DOMAIN shownMessages :
              /\ shownMessages[k].kind = "reply"
              /\ shownMessages[k].items = entries[shownUser]
              /\ NoReplyAfter(shownMessages, k)
IsShown == NoReplyAfter(shownMessages, 0) /\ shownList = RowsOf(entries[shownUser])

ShownInv ==
  /\ ShownTypes
  /\ LastAsked
  /\ shownCalls = <<>> => Hears \/ Answered \/ IsShown

(* What Append and Tail do to a sequence, element by element.              *)
LEMMA AppendIs ==
  ASSUME NEW S, NEW s \in Seq(S), NEW x \in S
  PROVE  /\ Append(s, x) \in Seq(S) /\ Append(s, x) # <<>> /\ Len(s) \in Nat
         /\ Len(Append(s, x)) = Len(s) + 1
         /\ DOMAIN s = 1 .. Len(s) /\ DOMAIN Append(s, x) = 1 .. Len(s) + 1
         /\ Append(s, x)[Len(s) + 1] = x
         /\ \A k \in 1 .. Len(s) : Append(s, x)[k] = s[k]
OBVIOUS

(* Tail drops the first element.                                           *)
LEMMA TailIs ==
  ASSUME NEW S, NEW s \in Seq(S), s # <<>>
  PROVE  /\ Tail(s) \in Seq(S) /\ Len(s) \in Nat /\ Len(s) >= 1
         /\ DOMAIN s = 1 .. Len(s) /\ DOMAIN Tail(s) = 1 .. Len(s) - 1
         /\ Len(Tail(s)) = Len(s) - 1
         /\ Head(s) = s[1] /\ s[1] \in S
         /\ \A k \in 1 .. Len(s) - 1 : Tail(s)[k] = s[k + 1]
OBVIOUS

(* A greeter that asks for its user has asked for it last.                 *)
LEMMA AsksLast ==
  ASSUME ShownTypes, NEW name \in ShownUsers, Asks(name), shownUser' = name
  PROVE  shownCalls' \in Seq(ShownUsers) /\ LastAsked' /\ shownCalls' # <<>>
<1>1. shownCalls \in Seq(ShownUsers)
  BY DEF ShownTypes
<1>2. PICK asked : asked = Append(shownCalls, name)
  OBVIOUS
<1>3. /\ asked \in Seq(ShownUsers) /\ asked # <<>>
      /\ asked[Len(asked)] = name
  BY <1>1, <1>2, AppendIs
<1>4. shownCalls' = asked
  BY <1>2 DEF Asks
<1> QED
  BY <1>3, <1>4 DEF LastAsked

(* setUser() and setOnlyPinned() ask for the current user.                 *)
LEMMA AskingKeeps ==
  ASSUME ShownInv,
         SetOnlyPinned \/ \E name \in ShownUsers : SetShownUser(name)
  PROVE  ShownInv'
<1>1. ShownTypes
  BY DEF ShownInv
<1>2. PICK name \in ShownUsers : Asks(name) /\ shownUser' = name
  BY <1>1 DEF SetOnlyPinned, SetShownUser, ShownTypes
<1>3. UNCHANGED <<entries, shownList, shownMessages>>
  BY DEF SetOnlyPinned, SetShownUser
<1>4. shownCalls' \in Seq(ShownUsers) /\ LastAsked' /\ shownCalls' # <<>>
  BY <1>1, <1>2, AsksLast
<1>5. ShownTypes'
  BY <1>1, <1>2, <1>3, <1>4 DEF ShownTypes, Once
<1> QED
  BY <1>4, <1>5 DEF ShownInv

(* The daemon answers the last call with the launcher of the current user. *)
LEMMA AnswersKeep ==
  ASSUME ShownInv, DaemonAnswers
  PROVE  ShownInv'
<1>1. ShownTypes /\ LastAsked
  BY DEF ShownInv
<1>2. /\ shownCalls \in Seq(ShownUsers) /\ shownCalls # <<>> /\ shownCalls' = Tail(shownCalls)
      /\ shownMessages \in Seq(Answers) /\ entries \in [ShownUsers -> OnceEach]
      /\ UNCHANGED <<entries, shownUser, onlyPinned, shownList>>
  BY <1>1 DEF ShownTypes, DaemonAnswers
<1>3. PICK calls : calls = shownCalls
  OBVIOUS
<1>4. /\ Tail(calls) \in Seq(ShownUsers) /\ Len(calls) \in Nat /\ Len(calls) >= 1
      /\ Len(Tail(calls)) = Len(calls) - 1
      /\ Head(calls) = calls[1] /\ calls[1] \in ShownUsers
      /\ \A k \in 1 .. Len(calls) - 1 : Tail(calls)[k] = calls[k + 1]
  BY <1>2, <1>3, TailIs
<1>5. PICK answer : answer = [kind |-> "reply", items |-> entries[Head(shownCalls)]]
  OBVIOUS
<1>6. answer \in Answers /\ answer.kind = "reply" /\ answer.items = entries[Head(shownCalls)]
  BY <1>2, <1>3, <1>4, <1>5 DEF Answers
<1>7. PICK messages : messages = Append(shownMessages, answer)
  OBVIOUS
<1>8. shownMessages' = messages
  BY <1>5, <1>7 DEF DaemonAnswers
<1>9. /\ messages \in Seq(Answers) /\ Len(shownMessages) \in Nat
      /\ DOMAIN messages = 1 .. Len(shownMessages) + 1
      /\ messages[Len(shownMessages) + 1] = answer
  BY <1>2, <1>6, <1>7, AppendIs
<1>10. ShownTypes'
  BY <1>1, <1>2, <1>3, <1>4, <1>8, <1>9 DEF ShownTypes, Once
<1>11. calls[Len(calls)] = shownUser
  BY <1>1, <1>2, <1>3 DEF LastAsked
<1>12. CASE Tail(calls) # <<>>
  <2>1. Len(Tail(calls)) >= 1
    BY <1>4, <1>12
  <2>2. Tail(calls)[Len(Tail(calls))] = shownUser
    BY <1>4, <1>11, <2>1
  <2> QED
    BY <1>2, <1>3, <1>10, <1>12, <2>2 DEF ShownInv, LastAsked
<1>13. CASE Tail(calls) = <<>>
  <2>1. Len(calls) = 1
    BY <1>4, <1>13
  <2>2. answer.items = entries[shownUser]
    BY <1>3, <1>4, <1>6, <1>11, <2>1
  <2>3. NoReplyAfter(messages, Len(shownMessages) + 1)
    BY <1>9 DEF NoReplyAfter
  <2>4. Answered'
    BY <1>2, <1>6, <1>8, <1>9, <2>2, <2>3 DEF Answered, NoReplyAfter
  <2> QED
    BY <1>2, <1>3, <1>10, <1>13, <2>4 DEF ShownInv, LastAsked
<1> QED
  BY <1>12, <1>13

(* AccountsService tells of what a session has written.                    *)
LEMMA WritesKeep ==
  ASSUME ShownInv, NEW name \in ShownUsers, NEW items \in Launchers, SessionWrites(name, items)
  PROVE  ShownInv'
<1>1. ShownTypes /\ LastAsked /\ (shownCalls = <<>> => Hears \/ Answered \/ IsShown)
  BY DEF ShownInv
<1>2. /\ shownMessages \in Seq(Answers) /\ entries \in [ShownUsers -> OnceEach]
      /\ shownUser \in ShownUsers
      /\ entries' = [entries EXCEPT ![name] = items]
      /\ UNCHANGED <<shownUser, onlyPinned, shownList, shownCalls>>
  BY <1>1 DEF ShownTypes, SessionWrites
<1>3. items \in OnceEach
  BY LaunchersAssumption DEF OnceEach, Once
<1>4. PICK notice : notice = [kind |-> "changed", user |-> name]
  OBVIOUS
<1>5. notice \in Answers /\ notice.kind = "changed" /\ notice.user = name
  BY <1>4 DEF Answers
<1>6. PICK messages : messages = Append(shownMessages, notice)
  OBVIOUS
<1>7. shownMessages' = messages
  BY <1>4, <1>6 DEF SessionWrites
<1>8. /\ messages \in Seq(Answers) /\ Len(shownMessages) \in Nat
      /\ DOMAIN shownMessages = 1 .. Len(shownMessages)
      /\ DOMAIN messages = 1 .. Len(shownMessages) + 1
      /\ messages[Len(shownMessages) + 1] = notice
      /\ \A k \in 1 .. Len(shownMessages) : messages[k] = shownMessages[k]
  BY <1>2, <1>5, <1>6, AppendIs
<1>9. entries' \in [ShownUsers -> OnceEach]
  BY <1>2, <1>3
<1>10. ShownTypes'
  BY <1>1, <1>2, <1>7, <1>8, <1>9 DEF ShownTypes, Once
<1>11. LastAsked'
  BY <1>1, <1>2 DEF LastAsked
<1>12. CASE name = shownUser
  <2>1. Hears'
    BY <1>2, <1>5, <1>7, <1>8, <1>12 DEF Hears
  <2> QED
    BY <1>10, <1>11, <2>1 DEF ShownInv
<1>13. CASE name # shownUser
  <2>1. entries'[shownUser'] = entries[shownUser]
    BY <1>2, <1>13
  <2>2. \A k \in 0 .. Len(shownMessages) : NoReplyAfter(shownMessages, k) => NoReplyAfter(messages, k)
    BY <1>5, <1>8 DEF NoReplyAfter
  <2>3. Hears => Hears'
    BY <1>2, <1>7, <1>8 DEF Hears
  <2>4. Answered => Answered'
    <3>1. SUFFICES ASSUME Answered PROVE Answered'
      OBVIOUS
    <3>2. PICK k \in DOMAIN shownMessages : /\ shownMessages[k].kind = "reply"
                                            /\ shownMessages[k].items = entries[shownUser]
                                            /\ NoReplyAfter(shownMessages, k)
      BY <3>1 DEF Answered
    <3>3. k \in DOMAIN messages /\ messages[k] = shownMessages[k] /\ k \in 0 .. Len(shownMessages)
      BY <1>8, <3>2
    <3>4. NoReplyAfter(messages, k)
      BY <2>2, <3>2, <3>3
    <3> QED
      BY <1>2, <1>7, <2>1, <3>2, <3>3, <3>4 DEF Answered, NoReplyAfter
  <2>5. IsShown => IsShown'
    <3>1. RowsOf(entries[shownUser])' = RowsOf(entries[shownUser])
      BY <1>2, <2>1, RowsStay
    <3>2. NoReplyAfter(shownMessages, 0) => NoReplyAfter(messages, 0)
      BY <1>8, <2>2
    <3> QED
      BY <1>2, <1>7, <3>1, <3>2 DEF IsShown, NoReplyAfter
  <2> QED
    BY <1>1, <1>2, <1>10, <1>11, <2>3, <2>4, <2>5 DEF ShownInv
<1> QED
  BY <1>12, <1>13

(* What is left when the first message has been handled.                   *)
LEMMA FirstHandled ==
  ASSUME ShownTypes, shownMessages # <<>>, shownMessages' = Tail(shownMessages),
         UNCHANGED <<entries, shownUser>>
  PROVE  /\ shownMessages' \in Seq(Answers)
         /\ Hears => Hears' \/ (Head(shownMessages).kind = "changed" /\ Head(shownMessages).user = shownUser)
         /\ Answered =>
              \/ Answered'
              \/ /\ Head(shownMessages).kind = "reply"
                 /\ Head(shownMessages).items = entries[shownUser]
                 /\ NoReplyAfter(shownMessages, 0)'
         /\ NoReplyAfter(shownMessages, 0) =>
              NoReplyAfter(shownMessages, 0)' /\ Head(shownMessages).kind # "reply"
<1>1. PICK messages : messages = shownMessages
  OBVIOUS
<1>2. PICK left : left = Tail(messages)
  OBVIOUS
<1>3. shownMessages' = left
  BY <1>1, <1>2
<1>4. messages \in Seq(Answers) /\ messages # <<>>
  BY <1>1 DEF ShownTypes
<1>5. /\ left \in Seq(Answers) /\ Len(messages) \in Nat /\ Len(messages) >= 1
      /\ DOMAIN messages = 1 .. Len(messages) /\ DOMAIN left = 1 .. Len(messages) - 1
      /\ Head(messages) = messages[1]
      /\ \A k \in 1 .. Len(messages) - 1 : left[k] = messages[k + 1]
  BY <1>2, <1>4, TailIs
<1>6. ASSUME NEW k \in 1 .. Len(messages), k # 1
      PROVE  k - 1 \in DOMAIN left /\ left[k - 1] = messages[k]
  <2>1. k - 1 \in 1 .. Len(messages) - 1 /\ (k - 1) + 1 = k
    BY <1>5, <1>6
  <2> QED
    BY <1>5, <2>1
<1>7. ASSUME NEW k \in 1 .. Len(messages), NoReplyAfter(messages, k) PROVE NoReplyAfter(left, k - 1)
  <2>1. ASSUME NEW l \in DOMAIN left, l > k - 1 PROVE left[l].kind # "reply"
    <3>1. l + 1 \in DOMAIN messages /\ l + 1 > k /\ left[l] = messages[l + 1]
      BY <1>5, <2>1
    <3> QED
      BY <1>7, <3>1 DEF NoReplyAfter
  <2> QED
    BY <2>1 DEF NoReplyAfter
<1>8. Hears => Hears' \/ (Head(shownMessages).kind = "changed" /\ Head(shownMessages).user = shownUser)
  <2>1. SUFFICES ASSUME NEW k \in DOMAIN messages,
                        messages[k].kind = "changed", messages[k].user = shownUser
                 PROVE  Hears' \/ (Head(messages).kind = "changed" /\ Head(messages).user = shownUser)
    BY <1>1 DEF Hears
  <2>2. CASE k = 1
    BY <1>5, <2>1, <2>2
  <2>3. CASE k # 1
    <3>1. k - 1 \in DOMAIN left /\ left[k - 1] = messages[k]
      BY <1>5, <1>6, <2>3
    <3> QED
      BY <1>3, <2>1, <3>1 DEF Hears
  <2> QED
    BY <2>2, <2>3
<1>9. Answered =>
        \/ Answered'
        \/ /\ Head(messages).kind = "reply"
           /\ Head(messages).items = entries[shownUser]
           /\ NoReplyAfter(left, 0)
  <2>1. SUFFICES ASSUME NEW k \in DOMAIN messages, messages[k].kind = "reply",
                        messages[k].items = entries[shownUser], NoReplyAfter(messages, k)
                 PROVE  \/ Answered'
                        \/ /\ Head(messages).kind = "reply"
                           /\ Head(messages).items = entries[shownUser]
                           /\ NoReplyAfter(left, 0)
    BY <1>1 DEF Answered
  <2>2. CASE k = 1
    <3>1. NoReplyAfter(left, 0)
      BY <1>5, <1>7, <2>1, <2>2
    <3> QED
      BY <1>5, <2>1, <2>2, <3>1
  <2>3. CASE k # 1
    <3>1. k - 1 \in DOMAIN left /\ left[k - 1] = messages[k]
      BY <1>5, <1>6, <2>3
    <3>2. NoReplyAfter(left, k - 1)
      BY <1>5, <1>7, <2>1
    <3> QED
      BY <1>3, <2>1, <3>1, <3>2 DEF Answered, NoReplyAfter
  <2> QED
    BY <2>2, <2>3
<1>10. NoReplyAfter(messages, 0) => NoReplyAfter(left, 0) /\ Head(messages).kind # "reply"
  <2>1. SUFFICES ASSUME NoReplyAfter(messages, 0) PROVE NoReplyAfter(left, 0) /\ Head(messages).kind # "reply"
    OBVIOUS
  <2>2. Head(messages).kind # "reply" /\ NoReplyAfter(messages, 1)
    BY <1>5, <2>1 DEF NoReplyAfter
  <2>3. NoReplyAfter(left, 0)
    BY <1>5, <1>7, <2>2
  <2> QED
    BY <2>2, <2>3
<1> QED
  BY <1>1, <1>3, <1>5, <1>8, <1>9, <1>10 DEF NoReplyAfter

(* An answer is shown, and the last one for the current user stays.        *)
LEMMA ReplyKeeps ==
  ASSUME ShownInv, LauncherReply
  PROVE  ShownInv'
<1>1. ShownTypes /\ LastAsked /\ (shownCalls = <<>> => Hears \/ Answered \/ IsShown)
  BY DEF ShownInv
<1>2. /\ shownMessages # <<>> /\ Head(shownMessages).kind = "reply"
      /\ shownMessages' = Tail(shownMessages)
      /\ shownList' = RefreshWithItems(shownList, Head(shownMessages).items)
      /\ UNCHANGED <<entries, shownUser, onlyPinned, shownCalls>>
  BY DEF LauncherReply
<1>3. /\ shownMessages' \in Seq(Answers)
      /\ Hears => Hears'
      /\ Answered =>
           \/ Answered'
           \/ /\ Head(shownMessages).items = entries[shownUser]
              /\ NoReplyAfter(shownMessages, 0)'
      /\ ~NoReplyAfter(shownMessages, 0)
  BY <1>1, <1>2, FirstHandled
<1>4. PICK given : given = Head(shownMessages).items
  OBVIOUS
<1>5. given \in Seq(Entries) /\ Once(given)
  <2>1. Head(shownMessages) \in Answers
    BY <1>1, <1>2, TailIs DEF ShownTypes
  <2>2. given \in OnceEach
    BY <1>2, <1>4, <2>1 DEF Answers
  <2> QED
    BY <2>2 DEF OnceEach
<1>6. PICK items : items = shownList
  OBVIOUS
<1>7. items \in Seq(ShownItems) /\ Once(items)
  BY <1>1, <1>6 DEF ShownTypes
<1>8. /\ RefreshWithItems(items, given) = RowsOf(given)
      /\ RowsOf(given) \in Seq(ShownItems) /\ Once(RowsOf(given))
  BY <1>5, <1>7, RefreshShows
<1>9. shownList' = RowsOf(given) /\ shownList' \in Seq(ShownItems) /\ Once(shownList)'
  BY <1>2, <1>4, <1>6, <1>8 DEF Once
<1>10. ShownTypes'
  BY <1>1, <1>2, <1>3, <1>9 DEF ShownTypes
<1>11. RowsOf(entries[shownUser])' = RowsOf(entries[shownUser])
  BY <1>2, RowsStay
<1>12. (shownCalls = <<>>)' => Hears' \/ Answered' \/ IsShown'
  BY <1>1, <1>2, <1>3, <1>4, <1>9, <1>11 DEF IsShown
<1> QED
  BY <1>1, <1>2, <1>10, <1>12 DEF ShownInv, LastAsked

(* A greeter that hears of a change of its user's launcher asks for it.    *)
LEMMA ChangedKeeps ==
  ASSUME ShownInv, LauncherChanged
  PROVE  ShownInv'
<1>1. ShownTypes /\ LastAsked /\ (shownCalls = <<>> => Hears \/ Answered \/ IsShown)
  BY DEF ShownInv
<1>2. /\ shownMessages # <<>> /\ Head(shownMessages).kind = "changed"
      /\ shownMessages' = Tail(shownMessages)
      /\ IF Head(shownMessages).user = shownUser THEN Asks(shownUser) ELSE UNCHANGED shownCalls
      /\ UNCHANGED <<entries, shownUser, onlyPinned, shownList>>
  BY DEF LauncherChanged
<1>3. /\ shownMessages' \in Seq(Answers)
      /\ Hears => Hears' \/ Head(shownMessages).user = shownUser
      /\ Answered => Answered'
      /\ NoReplyAfter(shownMessages, 0) => NoReplyAfter(shownMessages, 0)'
  BY <1>1, <1>2, FirstHandled
<1>4. CASE Head(shownMessages).user = shownUser
  <2>1. shownUser \in ShownUsers /\ Asks(shownUser) /\ shownUser' = shownUser
    BY <1>1, <1>2, <1>4 DEF ShownTypes
  <2>2. PICK name \in ShownUsers : name = shownUser
    BY <2>1
  <2>3. shownCalls' \in Seq(ShownUsers) /\ LastAsked' /\ shownCalls' # <<>>
    BY <1>1, <2>1, <2>2, AsksLast
  <2>4. ShownTypes'
    BY <1>1, <1>2, <1>3, <2>3 DEF ShownTypes, Once
  <2> QED
    BY <2>3, <2>4 DEF ShownInv
<1>5. CASE Head(shownMessages).user # shownUser
  <2>1. UNCHANGED shownCalls
    BY <1>2, <1>5
  <2>2. ShownTypes'
    BY <1>1, <1>2, <1>3, <2>1 DEF ShownTypes, Once
  <2>3. RowsOf(entries[shownUser])' = RowsOf(entries[shownUser])
    BY <1>2, RowsStay
  <2>4. IsShown => IsShown'
    BY <1>2, <1>3, <2>3 DEF IsShown
  <2> QED
    BY <1>1, <1>2, <1>3, <1>5, <2>1, <2>2, <2>4 DEF ShownInv, LastAsked
<1> QED
  BY <1>4, <1>5

(* The greeter starts with a call for its user.                            *)
LEMMA ShownStarts == ShownInit => ShownInv
<1> SUFFICES ASSUME ShownInit PROVE ShownInv
  OBVIOUS
<1>1. /\ entries = [name \in ShownUsers |-> <<>>] /\ shownUser \in ShownUsers
      /\ shownList = <<>> /\ shownCalls = <<shownUser>> /\ shownMessages = <<>>
  BY DEF ShownInit
<1>2. <<>> \in OnceEach /\ <<>> \in Seq(ShownItems) /\ <<>> \in Seq(Answers) /\ Once(<<>>)
  BY DEF OnceEach, Once
<1>3. shownCalls \in Seq(ShownUsers) /\ Len(shownCalls) = 1 /\ shownCalls[1] = shownUser
      /\ shownCalls # <<>>
  BY <1>1
<1>4. ShownTypes
  BY <1>1, <1>2, <1>3 DEF ShownTypes
<1> QED
  BY <1>3, <1>4 DEF ShownInv, LastAsked

(* Every step of the greeter's launcher keeps the invariant.               *)
LEMMA ShownStep == ShownInv /\ [ShownNext]_shownVars => ShownInv'
<1> SUFFICES ASSUME ShownInv, [ShownNext]_shownVars PROVE ShownInv'
  OBVIOUS
<1>1. CASE UNCHANGED shownVars
  <2>1. UNCHANGED <<entries, shownUser, onlyPinned, shownList, shownCalls, shownMessages>>
    BY <1>1 DEF shownVars
  <2>2. RowsOf(entries[shownUser])' = RowsOf(entries[shownUser])
    BY <2>1, RowsStay
  <2> QED
    BY <2>1, <2>2 DEF ShownInv, ShownTypes, LastAsked, Hears, Answered, IsShown, NoReplyAfter, Once
<1>2. CASE SetOnlyPinned \/ \E name \in ShownUsers : SetShownUser(name)
  BY <1>2, AskingKeeps
<1>3. CASE \E name \in ShownUsers : \E items \in Launchers : SessionWrites(name, items)
  BY <1>3, WritesKeep
<1>4. CASE DaemonAnswers
  BY <1>4, AnswersKeep
<1>5. CASE LauncherReply
  BY <1>5, ReplyKeeps
<1>6. CASE LauncherChanged
  BY <1>6, ChangedKeeps
<1> QED
  BY <1>1, <1>2, <1>3, <1>4, <1>5, <1>6, Zenon DEF ShownNext

(***************************************************************************)
(* When nothing is on its way, the greeter shows the launcher of its       *)
(* current user, in that user's order and in the current mode              *)
(* (launchermodelas.cpp:197, 214).                                         *)
(***************************************************************************)
THEOREM TheUsersAreShown == ShownSpec => []GreeterShowsTheUsers
<1>1. ShownInv => GreeterShowsTheUsers
  <2> SUFFICES ASSUME ShownInv, shownCalls = <<>>, shownMessages = <<>>
               PROVE  shownList = RowsOf(entries[shownUser])
    BY DEF GreeterShowsTheUsers, RowsOf
  <2>1. DOMAIN shownMessages = {}
    OBVIOUS
  <2>2. ~Hears /\ ~Answered
    BY <2>1 DEF Hears, Answered
  <2> QED
    BY <2>2 DEF ShownInv, IsShown
<1> QED
  BY <1>1, ShownStarts, ShownStep, PTL DEF ShownSpec

-----------------------------------------------------------------------------
(* The drawer.  Signals and notices on their way are in queues; what the   *)
(* drawer will show is what the last of them about an application says.    *)

Never(q, x) == \A i \in 1 .. Len(q) : q[i] # x
Lastly(q, x, y) == \E i \in 1 .. Len(q) : q[i] = x /\ \A j \in 1 .. Len(q) : j > i => q[j] # y
AtMostOnce(q, x) == \A i, j \in 1 .. Len(q) : q[i] = x /\ q[j] = x => i = j

\* Between two additions of an application there is its removal.
InTurn(q, app, shown) ==
  \A i \in 1 .. Len(q) : q[i] = AddedSignal(app) =>
     \/ app \notin shown /\ \A k \in 1 .. Len(q) : k < i => q[k] # AddedSignal(app)
     \/ \E j \in 1 .. Len(q) : /\ j < i /\ q[j] = RemovedSignal(app)
                               /\ \A k \in 1 .. Len(q) : j < k /\ k < i => q[k] # AddedSignal(app)

\* The kernel tells what the watcher does not know; a file's end before its directory's change.
Noticed(app) ==
  /\ app \in watchedFiles \ onDisk => ~Never(fileNotices, FileChanged(app))
  /\ app \in onDisk \ watchedFiles => ~Never(fileNotices, DirectoryChanged)
  /\ Never(fileNotices, FileChanged(app)) \/ Lastly(fileNotices, DirectoryChanged, FileChanged(app))

\* What is watched and what is listed differ by what is still to be told.
Signalled(app) ==
  /\ InTurn(queue, app, ToSet(drawer))
  /\ app \notin watchedFiles =>
       \/ Lastly(queue, RemovedSignal(app), AddedSignal(app))
       \/ Never(queue, AddedSignal(app)) /\ app \notin ToSet(drawer)
  /\ app \in watchedFiles =>
       \/ Lastly(queue, AddedSignal(app), RemovedSignal(app))
       \/ /\ Never(queue, AddedSignal(app)) /\ Never(queue, RemovedSignal(app))
          /\ app \in ToSet(drawer) \/ ~Never(fileNotices, FileChanged(app))

\* During a refresh that nothing overlaps, nothing is to be told and the thread lists all.
RefreshInv ==
  /\ fileNotices = <<>> /\ watchedFiles = onDisk
  /\ \A app \in DrawerApps : Never(queue, AddedSignal(app)) /\ Never(queue, RemovedSignal(app))
  /\ \/ worker = "started" /\ Never(queue, Refreshed)
     \/ worker = "listed" /\ result = onDisk /\ Never(queue, Refreshed)
     \/ worker = "idle" /\ result = onDisk /\ AtMostOnce(queue, Refreshed)

DrawerEvents == {AddedSignal(app) : app \in DrawerApps} \cup {RemovedSignal(app) : app \in DrawerApps}
                  \cup {Refreshed, IconCacheChanged}
FileNotices == {FileChanged(app) : app \in DrawerApps} \cup {DirectoryChanged}
DrawerTypes ==
  /\ onDisk \subseteq DrawerApps /\ watchedFiles \subseteq DrawerApps /\ result \subseteq DrawerApps
  /\ fileNotices \in Seq(FileNotices) /\ queue \in Seq(DrawerEvents) /\ drawer \in Seq(DrawerApps)

DrawerInv ==
  /\ DrawerTypes
  /\ ~overlapped =>
       /\ \A app \in DrawerApps : Noticed(app)
       /\ refreshing => RefreshInv
       /\ ~refreshing => /\ worker = "idle" /\ Never(queue, Refreshed) /\ IsInjective(drawer)
                         /\ \A app \in DrawerApps : Signalled(app)

(* Signals of two kinds, or of two applications, differ.                   *)
LEMMA DrawerEventsApart ==
  ASSUME NEW a, NEW b
  PROVE  /\ AddedSignal(a) = AddedSignal(b) => a = b
         /\ RemovedSignal(a) = RemovedSignal(b) => a = b
         /\ FileChanged(a) = FileChanged(b) => a = b
         /\ AddedSignal(a) # RemovedSignal(b)
         /\ AddedSignal(a) # Refreshed /\ AddedSignal(a) # IconCacheChanged
         /\ RemovedSignal(a) # Refreshed /\ RemovedSignal(a) # IconCacheChanged
         /\ Refreshed # IconCacheChanged
         /\ FileChanged(a) # DirectoryChanged
<1>1. /\ AddedSignal(a).kind = "appAdded" /\ AddedSignal(a).app = a /\ AddedSignal(b).app = b
      /\ RemovedSignal(a).kind = "appRemoved" /\ RemovedSignal(b).kind = "appRemoved"
      /\ RemovedSignal(a).app = a /\ RemovedSignal(b).app = b
      /\ FileChanged(a).kind = "file" /\ FileChanged(a).app = a /\ FileChanged(b).app = b
      /\ Refreshed.kind = "finished" /\ IconCacheChanged.kind = "iconCacheChanged"
      /\ DirectoryChanged.kind = "directory"
  BY DEF AddedSignal, RemovedSignal, FileChanged, Refreshed, IconCacheChanged, DirectoryChanged
<1>2. /\ AddedSignal(a) = AddedSignal(b) => a = b
      /\ RemovedSignal(a) = RemovedSignal(b) => a = b
      /\ FileChanged(a) = FileChanged(b) => a = b
  BY <1>1
<1>3. /\ AddedSignal(a).kind # RemovedSignal(b).kind
      /\ AddedSignal(a).kind # Refreshed.kind /\ AddedSignal(a).kind # IconCacheChanged.kind
  BY <1>1
<1>4. RemovedSignal(a).kind # Refreshed.kind /\ RemovedSignal(a).kind # IconCacheChanged.kind
  BY <1>1
<1>5. Refreshed.kind # IconCacheChanged.kind /\ FileChanged(a).kind # DirectoryChanged.kind
  BY <1>1
<1> QED
  BY <1>2, <1>3, <1>4, <1>5

(* What is added to a queue comes after what is there.                     *)
LEMMA Joined ==
  ASSUME NEW S, NEW q \in Seq(S), NEW s \in Seq(S)
  PROVE  /\ q \o s \in Seq(S) /\ Len(q) \in Nat /\ Len(s) \in Nat /\ Len(q \o s) = Len(q) + Len(s)
         /\ \A i \in 1 .. Len(q) : i \in 1 .. Len(q \o s) /\ (q \o s)[i] = q[i]
         /\ \A i \in 1 .. Len(s) : Len(q) + i \in 1 .. Len(q \o s) /\ (q \o s)[Len(q) + i] = s[i]
         /\ \A i \in 1 .. Len(q \o s) :
              i \in 1 .. Len(q) \/ (i > Len(q) /\ i - Len(q) \in 1 .. Len(s) /\ (q \o s)[i] = s[i - Len(q)])
<1>1. Len(q) \in Nat /\ Len(s) \in Nat
  OBVIOUS
<1>2. /\ q \o s \in Seq(S) /\ Len(q \o s) = Len(q) + Len(s)
      /\ \A i \in 1 .. Len(q) + Len(s) :
           (q \o s)[i] = IF i <= Len(q) THEN q[i] ELSE s[i - Len(q)]
  BY ConcatProperties, Zenon
<1> QED
  BY <1>1, <1>2

(* What stays true of a longer queue: an event that is not in it,          *)
LEMMA NeverMore ==
  ASSUME NEW S, NEW q \in Seq(S), NEW s \in Seq(S), NEW x
  PROVE  Never(q \o s, x) <=> Never(q, x) /\ Never(s, x)
<1> DEFINE r == q \o s
<1>1. /\ \A i \in 1 .. Len(q) : i \in 1 .. Len(r) /\ r[i] = q[i]
      /\ \A i \in 1 .. Len(s) : Len(q) + i \in 1 .. Len(r) /\ r[Len(q) + i] = s[i]
      /\ \A i \in 1 .. Len(r) : i \in 1 .. Len(q) \/ (i - Len(q) \in 1 .. Len(s) /\ r[i] = s[i - Len(q)])
  BY Joined
<1> HIDE DEF r
<1>2. Never(r, x) <=> Never(q, x) /\ Never(s, x)
  BY <1>1, Zenon DEF Never
<1> QED
  BY <1>2 DEF r

(* one that comes after all of another,                                    *)
LEMMA LastlyMore ==
  ASSUME NEW S, NEW q \in Seq(S), NEW s \in Seq(S), NEW x, NEW y
  PROVE  /\ Lastly(q, x, y) /\ Never(s, y) => Lastly(q \o s, x, y)
         /\ Lastly(s, x, y) => Lastly(q \o s, x, y)
<1> DEFINE r == q \o s  n == Len(q)
<1>1. /\ n \in Nat
      /\ \A i \in 1 .. Len(q) : i \in 1 .. Len(r) /\ r[i] = q[i]
      /\ \A i \in 1 .. Len(s) : n + i \in 1 .. Len(r) /\ r[n + i] = s[i]
      /\ \A i \in 1 .. Len(r) : i \in 1 .. Len(q) \/ (i - n \in 1 .. Len(s) /\ r[i] = s[i - n])
      /\ Len(s) \in Nat
  BY Joined
<1> HIDE DEF r
<1>2. ASSUME Lastly(q, x, y), Never(s, y) PROVE Lastly(r, x, y)
  <2>1. PICK i \in 1 .. Len(q) : q[i] = x /\ \A j \in 1 .. Len(q) : j > i => q[j] # y
    BY <1>2 DEF Lastly
  <2>2. i \in 1 .. Len(r) /\ r[i] = x
    BY <1>1, <2>1
  <2>3. \A j \in 1 .. Len(r) : j > i => r[j] # y
    BY <1>1, <1>2, <2>1 DEF Never
  <2> QED
    BY <2>2, <2>3 DEF Lastly
<1>3. ASSUME Lastly(s, x, y) PROVE Lastly(r, x, y)
  <2>1. PICK i \in 1 .. Len(s) : s[i] = x /\ \A j \in 1 .. Len(s) : j > i => s[j] # y
    BY <1>3 DEF Lastly
  <2>2. n + i \in 1 .. Len(r) /\ r[n + i] = x
    BY <1>1, <2>1
  <2>3. ASSUME NEW j \in 1 .. Len(r), j > n + i PROVE r[j] # y
    <3>1. j \notin 1 .. Len(q) /\ j - n > i
      BY <1>1, <2>3
    <3> QED
      BY <1>1, <2>1, <3>1
  <2> QED
    BY <2>2, <2>3 DEF Lastly
<1> QED
  BY <1>2, <1>3 DEF r

(* and additions with a removal between them.                              *)
LEMMA InTurnMore ==
  ASSUME NEW S, NEW q \in Seq(S), NEW s \in Seq(S), NEW app, NEW shown, InTurn(q, app, shown),
         \/ Never(s, AddedSignal(app))
         \/ /\ AtMostOnce(s, AddedSignal(app))
            /\ Lastly(q, RemovedSignal(app), AddedSignal(app)) \/ (Never(q, AddedSignal(app)) /\ app \notin shown)
  PROVE  InTurn(q \o s, app, shown)
<1> DEFINE r == q \o s  n == Len(q)
<1>1. /\ n \in Nat /\ Len(s) \in Nat
      /\ \A i \in 1 .. n : i \in 1 .. Len(r) /\ r[i] = q[i]
      /\ \A i \in 1 .. Len(r) : i \in 1 .. n \/ (i > n /\ i - n \in 1 .. Len(s) /\ r[i] = s[i - n])
  BY Joined
<1> HIDE DEF r
<1> DEFINE x == AddedSignal(app)  y == RemovedSignal(app)
<1> HIDE DEF x, y
<1>2. SUFFICES ASSUME NEW i \in 1 .. Len(r), r[i] = x
               PROVE  \/ app \notin shown /\ \A k \in 1 .. Len(r) : k < i => r[k] # x
                      \/ \E j \in 1 .. Len(r) : /\ j < i /\ r[j] = y
                                                /\ \A k \in 1 .. Len(r) : j < k /\ k < i => r[k] # x
  BY DEF InTurn, r, x, y
<1>3. CASE i \in 1 .. n
  <2>1. \A k \in 1 .. Len(r) : k < i => k \in 1 .. n
    BY <1>1, <1>3
  <2>2. \/ app \notin shown /\ \A k \in 1 .. n : k < i => q[k] # x
        \/ \E j \in 1 .. n : /\ j < i /\ q[j] = y
                             /\ \A k \in 1 .. n : j < k /\ k < i => q[k] # x
    BY <1>1, <1>2, <1>3 DEF InTurn, x, y
  <2>3. CASE app \notin shown /\ \A k \in 1 .. n : k < i => q[k] # x
    BY <1>1, <2>1, <2>3
  <2>4. CASE \E j \in 1 .. n : /\ j < i /\ q[j] = y
                               /\ \A k \in 1 .. n : j < k /\ k < i => q[k] # x
    <3>1. PICK j \in 1 .. n : j < i /\ q[j] = y /\ \A k \in 1 .. n : j < k /\ k < i => q[k] # x
      BY <2>4
    <3>2. j \in 1 .. Len(r) /\ r[j] = y
      BY <1>1, <3>1
    <3>3. \A k \in 1 .. Len(r) : j < k /\ k < i => r[k] # x
      BY <1>1, <2>1, <3>1
    <3> QED
      BY <3>1, <3>2, <3>3
  <2> QED
    BY <2>2, <2>3, <2>4
<1>4. CASE i \notin 1 .. n
  <2>1. i > n /\ i - n \in 1 .. Len(s) /\ s[i - n] = x
    BY <1>1, <1>2, <1>4
  <2>2. \A k \in 1 .. Len(s) : s[k] = x => k = i - n
    BY <2>1 DEF Never, AtMostOnce, x
  <2>3. ASSUME NEW k \in 1 .. Len(r), k < i, k \notin 1 .. n
        PROVE  r[k] # x
    <3>1. k - n \in 1 .. Len(s) /\ r[k] = s[k - n]
      BY <1>1, <2>3
    <3>2. k \in Int /\ i \in Int /\ k - n # i - n
      BY <1>1, <2>3
    <3> QED
      BY <2>2, <3>1, <3>2
  <2>4. Lastly(q, y, x) \/ (Never(q, x) /\ app \notin shown)
    BY <2>1 DEF Never, x, y
  <2>5. CASE Never(q, x) /\ app \notin shown
    BY <1>1, <2>3, <2>5 DEF Never
  <2>6. CASE Lastly(q, y, x)
    <3>1. PICK j \in 1 .. n : q[j] = y /\ \A k \in 1 .. n : k > j => q[k] # x
      BY <2>6 DEF Lastly
    <3>2. j \in 1 .. Len(r) /\ r[j] = y /\ j < i
      BY <1>1, <2>1, <3>1
    <3>3. \A k \in 1 .. Len(r) : j < k /\ k < i => r[k] # x
      BY <1>1, <2>3, <3>1
    <3> QED
      BY <3>2, <3>3
  <2> QED
    BY <2>4, <2>5, <2>6
<1> QED
  BY <1>3, <1>4

(* What is left of a queue whose head was handled.                         *)
LEMMA HandledIs ==
  ASSUME NEW S, NEW q \in Seq(S), q # <<>>
  PROVE  /\ Tail(q) \in Seq(S) /\ Len(q) \in Nat /\ Len(Tail(q)) = Len(q) - 1 /\ Head(q) \in S
         /\ 1 \in 1 .. Len(q) /\ q[1] = Head(q)
         /\ \A i \in 1 .. Len(q) - 1 : i + 1 \in 1 .. Len(q) /\ Tail(q)[i] = q[i + 1]
         /\ \A i \in 1 .. Len(q) : i = 1 \/ (i - 1 \in 1 .. Len(q) - 1 /\ Tail(q)[i - 1] = q[i])
OBVIOUS

(* And of the queue that is left: an event that is not in it,              *)
LEMMA NeverLess ==
  ASSUME NEW S, NEW q \in Seq(S), q # <<>>, NEW x
  PROVE  Never(q, x) <=> Head(q) # x /\ Never(Tail(q), x)
<1> DEFINE r == Tail(q)
<1>1. /\ Len(r) = Len(q) - 1 /\ 1 \in 1 .. Len(q) /\ q[1] = Head(q)
      /\ \A i \in 1 .. Len(r) : i + 1 \in 1 .. Len(q) /\ r[i] = q[i + 1]
      /\ \A i \in 1 .. Len(q) : i = 1 \/ (i - 1 \in 1 .. Len(r) /\ r[i - 1] = q[i])
  BY HandledIs
<1> HIDE DEF r
<1>2. Never(q, x) <=> Head(q) # x /\ Never(r, x)
  BY <1>1, Zenon DEF Never
<1> QED
  BY <1>2 DEF r

(* one that comes after all of another,                                    *)
LEMMA LastlyLess ==
  ASSUME NEW S, NEW q \in Seq(S), q # <<>>, NEW x, NEW y, Lastly(q, x, y)
  PROVE  \/ Lastly(Tail(q), x, y)
         \/ Head(q) = x /\ Never(Tail(q), x) /\ Never(Tail(q), y)
<1> DEFINE r == Tail(q)
<1>1. /\ Len(q) \in Nat /\ Len(r) = Len(q) - 1 /\ 1 \in 1 .. Len(q) /\ q[1] = Head(q)
      /\ \A i \in 1 .. Len(r) : i + 1 \in 1 .. Len(q) /\ r[i] = q[i + 1]
      /\ \A i \in 1 .. Len(q) : i = 1 \/ (i - 1 \in 1 .. Len(r) /\ r[i - 1] = q[i])
  BY HandledIs
<1> HIDE DEF r
<1>2. PICK i \in 1 .. Len(q) : q[i] = x /\ \A j \in 1 .. Len(q) : j > i => q[j] # y
  BY DEF Lastly
<1>3. CASE i # 1
  <2>1. i - 1 \in 1 .. Len(r) /\ r[i - 1] = x
    BY <1>1, <1>2, <1>3
  <2>2. \A j \in 1 .. Len(r) : j > i - 1 => r[j] # y
    BY <1>1, <1>2
  <2> QED
    BY <2>1, <2>2 DEF Lastly, r
<1>4. CASE i = 1
  <2>1. Head(q) = x
    BY <1>1, <1>2, <1>4
  <2>2. \A j \in 1 .. Len(r) : r[j] # y
    BY <1>1, <1>2, <1>4
  <2>3. CASE Never(r, x)
    BY <2>1, <2>2, <2>3 DEF Never, r
  <2>4. CASE ~Never(r, x)
    BY <2>2, <2>4 DEF Never, Lastly, r
  <2> QED
    BY <2>3, <2>4
<1> QED
  BY <1>3, <1>4

(* and additions with a removal between them.                              *)
LEMMA InTurnLess ==
  ASSUME NEW S, NEW q \in Seq(S), q # <<>>, NEW app, NEW shown, NEW now,
         InTurn(q, app, shown),
         Head(q) = AddedSignal(app) \/ (app \in now => app \in shown) \/ Never(q, AddedSignal(app)),
         Head(q) = RemovedSignal(app) => app \notin now
  PROVE  /\ InTurn(Tail(q), app, now)
         /\ Head(q) = AddedSignal(app) => app \notin shown
<1> DEFINE r == Tail(q)
<1>1. /\ Len(q) \in Nat /\ Len(r) = Len(q) - 1 /\ 1 \in 1 .. Len(q) /\ q[1] = Head(q)
      /\ \A i \in 1 .. Len(r) : i + 1 \in 1 .. Len(q) /\ r[i] = q[i + 1]
      /\ \A i \in 1 .. Len(q) : i = 1 \/ (i - 1 \in 1 .. Len(r) /\ r[i - 1] = q[i])
  BY HandledIs
<1> HIDE DEF r
<1> DEFINE x == AddedSignal(app)  y == RemovedSignal(app)
<1>0. x # y
  BY DrawerEventsApart
<1> HIDE DEF x, y
<1>2. \A i \in 1 .. Len(q) : q[i] = x =>
        \/ app \notin shown /\ \A k \in 1 .. Len(q) : k < i => q[k] # x
        \/ \E j \in 1 .. Len(q) : /\ j < i /\ q[j] = y
                                  /\ \A k \in 1 .. Len(q) : j < k /\ k < i => q[k] # x
  BY DEF InTurn, x, y
<1>3. q[1] = x => app \notin shown
  BY <1>1, <1>2
<1>4. ASSUME NEW i \in 1 .. Len(r), r[i] = x
      PROVE  \/ app \notin now /\ \A k \in 1 .. Len(r) : k < i => r[k] # x
             \/ \E j \in 1 .. Len(r) : /\ j < i /\ r[j] = y
                                       /\ \A k \in 1 .. Len(r) : j < k /\ k < i => r[k] # x
  <2>1. i + 1 \in 1 .. Len(q) /\ q[i + 1] = x
    BY <1>1, <1>4
  <2>2. CASE app \notin shown /\ \A k \in 1 .. Len(q) : k < i + 1 => q[k] # x
    <3>1. q[1] # x /\ \A k \in 1 .. Len(r) : k < i => r[k] # x
      BY <1>1, <2>2
    <3>2. ~Never(q, x)
      BY <2>1 DEF Never
    <3>3. app \notin now
      BY <1>1, <2>2, <3>1, <3>2 DEF x
    <3> QED
      BY <3>1, <3>3
  <2>3. ASSUME NEW j \in 1 .. Len(q), j < i + 1, q[j] = y,
               \A k \in 1 .. Len(q) : j < k /\ k < i + 1 => q[k] # x
        PROVE  \/ app \notin now /\ \A k \in 1 .. Len(r) : k < i => r[k] # x
               \/ \E l \in 1 .. Len(r) : /\ l < i /\ r[l] = y
                                         /\ \A k \in 1 .. Len(r) : l < k /\ k < i => r[k] # x
    <3>1. CASE j = 1
      <4>1. app \notin now
        BY <1>1, <2>3, <3>1 DEF y
      <4>2. \A k \in 1 .. Len(r) : k < i => r[k] # x
        BY <1>1, <2>3, <3>1
      <4> QED
        BY <4>1, <4>2
    <3>2. CASE j # 1
      <4>1. j - 1 \in 1 .. Len(r) /\ r[j - 1] = y /\ j - 1 < i
        BY <1>1, <2>3, <3>2
      <4>2. \A k \in 1 .. Len(r) : j - 1 < k /\ k < i => r[k] # x
        BY <1>1, <2>3
      <4> QED
        BY <4>1, <4>2
    <3> QED
      BY <3>1, <3>2
  <2> QED
    BY <1>2, <2>1, <2>2, <2>3
<1> QED
  BY <1>1, <1>3, <1>4 DEF InTurn, r, x, y

(* A finite set as a list: each element once.                              *)
LEMMA SetAsList ==
  ASSUME NEW T, IsFiniteSet(T)
  PROVE  /\ SetToSeq(T) \in Seq(T) /\ IsInjective(SetToSeq(T)) /\ ToSet(SetToSeq(T)) = T
         /\ DOMAIN SetToSeq(T) = 1 .. Len(SetToSeq(T))
<1> DEFINE n == Cardinality(T)  f == SetToSeq(T)
<1>1. n \in Nat /\ ExistsBijection(1 .. n, T)
  BY FS_CardinalityType
<1>2. \E g \in [1 .. n -> T] : IsInjective(g)
  BY <1>1 DEF ExistsBijection, Bijection, Injection, IsInjective
<1>3. f \in [1 .. n -> T] /\ IsInjective(f)
  BY <1>2 DEF SetToSeq
<1>4. IsFiniteSet(1 .. n) /\ Cardinality(1 .. n) = n
  BY <1>1, FS_Interval
<1>5. f \in Surjection(1 .. n, T)
  <2>1. f \in Injection(1 .. n, T)
    BY <1>3 DEF Injection, IsInjective
  <2> QED
    BY <1>4, <2>1, FS_Injection
<1> HIDE DEF n, f
<1>6. f \in Seq(T) /\ DOMAIN f = 1 .. n /\ Len(f) = n
  BY <1>1, <1>3
<1>7. ToSet(f) = T
  BY <1>3, <1>5, <1>6 DEF ToSet, Surjection
<1> QED
  BY <1>3, <1>6, <1>7 DEF f

(* AppDrawerModel::m_list after appAdded() and appRemoved().               *)
LEMMA DrawerAppends ==
  ASSUME NEW S, NEW s \in Seq(S), NEW app \in S
  PROVE  /\ Append(s, app) \in Seq(S)
         /\ ToSet(Append(s, app)) = ToSet(s) \cup {app}
         /\ IsInjective(s) /\ app \notin ToSet(s) => IsInjective(Append(s, app))
<1> DEFINE t == Append(s, app)
<1>1. /\ t \in Seq(S) /\ Len(t) = Len(s) + 1 /\ Len(s) \in Nat
      /\ DOMAIN s = 1 .. Len(s) /\ DOMAIN t = 1 .. Len(s) + 1
      /\ t[Len(s) + 1] = app /\ \A i \in 1 .. Len(s) : t[i] = s[i]
  OBVIOUS
<1> HIDE DEF t
<1>2. \A i \in 1 .. Len(s) + 1 : i \in 1 .. Len(s) \/ i = Len(s) + 1
  BY <1>1
<1>3. Len(s) + 1 \in 1 .. Len(s) + 1 /\ \A i \in 1 .. Len(s) : i \in 1 .. Len(s) + 1
  BY <1>1
<1>4. ToSet(t) = ToSet(s) \cup {app}
  BY <1>1, <1>2, <1>3 DEF ToSet
<1>5. ASSUME IsInjective(s), app \notin ToSet(s) PROVE IsInjective(t)
  BY <1>1, <1>2, <1>5 DEF IsInjective, ToSet
<1> QED
  BY <1>1, <1>4, <1>5 DEF t

(* A list without one of its elements.                                     *)
LEMMA TakenOut ==
  ASSUME NEW S, NEW s \in Seq(S), NEW i \in 1 .. Len(s), IsInjective(s),
         NEW t, t = RemoveAt(s, i)
  PROVE  t \in Seq(S) /\ IsInjective(t) /\ ToSet(t) = ToSet(s) \ {s[i]}
<1>1. /\ RemoveAt(s, i) \in Seq(S) /\ Len(RemoveAt(s, i)) = Len(s) - 1
      /\ \A j \in 1 .. Len(s) - 1 : RemoveAt(s, i)[j] = IF j < i THEN s[j] ELSE s[j + 1]
  BY RemoveIs
<1>2. /\ t \in Seq(S) /\ Len(t) = Len(s) - 1 /\ Len(s) \in Nat /\ i \in Nat /\ i <= Len(s)
      /\ \A j \in 1 .. Len(s) - 1 : t[j] = IF j < i THEN s[j] ELSE s[j + 1]
  BY <1>1
<1>3. DOMAIN s = 1 .. Len(s) /\ DOMAIN t = 1 .. Len(s) - 1
  BY <1>2
<1>4. \A j, k \in 1 .. Len(s) : s[j] = s[k] => j = k
  BY <1>3 DEF IsInjective
<1> DEFINE n == Len(s)
           at(j) == IF j < i THEN j ELSE j + 1
<1> HIDE DEF n
<1>5. \A j \in 1 .. n - 1 : at(j) \in 1 .. n /\ at(j) # i /\ t[j] = s[at(j)]
  BY <1>2 DEF n
<1>6. \A j, k \in 1 .. n - 1 : at(j) = at(k) => j = k
  BY <1>2 DEF n
<1> HIDE DEF at
<1>7. \A j, k \in 1 .. n - 1 : t[j] = t[k] => j = k
  BY <1>4, <1>5, <1>6 DEF n
<1>8. \A j \in 1 .. n - 1 : t[j] \in ToSet(s) \ {s[i]}
  BY <1>3, <1>4, <1>5 DEF ToSet, n
<1>9. ASSUME NEW a \in ToSet(s) \ {s[i]} PROVE a \in ToSet(t)
  <2>1. PICK k \in 1 .. n : s[k] = a
    BY <1>3 DEF ToSet, n
  <2>2. k # i /\ k \in Nat /\ n \in Nat
    BY <1>2, <2>1 DEF n
  <2>3. CASE k < i
    <3>1. k \in 1 .. n - 1 /\ at(k) = k
      BY <1>2, <2>1, <2>2, <2>3 DEF at, n
    <3> QED
      BY <1>3, <1>5, <2>1, <3>1 DEF ToSet, n
  <2>4. CASE k > i
    <3>1. k - 1 \in 1 .. n - 1 /\ at(k - 1) = k
      BY <1>2, <2>1, <2>2, <2>4 DEF at, n
    <3> QED
      BY <1>3, <1>5, <2>1, <3>1 DEF ToSet, n
  <2> QED
    BY <1>2, <2>2, <2>3, <2>4
<1>10. ToSet(t) = {t[j] : j \in 1 .. n - 1}
  BY <1>3 DEF ToSet, n
<1>11. ToSet(t) = ToSet(s) \ {s[i]}
  BY <1>8, <1>9, <1>10
<1>12. IsInjective(t)
  BY <1>3, <1>7 DEF IsInjective, n
<1> QED
  BY <1>2, <1>11, <1>12

(* The element that SelectInSeq finds.                                     *)
LEMMA Taken ==
  ASSUME NEW S, NEW s \in Seq(S), NEW app, Contains(s, app),
         NEW I, I = {j \in 1 .. Len(s) : s[j] = app}
  PROVE  I # {} /\ Min(I) \in 1 .. Len(s) /\ s[Min(I)] = app /\ RemoveAt(s, Min(I)) \in Seq(S)
<1>1. I \subseteq Nat /\ I # {}
  BY DEF Contains
<1>2. Min(I) \in I
  BY <1>1, HasLeast DEF Min
<1> DEFINE i == Min(I)
<1>3. i \in 1 .. Len(s) /\ s[i] = app
  BY <1>2
<1> HIDE DEF i
<1>4. RemoveAt(s, i) \in Seq(S)
  BY <1>3, RemoveIs
<1> QED
  BY <1>1, <1>3, <1>4 DEF i

(* A removed application is not listed any more; the others are.           *)
LEMMA DrawerTakesOut ==
  ASSUME NEW S, NEW s \in Seq(S), NEW app, Contains(s, app),
         NEW t, t = RemoveAt(s, SelectInSeq(s, LAMBDA a : a = app))
  PROVE  t \in Seq(S) /\ (IsInjective(s) => IsInjective(t) /\ ToSet(t) = ToSet(s) \ {app})
<1> DEFINE I == {j \in 1 .. Len(s) : s[j] = app}
           i == Min(I)
<1>1. I # {} /\ i \in 1 .. Len(s) /\ s[i] = app /\ RemoveAt(s, i) \in Seq(S)
  BY Taken
<1>2. SelectInSeq(s, LAMBDA a : a = app) = i
  BY <1>1 DEF SelectInSeq
<1>3. t = RemoveAt(s, i)
  BY <1>2
<1> HIDE DEF i
<1> QED
  BY <1>1, <1>3, TakenOut

(* An event that may come once, and one that comes last.                   *)
LEMMA OnceOnly ==
  ASSUME NEW S, NEW q \in Seq(S), NEW x
  PROVE  /\ \A s \in Seq(S) : AtMostOnce(q, x) /\ Never(s, x) => AtMostOnce(q \o s, x)
         /\ x \in S /\ Never(q, x) => AtMostOnce(q \o <<x>>, x)
         /\ q # <<>> /\ AtMostOnce(q, x) => /\ AtMostOnce(Tail(q), x)
                                           /\ (Head(q) = x => Never(Tail(q), x))
<1>1. ASSUME NEW s \in Seq(S), AtMostOnce(q, x), Never(s, x)
      PROVE  AtMostOnce(q \o s, x)
  <2> DEFINE r == q \o s
  <2>1. \A i \in 1 .. Len(r) : (i \in 1 .. Len(q) /\ r[i] = q[i]) \/ \E k \in 1 .. Len(s) : r[i] = s[k]
    BY Joined
  <2> HIDE DEF r
  <2>2. AtMostOnce(r, x)
    BY <1>1, <2>1 DEF AtMostOnce, Never
  <2> QED
    BY <2>2 DEF r
<1>2. ASSUME x \in S, Never(q, x) PROVE AtMostOnce(q \o <<x>>, x)
  <2> DEFINE s == <<x>>
  <2>1. s \in Seq(S) /\ Len(s) = 1
    BY <1>2
  <2> DEFINE r == q \o s
  <2> HIDE DEF s
  <2>2. \A i \in 1 .. Len(r) : i \in 1 .. Len(q) \/ i - Len(q) \in 1 .. 1
    <3>1. \A i \in 1 .. Len(r) : i \in 1 .. Len(q) \/ i - Len(q) \in 1 .. Len(s)
      BY <2>1, Joined
    <3> QED
      BY <2>1, <3>1
  <2>3. Len(q) \in Nat /\ \A i \in 1 .. Len(q) : r[i] = q[i]
    BY <2>1, Joined
  <2> HIDE DEF r
  <2>4. \A i \in 1 .. Len(r) : r[i] = x => i = Len(q) + 1
    BY <1>2, <2>2, <2>3 DEF Never
  <2>5. AtMostOnce(r, x)
    BY <2>4 DEF AtMostOnce
  <2> QED
    BY <2>5 DEF r, s
<1>3. ASSUME q # <<>>, AtMostOnce(q, x)
      PROVE  AtMostOnce(Tail(q), x) /\ (Head(q) = x => Never(Tail(q), x))
  <2> DEFINE r == Tail(q)
  <2>1. /\ Len(q) \in Nat /\ Len(r) = Len(q) - 1 /\ 1 \in 1 .. Len(q) /\ q[1] = Head(q)
        /\ \A i \in 1 .. Len(r) : i + 1 \in 1 .. Len(q) /\ r[i] = q[i + 1]
    BY <1>3, HandledIs
  <2> HIDE DEF r
  <2>2. AtMostOnce(r, x)
    BY <1>3, <2>1 DEF AtMostOnce
  <2>3. ASSUME Head(q) = x PROVE Never(r, x)
    BY <1>3, <2>1, <2>3 DEF AtMostOnce, Never
  <2> QED
    BY <2>2, <2>3 DEF r
<1> QED
  BY <1>1, <1>2, <1>3

(* What comes last is in the queue.                                        *)
LEMMA LastIsThere ==
  ASSUME NEW q, NEW x, NEW y
  PROVE  /\ Lastly(q, x, y) => ~Never(q, x)
         /\ ~Never(q, x) /\ Never(q, y) => Lastly(q, x, y)
BY DEF Lastly, Never

(* One signal, or two.                                                     *)
LEMMA FewEvents ==
  ASSUME NEW a, NEW b
  PROVE  /\ \A x : Never(<<a>>, x) <=> a # x
         /\ \A x : Never(<<a, b>>, x) <=> a # x /\ b # x
         /\ a # b => Lastly(<<a, b>>, b, a)
<1>1. Len(<<a>>) = 1 /\ <<a>>[1] = a /\ 1 .. 1 = {1}
  OBVIOUS
<1>2. Len(<<a, b>>) = 2 /\ <<a, b>>[1] = a /\ <<a, b>>[2] = b /\ 1 .. 2 = {1, 2}
  OBVIOUS
<1>3. \A x : Never(<<a>>, x) <=> a # x
  BY <1>1 DEF Never
<1>4. \A x : Never(<<a, b>>, x) <=> a # x /\ b # x
  BY <1>2 DEF Never
<1>5. a # b => Lastly(<<a, b>>, b, a)
  <2>1. \A j \in {1, 2} : ~(j > 2)
    OBVIOUS
  <2> QED
    BY <1>2, <2>1 DEF Lastly
<1> QED
  BY <1>3, <1>4, <1>5

(* Packages come and go.                                                   *)
LEMMA PackageKeeps ==
  ASSUME DrawerInv, NEW app \in DrawerApps, Package(app)
  PROVE  DrawerInv'
<1> DEFINE F(b) == FileChanged(b)
           D == DirectoryChanged
           s == IF IsWatched(app) THEN <<F(app), D>> ELSE <<D>>
<1>1. /\ fileNotices' = fileNotices \o s
      /\ onDisk' = IF app \in onDisk THEN onDisk \ {app} ELSE onDisk \cup {app}
      /\ UNCHANGED <<watchedFiles, queue, worker, result, refreshing, drawer>>
      /\ overlapped' = (overlapped \/ refreshing)
  BY DEF Package
<1>2. F(app) \in FileNotices /\ D \in FileNotices /\ fileNotices \in Seq(FileNotices)
  BY DEF FileNotices, DrawerInv, DrawerTypes
<1>3. s \in Seq(FileNotices)
  BY <1>2
<1>4. /\ \A b : F(b) # D /\ (F(b) = F(app) => b = app)
  BY DrawerEventsApart
<1>5. \A b : b # app => Never(s, F(b))
  BY <1>4, FewEvents
<1>6. ~Never(s, D) /\ (IsWatched(app) => ~Never(s, F(app)) /\ Lastly(s, D, F(app)))
  BY <1>4, FewEvents
<1>7. ~IsWatched(app) => Never(s, F(app))
  BY <1>4, FewEvents
<1> HIDE DEF s
<1>8. fileNotices' \in Seq(FileNotices)
  BY <1>1, <1>2, <1>3, Joined
<1>9. DrawerTypes'
  BY <1>1, <1>8 DEF DrawerInv, DrawerTypes
<1>10. ASSUME ~overlapped'
       PROVE  /\ \A b \in DrawerApps : Noticed(b)'
              /\ ~refreshing /\ ~refreshing'
              /\ worker' = "idle" /\ Never(queue', Refreshed) /\ IsInjective(drawer')
              /\ \A b \in DrawerApps : Signalled(b)'
  <2>1. ~overlapped /\ ~refreshing
    BY <1>1, <1>10
  <2>2. ASSUME NEW b \in DrawerApps PROVE Noticed(b)'
    <3>1. Noticed(b)
      BY <2>1 DEF DrawerInv
    <3>2. ~Never(fileNotices', D)
      BY <1>1, <1>2, <1>3, <1>6, NeverMore
    <3>3. Never(fileNotices', F(b)) <=> Never(fileNotices, F(b)) /\ Never(s, F(b))
      BY <1>1, <1>2, <1>3, NeverMore
    <3>4. /\ Lastly(fileNotices, D, F(b)) /\ Never(s, F(b)) => Lastly(fileNotices', D, F(b))
          /\ Lastly(s, D, F(b)) => Lastly(fileNotices', D, F(b))
      BY <1>1, <1>2, <1>3, LastlyMore
    <3>5. b \in watchedFiles \ onDisk' => ~Never(fileNotices', F(b))
      <4>1. CASE b # app
        BY <1>1, <3>1, <3>3, <4>1 DEF Noticed
      <4>2. CASE b = app /\ app \in onDisk /\ app \in watchedFiles /\ ~IsWatched(app)
        <5>1. FileChanged(app) \in ToSet(fileNotices)
          BY <4>2 DEF IsWatched
        <5>2. DOMAIN fileNotices = 1 .. Len(fileNotices)
          BY <1>2
        <5>3. ~Never(fileNotices, F(b))
          BY <4>2, <5>1, <5>2 DEF ToSet, Never
        <5> QED
          BY <3>3, <5>3
      <4> QED
        BY <1>1, <1>6, <3>3, <4>1, <4>2
    <3>6. Never(fileNotices', F(b)) \/ Lastly(fileNotices', D, F(b))
      <4>1. Never(fileNotices, F(b)) \/ Lastly(fileNotices, D, F(b))
        BY <3>1 DEF Noticed
      <4>2. Never(s, F(b)) \/ Lastly(s, D, F(b))
        BY <1>5, <1>6, <1>7
      <4> QED
        BY <3>3, <3>4, <4>1, <4>2
    <3> QED
      BY <1>1, <3>2, <3>5, <3>6 DEF Noticed
  <2>3. ASSUME NEW b \in DrawerApps PROVE Signalled(b)'
    <3>1. Signalled(b)
      BY <2>1 DEF DrawerInv
    <3>2. ~Never(fileNotices, F(b)) => ~Never(fileNotices', F(b))
      BY <1>1, <1>2, <1>3, NeverMore
    <3> QED
      BY <1>1, <3>1, <3>2 DEF Signalled
  <2> QED
    BY <1>1, <2>1, <2>2, <2>3 DEF DrawerInv
<1> QED
  BY <1>9, <1>10 DEF DrawerInv

(* The watcher is told that a file is gone.                                *)
LEMMA FileChangedKeeps ==
  ASSUME DrawerInv, NEW app \in DrawerApps, OnFileChanged(app)
  PROVE  DrawerInv'
<1> DEFINE F(b) == FileChanged(b)
           D == DirectoryChanged
           s == <<RemovedSignal(app)>>
<1>1. /\ fileNotices # <<>> /\ Head(fileNotices) = F(app)
      /\ fileNotices' = Tail(fileNotices)
      /\ watchedFiles' = watchedFiles \ {app}
      /\ queue' = queue \o s
      /\ UNCHANGED <<onDisk, worker, result, refreshing, drawer, overlapped>>
  <2>1. queue \in Seq(DrawerEvents)
    BY DEF DrawerInv, DrawerTypes
  <2>2. Append(queue, RemovedSignal(app)) = queue \o s
    BY <2>1, AppendIsConcat
  <2> QED
    BY <2>2 DEF OnFileChanged
<1>2. fileNotices \in Seq(FileNotices) /\ queue \in Seq(DrawerEvents) /\ s \in Seq(DrawerEvents)
  <2>1. RemovedSignal(app) \in DrawerEvents
    BY DEF DrawerEvents
  <2> QED
    BY <2>1 DEF DrawerInv, DrawerTypes
<1>3. /\ \A b : F(b) # D /\ (F(b) = F(app) => b = app)
  BY DrawerEventsApart
<1>4. /\ \A b : Never(s, AddedSignal(b)) /\ (b # app => Never(s, RemovedSignal(b)))
      /\ Never(s, Refreshed) /\ ~Never(s, RemovedSignal(app))
  BY DrawerEventsApart, FewEvents
<1> HIDE DEF s
<1>5. DrawerTypes'
  <2>1. fileNotices' \in Seq(FileNotices) /\ queue' \in Seq(DrawerEvents)
    BY <1>1, <1>2, Joined, HandledIs
  <2> QED
    BY <1>1, <2>1 DEF DrawerInv, DrawerTypes
<1>6. ASSUME ~overlapped
      PROVE  /\ \A b \in DrawerApps : Noticed(b)'
             /\ ~refreshing'
             /\ worker' = "idle" /\ Never(queue', Refreshed) /\ IsInjective(drawer')
             /\ \A b \in DrawerApps : Signalled(b)'
  <2>1. ~refreshing /\ worker = "idle" /\ Never(queue, Refreshed) /\ IsInjective(drawer)
    BY <1>1, <1>6 DEF DrawerInv, RefreshInv
  <2>2. ASSUME NEW b \in DrawerApps PROVE Noticed(b)'
    <3>1. Noticed(b)
      BY <1>6 DEF DrawerInv
    <3>2. Never(fileNotices, D) <=> Never(fileNotices', D)
      BY <1>1, <1>2, <1>3, NeverLess
    <3>3. b # app => (Never(fileNotices, F(b)) <=> Never(fileNotices', F(b)))
      BY <1>1, <1>2, <1>3, NeverLess
    <3>4. Never(fileNotices, F(b)) => Never(fileNotices', F(b))
      BY <1>1, <1>2, NeverLess
    <3>5. Lastly(fileNotices, D, F(b)) => Lastly(fileNotices', D, F(b))
      BY <1>1, <1>2, <1>3, LastlyLess
    <3>6. b = app => ~Never(fileNotices, F(b))
      BY <1>1, <1>2, NeverLess
    <3>7. Lastly(fileNotices', D, F(b)) => ~Never(fileNotices', D)
      BY LastIsThere
    <3>8. b = app => ~Never(fileNotices', D)
      BY <3>1, <3>5, <3>6, <3>7 DEF Noticed
    <3> QED
      BY <1>1, <3>1, <3>2, <3>3, <3>4, <3>5, <3>8 DEF Noticed
  <2>3. ASSUME NEW b \in DrawerApps PROVE Signalled(b)'
    <3>1. Signalled(b)
      BY <1>6, <2>1 DEF DrawerInv
    <3>2. InTurn(queue', b, ToSet(drawer))
      BY <1>1, <1>2, <1>4, <3>1, InTurnMore DEF Signalled
    <3>3. /\ \A x : Never(queue', x) <=> Never(queue, x) /\ Never(s, x)
          /\ \A x, y : Lastly(queue, x, y) /\ Never(s, y) => Lastly(queue', x, y)
          /\ \A x, y : Lastly(s, x, y) => Lastly(queue', x, y)
      BY <1>1, <1>2, NeverMore, LastlyMore
    <3>4. CASE b = app
      <4>1. Lastly(s, RemovedSignal(app), AddedSignal(app))
        BY <1>4, LastIsThere
      <4>2. b \notin watchedFiles' /\ Lastly(queue', RemovedSignal(b), AddedSignal(b))
        BY <1>1, <3>3, <3>4, <4>1
      <4> QED
        BY <1>1, <3>2, <4>2 DEF Signalled
    <3>5. CASE b # app
      <4>1. Never(fileNotices, F(b)) <=> Never(fileNotices', F(b))
        BY <1>1, <1>2, <1>3, <3>5, NeverLess
      <4>2. Never(s, AddedSignal(b)) /\ Never(s, RemovedSignal(b)) /\ (b \in watchedFiles' <=> b \in watchedFiles)
        BY <1>1, <1>4, <3>5
      <4> QED
        BY <1>1, <3>1, <3>2, <3>3, <4>1, <4>2 DEF Signalled
    <3> QED
      BY <3>4, <3>5
  <2>4. Never(queue', Refreshed)
    BY <1>1, <1>2, <1>4, <2>1, NeverMore
  <2> QED
    BY <1>1, <2>1, <2>2, <2>3, <2>4
<1> QED
  BY <1>1, <1>5, <1>6 DEF DrawerInv

(* It is told that a directory has changed, and signals each new file.     *)
LEMMA DirectoryChangedKeeps ==
  ASSUME DrawerInv, OnDirectoryChanged
  PROVE  DrawerInv'
<1> DEFINE F(b) == FileChanged(b)
           D == DirectoryChanged
           new == onDisk \ watchedFiles
           T == {AddedSignal(b) : b \in new}
           s == SetToSeq(T)
<1>1. /\ fileNotices # <<>> /\ Head(fileNotices) = D
      /\ fileNotices' = Tail(fileNotices)
      /\ watchedFiles' = watchedFiles \cup onDisk
      /\ queue' = queue \o s
      /\ UNCHANGED <<onDisk, worker, result, refreshing, drawer, overlapped>>
  BY DEF OnDirectoryChanged
<1>2. /\ fileNotices \in Seq(FileNotices) /\ queue \in Seq(DrawerEvents)
      /\ onDisk \subseteq DrawerApps /\ watchedFiles \subseteq DrawerApps
  BY DEF DrawerInv, DrawerTypes
<1>3. /\ s \in Seq(T) /\ IsInjective(s) /\ ToSet(s) = T /\ DOMAIN s = 1 .. Len(s)
  <2>1. IsFiniteSet(new)
    BY <1>2, DrawerAppsAssumption, FS_Subset
  <2>2. IsFiniteSet(T)
    <3>1. [b \in new |-> AddedSignal(b)] \in Surjection(new, T)
      BY DEF Surjection
    <3> QED
      BY <2>1, <3>1, FS_Surjection
  <2> HIDE DEF T
  <2> QED
    BY <2>2, SetAsList
<1>4. s \in Seq(DrawerEvents)
  <2>1. T \subseteq DrawerEvents
    BY <1>2 DEF DrawerEvents
  <2> HIDE DEF T, s
  <2> QED
    BY <1>3, <2>1
<1>5. /\ \A i \in 1 .. Len(s) : s[i] \in T
      /\ \A x \in T : \E i \in 1 .. Len(s) : s[i] = x
      /\ \A i, j \in 1 .. Len(s) : s[i] = s[j] => i = j
  <2> HIDE DEF T, s
  <2> QED
    BY <1>3 DEF ToSet, IsInjective
<1> HIDE DEF s
<1>6. /\ \A b : Never(s, RemovedSignal(b)) /\ (b \notin new => Never(s, AddedSignal(b)))
                /\ (b \in new => ~Never(s, AddedSignal(b))) /\ AtMostOnce(s, AddedSignal(b))
      /\ Never(s, Refreshed)
  <2>1. \A b : /\ RemovedSignal(b) \notin T
               /\ (b \notin new => AddedSignal(b) \notin T) /\ (b \in new => AddedSignal(b) \in T)
    BY DrawerEventsApart
  <2>2. Refreshed \notin T
    BY DrawerEventsApart
  <2> HIDE DEF T, new
  <2> QED
    BY <1>5, <2>1, <2>2 DEF Never, AtMostOnce
<1>7. \A b : F(b) # D
  BY DrawerEventsApart
<1>8. DrawerTypes'
  <2>1. fileNotices' \in Seq(FileNotices) /\ queue' \in Seq(DrawerEvents)
    BY <1>1, <1>2, <1>4, Joined, HandledIs
  <2> QED
    BY <1>1, <1>2, <2>1 DEF DrawerInv, DrawerTypes
<1>9. ASSUME ~overlapped
      PROVE  /\ \A b \in DrawerApps : Noticed(b)'
             /\ ~refreshing'
             /\ worker' = "idle" /\ Never(queue', Refreshed) /\ IsInjective(drawer')
             /\ \A b \in DrawerApps : Signalled(b)'
  <2>1. ~refreshing /\ worker = "idle" /\ Never(queue, Refreshed) /\ IsInjective(drawer)
    BY <1>1, <1>9 DEF DrawerInv, RefreshInv
  <2>2. \A b : Never(fileNotices, F(b)) <=> Never(fileNotices', F(b))
    BY <1>1, <1>2, <1>7, NeverLess
  <2>3. ASSUME NEW b \in DrawerApps PROVE Noticed(b)'
    <3>1. Noticed(b)
      BY <1>9 DEF DrawerInv
    <3>2. Lastly(fileNotices, D, F(b)) => Lastly(fileNotices', D, F(b)) \/ Never(fileNotices', F(b))
      BY <1>1, <1>2, LastlyLess
    <3> QED
      BY <1>1, <2>2, <3>1, <3>2 DEF Noticed
  <2>4. ASSUME NEW b \in DrawerApps PROVE Signalled(b)'
    <3>1. Signalled(b)
      BY <1>9, <2>1 DEF DrawerInv
    <3>2. InTurn(queue', b, ToSet(drawer))
      <4>1. \/ Never(s, AddedSignal(b))
            \/ /\ AtMostOnce(s, AddedSignal(b))
               /\ Lastly(queue, RemovedSignal(b), AddedSignal(b)) \/ (Never(queue, AddedSignal(b)) /\ b \notin ToSet(drawer))
        BY <1>6, <3>1 DEF Signalled
      <4> QED
        BY <1>1, <1>2, <1>4, <3>1, <4>1, InTurnMore DEF Signalled
    <3>3. /\ \A x : Never(queue', x) <=> Never(queue, x) /\ Never(s, x)
          /\ \A x, y : Lastly(queue, x, y) /\ Never(s, y) => Lastly(queue', x, y)
          /\ \A x, y : Lastly(s, x, y) => Lastly(queue', x, y)
      BY <1>1, <1>2, <1>4, NeverMore, LastlyMore
    <3>4. CASE b \in new
      <4>1. Lastly(s, AddedSignal(b), RemovedSignal(b))
        BY <1>6, <3>4, LastIsThere
      <4>2. b \in watchedFiles' /\ Lastly(queue', AddedSignal(b), RemovedSignal(b))
        BY <1>1, <3>3, <3>4, <4>1
      <4> QED
        BY <1>1, <3>2, <4>2 DEF Signalled
    <3>5. CASE b \notin new
      <4>1. Never(s, AddedSignal(b)) /\ Never(s, RemovedSignal(b)) /\ (b \in watchedFiles' <=> b \in watchedFiles)
        BY <1>1, <1>6, <3>5
      <4> QED
        BY <1>1, <2>2, <3>1, <3>2, <3>3, <4>1 DEF Signalled
    <3> QED
      BY <3>4, <3>5
  <2>5. Never(queue', Refreshed)
    BY <1>1, <1>2, <1>4, <1>6, <2>1, NeverMore
  <2> QED
    BY <1>1, <2>1, <2>3, <2>4, <2>5
<1> QED
  BY <1>1, <1>8, <1>9 DEF DrawerInv

(* A queued event that is about no application, with a thread that goes on *)
(* if there is a refresh.                                                  *)
LEMMA NoSignalKeeps ==
  ASSUME DrawerInv, NEW x \in {Refreshed, IconCacheChanged},
         queue' = queue \o <<x>>,
         UNCHANGED <<onDisk, fileNotices, watchedFiles, refreshing, drawer, overlapped>>
  PROVE  /\ queue' \in Seq(DrawerEvents)
         /\ ~overlapped => /\ \A b \in DrawerApps : Noticed(b)'
                           /\ ~refreshing => \A b \in DrawerApps : Signalled(b)'
                           /\ refreshing => \A b \in DrawerApps :
                                Never(queue', AddedSignal(b)) /\ Never(queue', RemovedSignal(b))
<1> DEFINE s == <<x>>
<1>1. queue \in Seq(DrawerEvents) /\ s \in Seq(DrawerEvents)
  <2>1. x \in DrawerEvents
    BY DEF DrawerEvents
  <2> QED
    BY <2>1 DEF DrawerInv, DrawerTypes
<1>2. \A b : Never(s, AddedSignal(b)) /\ Never(s, RemovedSignal(b))
  BY DrawerEventsApart, FewEvents
<1> HIDE DEF s
<1>3. queue' \in Seq(DrawerEvents)
  BY <1>1, Joined DEF s
<1>4. /\ \A y : Never(queue', y) <=> Never(queue, y) /\ Never(s, y)
      /\ \A y, z : Lastly(queue, y, z) /\ Never(s, z) => Lastly(queue', y, z)
  BY <1>1, NeverMore, LastlyMore DEF s
<1>5. ASSUME ~overlapped, NEW b \in DrawerApps PROVE Noticed(b)'
  BY <1>5 DEF DrawerInv, Noticed
<1>6. ASSUME ~overlapped, ~refreshing, NEW b \in DrawerApps PROVE Signalled(b)'
  <2>1. Signalled(b)
    BY <1>6 DEF DrawerInv
  <2>2. InTurn(queue', b, ToSet(drawer))
    BY <1>1, <1>2, <2>1, InTurnMore DEF Signalled, s
  <2> QED
    BY <1>2, <1>4, <2>1, <2>2 DEF Signalled
<1>7. ASSUME ~overlapped, refreshing, NEW b \in DrawerApps
      PROVE  Never(queue', AddedSignal(b)) /\ Never(queue', RemovedSignal(b))
  BY <1>2, <1>4, <1>7 DEF DrawerInv, RefreshInv
<1> QED
  BY <1>3, <1>5, <1>6, <1>7

(* IconCacheWatcher.                                                       *)
LEMMA CacheFileKeeps ==
  ASSUME DrawerInv, CacheFileChanged
  PROVE  DrawerInv'
<1> DEFINE s == <<IconCacheChanged>>
<1>1. queue' = queue \o s
  <2>1. queue \in Seq(DrawerEvents)
    BY DEF DrawerInv, DrawerTypes
  <2>2. Append(queue, IconCacheChanged) = queue \o s
    BY <2>1, AppendIsConcat
  <2> QED
    BY <2>2 DEF CacheFileChanged
<1>2. UNCHANGED <<onDisk, fileNotices, watchedFiles, worker, result, refreshing, drawer, overlapped>>
  BY DEF CacheFileChanged
<1>3. /\ queue' \in Seq(DrawerEvents)
      /\ ~overlapped => /\ \A b \in DrawerApps : Noticed(b)'
                        /\ ~refreshing => \A b \in DrawerApps : Signalled(b)'
                        /\ refreshing => \A b \in DrawerApps :
                             Never(queue', AddedSignal(b)) /\ Never(queue', RemovedSignal(b))
  BY <1>1, <1>2, NoSignalKeeps
<1>4. queue \in Seq(DrawerEvents) /\ s \in Seq(DrawerEvents) /\ Never(s, Refreshed)
  <2>1. IconCacheChanged \in DrawerEvents
    BY DEF DrawerEvents
  <2>2. Never(s, Refreshed)
    BY DrawerEventsApart, FewEvents
  <2> QED
    BY <2>1, <2>2 DEF DrawerInv, DrawerTypes
<1> HIDE DEF s
<1>5. /\ Never(queue, Refreshed) <=> Never(queue', Refreshed)
      /\ AtMostOnce(queue, Refreshed) => AtMostOnce(queue', Refreshed)
  BY <1>1, <1>4, NeverMore, OnceOnly
<1>6. DrawerTypes'
  BY <1>2, <1>3 DEF DrawerInv, DrawerTypes
<1>7. ~overlapped /\ refreshing => RefreshInv'
  BY <1>2, <1>3, <1>5 DEF DrawerInv, RefreshInv
<1> QED
  BY <1>2, <1>3, <1>5, <1>6, <1>7 DEF DrawerInv

(* The thread lists what is installed, and its end is queued.              *)
LEMMA ThreadKeeps ==
  ASSUME DrawerInv, ThreadLists \/ ThreadEnds
  PROVE  DrawerInv'
<1>1. CASE ThreadLists
  <2>1. /\ worker = "started" /\ worker' = "listed" /\ result' = onDisk
        /\ UNCHANGED <<onDisk, fileNotices, watchedFiles, queue, refreshing, drawer, overlapped>>
    BY <1>1 DEF ThreadLists
  <2>2. DrawerTypes'
    BY <2>1 DEF DrawerInv, DrawerTypes
  <2>3. ASSUME ~overlapped PROVE refreshing /\ RefreshInv' /\ \A b \in DrawerApps : Noticed(b)'
    <3>1. refreshing /\ RefreshInv /\ \A b \in DrawerApps : Noticed(b)
      BY <2>1, <2>3 DEF DrawerInv
    <3> QED
      BY <2>1, <3>1 DEF RefreshInv, Noticed
  <2> QED
    BY <2>1, <2>2, <2>3 DEF DrawerInv
<1>2. CASE ThreadEnds
  <2> DEFINE s == <<Refreshed>>
  <2>1. queue \in Seq(DrawerEvents) /\ Refreshed \in DrawerEvents
    BY DEF DrawerInv, DrawerTypes, DrawerEvents
  <2>2. /\ worker = "listed" /\ worker' = "idle" /\ result' = result \cap onDisk
        /\ queue' = queue \o s
        /\ UNCHANGED <<onDisk, fileNotices, watchedFiles, refreshing, drawer, overlapped>>
    <3>1. Append(queue, Refreshed) = queue \o s
      BY <2>1, AppendIsConcat
    <3> QED
      BY <1>2, <3>1 DEF ThreadEnds
  <2>3. /\ queue' \in Seq(DrawerEvents)
        /\ ~overlapped => /\ \A b \in DrawerApps : Noticed(b)'
                          /\ refreshing => \A b \in DrawerApps :
                               Never(queue', AddedSignal(b)) /\ Never(queue', RemovedSignal(b))
    BY <2>2, NoSignalKeeps
  <2>4. Never(queue, Refreshed) => AtMostOnce(queue', Refreshed)
    BY <2>1, <2>2, OnceOnly
  <2> HIDE DEF s
  <2>5. DrawerTypes'
    BY <2>2, <2>3 DEF DrawerInv, DrawerTypes
  <2>6. ASSUME ~overlapped PROVE refreshing /\ RefreshInv'
    <3>1. refreshing /\ RefreshInv
      BY <2>2, <2>6 DEF DrawerInv
    <3> QED
      BY <2>2, <2>3, <2>4, <2>6, <3>1 DEF RefreshInv
  <2> QED
    BY <2>2, <2>3, <2>5, <2>6 DEF DrawerInv
<1> QED
  BY <1>1, <1>2

(* A handled event changes nothing for the other applications.             *)
LEMMA OthersStay ==
  ASSUME DrawerInv, ~overlapped, ~refreshing, queue # <<>>, Dequeue,
         NEW b \in DrawerApps, Head(queue) \notin {AddedSignal(b), RemovedSignal(b)},
         b \in ToSet(drawer') <=> b \in ToSet(drawer)
  PROVE  Signalled(b)'
<1>1. /\ queue' = Tail(queue) /\ UNCHANGED <<onDisk, fileNotices, watchedFiles>>
      /\ queue \in Seq(DrawerEvents) /\ Signalled(b)
  BY DEF Dequeue, DrawerInv, DrawerTypes
<1>2. InTurn(queue', b, ToSet(drawer'))
  BY <1>1, InTurnLess DEF Signalled
<1>3. /\ Never(queue, AddedSignal(b)) <=> Never(queue', AddedSignal(b))
      /\ Never(queue, RemovedSignal(b)) <=> Never(queue', RemovedSignal(b))
      /\ Lastly(queue, AddedSignal(b), RemovedSignal(b)) => Lastly(queue', AddedSignal(b), RemovedSignal(b))
      /\ Lastly(queue, RemovedSignal(b), AddedSignal(b)) => Lastly(queue', RemovedSignal(b), AddedSignal(b))
  BY <1>1, NeverLess, LastlyLess
<1> QED
  BY <1>1, <1>2, <1>3 DEF Signalled

(* The types and what the watcher knows, whatever is handled.              *)
LEMMA DequeueKeeps ==
  ASSUME DrawerInv, queue # <<>>, Dequeue
  PROVE  /\ queue \in Seq(DrawerEvents) /\ queue' = Tail(queue) /\ queue' \in Seq(DrawerEvents)
         /\ onDisk' \subseteq DrawerApps /\ watchedFiles' \subseteq DrawerApps
         /\ fileNotices' \in Seq(FileNotices)
         /\ \A x : Never(queue, x) <=> Head(queue) # x /\ Never(queue', x)
         /\ ~overlapped => \A b \in DrawerApps : Noticed(b)'
<1>1. /\ queue' = Tail(queue) /\ UNCHANGED <<onDisk, fileNotices, watchedFiles>>
      /\ queue \in Seq(DrawerEvents) /\ DrawerTypes
  BY DEF Dequeue, DrawerInv, DrawerTypes
<1>2. ASSUME ~overlapped, NEW b \in DrawerApps PROVE Noticed(b)'
  BY <1>1, <1>2 DEF DrawerInv, Noticed
<1>3. queue' \in Seq(DrawerEvents) /\ \A x : Never(queue, x) <=> Head(queue) # x /\ Never(queue', x)
  BY <1>1, HandledIs, NeverLess
<1> QED
  BY <1>1, <1>2, <1>3 DEF DrawerTypes

(* appAdded().                                                             *)
LEMMA AppAddedKeeps ==
  ASSUME DrawerInv, queue # <<>>, Dequeue, NEW app \in DrawerApps,
         Head(queue) = AddedSignal(app), AppAdded(app)
  PROVE  DrawerInv'
<1>1. /\ drawer' = IF refreshing \/ app \notin onDisk THEN drawer ELSE Append(drawer, app)
      /\ UNCHANGED <<worker, result, refreshing, overlapped, onDisk, fileNotices, watchedFiles>>
      /\ drawer \in Seq(DrawerApps)
  BY DEF AppAdded, Dequeue, DrawerInv, DrawerTypes
<1>2. /\ Append(drawer, app) \in Seq(DrawerApps)
      /\ ToSet(Append(drawer, app)) = ToSet(drawer) \cup {app}
      /\ IsInjective(drawer) /\ app \notin ToSet(drawer) => IsInjective(Append(drawer, app))
  BY <1>1, DrawerAppends
<1>3. DrawerTypes'
  BY <1>1, <1>2, DequeueKeeps DEF DrawerInv, DrawerTypes
<1>4. ASSUME ~overlapped
      PROVE  /\ ~refreshing /\ worker' = "idle" /\ Never(queue', Refreshed) /\ IsInjective(drawer')
             /\ \A b \in DrawerApps : Signalled(b)'
  <2>1. ~refreshing /\ worker = "idle" /\ Never(queue, Refreshed) /\ IsInjective(drawer)
    BY <1>4, DequeueKeeps DEF DrawerInv, RefreshInv
  <2>2. Signalled(app) /\ Noticed(app)
    BY <1>4, <2>1 DEF DrawerInv
  <2>3. InTurn(queue', app, ToSet(drawer')) /\ app \notin ToSet(drawer)
    <3>1. Head(queue) # RemovedSignal(app)
      BY DrawerEventsApart
    <3> QED
      BY <2>2, <3>1, DequeueKeeps, InTurnLess DEF Signalled
  <2>4. IsInjective(drawer') /\ ToSet(drawer') = IF app \in onDisk THEN ToSet(drawer) \cup {app} ELSE ToSet(drawer)
    BY <1>1, <1>2, <2>1, <2>3
  <2>5. Signalled(app)'
    <3>1. app \notin watchedFiles => Lastly(queue', RemovedSignal(app), AddedSignal(app))
      <4>1. RemovedSignal(app) # AddedSignal(app)
        BY DrawerEventsApart
      <4> QED
        BY <2>2, <4>1, DequeueKeeps, LastlyLess DEF Signalled
    <3>2. app \in watchedFiles => \/ Lastly(queue', AddedSignal(app), RemovedSignal(app))
                                  \/ Never(queue', AddedSignal(app)) /\ Never(queue', RemovedSignal(app))
      BY <2>2, DequeueKeeps, LastlyLess DEF Signalled
    <3>3. app \in watchedFiles => app \in ToSet(drawer') \/ ~Never(fileNotices, FileChanged(app))
      BY <2>2, <2>4 DEF Noticed
    <3> QED
      BY <1>1, <2>3, <3>1, <3>2, <3>3 DEF Signalled
  <2>6. ASSUME NEW b \in DrawerApps, b # app PROVE Signalled(b)'
    <3>1. Head(queue) \notin {AddedSignal(b), RemovedSignal(b)}
      BY <2>6, DrawerEventsApart
    <3>2. b \in ToSet(drawer') <=> b \in ToSet(drawer)
      BY <2>4, <2>6
    <3> QED
      BY <1>4, <2>1, <3>1, <3>2, OthersStay
  <2>7. Never(queue', Refreshed)
    BY <2>1, DequeueKeeps
  <2> QED
    BY <1>1, <2>1, <2>4, <2>5, <2>6, <2>7
<1> QED
  BY <1>1, <1>3, <1>4, DequeueKeeps DEF DrawerInv

(* appRemoved().                                                           *)
LEMMA AppRemovedKeeps ==
  ASSUME DrawerInv, queue # <<>>, Dequeue, NEW app \in DrawerApps,
         Head(queue) = RemovedSignal(app), AppRemoved(app)
  PROVE  DrawerInv'
<1> DEFINE t == RemoveAt(drawer, SelectInSeq(drawer, LAMBDA a : a = app))
<1>1. /\ drawer' = IF refreshing \/ ~Contains(drawer, app) THEN drawer ELSE t
      /\ UNCHANGED <<worker, result, refreshing, overlapped, onDisk, fileNotices, watchedFiles>>
      /\ drawer \in Seq(DrawerApps)
  BY DEF AppRemoved, Dequeue, DrawerInv, DrawerTypes
<1>2. ASSUME Contains(drawer, app)
      PROVE  /\ t \in Seq(DrawerApps)
             /\ IsInjective(drawer) => IsInjective(t) /\ ToSet(t) = ToSet(drawer) \ {app}
  BY <1>1, <1>2, DrawerTakesOut, Zenon
<1> HIDE DEF t
<1>3. DrawerTypes'
  BY <1>1, <1>2, DequeueKeeps DEF DrawerInv, DrawerTypes
<1>4. ASSUME ~overlapped
      PROVE  /\ ~refreshing /\ worker' = "idle" /\ Never(queue', Refreshed) /\ IsInjective(drawer')
             /\ \A b \in DrawerApps : Signalled(b)'
  <2>1. ~refreshing /\ worker = "idle" /\ Never(queue, Refreshed) /\ IsInjective(drawer)
    BY <1>4, DequeueKeeps DEF DrawerInv, RefreshInv
  <2>2. Signalled(app)
    BY <1>4, <2>1 DEF DrawerInv
  <2>3. IsInjective(drawer') /\ ToSet(drawer') = ToSet(drawer) \ {app}
    <3>1. Contains(drawer, app) <=> app \in ToSet(drawer)
      <4>1. DOMAIN drawer = 1 .. Len(drawer)
        BY <1>1
      <4> QED
        BY <4>1 DEF Contains, ToSet
    <3> QED
      BY <1>1, <1>2, <2>1, <3>1
  <2>4. InTurn(queue', app, ToSet(drawer'))
    <3>1. app \notin ToSet(drawer')
      BY <2>3
    <3> QED
      BY <2>2, <3>1, DequeueKeeps, InTurnLess DEF Signalled
  <2>5. Signalled(app)'
    <3>1. AddedSignal(app) # RemovedSignal(app)
      BY DrawerEventsApart
    <3>2. app \notin watchedFiles => \/ Lastly(queue', RemovedSignal(app), AddedSignal(app))
                                     \/ Never(queue', AddedSignal(app))
      BY <2>2, DequeueKeeps, LastlyLess DEF Signalled
    <3>3. app \in watchedFiles => Lastly(queue', AddedSignal(app), RemovedSignal(app))
      BY <2>2, <3>1, DequeueKeeps, LastlyLess DEF Signalled
    <3>4. app \notin ToSet(drawer')
      BY <2>3
    <3> QED
      BY <1>1, <2>4, <3>2, <3>3, <3>4 DEF Signalled
  <2>6. ASSUME NEW b \in DrawerApps, b # app PROVE Signalled(b)'
    <3>1. Head(queue) \notin {AddedSignal(b), RemovedSignal(b)}
      BY <2>6, DrawerEventsApart
    <3>2. b \in ToSet(drawer') <=> b \in ToSet(drawer)
      BY <2>3, <2>6
    <3> QED
      BY <1>4, <2>1, <3>1, <3>2, OthersStay
  <2>7. Never(queue', Refreshed)
    BY <2>1, DequeueKeeps
  <2> QED
    BY <1>1, <2>1, <2>3, <2>5, <2>6, <2>7
<1> QED
  BY <1>1, <1>3, <1>4, DequeueKeeps DEF DrawerInv

(* refresh(), for a new icon cache.                                        *)
LEMMA RefreshKeeps ==
  ASSUME DrawerInv, queue # <<>>, Dequeue, Head(queue) = IconCacheChanged, RefreshDrawer
  PROVE  DrawerInv'
<1>1. /\ worker' = IF refreshing THEN worker ELSE "started"
      /\ refreshing' = TRUE /\ overlapped' = (overlapped \/ Untold)
      /\ UNCHANGED <<result, drawer, onDisk, fileNotices, watchedFiles>>
  BY DEF RefreshDrawer, Dequeue
<1>2. DrawerTypes'
  BY <1>1, DequeueKeeps DEF DrawerInv, DrawerTypes
<1>3. ASSUME ~overlapped' PROVE RefreshInv'
  <2>1. ~overlapped /\ ~Untold /\ fileNotices = <<>>
    BY <1>1, <1>3 DEF Untold
  <2>2. watchedFiles = onDisk
    <3>1. \A b \in DrawerApps : Noticed(b)
      BY <2>1 DEF DrawerInv
    <3>2. \A x : Never(fileNotices, x)
      BY <2>1 DEF Never
    <3> QED
      BY <3>1, <3>2 DEF Noticed, DrawerInv, DrawerTypes
  <2>3. ASSUME NEW b \in DrawerApps PROVE Never(queue', AddedSignal(b)) /\ Never(queue', RemovedSignal(b))
    <3>1. /\ Len(queue') = Len(queue) - 1 /\ Len(queue) \in Nat
          /\ \A i \in 1 .. Len(queue) - 1 : i + 1 \in 1 .. Len(queue) /\ queue'[i] = queue[i + 1]
      BY DequeueKeeps, HandledIs
    <3>2. \A i \in 2 .. Len(queue) : queue[i].kind \notin {"appAdded", "appRemoved"}
      BY <2>1 DEF Untold
    <3>3. AddedSignal(b).kind = "appAdded" /\ RemovedSignal(b).kind = "appRemoved"
      BY DEF AddedSignal, RemovedSignal
    <3>4. \A i \in 1 .. Len(queue') : queue'[i].kind \notin {"appAdded", "appRemoved"}
      BY <3>1, <3>2
    <3> QED
      BY <3>3, <3>4 DEF Never
  <2>4. CASE refreshing
    <3>1. RefreshInv
      BY <2>1, <2>4 DEF DrawerInv
    <3>2. /\ Never(queue, Refreshed) => Never(queue', Refreshed)
          /\ AtMostOnce(queue, Refreshed) => AtMostOnce(queue', Refreshed)
      BY DequeueKeeps, OnceOnly
    <3> QED
      BY <1>1, <2>1, <2>2, <2>3, <2>4, <3>1, <3>2 DEF RefreshInv
  <2>5. CASE ~refreshing
    <3>1. Never(queue', Refreshed)
      BY <2>1, <2>5, DequeueKeeps DEF DrawerInv
    <3> QED
      BY <1>1, <2>1, <2>2, <2>3, <2>5, <3>1 DEF RefreshInv
  <2> QED
    BY <2>4, <2>5
<1> QED
  BY <1>1, <1>2, <1>3, DequeueKeeps DEF DrawerInv

(* onRefreshFinished().                                                    *)
LEMMA FinishedKeeps ==
  ASSUME DrawerInv, queue # <<>>, Dequeue, Head(queue) = Refreshed, OnRefreshFinished
  PROVE  DrawerInv'
<1>1. /\ drawer' = SetToSeq(result) /\ refreshing' = FALSE /\ result' = {}
      /\ UNCHANGED <<worker, overlapped, onDisk, fileNotices, watchedFiles>>
  BY DEF OnRefreshFinished, Dequeue
<1>2. result \subseteq DrawerApps /\ IsFiniteSet(result)
  BY DrawerAppsAssumption, FS_Subset DEF DrawerInv, DrawerTypes
<1>3. drawer' \in Seq(result) /\ IsInjective(drawer') /\ ToSet(drawer') = result
  BY <1>1, <1>2, SetAsList
<1>4. DrawerTypes'
  BY <1>1, <1>2, <1>3, DequeueKeeps DEF DrawerInv, DrawerTypes
<1>5. ASSUME ~overlapped
      PROVE  worker = "idle" /\ Never(queue', Refreshed) /\ \A b \in DrawerApps : Signalled(b)'
  <2>1. ~Never(queue, Refreshed)
    BY DequeueKeeps
  <2>2. RefreshInv
    BY <1>5, <2>1 DEF DrawerInv
  <2>3. worker = "idle" /\ result = onDisk /\ AtMostOnce(queue, Refreshed)
    BY <2>1, <2>2 DEF RefreshInv
  <2>4. Never(queue', Refreshed)
    <3>1. queue \in Seq(DrawerEvents) /\ queue' = Tail(queue)
      BY DequeueKeeps
    <3>2. AtMostOnce(queue, Refreshed) => (Head(queue) = Refreshed => Never(Tail(queue), Refreshed))
      BY <3>1, OnceOnly
    <3> QED
      BY <2>3, <3>1, <3>2
  <2>5. ASSUME NEW b \in DrawerApps PROVE Signalled(b)'
    <3>1. Never(queue', AddedSignal(b)) /\ Never(queue', RemovedSignal(b))
      BY <2>2, DequeueKeeps DEF RefreshInv
    <3>2. InTurn(queue', b, ToSet(drawer'))
      BY <3>1 DEF InTurn, Never
    <3>3. b \in watchedFiles' <=> b \in ToSet(drawer')
      BY <1>1, <1>3, <2>2, <2>3 DEF RefreshInv
    <3> QED
      BY <3>1, <3>2, <3>3 DEF Signalled
  <2> QED
    BY <2>3, <2>4, <2>5
<1> QED
  BY <1>1, <1>3, <1>4, <1>5, DequeueKeeps DEF DrawerInv

(* The constructor.                                                        *)
LEMMA DrawerStarts == DrawerInit => DrawerInv
<1> SUFFICES ASSUME DrawerInit PROVE DrawerInv
  OBVIOUS
<1>1. /\ onDisk \subseteq DrawerApps /\ fileNotices = <<>> /\ watchedFiles = onDisk /\ queue = <<>>
      /\ worker = "started" /\ refreshing = TRUE /\ result = {} /\ drawer = <<>>
  BY DEF DrawerInit
<1>2. \A x : Never(<<>>, x)
  BY DEF Never
<1>3. DrawerTypes
  BY <1>1 DEF DrawerTypes
<1>4. RefreshInv /\ \A b \in DrawerApps : Noticed(b)
  BY <1>1, <1>2 DEF RefreshInv, Noticed
<1> QED
  BY <1>1, <1>3, <1>4 DEF DrawerInv

(* Every step.                                                             *)
LEMMA DrawerStep == DrawerInv /\ [DrawerNext]_drawerVars => DrawerInv'
<1> SUFFICES ASSUME DrawerInv, [DrawerNext]_drawerVars PROVE DrawerInv'
  OBVIOUS
<1>1. CASE HandleDrawerEvent
  BY <1>1, FinishedKeeps, RefreshKeeps, AppAddedKeeps, AppRemovedKeeps DEF HandleDrawerEvent
<1>2. CASE UNCHANGED drawerVars
  BY <1>2 DEF drawerVars, DrawerInv, DrawerTypes, Noticed, RefreshInv, Signalled
<1> QED
  BY <1>1, <1>2, PackageKeeps, FileChangedKeeps, DirectoryChangedKeeps, CacheFileKeeps, ThreadKeeps
  DEF DrawerNext

(* Once all is told the drawer shows what is installed, if no refresh and  *)
(* change overlapped.                                                      *)
THEOREM DrawerShowsWhatIsInstalled == DrawerSpec => []DrawerIsCurrent
<1>1. DrawerInv => DrawerIsCurrent
  <2> SUFFICES ASSUME DrawerInv, DrawerIsQuiet, ~overlapped
               PROVE  ToSet(drawer) = onDisk /\ IsInjective(drawer)
    BY DEF DrawerIsCurrent
  <2>1. /\ fileNotices = <<>> /\ queue = <<>> /\ ~refreshing
        /\ onDisk \subseteq DrawerApps /\ watchedFiles \subseteq DrawerApps /\ drawer \in Seq(DrawerApps)
        /\ \A b \in DrawerApps : Noticed(b) /\ Signalled(b)
        /\ IsInjective(drawer)
    BY DEF DrawerIsQuiet, DrawerInv, DrawerTypes
  <2>2. /\ \A x : Never(fileNotices, x) /\ Never(queue, x)
        /\ \A x, y : ~Lastly(queue, x, y)
    BY <2>1 DEF Never, Lastly
  <2>3. watchedFiles = onDisk
    BY <2>1, <2>2 DEF Noticed
  <2>4. \A b \in DrawerApps : b \in ToSet(drawer) <=> b \in watchedFiles
    BY <2>1, <2>2 DEF Signalled
  <2>5. ToSet(drawer) \subseteq DrawerApps
    BY <2>1 DEF ToSet
  <2> QED
    BY <2>1, <2>3, <2>4, <2>5
<1> QED
  BY <1>1, DrawerStarts, DrawerStep, PTL DEF DrawerSpec

-----------------------------------------------------------------------------
(* Indicators: the rows of the panel and the files they are loaded from.   *)

PanelStates == [fileInfo : [IndicatorNames -> AllDirs \cup {NoDir}],
                indicator : [IndicatorNames -> AllDirs \cup {NoDir}],
                rows : Seq(IndicatorNames)]

\* What is loaded has a row, once, and the rows descend in their positions.
Listed(m) ==
  /\ m \in PanelStates
  /\ \A n \in IndicatorNames : m.indicator[n] = NoDir <=> m.fileInfo[n] = NoDir
  /\ \A n \in IndicatorNames : m.fileInfo[n] # NoDir <=> \E i \in 1 .. Len(m.rows) : m.rows[i] = n
  /\ \A i, j \in 1 .. Len(m.rows) : m.rows[i] = m.rows[j] => i = j
  /\ \A i, j \in 1 .. Len(m.rows) :
       i < j => PositionOf(m, m.rows[i]) >= PositionOf(m, m.rows[j])

(* An indicator that is made has the position its file gives.              *)
LEMMA PositionIs ==
  ASSUME NEW m \in PanelStates, NEW n \in IndicatorNames, m.indicator[n] # NoDir
  PROVE  PositionOf(m, n) \in Int
BY IndicatorsAssumption DEF PositionOf, PanelStates, AllDirs

(* Where a row is put: behind those whose position is greater.             *)
LEMMA BeforeIs ==
  ASSUME NEW m \in PanelStates, NEW n \in IndicatorNames, PositionOf(m, n) \in Int,
         \A i \in 1 .. Len(m.rows) : PositionOf(m, m.rows[i]) \in Int
  PROVE  \E k \in 0 .. Len(m.rows) :
           /\ Cardinality(Before(m, n)) = k
           /\ \A i \in 1 .. k : PositionOf(m, n) < PositionOf(m, m.rows[i])
           /\ k < Len(m.rows) => PositionOf(m, n) >= PositionOf(m, m.rows[k + 1])
<1> DEFINE p == PositionOf(m, n)
           P(i) == PositionOf(m, m.rows[i])
           Stop == {i \in 1 .. Len(m.rows) : ~(p < P(i))}
<1>1. Len(m.rows) \in Nat /\ DOMAIN m.rows = 1 .. Len(m.rows)
  BY DEF PanelStates
<1>2. Before(m, n) = {i \in 1 .. Len(m.rows) : \A j \in 1 .. i : p < P(j)}
  BY <1>1 DEF Before
<1>3. p \in Int /\ \A i \in 1 .. Len(m.rows) : P(i) \in Int
  OBVIOUS
<1> HIDE DEF p, P
<1>4. PICK k \in 0 .. Len(m.rows) :
        /\ \A i \in 1 .. k : p < P(i)
        /\ k < Len(m.rows) => ~(p < P(k + 1))
  <2>1. CASE Stop = {}
    <3>1. \A i \in 1 .. Len(m.rows) : p < P(i)
      BY <2>1
    <3> QED
      BY <1>1, <3>1
  <2>2. CASE Stop # {}
    <3>1. PICK s \in Stop : \A t \in Stop : s <= t
      <4>1. Stop \subseteq Nat
        BY <1>1
      <4> HIDE DEF Stop
      <4> QED
        BY <2>2, <4>1, HasLeast
    <3>2. \A i \in 1 .. s - 1 : p < P(i)
      BY <1>1, <3>1
    <3>3. s - 1 \in 0 .. Len(m.rows) /\ (s - 1) + 1 = s /\ ~(p < P(s))
      BY <1>1, <3>1
    <3> QED
      BY <3>2, <3>3
  <2> QED
    BY <2>1, <2>2
<1>5. Before(m, n) = 1 .. k
  <2>1. ASSUME NEW i \in 1 .. k PROVE i \in Before(m, n)
    <3>1. i \in 1 .. Len(m.rows) /\ \A j \in 1 .. i : j \in 1 .. k
      BY <1>1
    <3> QED
      BY <1>2, <1>4, <3>1
  <2>2. ASSUME NEW i \in Before(m, n) PROVE i \in 1 .. k
    <3>1. i \in 1 .. Len(m.rows) /\ \A j \in 1 .. i : p < P(j)
      BY <1>2
    <3>2. SUFFICES ASSUME i > k PROVE FALSE
      BY <1>1, <3>1
    <3>3. k + 1 \in 1 .. i /\ k < Len(m.rows)
      BY <1>1, <3>1, <3>2
    <3> QED
      BY <1>4, <3>1, <3>3
  <2> QED
    BY <2>1, <2>2
<1>6. Cardinality(1 .. k) = k
  <2>1. k \in Nat
    BY <1>1
  <2> QED
    BY <2>1, FS_Interval
<1>7. k < Len(m.rows) => p >= P(k + 1)
  BY <1>1, <1>3, <1>4
<1> QED
  BY <1>4, <1>5, <1>6, <1>7 DEF p, P

(* A row is put in where none of the indicator is.                         *)
LEMMA InsertKeeps ==
  ASSUME NEW m, NEW n \in IndicatorNames, m \in PanelStates,
         \A k \in IndicatorNames : m.indicator[k] = NoDir <=> m.fileInfo[k] = NoDir,
         m.fileInfo[n] # NoDir, ~Contains(m.rows, n),
         \A k \in IndicatorNames \ {n} :
           m.fileInfo[k] # NoDir <=> \E i \in 1 .. Len(m.rows) : m.rows[i] = k,
         \A i, j \in 1 .. Len(m.rows) : m.rows[i] = m.rows[j] => i = j,
         \A i, j \in 1 .. Len(m.rows) :
           i < j => PositionOf(m, m.rows[i]) >= PositionOf(m, m.rows[j])
  PROVE  Listed([m EXCEPT !.rows = InsertRow(m, n)])
<1> DEFINE r == InsertRow(m, n)
           q == [m EXCEPT !.rows = r]
           s == m.rows
           P(k) == PositionOf(m, k)
<1>1. s \in Seq(IndicatorNames) /\ Len(s) \in Nat /\ \A i \in 1 .. Len(s) : s[i] \in IndicatorNames
  BY DEF PanelStates
<1>2. \A i \in 1 .. Len(s) : s[i] # n
  BY DEF Contains
<1>3. \A i \in 1 .. Len(s) : m.indicator[s[i]] # NoDir
  BY <1>1, <1>2
<1>4. P(n) \in Int /\ \A i \in 1 .. Len(s) : P(s[i]) \in Int
  BY <1>1, <1>3, PositionIs
<1>5. PICK k \in 0 .. Len(s) :
        /\ Cardinality(Before(m, n)) = k
        /\ \A i \in 1 .. k : P(n) < P(s[i])
        /\ k < Len(s) => P(n) >= P(s[k + 1])
  BY <1>4, BeforeIs
<1>6. r \in Seq(IndicatorNames) /\ PutIn(r, s, k + 1, n)
  <2>1. k + 1 \in 1 .. Len(s) + 1 /\ r = InsertAt(s, k + 1, n)
    BY <1>1, <1>5 DEF InsertRow
  <2> QED
    BY <1>1, <2>1, InsertIs
<1> HIDE DEF r
<1>7. q \in PanelStates /\ q.rows = r /\ q.fileInfo = m.fileInfo /\ q.indicator = m.indicator
  BY <1>6 DEF PanelStates
<1>8. \A l : PositionOf(q, l) = P(l)
  BY <1>7 DEF PositionOf
<1> HIDE DEF q, P
<1>9. /\ Len(r) = Len(s) + 1
      /\ \A j \in 1 .. Len(s) + 1 :
           r[j] = IF j < k + 1 THEN s[j] ELSE IF j = k + 1 THEN n ELSE s[j - 1]
  BY <1>6 DEF PutIn
<1>10. \A l \in IndicatorNames : m.fileInfo[l] # NoDir <=> \E i \in 1 .. Len(r) : r[i] = l
  <2>1. r[k + 1] = n /\ k + 1 \in 1 .. Len(r)
    BY <1>1, <1>9
  <2>2. ASSUME NEW l \in IndicatorNames \ {n}, NEW i \in 1 .. Len(s), s[i] = l
        PROVE  \E j \in 1 .. Len(r) : r[j] = l
    <3>1. CASE i < k + 1
      BY <1>1, <1>9, <2>2, <3>1, SMTT(30)
    <3>2. CASE i >= k + 1
      <4>1. i + 1 \in 1 .. Len(r) /\ r[i + 1] = s[i]
        <5>1. i + 1 \in 1 .. Len(s) + 1 /\ ~(i + 1 < k + 1) /\ i + 1 # k + 1 /\ (i + 1) - 1 = i
          BY <1>1, <3>2
        <5> QED
          BY <1>9, <5>1
      <4> QED
        BY <2>2, <4>1
    <3> QED
      BY <1>1, <3>1, <3>2
  <2>3. ASSUME NEW l \in IndicatorNames \ {n}, NEW i \in 1 .. Len(r), r[i] = l
        PROVE  \E j \in 1 .. Len(s) : s[j] = l
    <3>1. i # k + 1 /\ i \in 1 .. Len(s) + 1
      BY <1>1, <1>9, <2>1, <2>3
    <3>2. CASE i < k + 1
      <4>1. i \in 1 .. Len(s) /\ r[i] = s[i]
        BY <1>1, <1>9, <3>1, <3>2
      <4> QED
        BY <2>3, <4>1
    <3>3. CASE i > k + 1
      <4>1. i - 1 \in 1 .. Len(s) /\ r[i] = s[i - 1]
        BY <1>1, <1>9, <3>1, <3>3
      <4> QED
        BY <2>3, <4>1
    <3> QED
      BY <1>1, <3>1, <3>2, <3>3
  <2> QED
    BY <2>1, <2>2, <2>3
<1>11. ASSUME NEW i \in 1 .. Len(r), NEW j \in 1 .. Len(r), r[i] = r[j] PROVE i = j
  <2> DEFINE From(x) == IF x < k + 1 THEN x ELSE x - 1
  <2>1. \A x \in 1 .. Len(r) : x # k + 1 => From(x) \in 1 .. Len(s) /\ r[x] = s[From(x)] /\ r[x] # n
    <3>1. \A x \in 1 .. Len(r) : x # k + 1 => From(x) \in 1 .. Len(s)
      BY <1>1, <1>9
    <3>2. \A x \in 1 .. Len(r) : x # k + 1 => r[x] = s[From(x)]
      BY <1>1, <1>9
    <3> HIDE DEF From
    <3> QED
      BY <1>2, <3>1, <3>2
  <2>2. r[k + 1] = n
    BY <1>1, <1>9
  <2>3. i # k + 1 /\ j # k + 1 => From(i) = From(j)
    <3> HIDE DEF From
    <3> QED
      BY <1>11, <2>1
  <2>4. i # k + 1 /\ j # k + 1 => i = j
    BY <1>1, <2>3
  <2>5. i = k + 1 <=> j = k + 1
    BY <1>11, <2>1, <2>2
  <2> QED
    BY <2>4, <2>5
<1>12. ASSUME NEW i \in 1 .. Len(r), NEW j \in 1 .. Len(r), i < j
       PROVE  P(r[i]) >= P(r[j])
  <2>1. \A a1, b1 \in 1 .. Len(s) : a1 <= b1 => P(s[a1]) >= P(s[b1])
    BY <1>1, <1>4 DEF P
  <2>2. CASE j < k + 1
    BY <1>1, <1>9, <1>12, <2>1, <2>2
  <2>3. CASE j = k + 1
    <3>1. i \in 1 .. k /\ r[i] = s[i] /\ r[j] = n
      BY <1>1, <1>9, <1>12, <2>3
    <3> QED
      BY <1>1, <1>4, <1>5, <3>1
  <2>4. CASE j > k + 1 /\ i < k + 1
    <3>1. r[i] = s[i] /\ r[j] = s[j - 1] /\ i \in 1 .. Len(s) /\ j - 1 \in 1 .. Len(s) /\ i <= j - 1
      BY <1>1, <1>9, <1>12, <2>4
    <3> QED
      BY <2>1, <3>1
  <2>5. CASE j > k + 1 /\ i = k + 1
    <3>1. /\ r[i] = n /\ k < Len(s)
          /\ k + 1 \in 1 .. Len(s) /\ j - 1 \in 1 .. Len(s) /\ k + 1 <= j - 1
      <4>1. k \in Nat /\ j \in Nat /\ j <= Len(s) + 1 /\ j > k + 1
        BY <1>1, <1>9, <2>5
      <4>2. r[i] = n
        BY <1>1, <1>9, <2>5
      <4> QED
        BY <1>1, <4>1, <4>2
    <3>3. r[j] = s[j - 1]
      <4>1. j \in 1 .. Len(s) + 1 /\ ~(j < k + 1) /\ j # k + 1
        BY <1>1, <1>9, <2>5
      <4> QED
        BY <1>9, <4>1
    <3>2. P(n) >= P(s[k + 1]) /\ P(s[k + 1]) >= P(s[j - 1])
      BY <1>5, <2>1, <3>1
    <3>4. P(n) \in Int /\ P(s[k + 1]) \in Int /\ P(s[j - 1]) \in Int
      BY <1>4, <3>1 DEF P
    <3> QED
      BY <3>1, <3>2, <3>3, <3>4
  <2>6. CASE j > k + 1 /\ i > k + 1
    <3>1. /\ r[i] = s[i - 1] /\ r[j] = s[j - 1] /\ i - 1 \in 1 .. Len(s) /\ j - 1 \in 1 .. Len(s)
          /\ i - 1 <= j - 1
      BY <1>1, <1>9, <1>12, <2>6
    <3> QED
      BY <2>1, <3>1
  <2> QED
    BY <1>1, <1>9, <2>2, <2>3, <2>4, <2>5, <2>6
<1>13. Listed(q)
  BY <1>7, <1>8, <1>10, <1>11, <1>12 DEF Listed
<1> QED
  BY <1>13 DEF q, r

(* A file of a directory: a better or equally good one is taken.           *)
Better(dir, d, e) ==  \* from d to e when the file of dir is read
  e \in {dir, d} /\ e # NoDir /\ Location[e] <= Location[dir]
  /\ (d # NoDir => Location[e] <= Location[d])

LEMMA LoadFileKeeps ==
  ASSUME NEW m, Listed(m), NEW dir \in AllDirs, NEW n \in IndicatorNames
  PROVE  /\ Listed(LoadFile(m, dir, n))
         /\ \A k \in IndicatorNames \ {n} : LoadFile(m, dir, n).fileInfo[k] = m.fileInfo[k]
         /\ Better(dir, m.fileInfo[n], LoadFile(m, dir, n).fileInfo[n])
<1>1. dir # NoDir /\ \A d \in AllDirs : d # NoDir /\ Location[d] \in Nat
  BY IndicatorsAssumption DEF AllDirs
<1>2. m \in PanelStates /\ m.fileInfo[n] \in AllDirs \cup {NoDir} /\ n \in DOMAIN m.fileInfo
  BY DEF Listed, PanelStates
<1>3. CASE m.fileInfo[n] # NoDir /\ (m.fileInfo[n] = dir \/ ~Replaces(dir, m.fileInfo[n]))
  <2>1. LoadFile(m, dir, n) = m
    BY <1>3 DEF LoadFile
  <2>2. Location[m.fileInfo[n]] <= Location[dir]
    BY <1>1, <1>2, <1>3 DEF Replaces
  <2>3. Better(dir, m.fileInfo[n], m.fileInfo[n])
    BY <1>1, <1>2, <1>3, <2>2 DEF Better
  <2> QED
    BY <2>1, <2>3
<1>4. CASE ~(m.fileInfo[n] # NoDir /\ (m.fileInfo[n] = dir \/ ~Replaces(dir, m.fileInfo[n])))
  <2> DEFINE p == [m EXCEPT !.fileInfo[n] = dir]
             made == IF p.indicator[n] = NoDir THEN [p EXCEPT !.indicator[n] = p.fileInfo[n]] ELSE p
  <2>1. LoadFile(m, dir, n) = OnIndicatorLoaded(p, n)
    BY <1>4 DEF LoadFile
  <2>2. /\ p \in PanelStates /\ p.rows = m.rows /\ p.indicator = m.indicator
        /\ p.fileInfo = [m.fileInfo EXCEPT ![n] = dir] /\ p.fileInfo[n] = dir
    BY <1>2 DEF PanelStates
  <2>3. OnIndicatorLoaded(p, n) =
          IF Contains(p.rows, n) THEN made ELSE [made EXCEPT !.rows = InsertRow(made, n)]
    BY Zenon DEF OnIndicatorLoaded
  <2> HIDE DEF p
  <2>4. /\ made \in PanelStates /\ made.rows = m.rows /\ made.fileInfo = p.fileInfo
        /\ made.indicator = IF m.indicator[n] = NoDir THEN [m.indicator EXCEPT ![n] = dir]
                            ELSE m.indicator
    BY <2>2 DEF PanelStates
  <2> HIDE DEF made
  <2>5. \A k \in IndicatorNames \ {n} :
          made.fileInfo[k] = m.fileInfo[k] /\ made.indicator[k] = m.indicator[k]
    BY <1>2, <2>2, <2>4 DEF PanelStates
  <2>6. made.fileInfo[n] = dir /\ made.indicator[n] # NoDir
    BY <1>1, <1>2, <2>2, <2>4 DEF PanelStates
  <2>7. \A k \in IndicatorNames : made.indicator[k] = NoDir <=> made.fileInfo[k] = NoDir
    BY <1>1, <2>5, <2>6 DEF Listed
  <2>8. \A i \in 1 .. Len(m.rows) :
          /\ m.rows[i] \in IndicatorNames
          /\ PositionOf(made, m.rows[i]) = PositionOf(m, m.rows[i])
    <3>1. ASSUME NEW i \in 1 .. Len(m.rows)
          PROVE  m.rows[i] \in IndicatorNames /\ m.indicator[m.rows[i]] # NoDir
      BY DEF Listed, PanelStates
    <3>2. \A i \in 1 .. Len(m.rows) : made.indicator[m.rows[i]] = m.indicator[m.rows[i]]
      BY <2>4, <2>5, <3>1
    <3> QED
      BY <3>1, <3>2 DEF PositionOf
  <2>9. \A i, j \in 1 .. Len(m.rows) :
          i < j => PositionOf(made, m.rows[i]) >= PositionOf(made, m.rows[j])
    BY <2>8 DEF Listed
  <2>10. \A k \in IndicatorNames \ {n} :
           made.fileInfo[k] # NoDir <=> \E i \in 1 .. Len(made.rows) : made.rows[i] = k
    BY <2>4, <2>5 DEF Listed
  <2>11. Better(dir, m.fileInfo[n], dir)
    BY <1>1, <1>2, <1>4 DEF Better, Replaces
  <2>12. CASE Contains(m.rows, n)
    <3>1. LoadFile(m, dir, n) = made
      BY <2>1, <2>2, <2>3, <2>12
    <3>2. made.fileInfo[n] # NoDir /\ \E i \in 1 .. Len(made.rows) : made.rows[i] = n
      BY <1>1, <2>4, <2>6, <2>12 DEF Contains
    <3>3. Listed(made)
      BY <2>4, <2>7, <2>9, <2>10, <3>2 DEF Listed
    <3> QED
      BY <2>5, <2>6, <2>11, <3>1, <3>3
  <2>13. CASE ~Contains(m.rows, n)
    <3>1. LoadFile(m, dir, n) = [made EXCEPT !.rows = InsertRow(made, n)]
      BY <2>1, <2>2, <2>3, <2>13
    <3>2. \A i, j \in 1 .. Len(made.rows) : made.rows[i] = made.rows[j] => i = j
      BY <2>4 DEF Listed
    <3>3. \A i, j \in 1 .. Len(made.rows) :
            i < j => PositionOf(made, made.rows[i]) >= PositionOf(made, made.rows[j])
      BY <2>4, <2>9
    <3>4. made.fileInfo[n] # NoDir /\ ~Contains(made.rows, n)
      BY <1>1, <2>4, <2>6, <2>13
    <3>5. Listed([made EXCEPT !.rows = InsertRow(made, n)])
      BY <2>4, <2>7, <2>10, <3>2, <3>3, <3>4, InsertKeeps
    <3>6. [made EXCEPT !.rows = InsertRow(made, n)].fileInfo = made.fileInfo
      BY <2>4 DEF PanelStates
    <3> QED
      BY <2>5, <2>6, <2>11, <3>1, <3>5, <3>6
  <2> QED
    BY <2>12, <2>13
<1> QED
  BY <1>3, <1>4

(* An indicator goes with its row.                                         *)
LEMMA UnloadKeeps ==
  ASSUME NEW m, Listed(m), NEW n \in IndicatorNames
  PROVE  /\ Listed(Unload(m, n))
         /\ \A k \in IndicatorNames : Unload(m, n).fileInfo[k] = IF k = n THEN NoDir ELSE m.fileInfo[k]
<1> DEFINE q == Unload(m, n)
           s == m.rows
<1>1. /\ m \in PanelStates /\ s \in Seq(IndicatorNames) /\ Len(s) \in Nat
      /\ DOMAIN s = 1 .. Len(s) /\ \A i \in 1 .. Len(s) : s[i] \in IndicatorNames
  BY DEF Listed, PanelStates
<1>2. /\ q.fileInfo = [m.fileInfo EXCEPT ![n] = NoDir]
      /\ q.indicator = [m.indicator EXCEPT ![n] = NoDir]
      /\ q.rows = IF Contains(s, n) THEN RemoveAt(s, RowOf(m, n)) ELSE s
      /\ q = [fileInfo |-> q.fileInfo, indicator |-> q.indicator, rows |-> q.rows]
  BY DEF Unload
<1> HIDE DEF q
<1>3. \A k \in IndicatorNames :
        /\ q.fileInfo[k] = IF k = n THEN NoDir ELSE m.fileInfo[k]
        /\ q.indicator[k] = IF k = n THEN NoDir ELSE m.indicator[k]
  BY <1>1, <1>2 DEF PanelStates
<1>4. \A i, j \in 1 .. Len(s) : s[i] = s[j] => i = j
  BY DEF Listed
<1>5. CASE ~Contains(s, n)
  <2>1. q.rows = s /\ \A i \in 1 .. Len(s) : s[i] # n
    BY <1>2, <1>5 DEF Contains
  <2>2. q \in PanelStates
    BY <1>1, <1>2, <2>1 DEF PanelStates
  <2>3. \A i \in 1 .. Len(s) : PositionOf(q, s[i]) = PositionOf(m, s[i])
    BY <1>1, <1>3, <2>1 DEF PositionOf
  <2>4. Listed(q)
    BY <1>3, <2>1, <2>2, <2>3 DEF Listed
  <2> QED
    BY <1>3, <2>4 DEF q
<1>6. CASE Contains(s, n)
  <2> DEFINE x == RowOf(m, n)
  <2>1. x \in 1 .. Len(s) /\ s[x] = n
    BY <1>1, <1>6 DEF Contains, RowOf
  <2> HIDE DEF x
  <2>2. /\ q.rows \in Seq(IndicatorNames) /\ Len(q.rows) = Len(s) - 1
        /\ \A j \in 1 .. Len(s) - 1 : q.rows[j] = IF j < x THEN s[j] ELSE s[j + 1]
    BY <1>1, <1>2, <1>6, <2>1, RemoveIs DEF x
  <2> DEFINE From(j) == IF j < x THEN j ELSE j + 1
  <2>3. ASSUME NEW j \in 1 .. Len(q.rows)
        PROVE  From(j) \in 1 .. Len(s) /\ From(j) # x /\ q.rows[j] = s[From(j)]
    <3>1. j \in 1 .. Len(s) - 1 /\ q.rows[j] = IF j < x THEN s[j] ELSE s[j + 1]
      BY <1>1, <2>2
    <3> QED
      BY <1>1, <2>1, <3>1
  <2>4. \A i, j \in 1 .. Len(q.rows) : (i < j => From(i) < From(j)) /\ (From(i) = From(j) => i = j)
    BY <1>1, <2>1, <2>2
  <2>5. ASSUME NEW i \in 1 .. Len(s), i # x PROVE \E j \in 1 .. Len(q.rows) : From(j) = i
    <3>1. CASE i < x
      BY <1>1, <2>1, <2>2, <3>1
    <3>2. CASE i > x
      <4>1. i - 1 \in 1 .. Len(q.rows) /\ From(i - 1) = i
        BY <1>1, <2>1, <2>2, <3>2
      <4> QED
        BY <4>1
    <3>3. i < x \/ i > x
      BY <1>1, <2>1, <2>5
    <3> QED
      BY <3>1, <3>2, <3>3
  <2> HIDE DEF From
  <2>6. q \in PanelStates
    BY <1>1, <1>2, <2>2 DEF PanelStates
  <2>7. \A j \in 1 .. Len(q.rows) : q.rows[j] # n /\ q.rows[j] \in IndicatorNames
    BY <1>1, <1>4, <2>1, <2>3
  <2>8. \A j \in 1 .. Len(q.rows) : PositionOf(q, q.rows[j]) = PositionOf(m, s[From(j)])
    BY <1>3, <2>3, <2>7 DEF PositionOf
  <2>9. \A k \in IndicatorNames : q.fileInfo[k] # NoDir <=> \E j \in 1 .. Len(q.rows) : q.rows[j] = k
    <3>1. ASSUME NEW k \in IndicatorNames, q.fileInfo[k] # NoDir
          PROVE  \E j \in 1 .. Len(q.rows) : q.rows[j] = k
      <4>1. k # n /\ m.fileInfo[k] # NoDir
        BY <1>3, <3>1
      <4>2. PICK i \in 1 .. Len(s) : s[i] = k
        BY <4>1 DEF Listed
      <4>3. i # x
        BY <2>1, <4>1, <4>2
      <4> QED
        BY <2>3, <2>5, <4>2, <4>3
    <3>2. ASSUME NEW k \in IndicatorNames, NEW j \in 1 .. Len(q.rows), q.rows[j] = k
          PROVE  q.fileInfo[k] # NoDir
      <4>1. From(j) \in 1 .. Len(s) /\ s[From(j)] = k /\ k # n
        BY <2>3, <2>7, <3>2
      <4>2. m.fileInfo[k] # NoDir
        BY <4>1 DEF Listed
      <4> QED
        BY <1>3, <4>1, <4>2
    <3> QED
      BY <3>1, <3>2
  <2>10. \A i, j \in 1 .. Len(q.rows) : q.rows[i] = q.rows[j] => i = j
    BY <1>4, <2>3, <2>4
  <2>11. \A i, j \in 1 .. Len(q.rows) :
           i < j => PositionOf(q, q.rows[i]) >= PositionOf(q, q.rows[j])
    <3>1. \A i, j \in 1 .. Len(s) : i < j => PositionOf(m, s[i]) >= PositionOf(m, s[j])
      BY DEF Listed
    <3> QED
      BY <2>3, <2>4, <2>8, <3>1
  <2>12. \A k \in IndicatorNames : q.indicator[k] = NoDir <=> q.fileInfo[k] = NoDir
    BY <1>3 DEF Listed
  <2>13. Listed(q)
    BY <2>6, <2>9, <2>10, <2>11, <2>12 DEF Listed
  <2> QED
    BY <1>3, <2>13 DEF q
<1> QED
  BY <1>5, <1>6

(* The files of a directory that are read, one by one.                     *)
LEMMA LoadFilesSteps ==
  ASSUME NEW m, NEW dir, NEW E, NEW names \in Seq(E)
  PROVE  \E h : /\ h[0] = m
                /\ \A k \in 1 .. Len(names) : h[k] = LoadFile(h[k - 1], dir, names[k])
                /\ h[Len(names)] = LoadFiles(m, dir, names)
<1> DEFINE D == DOMAIN names
           Is(f) == f = [s \in SUBSET D |->
                           IF s = {} THEN m
                           ELSE LoadFile(f[s \ {Max(s)}], dir, names[Max(s)])]
           it == CHOOSE f : Is(f)
<1>1. D = 1 .. Len(names) /\ Len(names) \in Nat
  OBVIOUS
<1>2. LoadFiles(m, dir, names) = it[D]
  BY DEF LoadFiles, FoldLeft, MapThenFoldSet
<1>3. \A acc, e : StepOf("files", dir, acc, e) = LoadFile(acc, dir, e)
  BY DEF StepOf
<1>4. ASSUME NEW f PROVE Is(f) <=> FoldOf("files", dir, f, Len(names), m, names)
  <2>1. \A s \in SUBSET D :
          StepOf("files", dir, f[s \ {Max(s)}], names[Max(s)])
            = LoadFile(f[s \ {Max(s)}], dir, names[Max(s)])
    BY <1>3, Zenon
  <2> QED
    BY <1>1, <2>1, Zenon DEF FoldOf
<1> HIDE DEF Is, D
<1>5. \E f : FoldOf("files", dir, f, Len(names), m, names)
  BY <1>1, FoldExists, Zenon
<1>6. \E f : Is(f)
  BY <1>4, <1>5, Zenon
<1>7. Is(it)
  BY <1>6, Zenon
<1> HIDE DEF it
<1>8. FoldOf("files", dir, it, Len(names), m, names)
  BY <1>4, <1>7, Zenon
<1>9. PICK h : /\ StepsOf("files", dir, h, Len(names), m, names)
               /\ h[Len(names)] = it[1 .. Len(names)]
  BY <1>1, <1>8, FoldSteps
<1> QED
  BY <1>1, <1>2, <1>3, <1>9 DEF StepsOf

(* The indicators that go, one by one.                                     *)
LEMMA UnloadSteps ==
  ASSUME NEW m, NEW E, NEW names \in Seq(E)
  PROVE  \E h : /\ h[0] = m
                /\ \A k \in 1 .. Len(names) : h[k] = Unload(h[k - 1], names[k])
                /\ h[Len(names)] = UnloadEach(m, names)
<1> DEFINE D == DOMAIN names
           Is(f) == f = [s \in SUBSET D |->
                           IF s = {} THEN m
                           ELSE Unload(f[s \ {Max(s)}], names[Max(s)])]
           it == CHOOSE f : Is(f)
<1>1. D = 1 .. Len(names) /\ Len(names) \in Nat
  OBVIOUS
<1>2. UnloadEach(m, names) = it[D]
  BY DEF UnloadEach, FoldLeft, MapThenFoldSet
<1>3. \A acc, e : StepOf("unload", 0, acc, e) = Unload(acc, e)
  BY DEF StepOf
<1>4. ASSUME NEW f PROVE Is(f) <=> FoldOf("unload", 0, f, Len(names), m, names)
  <2>1. \A s \in SUBSET D :
          StepOf("unload", 0, f[s \ {Max(s)}], names[Max(s)])
            = Unload(f[s \ {Max(s)}], names[Max(s)])
    BY <1>3, Zenon
  <2> QED
    BY <1>1, <2>1, Zenon DEF FoldOf
<1> HIDE DEF Is, D
<1>5. \E f : FoldOf("unload", 0, f, Len(names), m, names)
  BY <1>1, FoldExists, Zenon
<1>6. \E f : Is(f)
  BY <1>4, <1>5, Zenon
<1>7. Is(it)
  BY <1>6, Zenon
<1> HIDE DEF it
<1>8. FoldOf("unload", 0, it, Len(names), m, names)
  BY <1>4, <1>7, Zenon
<1>9. PICK h : /\ StepsOf("unload", 0, h, Len(names), m, names)
               /\ h[Len(names)] = it[1 .. Len(names)]
  BY <1>1, <1>8, FoldSteps
<1> QED
  BY <1>1, <1>2, <1>3, <1>9 DEF StepsOf

(* The directories that are read, one by one.                              *)
LEMMA LoadDirsSteps ==
  ASSUME NEW E, NEW dirs \in Seq(E)
  PROVE  \E h : /\ h[0] = NoData
                /\ \A k \in 1 .. Len(dirs) : h[k] = LoadDir(h[k - 1], dirs[k])
                /\ h[Len(dirs)] = LoadDirs(dirs)
<1> DEFINE D == DOMAIN dirs
           Is(f) == f = [s \in SUBSET D |->
                           IF s = {} THEN NoData
                           ELSE LoadDir(f[s \ {Max(s)}], dirs[Max(s)])]
           it == CHOOSE f : Is(f)
<1>1. D = 1 .. Len(dirs) /\ Len(dirs) \in Nat
  OBVIOUS
<1>2. LoadDirs(dirs) = it[D]
  BY DEF LoadDirs, FoldLeft, MapThenFoldSet
<1>3. \A acc, e : StepOf("dirs", 0, acc, e) = LoadDir(acc, e)
  BY DEF StepOf
<1>4. ASSUME NEW f PROVE Is(f) <=> FoldOf("dirs", 0, f, Len(dirs), NoData, dirs)
  <2>1. \A s \in SUBSET D :
          StepOf("dirs", 0, f[s \ {Max(s)}], dirs[Max(s)])
            = LoadDir(f[s \ {Max(s)}], dirs[Max(s)])
    BY <1>3, Zenon
  <2> QED
    BY <1>1, <2>1, Zenon DEF FoldOf
<1> HIDE DEF Is, D
<1>5. \E f : FoldOf("dirs", 0, f, Len(dirs), NoData, dirs)
  BY <1>1, FoldExists, Zenon
<1>6. \E f : Is(f)
  BY <1>4, <1>5, Zenon
<1>7. Is(it)
  BY <1>6, Zenon
<1> HIDE DEF it
<1>8. FoldOf("dirs", 0, it, Len(dirs), NoData, dirs)
  BY <1>4, <1>7, Zenon
<1>9. PICK h : /\ StepsOf("dirs", 0, h, Len(dirs), NoData, dirs)
               /\ h[Len(dirs)] = it[1 .. Len(dirs)]
  BY <1>1, <1>8, FoldSteps
<1> QED
  BY <1>1, <1>2, <1>3, <1>9 DEF StepsOf

(* What reading a directory has made of an indicator's file, and what      *)
(* going through those that were not found.                                *)
LEMMA LoadDirKeeps ==
  ASSUME files \in [AllDirs -> SUBSET IndicatorNames],
         NEW m, Listed(m), NEW dir \in AllDirs
  PROVE  /\ Listed(LoadDir(m, dir))
         /\ \A n \in files[dir] : Better(dir, m.fileInfo[n], LoadDir(m, dir).fileInfo[n])
         /\ \A n \in IndicatorNames \ files[dir] :
              LoadDir(m, dir).fileInfo[n] = IF m.fileInfo[n] = dir THEN NoDir ELSE m.fileInfo[n]
<1> DEFINE found == LoadFiles(m, dir, SetToSeq(files[dir]))
           gone == Unverified(found, dir, files[dir])
<1>1. LoadDir(m, dir) = UnloadEach(found, SetToSeq(gone))
  BY DEF LoadDir
<1>2. files[dir] \subseteq IndicatorNames /\ IsFiniteSet(files[dir])
  BY IndicatorsAssumption, FS_Subset
<1>3. /\ Listed(found)
      /\ \A n \in files[dir] : Better(dir, m.fileInfo[n], found.fileInfo[n])
      /\ \A n \in IndicatorNames \ files[dir] : found.fileInfo[n] = m.fileInfo[n]
  <2>1. PICK names : names = SetToSeq(files[dir])
    OBVIOUS
  <2>2. /\ names \in Seq(files[dir]) /\ ToSet(names) = files[dir]
        /\ DOMAIN names = 1 .. Len(names) /\ Len(names) \in Nat
    BY <1>2, <2>1, SetAsList
  <2>3. PICK h : /\ h[0] = m
                 /\ \A k \in 1 .. Len(names) : h[k] = LoadFile(h[k - 1], dir, names[k])
                 /\ h[Len(names)] = LoadFiles(m, dir, names)
    BY <2>2, LoadFilesSteps
  <2> DEFINE Read(k) == {names[j] : j \in 1 .. k}
             Upto(r, k) == /\ Listed(r)
                           /\ \A n \in Read(k) : Better(dir, m.fileInfo[n], r.fileInfo[n])
                           /\ \A n \in IndicatorNames \ Read(k) : r.fileInfo[n] = m.fileInfo[n]
             T == {k \in 0 .. Len(names) : Upto(h[k], k)}
  <2>4. 0 \in T
    <3>1. Read(0) = {}
      OBVIOUS
    <3>2. Upto(m, 0)
      BY <3>1
    <3> HIDE DEF Upto
    <3> QED
      BY <2>2, <2>3, <3>2
  <2>5. ASSUME NEW k \in 0 .. Len(names) - 1, k \in T PROVE k + 1 \in T
    <3>1. k + 1 \in 1 .. Len(names) /\ (k + 1) - 1 = k /\ k \in Nat
      BY <2>2
    <3>2. PICK r, n : r = h[k] /\ n = names[k + 1]
      OBVIOUS
    <3>3. n \in files[dir] /\ n \in IndicatorNames
      BY <1>2, <2>2, <3>1, <3>2
    <3>4. h[k + 1] = LoadFile(r, dir, n)
      BY <2>3, <3>1, <3>2
    <3>5. Upto(r, k)
      <4> HIDE DEF Upto
      <4> QED
        BY <2>5, <3>2
    <3>6. Read(k + 1) = Read(k) \cup {n}
      <4>1. 1 .. k + 1 = (1 .. k) \cup {k + 1}
        BY <3>1
      <4> QED
        BY <3>2, <4>1
    <3>0. Read(k) \subseteq IndicatorNames
      <4>1. \A j \in 1 .. k : names[j] \in files[dir]
        BY <2>2, <3>1
      <4> QED
        BY <1>2, <4>1
    <3> HIDE DEF Read
    <3>7. PICK q : q = LoadFile(r, dir, n)
      OBVIOUS
    <3>8. /\ Listed(q) /\ Better(dir, r.fileInfo[n], q.fileInfo[n])
          /\ \A l \in IndicatorNames \ {n} : q.fileInfo[l] = r.fileInfo[l]
      BY <3>3, <3>5, <3>7, LoadFileKeeps
    <3>9. \A d \in AllDirs : Location[d] \in Nat
      BY IndicatorsAssumption DEF AllDirs
    <3>10. \A l \in IndicatorNames : m.fileInfo[l] \in AllDirs \cup {NoDir}
      BY DEF Listed, PanelStates
    <3>11. n \in Read(k) => Better(dir, m.fileInfo[n], r.fileInfo[n])
      BY <3>5
    <3>12. n \notin Read(k) => r.fileInfo[n] = m.fileInfo[n]
      BY <3>3, <3>5
    <3>13. Better(dir, m.fileInfo[n], q.fileInfo[n])
      BY <3>3, <3>8, <3>9, <3>10, <3>11, <3>12 DEF Better
    <3>14. ASSUME NEW l \in Read(k + 1) PROVE Better(dir, m.fileInfo[l], q.fileInfo[l])
      <4>1. CASE l = n
        BY <3>13, <4>1
      <4>2. CASE l # n
        <5>1. l \in Read(k) /\ l \in IndicatorNames
          BY <3>0, <3>6, <4>2
        <5> QED
          BY <3>5, <3>8, <4>2, <5>1
      <4> QED
        BY <4>1, <4>2
    <3>15. \A l \in IndicatorNames \ Read(k + 1) : q.fileInfo[l] = m.fileInfo[l]
      BY <3>5, <3>6, <3>8
    <3>16. Upto(q, k + 1)
      BY <3>8, <3>14, <3>15
    <3> HIDE DEF Upto
    <3>17. Upto(h[k + 1], k + 1)
      BY <3>4, <3>7, <3>16, Zenon
    <3> QED
      BY <3>1, <3>17
  <2>6. \A k \in 0 .. Len(names) : k \in T
    <3> HIDE DEF T
    <3> QED
      BY <2>2, <2>4, <2>5, UpTo
  <2>7. Upto(h[Len(names)], Len(names))
    <3>1. Len(names) \in T
      BY <2>2, <2>6
    <3> HIDE DEF Upto
    <3> QED
      BY <3>1
  <2>8. Read(Len(names)) = files[dir]
    BY <2>2 DEF ToSet
  <2> HIDE DEF Read
  <2>9. Upto(found, Len(names))
    <3> HIDE DEF Upto
    <3> QED
      BY <2>1, <2>3, <2>7, Zenon
  <2> QED
    BY <2>8, <2>9
<1> HIDE DEF found
<1>4. gone \subseteq IndicatorNames /\ IsFiniteSet(gone)
  <2>1. gone \subseteq IndicatorNames
    BY DEF Unverified
  <2> QED
    BY <2>1, IndicatorsAssumption, FS_Subset
<1>5. \A n \in gone : n \notin files[dir] /\ found.fileInfo[n] = dir
  BY DEF Unverified
<1>6. \A n \in IndicatorNames : n \notin files[dir] /\ found.fileInfo[n] = dir => n \in gone
  BY DEF Unverified
<1> HIDE DEF gone
<1>7. /\ Listed(UnloadEach(found, SetToSeq(gone)))
      /\ \A n \in IndicatorNames :
           UnloadEach(found, SetToSeq(gone)).fileInfo[n] = IF n \in gone THEN NoDir ELSE found.fileInfo[n]
  <2>1. PICK names : names = SetToSeq(gone)
    OBVIOUS
  <2>2. /\ names \in Seq(gone) /\ ToSet(names) = gone
        /\ DOMAIN names = 1 .. Len(names) /\ Len(names) \in Nat
    BY <1>4, <2>1, SetAsList
  <2>3. PICK h : /\ h[0] = found
                 /\ \A k \in 1 .. Len(names) : h[k] = Unload(h[k - 1], names[k])
                 /\ h[Len(names)] = UnloadEach(found, names)
    BY <2>2, UnloadSteps
  <2> DEFINE Went(k) == {names[j] : j \in 1 .. k}
             Upto(r, k) == /\ Listed(r)
                           /\ \A n \in IndicatorNames :
                                r.fileInfo[n] = IF n \in Went(k) THEN NoDir ELSE found.fileInfo[n]
             T == {k \in 0 .. Len(names) : Upto(h[k], k)}
  <2>4. 0 \in T
    <3>1. Went(0) = {}
      OBVIOUS
    <3>2. Upto(found, 0)
      BY <1>3, <3>1
    <3> HIDE DEF Upto
    <3> QED
      BY <2>2, <2>3, <3>2
  <2>5. ASSUME NEW k \in 0 .. Len(names) - 1, k \in T PROVE k + 1 \in T
    <3>1. k + 1 \in 1 .. Len(names) /\ (k + 1) - 1 = k /\ k \in Nat
      BY <2>2
    <3>2. PICK r, n : r = h[k] /\ n = names[k + 1]
      OBVIOUS
    <3>3. n \in gone /\ n \in IndicatorNames
      BY <1>4, <2>2, <3>1, <3>2
    <3>4. h[k + 1] = Unload(r, n)
      BY <2>3, <3>1, <3>2
    <3>5. Upto(r, k)
      <4> HIDE DEF Upto
      <4> QED
        BY <2>5, <3>2
    <3>6. Went(k + 1) = Went(k) \cup {n}
      <4>1. 1 .. k + 1 = (1 .. k) \cup {k + 1}
        BY <3>1
      <4> QED
        BY <3>2, <4>1
    <3> HIDE DEF Went
    <3>7. PICK q : q = Unload(r, n)
      OBVIOUS
    <3>8. /\ Listed(q)
          /\ \A l \in IndicatorNames : q.fileInfo[l] = IF l = n THEN NoDir ELSE r.fileInfo[l]
      BY <3>3, <3>5, <3>7, UnloadKeeps
    <3>9. Upto(q, k + 1)
      BY <3>5, <3>6, <3>8
    <3> HIDE DEF Upto
    <3>10. Upto(h[k + 1], k + 1)
      BY <3>4, <3>7, <3>9, Zenon
    <3> QED
      BY <3>1, <3>10
  <2>6. \A k \in 0 .. Len(names) : k \in T
    <3> HIDE DEF T
    <3> QED
      BY <2>2, <2>4, <2>5, UpTo
  <2>7. Upto(h[Len(names)], Len(names))
    <3>1. Len(names) \in T
      BY <2>2, <2>6
    <3> HIDE DEF Upto
    <3> QED
      BY <3>1
  <2>8. Went(Len(names)) = gone
    BY <2>2 DEF ToSet
  <2> HIDE DEF Went
  <2>9. Upto(UnloadEach(found, SetToSeq(gone)), Len(names))
    <3> HIDE DEF Upto
    <3> QED
      BY <2>1, <2>3, <2>7, Zenon
  <2> QED
    BY <2>8, <2>9
<1>8. dir # NoDir
  BY IndicatorsAssumption DEF AllDirs
<1> QED
  BY <1>1, <1>2, <1>3, <1>5, <1>6, <1>7, <1>8

\* The files that indicators are loaded from are there, or the watcher will tell; of the
\* directories it watches and has told of there is no better one.
FilesAreThere ==
  \A n \in IndicatorNames : fileInfo[n] # NoDir =>
    fileInfo[n] \in watchedDirs /\ (n \in files[fileInfo[n]] \/ fileInfo[n] \in dirNotices)
BestAreLoaded ==
  \A dir \in watchedDirs \ dirNotices : \A n \in files[dir] \ leftOut :
    fileInfo[n] # NoDir /\ Location[fileInfo[n]] <= Location[dir]

PanelInv ==
  /\ files \in [AllDirs -> SUBSET IndicatorNames] /\ loaded \in BOOLEAN
  /\ existing \subseteq AllDirs /\ \A dir \in AllDirs \ existing : files[dir] = {}
  /\ watchedDirs \subseteq AllDirs /\ dirNotices \subseteq watchedDirs
  /\ Listed(PanelNow)
  /\ loaded => FilesAreThere /\ BestAreLoaded

(* Nothing is loaded.                                                      *)
LEMMA NoDataListed == Listed(NoData)
<1>1. NoData \in PanelStates
  BY DEF NoData, PanelStates
<1>2. /\ \A n \in IndicatorNames : NoData.fileInfo[n] = NoDir /\ NoData.indicator[n] = NoDir
      /\ Len(NoData.rows) = 0
  BY DEF NoData
<1> QED
  BY <1>1, <1>2 DEF Listed

(* What becomes of it all is the manager's and the model's state.          *)
LEMMA BecomesIs ==
  ASSUME NEW m \in PanelStates, Becomes(m)
  PROVE  PanelNow' = m
BY DEF Becomes, PanelNow, PanelStates

(* load() leaves the best files loaded.                                    *)
LEMMA LoadKeeps ==
  ASSUME PanelInv, Load
  PROVE  PanelInv'
<1> DEFINE dirs == IndicatorDirs
           end == LoadDirs(dirs)
<1>1. /\ files \in [AllDirs -> SUBSET IndicatorNames] /\ UNCHANGED <<existing, files>>
      /\ loaded' = TRUE /\ watchedDirs' = existing /\ dirNotices' = {} /\ Becomes(end)
      /\ existing \subseteq AllDirs /\ \A dir \in AllDirs \ existing : files[dir] = {}
  BY DEF PanelInv, Load
<1>2. /\ dirs \in Seq(AllDirs) /\ Len(dirs) \in Nat /\ DOMAIN dirs = 1 .. Len(dirs)
      /\ \A d \in AllDirs : Location[d] \in Nat /\ d # NoDir
  BY IndicatorsAssumption DEF AllDirs
<1>3. PICK h : /\ h[0] = NoData
               /\ \A k \in 1 .. Len(dirs) : h[k] = LoadDir(h[k - 1], dirs[k])
               /\ h[Len(dirs)] = end
  BY <1>2, LoadDirsSteps
<1> DEFINE Upto(r, k) ==
             /\ Listed(r)
             /\ \A n \in IndicatorNames : r.fileInfo[n] # NoDir => n \in files[r.fileInfo[n]]
             /\ \A j \in 1 .. k : \A n \in files[dirs[j]] :
                  r.fileInfo[n] # NoDir /\ Location[r.fileInfo[n]] <= Location[dirs[j]]
           T == {k \in 0 .. Len(dirs) : Upto(h[k], k)}
<1>4. 0 \in T
  <2>1. Upto(NoData, 0)
    BY NoDataListed DEF NoData
  <2> HIDE DEF Upto
  <2> QED
    BY <1>2, <1>3, <2>1
<1>5. ASSUME NEW k \in 0 .. Len(dirs) - 1, k \in T PROVE k + 1 \in T
  <2>1. k + 1 \in 1 .. Len(dirs) /\ (k + 1) - 1 = k /\ k \in Nat
    BY <1>2
  <2>2. PICK r, dir : r = h[k] /\ dir = dirs[k + 1]
    OBVIOUS
  <2>3. dir \in AllDirs
    BY <1>2, <2>1, <2>2
  <2>4. h[k + 1] = LoadDir(r, dir)
    BY <1>3, <2>1, <2>2
  <2>5. Upto(r, k)
    <3> HIDE DEF Upto
    <3> QED
      BY <1>5, <2>2
  <2>6. PICK q : q = LoadDir(r, dir)
    OBVIOUS
  <2>7. /\ Listed(q)
        /\ \A n \in files[dir] : Better(dir, r.fileInfo[n], q.fileInfo[n])
        /\ \A n \in IndicatorNames \ files[dir] :
             q.fileInfo[n] = IF r.fileInfo[n] = dir THEN NoDir ELSE r.fileInfo[n]
    BY <1>1, <2>3, <2>5, <2>6, LoadDirKeeps
  <2>8. \A n \in IndicatorNames \ files[dir] : q.fileInfo[n] = r.fileInfo[n]
    BY <1>2, <2>3, <2>5, <2>7
  <2>9. \A n \in IndicatorNames :
          r.fileInfo[n] \in AllDirs \cup {NoDir} /\ q.fileInfo[n] \in AllDirs \cup {NoDir}
    BY <2>5, <2>7 DEF Listed, PanelStates
  <2>10. ASSUME NEW n \in IndicatorNames, q.fileInfo[n] # NoDir PROVE n \in files[q.fileInfo[n]]
    <3>1. CASE n \notin files[dir]
      BY <2>5, <2>8, <2>10, <3>1
    <3>2. CASE n \in files[dir]
      <4>1. q.fileInfo[n] \in {dir, r.fileInfo[n]}
        BY <2>7, <3>2 DEF Better
      <4> QED
        BY <2>5, <2>10, <3>2, <4>1
    <3> QED
      BY <3>1, <3>2
  <2>11. ASSUME NEW j \in 1 .. k + 1, NEW n \in files[dirs[j]]
         PROVE  q.fileInfo[n] # NoDir /\ Location[q.fileInfo[n]] <= Location[dirs[j]]
    <3>1. dirs[j] \in AllDirs /\ n \in IndicatorNames
      BY <1>1, <1>2, <2>1, <2>11
    <3>2. CASE j = k + 1
      BY <2>2, <2>7, <2>11, <3>2 DEF Better
    <3>3. CASE j # k + 1
      <4>1. r.fileInfo[n] # NoDir /\ Location[r.fileInfo[n]] <= Location[dirs[j]]
        BY <2>1, <2>5, <2>11, <3>3
      <4>2. CASE n \notin files[dir]
        BY <2>8, <3>1, <4>1, <4>2
      <4>3. CASE n \in files[dir]
        <5>1. q.fileInfo[n] # NoDir /\ Location[q.fileInfo[n]] <= Location[r.fileInfo[n]]
          BY <2>7, <4>1, <4>3 DEF Better
        <5> QED
          BY <1>2, <2>9, <3>1, <4>1, <5>1
      <4> QED
        BY <4>2, <4>3
    <3> QED
      BY <3>2, <3>3
  <2>12. Upto(q, k + 1)
    BY <2>7, <2>10, <2>11
  <2> HIDE DEF Upto
  <2>13. Upto(h[k + 1], k + 1)
    BY <2>4, <2>6, <2>12, Zenon
  <2> QED
    BY <2>1, <2>13
<1>6. \A k \in 0 .. Len(dirs) : k \in T
  <2> HIDE DEF T
  <2> QED
    BY <1>2, <1>4, <1>5, UpTo
<1>7. Upto(end, Len(dirs))
  <2>1. Len(dirs) \in T
    BY <1>2, <1>6
  <2> HIDE DEF Upto
  <2> QED
    BY <1>3, <2>1
<1>8. end \in PanelStates
  BY <1>7 DEF Listed
<1>9. PanelNow' = end /\ fileInfo' = end.fileInfo
  BY <1>1, <1>8, BecomesIs DEF Becomes
<1>10. FilesAreThere'
  <2>1. \A n \in IndicatorNames : end.fileInfo[n] # NoDir =>
          end.fileInfo[n] \in AllDirs /\ n \in files[end.fileInfo[n]]
    BY <1>7 DEF Listed, PanelStates
  <2>2. \A n \in IndicatorNames : end.fileInfo[n] # NoDir => end.fileInfo[n] \in existing
    BY <1>1, <2>1
  <2> QED
    BY <1>1, <1>9, <2>1, <2>2 DEF FilesAreThere
<1>11. BestAreLoaded'
  <2>1. \A d \in AllDirs : \E j \in 1 .. Len(dirs) : dirs[j] = d
    BY <1>2 DEF AllDirs, ToSet
  <2>2. \A d \in AllDirs : \A n \in files[d] :
          end.fileInfo[n] # NoDir /\ Location[end.fileInfo[n]] <= Location[d]
    BY <1>7, <2>1
  <2> QED
    BY <1>1, <1>9, <2>2 DEF BestAreLoaded
<1>12. Listed(PanelNow')
  BY <1>7, <1>9
<1> QED
  BY <1>1, <1>10, <1>11, <1>12 DEF PanelInv, Listed, PositionOf, PanelNow

(* The watcher tells of a directory: its files are loaded, and what went   *)
(* with its file is left out where another directory has one.              *)
LEMMA DirChangedKeeps ==
  ASSUME PanelInv, NEW dir \in AllDirs, IndicatorDirChanged(dir)
  PROVE  PanelInv'
<1> DEFINE end == LoadDir(PanelNow, dir)
<1>1. /\ files \in [AllDirs -> SUBSET IndicatorNames] /\ Listed(PanelNow)
      /\ UNCHANGED <<existing, files, watchedDirs, loaded>> /\ dirNotices' = dirNotices \ {dir}
      /\ Becomes(end)
      /\ leftOut' = leftOut \cup {n \in Unverified(PanelNow, dir, files[dir]) :
                                   \E other \in watchedDirs \ dirNotices : n \in files[other]}
      /\ dir \in dirNotices /\ dir \in watchedDirs
  BY DEF PanelInv, IndicatorDirChanged
<1>2. PanelNow.fileInfo = fileInfo
  BY DEF PanelNow
<1>3. /\ Listed(end)
      /\ \A n \in files[dir] : Better(dir, fileInfo[n], end.fileInfo[n])
      /\ \A n \in IndicatorNames \ files[dir] :
           end.fileInfo[n] = IF fileInfo[n] = dir THEN NoDir ELSE fileInfo[n]
  BY <1>1, <1>2, LoadDirKeeps
<1> HIDE DEF end
<1>4. PanelNow' = end /\ fileInfo' = end.fileInfo
  <2>1. end \in PanelStates
    BY <1>3 DEF Listed
  <2> QED
    BY <1>1, <2>1, BecomesIs DEF Becomes
<1>5. /\ \A d \in AllDirs : Location[d] \in Nat /\ d # NoDir
      /\ \A n \in IndicatorNames :
           fileInfo[n] \in AllDirs \cup {NoDir} /\ end.fileInfo[n] \in AllDirs \cup {NoDir}
  <2>1. \A d \in AllDirs : Location[d] \in Nat /\ d # NoDir
    BY IndicatorsAssumption DEF AllDirs
  <2> QED
    BY <1>1, <1>2, <1>3, <2>1 DEF Listed, PanelStates
<1>6. ASSUME loaded PROVE FilesAreThere' /\ BestAreLoaded'
  <2>1. FilesAreThere /\ BestAreLoaded
    BY <1>6 DEF PanelInv
  <2>2. ASSUME NEW n \in IndicatorNames, end.fileInfo[n] # NoDir
        PROVE  /\ end.fileInfo[n] \in watchedDirs
               /\ n \in files[end.fileInfo[n]] \/ end.fileInfo[n] \in dirNotices \ {dir}
    <3>1. CASE n \notin files[dir]
      BY <1>3, <2>1, <2>2, <3>1 DEF FilesAreThere
    <3>2. CASE n \in files[dir]
      <4>1. end.fileInfo[n] \in {dir, fileInfo[n]}
        BY <1>3, <3>2 DEF Better
      <4> QED
        BY <1>1, <2>1, <2>2, <3>2, <4>1 DEF FilesAreThere
    <3> QED
      BY <3>1, <3>2
  <2>3. ASSUME NEW other \in watchedDirs, other \in AllDirs, other \notin dirNotices \/ other = dir,
               NEW n \in files[other], n \notin leftOut'
        PROVE  end.fileInfo[n] # NoDir /\ Location[end.fileInfo[n]] <= Location[other]
    <3>1. n \in IndicatorNames
      BY <1>1, <2>3
    <3>2. CASE other = dir
      BY <1>3, <2>3, <3>2 DEF Better
    <3>3. CASE other # dir
      <4>1. n \notin leftOut
        BY <1>1, <2>3
      <4>2. fileInfo[n] # NoDir /\ Location[fileInfo[n]] <= Location[other]
        BY <2>1, <2>3, <3>3, <4>1 DEF BestAreLoaded
      <4>3. CASE n \in files[dir]
        <5>1. end.fileInfo[n] # NoDir /\ Location[end.fileInfo[n]] <= Location[fileInfo[n]]
          BY <1>3, <4>2, <4>3 DEF Better
        <5> QED
          BY <1>5, <2>3, <3>1, <4>2, <5>1
      <4>4. CASE n \notin files[dir]
        <5>1. fileInfo[n] # dir
          <6>1. SUFFICES ASSUME fileInfo[n] = dir PROVE n \in leftOut'
            BY <2>3
          <6>2. n \in Unverified(PanelNow, dir, files[dir])
            BY <1>2, <3>1, <4>4, <6>1 DEF Unverified
          <6> QED
            BY <1>1, <2>3, <3>3, <6>2
        <5> QED
          BY <1>3, <3>1, <4>2, <4>4, <5>1
      <4> QED
        BY <4>3, <4>4
    <3> QED
      BY <3>2, <3>3
  <2>4. FilesAreThere'
    BY <1>1, <1>4, <2>2 DEF FilesAreThere
  <2>5. BestAreLoaded'
    <3>1. watchedDirs \subseteq AllDirs
      BY DEF PanelInv
    <3> QED
      BY <1>1, <1>4, <2>3, <3>1 DEF BestAreLoaded
  <2> QED
    BY <2>4, <2>5
<1>7. Listed(PanelNow')
  BY <1>3, <1>4
<1> QED
  BY <1>1, <1>6, <1>7 DEF PanelInv, Listed, PositionOf, PanelNow

(* A package: the watcher is still to tell of the directory.               *)
LEMMA FileChangesKeeps ==
  ASSUME PanelInv, NEW dir \in AllDirs, NEW n \in IndicatorNames, FileChanges(dir, n)
  PROVE  PanelInv'
<1>1. /\ files \in [AllDirs -> SUBSET IndicatorNames]
      /\ files' = [files EXCEPT ![dir] = IF n \in @ THEN @ \ {n} ELSE @ \cup {n}]
      /\ existing' = existing \cup {dir} /\ dirNotices' = dirNotices \cup ({dir} \cap watchedDirs)
      /\ UNCHANGED <<watchedDirs, loaded, fileInfo, indicator, panelRows, leftOut>>
      /\ dirNotices \subseteq watchedDirs /\ watchedDirs \subseteq AllDirs /\ existing \subseteq AllDirs
      /\ \A d \in AllDirs \ existing : files[d] = {}
  BY DEF PanelInv, FileChanges
<1>2. files' \in [AllDirs -> SUBSET IndicatorNames] /\ \A d \in AllDirs \ {dir} : files'[d] = files[d]
  BY <1>1
<1>3. PanelNow' = PanelNow
  BY <1>1 DEF PanelNow
<1>4. \A k \in IndicatorNames : fileInfo[k] \in AllDirs \cup {NoDir}
  BY DEF PanelInv, Listed, PanelStates, PanelNow
<1>5. ASSUME loaded PROVE FilesAreThere' /\ BestAreLoaded'
  <2>1. FilesAreThere /\ BestAreLoaded
    BY <1>5 DEF PanelInv
  <2>2. FilesAreThere'
    BY <1>1, <1>2, <1>4, <2>1 DEF FilesAreThere
  <2>3. BestAreLoaded'
    BY <1>1, <1>2, <2>1 DEF BestAreLoaded
  <2> QED
    BY <2>2, <2>3
<1>6. Listed(PanelNow')
  BY <1>3 DEF PanelInv
<1>7. /\ dirNotices' \subseteq watchedDirs' /\ watchedDirs' \subseteq AllDirs /\ existing' \subseteq AllDirs
      /\ \A d \in AllDirs \ existing' : files'[d] = {}
  BY <1>1, <1>2
<1> QED
  BY <1>1, <1>2, <1>5, <1>6, <1>7 DEF PanelInv, Listed, PositionOf, PanelNow

(* Init, and every step.                                                   *)
LEMMA PanelStarts == PanelInit => PanelInv
<1> SUFFICES ASSUME PanelInit PROVE PanelInv
  OBVIOUS
<1>1. PanelNow = NoData
  BY DEF PanelInit, PanelNow, NoData
<1>2. Listed(PanelNow)
  BY <1>1, NoDataListed
<1> QED
  BY <1>2 DEF PanelInit, PanelInv

LEMMA PanelStep == PanelInv /\ [PanelNext]_panelVars => PanelInv'
<1> SUFFICES ASSUME PanelInv, [PanelNext]_panelVars PROVE PanelInv'
  OBVIOUS
<1>1. CASE UNCHANGED panelVars
  BY <1>1 DEF panelVars, PanelInv, FilesAreThere, BestAreLoaded, Listed, PositionOf, PanelNow
<1>2. CASE UnloadAll
  <2>1. /\ Becomes(NoData) /\ loaded' = FALSE
        /\ UNCHANGED <<existing, files, dirNotices, watchedDirs, leftOut>>
    BY <1>2 DEF UnloadAll
  <2>2. NoData \in PanelStates
    BY NoDataListed DEF Listed
  <2>3. Listed(PanelNow')
    BY <2>1, <2>2, BecomesIs, NoDataListed
  <2> QED
    BY <2>1, <2>3 DEF PanelInv, Listed, PositionOf, PanelNow
<1>3. CASE \E dir \in AllDirs : IndicatorDirChanged(dir)
  BY <1>3, DirChangedKeeps
<1>4. CASE \E dir \in AllDirs, n \in IndicatorNames : FileChanges(dir, n)
  BY <1>4, FileChangesKeeps
<1> QED
  BY <1>1, <1>2, <1>3, <1>4, LoadKeeps DEF PanelNext

(***************************************************************************)
(* Once the watcher has told of all changes the panel shows what is loaded *)
(* by descending position, each indicator once and from a file that is     *)
(* there, the best there is but for those that are left out; for any       *)
(* directories, positions and changes in any order                         *)
(* (indicatorsmanager.cpp:114, 248, indicatorsmodel.cpp:141, 175).         *)
(***************************************************************************)
THEOREM PanelShowsTheLoaded == PanelSpec => []RowsAreLoaded
<1>1. PanelInv => RowsAreLoaded
  <2> SUFFICES ASSUME PanelInv, loaded, dirNotices = {} PROVE RowsAreLoaded
    BY DEF RowsAreLoaded
  <2>1. /\ Listed(PanelNow) /\ PanelNow.fileInfo = fileInfo /\ PanelNow.rows = panelRows
        /\ FilesAreThere /\ BestAreLoaded
    BY DEF PanelInv, PanelNow
  <2>2. panelRows \in Seq(IndicatorNames) /\ DOMAIN panelRows = 1 .. Len(panelRows)
    BY <2>1 DEF Listed, PanelStates
  <2>3. IsInjective(panelRows)
    BY <2>1, <2>2 DEF Listed, IsInjective
  <2>4. ToSet(panelRows) = {n \in IndicatorNames : fileInfo[n] # NoDir}
    <3>1. \A n \in IndicatorNames :
            fileInfo[n] # NoDir <=> \E i \in 1 .. Len(panelRows) : panelRows[i] = n
      BY <2>1 DEF Listed
    <3>2. \A i \in 1 .. Len(panelRows) : panelRows[i] \in IndicatorNames
      BY <2>2
    <3> QED
      BY <2>2, <3>1, <3>2 DEF ToSet
  <2>5. \A i, j \in DOMAIN panelRows :
          i < j => PositionOf(PanelNow, panelRows[i]) >= PositionOf(PanelNow, panelRows[j])
    BY <2>1, <2>2 DEF Listed
  <2>6. \A n \in ToSet(panelRows) : n \in files[fileInfo[n]]
    BY <2>1, <2>4 DEF FilesAreThere
  <2>7. \A dir \in watchedDirs : \A n \in files[dir] \ leftOut :
          n \in ToSet(panelRows) /\ Location[fileInfo[n]] <= Location[dir]
    <3>1. \A dir \in watchedDirs : files[dir] \subseteq IndicatorNames
      BY DEF PanelInv
    <3> QED
      BY <2>1, <2>4, <3>1 DEF BestAreLoaded
  <2> QED
    BY <2>3, <2>4, <2>5, <2>6, <2>7 DEF RowsAreLoaded
<1> QED
  BY <1>1, PanelStarts, PanelStep, PTL DEF PanelSpec

-----------------------------------------------------------------------------
(***************************************************************************)
(* LimitProxyModel.  The rows of the view that follows its signals are     *)
(* compared with those of the source index by index: the three operators   *)
(* of the view and the two of the source are described by length and       *)
(* elements, and then each case of each signal is arithmetic on indices.   *)
(***************************************************************************)
\* A part of a sequence, between two positions in it.
LEMMA PartIs ==
  ASSUME NEW S, NEW s \in Seq(S), NEW m \in 1..(Len(s) + 1), NEW n \in (m - 1)..Len(s)
  PROVE  /\ SubSeq(s, m, n) \in Seq(S)
         /\ Len(SubSeq(s, m, n)) = n - m + 1
         /\ \A i \in 1..(n - m + 1) : SubSeq(s, m, n)[i] = s[m + i - 1]
<1>1. Len(s) \in Nat /\ m \in Int /\ n \in Int
  BY LenProperties
<1>2. \A i \in m..n : s[i] \in S
  <2> SUFFICES ASSUME NEW i \in m..n PROVE s[i] \in S
    OBVIOUS
  <2>1. i \in 1..Len(s)
    BY <1>1
  <2> QED  BY <2>1, ElementOfSeq
<1>3. /\ SubSeq(s, m, n) \in Seq(S)
      /\ Len(SubSeq(s, m, n)) = IF m <= n THEN n - m + 1 ELSE 0
      /\ \A i \in 1..(n - m + 1) : SubSeq(s, m, n)[i] = s[m + i - 1]
  BY <1>1, <1>2, SubSeqProperties
<1>4. (IF m <= n THEN n - m + 1 ELSE 0) = n - m + 1
  BY <1>1
<1> QED  BY <1>3, <1>4

\* r is s with t put in after position f.
Spliced(S, s, t, f, r) ==
  /\ r \in Seq(S)
  /\ Len(r) = Len(s) + Len(t)
  /\ \A i \in 1..(Len(s) + Len(t)) :
       r[i] = IF i <= f THEN s[i] ELSE IF i <= f + Len(t) THEN t[i - f] ELSE s[i - Len(t)]

LEMMA SpliceIs ==
  ASSUME NEW S, NEW s \in Seq(S), NEW t \in Seq(S), NEW f \in 0..Len(s)
  PROVE  Spliced(S, s, t, f, SubSeq(s, 1, f) \o t \o SubSeq(s, f + 1, Len(s)))
<1> DEFINE a == SubSeq(s, 1, f)
           b == SubSeq(s, f + 1, Len(s))
           c == a \o t
           r == c \o b
<1>1. Len(s) \in Nat /\ Len(t) \in Nat
  BY LenProperties
<1>2. a \in Seq(S) /\ Len(a) = f /\ \A i \in 1..f : a[i] = s[i]
  <2>1. 1 \in 1..(Len(s) + 1) /\ f \in (1 - 1)..Len(s)
    BY <1>1
  <2>2. /\ a \in Seq(S) /\ Len(a) = f - 1 + 1
        /\ \A i \in 1..(f - 1 + 1) : a[i] = s[1 + i - 1]
    BY <2>1, PartIs
  <2> QED  BY <2>2, <1>1
<1>3. /\ b \in Seq(S) /\ Len(b) = Len(s) - f
      /\ \A i \in 1..(Len(s) - f) : b[i] = s[f + i]
  <2>1. f + 1 \in 1..(Len(s) + 1) /\ Len(s) \in (f + 1 - 1)..Len(s)
    BY <1>1
  <2>2. /\ b \in Seq(S) /\ Len(b) = Len(s) - (f + 1) + 1
        /\ \A i \in 1..(Len(s) - (f + 1) + 1) : b[i] = s[f + 1 + i - 1]
    BY <2>1, PartIs
  <2> QED  BY <2>2, <1>1
<1> HIDE DEF a, b
<1>4. /\ c \in Seq(S) /\ Len(c) = f + Len(t)
      /\ \A i \in 1..(f + Len(t)) : c[i] = IF i <= f THEN a[i] ELSE t[i - f]
  BY <1>2, ConcatProperties
<1> HIDE DEF c
<1>5. /\ r \in Seq(S) /\ Len(r) = Len(c) + Len(b)
      /\ \A i \in 1..(Len(c) + Len(b)) : r[i] = IF i <= Len(c) THEN c[i] ELSE b[i - Len(c)]
  BY <1>3, <1>4, ConcatProperties
<1> HIDE DEF r
<1>6. Len(r) = Len(s) + Len(t)
  BY <1>1, <1>3, <1>4, <1>5
<1>7. ASSUME NEW i \in 1..(Len(s) + Len(t))
      PROVE  r[i] = IF i <= f THEN s[i]
                    ELSE IF i <= f + Len(t) THEN t[i - f] ELSE s[i - Len(t)]
  <2>1. r[i] = IF i <= f + Len(t) THEN c[i] ELSE b[i - (f + Len(t))]
    BY <1>1, <1>3, <1>4, <1>5
  <2>2. CASE i <= f
    <3>1. i \in 1..f /\ i \in 1..(f + Len(t)) /\ i <= f + Len(t)
      BY <1>1, <2>2
    <3> QED  BY <2>1, <3>1, <1>2, <1>4
  <2>3. CASE ~(i <= f) /\ i <= f + Len(t)
    <3>1. i \in 1..(f + Len(t))
      BY <1>1, <2>3
    <3> QED  BY <2>1, <2>3, <3>1, <1>4
  <2>4. CASE ~(i <= f) /\ ~(i <= f + Len(t))
    <3>1. /\ i - (f + Len(t)) \in 1..(Len(s) - f)
          /\ f + (i - (f + Len(t))) = i - Len(t)
      BY <1>1, <2>4
    <3> QED  BY <2>1, <2>4, <3>1, <1>3
  <2> QED  BY <2>2, <2>3, <2>4
<1> QED  BY <1>5, <1>6, <1>7 DEF a, b, c, r, Spliced

\* r is s without the k elements after position f.
Cut(S, s, f, k, r) ==
  /\ r \in Seq(S)
  /\ Len(r) = Len(s) - k
  /\ \A i \in 1..(Len(s) - k) : r[i] = IF i <= f THEN s[i] ELSE s[i + k]

LEMMA CutIs ==
  ASSUME NEW S, NEW s \in Seq(S), NEW f \in 0..Len(s), NEW k \in 0..(Len(s) - f)
  PROVE  Cut(S, s, f, k, SubSeq(s, 1, f) \o SubSeq(s, f + k + 1, Len(s)))
<1> DEFINE a == SubSeq(s, 1, f)
           b == SubSeq(s, f + k + 1, Len(s))
           r == a \o b
<1>1. Len(s) \in Nat
  BY LenProperties
<1>2. a \in Seq(S) /\ Len(a) = f /\ \A i \in 1..f : a[i] = s[i]
  <2>1. 1 \in 1..(Len(s) + 1) /\ f \in (1 - 1)..Len(s)
    BY <1>1
  <2>2. /\ a \in Seq(S) /\ Len(a) = f - 1 + 1
        /\ \A i \in 1..(f - 1 + 1) : a[i] = s[1 + i - 1]
    BY <2>1, PartIs
  <2> QED  BY <2>2, <1>1
<1>3. /\ b \in Seq(S) /\ Len(b) = Len(s) - f - k
      /\ \A i \in 1..(Len(s) - f - k) : b[i] = s[f + k + i]
  <2>1. f + k + 1 \in 1..(Len(s) + 1) /\ Len(s) \in (f + k + 1 - 1)..Len(s)
    BY <1>1
  <2>2. /\ b \in Seq(S) /\ Len(b) = Len(s) - (f + k + 1) + 1
        /\ \A i \in 1..(Len(s) - (f + k + 1) + 1) : b[i] = s[f + k + 1 + i - 1]
    BY <2>1, PartIs
  <2> QED  BY <2>2, <1>1
<1> HIDE DEF a, b
<1>4. /\ r \in Seq(S) /\ Len(r) = f + (Len(s) - f - k)
      /\ \A i \in 1..(f + (Len(s) - f - k)) : r[i] = IF i <= f THEN a[i] ELSE b[i - f]
  BY <1>2, <1>3, ConcatProperties
<1> HIDE DEF r
<1>5. Len(r) = Len(s) - k
  BY <1>1, <1>4
<1>6. ASSUME NEW i \in 1..(Len(s) - k)
      PROVE  r[i] = IF i <= f THEN s[i] ELSE s[i + k]
  <2>1. r[i] = IF i <= f THEN a[i] ELSE b[i - f]
    BY <1>1, <1>4
  <2>2. CASE i <= f
    BY <1>1, <1>2, <2>1, <2>2
  <2>3. CASE ~(i <= f)
    <3>1. i - f \in 1..(Len(s) - f - k) /\ f + k + (i - f) = i + k
      BY <1>1, <2>3
    <3> QED  BY <2>1, <2>3, <3>1, <1>3
  <2> QED  BY <2>2, <2>3
<1> QED  BY <1>4, <1>5, <1>6 DEF a, b, r, Cut
-----------------------------------------------------------------------------
(***************************************************************************)
(* The operators of the view.                                              *)
(***************************************************************************)
\* w is v with rows f to l inserted, removed or replaced.
WithRows(S, v, now, f, l, w) ==
  /\ w \in Seq(S) /\ Len(w) = Len(v) + (l + 1 - f)
  /\ \A i \in 1..(Len(v) + (l + 1 - f)) :
       w[i] = IF i <= f THEN v[i] ELSE IF i <= l + 1 THEN now[i] ELSE v[i - (l + 1 - f)]
WithoutRows(S, v, f, l, w) ==
  /\ w \in Seq(S) /\ Len(w) = Len(v) - (l + 1 - f)
  /\ \A i \in 1..(Len(v) - (l + 1 - f)) : w[i] = IF i <= f THEN v[i] ELSE v[i + (l + 1 - f)]
WithNewRows(S, v, now, f, l, w) ==
  /\ w \in Seq(S) /\ Len(w) = Len(v)
  /\ \A i \in 1..Len(v) : w[i] = IF i - 1 \in f..l /\ i \in 1..Len(now) THEN now[i] ELSE v[i]

LEMMA InsertedIs ==
  ASSUME NEW S, NEW v \in Seq(S), NEW now \in Seq(S),
         NEW f \in 0..Len(v), NEW l \in (f - 1)..(Len(now) - 1)
  PROVE  WithRows(S, v, now, f, l, Inserted(v, Rows(f, l), now))
<1> DEFINE t == SubSeq(now, f + 1, l + 1)
           k == l + 1 - f
           w == SubSeq(v, 1, f) \o t \o SubSeq(v, f + 1, Len(v))
<1>1. Len(v) \in Nat /\ Len(now) \in Nat
  BY LenProperties
<1>2. /\ t \in Seq(S) /\ Len(t) = k
      /\ \A i \in 1..k : t[i] = now[f + i]
  <2>1. f + 1 \in 1..(Len(now) + 1) /\ l + 1 \in (f + 1 - 1)..Len(now)
    BY <1>1
  <2>2. /\ t \in Seq(S) /\ Len(t) = l + 1 - (f + 1) + 1
        /\ \A i \in 1..(l + 1 - (f + 1) + 1) : t[i] = now[f + 1 + i - 1]
    BY <2>1, PartIs, SMTT(20)
  <2>3. l + 1 - (f + 1) + 1 = k /\ \A i \in 1..k : f + 1 + i - 1 = f + i
    BY <1>1
  <2> HIDE DEF t
  <2>4. Len(t) = k /\ \A i \in 1..k : t[i] = now[f + 1 + i - 1]
    BY <2>2, <2>3
  <2> QED  BY <2>2, <2>3, <2>4
<1>3. Inserted(v, Rows(f, l), now) = w
  BY DEF Inserted, Rows
<1> HIDE DEF t
<1>4. /\ w \in Seq(S) /\ Len(w) = Len(v) + Len(t)
      /\ \A i \in 1..(Len(v) + Len(t)) :
           w[i] = IF i <= f THEN v[i]
                  ELSE IF i <= f + Len(t) THEN t[i - f] ELSE v[i - Len(t)]
  <2>1. Spliced(S, v, t, f, w)
    BY <1>2, SpliceIs
  <2> QED  BY <2>1 DEF Spliced
<1> HIDE DEF w
<1>5. ASSUME NEW i \in 1..(Len(v) + k)
      PROVE  w[i] = IF i <= f THEN v[i] ELSE IF i <= l + 1 THEN now[i] ELSE v[i - k]
  <2>1. w[i] = IF i <= f THEN v[i] ELSE IF i <= f + k THEN t[i - f] ELSE v[i - k]
    BY <1>2, <1>4
  <2>2. f + k = l + 1
    BY <1>1
  <2>3. ~(i <= f) /\ i <= f + k => t[i - f] = now[i]
    <3> SUFFICES ASSUME ~(i <= f), i <= f + k PROVE t[i - f] = now[i]
      OBVIOUS
    <3>1. i - f \in 1..k /\ f + (i - f) = i
      BY <1>1
    <3> QED  BY <3>1, <1>2
  <2> QED  BY <2>1, <2>2, <2>3
<1> QED  BY <1>2, <1>3, <1>4, <1>5 DEF WithRows

LEMMA RemovedIs ==
  ASSUME NEW S, NEW v \in Seq(S),
         NEW f \in 0..Len(v), NEW l \in (f - 1)..(Len(v) - 1)
  PROVE  WithoutRows(S, v, f, l, Removed(v, Rows(f, l)))
<1> DEFINE k == l + 1 - f
<1>1. Len(v) \in Nat
  BY LenProperties
<1>2. k \in 0..(Len(v) - f) /\ f + k + 1 = l + 2
  BY <1>1
<1>3. Removed(v, Rows(f, l)) = SubSeq(v, 1, f) \o SubSeq(v, f + k + 1, Len(v))
  BY <1>2 DEF Removed, Rows
<1> HIDE DEF k
<1> DEFINE w == SubSeq(v, 1, f) \o SubSeq(v, f + k + 1, Len(v))
<1>4. Cut(S, v, f, k, w)
  BY <1>2, CutIs
<1> HIDE DEF w
<1>5. WithoutRows(S, v, f, l, w)
  BY <1>4 DEF k, Cut, WithoutRows
<1> QED  BY <1>3, <1>5 DEF w

LEMMA ChangedIs ==
  ASSUME NEW S, NEW v \in Seq(S), NEW now \in Seq(S), NEW f \in Int, NEW l \in Int
  PROVE  WithNewRows(S, v, now, f, l, Changed(v, Rows(f, l), now))
<1> DEFINE w == [i \in 1..Len(v) |->
                   IF i - 1 \in f..l /\ i \in 1..Len(now) THEN now[i] ELSE v[i]]
<1>1. /\ Len(v) \in Nat /\ DOMAIN v = 1..Len(v) /\ DOMAIN now = 1..Len(now)
      /\ \A i \in 1..Len(v) : v[i] \in S
      /\ \A i \in 1..Len(now) : now[i] \in S
  BY LenProperties, ElementOfSeq
<1>2. Changed(v, Rows(f, l), now) = w
  BY <1>1 DEF Changed, Rows
<1>3. w \in [1..Len(v) -> S]
  BY <1>1
<1>4. w \in Seq(S) /\ Len(w) = Len(v)
  BY <1>1, <1>3
<1> QED  BY <1>2, <1>4 DEF WithNewRows

(***************************************************************************)
(* What a view makes of three signals, about the rows fi to li that are    *)
(* inserted, fr to lr that are removed and fc to lc that have changed.     *)
(***************************************************************************)
AfterSignals(S, v, now, fi, li, fr, lr, fc, lc, c) ==
  LET ki == li + 1 - fi
      kr == lr + 1 - fr
      right(j) == IF j <= fi THEN v[j] ELSE IF j <= li + 1 THEN now[j] ELSE v[j - ki]
  IN  /\ c \in Seq(S) /\ Len(c) = Len(v) + ki - kr
      /\ \A i \in 1..(Len(v) + ki - kr) :
           c[i] = IF i - 1 \in fc..lc /\ i \in 1..Len(now) THEN now[i]
                  ELSE right(IF i <= fr THEN i ELSE i + kr)

LEMMA ViewAfter ==
  ASSUME NEW S, NEW v \in Seq(S), NEW now \in Seq(S),
         NEW fi \in 0..Len(v), NEW li \in (fi - 1)..(Len(now) - 1),
         NEW fr \in 0..(Len(v) + (li + 1 - fi)),
         NEW lr \in (fr - 1)..(Len(v) + (li + 1 - fi) - 1),
         NEW fc \in Int, NEW lc \in Int
  PROVE  AfterSignals(S, v, now, fi, li, fr, lr, fc, lc,
           Changed(Removed(Inserted(v, Rows(fi, li), now), Rows(fr, lr)), Rows(fc, lc), now))
<1> DEFINE a == Inserted(v, Rows(fi, li), now)
           b == Removed(a, Rows(fr, lr))
           c == Changed(b, Rows(fc, lc), now)
           ki == li + 1 - fi
           kr == lr + 1 - fr
           right(j) == IF j <= fi THEN v[j] ELSE IF j <= li + 1 THEN now[j] ELSE v[j - ki]
<1>1. Len(v) \in Nat /\ Len(now) \in Nat /\ ki \in Nat /\ kr \in Nat
  BY LenProperties
<1>2. /\ a \in Seq(S) /\ Len(a) = Len(v) + ki
      /\ \A i \in 1..(Len(v) + ki) : a[i] = right(i)
  <2>1. WithRows(S, v, now, fi, li, a)
    BY InsertedIs
  <2> QED  BY <2>1 DEF WithRows
<1> HIDE DEF a, right
<1>3. /\ b \in Seq(S) /\ Len(b) = Len(a) - kr
      /\ \A i \in 1..(Len(a) - kr) : b[i] = IF i <= fr THEN a[i] ELSE a[i + kr]
  <2>1. fr \in 0..Len(a) /\ lr \in (fr - 1)..(Len(a) - 1)
    BY <1>2
  <2>2. WithoutRows(S, a, fr, lr, b)
    BY <1>2, <2>1, RemovedIs
  <2> QED  BY <2>2 DEF WithoutRows
<1> HIDE DEF b
<1>4. /\ c \in Seq(S) /\ Len(c) = Len(b)
      /\ \A i \in 1..Len(b) :
           c[i] = IF i - 1 \in fc..lc /\ i \in 1..Len(now) THEN now[i] ELSE b[i]
  <2>1. WithNewRows(S, b, now, fc, lc, c)
    BY <1>3, ChangedIs
  <2> QED  BY <2>1 DEF WithNewRows
<1> HIDE DEF c
<1>5. Len(a) - kr = Len(v) + ki - kr /\ Len(c) = Len(v) + ki - kr
  BY <1>2, <1>3, <1>4
<1>6. ASSUME NEW i \in 1..(Len(v) + ki - kr)
      PROVE  c[i] = IF i - 1 \in fc..lc /\ i \in 1..Len(now) THEN now[i]
                    ELSE right(IF i <= fr THEN i ELSE i + kr)
  <2> DEFINE j == IF i <= fr THEN i ELSE i + kr
  <2>1. c[i] = IF i - 1 \in fc..lc /\ i \in 1..Len(now) THEN now[i] ELSE b[i]
    BY <1>2, <1>3, <1>4
  <2>2. b[i] = a[j]
    BY <1>2, <1>3
  <2>3. j \in 1..(Len(v) + ki)
    BY <1>1
  <2>4. a[j] = right(j)
    BY <1>2, <2>3
  <2> QED  BY <2>1, <2>2, <2>4
<1> QED  BY <1>4, <1>5, <1>6 DEF a, b, c, right, AfterSignals

\* The signals are about rows that are there, and each row that is not said to
\* have changed is right after the others.
Tells(v, now, fi, li, fr, lr, fc, lc) ==
  LET ki == li + 1 - fi
      kr == lr + 1 - fr
      right(j) == IF j <= fi THEN v[j] ELSE IF j <= li + 1 THEN now[j] ELSE v[j - ki]
  IN  /\ fi \in 0..Len(v) /\ li \in (fi - 1)..(Len(now) - 1)
      /\ fr \in 0..(Len(v) + ki) /\ lr \in (fr - 1)..(Len(v) + ki - 1)
      /\ fc \in Int /\ lc \in Int
      /\ Len(v) + ki - kr = Len(now)
      /\ \A i \in 1..Len(now) :
           i - 1 \notin fc..lc => now[i] = right(IF i <= fr THEN i ELSE i + kr)

LEMMA SignalsGive ==
  ASSUME NEW S, NEW v \in Seq(S), NEW now \in Seq(S),
         NEW fi, NEW li, NEW fr, NEW lr, NEW fc, NEW lc, Tells(v, now, fi, li, fr, lr, fc, lc)
  PROVE  LET signals == RowSignals(Rows(fi, li), Rows(fr, lr), Rows(fc, lc))
         IN  Changed(Removed(Inserted(v, signals.insert, now), signals.remove),
                     signals.change, now) = now
<1> DEFINE c == Changed(Removed(Inserted(v, Rows(fi, li), now), Rows(fr, lr)), Rows(fc, lc), now)
           ki == li + 1 - fi
           kr == lr + 1 - fr
           right(j) == IF j <= fi THEN v[j] ELSE IF j <= li + 1 THEN now[j] ELSE v[j - ki]
<1>1. /\ fi \in 0..Len(v) /\ li \in (fi - 1)..(Len(now) - 1)
      /\ fr \in 0..(Len(v) + (li + 1 - fi)) /\ lr \in (fr - 1)..(Len(v) + (li + 1 - fi) - 1)
      /\ fc \in Int /\ lc \in Int
      /\ Len(v) + ki - kr = Len(now)
      /\ \A i \in 1..Len(now) :
           i - 1 \notin fc..lc => now[i] = right(IF i <= fr THEN i ELSE i + kr)
  BY DEF Tells
<1>2. /\ c \in Seq(S) /\ Len(c) = Len(v) + ki - kr
      /\ \A i \in 1..(Len(v) + ki - kr) :
           c[i] = IF i - 1 \in fc..lc /\ i \in 1..Len(now) THEN now[i]
                  ELSE right(IF i <= fr THEN i ELSE i + kr)
  <2>1. AfterSignals(S, v, now, fi, li, fr, lr, fc, lc, c)
    BY <1>1, ViewAfter
  <2> QED  BY <2>1 DEF AfterSignals
<1> HIDE DEF c, right
<1>3. ASSUME NEW i \in 1..Len(now) PROVE c[i] = now[i]
  BY <1>1, <1>2
<1>4. c = now
  BY <1>1, <1>2, <1>3, SeqEqual
<1> QED  BY <1>4 DEF c, RowSignals

\* The first rows of a source.
FirstRows(S, rows, lim, w) ==
  /\ w \in Seq(S) /\ Len(w) \in 0..Len(rows)
  /\ Len(w) = IF lim < 0 \/ Len(rows) < lim THEN Len(rows) ELSE lim
  /\ \A i \in 1..Len(w) : w[i] = rows[i]

LEMMA LimitedIs ==
  ASSUME NEW S, NEW rows \in Seq(S), NEW lim \in Int
  PROVE  FirstRows(S, rows, lim, Limited(rows, lim))
<1> DEFINE n == RowCount(rows, lim)
           w == SubSeq(rows, 1, n)
<1>1. Len(rows) \in Nat
  BY LenProperties
<1>2. n \in 0..Len(rows) /\ n = IF lim < 0 \/ Len(rows) < lim THEN Len(rows) ELSE lim
  BY <1>1 DEF RowCount, Smaller
<1> HIDE DEF n
<1>3. 1 \in 1..(Len(rows) + 1) /\ n \in (1 - 1)..Len(rows)
  BY <1>1, <1>2
<1>4. w \in Seq(S) /\ Len(w) = n - 1 + 1 /\ \A i \in 1..(n - 1 + 1) : w[i] = rows[1 + i - 1]
  BY <1>3, PartIs
<1>5. w \in Seq(S) /\ Len(w) = n /\ \A i \in 1..n : w[i] = rows[i]
  BY <1>1, <1>2, <1>4
<1>6. Limited(rows, lim) = w
  BY DEF Limited, n
<1> HIDE DEF w
<1> QED  BY <1>2, <1>5, <1>6 DEF FirstRows

-----------------------------------------------------------------------------
(***************************************************************************)
(* The steps.                                                              *)
(***************************************************************************)
LimitInv ==
  /\ source \in Seq(RowValues)
  /\ limit \in Int /\ limit >= -1
  /\ ViewFollows

\* sourceRowsInserted(): before, behind and across the limit.
LEMMA RowsInsertedKeep ==
  ASSUME LimitInv, NEW start \in 0..MaxRows, NEW rows \in SeqOf(RowValues, MaxRows),
         SourceInserts(start, rows)
  PROVE  LimitInv'
<1> DEFINE n == Len(source)
           k == Len(rows)
           now == Limited(source', limit)
<1>1. /\ source \in Seq(RowValues) /\ limit \in Int /\ limit >= -1 /\ limit' = limit
      /\ n \in Nat /\ start \in 0..n
  BY LenProperties DEF LimitInv, SourceInserts
<1>2. rows \in Seq(RowValues) /\ k \in Nat \ {0}
  <2>1. rows \in Seq(RowValues)
    BY SeqDef, LimitAssumption DEF SeqOf
  <2> QED  BY <2>1, EmptySeq DEF SourceInserts
<1>3. /\ source' \in Seq(RowValues) /\ Len(source') = n + k
      /\ \A i \in 1..(n + k) :
           source'[i] = IF i <= start THEN source[i]
                        ELSE IF i <= start + k THEN rows[i - start] ELSE source[i - k]
  <2>1. Spliced(RowValues, source, rows, start, source')
    BY <1>1, <1>2, SpliceIs DEF SourceInserts
  <2> QED  BY <2>1 DEF Spliced
<1>4. /\ limitView \in Seq(RowValues)
      /\ Len(limitView) = IF limit < 0 \/ n < limit THEN n ELSE limit
      /\ \A i \in 1..Len(limitView) : limitView[i] = source[i]
  <2>1. FirstRows(RowValues, source, limit, limitView)
    BY <1>1, LimitedIs DEF LimitInv, ViewFollows
  <2> QED  BY <2>1 DEF FirstRows
<1>5. /\ now \in Seq(RowValues)
      /\ Len(now) = IF limit < 0 \/ n + k < limit THEN n + k ELSE limit
      /\ \A i \in 1..Len(now) :
           now[i] = IF i <= start THEN source[i]
                    ELSE IF i <= start + k THEN rows[i - start] ELSE source[i - k]
  <2>1. FirstRows(RowValues, source', limit, now)
    BY <1>1, <1>3, LimitedIs
  <2>2. Len(now) \in 0..(n + k)
    BY <1>3, <2>1 DEF FirstRows
  <2> QED  BY <1>1, <1>2, <1>3, <2>1, <2>2 DEF FirstRows
<1>6. Follows(InsertSignals(start, k), now)
  BY DEF SourceInserts
<1> HIDE DEF n, k, now
<1>7. limitView' = now
  <2>1. CASE limit < 0 \/ (start < limit /\ n + k <= limit)
    <3>1. InsertSignals(start, k) = RowSignals(Rows(start, start + k - 1), Rows(0, -1), Rows(0, -1))
      BY <1>1, <1>2, <2>1 DEF InsertSignals, NoRows, n
    <3>2. Len(limitView) = n /\ Len(now) = n + k
      BY <1>1, <1>2, <1>4, <1>5, <2>1
    <3>3. ASSUME NEW i \in 1..Len(now)
          PROVE  now[i] = IF i <= start THEN limitView[i]
                          ELSE IF i <= start + k THEN now[i] ELSE limitView[i - k]
      BY <1>1, <1>2, <1>4, <1>5, <3>2
    <3>4. Tells(limitView, now, start, start + k - 1, 0, -1, 0, -1)
      BY <1>1, <1>2, <3>2, <3>3 DEF Tells
    <3> QED  BY <1>4, <1>5, <1>6, <3>1, <3>4, SignalsGive DEF Follows
  <2>2. CASE limit >= 0 /\ start >= limit
    <3>1. InsertSignals(start, k) = RowSignals(Rows(0, -1), Rows(0, -1), Rows(0, -1))
      BY <1>1, <1>2, <2>2 DEF InsertSignals, NoRows, n
    <3>2. Len(limitView) = limit /\ Len(now) = limit
      BY <1>1, <1>2, <1>4, <1>5, <2>2
    <3>3. ASSUME NEW i \in 1..Len(now) PROVE now[i] = limitView[i]
      BY <1>1, <1>2, <1>4, <1>5, <2>2, <3>2
    <3>4. Tells(limitView, now, 0, -1, 0, -1, 0, -1)
      BY <1>1, <3>2, <3>3 DEF Tells
    <3> QED  BY <1>4, <1>5, <1>6, <3>1, <3>4, SignalsGive DEF Follows
  <2>3. CASE limit >= 0 /\ start < limit /\ n >= limit
    <3>1. InsertSignals(start, k) = RowSignals(Rows(0, -1), Rows(0, -1), Rows(start, limit - 1))
      BY <1>1, <1>2, <2>3 DEF InsertSignals, NoRows, n
    <3>2. Len(limitView) = limit /\ Len(now) = limit
      BY <1>1, <1>2, <1>4, <1>5, <2>3
    <3>3. ASSUME NEW i \in 1..Len(now), i - 1 \notin start..(limit - 1)
          PROVE  now[i] = limitView[i]
      BY <1>1, <1>2, <1>4, <1>5, <2>3, <3>2, <3>3
    <3>4. Tells(limitView, now, 0, -1, 0, -1, start, limit - 1)
      BY <1>1, <3>2, <3>3 DEF Tells
    <3> QED  BY <1>4, <1>5, <1>6, <3>1, <3>4, SignalsGive DEF Follows
  <2>4. CASE limit >= 0 /\ start < limit /\ n < limit /\ n + k > limit
    <3>1. InsertSignals(start, k) =
            RowSignals(Rows(start, start + (limit - n) - 1), Rows(0, -1),
                       Rows(start + (limit - n), limit - 1))
      BY <1>1, <1>2, <2>4 DEF InsertSignals, NoRows, n
    <3>2. Len(limitView) = n /\ Len(now) = limit
      BY <1>1, <1>2, <1>4, <1>5, <2>4
    <3>3. ASSUME NEW i \in 1..Len(now), i - 1 \notin (start + (limit - n))..(limit - 1)
          PROVE  now[i] = IF i <= start THEN limitView[i] ELSE now[i]
      <4>1. CASE i <= start
        <5>1. now[i] = source[i]
          BY <1>5, <4>1
        <5>2. i \in 1..Len(limitView)
          BY <1>1, <2>4, <3>2, <4>1
        <5> QED  BY <1>4, <4>1, <5>1, <5>2
      <4> QED  BY <4>1
    <3>4. \A i \in 1..Len(now) : i - 1 \notin (start + (limit - n))..(limit - 1)
                                   => i <= start + (limit - n) - 1 + 1
      BY <1>1, <2>4, <3>2
    <3>5. Tells(limitView, now, start, start + (limit - n) - 1, 0, -1,
                start + (limit - n), limit - 1)
      BY <1>1, <2>4, <3>2, <3>3, <3>4 DEF Tells
    <3> QED  BY <1>4, <1>5, <1>6, <3>1, <3>5, SignalsGive DEF Follows
  <2> QED  BY <1>1, <1>2, <2>1, <2>2, <2>3, <2>4
<1> QED  BY <1>1, <1>3, <1>7 DEF LimitInv, ViewFollows, now

\* sourceRowsRemoved(): rows from beyond the limit move up.
LEMMA RowsRemovedKeep ==
  ASSUME LimitInv, NEW start \in 0..MaxRows, NEW gone \in 1..MaxRows,
         SourceRemoves(start, gone)
  PROVE  LimitInv'
<1> DEFINE n == Len(source)
           now == Limited(source', limit)
<1>1. /\ source \in Seq(RowValues) /\ limit \in Int /\ limit >= -1 /\ limit' = limit
      /\ n \in Nat /\ start \in Nat /\ gone \in Nat \ {0} /\ start + gone <= n
  BY LenProperties, LimitAssumption DEF LimitInv, SourceRemoves
<1>2. start \in 0..n /\ gone \in 0..(n - start)
  BY <1>1
<1>3. /\ source' \in Seq(RowValues) /\ Len(source') = n - gone
      /\ \A i \in 1..(n - gone) : source'[i] = IF i <= start THEN source[i] ELSE source[i + gone]
  <2>1. Cut(RowValues, source, start, gone, source')
    BY <1>1, <1>2, CutIs DEF SourceRemoves
  <2> QED  BY <2>1 DEF Cut
<1>4. /\ limitView \in Seq(RowValues)
      /\ Len(limitView) = IF limit < 0 \/ n < limit THEN n ELSE limit
      /\ \A i \in 1..Len(limitView) : limitView[i] = source[i]
  <2>1. FirstRows(RowValues, source, limit, limitView)
    BY <1>1, LimitedIs DEF LimitInv, ViewFollows
  <2> QED  BY <2>1 DEF FirstRows
<1>5. /\ now \in Seq(RowValues)
      /\ Len(now) = IF limit < 0 \/ n - gone < limit THEN n - gone ELSE limit
      /\ \A i \in 1..Len(now) : now[i] = IF i <= start THEN source[i] ELSE source[i + gone]
  <2>1. FirstRows(RowValues, source', limit, now)
    BY <1>1, <1>3, LimitedIs
  <2>2. Len(now) \in 0..(n - gone)
    BY <1>3, <2>1 DEF FirstRows
  <2> QED  BY <1>1, <1>3, <2>1, <2>2 DEF FirstRows
<1>6. Follows(RemoveSignals(start, gone), now)
  BY DEF SourceRemoves
<1> HIDE DEF n, now
<1>7. limitView' = now
  <2>1. CASE limit < 0 \/ (start < limit /\ n <= limit)
    <3>1. RemoveSignals(start, gone) =
            RowSignals(Rows(0, -1), Rows(start, start + gone - 1), Rows(0, -1))
      BY <1>1, <2>1 DEF RemoveSignals, NoRows, n
    <3>2. Len(limitView) = n /\ Len(now) = n - gone
      BY <1>1, <1>4, <1>5, <2>1
    <3>3. ASSUME NEW i \in 1..Len(now)
          PROVE  now[i] = limitView[IF i <= start THEN i ELSE i + gone]
      BY <1>1, <1>4, <1>5, <3>2
    <3>4. Tells(limitView, now, 0, -1, start, start + gone - 1, 0, -1)
      BY <1>1, <3>2, <3>3 DEF Tells
    <3> QED  BY <1>4, <1>5, <1>6, <3>1, <3>4, SignalsGive DEF Follows
  <2>2. CASE limit >= 0 /\ start >= limit
    <3>1. RemoveSignals(start, gone) = RowSignals(Rows(0, -1), Rows(0, -1), Rows(0, -1))
      BY <1>1, <2>2 DEF RemoveSignals, NoRows, n
    <3>2. Len(limitView) = limit /\ Len(now) = limit
      BY <1>1, <1>4, <1>5, <2>2
    <3>3. ASSUME NEW i \in 1..Len(now) PROVE now[i] = limitView[i]
      BY <1>1, <1>4, <1>5, <2>2, <3>2
    <3>4. Tells(limitView, now, 0, -1, 0, -1, 0, -1)
      BY <1>1, <3>2, <3>3 DEF Tells
    <3> QED  BY <1>4, <1>5, <1>6, <3>1, <3>4, SignalsGive DEF Follows
  <2>3. CASE limit >= 0 /\ start < limit /\ n > limit /\ n - gone >= limit
    <3>1. RemoveSignals(start, gone) =
            RowSignals(Rows(0, -1), Rows(0, -1), Rows(start, limit - 1))
      BY <1>1, <2>3 DEF RemoveSignals, NoRows, n
    <3>2. Len(limitView) = limit /\ Len(now) = limit
      BY <1>1, <1>4, <1>5, <2>3
    <3>3. ASSUME NEW i \in 1..Len(now), i - 1 \notin start..(limit - 1)
          PROVE  now[i] = limitView[i]
      BY <1>1, <1>4, <1>5, <2>3, <3>2, <3>3
    <3>4. Tells(limitView, now, 0, -1, 0, -1, start, limit - 1)
      BY <1>1, <3>2, <3>3 DEF Tells
    <3> QED  BY <1>4, <1>5, <1>6, <3>1, <3>4, SignalsGive DEF Follows
  <2>4. CASE limit >= 0 /\ start < limit /\ n > limit /\ n - gone < limit
    <3> DEFINE removed == limit - (n - gone)
    <3>1. RemoveSignals(start, gone) =
            RowSignals(Rows(0, -1), Rows(limit - removed, limit - 1),
                       Rows(start, limit - removed - 1))
      BY <1>1, <2>4 DEF RemoveSignals, RemovesLast, NoRows, n
    <3>2. Len(limitView) = limit /\ Len(now) = limit - removed /\ limit - removed = n - gone
      BY <1>1, <1>4, <1>5, <2>4
    <3>3. ASSUME NEW i \in 1..Len(now), i - 1 \notin start..(limit - removed - 1)
          PROVE  i <= limit - removed /\ now[i] = limitView[i]
      BY <1>1, <1>4, <1>5, <2>4, <3>2, <3>3
    <3>4. Tells(limitView, now, 0, -1, limit - removed, limit - 1, start, limit - removed - 1)
      BY <1>1, <2>4, <3>2, <3>3 DEF Tells
    <3> QED  BY <1>4, <1>5, <1>6, <3>1, <3>4, SignalsGive DEF Follows
  <2> QED  BY <1>1, <2>1, <2>2, <2>3, <2>4
<1> QED  BY <1>1, <1>3, <1>7 DEF LimitInv, ViewFollows, now

\* setLimit(): rows are shown or hidden at the end.
LEMMA LimitKeeps ==
  ASSUME LimitInv, NEW lim \in -1..MaxLimit, SetLimit(lim)
  PROVE  LimitInv'
<1> DEFINE n == Len(source)
           now == Limited(source, lim)
<1>1. /\ source \in Seq(RowValues) /\ limit \in Int /\ limit >= -1 /\ source' = source
      /\ n \in Nat /\ lim \in Int /\ lim >= -1 /\ lim # limit /\ limit' = lim
  BY LenProperties, LimitAssumption DEF LimitInv, SetLimit
<1>2. /\ limitView \in Seq(RowValues)
      /\ Len(limitView) = IF limit < 0 \/ n < limit THEN n ELSE limit
      /\ \A i \in 1..Len(limitView) : limitView[i] = source[i]
  <2>1. FirstRows(RowValues, source, limit, limitView)
    BY <1>1, LimitedIs DEF LimitInv, ViewFollows
  <2> QED  BY <2>1 DEF FirstRows
<1>3. /\ now \in Seq(RowValues)
      /\ Len(now) = IF lim < 0 \/ n < lim THEN n ELSE lim
      /\ \A i \in 1..Len(now) : now[i] = source[i]
  <2>1. FirstRows(RowValues, source, lim, now)
    BY <1>1, LimitedIs
  <2> QED  BY <2>1 DEF FirstRows
<1>4. Follows(LimitSignals(lim), now)
  BY DEF SetLimit
<1>5. RowCount(source, limit) = Len(limitView)
  BY <1>1, <1>2 DEF RowCount, Smaller
<1> HIDE DEF n, now
<1>6. limitView' = now
  <2>1. CASE lim >= 0 /\ lim < Len(limitView)
    <3>1. LimitSignals(lim) = RowSignals(Rows(0, -1), Rows(lim, Len(limitView) - 1), Rows(0, -1))
      BY <1>1, <1>2, <1>5, <2>1 DEF LimitSignals, NoRows, n
    <3>2. Len(now) = lim
      BY <1>1, <1>2, <1>3, <2>1
    <3>3. ASSUME NEW i \in 1..Len(now) PROVE i <= lim /\ now[i] = limitView[i]
      BY <1>1, <1>2, <1>3, <2>1, <3>2
    <3>4. Tells(limitView, now, 0, -1, lim, Len(limitView) - 1, 0, -1)
      BY <1>1, <1>2, <2>1, <3>2, <3>3 DEF Tells
    <3> QED  BY <1>2, <1>3, <1>4, <3>1, <3>4, SignalsGive DEF Follows
  <2>2. CASE limit >= 0 /\ limit < n /\ (lim < 0 \/ lim > limit)
    <3>1. LimitSignals(lim) = RowSignals(Rows(limit, Len(now) - 1), Rows(0, -1), Rows(0, -1))
      <4>1. CASE lim < 0
        <5>1. Len(now) = n
          BY <1>3, <4>1
        <5> QED  BY <1>1, <2>2, <4>1, <5>1 DEF LimitSignals, NoRows, n
      <4>2. CASE lim >= 0 /\ lim > limit
        <5>1. Len(now) = Smaller(lim, n)
          BY <1>1, <1>3, <4>2 DEF Smaller
        <5> QED  BY <1>1, <2>2, <4>2, <5>1 DEF LimitSignals, NoRows, n
      <4> QED  BY <1>1, <2>2, <4>1, <4>2
    <3>2. Len(limitView) = limit /\ limit < Len(now)
      BY <1>1, <1>2, <1>3, <2>2
    <3>3. ASSUME NEW i \in 1..Len(now)
          PROVE  i <= Len(now) /\ now[i] = IF i <= limit THEN limitView[i] ELSE now[i]
      BY <1>1, <1>2, <1>3, <3>2
    <3>4. Tells(limitView, now, limit, Len(now) - 1, 0, -1, 0, -1)
      BY <1>1, <3>2, <3>3 DEF Tells
    <3> QED  BY <1>2, <1>3, <1>4, <3>1, <3>4, SignalsGive DEF Follows
  <2>3. CASE /\ ~(lim >= 0 /\ lim < Len(limitView))
             /\ ~(limit >= 0 /\ limit < n /\ (lim < 0 \/ lim > limit))
    <3>1. Len(limitView) = n /\ Len(now) = n
      BY <1>1, <1>2, <1>3, <2>3
    <3>2. LimitSignals(lim) = RowSignals(Rows(0, -1), Rows(0, -1), Rows(0, -1))
      BY <1>1, <1>2, <1>5, <2>3, <3>1 DEF LimitSignals, NoRows, n
    <3>3. ASSUME NEW i \in 1..Len(now) PROVE now[i] = limitView[i]
      BY <1>1, <1>2, <1>3, <3>1
    <3>4. Tells(limitView, now, 0, -1, 0, -1, 0, -1)
      BY <1>1, <3>1, <3>3 DEF Tells
    <3> QED  BY <1>2, <1>3, <1>4, <3>2, <3>4, SignalsGive DEF Follows
  <2> QED  BY <2>1, <2>2, <2>3
<1> QED  BY <1>1, <1>6 DEF LimitInv, ViewFollows, now

LEMMA LimitStep == LimitInv /\ [LimitNext]_limitVars => LimitInv'
<1> SUFFICES ASSUME LimitInv, [LimitNext]_limitVars PROVE LimitInv'
  OBVIOUS
<1>1. ASSUME NEW rows \in SeqOf(RowValues, 1), SetModel(rows) PROVE LimitInv'
  <2>1. PICK m \in 0..1 : rows \in [1..m -> RowValues]
    BY <1>1, Zenon DEF SeqOf
  <2>2. rows \in Seq(RowValues)
    BY <2>1
  <2> QED  BY <1>1, <2>2 DEF SetModel, LimitInv, ViewFollows
<1>2. CASE UNCHANGED limitVars
  BY <1>2 DEF limitVars, LimitInv, ViewFollows
<1> QED  BY <1>1, <1>2, RowsInsertedKeep, RowsRemovedKeep, LimitKeeps DEF LimitNext

\* A view that follows the signals shows the rows of the proxy, after any
\* insertions, removals and limits.
THEOREM LimitedRows == LimitSpec => []ViewFollows
<1>1. LimitInit => LimitInv
  <2> SUFFICES ASSUME LimitInit PROVE LimitInv
    OBVIOUS
  <2>1. source \in Seq(RowValues) /\ Len(source) = 0 /\ limit = -1 /\ limitView = <<>>
    BY EmptySeq DEF LimitInit
  <2>2. Limited(source, limit) = <<>>
    BY <2>1, SubSeqEmpty DEF Limited, RowCount
  <2> QED  BY <2>1, <2>2 DEF LimitInv, ViewFollows
<1>2. LimitInv => ViewFollows
  BY DEF LimitInv
<1> QED  BY <1>1, <1>2, LimitStep, PTL DEF LimitSpec
=============================================================================
