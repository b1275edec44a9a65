--------------------------- MODULE WorkspacesProofs ---------------------------
(***************************************************************************)
(* What TLAPS proves of the workspaces, for any screens, workspaces and    *)
(* surfaces: the proxies follow, the active workspace is shown, and no     *)
(* surface is lost.                                                        *)
(*                                                                         *)
(* A call is a function of the manager that is left by it.  First comes    *)
(* what each call makes of a manager, then the commit, screen by screen    *)
(* and row by row, and the deletions; WorkspacesInv holds between events.  *)
(***************************************************************************)
EXTENDS ListProofs

-----------------------------------------------------------------------------
(* Workspaces: rows of a list as sets.                                     *)

(* The places of a list.                                                   *)
LEMMA RangeIs ==
  ASSUME NEW S, NEW s \in Seq(S)
  PROVE  /\ DOMAIN s = 1 .. Len(s) /\ Len(s) \in Nat
         /\ Range(s) = {s[i] : i \in 1 .. Len(s)} /\ Range(s) \subseteq S
         /\ s = <<>> <=> Range(s) = {}
         /\ s = <<>> <=> Len(s) = 0
<1>1. DOMAIN s = 1 .. Len(s) /\ Len(s) \in Nat /\ (s = <<>> <=> Len(s) = 0)
  BY EmptySeq
<1>2. Range(s) = {s[i] : i \in 1 .. Len(s)}
  BY <1>1 DEF Range
<1>3. Len(s) # 0 => 1 \in 1 .. Len(s)
  BY <1>1
<1>4. \A i \in 1 .. Len(s) : s[i] \in S
  OBVIOUS
<1> QED
  BY <1>1, <1>2, <1>3, <1>4

(* No row.                                                                 *)
LEMMA EmptyRange == Range(<<>>) = {}
<1>1. <<>> \in Seq(Ids)
  OBVIOUS
<1> QED
  BY <1>1, RangeIs

(* A row is put in.                                                        *)
LEMMA PutInRange ==
  ASSUME NEW S, NEW s \in Seq(S), NEW i \in 1 .. Len(s) + 1, NEW w \in S, NEW t, t = InsertAt(s, i, w)
  PROVE  /\ t \in Seq(S) /\ Len(t) = Len(s) + 1 /\ t[i] = w
         /\ \A j \in 1 .. Len(s) : j < i => t[j] = s[j]
         /\ Range(t) = Range(s) \cup {w}
         /\ IsInjective(s) /\ w \notin Range(s) => IsInjective(t)
<1>1. t \in Seq(S) /\ Len(t) = Len(s) + 1 /\ Len(s) \in Nat /\ i \in Nat
      /\ \A j \in 1 .. Len(s) + 1 : t[j] = IF j < i THEN s[j] ELSE IF j = i THEN w ELSE s[j - 1]
  <2>1. t \in Seq(S) /\ PutIn(t, s, i, w)
    BY InsertIs, Zenon
  <2> QED
    BY <2>1 DEF PutIn
<1>2. t[i] = w /\ \A j \in 1 .. Len(s) : j < i => t[j] = s[j]
  BY <1>1
<1>3. Range(t) = {t[j] : j \in 1 .. Len(s) + 1} /\ Range(s) = {s[j] : j \in 1 .. Len(s)}
  BY <1>1, RangeIs
<1>4. ASSUME NEW j \in 1 .. Len(s) + 1 PROVE t[j] \in Range(s) \cup {w}
  <2>1. CASE j < i
    BY <1>1, <1>3, <2>1
  <2>2. CASE j > i
    <3>1. j - 1 \in 1 .. Len(s) /\ t[j] = s[j - 1]
      BY <1>1, <2>2
    <3> QED
      BY <1>3, <3>1
  <2> QED
    BY <1>1, <1>2, <2>1, <2>2
<1>5. ASSUME NEW j \in 1 .. Len(s) PROVE s[j] \in Range(t)
  <2>1. CASE j < i
    BY <1>1, <1>3, <2>1
  <2>2. CASE j >= i
    <3>1. j + 1 \in 1 .. Len(s) + 1 /\ t[j + 1] = s[j]
      BY <1>1, <2>2
    <3> QED
      BY <1>3, <3>1
  <2> QED
    BY <1>1, <2>1, <2>2
<1>6. Range(t) = Range(s) \cup {w}
  <2>1. Range(t) \subseteq Range(s) \cup {w}
    BY <1>3, <1>4
  <2>2. Range(s) \subseteq Range(t)
    BY <1>3, <1>5
  <2>3. w \in Range(t)
    BY <1>1, <1>2, <1>3
  <2> QED
    BY <2>1, <2>2, <2>3
<1>7. ASSUME IsInjective(s), w \notin Range(s) PROVE IsInjective(t)
  <2>1. \A j, k \in 1 .. Len(s) : s[j] = s[k] => j = k
    BY <1>7, RangeIs DEF IsInjective
  <2>2. \A j \in 1 .. Len(s) : s[j] # w
    BY <1>3, <1>7
  <2> DEFINE From(j) == IF j < i THEN j ELSE j - 1
  <2>3. ASSUME NEW j \in 1 .. Len(s) + 1, j # i PROVE From(j) \in 1 .. Len(s) /\ t[j] = s[From(j)]
    <3>1. CASE j < i
      BY <1>1, <3>1
    <3>2. CASE j > i
      BY <1>1, <3>2
    <3> QED
      BY <1>1, <2>3, <3>1, <3>2
  <2>4. \A j, k \in 1 .. Len(s) + 1 : j # i /\ k # i /\ From(j) = From(k) => j = k
    BY <1>1
  <2> HIDE DEF From
  <2>5. \A j, k \in 1 .. Len(s) + 1 : t[j] = t[k] => j = k
    BY <1>2, <2>1, <2>2, <2>3, <2>4
  <2> QED
    BY <1>1, <2>5, RangeIs DEF IsInjective
<1> QED
  BY <1>1, <1>2, <1>6, <1>7

(* A row is taken out.                                                     *)
LEMMA WithoutRange ==
  ASSUME NEW S, NEW s \in Seq(S), NEW w, NEW t, t = Without(s, w)
  PROVE  /\ t \in Seq(S)
         /\ w \notin Range(s) => t = s
         /\ Range(t) \subseteq Range(s)
         /\ IsInjective(s) => IsInjective(t) /\ Range(t) = Range(s) \ {w}
<1>1. DOMAIN s = 1 .. Len(s) /\ Len(s) \in Nat /\ Range(s) = {s[i] : i \in 1 .. Len(s)}
  BY RangeIs
<1>2. Contains(s, w) <=> w \in Range(s)
  BY <1>1 DEF Contains
<1>3. CASE w \notin Range(s)
  BY <1>2, <1>3 DEF Without
<1>4. CASE w \in Range(s)
  <2> DEFINE x == IndexIn(s, w)
  <2>1. x \in 1 .. Len(s) /\ s[x] = w
    BY <1>1, <1>4 DEF IndexIn
  <2>2. t = RemoveAt(s, x)
    BY <1>2, <1>4 DEF Without
  <2> HIDE DEF x
  <2>3. t \in Seq(S) /\ Len(t) = Len(s) - 1
        /\ \A j \in 1 .. Len(s) - 1 : t[j] = IF j < x THEN s[j] ELSE s[j + 1]
    BY <2>1, <2>2, RemoveIs
  <2>4. Range(t) = {t[j] : j \in 1 .. Len(s) - 1}
    BY <2>3, RangeIs
  <2> DEFINE From(j) == IF j < x THEN j ELSE j + 1
  <2>5. ASSUME NEW j \in 1 .. Len(s) - 1
        PROVE  From(j) \in 1 .. Len(s) /\ From(j) # x /\ t[j] = s[From(j)]
    BY <1>1, <2>1, <2>3
  <2>6. \A j, k \in 1 .. Len(s) - 1 : From(j) = From(k) => j = k
    BY <1>1, <2>1
  <2>7. ASSUME NEW i \in 1 .. Len(s), i # x PROVE \E j \in 1 .. Len(s) - 1 : From(j) = i
    <3>1. CASE i < x
      BY <1>1, <2>1, <3>1
    <3>2. CASE i > x
      <4>1. i - 1 \in 1 .. Len(s) - 1 /\ From(i - 1) = i
        BY <1>1, <2>1, <3>2
      <4> QED
        BY <4>1
    <3> QED
      BY <1>1, <2>1, <2>7, <3>1, <3>2
  <2> HIDE DEF From
  <2>8. Range(t) \subseteq Range(s)
    BY <1>1, <2>4, <2>5
  <2>9. ASSUME IsInjective(s) PROVE IsInjective(t) /\ Range(t) = Range(s) \ {w}
    <3>1. \A j, k \in 1 .. Len(s) : s[j] = s[k] => j = k
      BY <1>1, <2>9 DEF IsInjective
    <3>2. \A j, k \in 1 .. Len(s) - 1 : t[j] = t[k] => j = k
      BY <2>5, <2>6, <3>1
    <3>3. IsInjective(t)
      BY <2>3, <3>2, RangeIs DEF IsInjective
    <3>4. w \notin Range(t)
      BY <2>1, <2>4, <2>5, <3>1
    <3>5. \A i \in 1 .. Len(s) : s[i] # w => s[i] \in Range(t)
      BY <2>1, <2>4, <2>5, <2>7
    <3> QED
      BY <1>1, <2>8, <3>3, <3>4, <3>5
  <2> QED
    BY <1>4, <2>3, <2>8, <2>9
<1> QED
  BY <1>3, <1>4

(* A row is moved to a place before its own.                               *)
LEMMA MoveRowRange ==
  ASSUME NEW S, NEW s \in Seq(S), NEW from \in 1 .. Len(s), NEW to \in 1 .. Len(s), NEW t,
         t = MoveRow(s, from, to)
  PROVE  /\ t \in Seq(S) /\ Len(t) = Len(s) /\ t[to] = s[from]
         /\ \A j \in 1 .. Len(s) : j < from /\ j < to => t[j] = s[j]
         /\ Range(t) = Range(s)
         /\ IsInjective(s) => IsInjective(t)
<1>1. t = Moved(s, from, to)
  BY DEF MoveRow, Moved
<1>2. t \in Seq(S) /\ Len(t) = Len(s)
      /\ \A j \in 1 .. Len(s) :
           WasAt(j, from, to) \in 1 .. Len(s) /\ t[j] = s[WasAt(j, from, to)]
  <2>1. t \in Seq(S) /\ MoveOf(t, s, from, to)
    BY <1>1, MovedIs, Zenon
  <2> QED
    BY <2>1 DEF MoveOf
<1>3. Len(s) \in Nat /\ DOMAIN s = 1 .. Len(s) /\ DOMAIN t = 1 .. Len(s)
      /\ Range(s) = {s[i] : i \in 1 .. Len(s)} /\ Range(t) = {t[i] : i \in 1 .. Len(s)}
  <2>1. Len(s) \in Nat /\ DOMAIN s = 1 .. Len(s) /\ Range(s) = {s[i] : i \in 1 .. Len(s)}
    BY RangeIs
  <2>2. DOMAIN t = 1 .. Len(t) /\ Range(t) = {t[i] : i \in 1 .. Len(t)}
    <3>1. t \in Seq(S)
      BY <1>2
    <3> QED
      BY <3>1, RangeIs
  <2> QED
    BY <1>2, <2>1, <2>2
<1>4. ASSUME NEW j \in 1 .. Len(s)
      PROVE  /\ \A k \in 1 .. Len(s) : WasAt(j, from, to) = WasAt(k, from, to) => j = k
             /\ j < from /\ j < to => WasAt(j, from, to) = j
             /\ WasAt(to, from, to) = from
  BY <1>3, WasAtOnce
<1>5. ASSUME NEW i \in 1 .. Len(s) PROVE \E j \in 1 .. Len(s) : WasAt(j, from, to) = i
  <2>1. from \in Nat /\ to \in Nat /\ i \in Nat
    OBVIOUS
  <2>2. CASE i = from
    BY <1>4, <2>2
  <2> DEFINE k == IF i < from THEN i ELSE i - 1
             j == IF k < to THEN k ELSE k + 1
  <2>3. CASE i # from
    <3>1. j \in 1 .. Len(s) /\ j # to /\ (IF j < to THEN j ELSE j - 1) = k
      BY <1>3, <2>1, <2>3
    <3>2. (IF k < from THEN k ELSE k + 1) = i
      BY <1>3, <2>1, <2>3
    <3>3. WasAt(j, from, to) = i
      BY <3>1, <3>2 DEF WasAt
    <3> QED
      BY <3>1, <3>3
  <2> QED
    BY <2>2, <2>3
<1>6. Range(t) = Range(s)
  <2>1. Range(t) \subseteq Range(s)
    BY <1>2, <1>3
  <2>2. ASSUME NEW i \in 1 .. Len(s) PROVE s[i] \in Range(t)
    BY <1>2, <1>3, <1>5
  <2> QED
    BY <1>3, <2>1, <2>2
<1>7. ASSUME IsInjective(s) PROVE IsInjective(t)
  <2>1. \A j, k \in 1 .. Len(s) : s[j] = s[k] => j = k
    BY <1>3, <1>7 DEF IsInjective
  <2> QED
    BY <1>2, <1>3, <1>4, <2>1 DEF IsInjective
<1> QED
  BY <1>2, <1>4, <1>6, <1>7

-----------------------------------------------------------------------------
(* Workspaces: what the calls do to the manager.                           *)

WmStates ==
  [list : [Screens -> Seq(Ids)], limbo : [Screens -> SUBSET Ids],
   current : [Screens -> Ids \cup {Null}], active : Ids \cup {Null},
   activeScreen : Screens \cup {Null}, all : SUBSET Ids, plugged : Seq(Screens),
   proxy : [Proxies -> [Screens -> Seq(Ids \cup {Gone})]],
   surfaces : [Surfaces -> Ids \cup {Null}], crashed : BOOLEAN]

\* The workspaces that are on a screen, each on one and once.
OnScreens(m) == UNION {Range(m.list[c]) : c \in Screens}
PlacedOnce(m) ==
  /\ \A c \in Screens : IsInjective(m.list[c])
  /\ \A c, d \in Screens : c # d => Range(m.list[c]) \cap Range(m.list[d]) = {}

\* The proxy that nobody edits; the screens of D have none.
Mirrored(m, D) ==
  \A c \in Screens : m.proxy["mirror"][c] = IF c \in D THEN <<>> ELSE m.list[c]

\* A screen shows one of its workspaces; it does if it has any.
ShowsOwn(m) == \A c \in Screens : m.current[c] = Null \/ m.current[c] \in Range(m.list[c])
ShowsOne(m) == ShowsOwn(m) /\ \A c \in Screens : m.list[c] # <<>> => m.current[c] # Null

\* What a call leaves alone: one that moves rows, and one that activates.
Calm(r, m) ==
  /\ r.active = m.active /\ r.activeScreen = m.activeScreen /\ r.all = m.all
  /\ r.plugged = m.plugged /\ r.surfaces = m.surfaces /\ r.crashed = m.crashed
Still(r, m) ==
  /\ r.list = m.list /\ r.limbo = m.limbo /\ r.all = m.all /\ r.plugged = m.plugged
  /\ r.proxy = m.proxy /\ r.surfaces = m.surfaces /\ r.crashed = m.crashed

\* The state of the lists while calls are under way.
Neat(m, D) == m \in WmStates /\ PlacedOnce(m) /\ Mirrored(m, D) /\ ShowsOne(m)

\* A proxy without rows stays so.
NoneNew(r, m) ==
  \A d \in Screens : m.proxy["edit"][d] = <<>> => r.proxy["edit"][d] = <<>>

\* r is m when w has left its screen.
TakenOff(r, m, w, syncing) ==
  /\ \A d \in Screens :
       /\ Range(r.list[d]) = Range(m.list[d]) \ {w}
       /\ w \notin Range(m.list[d]) =>
            /\ r.list[d] = m.list[d] /\ r.limbo[d] = m.limbo[d]
            /\ r.current[d] = m.current[d] /\ r.proxy["edit"][d] = m.proxy["edit"][d]
       /\ w \in Range(m.list[d]) => r.limbo[d] = m.limbo[d] \cup {w}
  /\ syncing => r.proxy["edit"] = m.proxy["edit"]
  /\ NoneNew(r, m)

\* r is m when w has been put on the screen c at row i.
PutOn(r, m, c, w, i) ==
  /\ r.list[c] = InsertAt(m.list[c], i, w)
  /\ \A d \in Screens \ {c} :
       /\ Range(r.list[d]) = Range(m.list[d]) \ {w}
       /\ w \notin Range(m.list[d]) => r.list[d] = m.list[d]
  /\ \A d \in Screens : r.limbo[d] = m.limbo[d] \ {w}
  /\ r.proxy["edit"] = m.proxy["edit"] /\ r.all = m.all /\ r.plugged = m.plugged
  /\ r.surfaces = m.surfaces /\ r.crashed = m.crashed
  /\ m.active # w => r.active = m.active /\ r.activeScreen = m.activeScreen
  /\ m.active = w => r.active \in Range(r.list[c]) /\ r.activeScreen = c

(* The parts of a state.                                                   *)
LEMMA StateIs ==
  ASSUME NEW m \in WmStates, NEW c \in Screens
  PROVE  /\ m.list[c] \in Seq(Ids) /\ Range(m.list[c]) \subseteq Ids
         /\ m.limbo[c] \subseteq Ids /\ m.current[c] \in Ids \cup {Null}
         /\ m.proxy["mirror"][c] \in Seq(Ids \cup {Gone}) /\ m.proxy["edit"][c] \in Seq(Ids \cup {Gone})
<1>1. /\ m.list[c] \in Seq(Ids) /\ m.limbo[c] \subseteq Ids /\ m.current[c] \in Ids \cup {Null}
      /\ m.proxy["mirror"][c] \in Seq(Ids \cup {Gone}) /\ m.proxy["edit"][c] \in Seq(Ids \cup {Gone})
  BY DEF WmStates, Proxies
<1> QED
  BY <1>1, RangeIs

(* The screen of a workspace.                                              *)
LEMMA OwnerIs ==
  ASSUME NEW m \in WmStates, PlacedOnce(m), NEW w
  PROVE  /\ \A c \in Screens : w \in Range(m.list[c]) => OwnedBy(m, w) = {c}
         /\ w \notin OnScreens(m) => OwnedBy(m, w) = {}
BY DEF OwnedBy, PlacedOnce, OnScreens

(* The fields after a removal.                                             *)
LEMMA RemoveFields ==
  ASSUME NEW m \in WmStates, NEW c \in Screens, NEW w \in Ids, NEW syncing \in BOOLEAN,
         NEW r, r = RemoveWorkspace(m, c, w, syncing)
  PROVE  /\ r \in WmStates /\ Calm(r, m)
         /\ r.list = [m.list EXCEPT ![c] = Without(m.list[c], w)]
         /\ r.limbo = [m.limbo EXCEPT ![c] = m.limbo[c] \cup {w}]
         /\ r.current = [m.current EXCEPT ![c] = IF m.current[c] = w THEN HeadOr(Without(m.list[c], w))
                                                 ELSE m.current[c]]
         /\ r.proxy["mirror"] = [m.proxy["mirror"] EXCEPT ![c] = Without(m.proxy["mirror"][c], w)]
         /\ r.proxy["edit"] = IF syncing THEN m.proxy["edit"]
                              ELSE [m.proxy["edit"] EXCEPT ![c] = Without(m.proxy["edit"][c], w)]
<1> DEFINE l == Without(m.list[c], w)
           k == Without(m.proxy["mirror"][c], w)
           e == IF syncing THEN m.proxy["edit"][c] ELSE Without(m.proxy["edit"][c], w)
           h == HeadOr(l)
<1>1. l \in Seq(Ids) /\ k \in Seq(Ids \cup {Gone}) /\ e \in Seq(Ids \cup {Gone})
  BY StateIs, WithoutRange
<1>2. h \in Ids \cup {Null}
  BY <1>1 DEF HeadOr
<1>3. r = [m EXCEPT !.list[c] = l, !.limbo[c] = @ \cup {w},
                    !.current[c] = IF @ = w THEN h ELSE @,
                    !.proxy["mirror"][c] = k, !.proxy["edit"][c] = e]
  BY DEF RemoveWorkspace
<1>4. m.proxy["edit"] = [m.proxy["edit"] EXCEPT ![c] = m.proxy["edit"][c]]
  BY DEF WmStates, Proxies
<1> HIDE DEF l, k, h
<1>5. /\ m.list \in [Screens -> Seq(Ids)] /\ m.limbo \in [Screens -> SUBSET Ids]
      /\ m.current \in [Screens -> Ids \cup {Null}]
      /\ m.proxy \in [Proxies -> [Screens -> Seq(Ids \cup {Gone})]]
  BY DEF WmStates
<1>6. /\ Calm(r, m)
      /\ r.list = [m.list EXCEPT ![c] = l]
      /\ r.limbo = [m.limbo EXCEPT ![c] = m.limbo[c] \cup {w}]
      /\ r.current = [m.current EXCEPT ![c] = IF m.current[c] = w THEN h ELSE m.current[c]]
      /\ r.proxy = [m.proxy EXCEPT !["mirror"][c] = k, !["edit"][c] = e]
  <2> HIDE DEF e
  <2> QED
    BY <1>3 DEF WmStates, Calm
<1>7. /\ r.proxy["mirror"] = [m.proxy["mirror"] EXCEPT ![c] = k]
      /\ r.proxy["edit"] = [m.proxy["edit"] EXCEPT ![c] = e]
      /\ r.proxy \in [Proxies -> [Screens -> Seq(Ids \cup {Gone})]]
  <2> HIDE DEF e
  <2>1. "mirror" \in Proxies /\ "edit" \in Proxies /\ "mirror" # "edit"
    BY DEF Proxies
  <2>2. r.proxy["mirror"] = [m.proxy["mirror"] EXCEPT ![c] = k]
    BY <1>5, <1>6, <2>1
  <2>3. r.proxy["edit"] = [m.proxy["edit"] EXCEPT ![c] = e]
    BY <1>5, <1>6, <2>1
  <2>4. /\ r.proxy["mirror"] \in [Screens -> Seq(Ids \cup {Gone})]
        /\ r.proxy["edit"] \in [Screens -> Seq(Ids \cup {Gone})]
    BY <1>1, <1>5, <2>1, <2>2, <2>3
  <2>5. r.proxy = [p \in Proxies |-> r.proxy[p]]
    BY <1>5, <1>6
  <2>6. \A p \in Proxies : r.proxy[p] \in [Screens -> Seq(Ids \cup {Gone})]
    BY <2>4 DEF Proxies
  <2> QED
    BY <2>2, <2>3, <2>5, <2>6
<1>8. r \in WmStates
  <2> HIDE DEF e
  <2>1. /\ r.list \in [Screens -> Seq(Ids)] /\ r.limbo \in [Screens -> SUBSET Ids]
        /\ r.current \in [Screens -> Ids \cup {Null}]
    BY <1>1, <1>2, <1>5, <1>6
  <2>2. r = [m EXCEPT !.list = r.list, !.limbo = r.limbo, !.current = r.current, !.proxy = r.proxy]
    BY <1>3 DEF WmStates
  <2> QED
    BY <1>7, <2>1, <2>2 DEF WmStates
<1> QED
  BY <1>4, <1>6, <1>7, <1>8 DEF l, k, h

(* A workspace leaves its screen, if it has one.                           *)
LEMMA UnassignIs ==
  ASSUME NEW m, NEW D, Neat(m, D), NEW w \in Ids, NEW syncing \in BOOLEAN,
         NEW r, r = Unassign(m, w, syncing)
  PROVE  Neat(r, D) /\ Calm(r, m) /\ TakenOff(r, m, w, syncing)
<1>0. m \in WmStates /\ PlacedOnce(m) /\ Mirrored(m, D) /\ ShowsOne(m)
  BY DEF Neat
<1>1. CASE w \notin OnScreens(m)
  <2>1. r = m
    BY <1>0, <1>1, OwnerIs DEF Unassign
  <2>2. \A d \in Screens : w \notin Range(m.list[d])
    BY <1>1 DEF OnScreens
  <2> QED
    BY <1>0, <2>1, <2>2 DEF Calm, Neat, TakenOff, NoneNew
<1>2. CASE w \in OnScreens(m)
  <2>1. PICK c \in Screens : w \in Range(m.list[c])
    BY <1>2 DEF OnScreens
  <2>2. OwnedBy(m, w) = {c} /\ \A d \in Screens \ {c} : w \notin Range(m.list[d])
    BY <1>0, <2>1, OwnerIs DEF PlacedOnce
  <2>3. r = RemoveWorkspace(m, c, w, syncing)
    BY <2>2 DEF Unassign
  <2> DEFINE l == Without(m.list[c], w)
  <2>4. /\ r \in WmStates /\ Calm(r, m)
        /\ r.list = [m.list EXCEPT ![c] = l]
        /\ r.limbo = [m.limbo EXCEPT ![c] = m.limbo[c] \cup {w}]
        /\ r.current = [m.current EXCEPT ![c] = IF m.current[c] = w THEN HeadOr(l) ELSE m.current[c]]
        /\ r.proxy["mirror"] = [m.proxy["mirror"] EXCEPT ![c] = Without(m.proxy["mirror"][c], w)]
        /\ r.proxy["edit"] = IF syncing THEN m.proxy["edit"]
                             ELSE [m.proxy["edit"] EXCEPT ![c] = Without(m.proxy["edit"][c], w)]
    BY <1>0, <2>3, RemoveFields
  <2>5. l \in Seq(Ids) /\ IsInjective(l) /\ Range(l) = Range(m.list[c]) \ {w}
    BY <1>0, StateIs, WithoutRange DEF PlacedOnce
  <2>6. Without(<<>>, w) = <<>>
    <3>1. <<>> \in Seq(Ids) /\ Range(<<>>) = {}
      BY EmptyRange
    <3> QED
      BY <3>1, WithoutRange
  <2>7. l # <<>> => HeadOr(l) \in Range(l) /\ HeadOr(l) # Null
    <3>1. l # <<>> => HeadOr(l) = l[1] /\ 1 \in 1 .. Len(l)
      BY <2>5 DEF HeadOr
    <3>2. Range(l) = {l[i] : i \in 1 .. Len(l)} /\ Range(l) \subseteq Ids
      BY <2>5, RangeIs
    <3> QED
      BY <3>1, <3>2, WorkspacesAssumption
  <2>8. l = <<>> => HeadOr(l) = Null
    BY DEF HeadOr
  <2> HIDE DEF l
  <2>fields. /\ m.list \in [Screens -> Seq(Ids)] /\ m.limbo \in [Screens -> SUBSET Ids]
        /\ m.current \in [Screens -> Ids \cup {Null}]
        /\ m.proxy["mirror"] \in [Screens -> Seq(Ids \cup {Gone})]
        /\ m.proxy["edit"] \in [Screens -> Seq(Ids \cup {Gone})]
    BY <1>0 DEF WmStates, Proxies
  <2>9. /\ r.list[c] = l /\ r.limbo[c] = m.limbo[c] \cup {w}
        /\ r.current[c] = IF m.current[c] = w THEN HeadOr(l) ELSE m.current[c]
        /\ r.proxy["mirror"][c] = Without(m.proxy["mirror"][c], w)
    BY <2>4, <2>fields
  <2>10. \A d \in Screens \ {c} :
           /\ r.list[d] = m.list[d] /\ r.limbo[d] = m.limbo[d] /\ r.current[d] = m.current[d]
           /\ r.proxy["mirror"][d] = m.proxy["mirror"][d]
           /\ r.proxy["edit"][d] = m.proxy["edit"][d]
    BY <2>4, <2>fields
  <2>11. PlacedOnce(r)
    BY <1>0, <2>5, <2>9, <2>10 DEF PlacedOnce
  <2>12. Mirrored(r, D)
    BY <1>0, <2>6, <2>9, <2>10 DEF Mirrored, l
  <2>13. ShowsOne(r)
    <3>1. m.current[c] \in Range(m.list[c])
      <4>1. m.list[c] # <<>>
        BY <1>0, <2>1, StateIs, RangeIs
      <4> QED
        BY <1>0, <4>1 DEF ShowsOne, ShowsOwn
    <3>2. r.current[c] = Null \/ r.current[c] \in Range(l)
      BY <2>5, <2>7, <2>8, <2>9, <3>1
    <3>3. l # <<>> => r.current[c] # Null
      BY <1>0, <2>7, <2>9, <3>1, StateIs, WorkspacesAssumption
    <3> QED
      BY <1>0, <2>9, <2>10, <3>2, <3>3 DEF ShowsOne, ShowsOwn
  <2> QED
    <3>1. Neat(r, D)
      BY <2>4, <2>11, <2>12, <2>13 DEF Neat
    <3>2. syncing => r.proxy["edit"] = m.proxy["edit"]
      BY <2>4
    <3>3. Range(r.list[c]) = Range(m.list[c]) \ {w}
      BY <2>5, <2>9
    <3>4. NoneNew(r, m)
      <4>1. m.proxy["edit"][c] = <<>> => r.proxy["edit"][c] = <<>>
        BY <2>4, <2>6, <2>fields
      <4> QED
        BY <2>10, <4>1 DEF NoneNew
    <3> QED
      BY <2>1, <2>2, <2>4, <2>9, <2>10, <3>1, <3>2, <3>3, <3>4 DEF TakenOff
<1> QED
  BY <1>1, <1>2

(* A workspace is activated, and its screen if it is plugged.              *)
LEMMA SetActiveIs ==
  ASSUME NEW m \in WmStates, PlacedOnce(m), NEW w \in Ids \cup {Null}, NEW r,
         r = SetActiveWorkspace(m, w)
  PROVE  /\ r \in WmStates /\ Still(r, m) /\ r.active = w
         /\ ShowsOwn(m) => ShowsOwn(r)
         /\ \A c \in Screens : m.current[c] # Null => r.current[c] # Null
         /\ w = m.active \/ w \notin OnScreens(m) => r.activeScreen = m.activeScreen
         /\ w # m.active =>
              \A c \in Screens : w \in Range(m.list[c]) =>
                r.activeScreen = IF c \in Range(m.plugged) THEN c ELSE m.activeScreen
<1>1. CASE w = m.active \/ w \notin OnScreens(m)
  <2>1. r = [m EXCEPT !.active = w]
    BY <1>1, OwnerIs DEF SetActiveWorkspace
  <2>2. r \in WmStates /\ Still(r, m) /\ r.active = w /\ r.activeScreen = m.activeScreen
        /\ r.current = m.current
    BY <2>1 DEF WmStates, Still
  <2>3. ShowsOwn(m) => ShowsOwn(r)
    BY <2>2 DEF ShowsOwn, Still
  <2>4. w # m.active => \A c \in Screens : w \notin Range(m.list[c])
    BY <1>1 DEF OnScreens
  <2> QED
    BY <2>2, <2>3, <2>4
<1>2. CASE w # m.active /\ w \in OnScreens(m)
  <2>1. PICK c \in Screens : w \in Range(m.list[c])
    BY <1>2 DEF OnScreens
  <2>2. OwnedBy(m, w) = {c} /\ w \in Ids
    BY <2>1, OwnerIs, StateIs
  <2>3. r = [[m EXCEPT !.active = w] EXCEPT !.current[c] = w,
                                           !.activeScreen = IF c \in Range(m.plugged) THEN c ELSE @]
    <3>1. (CHOOSE d \in {c} : TRUE) = c
      OBVIOUS
    <3>2. [m EXCEPT !.active = w].plugged = m.plugged
      BY DEF WmStates
    <3> QED
      BY <1>2, <2>2, <3>1, <3>2 DEF SetActiveWorkspace
  <2>4. /\ Still(r, m) /\ r.active = w
        /\ r.activeScreen = IF c \in Range(m.plugged) THEN c ELSE m.activeScreen
        /\ r.current = [m.current EXCEPT ![c] = w]
    BY <2>3 DEF WmStates, Still
  <2>6. m.current \in [Screens -> Ids \cup {Null}]
    BY DEF WmStates
  <2>5. r \in WmStates
    <3>1. r.current \in [Screens -> Ids \cup {Null}] /\ r.activeScreen \in Screens \cup {Null}
      BY <2>2, <2>4, <2>6 DEF WmStates
    <3>2. r = [m EXCEPT !.active = w, !.current = r.current, !.activeScreen = r.activeScreen]
      BY <2>3 DEF WmStates
    <3> QED
      BY <3>1, <3>2 DEF WmStates
  <2>7. ShowsOwn(m) => ShowsOwn(r)
    BY <2>1, <2>4, <2>6 DEF ShowsOwn, Still
  <2>8. \A d \in Screens : w \in Range(m.list[d]) => d = c
    BY <2>1 DEF PlacedOnce
  <2>9. \A d \in Screens : m.current[d] # Null => r.current[d] # Null
    BY <2>2, <2>4, <2>6, WorkspacesAssumption
  <2> QED
    BY <1>2, <2>4, <2>5, <2>7, <2>8, <2>9
<1> QED
  BY <1>1, <1>2

(* qtmir's screen becomes active.                                          *)
LEMMA ScreenActiveIs ==
  ASSUME NEW m \in WmStates, PlacedOnce(m), ShowsOwn(m), NEW c \in Screens, NEW r,
         r = ScreenActive(m, c)
  PROVE  /\ r \in WmStates /\ Still(r, m) /\ ShowsOwn(r) /\ r.activeScreen = c
         /\ \A d \in Screens : m.current[d] # Null => r.current[d] # Null
         /\ r.active = m.active \/ r.active \in Range(m.list[c])
         /\ m.activeScreen # c /\ m.current[c] # Null => r.active \in Range(m.list[c])
<1> DEFINE m1 == [m EXCEPT !.activeScreen = c]
<1>1. /\ m1 \in WmStates /\ Still(m1, m) /\ m1.activeScreen = c /\ m1.active = m.active
      /\ m1.current = m.current
  BY DEF WmStates, Still
<1>2. r = IF m.activeScreen = c \/ m.current[c] = Null THEN m1 ELSE SetActiveWorkspace(m1, m.current[c])
  BY DEF ScreenActive
<1> HIDE DEF m1
<1>3. PlacedOnce(m1) /\ ShowsOwn(m1)
  BY <1>1 DEF PlacedOnce, ShowsOwn, Still
<1>4. CASE m.activeScreen = c \/ m.current[c] = Null
  BY <1>1, <1>2, <1>3, <1>4
<1>5. CASE m.activeScreen # c /\ m.current[c] # Null
  <2>1. r = SetActiveWorkspace(m1, m.current[c]) /\ m.current[c] \in Range(m.list[c])
        /\ m.current[c] \in Ids \cup {Null}
    BY <1>2, <1>5, StateIs DEF ShowsOwn
  <2>2. /\ r \in WmStates /\ Still(r, m1) /\ r.active = m.current[c] /\ ShowsOwn(r)
        /\ \A d \in Screens : m1.current[d] # Null => r.current[d] # Null
        /\ r.activeScreen = m1.activeScreen \/ r.activeScreen = c
    <3>1. m.current[c] \in Range(m1.list[c])
      BY <1>1, <2>1 DEF Still
    <3> QED
      BY <1>1, <1>3, <2>1, <3>1, SetActiveIs
  <2> QED
    BY <1>1, <2>1, <2>2 DEF Still
<1> QED
  BY <1>4, <1>5

(* The screen's slot after a workspace was put on it.                      *)
LEMMA ScreenTakesIs ==
  ASSUME NEW m \in WmStates, PlacedOnce(m), ShowsOwn(m), NEW c \in Screens, NEW w \in Ids,
         w \in Range(m.list[c]), NEW r, r = ScreenTakes(m, c, w)
  PROVE  /\ r \in WmStates /\ Still(r, m) /\ ShowsOwn(r) /\ r.current[c] # Null
         /\ \A d \in Screens : m.current[d] # Null => r.current[d] # Null
         /\ m.active # w => r.active = m.active /\ r.activeScreen = m.activeScreen
         /\ m.active = w => r.active \in Range(m.list[c]) /\ r.activeScreen = c
<1>0. w # Null
  BY WorkspacesAssumption
<1> DEFINE a == ScreenActive(m, c)
           m1 == IF m.active = w THEN [a EXCEPT !.current[c] = w] ELSE m
<1>1. r = IF m1.current[c] = Null THEN [m1 EXCEPT !.current[c] = w] ELSE m1
  BY DEF ScreenTakes
<1>2. /\ a \in WmStates /\ Still(a, m) /\ ShowsOwn(a) /\ a.activeScreen = c
      /\ \A d \in Screens : m.current[d] # Null => a.current[d] # Null
      /\ a.active = m.active \/ a.active \in Range(m.list[c])
  BY ScreenActiveIs
<1> HIDE DEF a
<1>3. /\ m1 \in WmStates /\ Still(m1, m) /\ ShowsOwn(m1)
      /\ \A d \in Screens : m.current[d] # Null => m1.current[d] # Null
      /\ m.active # w => m1.active = m.active /\ m1.activeScreen = m.activeScreen
      /\ m.active = w => m1.active \in Range(m.list[c]) /\ m1.activeScreen = c
  <2>1. CASE m.active = w
    <3>1. m1 = [a EXCEPT !.current[c] = w]
      BY <2>1
    <3> HIDE DEF m1
    <3>2. /\ m1 \in WmStates /\ Still(m1, a) /\ m1.active = a.active /\ m1.activeScreen = a.activeScreen
          /\ m1.current = [a.current EXCEPT ![c] = w] /\ a.current \in [Screens -> Ids \cup {Null}]
      BY <1>2, <3>1 DEF WmStates, Still
    <3>3. Still(m1, m)
      BY <1>2, <3>2 DEF Still
    <3>4. ShowsOwn(m1)
      BY <1>2, <3>2 DEF ShowsOwn, Still
    <3> QED
      BY <1>0, <1>2, <2>1, <3>2, <3>3, <3>4
  <2>2. CASE m.active # w
    BY <2>2 DEF Still
  <2> QED
    BY <2>1, <2>2
<1> HIDE DEF m1
<1>4. CASE m1.current[c] = Null
  <2>1. r = [m1 EXCEPT !.current[c] = w]
    BY <1>1, <1>4
  <2>2. /\ r \in WmStates /\ Still(r, m1) /\ r.active = m1.active /\ r.activeScreen = m1.activeScreen
        /\ r.current = [m1.current EXCEPT ![c] = w] /\ m1.current \in [Screens -> Ids \cup {Null}]
    <3>1. m1 \in WmStates
      BY <1>3
    <3>2. r.current = [m1.current EXCEPT ![c] = w] /\ m1.current \in [Screens -> Ids \cup {Null}]
      BY <2>1, <3>1 DEF WmStates
    <3>3. r \in WmStates
      <4>1. r.current \in [Screens -> Ids \cup {Null}]
        BY <3>2
      <4>2. r = [m1 EXCEPT !.current = r.current]
        BY <2>1, <3>1 DEF WmStates
      <4> QED
        BY <3>1, <4>1, <4>2 DEF WmStates
    <3> QED
      BY <2>1, <3>1, <3>2, <3>3 DEF WmStates, Still
  <2>3. Still(r, m)
    BY <1>3, <2>2 DEF Still
  <2>4. ShowsOwn(r)
    BY <1>3, <2>2, <2>3 DEF ShowsOwn, Still
  <2> QED
    BY <1>0, <1>3, <2>2, <2>3, <2>4
<1>5. CASE m1.current[c] # Null
  BY <1>1, <1>3, <1>5
<1> QED
  BY <1>4, <1>5

(* A workspace is put on a screen that has proxies, and leaves the other.  *)
LEMMA AssignIs ==
  ASSUME NEW m, NEW D, Neat(m, D), NEW c \in Screens \ D, NEW w \in Ids, w \notin Range(m.list[c]),
         NEW i \in 1 .. Len(m.list[c]) + 1, NEW r, r = Assign(m, w, c, i, TRUE)
  PROVE  Neat(r, D) /\ PutOn(r, m, c, w, i)
<1>0. m \in WmStates /\ PlacedOnce(m) /\ Mirrored(m, D) /\ ShowsOne(m)
  BY DEF Neat
<1> DEFINE m1 == Unassign(m, w, TRUE)
           p == [m1 EXCEPT !.list[c] = InsertAt(m1.list[c], i, w)]
           m2 == ScreenTakes(p, c, w)
<1>1. r = [m2 EXCEPT !.proxy["mirror"][c] = InsertAt(@, i, w),
                     !.proxy["edit"][c] = @,
                     !.limbo = [s \in Screens |-> m2.limbo[s] \ {w}]]
  BY DEF Assign
<1>2. /\ m1 \in WmStates /\ Calm(m1, m) /\ PlacedOnce(m1) /\ Mirrored(m1, D) /\ ShowsOne(m1)
      /\ m1.list[c] = m.list[c] /\ m1.proxy["edit"] = m.proxy["edit"]
      /\ \A d \in Screens :
           /\ Range(m1.list[d]) = Range(m.list[d]) \ {w}
           /\ w \notin Range(m.list[d]) => m1.list[d] = m.list[d] /\ m1.limbo[d] = m.limbo[d]
           /\ w \in Range(m.list[d]) => m1.limbo[d] = m.limbo[d] \cup {w}
  <2>1. /\ m1 \in WmStates /\ Calm(m1, m) /\ PlacedOnce(m1) /\ Mirrored(m1, D) /\ ShowsOne(m1)
        /\ \A d \in Screens :
             /\ Range(m1.list[d]) = Range(m.list[d]) \ {w}
             /\ w \notin Range(m.list[d]) =>
                  /\ m1.list[d] = m.list[d] /\ m1.limbo[d] = m.limbo[d]
                  /\ m1.current[d] = m.current[d] /\ m1.proxy["edit"][d] = m.proxy["edit"][d]
             /\ w \in Range(m.list[d]) => m1.limbo[d] = m.limbo[d] \cup {w}
        /\ m1.proxy["edit"] = m.proxy["edit"]
    <3>1. PICK told \in BOOLEAN : told = TRUE
      OBVIOUS
    <3>2. m1 = Unassign(m, w, told)
      BY <3>1
    <3> HIDE DEF m1
    <3>3. Neat(m1, D) /\ Calm(m1, m) /\ TakenOff(m1, m, w, told)
      BY <3>2, UnassignIs
    <3> QED
      BY <3>1, <3>3 DEF Neat, TakenOff
  <2> HIDE DEF m1
  <2> QED
    BY <2>1
<1> HIDE DEF m1
<1>3. /\ InsertAt(m.list[c], i, w) \in Seq(Ids) /\ IsInjective(InsertAt(m.list[c], i, w))
      /\ Range(InsertAt(m.list[c], i, w)) = Range(m.list[c]) \cup {w}
  <2>1. m.list[c] \in Seq(Ids) /\ IsInjective(m.list[c])
    BY <1>0, StateIs DEF PlacedOnce
  <2> QED
    BY <2>1, PutInRange
<1> DEFINE l == InsertAt(m.list[c], i, w)
<1>4. /\ p \in WmStates /\ p.list = [m1.list EXCEPT ![c] = l] /\ m1.list \in [Screens -> Seq(Ids)]
      /\ p.limbo = m1.limbo /\ p.proxy = m1.proxy /\ p.current = m1.current /\ Calm(p, m1)
  <2> HIDE DEF l
  <2>1. p = [m1 EXCEPT !.list[c] = l] /\ l \in Seq(Ids)
    BY <1>2, <1>3 DEF l
  <2> HIDE DEF p
  <2>2. m1.list \in [Screens -> Seq(Ids)]
    BY <1>2 DEF WmStates
  <2>3. p.list = [m1.list EXCEPT ![c] = l]
    BY <1>2, <2>1 DEF WmStates
  <2>4. p.list \in [Screens -> Seq(Ids)]
    BY <2>1, <2>2, <2>3
  <2>5. p = [m1 EXCEPT !.list = p.list]
    BY <1>2, <2>1 DEF WmStates
  <2> QED
    BY <1>2, <2>2, <2>3, <2>4, <2>5 DEF WmStates, Calm
<1> HIDE DEF p, l
<1>5. /\ p.list[c] = l /\ \A d \in Screens \ {c} : p.list[d] = m1.list[d]
      /\ l \in Seq(Ids) /\ IsInjective(l) /\ Range(l) = Range(m.list[c]) \cup {w}
  BY <1>3, <1>4 DEF l
<1>6. PlacedOnce(p) /\ ShowsOwn(p) /\ w \in Range(p.list[c])
  <2>1. PlacedOnce(p)
    <3>1. \A d \in Screens : IsInjective(p.list[d])
      BY <1>2, <1>5 DEF PlacedOnce
    <3>2. \A d \in Screens \ {c} : Range(l) \cap Range(m1.list[d]) = {}
      <4>1. \A d \in Screens \ {c} : Range(m.list[c]) \cap Range(m.list[d]) = {}
        BY <1>0 DEF PlacedOnce
      <4>2. \A d \in Screens : Range(m1.list[d]) = Range(m.list[d]) \ {w}
        BY <1>2
      <4> QED
        BY <1>5, <4>1, <4>2
    <3>3. \A d, e \in Screens \ {c} : d # e => Range(m1.list[d]) \cap Range(m1.list[e]) = {}
      BY <1>2 DEF PlacedOnce
    <3>4. \A d, e \in Screens : d # e => Range(p.list[d]) \cap Range(p.list[e]) = {}
      BY <1>5, <3>2, <3>3, SMTT(30)
    <3> QED
      BY <3>1, <3>4 DEF PlacedOnce
  <2>2. ShowsOwn(p)
    BY <1>2, <1>4, <1>5 DEF ShowsOwn, ShowsOne
  <2> QED
    BY <1>5, <2>1, <2>2
<1>7. /\ m2 \in WmStates /\ Still(m2, p) /\ ShowsOwn(m2) /\ m2.current[c] # Null
      /\ \A d \in Screens : p.current[d] # Null => m2.current[d] # Null
      /\ p.active # w => m2.active = p.active /\ m2.activeScreen = p.activeScreen
      /\ p.active = w => m2.active \in Range(p.list[c]) /\ m2.activeScreen = c
  BY <1>4, <1>6, ScreenTakesIs
<1> HIDE DEF m2
<1> DEFINE k == InsertAt(m2.proxy["mirror"][c], i, w)
           b == [s \in Screens |-> m2.limbo[s] \ {w}]
<1>8. k = l /\ m2.proxy["mirror"][c] = m.list[c]
  BY <1>2, <1>4, <1>7 DEF l, Still, Mirrored
<1>9. /\ r \in WmStates /\ r.list = m2.list /\ r.limbo = b /\ r.current = m2.current /\ Calm(r, m2)
      /\ r.proxy["mirror"] = [m2.proxy["mirror"] EXCEPT ![c] = k] /\ r.proxy["edit"] = m2.proxy["edit"]
      /\ m2.proxy["mirror"] \in [Screens -> Seq(Ids \cup {Gone})]
  <2>1. "mirror" \in Proxies /\ "edit" \in Proxies /\ "mirror" # "edit"
    BY DEF Proxies
  <2>2. k \in Seq(Ids \cup {Gone})
    BY <1>5, <1>8
  <2>3. b \in [Screens -> SUBSET Ids]
    BY <1>7 DEF WmStates
  <2> HIDE DEF k, b
  <2>4. m2.proxy \in [Proxies -> [Screens -> Seq(Ids \cup {Gone})]]
    BY <1>7 DEF WmStates
  <2>5. m2.proxy["edit"] = [m2.proxy["edit"] EXCEPT ![c] = m2.proxy["edit"][c]]
        /\ m2.proxy["mirror"] \in [Screens -> Seq(Ids \cup {Gone})]
    BY <2>1, <2>4
  <2>6. r = [m2 EXCEPT !.proxy["mirror"][c] = k, !.proxy["edit"][c] = @, !.limbo = b]
    BY <1>1 DEF k, b
  <2>7. /\ r.list = m2.list /\ r.limbo = b /\ r.current = m2.current /\ Calm(r, m2)
        /\ r.proxy = [m2.proxy EXCEPT !["mirror"][c] = k, !["edit"][c] = @]
    BY <1>7, <2>6 DEF WmStates, Calm
  <2>8. r.proxy["mirror"] = [m2.proxy["mirror"] EXCEPT ![c] = k]
    BY <2>1, <2>4, <2>7
  <2>9. r.proxy["edit"] = [m2.proxy["edit"] EXCEPT ![c] = @]
    BY <2>1, <2>4, <2>7
  <2>10. r.proxy \in [Proxies -> [Screens -> Seq(Ids \cup {Gone})]]
    <3>1. r.proxy = [q \in Proxies |-> r.proxy[q]]
      BY <2>4, <2>7
    <3>2. r.proxy["mirror"] \in [Screens -> Seq(Ids \cup {Gone})]
      BY <2>2, <2>5, <2>8
    <3>3. r.proxy["edit"] \in [Screens -> Seq(Ids \cup {Gone})]
      BY <2>1, <2>4, <2>5, <2>9
    <3>4. \A q \in Proxies : r.proxy[q] \in [Screens -> Seq(Ids \cup {Gone})]
      BY <3>2, <3>3 DEF Proxies
    <3> QED
      BY <3>1, <3>4
  <2>11. r = [m2 EXCEPT !.proxy = r.proxy, !.limbo = b]
    BY <1>7, <2>6 DEF WmStates
  <2>12. r \in WmStates
    BY <1>7, <2>3, <2>10, <2>11 DEF WmStates
  <2> QED
    BY <2>5, <2>7, <2>8, <2>9, <2>12
<1>10. /\ r.list[c] = l /\ \A d \in Screens \ {c} : r.list[d] = m1.list[d]
       /\ r.proxy["mirror"][c] = l
       /\ \A d \in Screens \ {c} : r.proxy["mirror"][d] = m1.proxy["mirror"][d]
       /\ \A d \in Screens : r.limbo[d] = m1.limbo[d] \ {w}
  <2>1. r.list = p.list /\ m2.proxy = m1.proxy /\ m2.limbo = m1.limbo
    BY <1>4, <1>7, <1>9 DEF Still
  <2>2. r.list[c] = l /\ \A d \in Screens \ {c} : r.list[d] = m1.list[d]
    BY <1>5, <2>1
  <2>3. \A d \in Screens : r.limbo[d] = m1.limbo[d] \ {w}
    BY <1>9, <2>1
  <2> HIDE DEF k, b
  <2>4. /\ r.proxy["mirror"][c] = l
        /\ \A d \in Screens \ {c} : r.proxy["mirror"][d] = m1.proxy["mirror"][d]
    BY <1>8, <1>9, <2>1
  <2> QED
    BY <2>2, <2>3, <2>4
<1> HIDE DEF k, b
<1>11. \A d \in Screens : r.limbo[d] = m.limbo[d] \ {w}
  BY <1>2, <1>10
<1>12. PlacedOnce(r) /\ ShowsOwn(r)
  <2>1. r.list = p.list /\ r.list = m2.list /\ r.current = m2.current
    BY <1>7, <1>9 DEF Still
  <2>2. PlacedOnce(r)
    BY <1>6, <2>1 DEF PlacedOnce
  <2>3. ShowsOwn(r)
    BY <1>7, <2>1 DEF ShowsOwn
  <2> QED
    BY <2>2, <2>3
<1>13. ShowsOne(r)
  <2>1. \A d \in Screens \ {c} : r.list[d] # <<>> => m1.current[d] # Null
    BY <1>2, <1>10 DEF ShowsOne
  <2>2. p.current = m1.current /\ r.current = m2.current
    BY <1>4, <1>9
  <2>3. \A d \in Screens : p.current[d] # Null => m2.current[d] # Null
    BY <1>7
  <2>4. m2.current[c] # Null
    BY <1>7
  <2>5. \A d \in Screens : r.list[d] # <<>> => r.current[d] # Null
    <3> SUFFICES ASSUME NEW d \in Screens, r.list[d] # <<>> PROVE r.current[d] # Null
      OBVIOUS
    <3>1. CASE d = c
      BY <2>2, <2>4, <3>1
    <3>2. CASE d # c
      <4>1. p.current[d] # Null
        BY <2>1, <2>2, <3>2
      <4> QED
        BY <2>2, <2>3, <4>1
    <3> QED
      BY <3>1, <3>2
  <2> QED
    BY <1>12, <2>5 DEF ShowsOne
<1>14. Mirrored(r, D)
  BY <1>2, <1>10 DEF Mirrored
<1>15. /\ r.proxy["edit"] = m.proxy["edit"] /\ r.all = m.all /\ r.plugged = m.plugged
       /\ r.surfaces = m.surfaces /\ r.crashed = m.crashed
  <2>1. /\ m1.all = m.all /\ m1.plugged = m.plugged /\ m1.surfaces = m.surfaces
        /\ m1.crashed = m.crashed /\ m1.proxy["edit"] = m.proxy["edit"]
    BY <1>2 DEF Calm
  <2>2. /\ p.all = m1.all /\ p.plugged = m1.plugged /\ p.surfaces = m1.surfaces
        /\ p.crashed = m1.crashed /\ p.proxy = m1.proxy
    BY <1>4 DEF Calm
  <2>3. /\ m2.all = p.all /\ m2.plugged = p.plugged /\ m2.surfaces = p.surfaces
        /\ m2.crashed = p.crashed /\ m2.proxy = p.proxy
    BY <1>7 DEF Still
  <2>4. /\ r.all = m2.all /\ r.plugged = m2.plugged /\ r.surfaces = m2.surfaces
        /\ r.crashed = m2.crashed /\ r.proxy["edit"] = m2.proxy["edit"]
    BY <1>9 DEF Calm
  <2> QED
    BY <2>1, <2>2, <2>3, <2>4
<1>16. /\ m.active # w => r.active = m.active /\ r.activeScreen = m.activeScreen
       /\ m.active = w => r.active \in Range(r.list[c]) /\ r.activeScreen = c
  <2>1. p.active = m.active /\ p.activeScreen = m.activeScreen
    BY <1>2, <1>4 DEF Calm
  <2>2. r.active = m2.active /\ r.activeScreen = m2.activeScreen
    BY <1>9 DEF Calm
  <2>3. r.list[c] = p.list[c]
    BY <1>5, <1>10
  <2> QED
    BY <1>7, <2>1, <2>2, <2>3
<1>17. \A d \in Screens \ {c} :
         /\ Range(r.list[d]) = Range(m.list[d]) \ {w}
         /\ w \notin Range(m.list[d]) => r.list[d] = m.list[d]
  BY <1>2, <1>10
<1>18. r.list[c] = InsertAt(m.list[c], i, w) /\ r \in WmStates
  BY <1>9, <1>10 DEF l
<1> QED
  BY <1>11, <1>12, <1>13, <1>14, <1>15, <1>16, <1>17, <1>18 DEF Neat, PutOn

(***************************************************************************)
(* A state in which workspaces may wait to be deleted: they are on no      *)
(* screen, and what is on a screen or holds a surface is known.            *)
(***************************************************************************)
InLimbo(m) == UNION {m.limbo[c] : c \in Screens}
Known(m) ==
  /\ OnScreens(m) \subseteq m.all
  /\ OnScreens(m) \cap InLimbo(m) = {}
  /\ m.all # {} => m.active \in m.all
  /\ \A x \in Surfaces : m.surfaces[x] \in m.all \cup {Null}
Well(m, D) == Neat(m, D) /\ Known(m)

\* No workspace is lost.
AllHeld(m) == m.all \subseteq OnScreens(m) \cup InLimbo(m)

\* The active workspace is on the active screen, or on one that goes.
ActiveShown(m, D) ==
  \/ m.activeScreen \in Screens /\ m.active \in Range(m.list[m.activeScreen])
  \/ \E d \in D : m.active \in Range(m.list[d])

(* A workspace that left its screen waits.                                 *)
LEMMA TakenOffWell ==
  ASSUME NEW m, NEW D, Well(m, D), NEW w \in Ids, NEW syncing, NEW r,
         Neat(r, D), Calm(r, m), TakenOff(r, m, w, syncing)
  PROVE  /\ Well(r, D) /\ OnScreens(r) = OnScreens(m) \ {w}
         /\ AllHeld(m) => AllHeld(r)
<1>1. \A d \in Screens : Range(r.list[d]) = Range(m.list[d]) \ {w}
  BY DEF TakenOff
<1>2. OnScreens(r) = OnScreens(m) \ {w}
  BY <1>1 DEF OnScreens
<1>3. \A d \in Screens :
        /\ w \notin Range(m.list[d]) => r.limbo[d] = m.limbo[d]
        /\ w \in Range(m.list[d]) => r.limbo[d] = m.limbo[d] \cup {w}
  BY DEF TakenOff
<1>4. /\ InLimbo(m) \subseteq InLimbo(r) /\ InLimbo(r) \subseteq InLimbo(m) \cup {w}
      /\ w \in OnScreens(m) => w \in InLimbo(r)
  BY <1>3 DEF InLimbo, OnScreens
<1>5. r.all = m.all /\ r.active = m.active /\ r.surfaces = m.surfaces
  BY DEF Calm
<1>6. Known(r)
  BY <1>2, <1>4, <1>5 DEF Known, Well
<1> QED
  BY <1>2, <1>4, <1>5, <1>6 DEF Well, AllHeld

\* r has what is on the screens of m, and w on c.
Grown(r, m, c, w) ==
  /\ OnScreens(r) = OnScreens(m) \cup {w}
  /\ Range(r.list[c]) = Range(m.list[c]) \cup {w}
  /\ AllHeld(m) => AllHeld(r)

(* A workspace that is put on a screen waits no longer.                    *)
LEMMA PutOnWell ==
  ASSUME NEW m, NEW D, Well(m, D), NEW c \in Screens, NEW w \in m.all,
         NEW i \in 1 .. Len(m.list[c]) + 1, NEW r,
         Neat(r, D), PutOn(r, m, c, w, i)
  PROVE  Well(r, D) /\ Grown(r, m, c, w)
<1>0. m \in WmStates /\ m.all \subseteq Ids /\ Known(m)
  BY DEF Well, Neat, WmStates
<1>1. Range(r.list[c]) = Range(m.list[c]) \cup {w}
  <2>1. m.list[c] \in Seq(Ids) /\ w \in Ids
    BY <1>0, StateIs
  <2> QED
    BY <2>1, PutInRange DEF PutOn
<1>2. OnScreens(r) = OnScreens(m) \cup {w}
  <2>1. \A d \in Screens \ {c} : Range(r.list[d]) = Range(m.list[d]) \ {w}
    BY DEF PutOn
  <2>2. ASSUME NEW v PROVE v \in OnScreens(r) <=> v \in OnScreens(m) \/ v = w
    <3>1. ASSUME NEW d \in Screens
          PROVE  /\ v \in Range(r.list[d]) => v \in Range(m.list[d]) \/ v = w
                 /\ v \in Range(m.list[d]) /\ v # w => v \in Range(r.list[d])
      <4>1. CASE d = c
        BY <1>1, <4>1
      <4>2. CASE d # c
        BY <2>1, <4>2
      <4> QED
        BY <4>1, <4>2
    <3>3. w \in Range(r.list[c])
      BY <1>1
    <3> QED
      BY <3>1, <3>3 DEF OnScreens
  <2> QED
    BY <2>2
<1>3. InLimbo(r) = InLimbo(m) \ {w}
  <2>1. \A d \in Screens : r.limbo[d] = m.limbo[d] \ {w}
    BY DEF PutOn
  <2> QED
    BY <2>1 DEF InLimbo
<1>4. r.all = m.all /\ r.surfaces = m.surfaces
      /\ (r.active = m.active \/ r.active \in OnScreens(r))
  BY DEF PutOn, OnScreens
<1>5. OnScreens(r) \subseteq r.all
  BY <1>0, <1>2, <1>4 DEF Known
<1>6. Known(r)
  BY <1>0, <1>2, <1>3, <1>4, <1>5 DEF Known
<1> QED
  BY <1>1, <1>2, <1>3, <1>4, <1>6 DEF Well, AllHeld, Grown

(* What only activates leaves the lists as they are.                       *)
LEMMA StillWell ==
  ASSUME NEW m, NEW D, Well(m, D), NEW r \in WmStates, Still(r, m), ShowsOwn(r),
         \A c \in Screens : m.current[c] # Null => r.current[c] # Null,
         r.active \in m.all
  PROVE  /\ Well(r, D) /\ OnScreens(r) = OnScreens(m) /\ InLimbo(r) = InLimbo(m)
         /\ AllHeld(m) => AllHeld(r)
<1>1. OnScreens(r) = OnScreens(m) /\ InLimbo(r) = InLimbo(m)
  BY DEF Still, OnScreens, InLimbo
<1>2. r.all = m.all /\ r.surfaces = m.surfaces /\ r.list = m.list /\ r.proxy = m.proxy
  BY DEF Still
<1>3. Known(r)
  BY <1>1, <1>2 DEF Known, Well
<1>4. PlacedOnce(r) /\ Mirrored(r, D)
  BY <1>2 DEF Well, Neat, PlacedOnce, Mirrored
<1>5. ShowsOne(r)
  BY <1>2 DEF Well, Neat, ShowsOne
<1> QED
  BY <1>1, <1>2, <1>3, <1>4, <1>5 DEF Well, Neat, AllHeld

(* A workspace is activated.                                               *)
LEMMA ActivateWell ==
  ASSUME NEW m, NEW D, Well(m, D), NEW w \in m.all, NEW r, r = SetActiveWorkspace(m, w)
  PROVE  /\ Well(r, D) /\ Still(r, m) /\ r.active = w
         /\ OnScreens(r) = OnScreens(m) /\ InLimbo(r) = InLimbo(m)
         /\ AllHeld(m) => AllHeld(r)
         /\ w = m.active => r.activeScreen = m.activeScreen
         /\ w # m.active => \A c \in Range(m.plugged) : w \in Range(m.list[c]) => r.activeScreen = c
<1>1. m \in WmStates /\ PlacedOnce(m) /\ ShowsOwn(m) /\ w \in Ids \cup {Null}
      /\ Range(m.plugged) \subseteq Screens
  <2>1. m \in WmStates /\ PlacedOnce(m) /\ ShowsOwn(m)
    BY DEF Well, Neat, ShowsOne
  <2>2. m.plugged \in Seq(Screens) /\ m.all \subseteq Ids
    BY <2>1 DEF WmStates
  <2> QED
    BY <2>1, <2>2, RangeIs
<1>2. /\ r \in WmStates /\ Still(r, m) /\ r.active = w /\ ShowsOwn(r)
      /\ \A c \in Screens : m.current[c] # Null => r.current[c] # Null
      /\ w = m.active => r.activeScreen = m.activeScreen
      /\ w # m.active =>
           \A c \in Screens : w \in Range(m.list[c]) =>
             r.activeScreen = IF c \in Range(m.plugged) THEN c ELSE m.activeScreen
  BY <1>1, SetActiveIs
<1>3. /\ Well(r, D) /\ OnScreens(r) = OnScreens(m) /\ InLimbo(r) = InLimbo(m)
      /\ AllHeld(m) => AllHeld(r)
  BY <1>2, StillWell
<1> QED
  BY <1>1, <1>2, <1>3

(* Rows whose workspace is deleted.                                        *)
LEMMA ForgetIs ==
  ASSUME NEW S, NEW s \in Seq(S), NEW w, NEW t, t = Forget(s, w)
  PROVE  /\ t \in Seq(S \cup {Gone}) /\ Len(t) = Len(s)
         /\ \A i \in 1 .. Len(s) : t[i] = IF s[i] = w THEN Gone ELSE s[i]
         /\ w \notin Range(s) => t = s
<1>1. DOMAIN s = 1 .. Len(s) /\ Len(s) \in Nat /\ Range(s) = {s[i] : i \in 1 .. Len(s)}
      /\ \A i \in 1 .. Len(s) : s[i] \in S
  BY RangeIs
<1>2. t = [i \in 1 .. Len(s) |-> IF s[i] = w THEN Gone ELSE s[i]]
  BY <1>1 DEF Forget
<1>3. t \in Seq(S \cup {Gone}) /\ Len(t) = Len(s)
  <2>1. t \in [1 .. Len(s) -> S \cup {Gone}]
    BY <1>1, <1>2
  <2> QED
    BY <1>1, <2>1
<1>4. w \notin Range(s) => t = s
  <2> SUFFICES ASSUME w \notin Range(s) PROVE t = s
    OBVIOUS
  <2>1. \A i \in 1 .. Len(s) : t[i] = s[i]
    BY <1>1, <1>2
  <2> QED
    BY <1>1, <1>3, <2>1
<1> QED
  BY <1>2, <1>3, <1>4

\* r is m without the workspace w, which waits to be deleted if it waited.
Destroyed(r, m, w) ==
  /\ r.all = m.all \ {w} /\ r.plugged = m.plugged /\ r.crashed = m.crashed /\ NoneNew(r, m)
  /\ \A d \in Screens :
       /\ Range(r.list[d]) = Range(m.list[d]) \ {w}
       /\ r.limbo[d] \ {w} = m.limbo[d] \ {w}
       /\ w \notin Range(m.list[d]) =>
            /\ r.list[d] = m.list[d] /\ r.limbo[d] = m.limbo[d]
            /\ r.proxy["edit"][d] = m.proxy["edit"][d]
  /\ m.active # w => r.active = m.active /\ r.activeScreen = m.activeScreen
  /\ m.active = w =>
       /\ r.active \in m.all \ {w}
       /\ \A c \in Range(m.plugged) : r.active \in Range(r.list[c]) => r.activeScreen = c

(* A workspace is destroyed while there is another one.                    *)
LEMMA DestroyIs ==
  ASSUME NEW m, NEW D, Well(m, D), NEW w \in Ids, OnScreens(m) \ {w} # {}, NEW any,
         NEW r, r = DestroyWorkspace(m, w, any)
  PROVE  Well(r, D) /\ Destroyed(r, m, w)
<1> DEFINE m0 == Unassign(m, w, FALSE)
           m1 == [m0 EXCEPT !.all = @ \ {w}]
           next == IF m1.all = {} THEN Null
                   ELSE IF any \in m1.all THEN any ELSE Lowest(m1.all)
           m2 == IF m1.active = w THEN SetActiveWorkspace(m1, next) ELSE m1
           f == [x \in Surfaces |-> IF m2.surfaces[x] = w THEN m2.active ELSE m2.surfaces[x]]
<1>1. r = IF m2.active = Null THEN m2 ELSE [m2 EXCEPT !.surfaces = f]
  BY DEF DestroyWorkspace
<1>2. PICK told \in BOOLEAN : told = FALSE
  OBVIOUS
<1>3. Neat(m0, D) /\ Calm(m0, m) /\ TakenOff(m0, m, w, told)
  <2>1. m0 = Unassign(m, w, told)
    BY <1>2
  <2> HIDE DEF m0
  <2> QED
    BY <2>1, UnassignIs DEF Well
<1> HIDE DEF m0
<1>4. Well(m0, D) /\ OnScreens(m0) = OnScreens(m) \ {w}
  BY <1>3, TakenOffWell
<1>5. /\ m1 \in WmStates /\ m1.list = m0.list /\ m1.limbo = m0.limbo /\ m1.proxy = m0.proxy
      /\ m1.current = m0.current /\ m1.all = m.all \ {w} /\ m1.active = m.active
      /\ m1.activeScreen = m.activeScreen /\ m1.plugged = m.plugged /\ m1.surfaces = m.surfaces
      /\ m1.crashed = m.crashed
  BY <1>3 DEF Neat, WmStates, Calm
<1>6. m.all \ {w} # {} /\ m.all \subseteq Ids /\ m.active \in m.all
  BY DEF Well, Known, Neat, WmStates
<1>7. next \in m.all \ {w}
  <2>1. Lowest(m1.all) \in m1.all
    <3>1. m1.all \subseteq Nat /\ m1.all # {}
      BY <1>5, <1>6, WorkspacesAssumption
    <3> HIDE DEF m1
    <3> QED
      BY <3>1, HasLeast DEF Lowest
  <2> HIDE DEF m1
  <2> QED
    BY <1>5, <1>6, <2>1
<1> HIDE DEF m1, next
<1>8. PlacedOnce(m1) /\ Mirrored(m1, D) /\ ShowsOne(m1) /\ ShowsOwn(m1) /\ OnScreens(m1) = OnScreens(m) \ {w}
      /\ InLimbo(m1) = InLimbo(m0)
  <2>1. PlacedOnce(m0) /\ Mirrored(m0, D) /\ ShowsOne(m0)
    BY <1>3 DEF Neat
  <2>2. PlacedOnce(m1) /\ Mirrored(m1, D)
    BY <1>5, <2>1 DEF PlacedOnce, Mirrored
  <2>3. ShowsOne(m1) /\ ShowsOwn(m1)
    BY <1>5, <2>1 DEF ShowsOne, ShowsOwn
  <2>4. OnScreens(m1) = OnScreens(m0) /\ InLimbo(m1) = InLimbo(m0)
    BY <1>5 DEF OnScreens, InLimbo
  <2> QED
    BY <1>4, <2>2, <2>3, <2>4
<1>9. /\ m2 \in WmStates /\ Still(m2, m1) /\ ShowsOwn(m2) /\ m2.active \in m.all \ {w}
      /\ \A c \in Screens : m1.current[c] # Null => m2.current[c] # Null
      /\ m.active # w => m2.active = m.active /\ m2.activeScreen = m.activeScreen
      /\ m.active = w =>
           \A c \in Screens : m2.active \in Range(m1.list[c]) =>
             m2.activeScreen = IF c \in Range(m.plugged) THEN c ELSE m.activeScreen
  <2>1. CASE m.active = w
    <3>1. m2 = SetActiveWorkspace(m1, next) /\ next # m1.active /\ next \in Ids \cup {Null}
      BY <1>5, <1>6, <1>7, <2>1
    <3> HIDE DEF m2
    <3>2. /\ m2 \in WmStates /\ Still(m2, m1) /\ m2.active = next /\ ShowsOwn(m2)
          /\ \A c \in Screens : m1.current[c] # Null => m2.current[c] # Null
          /\ \A c \in Screens : next \in Range(m1.list[c]) =>
               m2.activeScreen = IF c \in Range(m1.plugged) THEN c ELSE m1.activeScreen
      BY <1>5, <1>8, <3>1, SetActiveIs
    <3> QED
      BY <1>5, <1>7, <2>1, <3>2
  <2>2. CASE m.active # w
    BY <1>5, <1>6, <1>8, <2>2 DEF Still
  <2> QED
    BY <2>1, <2>2
<1> HIDE DEF m2
<1>10. r = [m2 EXCEPT !.surfaces = f]
  BY <1>1, <1>6, <1>9, WorkspacesAssumption
<1>11. f \in [Surfaces -> Ids \cup {Null}]
  <2>1. m2.surfaces \in [Surfaces -> Ids \cup {Null}]
    BY <1>9 DEF WmStates
  <2> QED
    BY <1>6, <1>9, <2>1
<1>12. /\ r \in WmStates /\ r.list = m0.list /\ r.limbo = m0.limbo /\ r.proxy = m0.proxy
       /\ r.current = m2.current /\ r.all = m.all \ {w} /\ r.active = m2.active
       /\ r.activeScreen = m2.activeScreen /\ r.plugged = m.plugged /\ r.surfaces = f
       /\ r.crashed = m.crashed
  <2> HIDE DEF f
  <2> QED
    BY <1>5, <1>9, <1>10, <1>11 DEF WmStates, Still
<1>13. Neat(r, D)
  <2>1. PlacedOnce(r) /\ Mirrored(r, D)
    BY <1>5, <1>8, <1>12, SMTT(30) DEF PlacedOnce, Mirrored
  <2>2. ShowsOwn(r)
    BY <1>5, <1>9, <1>12 DEF ShowsOwn, Still
  <2>3. \A c \in Screens : r.list[c] # <<>> => r.current[c] # Null
    BY <1>5, <1>8, <1>9, <1>12 DEF ShowsOne
  <2> QED
    BY <1>12, <2>1, <2>2, <2>3 DEF Neat, ShowsOne
<1>14. Known(r)
  <2>1. OnScreens(r) = OnScreens(m0) /\ InLimbo(r) = InLimbo(m0)
    BY <1>12 DEF OnScreens, InLimbo
  <2>2. OnScreens(m0) \cap InLimbo(m0) = {} /\ OnScreens(m) \subseteq m.all
    BY <1>4 DEF Well, Known
  <2>3. \A x \in Surfaces : f[x] \in (m.all \ {w}) \cup {Null}
    <3>1. \A x \in Surfaces : m2.surfaces[x] \in m.all \cup {Null}
      BY <1>5, <1>9 DEF Well, Known, Still
    <3> QED
      BY <1>9, <3>1
  <2> HIDE DEF f
  <2> QED
    BY <1>4, <1>9, <1>12, <2>1, <2>2, <2>3 DEF Known
<1>15. Destroyed(r, m, w)
  <2>1. \A d \in Screens :
          /\ Range(r.list[d]) = Range(m.list[d]) \ {w}
          /\ r.limbo[d] \ {w} = m.limbo[d] \ {w}
          /\ w \notin Range(m.list[d]) =>
               /\ r.list[d] = m.list[d] /\ r.limbo[d] = m.limbo[d]
               /\ r.proxy["edit"][d] = m.proxy["edit"][d]
    BY <1>3, <1>12 DEF TakenOff
  <2>2. m.active # w => r.active = m.active /\ r.activeScreen = m.activeScreen
    BY <1>9, <1>12
  <2>3. ASSUME m.active = w
        PROVE  /\ r.active \in m.all \ {w}
               /\ \A c \in Range(m.plugged) : r.active \in Range(r.list[c]) => r.activeScreen = c
    <3>1. Range(m.plugged) \subseteq Screens
      <4>1. m.plugged \in Seq(Screens)
        BY DEF Well, Neat, WmStates
      <4> QED
        BY <4>1, RangeIs
    <3>2. r.list = m1.list
      BY <1>5, <1>12
    <3> QED
      BY <1>9, <1>12, <2>3, <3>1, <3>2
  <2>4. NoneNew(r, m)
    BY <1>3, <1>12 DEF TakenOff, NoneNew
  <2> QED
    BY <1>12, <2>1, <2>2, <2>3, <2>4 DEF Destroyed
<1> QED
  BY <1>13, <1>14, <1>15 DEF Well

\* r is m without the workspace w.
Deleted(r, m, w) ==
  /\ r.all = m.all \ {w} /\ r.plugged = m.plugged /\ r.crashed = m.crashed /\ NoneNew(r, m)
  /\ \A d \in Screens :
       /\ Range(r.list[d]) = Range(m.list[d]) \ {w}
       /\ r.limbo[d] = m.limbo[d] \ {w}
       /\ w \notin Range(m.list[d]) =>
            /\ r.list[d] = m.list[d]
            /\ r.proxy["edit"][d] = Forget(m.proxy["edit"][d], w)
  /\ m.active # w => r.active = m.active /\ r.activeScreen = m.activeScreen
  /\ m.active = w =>
       /\ r.active \in m.all \ {w}
       /\ \A c \in Range(m.plugged) : r.active \in Range(r.list[c]) => r.activeScreen = c

(* A workspace is deleted while there is another one.                      *)
LEMMA DeleteIs ==
  ASSUME NEW m, NEW D, Well(m, D), NEW w \in Ids, OnScreens(m) \ {w} # {}, NEW any,
         NEW r, r = Delete(m, w, any)
  PROVE  Well(r, D) /\ Deleted(r, m, w)
<1> DEFINE m1 == DestroyWorkspace(m, w, any)
           b == [c \in Screens |-> m1.limbo[c] \ {w}]
           p == [k \in Proxies |-> [c \in Screens |-> Forget(m1.proxy[k][c], w)]]
<1>1. r = [m1 EXCEPT !.limbo = b, !.proxy = p]
  BY DEF Delete
<1>2. Well(m1, D) /\ Destroyed(m1, m, w)
  BY DestroyIs
<1> HIDE DEF m1
<1>3. /\ m1 \in WmStates /\ b \in [Screens -> SUBSET Ids]
      /\ m1.proxy \in [Proxies -> [Screens -> Seq(Ids \cup {Gone})]]
  BY <1>2 DEF Well, Neat, WmStates
<1>4. p \in [Proxies -> [Screens -> Seq(Ids \cup {Gone})]]
      /\ \A c \in Screens : p["mirror"][c] = Forget(m1.proxy["mirror"][c], w)
                            /\ p["edit"][c] = Forget(m1.proxy["edit"][c], w)
  <2>1. \A k \in Proxies, c \in Screens : Forget(m1.proxy[k][c], w) \in Seq(Ids \cup {Gone})
    <3> SUFFICES ASSUME NEW k \in Proxies, NEW c \in Screens
                 PROVE  Forget(m1.proxy[k][c], w) \in Seq(Ids \cup {Gone})
      OBVIOUS
    <3>1. m1.proxy[k][c] \in Seq(Ids \cup {Gone})
      BY <1>3
    <3>2. Forget(m1.proxy[k][c], w) \in Seq((Ids \cup {Gone}) \cup {Gone})
      BY <3>1, ForgetIs
    <3>3. (Ids \cup {Gone}) \cup {Gone} = Ids \cup {Gone}
      OBVIOUS
    <3> QED
      BY <3>2, <3>3
  <2> QED
    BY <2>1 DEF Proxies
<1> HIDE DEF p
<1>5. /\ r \in WmStates /\ r.limbo = b /\ r.proxy = p /\ r.list = m1.list /\ r.current = m1.current
      /\ Calm(r, m1)
  <2> HIDE DEF b
  <2> QED
    BY <1>1, <1>3, <1>4 DEF WmStates, Calm
<1>6. \A c \in Screens : r.limbo[c] = m1.limbo[c] \ {w}
  BY <1>5
<1> HIDE DEF b
<1>7. \A c \in Screens : w \notin Range(m1.list[c])
  BY <1>2 DEF Destroyed
<1>8. Mirrored(r, D)
  <2> SUFFICES ASSUME NEW c \in Screens
               PROVE  Forget(m1.proxy["mirror"][c], w) = IF c \in D THEN <<>> ELSE m1.list[c]
    BY <1>4, <1>5 DEF Mirrored
  <2>1. m1.proxy["mirror"][c] = IF c \in D THEN <<>> ELSE m1.list[c]
    BY <1>2 DEF Well, Neat, Mirrored
  <2>2. m1.proxy["mirror"][c] \in Seq(Ids \cup {Gone})
    BY <1>3, StateIs
  <2>3. w \notin Range(m1.proxy["mirror"][c])
    <3>1. <<>> \in Seq(Ids) /\ Range(<<>>) = {}
      BY EmptyRange
    <3> QED
      BY <1>7, <2>1, <3>1
  <2>4. Forget(m1.proxy["mirror"][c], w) = m1.proxy["mirror"][c]
    <3> DEFINE s == m1.proxy["mirror"][c]
    <3> HIDE DEF s
    <3>1. s \in Seq(Ids \cup {Gone}) /\ w \notin Range(s)
      BY <2>2, <2>3 DEF s
    <3>2. Forget(s, w) = s
      BY <3>1, ForgetIs
    <3> QED
      BY <3>2 DEF s
  <2> QED
    BY <2>1, <2>4
<1>9. Neat(r, D)
  <2>1. PlacedOnce(m1) /\ ShowsOne(m1)
    BY <1>2 DEF Well, Neat
  <2> QED
    BY <1>5, <1>8, <2>1 DEF Neat, PlacedOnce, ShowsOne, ShowsOwn
<1>10. Known(r)
  <2>1. OnScreens(r) = OnScreens(m1) /\ InLimbo(r) \subseteq InLimbo(m1)
    BY <1>5, <1>6 DEF OnScreens, InLimbo
  <2> QED
    BY <1>2, <1>5, <2>1 DEF Well, Known, Calm
<1>11. Deleted(r, m, w)
  <2>1. \A d \in Screens :
          /\ Range(r.list[d]) = Range(m.list[d]) \ {w}
          /\ r.limbo[d] = m.limbo[d] \ {w}
    BY <1>2, <1>5, <1>6 DEF Destroyed
  <2>2. \A d \in Screens : w \notin Range(m.list[d]) =>
          /\ r.list[d] = m.list[d]
          /\ r.proxy["edit"][d] = Forget(m.proxy["edit"][d], w)
    BY <1>2, <1>4, <1>5 DEF Destroyed
  <2>3. /\ r.all = m.all \ {w} /\ r.plugged = m.plugged /\ r.crashed = m.crashed
        /\ m.active # w => r.active = m.active /\ r.activeScreen = m.activeScreen
        /\ m.active = w =>
             /\ r.active \in m.all \ {w}
             /\ \A c \in Range(m.plugged) : r.active \in Range(r.list[c]) => r.activeScreen = c
    BY <1>2, <1>5 DEF Destroyed, Calm
  <2>4. NoneNew(r, m)
    <3>1. Forget(<<>>, w) = <<>>
      <4>1. PICK s : s = <<>>
        OBVIOUS
      <4>2. s \in Seq(Ids)
        BY <4>1
      <4>3. Range(s) = {}
        BY <4>1, <4>2, RangeIs
      <4> QED
        BY <4>1, <4>2, <4>3, ForgetIs
    <3> QED
      BY <1>2, <1>4, <1>5, <3>1 DEF Destroyed, NoneNew
  <2> QED
    BY <2>1, <2>2, <2>3, <2>4 DEF Deleted
<1> QED
  BY <1>9, <1>10, <1>11 DEF Well

(* What the rows of a screen become that its proxy no longer has.          *)
LEMMA UnassignSteps ==
  ASSUME NEW m, NEW kept, NEW E, NEW rows \in Seq(E)
  PROVE  \E h : /\ h[0] = m
                /\ \A k \in 1 .. Len(rows) : h[k] = UnassignUnless(h[k - 1], rows[k], kept)
                /\ h[Len(rows)] = UnassignOthers(m, rows, kept)
<1> DEFINE D == DOMAIN rows
           Is(f) == f = [s \in SUBSET D |->
                           IF s = {} THEN m
                           ELSE UnassignUnless(f[s \ {Max(s)}], rows[Max(s)], kept)]
           it == CHOOSE f : Is(f)
<1>1. D = 1 .. Len(rows) /\ Len(rows) \in Nat
  OBVIOUS
<1>2. UnassignOthers(m, rows, kept) = it[D]
  BY DEF UnassignOthers, FoldLeft, MapThenFoldSet
<1>3. \A acc, e : StepOf("unassign", kept, acc, e) = UnassignUnless(acc, e, kept)
  BY DEF StepOf
<1>4. ASSUME NEW f PROVE Is(f) <=> FoldOf("unassign", kept, f, Len(rows), m, rows)
  <2>1. \A s \in SUBSET D :
          StepOf("unassign", kept, f[s \ {Max(s)}], rows[Max(s)])
            = UnassignUnless(f[s \ {Max(s)}], rows[Max(s)], kept)
    BY <1>3, Zenon
  <2> QED
    BY <1>1, <2>1, Zenon DEF FoldOf
<1> HIDE DEF Is, D
<1>5. \E f : FoldOf("unassign", kept, f, Len(rows), m, rows)
  BY <1>1, FoldExists, Zenon
<1>6. \E f : Is(f)
  BY <1>4, <1>5, Zenon
<1>7. Is(it)
  BY <1>6, Zenon
<1> HIDE DEF it
<1>8. FoldOf("unassign", kept, it, Len(rows), m, rows)
  BY <1>4, <1>7, Zenon
<1>9. PICK h : /\ StepsOf("unassign", kept, h, Len(rows), m, rows)
               /\ h[Len(rows)] = it[1 .. Len(rows)]
  BY <1>1, <1>8, FoldSteps
<1> QED
  BY <1>1, <1>2, <1>3, <1>9 DEF StepsOf

(* What a screen becomes row by row.                                       *)
LEMMA RowSteps ==
  ASSUME NEW m, NEW c, NEW E, NEW rows \in Seq(E)
  PROVE  \E h : /\ h[0] = m
                /\ \A k \in 1 .. Len(rows) : h[k] = SyncRow(h[k - 1], c, rows[k])
                /\ h[Len(rows)] = SyncEachRow(m, c, rows)
<1> DEFINE D == DOMAIN rows
           Is(f) == f = [s \in SUBSET D |->
                           IF s = {} THEN m
                           ELSE SyncRow(f[s \ {Max(s)}], c, rows[Max(s)])]
           it == CHOOSE f : Is(f)
<1>1. D = 1 .. Len(rows) /\ Len(rows) \in Nat
  OBVIOUS
<1>2. SyncEachRow(m, c, rows) = it[D]
  BY DEF SyncEachRow, FoldLeft, MapThenFoldSet
<1>3. \A acc, e : StepOf("rows", c, acc, e) = SyncRow(acc, c, e)
  BY DEF StepOf
<1>4. ASSUME NEW f PROVE Is(f) <=> FoldOf("rows", c, f, Len(rows), m, rows)
  <2>1. \A s \in SUBSET D :
          StepOf("rows", c, f[s \ {Max(s)}], rows[Max(s)])
            = SyncRow(f[s \ {Max(s)}], c, rows[Max(s)])
    BY <1>3, Zenon
  <2> QED
    BY <1>1, <2>1, Zenon DEF FoldOf
<1> HIDE DEF Is, D
<1>5. \E f : FoldOf("rows", c, f, Len(rows), m, rows)
  BY <1>1, FoldExists, Zenon
<1>6. \E f : Is(f)
  BY <1>4, <1>5, Zenon
<1>7. Is(it)
  BY <1>6, Zenon
<1> HIDE DEF it
<1>8. FoldOf("rows", c, it, Len(rows), m, rows)
  BY <1>4, <1>7, Zenon
<1>9. PICK h : /\ StepsOf("rows", c, h, Len(rows), m, rows)
               /\ h[Len(rows)] = it[1 .. Len(rows)]
  BY <1>1, <1>8, FoldSteps
<1> QED
  BY <1>1, <1>2, <1>3, <1>9 DEF StepsOf

(* What deletions make of the manager.                                     *)
LEMMA DeleteSteps ==
  ASSUME NEW m, NEW any, NEW E, NEW rows \in Seq(E)
  PROVE  \E h : /\ h[0] = m
                /\ \A k \in 1 .. Len(rows) : h[k] = Delete(h[k - 1], rows[k], any)
                /\ h[Len(rows)] = DeleteEach(m, rows, any)
<1> DEFINE D == DOMAIN rows
           Is(f) == f = [s \in SUBSET D |->
                           IF s = {} THEN m
                           ELSE Delete(f[s \ {Max(s)}], rows[Max(s)], any)]
           it == CHOOSE f : Is(f)
<1>1. D = 1 .. Len(rows) /\ Len(rows) \in Nat
  OBVIOUS
<1>2. DeleteEach(m, rows, any) = it[D]
  BY DEF DeleteEach, FoldLeft, MapThenFoldSet
<1>3. \A acc, e : StepOf("delete", any, acc, e) = Delete(acc, e, any)
  BY DEF StepOf
<1>4. ASSUME NEW f PROVE Is(f) <=> FoldOf("delete", any, f, Len(rows), m, rows)
  <2>1. \A s \in SUBSET D :
          StepOf("delete", any, f[s \ {Max(s)}], rows[Max(s)])
            = Delete(f[s \ {Max(s)}], rows[Max(s)], any)
    BY <1>3, Zenon
  <2> QED
    BY <1>1, <2>1, Zenon DEF FoldOf
<1> HIDE DEF Is, D
<1>5. \E f : FoldOf("delete", any, f, Len(rows), m, rows)
  BY <1>1, FoldExists, Zenon
<1>6. \E f : Is(f)
  BY <1>4, <1>5, Zenon
<1>7. Is(it)
  BY <1>6, Zenon
<1> HIDE DEF it
<1>8. FoldOf("delete", any, it, Len(rows), m, rows)
  BY <1>4, <1>7, Zenon
<1>9. PICK h : /\ StepsOf("delete", any, h, Len(rows), m, rows)
               /\ h[Len(rows)] = it[1 .. Len(rows)]
  BY <1>1, <1>8, FoldSteps
<1> QED
  BY <1>1, <1>2, <1>3, <1>9 DEF StepsOf

(* What a commit makes of one screen after the other.                      *)
LEMMA ScreenSteps ==
  ASSUME NEW m, NEW any, NEW E, NEW rows \in Seq(E)
  PROVE  \E h : /\ h[0] = m
                /\ \A k \in 1 .. Len(rows) : h[k] = SyncScreen(h[k - 1], rows[k], any)
                /\ h[Len(rows)] = SyncEach(m, rows, any)
<1> DEFINE D == DOMAIN rows
           Is(f) == f = [s \in SUBSET D |->
                           IF s = {} THEN m
                           ELSE SyncScreen(f[s \ {Max(s)}], rows[Max(s)], any)]
           it == CHOOSE f : Is(f)
<1>1. D = 1 .. Len(rows) /\ Len(rows) \in Nat
  OBVIOUS
<1>2. SyncEach(m, rows, any) = it[D]
  BY DEF SyncEach, FoldLeft, MapThenFoldSet
<1>3. \A acc, e : StepOf("screens", any, acc, e) = SyncScreen(acc, e, any)
  BY DEF StepOf
<1>4. ASSUME NEW f PROVE Is(f) <=> FoldOf("screens", any, f, Len(rows), m, rows)
  <2>1. \A s \in SUBSET D :
          StepOf("screens", any, f[s \ {Max(s)}], rows[Max(s)])
            = SyncScreen(f[s \ {Max(s)}], rows[Max(s)], any)
    BY <1>3, Zenon
  <2> QED
    BY <1>1, <2>1, Zenon DEF FoldOf
<1> HIDE DEF Is, D
<1>5. \E f : FoldOf("screens", any, f, Len(rows), m, rows)
  BY <1>1, FoldExists, Zenon
<1>6. \E f : Is(f)
  BY <1>4, <1>5, Zenon
<1>7. Is(it)
  BY <1>6, Zenon
<1> HIDE DEF it
<1>8. FoldOf("screens", any, it, Len(rows), m, rows)
  BY <1>4, <1>7, Zenon
<1>9. PICK h : /\ StepsOf("screens", any, h, Len(rows), m, rows)
               /\ h[Len(rows)] = it[1 .. Len(rows)]
  BY <1>1, <1>8, FoldSteps
<1> QED
  BY <1>1, <1>2, <1>3, <1>9 DEF StepsOf

(* What loading makes of a screen.                                         *)
LEMMA LoadSteps ==
  ASSUME NEW m, NEW c, NEW E, NEW rows \in Seq(E)
  PROVE  \E h : /\ h[0] = m
                /\ \A k \in 1 .. Len(rows) : h[k] = LoadOne(h[k - 1], c)
                /\ h[Len(rows)] = LoadEach(m, c, rows)
<1> DEFINE D == DOMAIN rows
           Is(f) == f = [s \in SUBSET D |->
                           IF s = {} THEN m
                           ELSE LoadOne(f[s \ {Max(s)}], c)]
           it == CHOOSE f : Is(f)
<1>1. D = 1 .. Len(rows) /\ Len(rows) \in Nat
  OBVIOUS
<1>2. LoadEach(m, c, rows) = it[D]
  BY DEF LoadEach, FoldLeft, MapThenFoldSet
<1>3. \A acc, e : StepOf("load", c, acc, e) = LoadOne(acc, c)
  BY DEF StepOf
<1>4. ASSUME NEW f PROVE Is(f) <=> FoldOf("load", c, f, Len(rows), m, rows)
  <2>1. \A s \in SUBSET D :
          StepOf("load", c, f[s \ {Max(s)}], rows[Max(s)])
            = LoadOne(f[s \ {Max(s)}], c)
    BY <1>3, Zenon
  <2> QED
    BY <1>1, <2>1, Zenon DEF FoldOf
<1> HIDE DEF Is, D
<1>5. \E f : FoldOf("load", c, f, Len(rows), m, rows)
  BY <1>1, FoldExists, Zenon
<1>6. \E f : Is(f)
  BY <1>4, <1>5, Zenon
<1>7. Is(it)
  BY <1>6, Zenon
<1> HIDE DEF it
<1>8. FoldOf("load", c, it, Len(rows), m, rows)
  BY <1>4, <1>7, Zenon
<1>9. PICK h : /\ StepsOf("load", c, h, Len(rows), m, rows)
               /\ h[Len(rows)] = it[1 .. Len(rows)]
  BY <1>1, <1>8, FoldSteps
<1> QED
  BY <1>1, <1>2, <1>3, <1>9 DEF StepsOf

(* What the shell of a screen destroys.                                    *)
LEMMA DestroySteps ==
  ASSUME NEW m, NEW c, NEW any, NEW E, NEW rows \in Seq(E)
  PROVE  \E h : /\ h[0] = m
                /\ \A k \in 1 .. Len(rows) : h[k] = DestroyAt(h[k - 1], c, rows[k], any)
                /\ h[Len(rows)] = DestroyEach(m, c, rows, any)
<1> DEFINE D == DOMAIN rows
           Is(f) == f = [s \in SUBSET D |->
                           IF s = {} THEN m
                           ELSE DestroyAt(f[s \ {Max(s)}], c, rows[Max(s)], any)]
           it == CHOOSE f : Is(f)
<1>1. D = 1 .. Len(rows) /\ Len(rows) \in Nat
  OBVIOUS
<1>2. DestroyEach(m, c, rows, any) = it[D]
  BY DEF DestroyEach, FoldLeft, MapThenFoldSet
<1>3. \A acc, e : StepOf("destroy", <<c, any>>, acc, e) = DestroyAt(acc, c, e, any)
  BY DEF StepOf
<1>4. ASSUME NEW f PROVE Is(f) <=> FoldOf("destroy", <<c, any>>, f, Len(rows), m, rows)
  <2>1. \A s \in SUBSET D :
          StepOf("destroy", <<c, any>>, f[s \ {Max(s)}], rows[Max(s)])
            = DestroyAt(f[s \ {Max(s)}], c, rows[Max(s)], any)
    BY <1>3, Zenon
  <2> QED
    BY <1>1, <2>1, Zenon DEF FoldOf
<1> HIDE DEF Is, D
<1>5. \E f : FoldOf("destroy", <<c, any>>, f, Len(rows), m, rows)
  BY <1>1, FoldExists, Zenon
<1>6. \E f : Is(f)
  BY <1>4, <1>5, Zenon
<1>7. Is(it)
  BY <1>6, Zenon
<1> HIDE DEF it
<1>8. FoldOf("destroy", <<c, any>>, it, Len(rows), m, rows)
  BY <1>4, <1>7, Zenon
<1>9. PICK h : /\ StepsOf("destroy", <<c, any>>, h, Len(rows), m, rows)
               /\ h[Len(rows)] = it[1 .. Len(rows)]
  BY <1>1, <1>8, FoldSteps
<1> QED
  BY <1>1, <1>2, <1>3, <1>9 DEF StepsOf

(***************************************************************************)
(* The commit of one screen: first the rows that its proxy has no more.    *)
(***************************************************************************)
\* r is m with the rows of c that are kept, and perhaps those still to go.
Thinned(r, m, c) ==
  /\ Calm(r, m) /\ r.proxy["edit"] = m.proxy["edit"]
  /\ AllHeld(m) => AllHeld(r)
  /\ \A d \in Screens \ {c} : r.list[d] = m.list[d] /\ r.limbo[d] = m.limbo[d]
  /\ Range(r.list[c]) \subseteq Range(m.list[c])

\* w is on no other screen than c.
OnlyOn(m, w, c) == \A d \in Screens \ {c} : w \notin Range(m.list[d])

\* The rows of c after w has gone, unless it is kept.
RowGone(r, m, c, w, kept) ==
  Range(r.list[c]) = IF w \in kept THEN Range(m.list[c]) ELSE Range(m.list[c]) \ {w}

(* One row goes, unless it is kept.                                        *)
LEMMA UnassignUnlessIs ==
  ASSUME NEW m, NEW D, Well(m, D), NEW c \in Screens, NEW kept, NEW w \in Ids, OnlyOn(m, w, c), NEW r, r = UnassignUnless(m, w, kept)
  PROVE  Well(r, D) /\ Thinned(r, m, c) /\ RowGone(r, m, c, w, kept)
<1>1. CASE w \in kept
  BY <1>1 DEF UnassignUnless, Thinned, Calm, RowGone
<1>2. CASE w \notin kept
  <2>1. PICK told \in BOOLEAN : told = TRUE
    OBVIOUS
  <2>2. r = Unassign(m, w, told)
    BY <1>2, <2>1 DEF UnassignUnless
  <2>3. Neat(r, D) /\ Calm(r, m) /\ TakenOff(r, m, w, told)
    BY <2>2, UnassignIs DEF Well
  <2>4. Well(r, D) /\ (AllHeld(m) => AllHeld(r))
    BY <2>3, TakenOffWell
  <2> QED
    BY <1>2, <2>1, <2>3, <2>4 DEF Thinned, TakenOff, OnlyOn, RowGone
<1> QED
  BY <1>1, <1>2

(* The rows that the proxy has no more leave the screen.                   *)
LEMMA RemovalsIs ==
  ASSUME NEW m, NEW D, Well(m, D), NEW c \in Screens, NEW r, r = SyncRemovals(m, c)
  PROVE  /\ Well(r, D) /\ Thinned(r, m, c)
         /\ Range(r.list[c]) = Range(m.list[c]) \cap Range(m.proxy["edit"][c])
<1> DEFINE l == m.list[c]
           n == Len(l)
           kept == Range(m.proxy["edit"][c])
<1>1. /\ l \in Seq(Ids) /\ n \in Nat /\ Range(l) = {l[i] : i \in 1 .. n}
      /\ \A i \in 1 .. n : l[i] \in Ids
      /\ \A d \in Screens \ {c} : Range(l) \cap Range(m.list[d]) = {}
  <2>1. m \in WmStates /\ PlacedOnce(m)
    BY DEF Well, Neat
  <2>2. l \in Seq(Ids)
    BY <2>1, StateIs
  <2>3. \A d \in Screens \ {c} : Range(l) \cap Range(m.list[d]) = {}
    BY <2>1 DEF PlacedOnce
  <2> HIDE DEF l
  <2> QED
    BY <2>2, <2>3, RangeIs
<1>2. r = UnassignOthers(m, l, kept)
  BY DEF SyncRemovals
<1> HIDE DEF l, kept
<1>3. PICK h : /\ h[0] = m
               /\ \A k \in 1 .. n : h[k] = UnassignUnless(h[k - 1], l[k], kept)
               /\ h[n] = r
  BY <1>1, <1>2, UnassignSteps
<1> DEFINE P(a, k) == /\ Well(a, D) /\ Thinned(a, m, c)
                      /\ \A v \in Range(l) \cap kept : v \in Range(a.list[c])
                      /\ \A j \in 1 .. k : l[j] \in kept \/ l[j] \notin Range(a.list[c])
           T == {k \in 0 .. n : P(h[k], k)}
<1>4. 0 \in T
  <2>1. Thinned(m, m, c)
    BY DEF Thinned, Calm
  <2>2. P(m, 0)
    BY <2>1 DEF l
  <2> HIDE DEF P
  <2> QED
    BY <1>1, <1>3, <2>2
<1>5. ASSUME NEW k \in 0 .. n - 1, k \in T PROVE k + 1 \in T
  <2>1. PICK a : a = h[k]
    OBVIOUS
  <2>2. PICK b : b = h[k + 1]
    OBVIOUS
  <2>3. k + 1 \in 1 .. n /\ (k + 1) - 1 = k /\ k \in Nat /\ k + 1 \in 0 .. n
    BY <1>1
  <2>4. b = UnassignUnless(a, l[k + 1], kept)
    BY <1>3, <2>1, <2>2, <2>3
  <2>5. P(a, k)
    BY <1>5, <2>1
  <2>6. l[k + 1] \in Ids /\ \A d \in Screens \ {c} : l[k + 1] \notin Range(a.list[d])
    <3>1. \A d \in Screens \ {c} : a.list[d] = m.list[d]
      BY <2>5 DEF Thinned
    <3> QED
      BY <1>1, <2>3, <3>1
  <2>7. /\ Well(b, D) /\ Thinned(b, a, c)
        /\ Range(b.list[c]) = IF l[k + 1] \in kept THEN Range(a.list[c]) ELSE Range(a.list[c]) \ {l[k + 1]}
    <3>1. PICK w : w = l[k + 1]
      OBVIOUS
    <3>2. Well(a, D)
      BY <2>5
    <3>3. w \in Ids /\ b = UnassignUnless(a, w, kept)
      BY <2>4, <2>6, <3>1
    <3>4. OnlyOn(a, w, c)
      BY <2>6, <3>1 DEF OnlyOn
    <3> HIDE DEF P, T
    <3>5. Well(b, D) /\ Thinned(b, a, c) /\ RowGone(b, a, c, w, kept)
      BY <3>2, <3>3, <3>4, UnassignUnlessIs
    <3> QED
      BY <3>1, <3>5 DEF RowGone
  <2>8. Thinned(b, m, c)
    BY <2>5, <2>7 DEF Thinned, Calm
  <2>9. \A v \in Range(l) \cap kept : v \in Range(b.list[c])
    BY <2>5, <2>7
  <2>10. \A j \in 1 .. k + 1 : l[j] \in kept \/ l[j] \notin Range(b.list[c])
    <3>1. \A j \in 1 .. k : l[j] \in kept \/ l[j] \notin Range(b.list[c])
      BY <2>5, <2>7
    <3>2. l[k + 1] \in kept \/ l[k + 1] \notin Range(b.list[c])
      BY <2>7
    <3> QED
      BY <2>3, <3>1, <3>2
  <2>11. P(b, k + 1)
    BY <2>7, <2>8, <2>9, <2>10
  <2> HIDE DEF P
  <2> QED
    BY <2>2, <2>3, <2>11
<1>6. P(r, n)
  <2> HIDE DEF P
  <2>1. \A k \in 0 .. n : k \in T
    <3> HIDE DEF T
    <3> QED
      BY <1>1, <1>4, <1>5, UpTo
  <2>2. n \in 0 .. n
    BY <1>1
  <2>3. n \in T
    BY <2>1, <2>2
  <2> QED
    BY <1>3, <2>3
<1>7. Range(r.list[c]) = Range(l) \cap kept
  <2>1. Range(r.list[c]) \subseteq Range(l)
    BY <1>6 DEF Thinned, l
  <2> QED
    BY <1>1, <1>6, <2>1
<1> QED
  BY <1>6, <1>7 DEF l, kept

(***************************************************************************)
(* Then the rows of the proxy are taken over, one after the other.  x is   *)
(* the workspace that may come from another screen, or from none.          *)
(***************************************************************************)
EditOf(m, c) == m.proxy["edit"][c]
OnceUnlessGone(e) == \A i, j \in 1 .. Len(e) : e[i] = e[j] /\ e[i] # Gone => i = j

\* The rows of c before i are those of its proxy.
RowsReady(m, D, c, x, i) ==
  /\ Well(m, D) /\ ~m.crashed
  /\ OnceUnlessGone(EditOf(m, c))
  /\ Range(EditOf(m, c)) \ {x, Gone} \subseteq Range(m.list[c])
  /\ Range(EditOf(m, c)) \ {Gone} \subseteq m.all
  /\ Range(m.list[c]) \subseteq Range(EditOf(m, c))
  /\ i - 1 <= Len(m.list[c])
  /\ \A j \in 1 .. i - 1 : EditOf(m, c)[j] # Gone /\ m.list[c][j] = EditOf(m, c)[j]

\* What c takes over from its proxy, if need be x from another screen.
Followed(r, m, c, x) ==
  /\ r.proxy["edit"] = m.proxy["edit"] /\ r.all = m.all /\ r.plugged = m.plugged
  /\ AllHeld(m) => AllHeld(r)
  /\ \A d \in Screens : r.limbo[d] \subseteq m.limbo[d]
  /\ Range(m.list[c]) \subseteq Range(r.list[c])
  /\ \A d \in Screens \ {c} :
       /\ Range(r.list[d]) \subseteq Range(m.list[d])
       /\ Range(m.list[d]) \ ({x} \cap Range(EditOf(m, c))) \subseteq Range(r.list[d])
  /\ \/ r.active \in Range(r.list[c]) /\ r.activeScreen = c
     \/ /\ r.active = m.active /\ r.activeScreen = m.activeScreen
        /\ \A d \in Screens \ {c} : m.active \in Range(m.list[d]) => m.active \in Range(r.list[d])

\* r is m with a row of c moved.
RowMoved(r, m, c, from, to) ==
  /\ Calm(r, m) /\ r.limbo = m.limbo /\ r.proxy["edit"] = m.proxy["edit"]
  /\ r.list[c] = MoveRow(m.list[c], from, to)
  /\ \A d \in Screens : Range(r.list[d]) = Range(m.list[d])

(* A row that is a workspace of the screen already is moved to its place.  *)
LEMMA MoveRowIs ==
  ASSUME NEW m, NEW D, Well(m, D), NEW c \in Screens \ D,
         NEW from \in 1 .. Len(m.list[c]), NEW to \in 1 .. Len(m.list[c]), NEW r,
         r = [m EXCEPT !.list[c] = MoveRow(@, from, to),
                       !.proxy["mirror"][c] = MoveRow(@, from, to)]
  PROVE  Well(r, D) /\ RowMoved(r, m, c, from, to)
<1> DEFINE l == MoveRow(m.list[c], from, to)
           k == MoveRow(m.proxy["mirror"][c], from, to)
<1>0. m \in WmStates /\ PlacedOnce(m) /\ Mirrored(m, D) /\ ShowsOne(m) /\ ShowsOwn(m) /\ Known(m)
  BY DEF Well, Neat, ShowsOne
<1>1. m.list[c] \in Seq(Ids) /\ IsInjective(m.list[c]) /\ m.proxy["mirror"][c] = m.list[c]
  BY <1>0, StateIs DEF PlacedOnce, Mirrored
<1>2. l \in Seq(Ids) /\ Len(l) = Len(m.list[c]) /\ Range(l) = Range(m.list[c]) /\ IsInjective(l)
  BY <1>1, MoveRowRange
<1>3. k = l
  BY <1>1
<1>4. r = [m EXCEPT !.list[c] = l, !.proxy["mirror"][c] = k]
  OBVIOUS
<1> HIDE DEF k, l
<1>5. /\ m.list \in [Screens -> Seq(Ids)] /\ "mirror" \in Proxies /\ "edit" \in Proxies
      /\ m.proxy \in [Proxies -> [Screens -> Seq(Ids \cup {Gone})]]
      /\ m.proxy["mirror"] \in [Screens -> Seq(Ids \cup {Gone})] /\ "mirror" # "edit"
  BY <1>0 DEF WmStates, Proxies
<1>6. /\ Calm(r, m) /\ r.limbo = m.limbo /\ r.current = m.current
      /\ r.list = [m.list EXCEPT ![c] = l]
      /\ r.proxy = [m.proxy EXCEPT !["mirror"][c] = k]
  BY <1>0, <1>4 DEF WmStates, Calm
<1>7. /\ r.proxy["mirror"] = [m.proxy["mirror"] EXCEPT ![c] = k]
      /\ r.proxy["edit"] = m.proxy["edit"]
  <2>1. r.proxy["mirror"] = [m.proxy["mirror"] EXCEPT ![c] = k]
    BY <1>5, <1>6
  <2>2. r.proxy["edit"] = m.proxy["edit"]
    BY <1>5, <1>6
  <2> QED
    BY <2>1, <2>2
<1>8. r \in WmStates
  <2>1. r.list \in [Screens -> Seq(Ids)]
    BY <1>2, <1>5, <1>6
  <2>2. k \in Seq(Ids \cup {Gone})
    BY <1>2, <1>3
  <2>3. r.proxy \in [Proxies -> [Screens -> Seq(Ids \cup {Gone})]]
    <3>1. r.proxy["mirror"] \in [Screens -> Seq(Ids \cup {Gone})]
      BY <1>5, <1>7, <2>2
    <3>2. r.proxy["edit"] \in [Screens -> Seq(Ids \cup {Gone})]
      BY <1>5, <1>7
    <3>3. r.proxy = [q \in Proxies |-> r.proxy[q]]
      BY <1>5, <1>6
    <3>4. \A q \in Proxies : r.proxy[q] \in [Screens -> Seq(Ids \cup {Gone})]
      BY <3>1, <3>2 DEF Proxies
    <3> QED
      BY <3>3, <3>4
  <2>4. r = [m EXCEPT !.list = r.list, !.proxy = r.proxy]
    BY <1>0, <1>4 DEF WmStates
  <2> QED
    BY <1>0, <2>1, <2>3, <2>4 DEF WmStates
<1>9. /\ r.list[c] = l /\ r.proxy["mirror"][c] = l
      /\ \A d \in Screens \ {c} : r.list[d] = m.list[d] /\ r.proxy["mirror"][d] = m.proxy["mirror"][d]
  BY <1>3, <1>5, <1>6, <1>7
<1>10. \A d \in Screens : Range(r.list[d]) = Range(m.list[d])
  BY <1>2, <1>9
<1>11. PlacedOnce(r) /\ Mirrored(r, D)
  BY <1>0, <1>2, <1>9, <1>10 DEF PlacedOnce, Mirrored
<1>12. ShowsOne(r)
  <2>1. ShowsOwn(r)
    BY <1>0, <1>6, <1>10 DEF ShowsOwn
  <2>2. r.list[c] # <<>> => m.list[c] # <<>>
    BY <1>1, <1>2, <1>9, RangeIs
  <2>3. \A d \in Screens : r.list[d] # <<>> => r.current[d] # Null
    BY <1>0, <1>6, <1>9, <2>2 DEF ShowsOne
  <2> QED
    BY <2>1, <2>3 DEF ShowsOne
<1>13. Known(r)
  <2>1. OnScreens(r) = OnScreens(m) /\ InLimbo(r) = InLimbo(m)
    BY <1>6, <1>10 DEF OnScreens, InLimbo
  <2> QED
    BY <1>0, <1>6, <2>1 DEF Known, Calm
<1> QED
  BY <1>6, <1>7, <1>8, <1>9, <1>10, <1>11, <1>12, <1>13 DEF Well, Neat, RowMoved, l

(* One row is taken over.                                                  *)
LEMMA SyncRowIs ==
  ASSUME NEW m, NEW D, NEW c \in Screens \ D, NEW x, NEW i \in 1 .. Len(EditOf(m, c)),
         RowsReady(m, D, c, x, i), EditOf(m, c)[i] # Gone, NEW r, r = SyncRow(m, c, i)
  PROVE  RowsReady(r, D, c, x, i + 1) /\ Followed(r, m, c, x)
<1> DEFINE e == EditOf(m, c)
           w == e[i]
           l == m.list[c]
<1>1. /\ Well(m, D) /\ ~m.crashed /\ OnceUnlessGone(e)
      /\ Range(e) \ {x, Gone} \subseteq Range(l) /\ Range(e) \ {Gone} \subseteq m.all
      /\ Range(l) \subseteq Range(e) /\ i - 1 <= Len(l)
      /\ \A j \in 1 .. i - 1 : e[j] # Gone /\ l[j] = e[j]
  BY DEF RowsReady
<1>2. m \in WmStates /\ m.all \subseteq Ids /\ PlacedOnce(m)
  BY <1>1 DEF Well, Neat, WmStates
<1>3. /\ l \in Seq(Ids) /\ DOMAIN l = 1 .. Len(l) /\ Len(l) \in Nat /\ Range(l) = {l[j] : j \in 1 .. Len(l)}
      /\ e \in Seq(Ids \cup {Gone}) /\ Len(e) \in Nat /\ Range(e) = {e[j] : j \in 1 .. Len(e)}
      /\ i \in Nat /\ 1 <= i /\ i <= Len(e)
  BY <1>2, StateIs, RangeIs, SMTT(30) DEF EditOf
<1>4. w \in Range(e)
  BY <1>3
<1>5. w # Gone
  OBVIOUS
<1>6. r = IF w \notin Range(l) THEN Assign(m, w, c, i, TRUE)
          ELSE IF IndexIn(l, w) = i THEN m
          ELSE [m EXCEPT !.list[c] = MoveRow(@, IndexIn(l, w), i),
                         !.proxy["mirror"][c] = MoveRow(@, IndexIn(l, w), i)]
  BY <1>1, <1>5 DEF SyncRow, EditOf
<1>7. CASE w \notin Range(l)
  <2>1. w = x /\ w \in m.all /\ w \in Ids
    BY <1>1, <1>2, <1>4, <1>5, <1>7
  <2>2. i \in 1 .. Len(l) + 1
    BY <1>1, <1>3
  <2>3. r = Assign(m, w, c, i, TRUE)
    BY <1>6, <1>7
  <2>4. PICK v : v = w
    OBVIOUS
  <2> HIDE DEF w, e
  <2>5. Neat(r, D) /\ PutOn(r, m, c, v, i)
    BY <1>1, <1>7, <2>1, <2>2, <2>3, <2>4, AssignIs DEF Well, l
  <2>6. /\ Well(r, D) /\ Range(r.list[c]) = Range(m.list[c]) \cup {v}
        /\ AllHeld(m) => AllHeld(r)
    <3>1. v \in m.all /\ i \in 1 .. Len(m.list[c]) + 1
      BY <2>1, <2>2, <2>4 DEF l
    <3> HIDE DEF l
    <3>2. Well(r, D) /\ Grown(r, m, c, v)
      BY <1>1, <2>5, <3>1, PutOnWell
    <3> QED
      BY <3>2 DEF Grown
  <2>7. /\ r.list[c] = InsertAt(l, i, v)
        /\ \A d \in Screens \ {c} : Range(r.list[d]) = Range(m.list[d]) \ {v}
        /\ \A d \in Screens : r.limbo[d] = m.limbo[d] \ {v}
        /\ r.proxy["edit"] = m.proxy["edit"] /\ r.all = m.all /\ r.plugged = m.plugged
        /\ r.crashed = m.crashed
        /\ m.active # v => r.active = m.active /\ r.activeScreen = m.activeScreen
        /\ m.active = v => r.active \in Range(r.list[c]) /\ r.activeScreen = c
    BY <2>5 DEF PutOn, l
  <2>8. /\ Len(r.list[c]) = Len(l) + 1 /\ r.list[c][i] = v
        /\ \A j \in 1 .. Len(l) : j < i => r.list[c][j] = l[j]
    <3>1. l \in Seq(Ids) /\ v \in Ids /\ r.list[c] = InsertAt(l, i, v)
      BY <1>3, <2>1, <2>4, <2>7
    <3> HIDE DEF l
    <3> QED
      BY <2>2, <3>1, PutInRange
  <2>9. EditOf(r, c) = e
    BY <2>7 DEF EditOf, e
  <2>10. \A j \in 1 .. (i + 1) - 1 : e[j] # Gone /\ r.list[c][j] = e[j]
    <3>0. \A j \in 1 .. i - 1 : j \in 1 .. Len(l) /\ j < i
      BY <1>1, <1>3
    <3>1. \A j \in 1 .. i - 1 : e[j] # Gone /\ r.list[c][j] = e[j]
      <4> HIDE DEF l
      <4> QED
        BY <1>1, <2>8, <3>0
    <3>2. e[i] # Gone /\ r.list[c][i] = e[i]
      BY <1>5, <2>4, <2>8 DEF w
    <3> QED
      BY <1>3, <3>1, <3>2
  <2>11. RowsReady(r, D, c, x, i + 1)
    <3>1. (i + 1) - 1 <= Len(r.list[c])
      BY <2>2, <2>8, <1>3
    <3>2. Range(e) \ {x, Gone} \subseteq Range(r.list[c]) /\ Range(r.list[c]) \subseteq Range(e)
          /\ Range(e) \ {Gone} \subseteq r.all
      BY <1>1, <1>4, <2>4, <2>6, <2>7 DEF l
    <3> QED
      BY <1>1, <2>6, <2>7, <2>9, <2>10, <3>1, <3>2 DEF RowsReady
  <2>12. Followed(r, m, c, x)
    <3>1. \A d \in Screens \ {c} :
            /\ Range(r.list[d]) \subseteq Range(m.list[d])
            /\ Range(m.list[d]) \ ({x} \cap Range(e)) \subseteq Range(r.list[d])
      BY <1>4, <2>1, <2>4, <2>7
    <3>2. \/ r.active \in Range(r.list[c]) /\ r.activeScreen = c
          \/ /\ r.active = m.active /\ r.activeScreen = m.activeScreen
             /\ \A d \in Screens \ {c} : m.active \in Range(m.list[d]) => m.active \in Range(r.list[d])
      BY <2>7
    <3>3. Range(m.list[c]) \subseteq Range(r.list[c]) /\ \A d \in Screens : r.limbo[d] \subseteq m.limbo[d]
      BY <2>6, <2>7
    <3> QED
      BY <2>6, <2>7, <3>1, <3>2, <3>3 DEF Followed, e
  <2> QED
    BY <2>11, <2>12
<1>8. CASE w \in Range(l)
  <2> DEFINE old == IndexIn(l, w)
  <2>1. old \in 1 .. Len(l) /\ l[old] = w
    BY <1>3, <1>8 DEF IndexIn
  <2> HIDE DEF old
  <2>2. i <= old /\ i \in 1 .. Len(l)
    <3>1. old < i => e[old] = w /\ old \in 1 .. Len(e)
      BY <1>1, <1>3, <2>1
    <3>2. ~(old < i)
      BY <1>1, <1>3, <1>5, <3>1 DEF OnceUnlessGone
    <3> QED
      BY <1>3, <2>1, <3>2
  <2>3. /\ Well(r, D) /\ Calm(r, m) /\ r.limbo = m.limbo /\ r.proxy["edit"] = m.proxy["edit"]
        /\ \A d \in Screens : Range(r.list[d]) = Range(m.list[d])
        /\ Len(r.list[c]) = Len(l) /\ r.list[c][i] = w
        /\ \A j \in 1 .. i - 1 : r.list[c][j] = l[j]
    <3>1. CASE old = i
      BY <1>1, <1>6, <1>8, <2>1, <3>1 DEF old, Calm
    <3>2. CASE old # i
      <4>1. r = [m EXCEPT !.list[c] = MoveRow(@, old, i), !.proxy["mirror"][c] = MoveRow(@, old, i)]
        BY <1>6, <1>8, <3>2 DEF old
      <4>2. /\ Well(r, D) /\ Calm(r, m) /\ r.limbo = m.limbo /\ r.proxy["edit"] = m.proxy["edit"]
            /\ r.list[c] = MoveRow(m.list[c], old, i)
            /\ \A d \in Screens : Range(r.list[d]) = Range(m.list[d])
        <5>1. old \in 1 .. Len(m.list[c]) /\ i \in 1 .. Len(m.list[c])
          BY <2>1, <2>2
        <5> HIDE DEF l, e, w
        <5>2. Well(r, D) /\ RowMoved(r, m, c, old, i)
          BY <1>1, <4>1, <5>1, MoveRowIs
        <5> QED
          BY <5>2 DEF RowMoved
      <4>3. /\ Len(r.list[c]) = Len(l) /\ r.list[c][i] = l[old]
            /\ \A j \in 1 .. Len(l) : j < old /\ j < i => r.list[c][j] = l[j]
        BY <1>3, <2>1, <2>2, <4>2, MoveRowRange
      <4> QED
        BY <1>3, <2>1, <2>2, <4>2, <4>3
    <3> QED
      BY <3>1, <3>2
  <2>4. EditOf(r, c) = e /\ r.all = m.all /\ r.plugged = m.plugged /\ r.crashed = m.crashed
        /\ r.active = m.active /\ r.activeScreen = m.activeScreen
    BY <2>3 DEF EditOf, Calm
  <2>5. \A j \in 1 .. (i + 1) - 1 : e[j] # Gone /\ r.list[c][j] = e[j]
    <3>1. \A j \in 1 .. i - 1 : e[j] # Gone /\ r.list[c][j] = e[j]
      BY <1>1, <2>3
    <3>2. e[i] # Gone /\ r.list[c][i] = e[i]
      BY <1>5, <2>3
    <3> QED
      BY <1>3, <3>1, <3>2
  <2>6. RowsReady(r, D, c, x, i + 1)
    <3>1. (i + 1) - 1 <= Len(r.list[c])
      BY <2>2, <2>3, <1>3
    <3>2. Range(r.list[c]) = Range(l)
      BY <2>3
    <3> HIDE DEF e, l
    <3> QED
      BY <1>1, <2>3, <2>4, <2>5, <3>1, <3>2 DEF RowsReady
  <2>7. AllHeld(m) => AllHeld(r)
    <3>1. OnScreens(r) = OnScreens(m) /\ InLimbo(r) = InLimbo(m)
      BY <2>3 DEF OnScreens, InLimbo
    <3> QED
      BY <2>4, <3>1 DEF AllHeld
  <2>8. Followed(r, m, c, x)
    BY <2>3, <2>4, <2>7 DEF Followed
  <2> QED
    BY <2>6, <2>8
<1> QED
  BY <1>7, <1>8

(* A row is taken over, or the program has crashed.                        *)
LEMMA SyncRowKeeps ==
  ASSUME NEW m \in WmStates, NEW D, NEW c \in Screens \ D, NEW x, NEW i \in 1 .. Len(EditOf(m, c)),
         m.crashed \/ RowsReady(m, D, c, x, i), NEW r, r = SyncRow(m, c, i)
  PROVE  r \in WmStates /\ (r.crashed \/ (RowsReady(r, D, c, x, i + 1) /\ Followed(r, m, c, x) /\ ~m.crashed))
<1>1. CASE m.crashed \/ EditOf(m, c)[i] = Gone
  <2>1. r = [m EXCEPT !.crashed = TRUE]
    BY <1>1 DEF SyncRow, EditOf
  <2> QED
    BY <2>1 DEF WmStates
<1>2. CASE ~m.crashed /\ EditOf(m, c)[i] # Gone
  <2>1. RowsReady(m, D, c, x, i)
    BY <1>2
  <2>2. RowsReady(r, D, c, x, i + 1) /\ Followed(r, m, c, x)
    BY <1>2, <2>1, SyncRowIs
  <2>3. r \in WmStates
    BY <2>2 DEF RowsReady, Well, Neat
  <2> QED
    BY <1>2, <2>2, <2>3
<1> QED
  BY <1>1, <1>2

(* Taking over goes on.                                                    *)
LEMMA FollowedOn ==
  ASSUME NEW m, NEW a, NEW b, NEW c \in Screens, NEW x, Followed(a, m, c, x), Followed(b, a, c, x)
  PROVE  Followed(b, m, c, x)
<1>1. /\ b.proxy["edit"] = m.proxy["edit"] /\ b.all = m.all /\ b.plugged = m.plugged
      /\ AllHeld(m) => AllHeld(b)
      /\ \A d \in Screens : b.limbo[d] \subseteq m.limbo[d]
      /\ Range(m.list[c]) \subseteq Range(b.list[c])
  BY DEF Followed
<1>2. EditOf(a, c) = EditOf(m, c)
  BY DEF Followed, EditOf
<1>3. \A d \in Screens \ {c} :
        /\ Range(b.list[d]) \subseteq Range(m.list[d])
        /\ Range(m.list[d]) \ ({x} \cap Range(EditOf(m, c))) \subseteq Range(b.list[d])
  BY <1>2 DEF Followed
<1>4. \/ b.active \in Range(b.list[c]) /\ b.activeScreen = c
      \/ /\ b.active = m.active /\ b.activeScreen = m.activeScreen
         /\ \A d \in Screens \ {c} : m.active \in Range(m.list[d]) => m.active \in Range(b.list[d])
  BY DEF Followed
<1> QED
  BY <1>1, <1>3, <1>4 DEF Followed

(* All rows are taken over, or the program has crashed.                    *)
LEMMA RowsIs ==
  ASSUME NEW m, NEW D, NEW c \in Screens \ D, NEW x, RowsReady(m, D, c, x, 1),
         NEW r, r = SyncRows(m, c)
  PROVE  r \in WmStates
         /\ (r.crashed \/ (RowsReady(r, D, c, x, Len(EditOf(m, c)) + 1) /\ Followed(r, m, c, x)))
<1> DEFINE n == Len(EditOf(m, c))
           rows == [i \in 1 .. n |-> i]
<1>0. m \in WmStates /\ n \in Nat
  <2>1. m \in WmStates
    BY DEF RowsReady, Well, Neat
  <2>2. EditOf(m, c) \in Seq(Ids \cup {Gone})
    BY <2>1, StateIs DEF EditOf
  <2> QED
    BY <2>1, <2>2
<1>1. r = SyncEachRow(m, c, rows)
  BY DEF SyncRows, EditOf
<1>2. rows \in Seq(1 .. n) /\ Len(rows) = n /\ \A i \in 1 .. n : rows[i] = i
  BY <1>0
<1> HIDE DEF rows
<1>3. PICK h : /\ h[0] = m
               /\ \A k \in 1 .. n : h[k] = SyncRow(h[k - 1], c, rows[k])
               /\ h[n] = r
  BY <1>1, <1>2, RowSteps
<1> DEFINE P(a, k) == a \in WmStates
                      /\ (a.crashed \/ (RowsReady(a, D, c, x, k + 1) /\ Followed(a, m, c, x)))
           T == {k \in 0 .. n : P(h[k], k)}
<1>4. 0 \in T
  <2>1. Followed(m, m, c, x)
    BY DEF Followed
  <2>2. P(m, 0)
    BY <1>0, <2>1
  <2> HIDE DEF P
  <2> QED
    BY <1>0, <1>3, <2>2
<1>5. ASSUME NEW k \in 0 .. n - 1, k \in T PROVE k + 1 \in T
  <2>1. PICK a : a = h[k]
    OBVIOUS
  <2>2. PICK b : b = h[k + 1]
    OBVIOUS
  <2>3. PICK i : i = k + 1
    OBVIOUS
  <2>4. i \in 1 .. n /\ i - 1 = k /\ k \in Nat /\ i \in 0 .. n
    BY <1>0, <2>3
  <2>5. b = SyncRow(a, c, i)
    BY <1>2, <1>3, <2>1, <2>2, <2>3, <2>4
  <2>6. P(a, k)
    BY <1>5, <2>1
  <2>7. a \in WmStates /\ (a.crashed \/ RowsReady(a, D, c, x, i)) /\ (a.crashed \/ Followed(a, m, c, x))
    BY <2>3, <2>6
  <2> HIDE DEF P, T
  <2>8. CASE a.crashed
    <3>1. b = [a EXCEPT !.crashed = TRUE]
      BY <2>5, <2>8 DEF SyncRow
    <3>2. b \in WmStates /\ b.crashed
      BY <2>7, <3>1 DEF WmStates
    <3>3. P(b, i)
      BY <3>2 DEF P
    <3> QED
      BY <2>2, <2>3, <2>4, <3>3 DEF T
  <2>9. CASE ~a.crashed
    <3>1. EditOf(a, c) = EditOf(m, c) /\ i \in 1 .. Len(EditOf(a, c))
      BY <2>4, <2>7, <2>9 DEF Followed, EditOf
    <3>2. RowsReady(a, D, c, x, i)
      BY <2>7, <2>9
    <3>3. b \in WmStates /\ (b.crashed \/ (RowsReady(b, D, c, x, i + 1) /\ Followed(b, a, c, x) /\ ~a.crashed))
      BY <2>5, <2>7, <3>1, <3>2, SyncRowKeeps
    <3>4. b.crashed \/ Followed(b, m, c, x)
      BY <2>7, <2>9, <3>3, FollowedOn
    <3>5. P(b, i)
      BY <3>3, <3>4 DEF P
    <3> QED
      BY <2>2, <2>3, <2>4, <3>5 DEF T
  <2> QED
    BY <2>8, <2>9
<1>6. P(r, n)
  <2> HIDE DEF P
  <2>1. \A k \in 0 .. n : k \in T
    <3> HIDE DEF T
    <3> QED
      BY <1>0, <1>4, <1>5, UpTo
  <2>2. n \in 0 .. n
    BY <1>0
  <2>3. n \in T
    BY <2>1, <2>2
  <2> QED
    BY <1>3, <2>3
<1> QED
  BY <1>6

(***************************************************************************)
(* Last, the active workspace is replaced if it went, and what is in limbo *)
(* is deleted.                                                             *)
(***************************************************************************)
(* The screen has what its proxy has.                                      *)
LEMMA RowsAreTaken ==
  ASSUME NEW m, NEW D, NEW c \in Screens, NEW x, RowsReady(m, D, c, x, Len(EditOf(m, c)) + 1)
  PROVE  Range(m.list[c]) = Range(EditOf(m, c)) /\ Gone \notin Range(EditOf(m, c))
<1> DEFINE e == EditOf(m, c)
           l == m.list[c]
<1>1. m \in WmStates
  BY DEF RowsReady, Well, Neat
<1>2. /\ e \in Seq(Ids \cup {Gone}) /\ l \in Seq(Ids)
      /\ Len(l) \in Nat /\ Range(l) = {l[j] : j \in 1 .. Len(l)}
      /\ Len(e) \in Nat /\ Range(e) = {e[j] : j \in 1 .. Len(e)}
  BY <1>1, StateIs, RangeIs, SMTT(30) DEF EditOf
<1>3. Len(e) <= Len(l) /\ Range(l) \subseteq Range(e)
      /\ \A j \in 1 .. Len(e) : e[j] # Gone /\ l[j] = e[j]
  <2>1. (Len(e) + 1) - 1 = Len(e)
    BY <1>2
  <2> QED
    BY <2>1 DEF RowsReady
<1> HIDE DEF e, l
<1>4. Range(l) = Range(e) /\ Gone \notin Range(e)
  <2>1. \A j \in 1 .. Len(e) : j \in 1 .. Len(l)
    BY <1>2, <1>3
  <2>2. \A j \in 1 .. Len(e) : e[j] \in Range(l) /\ e[j] # Gone
    BY <1>2, <1>3, <2>1
  <2>3. Range(e) \subseteq Range(l) /\ Gone \notin Range(e)
    BY <1>2, <2>2
  <2> QED
    BY <1>3, <2>3
<1> QED
  BY <1>4 DEF e, l

\* r is m when the active workspace went from c, where it was in the list l.
Replaced(r, m, c, l) ==
  IF m.active \in Range(l) \ Range(EditOf(m, c))
  THEN r.active \in Range(r.list[c]) /\ r.activeScreen = c ELSE r = m

(* The active workspace is replaced if it went.                            *)
LEMMA ReplaceIs ==
  ASSUME NEW m, NEW D, Well(m, D), NEW c \in Range(m.plugged), NEW l \in Seq(Ids),
         Range(m.list[c]) = Range(EditOf(m, c)), Range(m.list[c]) # {},
         NEW r, r = ReplaceActive(m, c, l)
  PROVE  /\ Well(r, D) /\ Still(r, m) /\ Replaced(r, m, c, l)
         /\ AllHeld(m) => AllHeld(r)
<1>1. m \in WmStates /\ c \in Screens
  <2>1. m \in WmStates /\ m.plugged \in Seq(Screens)
    BY DEF Well, Neat, WmStates
  <2> QED
    BY <2>1, RangeIs
<1>2. /\ m.list[c] \in Seq(Ids) /\ Len(m.list[c]) \in Nat
      /\ Range(m.list[c]) = {m.list[c][i] : i \in 1 .. Len(m.list[c])}
      /\ Len(l) \in Nat /\ DOMAIN l = 1 .. Len(l) /\ Range(l) = {l[i] : i \in 1 .. Len(l)}
  BY <1>1, StateIs, RangeIs, SMTT(30)
<1>3. CASE m.active \notin Range(l) \ Range(EditOf(m, c))
  BY <1>3 DEF ReplaceActive, EditOf, Replaced, Still
<1>4. CASE m.active \in Range(l) \ Range(EditOf(m, c))
  <2> DEFINE kept == Range(EditOf(m, c))
             at == IndexIn(l, m.active)
             J == {j \in 1 .. (at - 1) : l[j] \in kept}
             row == 1 + Cardinality(J)
             last == Len(m.list[c])
             v == m.list[c][IF row < last THEN row ELSE last]
  <2>1. r = SetActiveWorkspace(m, v)
    BY <1>4 DEF ReplaceActive, Successor, EditOf
  <2>2. v \in Range(m.list[c])
    <3>1. at \in 1 .. Len(l)
      BY <1>2, <1>4 DEF IndexIn
    <3> HIDE DEF at
    <3>2. IsFiniteSet(1 .. (at - 1))
      BY <3>1, FS_Interval
    <3>3. Cardinality(J) \in Nat
      BY <3>2, FS_Subset, FS_CardinalityType
    <3> HIDE DEF J
    <3>4. last # 0
      BY <1>2
    <3>5. PICK s : s = m.list[c]
      OBVIOUS
    <3>6. Len(s) \in Nat /\ Range(s) = {s[j] : j \in 1 .. Len(s)} /\ last = Len(s)
      BY <1>2, <3>5
    <3>7. PICK k : k = Cardinality(J)
      OBVIOUS
    <3>8. row = 1 + k /\ k \in Nat /\ last \in Nat /\ last # 0
      BY <3>3, <3>4, <3>6, <3>7
    <3>9. PICK p : p = IF row < last THEN row ELSE last
      OBVIOUS
    <3> HIDE DEF row, last
    <3>10. p \in 1 .. last
      BY <3>8, <3>9
    <3>11. v = s[p]
      BY <3>5, <3>9
    <3> QED
      BY <3>5, <3>6, <3>10, <3>11
  <2>3. PICK w : w = v
    OBVIOUS
  <2> HIDE DEF v
  <2>4. w \in m.all /\ w # m.active
    <3>1. OnScreens(m) \subseteq m.all
      BY DEF Well, Known
    <3> QED
      BY <1>1, <1>4, <2>2, <2>3, <3>1 DEF OnScreens
  <2>5. /\ Well(r, D) /\ Still(r, m) /\ r.active = w
        /\ OnScreens(r) = OnScreens(m) /\ InLimbo(r) = InLimbo(m)
        /\ AllHeld(m) => AllHeld(r)
        /\ w = m.active => r.activeScreen = m.activeScreen
        /\ w # m.active => \A d \in Range(m.plugged) : w \in Range(m.list[d]) => r.activeScreen = d
    BY <2>1, <2>3, <2>4, ActivateWell
  <2>6. r.active \in Range(r.list[c]) /\ r.activeScreen = c
    BY <2>2, <2>3, <2>4, <2>5 DEF Still
  <2> QED
    BY <1>4, <2>5, <2>6 DEF Replaced
<1> QED
  BY <1>3, <1>4

\* No proxy knows a workspace that nobody knows.
EditsKnown(m) == \A d \in Screens : Range(EditOf(m, d)) \subseteq m.all \cup {Gone}

\* r is m without workspaces of S, which were on no screen.
Fading(r, m, S) ==
  /\ r.plugged = m.plugged /\ r.crashed = m.crashed
  /\ r.active = m.active /\ r.activeScreen = m.activeScreen
  /\ \A d \in Screens :
       /\ r.list[d] = m.list[d] /\ r.limbo[d] \subseteq m.limbo[d]
       /\ Len(EditOf(r, d)) = Len(EditOf(m, d))
       /\ \A i \in 1 .. Len(EditOf(m, d)) :
            \/ EditOf(r, d)[i] = EditOf(m, d)[i]
            \/ EditOf(r, d)[i] = Gone /\ EditOf(m, d)[i] \in S
  /\ AllHeld(m) => AllHeld(r)
  /\ EditsKnown(m) => EditsKnown(r)

(* Deleting goes on.                                                       *)
LEMMA FadingOn ==
  ASSUME NEW m, NEW a, NEW b, NEW S, Fading(a, m, S), Fading(b, a, S)
  PROVE  Fading(b, m, S)
<1>1. ASSUME NEW d \in Screens
      PROVE  /\ b.list[d] = m.list[d] /\ b.limbo[d] \subseteq m.limbo[d]
             /\ Len(EditOf(b, d)) = Len(EditOf(m, d))
  BY DEF Fading
<1>2. ASSUME NEW d \in Screens, NEW i \in 1 .. Len(EditOf(m, d))
      PROVE  \/ EditOf(b, d)[i] = EditOf(m, d)[i]
             \/ EditOf(b, d)[i] = Gone /\ EditOf(m, d)[i] \in S
  <2>1. Len(EditOf(a, d)) = Len(EditOf(m, d))
    BY DEF Fading
  <2>2. \/ EditOf(b, d)[i] = EditOf(a, d)[i]
        \/ EditOf(b, d)[i] = Gone /\ EditOf(a, d)[i] \in S
    BY <2>1 DEF Fading
  <2>3. \/ EditOf(a, d)[i] = EditOf(m, d)[i]
        \/ EditOf(a, d)[i] = Gone /\ EditOf(m, d)[i] \in S
    BY DEF Fading
  <2> QED
    BY <2>2, <2>3
<1> QED
  BY <1>1, <1>2 DEF Fading

(* What is in limbo is deleted while something else is active.             *)
LEMMA LimboDeleted ==
  ASSUME NEW m, NEW D, Well(m, D), NEW S, NEW w \in Ids \cap S, w \notin OnScreens(m),
         m.active \in OnScreens(m), NEW any, NEW r, r = Delete(m, w, any)
  PROVE  /\ Well(r, D) /\ Fading(r, m, S)
         /\ \A d \in Screens : w \notin r.limbo[d]
<1>1. Well(r, D) /\ Deleted(r, m, w)
  <2>1. OnScreens(m) \ {w} # {}
    OBVIOUS
  <2> QED
    BY <2>1, DeleteIs
<1>2. \A d \in Screens : w \notin Range(m.list[d])
  BY DEF OnScreens
<1>3. /\ r.plugged = m.plugged /\ r.crashed = m.crashed
      /\ r.active = m.active /\ r.activeScreen = m.activeScreen /\ r.all = m.all \ {w}
  BY <1>1 DEF Deleted
<1>4. \A d \in Screens :
        /\ r.list[d] = m.list[d] /\ r.limbo[d] = m.limbo[d] \ {w}
        /\ EditOf(r, d) = Forget(EditOf(m, d), w)
  BY <1>1, <1>2 DEF Deleted, EditOf
<1>5. ASSUME NEW d \in Screens
      PROVE  /\ Len(EditOf(r, d)) = Len(EditOf(m, d)) /\ EditOf(m, d) \in Seq(Ids \cup {Gone})
             /\ \A i \in 1 .. Len(EditOf(m, d)) :
                  EditOf(r, d)[i] = IF EditOf(m, d)[i] = w THEN Gone ELSE EditOf(m, d)[i]
  <2>1. EditOf(m, d) \in Seq(Ids \cup {Gone})
    BY StateIs DEF EditOf, Well, Neat
  <2>2. EditOf(r, d) = Forget(EditOf(m, d), w)
    BY <1>4
  <2> QED
    BY <2>1, <2>2, ForgetIs
<1>6. AllHeld(m) => AllHeld(r)
  <2>1. OnScreens(r) = OnScreens(m) /\ InLimbo(r) = InLimbo(m) \ {w}
    BY <1>4 DEF OnScreens, InLimbo
  <2> QED
    BY <1>3, <2>1 DEF AllHeld
<1>7. EditsKnown(m) => EditsKnown(r)
  <2> SUFFICES ASSUME EditsKnown(m), NEW d \in Screens
               PROVE  Range(EditOf(r, d)) \subseteq r.all \cup {Gone}
    BY DEF EditsKnown
  <2>1. r \in WmStates /\ EditOf(r, d) \in Seq(Ids \cup {Gone})
    BY <1>1, StateIs DEF EditOf, Well, Neat
  <2>2. /\ Range(EditOf(r, d)) = {EditOf(r, d)[i] : i \in 1 .. Len(EditOf(r, d))}
        /\ Range(EditOf(m, d)) = {EditOf(m, d)[i] : i \in 1 .. Len(EditOf(m, d))}
    BY <1>5, <2>1, RangeIs
  <2>3. \A i \in 1 .. Len(EditOf(m, d)) : EditOf(m, d)[i] \in m.all \cup {Gone}
    BY <2>2 DEF EditsKnown
  <2> QED
    BY <1>3, <1>5, <2>2, <2>3
<1>8. \A d \in Screens : \A i \in 1 .. Len(EditOf(m, d)) :
        \/ EditOf(r, d)[i] = EditOf(m, d)[i]
        \/ EditOf(r, d)[i] = Gone /\ EditOf(m, d)[i] \in S
  BY <1>5
<1> QED
  BY <1>1, <1>3, <1>4, <1>5, <1>6, <1>7, <1>8 DEF Fading

(* finishSync() leaves nothing in the screen's limbo.                      *)
LEMMA FinishIs ==
  ASSUME NEW m, NEW D, Well(m, D), m.active \in OnScreens(m), NEW c \in Screens, NEW any,
         NEW r, r = FinishSync(m, c, any)
  PROVE  Well(r, D) /\ Fading(r, m, m.limbo[c]) /\ r.limbo[c] = {}
<1> DEFINE S == m.limbo[c]
           q == SetToSeq(S)
           n == Len(q)
<1>1. IsFiniteSet(S) /\ S \subseteq Ids /\ S \cap OnScreens(m) = {}
  <2>1. S \subseteq Ids
    BY StateIs DEF Well, Neat
  <2>2. IsFiniteSet(S)
    BY <2>1, WorkspacesAssumption, FS_Subset
  <2>3. S \subseteq InLimbo(m)
    BY DEF InLimbo
  <2> QED
    BY <2>1, <2>2, <2>3 DEF Well, Known
<1>2. q \in Seq(S) /\ ToSet(q) = S
  <2> HIDE DEF S
  <2> QED
    BY <1>1, SetAsList
<1>3. r = DeleteEach(m, q, any)
  BY DEF FinishSync
<1> HIDE DEF q, S
<1>4. n \in Nat /\ DOMAIN q = 1 .. n /\ (\A k \in 1 .. n : q[k] \in S) /\ \A w \in S : \E k \in 1 .. n : q[k] = w
  BY <1>2 DEF ToSet
<1>5. PICK h : /\ h[0] = m
               /\ \A k \in 1 .. n : h[k] = Delete(h[k - 1], q[k], any)
               /\ h[n] = r
  BY <1>2, <1>3, DeleteSteps
<1> DEFINE P(a, k) == Well(a, D) /\ Fading(a, m, S) /\ \A j \in 1 .. k : q[j] \notin a.limbo[c]
           T == {k \in 0 .. n : P(h[k], k)}
<1>6. 0 \in T
  <2>1. Fading(m, m, S)
    BY DEF Fading
  <2>2. P(m, 0)
    BY <2>1
  <2> HIDE DEF P
  <2> QED
    BY <1>4, <1>5, <2>2
<1>7. ASSUME NEW k \in 0 .. n - 1, k \in T PROVE k + 1 \in T
  <2>1. PICK a : a = h[k]
    OBVIOUS
  <2>2. PICK b : b = h[k + 1]
    OBVIOUS
  <2>3. PICK i : i = k + 1
    OBVIOUS
  <2>4. i \in 1 .. n /\ i - 1 = k /\ k \in Nat /\ i \in 0 .. n /\ q[i] \in S
    BY <1>4, <2>3
  <2>5. b = Delete(a, q[i], any)
    BY <1>5, <2>1, <2>2, <2>3, <2>4
  <2>6. P(a, k)
    BY <1>7, <2>1
  <2>7. PICK w : w = q[i]
    OBVIOUS
  <2>8. w \in Ids \cap S /\ w \notin OnScreens(a) /\ a.active \in OnScreens(a) /\ b = Delete(a, w, any)
    <3>1. OnScreens(a) = OnScreens(m) /\ a.active = m.active
      BY <2>6 DEF Fading, OnScreens
    <3> QED
      BY <1>1, <2>4, <2>5, <2>7, <3>1
  <2>9. Well(a, D) /\ Fading(a, m, S) /\ \A j \in 1 .. k : q[j] \notin a.limbo[c]
    BY <2>6
  <2> HIDE DEF P, T
  <2>10. Well(b, D) /\ Fading(b, a, S) /\ w \notin b.limbo[c]
    BY <2>8, <2>9, LimboDeleted
  <2>11. Fading(b, m, S)
    BY <2>9, <2>10, FadingOn
  <2>12. \A j \in 1 .. i : q[j] \notin b.limbo[c]
    <3>1. b.limbo[c] \subseteq a.limbo[c]
      BY <2>10 DEF Fading
    <3>2. \A j \in 1 .. i : j \in 1 .. k \/ j = i
      BY <2>3, <2>4
    <3> QED
      BY <2>7, <2>9, <2>10, <3>1, <3>2
  <2>13. P(b, i)
    BY <2>10, <2>11, <2>12 DEF P
  <2> QED
    BY <2>2, <2>3, <2>4, <2>13 DEF T
<1>8. P(r, n)
  <2> HIDE DEF P
  <2>1. \A k \in 0 .. n : k \in T
    <3> HIDE DEF T
    <3> QED
      BY <1>4, <1>6, <1>7, UpTo
  <2>2. n \in 0 .. n
    BY <1>4
  <2>3. n \in T
    BY <2>1, <2>2
  <2> QED
    BY <1>5, <2>3
<1>9. r.limbo[c] = {}
  <2>1. r.limbo[c] \subseteq S
    BY <1>8 DEF Fading, S
  <2> QED
    BY <1>4, <1>8, <2>1
<1> QED
  BY <1>8, <1>9 DEF S

(***************************************************************************)
(* The commit of one screen, and of all.                                   *)
(***************************************************************************)
\* The rows e are what is left of the rows f when S is deleted.
Paler(e, f, S) ==
  /\ f # <<>> => e # <<>>
  /\ OnceUnlessGone(f) => OnceUnlessGone(e)
  /\ Range(e) \subseteq Range(f) \cup {Gone}
  /\ Range(f) \cap S = {} => e = f

(* What deletions leave of a proxy's rows.                                 *)
LEMMA PalerEdit ==
  ASSUME NEW m \in WmStates, NEW r \in WmStates, NEW S, Fading(r, m, S), NEW d \in Screens
  PROVE  Paler(EditOf(r, d), EditOf(m, d), S)
<1> DEFINE e == EditOf(r, d)
           f == EditOf(m, d)
<1>1. /\ e \in Seq(Ids \cup {Gone}) /\ Len(e) \in Nat /\ Range(e) = {e[i] : i \in 1 .. Len(e)}
      /\ f \in Seq(Ids \cup {Gone}) /\ Len(f) \in Nat /\ Range(f) = {f[i] : i \in 1 .. Len(f)}
  <2>1. e \in Seq(Ids \cup {Gone}) /\ f \in Seq(Ids \cup {Gone})
    BY StateIs DEF EditOf
  <2> HIDE DEF e, f
  <2> QED
    BY <2>1, RangeIs
<1>2. Len(e) = Len(f) /\ \A i \in 1 .. Len(f) : e[i] = f[i] \/ (e[i] = Gone /\ f[i] \in S)
  BY DEF Fading
<1> HIDE DEF e, f
<1>3. f # <<>> => e # <<>>
  BY <1>1, <1>2, RangeIs
<1>4. OnceUnlessGone(f) => OnceUnlessGone(e)
  BY <1>1, <1>2 DEF OnceUnlessGone
<1>5. Range(e) \subseteq Range(f) \cup {Gone}
  BY <1>1, <1>2
<1>6. Range(f) \cap S = {} => e = f
  <2> SUFFICES ASSUME Range(f) \cap S = {} PROVE e = f
    OBVIOUS
  <2>1. \A i \in 1 .. Len(f) : e[i] = f[i]
    BY <1>1, <1>2
  <2> QED
    BY <1>1, <1>2, <2>1
<1> QED
  BY <1>3, <1>4, <1>5, <1>6 DEF Paler, e, f

\* A proxy that may be committed: only x may be of another screen.
EditReady(m, x, c) ==
  /\ EditOf(m, c) # <<>> /\ OnceUnlessGone(EditOf(m, c))
  /\ Range(EditOf(m, c)) \ {x, Gone} \subseteq Range(m.list[c])

\* A commit that has come to the screens of done.
Syncing(m, D, x, done) ==
  /\ Well(m, D) /\ ActiveShown(m, D) /\ ~m.crashed /\ EditsKnown(m) /\ AllHeld(m)
  /\ \A c \in Range(m.plugged) : EditReady(m, x, c)
  /\ \A c \in done : Range(EditOf(m, c)) \subseteq Range(m.list[c])
  /\ \A c, d \in Range(m.plugged) : x \in Range(EditOf(m, c)) \cap Range(EditOf(m, d)) => c = d
  /\ \A c \in Screens : c \in done \/ c \notin Range(m.plugged) => m.limbo[c] = {}

\* Nothing comes to a screen that is not in the model.
NothingNew(r, m) ==
  /\ r.plugged = m.plugged
  /\ \A d \in Screens \ Range(m.plugged) :
       /\ Range(r.list[d]) \subseteq Range(m.list[d])
       /\ EditOf(m, d) = <<>> => EditOf(r, d) = <<>>

\* a is m when the rows of c are those of its proxy.
RowsTaken(a, m, D, c, x) ==
  /\ ~a.crashed /\ Well(a, D) /\ AllHeld(a) /\ EditsKnown(a)
  /\ a.proxy["edit"] = m.proxy["edit"] /\ a.plugged = m.plugged
  /\ Range(a.list[c]) = Range(EditOf(m, c)) /\ Gone \notin Range(EditOf(m, c))
  /\ a.list[c] # <<>>
  /\ \A d \in Screens \ {c} :
       /\ Range(a.list[d]) \subseteq Range(m.list[d]) /\ a.limbo[d] \subseteq m.limbo[d]
       /\ Range(m.list[d]) \ ({x} \cap Range(EditOf(m, c))) \subseteq Range(a.list[d])
  /\ a.active \in Range(m.list[c]) \ Range(EditOf(m, c)) \/ ActiveShown(a, D)

(* The commit of one screen, up to the deletions.                          *)
LEMMA TakenOver ==
  ASSUME NEW m, NEW D, NEW x, NEW done, Syncing(m, D, x, done), D \subseteq Screens,
         NEW c \in Range(m.plugged) \ D, NEW a, a = SyncRows(SyncRemovals(m, c), c)
  PROVE  a.crashed \/ RowsTaken(a, m, D, c, x)
<1> DEFINE b == SyncRemovals(m, c)
           e == EditOf(m, c)
<1>1. /\ Well(m, D) /\ ActiveShown(m, D) /\ ~m.crashed /\ EditsKnown(m) /\ AllHeld(m)
      /\ EditReady(m, x, c)
  BY DEF Syncing
<1>2. m \in WmStates /\ c \in Screens
  <2>1. m \in WmStates /\ m.plugged \in Seq(Screens)
    BY <1>1 DEF Well, Neat, WmStates
  <2> QED
    BY <2>1, RangeIs
<1>3. /\ Well(b, D) /\ Thinned(b, m, c)
      /\ Range(b.list[c]) = Range(m.list[c]) \cap Range(e)
  <2>1. PICK v : v = b
    OBVIOUS
  <2>2. v = SyncRemovals(m, c)
    BY <2>1
  <2> HIDE DEF b
  <2>3. /\ Well(v, D) /\ Thinned(v, m, c)
        /\ Range(v.list[c]) = Range(m.list[c]) \cap Range(m.proxy["edit"][c])
    BY <1>1, <1>2, <2>2, RemovalsIs
  <2> QED
    BY <2>1, <2>3 DEF EditOf
<1>4. a = SyncRows(b, c)
  OBVIOUS
<1> HIDE DEF b
<1>5. /\ EditOf(b, c) = e /\ b.all = m.all /\ b.plugged = m.plugged /\ b.crashed = m.crashed
      /\ b.active = m.active /\ b.activeScreen = m.activeScreen /\ AllHeld(b)
      /\ b.proxy["edit"] = m.proxy["edit"]
      /\ \A d \in Screens \ {c} : b.list[d] = m.list[d] /\ b.limbo[d] = m.limbo[d]
  BY <1>1, <1>3 DEF Thinned, Calm, EditOf
<1>6. RowsReady(b, D, c, x, 1)
  <2>1. Range(e) \ {Gone} \subseteq m.all
    BY <1>1, <1>2 DEF EditsKnown
  <2>2. b.list[c] \in Seq(Ids) /\ Len(b.list[c]) \in Nat
    <3>1. b.list[c] \in Seq(Ids)
      BY <1>2, <1>3, StateIs DEF Well, Neat
    <3> QED
      BY <3>1
  <2>3. OnceUnlessGone(e) /\ Range(e) \ {x, Gone} \subseteq Range(m.list[c])
    BY <1>1 DEF EditReady
  <2>4. 1 - 1 <= Len(b.list[c]) /\ \A j \in 1 .. 1 - 1 : FALSE
    BY <2>2
  <2> HIDE DEF e
  <2> QED
    BY <1>1, <1>3, <1>5, <2>1, <2>3, <2>4 DEF RowsReady
<1>7. CASE a.crashed
  BY <1>7
<1>8. CASE ~a.crashed
  <2>1. RowsReady(a, D, c, x, Len(EditOf(b, c)) + 1) /\ Followed(a, b, c, x)
    BY <1>2, <1>4, <1>6, <1>8, RowsIs
  <2>2. EditOf(a, c) = e /\ a.all = m.all /\ a.plugged = m.plugged /\ AllHeld(a)
        /\ a.proxy["edit"] = m.proxy["edit"]
    BY <1>5, <2>1 DEF Followed, EditOf
  <2>3. Range(a.list[c]) = Range(e) /\ Gone \notin Range(e)
    <3>1. RowsReady(a, D, c, x, Len(EditOf(a, c)) + 1)
      BY <1>5, <2>1, <2>2
    <3> QED
      BY <1>2, <2>2, <3>1, RowsAreTaken
  <2>4. a.list[c] # <<>>
    <3>1. e # <<>> /\ e \in Seq(Ids \cup {Gone})
      BY <1>1, <1>2, StateIs DEF EditReady, EditOf
    <3>2. Range(e) # {}
      BY <3>1, RangeIs
    <3>3. a.list[c] \in Seq(Ids)
      BY <1>2, <2>1, StateIs DEF RowsReady, Well, Neat
    <3> QED
      BY <2>3, <3>2, <3>3, RangeIs
  <2>5. EditsKnown(a)
    BY <1>1, <2>2 DEF EditsKnown, EditOf
  <2>6. \A d \in Screens \ {c} :
          /\ Range(a.list[d]) \subseteq Range(m.list[d]) /\ a.limbo[d] \subseteq m.limbo[d]
          /\ Range(m.list[d]) \ ({x} \cap Range(e)) \subseteq Range(a.list[d])
    BY <1>5, <2>1 DEF Followed
  <2>7. a.active \in Range(m.list[c]) \ Range(e) \/ ActiveShown(a, D)
    <3>1. CASE a.active \in Range(a.list[c]) /\ a.activeScreen = c
      BY <1>2, <3>1 DEF ActiveShown
    <3>2. CASE /\ a.active = m.active /\ a.activeScreen = m.activeScreen
               /\ \A d \in Screens \ {c} : m.active \in Range(m.list[d]) => m.active \in Range(a.list[d])
      <4>1. CASE m.activeScreen \in Screens /\ m.active \in Range(m.list[m.activeScreen])
        <5>1. CASE m.activeScreen = c
          BY <2>3, <3>2, <4>1, <5>1 DEF ActiveShown
        <5>2. CASE m.activeScreen # c
          BY <3>2, <4>1, <5>2 DEF ActiveShown
        <5> QED
          BY <5>1, <5>2
      <4>2. CASE \E d \in D : m.active \in Range(m.list[d])
        BY <3>2, <4>2 DEF ActiveShown
      <4> QED
        BY <1>1, <4>1, <4>2 DEF ActiveShown
    <3>3. \/ a.active \in Range(a.list[c]) /\ a.activeScreen = c
          \/ /\ a.active = m.active /\ a.activeScreen = m.activeScreen
             /\ \A d \in Screens \ {c} : m.active \in Range(m.list[d]) => m.active \in Range(a.list[d])
      BY <1>5, <2>1 DEF Followed
    <3> QED
      BY <3>1, <3>2, <3>3
  <2>8. Well(a, D)
    BY <2>1 DEF RowsReady
  <2> HIDE DEF e
  <2> QED
    BY <1>8, <2>2, <2>3, <2>4, <2>5, <2>6, <2>7, <2>8 DEF e, RowsTaken
<1> QED
  BY <1>7, <1>8

(* One screen is committed, or the program has crashed.                    *)
LEMMA SyncScreenIs ==
  ASSUME NEW m, NEW D, NEW x, x # Gone, NEW done, Syncing(m, D, x, done), D \subseteq Screens,
         NEW c \in Range(m.plugged) \ D, done \subseteq Range(m.plugged), NEW any,
         NEW r, r = SyncScreen(m, c, any)
  PROVE  r.crashed \/ (Syncing(r, D, x, done \cup {c}) /\ NothingNew(r, m))
<1> DEFINE a == SyncRows(SyncRemovals(m, c), c)
           l == m.list[c]
           b == ReplaceActive(a, c, l)
           e == EditOf(m, c)
<1>1. /\ Well(m, D) /\ ~m.crashed /\ m \in WmStates /\ c \in Screens
      /\ Range(m.plugged) \subseteq Screens /\ l \in Seq(Ids)
  <2>1. Well(m, D) /\ ~m.crashed
    BY DEF Syncing
  <2>2. m \in WmStates /\ m.plugged \in Seq(Screens)
    BY <2>1 DEF Well, Neat, WmStates
  <2> QED
    BY <2>1, <2>2, RangeIs, StateIs
<1>2. a.crashed \/ RowsTaken(a, m, D, c, x)
  BY TakenOver
<1>3. r = IF AtLeastOne(a, c).crashed THEN AtLeastOne(a, c)
          ELSE FinishSync(ReplaceActive(AtLeastOne(a, c), c, l), c, any)
  BY <1>1 DEF SyncScreen
<1> HIDE DEF a
<1>4. CASE a.crashed
  <2>1. AtLeastOne(a, c) = a
    BY <1>4 DEF AtLeastOne
  <2> QED
    BY <1>3, <1>4, <2>1
<1>5. CASE ~a.crashed
  <2>1. /\ Well(a, D) /\ AllHeld(a) /\ EditsKnown(a)
        /\ a.proxy["edit"] = m.proxy["edit"] /\ a.plugged = m.plugged
        /\ Range(a.list[c]) = Range(e) /\ Gone \notin Range(e) /\ a.list[c] # <<>>
        /\ a.active \in Range(l) \ Range(e) \/ ActiveShown(a, D)
    BY <1>2, <1>5 DEF RowsTaken
  <2>2. \A d \in Screens \ {c} :
          /\ Range(a.list[d]) \subseteq Range(m.list[d]) /\ a.limbo[d] \subseteq m.limbo[d]
          /\ Range(m.list[d]) \ ({x} \cap Range(e)) \subseteq Range(a.list[d])
    BY <1>2, <1>5 DEF RowsTaken
  <2>3. r = FinishSync(b, c, any)
    <3>1. AtLeastOne(a, c) = a
      BY <2>1 DEF AtLeastOne
    <3> QED
      BY <1>3, <1>5, <3>1
  <2>4. \A d \in Screens : EditOf(a, d) = EditOf(m, d)
    BY <2>1 DEF EditOf
  <2>5. Well(b, D) /\ Still(b, a) /\ AllHeld(b) /\ Replaced(b, a, c, l)
    <3>1. Range(a.list[c]) = Range(EditOf(a, c)) /\ c \in Range(a.plugged)
      BY <1>1, <2>1, <2>4
    <3>2. Range(a.list[c]) # {}
      <4>1. a.list[c] \in Seq(Ids)
        BY <1>1, <2>1, StateIs DEF Well, Neat
      <4> QED
        BY <2>1, <4>1, RangeIs
    <3>3. PICK v : v = b
      OBVIOUS
    <3>4. v = ReplaceActive(a, c, l)
      BY <3>3
    <3> HIDE DEF b, l
    <3>5. /\ Well(v, D) /\ Still(v, a) /\ Replaced(v, a, c, l)
          /\ AllHeld(a) => AllHeld(v)
      BY <1>1, <2>1, <3>1, <3>2, <3>4, ReplaceIs
    <3> QED
      BY <2>1, <3>3, <3>5
  <2> HIDE DEF b
  <2>6. /\ b.list = a.list /\ b.limbo = a.limbo /\ b.all = a.all /\ b.plugged = m.plugged
        /\ b.proxy = a.proxy /\ ~b.crashed
    BY <1>5, <2>1, <2>5 DEF Still
  <2>7. ActiveShown(b, D) /\ EditsKnown(b) /\ \A d \in Screens : EditOf(b, d) = EditOf(m, d)
    <3>1. EditsKnown(b) /\ \A d \in Screens : EditOf(b, d) = EditOf(m, d)
      BY <2>1, <2>4, <2>6 DEF EditsKnown, EditOf
    <3>2. CASE a.active \in Range(l) \ Range(e)
      <4>1. b.active \in Range(b.list[c]) /\ b.activeScreen = c
        BY <1>1, <2>4, <2>5, <3>2 DEF Replaced
      <4> QED
        BY <1>1, <3>1, <4>1 DEF ActiveShown
    <3>3. CASE a.active \notin Range(l) \ Range(e)
      <4>1. b = a
        BY <1>1, <2>4, <2>5, <3>3 DEF Replaced
      <4> QED
        BY <2>1, <3>1, <3>3, <4>1
    <3> QED
      BY <3>2, <3>3
  <2> DEFINE S == b.limbo[c]
  <2>8. S \cap OnScreens(b) = {} /\ b.active \in OnScreens(b)
    <3>1. S \subseteq InLimbo(b)
      BY <1>1 DEF InLimbo
    <3>2. b.active \in OnScreens(b)
      BY <2>7 DEF ActiveShown, OnScreens
    <3> QED
      BY <2>5, <3>1, <3>2 DEF Well, Known
  <2>9. Well(r, D) /\ Fading(r, b, S) /\ r.limbo[c] = {}
    BY <1>1, <2>3, <2>5, <2>8, FinishIs
  <2> HIDE DEF S
  <2>10. /\ r.plugged = m.plugged /\ ~r.crashed /\ AllHeld(r) /\ EditsKnown(r)
         /\ r.active = b.active /\ r.activeScreen = b.activeScreen
         /\ \A d \in Screens : r.list[d] = a.list[d] /\ r.limbo[d] \subseteq a.limbo[d]
    BY <2>5, <2>6, <2>7, <2>9 DEF Fading
  <2>11. ActiveShown(r, D)
    BY <2>6, <2>7, <2>10 DEF ActiveShown
  <2>12. \A d \in Screens : Paler(EditOf(r, d), EditOf(m, d), S)
    <3>1. b \in WmStates /\ r \in WmStates
      BY <2>5, <2>9 DEF Well, Neat
    <3>2. \A d \in Screens : Paler(EditOf(r, d), EditOf(b, d), S)
      BY <2>9, <3>1, PalerEdit
    <3> QED
      BY <2>7, <3>2
  <2>13. \A d \in Screens : Range(EditOf(m, d)) \subseteq Range(a.list[d]) => EditOf(r, d) = EditOf(m, d)
    <3> SUFFICES ASSUME NEW d \in Screens, Range(EditOf(m, d)) \subseteq Range(a.list[d])
                 PROVE  EditOf(r, d) = EditOf(m, d)
      OBVIOUS
    <3>1. Range(EditOf(m, d)) \subseteq OnScreens(b)
      BY <2>6 DEF OnScreens
    <3> QED
      BY <2>8, <2>12, <3>1 DEF Paler
  <2>14. EditOf(r, c) = e
    BY <1>1, <2>1, <2>13
  <2>15. \A d \in Range(m.plugged) : EditReady(m, x, d)
    BY DEF Syncing
  <2>16. ASSUME NEW d \in Range(m.plugged) PROVE EditReady(r, x, d)
    <3>0. d \in Screens /\ EditReady(m, x, d) /\ Paler(EditOf(r, d), EditOf(m, d), S)
      BY <1>1, <2>12, <2>15
    <3>1. EditOf(r, d) # <<>> /\ OnceUnlessGone(EditOf(r, d))
      BY <3>0 DEF Paler, EditReady
    <3>2. Range(EditOf(r, d)) \ {x, Gone} \subseteq Range(r.list[d])
      <4>1. CASE d = c
        BY <2>1, <2>10, <2>14, <3>0, <4>1
      <4>2. CASE d # c
        <5>1. Range(EditOf(r, d)) \ {x, Gone} \subseteq Range(m.list[d])
          BY <3>0 DEF Paler, EditReady
        <5>2. Range(m.list[d]) \ ({x} \cap Range(e)) \subseteq Range(a.list[d]) /\ r.list[d] = a.list[d]
          BY <2>2, <2>10, <3>0, <4>2
        <5> QED
          BY <5>1, <5>2
      <4> QED
        BY <4>1, <4>2
    <3> QED
      BY <3>1, <3>2 DEF EditReady
  <2>17. \A d, f \in Range(m.plugged) : x \in Range(EditOf(m, d)) \cap Range(EditOf(m, f)) => d = f
    BY DEF Syncing
  <2>18. ASSUME NEW d \in done \cup {c} PROVE Range(EditOf(r, d)) \subseteq Range(r.list[d])
    <3>1. CASE d = c
      BY <1>1, <2>1, <2>10, <2>14, <3>1
    <3>2. CASE d # c
      <4>1. d \in Screens /\ d \in Range(m.plugged) /\ Range(EditOf(m, d)) \subseteq Range(m.list[d])
        BY <1>1, <2>18, <3>2 DEF Syncing
      <4>2. Range(EditOf(m, d)) \cap ({x} \cap Range(e)) = {}
        BY <2>17, <3>2, <4>1
      <4>3. Range(EditOf(m, d)) \subseteq Range(a.list[d])
        BY <2>2, <3>2, <4>1, <4>2
      <4> QED
        BY <2>10, <2>13, <4>1, <4>3
    <3> QED
      BY <3>1, <3>2
  <2>19. ASSUME NEW d \in Range(m.plugged), NEW f \in Range(m.plugged),
                x \in Range(EditOf(r, d)) \cap Range(EditOf(r, f))
         PROVE  d = f
    <3>1. x \in Range(EditOf(m, d)) \cap Range(EditOf(m, f))
      BY <1>1, <2>12, <2>19 DEF Paler
    <3> QED
      BY <2>17, <3>1
  <2>20. ASSUME NEW d \in Screens, d \in done \cup {c} \/ d \notin Range(m.plugged)
         PROVE  r.limbo[d] = {}
    <3>1. CASE d = c
      BY <2>9, <3>1
    <3>2. CASE d # c
      <4>1. m.limbo[d] = {}
        BY <2>20, <3>2 DEF Syncing
      <4> QED
        BY <2>2, <2>10, <3>2, <4>1
    <3> QED
      BY <3>1, <3>2
  <2>21. Syncing(r, D, x, done \cup {c})
    BY <2>9, <2>10, <2>11, <2>16, <2>18, <2>19, <2>20 DEF Syncing
  <2>22. NothingNew(r, m)
    <3>1. Range(<<>>) = {}
      BY EmptyRange
    <3>2. \A d \in Screens : EditOf(m, d) = <<>> => EditOf(r, d) = <<>>
      BY <2>13, <3>1
    <3> QED
      BY <2>2, <2>10, <3>2 DEF NothingNew
  <2> QED
    BY <2>21, <2>22
<1> QED
  BY <1>4, <1>5

(* All screens are committed, or the program has crashed.                  *)
LEMMA SyncIs ==
  ASSUME NEW m, NEW D, NEW x, x # Gone, Syncing(m, D, x, {}), D \subseteq Screens,
         Range(m.plugged) \cap D = {}, NEW any, NEW r, r = Sync(m, any)
  PROVE  r.crashed \/ (Syncing(r, D, x, Range(m.plugged)) /\ NothingNew(r, m))
<1> DEFINE q == m.plugged
           n == Len(q)
           Done(k) == {q[j] : j \in 1 .. k}
<1>1. q \in Seq(Screens) /\ n \in Nat /\ Range(q) = Done(n)
  <2>1. q \in Seq(Screens)
    BY DEF Syncing, Well, Neat, WmStates
  <2> HIDE DEF q
  <2> QED
    BY <2>1, RangeIs
<1>2. r = SyncEach(m, q, any)
  BY DEF Sync
<1> HIDE DEF q
<1>3. PICK h : /\ h[0] = m
               /\ \A k \in 1 .. n : h[k] = SyncScreen(h[k - 1], q[k], any)
               /\ h[n] = r
  BY <1>1, <1>2, ScreenSteps
<1> DEFINE P(a, k) == a.crashed \/ (Syncing(a, D, x, Done(k)) /\ NothingNew(a, m))
           T == {k \in 0 .. n : P(h[k], k)}
<1>4. 0 \in T
  <2>1. Done(0) = {}
    OBVIOUS
  <2> HIDE DEF Done
  <2>2. NothingNew(m, m)
    BY DEF NothingNew
  <2>3. P(m, 0)
    BY <2>1, <2>2
  <2> HIDE DEF P
  <2> QED
    BY <1>1, <1>3, <2>3
<1>5. ASSUME NEW k \in 0 .. n - 1, k \in T PROVE k + 1 \in T
  <2>1. PICK a : a = h[k]
    OBVIOUS
  <2>2. PICK b : b = h[k + 1]
    OBVIOUS
  <2>3. PICK i : i = k + 1
    OBVIOUS
  <2>4. i \in 1 .. n /\ i - 1 = k /\ k \in Nat /\ i \in 0 .. n /\ q[i] \in Range(q)
    BY <1>1, <2>3
  <2>5. b = SyncScreen(a, q[i], any)
    BY <1>3, <2>1, <2>2, <2>3, <2>4
  <2>6. a.crashed \/ (Syncing(a, D, x, Done(k)) /\ NothingNew(a, m))
    BY <1>5, <2>1
  <2>7. Done(i) = Done(k) \cup {q[i]} /\ Done(k) \subseteq Range(q)
    <3>1. \A j : j \in 1 .. i <=> j \in 1 .. k \/ j = i
      BY <2>3, <2>4
    <3>2. 1 .. k \subseteq 1 .. n
      BY <2>4
    <3> QED
      BY <1>1, <3>1, <3>2
  <2> HIDE DEF P, T, Done
  <2>8. CASE a.crashed
    <3>1. b = a
      BY <2>5, <2>8 DEF SyncScreen
    <3> QED
      BY <2>2, <2>3, <2>4, <2>8, <3>1 DEF P, T
  <2>9. CASE ~a.crashed
    <3>1. PICK c : c = q[i]
      OBVIOUS
    <3>2. Syncing(a, D, x, Done(k)) /\ NothingNew(a, m) /\ a.plugged = q
      BY <2>6, <2>9 DEF NothingNew, q
    <3>3. c \in Range(a.plugged) \ D /\ Done(k) \subseteq Range(a.plugged)
      BY <2>4, <2>7, <3>1, <3>2 DEF q
    <3>4. b.crashed \/ (Syncing(b, D, x, Done(k) \cup {c}) /\ NothingNew(b, a))
      BY <2>5, <3>1, <3>2, <3>3, SyncScreenIs
    <3>5. NothingNew(b, a) => NothingNew(b, m)
      BY <3>2 DEF NothingNew
    <3>6. P(b, i)
      BY <2>7, <3>1, <3>4, <3>5 DEF P
    <3> QED
      BY <2>2, <2>3, <2>4, <3>6 DEF T
  <2> QED
    BY <2>8, <2>9
<1>6. P(r, n)
  <2> HIDE DEF P
  <2>1. \A k \in 0 .. n : k \in T
    <3> HIDE DEF T
    <3> QED
      BY <1>1, <1>4, <1>5, UpTo
  <2>2. n \in 0 .. n
    BY <1>1
  <2>3. n \in T
    BY <2>1, <2>2
  <2> QED
    BY <1>3, <2>3
<1> HIDE DEF Done
<1> QED
  BY <1>1, <1>6 DEF q

(***************************************************************************)
(* Workspaces are created, and those of a new screen loaded.               *)
(***************************************************************************)
\* r is m with the workspace w, which becomes active if it is the first.
Created(r, m, w) ==
  /\ r.all = m.all \cup {w} /\ r.list = m.list /\ r.limbo = m.limbo /\ r.proxy = m.proxy
  /\ r.plugged = m.plugged /\ r.surfaces = m.surfaces /\ r.crashed = m.crashed
  /\ r.activeScreen = m.activeScreen
  /\ r.active = IF m.all = {} THEN w ELSE m.active

(* A workspace is created.                                                 *)
LEMMA CreateIs ==
  ASSUME NEW m, NEW D, Well(m, D), NEW w \in Ids \ m.all, NEW r, r = Create(m, w)
  PROVE  Well(r, D) /\ Created(r, m, w)
<1>0. m \in WmStates /\ PlacedOnce(m) /\ Mirrored(m, D) /\ ShowsOne(m)
  BY DEF Well, Neat
<1>1. PICK m1 : m1 = [m EXCEPT !.all = @ \cup {w}]
  OBVIOUS
<1>2. /\ m1 \in WmStates /\ m1.all = m.all \cup {w} /\ m1.active = m.active /\ m1.activeScreen = m.activeScreen
      /\ m1.list = m.list /\ m1.limbo = m.limbo /\ m1.proxy = m.proxy /\ m1.current = m.current
      /\ m1.plugged = m.plugged /\ m1.surfaces = m.surfaces /\ m1.crashed = m.crashed
  BY <1>0, <1>1 DEF WmStates
<1>3. r = IF m1.all = {w} THEN SetActiveWorkspace(m1, w) ELSE m1
  BY <1>1 DEF Create
<1>4. m1.all = {w} <=> m.all = {}
  BY <1>2
<1>5. PlacedOnce(m1) /\ Mirrored(m1, D) /\ ShowsOne(m1) /\ ShowsOwn(m1)
  BY <1>0, <1>2 DEF PlacedOnce, Mirrored, ShowsOne, ShowsOwn
<1>6. OnScreens(m1) = OnScreens(m) /\ InLimbo(m1) = InLimbo(m)
  BY <1>2 DEF OnScreens, InLimbo
<1>7. OnScreens(m) \subseteq m.all /\ OnScreens(m) \cap InLimbo(m) = {}
      /\ \A x \in Surfaces : m.surfaces[x] \in m.all \cup {Null}
  BY DEF Well, Known
<1>8. CASE m.all = {}
  <2>1. r = SetActiveWorkspace(m1, w) /\ w \notin OnScreens(m1) /\ w \in Ids \cup {Null}
    BY <1>3, <1>4, <1>6, <1>7, <1>8
  <2>2. /\ r \in WmStates /\ Still(r, m1) /\ r.active = w /\ ShowsOwn(r)
        /\ \A c \in Screens : m1.current[c] # Null => r.current[c] # Null
        /\ r.activeScreen = m1.activeScreen
    BY <1>2, <1>5, <2>1, SetActiveIs
  <2>3. Neat(r, D)
    BY <1>5, <2>2 DEF Neat, PlacedOnce, Mirrored, ShowsOne, Still
  <2>4. OnScreens(r) = OnScreens(m) /\ InLimbo(r) = InLimbo(m)
    BY <1>6, <2>2 DEF OnScreens, InLimbo, Still
  <2>5. Known(r)
    BY <1>2, <1>7, <2>2, <2>4 DEF Known, Still
  <2>6. Created(r, m, w)
    BY <1>2, <1>8, <2>2 DEF Created, Still
  <2> QED
    BY <2>3, <2>5, <2>6 DEF Well
<1>9. CASE m.all # {}
  <2>1. r = m1
    BY <1>3, <1>4, <1>9
  <2>2. m.active \in m.all
    BY <1>9 DEF Well, Known
  <2>3. Known(r)
    BY <1>2, <1>6, <1>7, <2>1, <2>2 DEF Known
  <2>4. Created(r, m, w)
    BY <1>2, <1>9, <2>1 DEF Created
  <2> QED
    BY <1>2, <1>5, <2>1, <2>3, <2>4 DEF Well, Neat
<1> QED
  BY <1>8, <1>9

(* A name that is free.                                                    *)
LEMMA FreshIs ==
  ASSUME NEW m, NEW w, Fresh(m) # {}, w = Lowest(Fresh(m))
  PROVE  /\ w \in Fresh(m) /\ w \in Ids /\ w \notin m.all /\ w # held
         /\ \A d \in Screens : w \notin Range(m.proxy["edit"][d])
<1>1. Fresh(m) \subseteq Nat
  BY WorkspacesAssumption DEF Fresh
<1>2. w \in Fresh(m)
  BY <1>1, HasLeast DEF Lowest
<1>3. w \in Ids /\ w \notin InUse(m)
  BY <1>2 DEF Fresh
<1>4. \A d \in Screens : Range(m.proxy["edit"][d]) \subseteq InUse(m)
  BY DEF InUse, Proxies
<1>5. m.all \subseteq InUse(m) /\ held \in InUse(m)
  BY DEF InUse
<1> QED
  BY <1>2, <1>3, <1>4, <1>5

\* a is m when k more workspaces of c have been loaded.
Loading(a, m, D, c, k) ==
  /\ Well(a, D) /\ AllHeld(a) /\ EditsKnown(a) /\ a.crashed = m.crashed
  /\ a.plugged = m.plugged /\ a.proxy["edit"] = m.proxy["edit"]
  /\ \A d \in Screens : a.limbo[d] \subseteq m.limbo[d]
  /\ \A d \in Screens \ {c} : a.list[d] = m.list[d]
  /\ Range(m.list[c]) \subseteq Range(a.list[c])
  /\ k > 0 => a.list[c] # <<>>
  /\ a.all = {} \/ ActiveShown(a, D)

(* One workspace is loaded.                                                *)
LEMMA LoadOneIs ==
  ASSUME NEW m, NEW D, D \subseteq Screens, NEW c \in Screens \ D, NEW k \in Nat, Loading(m, m, D, c, k),
         Fresh(m) # {}, NEW r, r = LoadOne(m, c)
  PROVE  Loading(r, m, D, c, k + 1) /\ \E w \in Fresh(m) : Fresh(m) \ {w} \subseteq Fresh(r)
<1>0. Well(m, D) /\ AllHeld(m) /\ EditsKnown(m) /\ (m.all = {} \/ ActiveShown(m, D)) /\ m \in WmStates
  BY DEF Loading, Well, Neat
<1>1. PICK w : w = Lowest(Fresh(m))
  OBVIOUS
<1>2. w \in Fresh(m) /\ w \in Ids /\ w \notin m.all
      /\ \A d \in Screens : w \notin Range(m.proxy["edit"][d])
  BY <1>1, FreshIs
<1>3. PICK m1 : m1 = Create(m, w)
  OBVIOUS
<1>4. Well(m1, D) /\ Created(m1, m, w)
  BY <1>0, <1>2, <1>3, CreateIs
<1>5. PICK i : i = Len(m.list[c]) + 1
  OBVIOUS
<1>6. r = Assign(m1, w, c, i, TRUE)
  BY <1>1, <1>3, <1>5 DEF LoadOne
<1>7. w \notin OnScreens(m) /\ \A d \in Screens : w \notin Range(m.list[d])
  <2>1. w \notin OnScreens(m)
    BY <1>0, <1>2 DEF Well, Known
  <2> QED
    BY <2>1 DEF OnScreens
<1>8. m1.list = m.list /\ m1.limbo = m.limbo /\ m1.all = m.all \cup {w} /\ m1.proxy = m.proxy
      /\ m1.plugged = m.plugged /\ m1.crashed = m.crashed /\ m1.activeScreen = m.activeScreen
      /\ m1.active = IF m.all = {} THEN w ELSE m.active
  BY <1>4 DEF Created
<1>9. i \in 1 .. Len(m1.list[c]) + 1
  <2>1. Len(m.list[c]) \in Nat
    BY <1>0, StateIs, RangeIs
  <2> QED
    BY <1>5, <1>8, <2>1
<1>10. Neat(r, D) /\ PutOn(r, m1, c, w, i)
  <2>1. Neat(m1, D) /\ w \notin Range(m1.list[c])
    BY <1>4, <1>7, <1>8 DEF Well
  <2> QED
    BY <1>2, <1>6, <1>9, <2>1, AssignIs
<1>11. Well(r, D) /\ Grown(r, m1, c, w)
  <2>1. w \in m1.all
    BY <1>8
  <2> QED
    BY <1>4, <1>9, <1>10, <2>1, PutOnWell
<1>12. /\ r.all = m.all \cup {w} /\ r.plugged = m.plugged /\ r.crashed = m.crashed
       /\ r.proxy["edit"] = m.proxy["edit"]
       /\ \A d \in Screens \ {c} : r.list[d] = m.list[d]
       /\ \A d \in Screens : r.limbo[d] = m.limbo[d] \ {w}
  BY <1>7, <1>8, <1>10 DEF PutOn
<1>13. Range(r.list[c]) = Range(m.list[c]) \cup {w} /\ OnScreens(r) = OnScreens(m) \cup {w}
  <2>1. OnScreens(m1) = OnScreens(m)
    BY <1>8 DEF OnScreens
  <2> QED
    BY <1>8, <1>11, <2>1 DEF Grown
<1>14. AllHeld(r)
  <2>1. InLimbo(m) \subseteq InLimbo(r) \cup {w}
    BY <1>12 DEF InLimbo
  <2> QED
    BY <1>0, <1>12, <1>13, <2>1 DEF AllHeld
<1>15. EditsKnown(r)
  BY <1>0, <1>12 DEF EditsKnown, EditOf
<1>16. r.list[c] # <<>>
  <2>1. r.list[c] \in Seq(Ids)
    BY <1>11, StateIs DEF Well, Neat
  <2> QED
    BY <1>13, <2>1, RangeIs
<1>17. ActiveShown(r, D)
  <2>1. CASE m.all = {}
    BY <1>8, <1>10, <2>1 DEF PutOn, ActiveShown
  <2>2. CASE m.all # {}
    <3>1. m1.active = m.active /\ m.active # w
      BY <1>0, <1>2, <1>8, <2>2 DEF Well, Known
    <3>2. r.active = m.active /\ r.activeScreen = m.activeScreen
      BY <1>8, <1>10, <3>1 DEF PutOn
    <3>3. \A d \in Screens : Range(m.list[d]) \subseteq Range(r.list[d])
      BY <1>12, <1>13
    <3> QED
      BY <1>0, <1>12, <1>13, <2>2, <3>2, <3>3 DEF ActiveShown
  <2> QED
    BY <2>1, <2>2
<1>18. Loading(r, m, D, c, k + 1)
  <2>1. Range(m.list[c]) \subseteq Range(r.list[c]) /\ \A d \in Screens : r.limbo[d] \subseteq m.limbo[d]
    BY <1>12, <1>13
  <2> QED
    BY <1>11, <1>12, <1>14, <1>15, <1>16, <1>17, <2>1 DEF Loading
<1>19. Fresh(m) \ {w} \subseteq Fresh(r)
  <2> SUFFICES ASSUME NEW v \in Fresh(m) \ {w} PROVE v \notin InUse(r)
    BY DEF Fresh
  <2>1. v \notin InUse(m)
    BY DEF Fresh
  <2>2. /\ v \notin m.all /\ v # held
        /\ \A d \in Screens : v \notin m.limbo[d] /\ v \notin Range(m.list[d])
                            /\ v \notin Range(m.proxy["edit"][d])
    BY <2>1 DEF InUse, Proxies
  <2>3. \A d \in Screens : v \notin r.limbo[d] /\ v \notin Range(r.list[d])
                          /\ v \notin Range(r.proxy["edit"][d])
    BY <1>12, <1>13, <2>2
  <2>4. \A d \in Screens : v \notin Range(r.proxy["mirror"][d])
    <3>1. Range(<<>>) = {}
      BY EmptyRange
    <3> QED
      BY <1>11, <2>3, <3>1 DEF Well, Neat, Mirrored
  <2>5. v \notin r.all /\ v # held
    BY <1>12, <2>2
  <2> QED
    BY <2>3, <2>4, <2>5 DEF InUse, Proxies
<1> QED
  BY <1>2, <1>18, <1>19

(* All workspaces of a screen are loaded.                                  *)
LEMMA LoadIs ==
  ASSUME NEW m, NEW D, D \subseteq Screens, NEW c \in Screens \ D, Loading(m, m, D, c, 0),
         NEW n \in Nat \ {0}, Cardinality(Fresh(m)) >= n, NEW r, r = LoadWorkspaces(m, c, n)
  PROVE  Loading(r, m, D, c, n)
<1>1. PICK rows : rows = [i \in 1 .. n |-> i]
  OBVIOUS
<1>2. rows \in Seq(1 .. n) /\ Len(rows) = n /\ r = LoadEach(m, c, rows)
  BY <1>1 DEF LoadWorkspaces
<1>3. PICK h : /\ h[0] = m
               /\ \A k \in 1 .. n : h[k] = LoadOne(h[k - 1], c)
               /\ h[n] = r
  BY <1>2, LoadSteps
<1> DEFINE P(a, k) == Loading(a, m, D, c, k) /\ Cardinality(Fresh(a)) >= n - k
           T == {k \in 0 .. n : P(h[k], k)}
<1>4. \A a : IsFiniteSet(Fresh(a)) /\ Cardinality(Fresh(a)) \in Nat
  <2> SUFFICES ASSUME NEW a PROVE IsFiniteSet(Fresh(a))
    BY FS_CardinalityType
  <2>1. Fresh(a) \subseteq Ids /\ IsFiniteSet(Ids)
    BY WorkspacesAssumption DEF Fresh
  <2> QED
    BY <2>1, FS_Subset
<1>5. 0 \in T
  BY <1>3
<1>6. ASSUME NEW k \in 0 .. n - 1, k \in T PROVE k + 1 \in T
  <2>1. PICK a : a = h[k]
    OBVIOUS
  <2>2. PICK b : b = h[k + 1]
    OBVIOUS
  <2>3. Loading(a, m, D, c, k) /\ Cardinality(Fresh(a)) >= n - k
    BY <1>6, <2>1
  <2>4. b = LoadOne(a, c) /\ k \in Nat /\ k + 1 \in 0 .. n
    <3>1. k + 1 \in 1 .. n /\ (k + 1) - 1 = k
      OBVIOUS
    <3> QED
      BY <1>3, <2>1, <2>2, <3>1
  <2>5. Fresh(a) # {}
    <3>1. Cardinality({}) = 0
      BY FS_EmptySet
    <3>2. Cardinality(Fresh(a)) > 0
      BY <1>4, <2>3
    <3> QED
      BY <3>1, <3>2
  <2>6. Loading(a, a, D, c, k)
    BY <2>3 DEF Loading
  <2>7. Loading(b, a, D, c, k + 1) /\ \E w \in Fresh(a) : Fresh(a) \ {w} \subseteq Fresh(b)
    BY <2>4, <2>5, <2>6, LoadOneIs
  <2>8. Loading(b, m, D, c, k + 1)
    BY <2>3, <2>7 DEF Loading
  <2>9. Cardinality(Fresh(b)) >= n - (k + 1)
    <3>1. PICK w \in Fresh(a) : Fresh(a) \ {w} \subseteq Fresh(b)
      BY <2>7
    <3>2. Cardinality(Fresh(a) \ {w}) = Cardinality(Fresh(a)) - 1
      BY <1>4, <3>1, FS_RemoveElement
    <3>3. Cardinality(Fresh(a) \ {w}) <= Cardinality(Fresh(b))
      BY <1>4, <3>1, FS_Subset
    <3> HIDE DEF P, T
    <3> QED
      BY <1>4, <2>3, <3>2, <3>3
  <2>10. P(b, k + 1)
    BY <2>8, <2>9
  <2> HIDE DEF P
  <2> QED
    BY <2>2, <2>4, <2>10
<1>7. P(r, n)
  <2> HIDE DEF P
  <2>1. \A k \in 0 .. n : k \in T
    <3> HIDE DEF T
    <3> QED
      BY <1>5, <1>6, UpTo
  <2>2. n \in 0 .. n
    OBVIOUS
  <2>3. n \in T
    BY <2>1, <2>2
  <2> QED
    BY <1>3, <2>3
<1> QED
  BY <1>7

(***************************************************************************)
(* What holds between two events.  x is the workspace that is dragged: it  *)
(* may be in no list of the spread, or in that of another screen.          *)
(***************************************************************************)
EditWhole(m, x, c) ==
  /\ OnceUnlessGone(EditOf(m, c)) /\ Gone \notin Range(EditOf(m, c))
  /\ Range(EditOf(m, c)) \ {x} \subseteq Range(m.list[c])
  /\ Range(EditOf(m, c)) \ {x} # {}
OnOneEdit(m, x) ==
  \A c, d \in Range(m.plugged) : x \in Range(EditOf(m, c)) \cap Range(EditOf(m, d)) => c = d
EditsWhole(m, x) == (\A c \in Range(m.plugged) : EditWhole(m, x, c)) /\ OnOneEdit(m, x)
NoLimbo(m) == \A c \in Screens : m.limbo[c] = {}

Consistent(m, D) ==
  Well(m, D) /\ ActiveShown(m, D) /\ ~m.crashed /\ AllHeld(m) /\ EditsKnown(m) /\ NoLimbo(m)

\* Screens out of the model have no proxies, nor workspaces once deleted.
PluggedWell(m, D) ==
  /\ IsInjective(m.plugged) /\ D \subseteq Screens /\ Range(m.plugged) \cap D = {}
  /\ \A c \in Screens \ Range(m.plugged) :
       EditOf(m, c) = <<>> /\ (c \in D \/ m.list[c] = <<>>)
HeldIsShown(m, x) == x = Null \/ \E c \in Range(m.plugged) : x \in Range(m.list[c])

AtRest(m, D, x) ==
  /\ Consistent(m, D) /\ PluggedWell(m, D) /\ EditsWhole(m, x) /\ HeldIsShown(m, x)
  /\ m.plugged # <<>>

WorkspacesInv ==
  wm.crashed \/ (AtRest(wm, dying, held) /\ saved \in [Screens -> Nat \ {0}])

(* A screen is plugged in.                                                 *)
LEMMA PluggedIs ==
  ASSUME NEW m, NEW D, NEW x, NEW c \in Screens \ (D \cup Range(m.plugged)),
         PluggedWell(m, D), EditsWhole(m, x), HeldIsShown(m, x), NoLimbo(m), ~m.crashed,
         Loading(m, m, D, c, 0), NEW n \in Nat \ {0}, Cardinality(Fresh(m)) >= n,
         NEW r, r = Plugged(m, c, n)
  PROVE  AtRest(r, D, x)
<1>1. PICK a : a = LoadWorkspaces(m, c, n)
  OBVIOUS
<1>2. D \subseteq Screens /\ c \notin D /\ c \notin Range(m.plugged)
  BY DEF PluggedWell
<1>3. Loading(a, m, D, c, n)
  BY <1>1, <1>2, LoadIs
<1>4. Well(a, D) /\ a \in WmStates /\ m.plugged \in Seq(Screens) /\ Range(m.plugged) \subseteq Screens
  <2>1. Well(a, D) /\ a \in WmStates
    BY <1>3 DEF Loading, Well, Neat
  <2>2. m.plugged \in Seq(Screens)
    BY DEF Loading, Well, Neat, WmStates
  <2> QED
    BY <2>1, <2>2, RangeIs
<1>5. /\ AllHeld(a) /\ EditsKnown(a) /\ a.crashed = m.crashed /\ a.plugged = m.plugged
      /\ a.proxy["edit"] = m.proxy["edit"] /\ \A d \in Screens : a.limbo[d] \subseteq m.limbo[d]
      /\ \A d \in Screens \ {c} : a.list[d] = m.list[d]
      /\ a.list[c] # <<>> /\ (a.all = {} \/ ActiveShown(a, D))
  BY <1>3 DEF Loading
<1>6. PICK p : p = [k \in Proxies |-> [a.proxy[k] EXCEPT ![c] = a.list[c]]]
  OBVIOUS
<1>7. r = [a EXCEPT !.plugged = Append(a.plugged, c), !.proxy = p]
  BY <1>1, <1>6 DEF Plugged
<1>8. /\ a.list[c] \in Seq(Ids) /\ a.proxy \in [Proxies -> [Screens -> Seq(Ids \cup {Gone})]]
      /\ Range(a.list[c]) \subseteq Ids /\ Range(a.list[c]) # {}
  <2>1. a.list[c] \in Seq(Ids) /\ a.proxy \in [Proxies -> [Screens -> Seq(Ids \cup {Gone})]]
    BY <1>4 DEF WmStates
  <2>2. PICK s : s = a.list[c]
    OBVIOUS
  <2>3. s \in Seq(Ids) /\ s # <<>>
    BY <1>5, <2>1, <2>2
  <2>4. Range(s) \subseteq Ids /\ Range(s) # {}
    BY <2>3, RangeIs
  <2> QED
    BY <2>1, <2>2, <2>4
<1>9. /\ p \in [Proxies -> [Screens -> Seq(Ids \cup {Gone})]]
      /\ \A k \in Proxies : p[k][c] = a.list[c] /\ \A d \in Screens \ {c} : p[k][d] = a.proxy[k][d]
  <2>1. a.list[c] \in Seq(Ids \cup {Gone})
    BY <1>8
  <2> QED
    BY <1>6, <1>8, <2>1
<1>10. /\ r \in WmStates /\ r.list = a.list /\ r.limbo = a.limbo /\ r.current = a.current
       /\ r.active = a.active /\ r.activeScreen = a.activeScreen /\ r.all = a.all
       /\ r.surfaces = a.surfaces /\ r.crashed = a.crashed /\ r.proxy = p
       /\ r.plugged = Append(m.plugged, c)
  <2>1. Append(a.plugged, c) \in Seq(Screens)
    BY <1>4, <1>5
  <2> QED
    BY <1>4, <1>5, <1>7, <1>9, <2>1 DEF WmStates
<1>11. Range(r.plugged) = Range(m.plugged) \cup {c} /\ IsInjective(r.plugged)
  <2>1. PICK s : s = m.plugged
    OBVIOUS
  <2>2. PICK t : t = r.plugged
    OBVIOUS
  <2>3. s \in Seq(Screens) /\ t = Append(s, c) /\ t \in Seq(Screens) /\ IsInjective(s) /\ c \notin Range(s)
    BY <1>2, <1>4, <1>10, <2>1, <2>2 DEF PluggedWell
  <2>4. /\ Len(s) \in Nat /\ Len(t) = Len(s) + 1 /\ t[Len(s) + 1] = c
        /\ \A i \in 1 .. Len(s) : t[i] = s[i]
    BY <2>3
  <2>5. Range(s) = {s[i] : i \in 1 .. Len(s)} /\ Range(t) = {t[i] : i \in 1 .. Len(t)}
        /\ DOMAIN s = 1 .. Len(s) /\ DOMAIN t = 1 .. Len(t)
    <3>1. s \in Seq(Screens)
      BY <2>3
    <3>2. t \in Seq(Screens)
      BY <2>3
    <3>3. Range(s) = {s[i] : i \in 1 .. Len(s)} /\ DOMAIN s = 1 .. Len(s)
      BY <3>1, RangeIs
    <3>4. Range(t) = {t[i] : i \in 1 .. Len(t)} /\ DOMAIN t = 1 .. Len(t)
      BY <3>2, RangeIs
    <3> QED
      BY <3>3, <3>4
  <2>6. \A i \in 1 .. Len(t) : i \in 1 .. Len(s) \/ i = Len(s) + 1
    BY <2>4
  <2>7. Range(t) = Range(s) \cup {c}
    <3>1. 1 .. Len(s) \subseteq 1 .. Len(t) /\ Len(s) + 1 \in 1 .. Len(t)
      BY <2>4
    <3> QED
      BY <2>4, <2>5, <2>6, <3>1
  <2>8. \A i, j \in 1 .. Len(t) : t[i] = t[j] => i = j
    <3>1. \A i, j \in 1 .. Len(s) : s[i] = s[j] => i = j
      BY <2>3, <2>5 DEF IsInjective
    <3>2. \A i \in 1 .. Len(s) : s[i] # c
      BY <2>3, <2>5
    <3> QED
      BY <2>4, <2>6, <3>1, <3>2
  <2> QED
    BY <2>1, <2>2, <2>5, <2>7, <2>8 DEF IsInjective
<1>12. Well(r, D)
  <2>1. PlacedOnce(a) /\ Mirrored(a, D) /\ ShowsOne(a)
    BY <1>4 DEF Well, Neat
  <2>2. PlacedOnce(r) /\ ShowsOne(r)
    <3>1. r.list = a.list /\ r.current = a.current
      BY <1>10
    <3>2. PlacedOnce(r)
      BY <2>1, <3>1 DEF PlacedOnce
    <3>3. ShowsOne(r)
      BY <2>1, <3>1 DEF ShowsOne, ShowsOwn
    <3> QED
      BY <3>2, <3>3
  <2>3. Mirrored(r, D)
    BY <1>2, <1>9, <1>10, <2>1 DEF Mirrored, Proxies
  <2>4. OnScreens(r) = OnScreens(a) /\ InLimbo(r) = InLimbo(a)
    BY <1>10 DEF OnScreens, InLimbo
  <2>5. Known(r)
    BY <1>4, <1>10, <2>4 DEF Well, Known
  <2> QED
    BY <1>10, <2>2, <2>3, <2>5 DEF Well, Neat
<1>13. Range(a.list[c]) \subseteq a.all /\ a.all # {}
  <2>1. OnScreens(a) \subseteq a.all
    BY <1>4 DEF Well, Known
  <2>2. Range(a.list[c]) \subseteq OnScreens(a)
    BY DEF OnScreens
  <2> QED
    BY <1>8, <2>1, <2>2
<1>14. ActiveShown(r, D)
  BY <1>5, <1>10, <1>13 DEF ActiveShown
<1>15. AllHeld(r) /\ NoLimbo(r)
  <2>1. OnScreens(r) = OnScreens(a) /\ InLimbo(r) = InLimbo(a)
    BY <1>10 DEF OnScreens, InLimbo
  <2>2. NoLimbo(r)
    BY <1>5, <1>10 DEF NoLimbo
  <2> QED
    BY <1>5, <1>10, <2>1, <2>2 DEF AllHeld
<1>16. EditOf(r, c) = a.list[c] /\ \A d \in Screens \ {c} : EditOf(r, d) = EditOf(m, d)
  BY <1>5, <1>9, <1>10 DEF EditOf, Proxies
<1>17. EditsKnown(r)
  <2>1. Range(EditOf(r, c)) \subseteq r.all
    BY <1>10, <1>13, <1>16
  <2>2. \A d \in Screens \ {c} : Range(EditOf(r, d)) \subseteq r.all \cup {Gone}
    BY <1>5, <1>10, <1>16 DEF EditsKnown, EditOf
  <2> QED
    BY <2>1, <2>2 DEF EditsKnown
<1>18. x \notin Range(a.list[c])
  <2>1. CASE x = Null
    BY <1>8, <2>1, WorkspacesAssumption
  <2>2. CASE x # Null
    <3>1. PICK d \in Range(m.plugged) : x \in Range(m.list[d])
      BY <2>2 DEF HeldIsShown
    <3>2. d \in Screens \ {c} /\ x \in Range(a.list[d])
      BY <1>2, <1>4, <1>5, <3>1
    <3> QED
      BY <1>4, <3>2 DEF Well, Neat, PlacedOnce
  <2> QED
    BY <2>1, <2>2
<1>19. EditWhole(r, x, c)
  <2>1. OnceUnlessGone(a.list[c])
    <3>1. IsInjective(a.list[c]) /\ DOMAIN a.list[c] = 1 .. Len(a.list[c])
      BY <1>4, <1>8, RangeIs DEF Well, Neat, PlacedOnce
    <3> QED
      BY <3>1 DEF OnceUnlessGone, IsInjective
  <2>2. Gone \notin Range(a.list[c])
    BY <1>8, WorkspacesAssumption
  <2> QED
    BY <1>8, <1>10, <1>16, <1>18, <2>1, <2>2 DEF EditWhole
<1>20. EditsWhole(r, x)
  <2>1. \A d \in Range(m.plugged) : d \in Screens \ {c} /\ EditWhole(m, x, d) /\ r.list[d] = m.list[d]
    BY <1>2, <1>4, <1>5, <1>10 DEF EditsWhole
  <2>2. \A d \in Range(m.plugged) : EditWhole(r, x, d)
    BY <1>16, <2>1 DEF EditWhole
  <2>3. OnOneEdit(r, x)
    BY <1>11, <1>16, <1>18, <2>1 DEF OnOneEdit, EditsWhole
  <2> QED
    BY <1>11, <1>19, <2>2, <2>3 DEF EditsWhole
<1>21. HeldIsShown(r, x)
  <2>1. \A d \in Range(m.plugged) : r.list[d] = m.list[d] /\ d \in Range(r.plugged)
    BY <1>2, <1>4, <1>5, <1>10, <1>11
  <2> QED
    BY <2>1 DEF HeldIsShown
<1>22. PluggedWell(r, D) /\ r.plugged # <<>>
  <2>1. \A d \in Screens \ Range(r.plugged) :
          EditOf(r, d) = <<>> /\ (d \in D \/ r.list[d] = <<>>)
    BY <1>5, <1>10, <1>11, <1>16 DEF PluggedWell
  <2>2. r.plugged # <<>>
    BY <1>4, <1>10
  <2>3. D \subseteq Screens /\ Range(r.plugged) \cap D = {}
    BY <1>2, <1>11 DEF PluggedWell
  <2> QED
    BY <1>11, <2>1, <2>2, <2>3 DEF PluggedWell
<1>23. Consistent(r, D)
  BY <1>5, <1>10, <1>12, <1>14, <1>15, <1>17 DEF Consistent
<1> QED
  BY <1>20, <1>21, <1>22, <1>23 DEF AtRest
(***************************************************************************)
(* A screen that went is deleted with its workspaces.                      *)
(***************************************************************************)
\* a is m when some of the workspaces of c are destroyed.
Leaving(a, m, D, c) ==
  /\ Well(a, D) /\ ActiveShown(a, D) /\ a.all \subseteq OnScreens(a)
  /\ a.plugged = m.plugged /\ a.crashed = m.crashed /\ NoneNew(a, m)
  /\ \A d \in Screens \ {c} :
       a.list[d] = m.list[d] /\ a.limbo[d] \subseteq m.limbo[d] /\ EditOf(a, d) = EditOf(m, d)
  /\ Range(a.list[c]) \subseteq Range(m.list[c])

\* b is a without the workspace w of c.
Lost(b, a, c, w) ==
  /\ b.all = a.all \ {w} /\ b.plugged = a.plugged /\ b.crashed = a.crashed /\ NoneNew(b, a)
  /\ \A d \in Screens \ {c} :
       b.list[d] = a.list[d] /\ b.limbo[d] \subseteq a.limbo[d] /\ EditOf(b, d) = EditOf(a, d)
  /\ \A d \in Screens : Range(b.list[d]) = Range(a.list[d]) \ {w}
  /\ a.active # w => b.active = a.active /\ b.activeScreen = a.activeScreen
  /\ a.active = w =>
       /\ b.active \in a.all \ {w}
       /\ \A d \in Range(a.plugged) : b.active \in Range(b.list[d]) => b.activeScreen = d

(* The workspaces of a screen that went are known to no proxy, and another *)
(* screen has some.                                                        *)
LEMMA OthersRemain ==
  ASSUME NEW m, NEW D, NEW x, AtRest(m, D, x), NEW c \in D, NEW w \in Range(m.list[c]),
         NEW a, Leaving(a, m, D, c)
  PROVE  /\ c \in Screens /\ w \in Ids /\ OnScreens(a) \ {w} # {}
         /\ \A d \in Screens \ {c} : w \notin Range(a.list[d]) /\ w \notin Range(EditOf(a, d))
<1>0. /\ Consistent(m, D) /\ PluggedWell(m, D) /\ EditsWhole(m, x) /\ HeldIsShown(m, x)
      /\ m.plugged # <<>>
  BY DEF AtRest
<1>1. m \in WmStates /\ PlacedOnce(m) /\ c \in Screens
  BY <1>0 DEF Consistent, Well, Neat, PluggedWell
<1>2. w \in Ids
  BY <1>1, StateIs
<1>3. m.plugged \in Seq(Screens)
  BY <1>1 DEF WmStates
<1>4. PICK p \in Range(m.plugged) : p \in Screens \ {c}
  <2>1. Range(m.plugged) # {} /\ Range(m.plugged) \subseteq Screens
    BY <1>0, <1>3, RangeIs
  <2> QED
    BY <1>0, <2>1 DEF PluggedWell
<1>5. PICK v : v \in Range(m.list[p])
  BY <1>0 DEF EditsWhole, EditWhole
<1>6. \A d \in Screens \ {c} : w \notin Range(m.list[d])
  BY <1>1 DEF PlacedOnce
<1>7. OnScreens(a) \ {w} # {}
  <2>1. v \in Range(a.list[p])
    BY <1>4, <1>5 DEF Leaving
  <2>2. v # w
    BY <1>4, <1>5, <1>6
  <2> QED
    BY <1>4, <2>1, <2>2 DEF OnScreens
<1>8. w # x
  <2>1. w # Null
    BY <1>2, WorkspacesAssumption
  <2>2. Range(m.plugged) \subseteq Screens \ {c}
    <3>1. Range(m.plugged) \subseteq Screens
      BY <1>3, RangeIs
    <3> QED
      BY <1>0, <3>1 DEF PluggedWell
  <2> QED
    BY <1>0, <1>6, <2>1, <2>2 DEF HeldIsShown
<1>9. \A d \in Screens \ {c} : w \notin Range(EditOf(m, d))
  <2> SUFFICES ASSUME NEW d \in Screens \ {c} PROVE w \notin Range(EditOf(m, d))
    OBVIOUS
  <2>1. CASE d \in Range(m.plugged)
    BY <1>0, <1>6, <1>8, <2>1 DEF EditsWhole, EditWhole
  <2>2. CASE d \notin Range(m.plugged)
    <3>1. EditOf(m, d) = <<>>
      BY <1>0, <2>2 DEF PluggedWell
    <3>2. Range(<<>>) = {}
      BY EmptyRange
    <3> QED
      BY <3>1, <3>2
  <2> QED
    BY <2>1, <2>2
<1>10. \A d \in Screens \ {c} : a.list[d] = m.list[d] /\ EditOf(a, d) = EditOf(m, d)
  BY DEF Leaving
<1>11. \A d \in Screens \ {c} : w \notin Range(a.list[d]) /\ w \notin Range(EditOf(a, d))
  BY <1>6, <1>9, <1>10
<1> QED
  BY <1>1, <1>2, <1>7, <1>11

(* Destroying a workspace of a screen that went.                           *)
LEMMA DestroyedIsLost ==
  ASSUME NEW m, NEW D, NEW x, AtRest(m, D, x), NEW c \in D, NEW w \in Range(m.list[c]),
         NEW a, Leaving(a, m, D, c), NEW any, NEW b, b = DestroyWorkspace(a, w, any)
  PROVE  Well(b, D) /\ Lost(b, a, c, w)
<1>1. /\ c \in Screens /\ w \in Ids /\ OnScreens(a) \ {w} # {}
      /\ \A d \in Screens \ {c} : w \notin Range(a.list[d]) /\ w \notin Range(EditOf(a, d))
  BY OthersRemain
<1>2. Well(a, D)
  BY DEF Leaving
<1>3. Well(b, D) /\ Destroyed(b, a, w)
  BY <1>1, <1>2, DestroyIs
<1>4. Lost(b, a, c, w)
  BY <1>1, <1>3 DEF Destroyed, Lost, EditOf
<1> QED
  BY <1>3, <1>4

(* Deleting a workspace of a screen that went.                             *)
LEMMA DeletedIsLost ==
  ASSUME NEW m, NEW D, NEW x, AtRest(m, D, x), NEW c \in D, NEW w \in Range(m.list[c]),
         NEW a, Leaving(a, m, D, c), NEW any, NEW b, b = Delete(a, w, any)
  PROVE  Well(b, D) /\ Lost(b, a, c, w)
<1>1. /\ c \in Screens /\ w \in Ids /\ OnScreens(a) \ {w} # {}
      /\ \A d \in Screens \ {c} : w \notin Range(a.list[d]) /\ w \notin Range(EditOf(a, d))
  BY OthersRemain
<1>2. Well(a, D) /\ a \in WmStates
  BY DEF Leaving, Well, Neat
<1>3. Well(b, D) /\ Deleted(b, a, w)
  BY <1>1, <1>2, DeleteIs
<1>4. \A d \in Screens \ {c} : Forget(EditOf(a, d), w) = EditOf(a, d)
  <2> SUFFICES ASSUME NEW d \in Screens \ {c} PROVE Forget(EditOf(a, d), w) = EditOf(a, d)
    OBVIOUS
  <2>1. PICK s : s = EditOf(a, d)
    OBVIOUS
  <2>2. s \in Seq(Ids \cup {Gone}) /\ w \notin Range(s)
    BY <1>1, <1>2, <2>1, StateIs DEF EditOf
  <2>3. Forget(s, w) = s
    BY <2>2, ForgetIs
  <2> QED
    BY <2>1, <2>3
<1>5. Lost(b, a, c, w)
  BY <1>1, <1>3, <1>4 DEF Deleted, Lost, EditOf
<1> QED
  BY <1>3, <1>5

(* The screen is still leaving.                                            *)
LEMMA LeavingOn ==
  ASSUME NEW m, NEW D, NEW x, AtRest(m, D, x), NEW c \in D, NEW w \in Range(m.list[c]),
         NEW a, Leaving(a, m, D, c), NEW b, Well(b, D), Lost(b, a, c, w)
  PROVE  Leaving(b, m, D, c)
<1>1. /\ Well(a, D) /\ ActiveShown(a, D) /\ a.all \subseteq OnScreens(a)
      /\ a.plugged = m.plugged /\ a.crashed = m.crashed /\ NoneNew(a, m)
      /\ \A d \in Screens \ {c} :
           a.list[d] = m.list[d] /\ a.limbo[d] \subseteq m.limbo[d] /\ EditOf(a, d) = EditOf(m, d)
      /\ Range(a.list[c]) \subseteq Range(m.list[c])
  BY DEF Leaving
<1>2. c \in Screens /\ D \subseteq Screens
      /\ \A d \in Screens : d \in Range(m.plugged) \/ d \in D \/ m.list[d] = <<>>
  BY DEF AtRest, PluggedWell
<1>3. /\ b.all = a.all \ {w} /\ b.plugged = a.plugged /\ b.crashed = a.crashed /\ NoneNew(b, a)
      /\ \A d \in Screens \ {c} :
           b.list[d] = a.list[d] /\ b.limbo[d] \subseteq a.limbo[d] /\ EditOf(b, d) = EditOf(a, d)
      /\ \A d \in Screens : Range(b.list[d]) = Range(a.list[d]) \ {w}
  BY DEF Lost
<1>4. OnScreens(b) = OnScreens(a) \ {w}
  BY <1>3 DEF OnScreens
<1>5. ActiveShown(b, D)
  <2>1. CASE a.active # w
    <3>1. b.active = a.active /\ b.activeScreen = a.activeScreen
      BY <2>1 DEF Lost
    <3> QED
      BY <1>1, <1>2, <1>3, <2>1, <3>1 DEF ActiveShown
  <2>2. CASE a.active = w
    <3>1. b.active \in a.all \ {w}
          /\ \A d \in Range(a.plugged) : b.active \in Range(b.list[d]) => b.activeScreen = d
      BY <2>2 DEF Lost
    <3>2. PICK d \in Screens : b.active \in Range(b.list[d])
      BY <1>1, <1>4, <3>1 DEF OnScreens
    <3>3. CASE d \in Range(m.plugged)
      BY <1>1, <3>1, <3>2, <3>3 DEF ActiveShown
    <3>4. CASE d \in D
      BY <3>2, <3>4 DEF ActiveShown
    <3>5. CASE d \notin D /\ m.list[d] = <<>>
      <4>1. Range(b.list[d]) \subseteq Range(m.list[d])
        BY <1>1, <1>3, <3>5
      <4>2. Range(<<>>) = {}
        BY EmptyRange
      <4> QED
        BY <3>2, <3>5, <4>1, <4>2
    <3> QED
      BY <1>2, <3>3, <3>4, <3>5
  <2> QED
    BY <2>1, <2>2
<1>6. NoneNew(b, m)
  BY <1>1, <1>3 DEF NoneNew
<1>7. b.all \subseteq OnScreens(b)
  BY <1>1, <1>3, <1>4
<1>8. Range(b.list[c]) \subseteq Range(m.list[c])
  BY <1>1, <1>2, <1>3
<1> QED
  BY <1>1, <1>3, <1>5, <1>6, <1>7, <1>8 DEF Leaving

(* The shell of the screen destroys what it comes to.                      *)
LEMMA ShellIs ==
  ASSUME NEW m, NEW D, NEW x, AtRest(m, D, x), NEW c \in D, NEW any,
         NEW r, r = ShellDestroyed(m, c, any)
  PROVE  Leaving(r, m, D, c)
<1>1. Consistent(m, D) /\ m \in WmStates /\ c \in Screens /\ NoLimbo(m)
  BY DEF AtRest, PluggedWell, Consistent, Well, Neat
<1> DEFINE n == Len(m.list[c])
<1>2. n \in Nat
  BY <1>1, StateIs, RangeIs
<1> HIDE DEF n
<1>3. PICK rows : rows = [i \in 1 .. n |-> i]
  OBVIOUS
<1>4. rows \in Seq(1 .. n) /\ Len(rows) = n /\ r = DestroyEach(m, c, rows, any)
  BY <1>2, <1>3 DEF ShellDestroyed, n
<1>5. PICK h : /\ h[0] = m
               /\ \A k \in 1 .. n : h[k] = DestroyAt(h[k - 1], c, rows[k], any)
               /\ h[n] = r
  <2>1. \E h : /\ h[0] = m
               /\ \A k \in 1 .. Len(rows) : h[k] = DestroyAt(h[k - 1], c, rows[k], any)
               /\ h[Len(rows)] = DestroyEach(m, c, rows, any)
    BY <1>4, DestroySteps
  <2> QED
    BY <1>4, <2>1
<1> DEFINE T == {k \in 0 .. n : Leaving(h[k], m, D, c)}
<1>6. 0 \in T
  <2>1. Leaving(m, m, D, c)
    <3>1. m.all \subseteq OnScreens(m)
      <4>1. InLimbo(m) = {}
        BY <1>1 DEF InLimbo, NoLimbo
      <4> QED
        BY <1>1, <4>1 DEF Consistent, AllHeld
    <3> QED
      BY <1>1, <3>1 DEF Leaving, Consistent, NoneNew
  <2> QED
    BY <1>2, <1>5, <2>1
<1>7. ASSUME NEW k \in 0 .. n - 1, k \in T PROVE k + 1 \in T
  <2>1. PICK a : a = h[k]
    OBVIOUS
  <2>2. PICK b : b = h[k + 1]
    OBVIOUS
  <2>3. PICK i : i = k + 1
    OBVIOUS
  <2>4. i \in 1 .. n /\ i - 1 = k /\ rows[i] = i /\ i \in 0 .. n /\ i \in Nat
    BY <1>2, <1>3, <2>3
  <2>5. b = DestroyAt(a, c, i, any)
    BY <1>5, <2>1, <2>2, <2>3, <2>4
  <2>6. Leaving(a, m, D, c)
    BY <1>7, <2>1
  <2>7. Leaving(b, m, D, c)
    <3>1. CASE i > Len(a.list[c])
      BY <2>5, <2>6, <3>1 DEF DestroyAt
    <3>2. CASE ~(i > Len(a.list[c]))
      <4>1. PICK w : w = a.list[c][i]
        OBVIOUS
      <4>2. w \in Range(m.list[c])
        <5>1. PICK s : s = a.list[c]
          OBVIOUS
        <5>2. s \in Seq(Ids) /\ Range(s) \subseteq Range(m.list[c])
          <6>1. a \in WmStates
            BY <2>6 DEF Leaving, Well, Neat
          <6> QED
            BY <1>1, <2>6, <5>1, <6>1, StateIs DEF Leaving
        <5>3. Len(s) \in Nat /\ Range(s) = {s[j] : j \in 1 .. Len(s)}
          BY <5>2, RangeIs
        <5>4. i \in 1 .. Len(s)
          BY <2>4, <3>2, <5>1, <5>3
        <5> QED
          BY <4>1, <5>1, <5>2, <5>3, <5>4
      <4>3. b = DestroyWorkspace(a, w, any)
        BY <2>5, <3>2, <4>1 DEF DestroyAt
      <4>4. Well(b, D) /\ Lost(b, a, c, w)
        BY <2>6, <4>2, <4>3, DestroyedIsLost
      <4> QED
        BY <2>6, <4>2, <4>4, LeavingOn
    <3> QED
      BY <3>1, <3>2
  <2> QED
    BY <2>2, <2>3, <2>4, <2>7
<1> QED
  <2>1. \A k \in 0 .. n : k \in T
    <3> HIDE DEF T
    <3> QED
      BY <1>2, <1>6, <1>7, UpTo
  <2>2. n \in 0 .. n
    BY <1>2
  <2>3. n \in T
    BY <2>1, <2>2
  <2> QED
    BY <1>5, <2>3
(* The model of the screen deletes the others.                             *)
LEMMA RestIs ==
  ASSUME NEW m, NEW D, NEW x, AtRest(m, D, x), NEW c \in D, NEW a, Leaving(a, m, D, c), NEW any,
         NEW l, l = a.list[c], NEW r, r = DeleteEach(a, l, any)
  PROVE  Leaving(r, m, D, c) /\ r.list[c] = <<>>
<1>1. c \in Screens
  BY DEF AtRest, PluggedWell
<1>2. l \in Seq(Ids) /\ Range(l) \subseteq Range(m.list[c])
  BY <1>1, StateIs DEF Leaving, Well, Neat
<1> DEFINE n == Len(l)
           Done(k) == {l[j] : j \in 1 .. k}
<1>3. n \in Nat /\ Range(l) = Done(n)
  BY <1>2, RangeIs
<1>4. PICK h : /\ h[0] = a
               /\ \A k \in 1 .. n : h[k] = Delete(h[k - 1], l[k], any)
               /\ h[n] = r
  BY <1>2, DeleteSteps
<1> DEFINE P(b, k) == Leaving(b, m, D, c) /\ Range(b.list[c]) = Range(l) \ Done(k)
           T == {k \in 0 .. n : P(h[k], k)}
<1>5. 0 \in T
  <2>1. Done(0) = {}
    OBVIOUS
  <2> HIDE DEF Done
  <2>2. P(a, 0)
    BY <2>1
  <2> HIDE DEF P
  <2> QED
    BY <1>3, <1>4, <2>2
<1>6. ASSUME NEW k \in 0 .. n - 1, k \in T PROVE k + 1 \in T
  <2>1. PICK b : b = h[k]
    OBVIOUS
  <2>2. PICK d : d = h[k + 1]
    OBVIOUS
  <2>3. PICK i : i = k + 1
    OBVIOUS
  <2>4. i \in 1 .. n /\ i - 1 = k /\ k \in Nat /\ i \in 0 .. n
    BY <1>3, <2>3
  <2>5. PICK w : w = l[i]
    OBVIOUS
  <2>6. d = Delete(b, w, any)
    BY <1>4, <2>1, <2>2, <2>3, <2>4, <2>5
  <2>7. Leaving(b, m, D, c) /\ Range(b.list[c]) = Range(l) \ Done(k)
    BY <1>6, <2>1
  <2>8. Done(i) = Done(k) \cup {w}
    <3>1. \A j : j \in 1 .. i <=> j \in 1 .. k \/ j = i
      BY <2>3, <2>4
    <3> QED
      BY <2>5, <3>1
  <2>9. w \in Range(m.list[c])
    BY <1>2, <1>3, <2>4, <2>5
  <2> HIDE DEF P, T, Done
  <2>10. Well(d, D) /\ Lost(d, b, c, w)
    BY <2>6, <2>7, <2>9, DeletedIsLost
  <2>11. Leaving(d, m, D, c)
    BY <2>7, <2>9, <2>10, LeavingOn
  <2>12. Range(d.list[c]) = Range(l) \ Done(i)
    BY <1>1, <2>7, <2>8, <2>10 DEF Lost
  <2> QED
    BY <2>2, <2>3, <2>4, <2>11, <2>12 DEF P, T
<1>7. P(r, n)
  <2> HIDE DEF P
  <2>1. \A k \in 0 .. n : k \in T
    <3> HIDE DEF T
    <3> QED
      BY <1>3, <1>5, <1>6, UpTo
  <2>2. n \in 0 .. n
    BY <1>3
  <2>3. n \in T
    BY <2>1, <2>2
  <2> QED
    BY <1>4, <2>3
<1>8. Leaving(r, m, D, c) /\ Range(r.list[c]) = {}
  <2> HIDE DEF Done
  <2> QED
    BY <1>3, <1>7
<1>9. r.list[c] = <<>>
  <2>1. PICK s : s = r.list[c]
    OBVIOUS
  <2>2. s \in Seq(Ids) /\ Range(s) = {}
    BY <1>1, <1>8, <2>1, StateIs DEF Leaving, Well, Neat
  <2>3. s = <<>>
    BY <2>2, RangeIs
  <2> QED
    BY <2>1, <2>3
<1> QED
  BY <1>8, <1>9

(* What is at rest but for one screen that is deleted.                     *)
LEMMA DeletionIs ==
  ASSUME NEW m, NEW D, NEW x, AtRest(m, D, x), NEW c \in D, NEW a, Leaving(a, m, D, c),
         a.list[c] = <<>>, NEW r, r = [a EXCEPT !.limbo[c] = {}, !.current[c] = Null]
  PROVE  AtRest(r, D \ {c}, x)
<1>0. /\ Consistent(m, D) /\ PluggedWell(m, D) /\ EditsWhole(m, x) /\ HeldIsShown(m, x)
      /\ m.plugged # <<>>
  BY DEF AtRest
<1>1. c \in Screens /\ D \subseteq Screens /\ c \notin Range(m.plugged)
  BY <1>0 DEF PluggedWell
<1>2. /\ Well(a, D) /\ ActiveShown(a, D) /\ a.all \subseteq OnScreens(a)
      /\ a.plugged = m.plugged /\ a.crashed = m.crashed /\ NoneNew(a, m)
      /\ \A d \in Screens \ {c} :
           a.list[d] = m.list[d] /\ a.limbo[d] \subseteq m.limbo[d] /\ EditOf(a, d) = EditOf(m, d)
  BY DEF Leaving
<1>3. a \in WmStates /\ PlacedOnce(a) /\ Mirrored(a, D) /\ ShowsOne(a) /\ ShowsOwn(a)
  BY <1>2 DEF Well, Neat, ShowsOne
<1>4. /\ r \in WmStates /\ r.list = a.list /\ r.limbo = [a.limbo EXCEPT ![c] = {}]
      /\ r.current = [a.current EXCEPT ![c] = Null] /\ r.proxy = a.proxy /\ r.all = a.all
      /\ r.active = a.active /\ r.activeScreen = a.activeScreen /\ r.plugged = a.plugged
      /\ r.surfaces = a.surfaces /\ r.crashed = a.crashed
  BY <1>1, <1>3 DEF WmStates
<1>5. /\ r.limbo[c] = {} /\ r.current[c] = Null
      /\ \A d \in Screens \ {c} : r.limbo[d] = a.limbo[d] /\ r.current[d] = a.current[d]
  <2>1. a.limbo \in [Screens -> SUBSET Ids] /\ a.current \in [Screens -> Ids \cup {Null}]
    BY <1>3 DEF WmStates
  <2> QED
    BY <1>1, <1>4, <2>1
<1>6. NoLimbo(r)
  <2>1. NoLimbo(m)
    BY <1>0 DEF Consistent
  <2> QED
    BY <1>2, <1>5, <2>1 DEF NoLimbo
<1>7. OnScreens(r) = OnScreens(a) /\ InLimbo(r) = {}
  BY <1>4, <1>6 DEF OnScreens, InLimbo, NoLimbo
<1>8. Well(r, D \ {c})
  <2>1. PlacedOnce(r)
    BY <1>3, <1>4 DEF PlacedOnce
  <2>2. ShowsOne(r)
    BY <1>3, <1>4, <1>5 DEF ShowsOne, ShowsOwn
  <2>3. Mirrored(r, D \ {c})
    BY <1>1, <1>3, <1>4 DEF Mirrored
  <2>4. Known(r)
    BY <1>2, <1>4, <1>7 DEF Well, Known
  <2> QED
    BY <1>4, <2>1, <2>2, <2>3, <2>4 DEF Well, Neat
<1>9. ActiveShown(r, D \ {c})
  <2>1. Range(<<>>) = {}
    BY EmptyRange
  <2> QED
    BY <1>2, <1>4, <2>1 DEF ActiveShown
<1>10. AllHeld(r)
  BY <1>2, <1>4, <1>7 DEF AllHeld
<1>11. EditOf(r, c) = <<>> /\ \A d \in Screens \ {c} : EditOf(r, d) = EditOf(m, d)
  <2>1. EditOf(m, c) = <<>>
    BY <1>0, <1>1 DEF PluggedWell
  <2> QED
    BY <1>1, <1>2, <1>4, <2>1 DEF EditOf, NoneNew
<1>12. Range(m.plugged) \subseteq Screens \ {c}
  <2>1. m.plugged \in Seq(Screens)
    BY <1>0 DEF Consistent, Well, Neat, WmStates
  <2>2. Range(m.plugged) \subseteq Screens
    BY <2>1, RangeIs
  <2> QED
    BY <1>1, <2>2
<1>13. EditsWhole(r, x) /\ HeldIsShown(r, x)
  <2>1. \A d \in Range(m.plugged) : EditOf(r, d) = EditOf(m, d) /\ r.list[d] = m.list[d]
    BY <1>2, <1>4, <1>11, <1>12
  <2>2. r.plugged = m.plugged
    BY <1>2, <1>4
  <2>3. EditsWhole(r, x)
    BY <1>0, <2>1, <2>2 DEF EditsWhole, EditWhole, OnOneEdit
  <2>4. HeldIsShown(r, x)
    BY <1>0, <2>1, <2>2 DEF HeldIsShown
  <2> QED
    BY <2>3, <2>4
<1>14. EditsKnown(r)
  <2> SUFFICES ASSUME NEW d \in Screens PROVE Range(EditOf(r, d)) \subseteq r.all \cup {Gone}
    BY DEF EditsKnown
  <2>1. CASE d \in Range(m.plugged)
    <3>1. \A e \in Range(m.plugged) : Range(m.list[e]) \subseteq OnScreens(a)
      BY <1>2, <1>12 DEF OnScreens
    <3>2. OnScreens(a) \subseteq r.all
      BY <1>2, <1>4 DEF Well, Known
    <3>3. Range(EditOf(r, d)) \ {x} \subseteq Range(m.list[d])
      BY <1>0, <1>11, <1>12, <2>1 DEF EditsWhole, EditWhole
    <3>4. x = Null \/ x \in r.all
      BY <1>0, <3>1, <3>2 DEF HeldIsShown
    <3>5. Null \notin Range(EditOf(r, d))
      <4>1. PICK s : s = EditOf(r, d)
        OBVIOUS
      <4>2. s \in Seq(Ids \cup {Gone})
        BY <1>4, <4>1, StateIs DEF EditOf
      <4>3. Range(s) \subseteq Ids \cup {Gone}
        BY <4>2, RangeIs
      <4> QED
        BY <4>1, <4>3, WorkspacesAssumption
    <3> QED
      BY <2>1, <3>1, <3>2, <3>3, <3>4, <3>5
  <2>2. CASE d \notin Range(m.plugged)
    <3>1. EditOf(r, d) = <<>>
      BY <1>0, <1>11, <2>2 DEF PluggedWell
    <3>2. Range(<<>>) = {}
      BY EmptyRange
    <3> QED
      BY <3>1, <3>2
  <2> QED
    BY <2>1, <2>2
<1>15. PluggedWell(r, D \ {c})
  <2>1. \A d \in Screens \ Range(m.plugged) :
          EditOf(r, d) = <<>> /\ (d \in D \ {c} \/ r.list[d] = <<>>)
    BY <1>0, <1>2, <1>4, <1>11 DEF PluggedWell
  <2> QED
    BY <1>0, <1>2, <1>4, <2>1 DEF PluggedWell
<1>16. ~r.crashed
  BY <1>0, <1>2, <1>4 DEF Consistent
<1> QED
  BY <1>0, <1>2, <1>4, <1>6, <1>8, <1>9, <1>10, <1>13, <1>14, <1>15, <1>16 DEF AtRest, Consistent

(* No workspace that is dragged is on a screen that goes.                  *)
LEMMA HeldStays ==
  ASSUME NEW m, NEW D, NEW x, AtRest(m, D, x), NEW c \in D
  PROVE  x \notin Range(m.list[c])
<1>1. Well(m, D) /\ m \in WmStates /\ PlacedOnce(m) /\ c \in Screens /\ HeldIsShown(m, x)
      /\ Range(m.plugged) \cap D = {}
  BY DEF AtRest, Consistent, Well, Neat, PluggedWell
<1>2. CASE x = Null
  BY <1>1, <1>2, StateIs, WorkspacesAssumption
<1>3. CASE x # Null
  <2>1. PICK d \in Range(m.plugged) : x \in Range(m.list[d])
    BY <1>1, <1>3 DEF HeldIsShown
  <2>2. m.plugged \in Seq(Screens)
    BY <1>1 DEF WmStates
  <2>3. d \in Screens /\ d # c
    BY <1>1, <2>2, RangeIs
  <2> QED
    BY <1>1, <2>1, <2>3 DEF PlacedOnce
<1> QED
  BY <1>2, <1>3
(***************************************************************************)
(* What the other events do to what is at rest.                            *)
(***************************************************************************)
(* Activating keeps it at rest.                                            *)
LEMMA StillAtRest ==
  ASSUME NEW m, NEW D, NEW x, AtRest(m, D, x), NEW r, Well(r, D), Still(r, m), ActiveShown(r, D)
  PROVE  AtRest(r, D, x)
<1>1. /\ r.list = m.list /\ r.limbo = m.limbo /\ r.all = m.all /\ r.plugged = m.plugged
      /\ r.proxy = m.proxy /\ r.crashed = m.crashed
  BY DEF Still
<1>2. Consistent(m, D) /\ PluggedWell(m, D) /\ EditsWhole(m, x) /\ HeldIsShown(m, x) /\ m.plugged # <<>>
  BY DEF AtRest
<1>3. OnScreens(r) = OnScreens(m) /\ InLimbo(r) = InLimbo(m) /\ \A d : EditOf(r, d) = EditOf(m, d)
  BY <1>1 DEF OnScreens, InLimbo, EditOf
<1>4. Consistent(r, D)
  BY <1>1, <1>2, <1>3 DEF Consistent, AllHeld, EditsKnown, NoLimbo
<1>5. PluggedWell(r, D) /\ HeldIsShown(r, x)
  BY <1>1, <1>2, <1>3 DEF PluggedWell, HeldIsShown
<1>6. EditsWhole(r, x)
  BY <1>1, <1>2, <1>3 DEF EditsWhole, EditWhole, OnOneEdit
<1> QED
  BY <1>1, <1>2, <1>4, <1>5, <1>6 DEF AtRest

(* What a screen in the model has.                                         *)
LEMMA PluggedHas ==
  ASSUME NEW m, NEW D, NEW x, AtRest(m, D, x), NEW c \in Range(m.plugged)
  PROVE  /\ c \in Screens \ D /\ m.list[c] # <<>> /\ m.current[c] \in Range(m.list[c])
         /\ m.current[c] # Null /\ m.proxy["mirror"][c] = m.list[c]
         /\ Range(m.list[c]) \subseteq m.all
<1>1. /\ Well(m, D) /\ m \in WmStates /\ Mirrored(m, D) /\ ShowsOne(m) /\ PluggedWell(m, D)
      /\ EditsWhole(m, x) /\ OnScreens(m) \subseteq m.all
  BY DEF AtRest, Consistent, Well, Neat, Known
<1>2. m.plugged \in Seq(Screens)
  BY <1>1 DEF WmStates
<1>3. c \in Screens \ D
  <2>1. Range(m.plugged) \subseteq Screens
    BY <1>2, RangeIs
  <2> QED
    BY <1>1, <2>1 DEF PluggedWell
<1>4. m.list[c] # <<>>
  <2>1. Range(m.list[c]) # {}
    BY <1>1 DEF EditsWhole, EditWhole
  <2>2. Range(<<>>) = {}
    BY EmptyRange
  <2> QED
    BY <2>1, <2>2
<1>5. m.current[c] \in Range(m.list[c]) /\ m.current[c] # Null
  BY <1>1, <1>3, <1>4 DEF ShowsOne, ShowsOwn
<1>6. m.proxy["mirror"][c] = m.list[c]
  BY <1>1, <1>3 DEF Mirrored
<1>7. Range(m.list[c]) \subseteq m.all
  BY <1>1, <1>3 DEF OnScreens
<1> QED
  BY <1>3, <1>4, <1>5, <1>6, <1>7

(* Another screen becomes the active one.                                  *)
LEMMA ScreenActiveRests ==
  ASSUME NEW m, NEW D, NEW x, AtRest(m, D, x), NEW c \in Range(m.plugged), c # m.activeScreen,
         NEW r, r = ScreenActive(m, c)
  PROVE  AtRest(r, D, x)
<1>1. Well(m, D) /\ m \in WmStates /\ PlacedOnce(m) /\ ShowsOwn(m)
  BY DEF AtRest, Consistent, Well, Neat, ShowsOne
<1>2. /\ c \in Screens \ D /\ m.current[c] # Null /\ Range(m.list[c]) \subseteq m.all
  BY PluggedHas
<1>3. /\ r \in WmStates /\ Still(r, m) /\ ShowsOwn(r) /\ r.activeScreen = c
      /\ \A d \in Screens : m.current[d] # Null => r.current[d] # Null
      /\ r.active \in Range(m.list[c])
  BY <1>1, <1>2, ScreenActiveIs
<1>4. Well(r, D)
  BY <1>1, <1>2, <1>3, StillWell
<1>5. ActiveShown(r, D)
  BY <1>2, <1>3 DEF ActiveShown, Still
<1> QED
  BY <1>3, <1>4, <1>5, StillAtRest

(* Another workspace becomes the active one.                               *)
LEMMA ActivateRests ==
  ASSUME NEW m, NEW D, NEW x, AtRest(m, D, x), NEW c \in Range(m.plugged),
         NEW w \in Range(m.list[c]), w # m.active, NEW r, r = SetActiveWorkspace(m, w)
  PROVE  AtRest(r, D, x)
<1>1. Well(m, D)
  BY DEF AtRest, Consistent
<1>2. c \in Screens /\ w \in m.all
  BY PluggedHas
<1>3. Well(r, D) /\ Still(r, m) /\ r.active = w /\ r.activeScreen = c
  BY <1>1, <1>2, ActivateWell
<1>4. ActiveShown(r, D)
  BY <1>2, <1>3 DEF ActiveShown, Still
<1> QED
  BY <1>3, <1>4, StillAtRest

(* A surface goes to a workspace.                                          *)
LEMMA SurfaceRests ==
  ASSUME NEW m, NEW D, NEW x, AtRest(m, D, x), NEW s \in Surfaces, NEW w \in m.all,
         NEW r, r = [m EXCEPT !.surfaces[s] = w]
  PROVE  AtRest(r, D, x)
<1>1. Consistent(m, D) /\ PluggedWell(m, D) /\ EditsWhole(m, x) /\ HeldIsShown(m, x) /\ m.plugged # <<>>
  BY DEF AtRest
<1>2. Well(m, D) /\ m \in WmStates /\ PlacedOnce(m) /\ Mirrored(m, D) /\ ShowsOne(m)
  BY <1>1 DEF Consistent, Well, Neat
<1>3. /\ r \in WmStates /\ r.list = m.list /\ r.limbo = m.limbo /\ r.all = m.all /\ r.plugged = m.plugged
      /\ r.proxy = m.proxy /\ r.crashed = m.crashed /\ r.active = m.active /\ r.current = m.current
      /\ r.activeScreen = m.activeScreen /\ r.surfaces = [m.surfaces EXCEPT ![s] = w]
  <2>1. m.all \subseteq Ids
    BY <1>2 DEF WmStates
  <2>2. [m.surfaces EXCEPT ![s] = w] \in [Surfaces -> Ids \cup {Null}]
    BY <1>2, <2>1 DEF WmStates
  <2> QED
    BY <1>2, <2>2 DEF WmStates
<1>4. \A y \in Surfaces : r.surfaces[y] \in m.all \cup {Null}
  <2>1. \A y \in Surfaces : m.surfaces[y] \in m.all \cup {Null}
    BY <1>2 DEF Well, Known
  <2>2. m.surfaces \in [Surfaces -> Ids \cup {Null}]
    BY <1>2 DEF WmStates
  <2> QED
    BY <1>3, <2>1, <2>2
<1>5. OnScreens(r) = OnScreens(m) /\ InLimbo(r) = InLimbo(m) /\ \A d : EditOf(r, d) = EditOf(m, d)
  BY <1>3 DEF OnScreens, InLimbo, EditOf
<1>6. Well(r, D)
  <2>1. Neat(r, D)
    BY <1>2, <1>3 DEF Neat, PlacedOnce, Mirrored, ShowsOne, ShowsOwn
  <2>2. Known(r)
    BY <1>2, <1>3, <1>4, <1>5 DEF Well, Known
  <2> QED
    BY <2>1, <2>2 DEF Well
<1>7. Consistent(r, D)
  BY <1>1, <1>3, <1>5, <1>6 DEF Consistent, AllHeld, EditsKnown, NoLimbo, ActiveShown
<1>8. PluggedWell(r, D) /\ HeldIsShown(r, x)
  BY <1>1, <1>3, <1>5 DEF PluggedWell, HeldIsShown
<1>9. EditsWhole(r, x)
  BY <1>1, <1>3, <1>5 DEF EditsWhole, EditWhole, OnOneEdit
<1> QED
  BY <1>1, <1>3, <1>7, <1>8, <1>9 DEF AtRest

(* The spread changes the proxies that it edits.                           *)
LEMMA EditsRest ==
  ASSUME NEW m, NEW D, NEW x, AtRest(m, D, x), NEW e \in [Screens -> Seq(Ids \cup {Gone})],
         NEW r, r = [m EXCEPT !.proxy["edit"] = e], NEW y,
         EditsKnown(r), EditsWhole(r, y), HeldIsShown(m, y),
         \A d \in Screens \ Range(m.plugged) : e[d] = <<>>
  PROVE  AtRest(r, D, y)
<1>1. Consistent(m, D) /\ PluggedWell(m, D) /\ m.plugged # <<>>
  BY DEF AtRest
<1>2. Well(m, D) /\ m \in WmStates /\ PlacedOnce(m) /\ Mirrored(m, D) /\ ShowsOne(m)
  BY <1>1 DEF Consistent, Well, Neat
<1>3. PICK p : p = [m.proxy EXCEPT !["edit"] = e]
  OBVIOUS
<1>4. /\ p \in [Proxies -> [Screens -> Seq(Ids \cup {Gone})]]
      /\ p["mirror"] = m.proxy["mirror"] /\ p["edit"] = e
  <2>1. m.proxy \in [Proxies -> [Screens -> Seq(Ids \cup {Gone})]]
    BY <1>2 DEF WmStates
  <2>2. "mirror" # "edit" /\ "mirror" \in Proxies /\ "edit" \in Proxies
    BY DEF Proxies
  <2> QED
    BY <1>3, <2>1, <2>2
<1>5. r = [m EXCEPT !.proxy = p]
  BY <1>3
<1>6. /\ r \in WmStates /\ r.list = m.list /\ r.limbo = m.limbo /\ r.all = m.all /\ r.plugged = m.plugged
      /\ r.proxy = p /\ r.crashed = m.crashed /\ r.active = m.active /\ r.current = m.current
      /\ r.activeScreen = m.activeScreen /\ r.surfaces = m.surfaces
  BY <1>2, <1>4, <1>5 DEF WmStates
<1>7. OnScreens(r) = OnScreens(m) /\ InLimbo(r) = InLimbo(m)
  BY <1>6 DEF OnScreens, InLimbo
<1>8. Well(r, D)
  <2>1. Neat(r, D)
    <3>1. PlacedOnce(r) /\ ShowsOne(r)
      BY <1>2, <1>6 DEF PlacedOnce, ShowsOne, ShowsOwn
    <3>2. Mirrored(r, D)
      BY <1>2, <1>4, <1>6 DEF Mirrored
    <3> QED
      BY <1>6, <3>1, <3>2 DEF Neat
  <2>2. Known(r)
    BY <1>2, <1>6, <1>7 DEF Well, Known
  <2> QED
    BY <2>1, <2>2 DEF Well
<1>9. Consistent(r, D)
  BY <1>1, <1>6, <1>7, <1>8 DEF Consistent, AllHeld, NoLimbo, ActiveShown
<1>10. PluggedWell(r, D) /\ HeldIsShown(r, y)
  BY <1>1, <1>4, <1>6 DEF PluggedWell, HeldIsShown, EditOf
<1> QED
  BY <1>1, <1>6, <1>9, <1>10 DEF AtRest

(* A row is taken out of the proxies that the spread edits.                *)
Lifted(m, w) == [s \in Screens |-> Without(EditOf(m, s), w)]

LEMMA LiftedIs ==
  ASSUME NEW m, NEW D, NEW x, AtRest(m, D, x), NEW w, NEW e, e = Lifted(m, w)
  PROVE  /\ e \in [Screens -> Seq(Ids \cup {Gone})]
         /\ \A d \in Screens : Range(e[d]) \subseteq Range(EditOf(m, d))
         /\ \A d \in Range(m.plugged) : IsInjective(EditOf(m, d)) /\ IsInjective(e[d])
                                        /\ Range(e[d]) = Range(EditOf(m, d)) \ {w}
         /\ \A d \in Screens \ Range(m.plugged) : e[d] = <<>>
<1>1. m \in WmStates /\ m.plugged \in Seq(Screens) /\ PluggedWell(m, D) /\ EditsWhole(m, x)
  BY DEF AtRest, Consistent, Well, Neat, WmStates
<1>2. \A d \in Screens : EditOf(m, d) \in Seq(Ids \cup {Gone})
  BY <1>1, StateIs DEF EditOf
<1>3. ASSUME NEW d \in Screens
      PROVE  /\ e[d] \in Seq(Ids \cup {Gone}) /\ Range(e[d]) \subseteq Range(EditOf(m, d))
             /\ w \notin Range(EditOf(m, d)) => e[d] = EditOf(m, d)
             /\ IsInjective(EditOf(m, d)) => IsInjective(e[d]) /\ Range(e[d]) = Range(EditOf(m, d)) \ {w}
  <2>1. PICK s : s = EditOf(m, d)
    OBVIOUS
  <2>2. PICK t : t = Without(s, w)
    OBVIOUS
  <2>3. s \in Seq(Ids \cup {Gone})
    BY <1>2, <2>1
  <2>4. /\ t \in Seq(Ids \cup {Gone}) /\ Range(t) \subseteq Range(s)
        /\ w \notin Range(s) => t = s
        /\ IsInjective(s) => IsInjective(t) /\ Range(t) = Range(s) \ {w}
    BY <2>2, <2>3, WithoutRange
  <2>5. e[d] = t
    BY <2>1, <2>2 DEF Lifted
  <2> QED
    BY <2>1, <2>4, <2>5
<1>4. Range(m.plugged) \subseteq Screens
  BY <1>1, RangeIs
<1>5. \A d \in Range(m.plugged) : IsInjective(EditOf(m, d))
  <2> SUFFICES ASSUME NEW d \in Range(m.plugged) PROVE IsInjective(EditOf(m, d))
    OBVIOUS
  <2>1. PICK s : s = EditOf(m, d)
    OBVIOUS
  <2>2. s \in Seq(Ids \cup {Gone})
    BY <1>2, <1>4, <2>1
  <2>3. DOMAIN s = 1 .. Len(s) /\ Range(s) = {s[i] : i \in 1 .. Len(s)}
    BY <2>2, RangeIs
  <2>4. OnceUnlessGone(s) /\ Gone \notin Range(s)
    BY <1>1, <2>1 DEF EditsWhole, EditWhole
  <2>5. IsInjective(s)
    BY <2>3, <2>4 DEF OnceUnlessGone, IsInjective
  <2> QED
    BY <2>1, <2>5
<1>6. \A d \in Screens \ Range(m.plugged) : e[d] = <<>>
  <2>1. Range(<<>>) = {}
    BY EmptyRange
  <2> QED
    BY <1>1, <1>3, <2>1 DEF PluggedWell
<1>7. e \in [Screens -> Seq(Ids \cup {Gone})]
  BY <1>3 DEF Lifted
<1> QED
  BY <1>3, <1>4, <1>5, <1>6, <1>7

\* The proxies e can be those of the spread while w is dragged.
Editable(m, e, w) ==
  /\ e \in [Screens -> Seq(Ids \cup {Gone})]
  /\ \A d \in Range(m.plugged) :
       /\ IsInjective(e[d])
       /\ Range(e[d]) \ {w} \subseteq Range(EditOf(m, d)) \cap Range(m.list[d])
       /\ Range(e[d]) \ {w} # {}
  /\ \A c, d \in Range(m.plugged) : w \in Range(e[c]) \cap Range(e[d]) => c = d
  /\ \A d \in Screens \ Range(m.plugged) : e[d] = <<>>

(* The proxies that the spread edits are whole.                            *)
LEMMA EditableRests ==
  ASSUME NEW m, NEW D, NEW x, AtRest(m, D, x), NEW w, HeldIsShown(m, w), w # Null, NEW e, Editable(m, e, w),
         NEW r, r = [m EXCEPT !.proxy["edit"] = e]
  PROVE  AtRest(r, D, w)
<1>1. m \in WmStates /\ m.plugged \in Seq(Screens) /\ EditsKnown(m) /\ EditsWhole(m, x)
  BY DEF AtRest, Consistent, Well, Neat, WmStates
<1>2. Range(m.plugged) \subseteq Screens
  BY <1>1, RangeIs
<1>3. /\ \A d : EditOf(r, d) = e[d]
      /\ r.list = m.list /\ r.all = m.all /\ r.plugged = m.plugged
  <2>1. m.proxy \in [Proxies -> [Screens -> Seq(Ids \cup {Gone})]]
    BY <1>1 DEF WmStates
  <2>2. "edit" \in DOMAIN m.proxy
    BY <2>1 DEF Proxies
  <2>3. PICK p : p = [m.proxy EXCEPT !["edit"] = e]
    OBVIOUS
  <2>4. p["edit"] = e
    BY <2>2, <2>3
  <2>5. r = [m EXCEPT !.proxy = p]
    BY <2>3
  <2>6. r.proxy = p /\ r.list = m.list /\ r.all = m.all /\ r.plugged = m.plugged
    BY <1>1, <2>5 DEF WmStates
  <2> QED
    BY <2>4, <2>6 DEF EditOf
<1>4. w \in Ids /\ w \in m.all
  <2>1. PICK d \in Range(m.plugged) : w \in Range(m.list[d])
    BY DEF HeldIsShown
  <2>2. Range(m.list[d]) \subseteq m.all /\ m.all \subseteq Ids
    BY <1>1, PluggedHas DEF WmStates
  <2> QED
    BY <2>1, <2>2
<1>5. \A d \in Range(m.plugged) :
        /\ OnceUnlessGone(e[d]) /\ Gone \notin Range(e[d])
        /\ Range(e[d]) \ {w} \subseteq Range(m.list[d]) /\ Range(e[d]) \ {w} # {}
        /\ Range(e[d]) \subseteq Range(EditOf(m, d)) \cup {w}
  <2> SUFFICES ASSUME NEW d \in Range(m.plugged)
               PROVE  OnceUnlessGone(e[d]) /\ Gone \notin Range(e[d])
    BY DEF Editable
  <2>1. PICK s : s = e[d]
    OBVIOUS
  <2>2. s \in Seq(Ids \cup {Gone}) /\ IsInjective(s) /\ Range(s) \ {w} \subseteq Range(EditOf(m, d))
    BY <1>2, <2>1 DEF Editable
  <2>3. DOMAIN s = 1 .. Len(s)
    BY <2>2
  <2>4. OnceUnlessGone(s)
    BY <2>2, <2>3 DEF OnceUnlessGone, IsInjective
  <2>5. Gone \notin Range(EditOf(m, d)) /\ Gone # w
    BY <1>1, <1>4, WorkspacesAssumption DEF EditsWhole, EditWhole
  <2> QED
    BY <2>1, <2>2, <2>4, <2>5
<1>6. EditsWhole(r, w)
  <2>1. \A c \in Range(m.plugged) : EditWhole(r, w, c)
    BY <1>3, <1>5 DEF EditWhole
  <2>2. OnOneEdit(r, w)
    BY <1>3 DEF OnOneEdit, Editable
  <2> QED
    BY <1>3, <2>1, <2>2 DEF EditsWhole
<1>7. EditsKnown(r)
  <2> SUFFICES ASSUME NEW d \in Screens PROVE Range(e[d]) \subseteq m.all \cup {Gone}
    BY <1>3 DEF EditsKnown
  <2>1. CASE d \in Range(m.plugged)
    BY <1>1, <1>4, <1>5, <2>1 DEF EditsKnown
  <2>2. CASE d \notin Range(m.plugged)
    <3>1. e[d] = <<>>
      BY <2>2 DEF Editable
    <3>2. Range(<<>>) = {}
      BY EmptyRange
    <3> QED
      BY <3>1, <3>2
  <2> QED
    BY <2>1, <2>2
<1>8. e \in [Screens -> Seq(Ids \cup {Gone})] /\ \A d \in Screens \ Range(m.plugged) : e[d] = <<>>
  BY DEF Editable
<1> QED
  BY <1>6, <1>7, <1>8, EditsRest

(* A workspace is taken from its screen's list.                            *)
LEMMA DragStartRests ==
  ASSUME NEW m, NEW D, AtRest(m, D, Null), NEW c \in Range(m.plugged), Len(EditOf(m, c)) >= 2,
         NEW w \in Range(EditOf(m, c)), NEW r, r = [m EXCEPT !.proxy["edit"][c] = Without(@, w)]
  PROVE  AtRest(r, D, w)
<1>1. m \in WmStates /\ PlacedOnce(m) /\ m.plugged \in Seq(Screens) /\ EditsWhole(m, Null)
  BY DEF AtRest, Consistent, Well, Neat, WmStates
<1>2. Range(m.plugged) \subseteq Screens
  BY <1>1, RangeIs
<1>3. \A d \in Screens : EditOf(m, d) \in Seq(Ids \cup {Gone}) /\ Null \notin Range(EditOf(m, d))
  <2> SUFFICES ASSUME NEW d \in Screens
               PROVE  EditOf(m, d) \in Seq(Ids \cup {Gone}) /\ Null \notin Range(EditOf(m, d))
    OBVIOUS
  <2>1. PICK s : s = EditOf(m, d)
    OBVIOUS
  <2>2. s \in Seq(Ids \cup {Gone})
    BY <1>1, <2>1, StateIs DEF EditOf
  <2>3. Range(s) \subseteq Ids \cup {Gone}
    BY <2>2, RangeIs
  <2> QED
    BY <2>1, <2>2, <2>3, WorkspacesAssumption
<1>4. \A d \in Range(m.plugged) : Range(EditOf(m, d)) \subseteq Range(m.list[d]) /\ Range(EditOf(m, d)) # {}
  BY <1>1, <1>2, <1>3 DEF EditsWhole, EditWhole
<1>5. \A d \in Range(m.plugged) \ {c} : w \notin Range(EditOf(m, d))
  BY <1>1, <1>2, <1>4 DEF PlacedOnce
<1>6. PICK l : l = Lifted(m, w)
  OBVIOUS
<1>7. /\ l \in [Screens -> Seq(Ids \cup {Gone})]
      /\ \A d \in Range(m.plugged) : IsInjective(EditOf(m, d)) /\ IsInjective(l[d])
                                     /\ Range(l[d]) = Range(EditOf(m, d)) \ {w}
      /\ \A d \in Screens \ Range(m.plugged) : l[d] = <<>>
  BY <1>6, LiftedIs
<1>8. PICK e : e = [m.proxy["edit"] EXCEPT ![c] = Without(@, w)]
  OBVIOUS
<1>9. r = [m EXCEPT !.proxy["edit"] = e]
  BY <1>8
<1>10. m.proxy["edit"] \in [Screens -> Seq(Ids \cup {Gone})]
  BY <1>1 DEF WmStates, Proxies
<1>11. e[c] = l[c] /\ \A d \in Screens \ {c} : e[d] = EditOf(m, d)
  BY <1>2, <1>6, <1>8, <1>10 DEF EditOf, Lifted
<1>12. e \in [Screens -> Seq(Ids \cup {Gone})]
  <2>1. l[c] \in Seq(Ids \cup {Gone})
    BY <1>2, <1>7
  <2>2. e = [m.proxy["edit"] EXCEPT ![c] = l[c]]
    BY <1>2, <1>6, <1>8 DEF EditOf, Lifted
  <2> QED
    BY <1>10, <2>1, <2>2
<1>13. Range(EditOf(m, c)) \ {w} # {}
  <2>1. PICK s : s = EditOf(m, c)
    OBVIOUS
  <2>2. s \in Seq(Ids \cup {Gone}) /\ IsInjective(s) /\ Len(s) >= 2
    BY <1>2, <1>3, <1>7, <2>1
  <2>3. 1 \in DOMAIN s /\ 2 \in DOMAIN s /\ Len(s) \in Nat /\ DOMAIN s = 1 .. Len(s)
    BY <2>2
  <2>4. s[1] # s[2]
    BY <2>2, <2>3 DEF IsInjective
  <2>5. s[1] \in Range(s) /\ s[2] \in Range(s)
    BY <2>3 DEF Range
  <2> QED
    BY <2>1, <2>4, <2>5
<1>14. Editable(m, e, w)
  <2>1. \A d \in Range(m.plugged) : IsInjective(e[d]) /\ Range(e[d]) = Range(EditOf(m, d)) \ {w}
    BY <1>2, <1>5, <1>7, <1>11
  <2>2. \A d \in Range(m.plugged) : Range(EditOf(m, d)) \ {w} # {}
    BY <1>4, <1>5, <1>13
  <2>3. \A d \in Screens \ Range(m.plugged) : e[d] = <<>>
    BY <1>11 DEF AtRest, PluggedWell
  <2>4. \A d \in Range(m.plugged) :
          /\ IsInjective(e[d])
          /\ Range(e[d]) \ {w} \subseteq Range(EditOf(m, d)) \cap Range(m.list[d])
          /\ Range(e[d]) \ {w} # {}
    BY <1>4, <2>1, <2>2
  <2>5. \A d \in Range(m.plugged) : w \notin Range(e[d])
    BY <2>1
  <2> QED
    BY <1>12, <2>3, <2>4, <2>5 DEF Editable
<1>15. HeldIsShown(m, w) /\ w # Null
  BY <1>2, <1>3, <1>4 DEF HeldIsShown
<1> QED
  BY <1>9, <1>14, <1>15, EditableRests

(* Outside of every list.                                                  *)
LEMMA DragOutRests ==
  ASSUME NEW m, NEW D, NEW w, w # Null, AtRest(m, D, w), NEW r,
         r = [m EXCEPT !.proxy["edit"] = [s \in Screens |-> Without(@[s], w)]]
  PROVE  AtRest(r, D, w)
<1>1. EditsWhole(m, w) /\ HeldIsShown(m, w)
  BY DEF AtRest
<1>2. PICK e : e = Lifted(m, w)
  OBVIOUS
<1>3. /\ e \in [Screens -> Seq(Ids \cup {Gone})]
      /\ \A d \in Range(m.plugged) : IsInjective(e[d]) /\ Range(e[d]) = Range(EditOf(m, d)) \ {w}
      /\ \A d \in Screens \ Range(m.plugged) : e[d] = <<>>
  <2>1. PICK x : x = w
    OBVIOUS
  <2>2. AtRest(m, D, x)
    BY <2>1
  <2> QED
    BY <1>2, <2>2, LiftedIs
<1>4. r = [m EXCEPT !.proxy["edit"] = e]
  BY <1>2 DEF EditOf, Lifted
<1>5. \A d \in Range(m.plugged) :
        Range(EditOf(m, d)) \ {w} \subseteq Range(m.list[d]) /\ Range(EditOf(m, d)) \ {w} # {}
  BY <1>1 DEF EditsWhole, EditWhole
<1>6. Editable(m, e, w)
  BY <1>3, <1>5 DEF Editable
<1> QED
  BY <1>1, <1>4, <1>6, EditableRests

(* In a list, at row i.                                                    *)
LEMMA DragToRests ==
  ASSUME NEW m, NEW D, NEW w, w # Null, AtRest(m, D, w), NEW c \in Range(m.plugged), NEW l,
         l = [s \in Screens |-> Without(EditOf(m, s), w)], NEW i \in 1 .. Len(l[c]) + 1, NEW r,
         r = [m EXCEPT !.proxy["edit"] = [l EXCEPT ![c] = InsertAt(@, i, w)]]
  PROVE  AtRest(r, D, w)
<1>1. /\ m.plugged \in Seq(Screens) /\ EditsWhole(m, w) /\ HeldIsShown(m, w) /\ m.all \subseteq Ids
  BY DEF AtRest, Consistent, Well, Neat, WmStates
<1>2. Range(m.plugged) \subseteq Screens
  BY <1>1, RangeIs
<1>3. /\ l \in [Screens -> Seq(Ids \cup {Gone})]
      /\ \A d \in Range(m.plugged) : IsInjective(l[d]) /\ Range(l[d]) = Range(EditOf(m, d)) \ {w}
      /\ \A d \in Screens \ Range(m.plugged) : l[d] = <<>>
  <2>1. PICK x : x = w
    OBVIOUS
  <2>2. AtRest(m, D, x)
    BY <2>1
  <2>3. PICK e : e = l
    OBVIOUS
  <2>4. e = Lifted(m, w)
    BY <2>3 DEF Lifted
  <2>5. /\ e \in [Screens -> Seq(Ids \cup {Gone})]
        /\ \A d \in Range(m.plugged) : IsInjective(e[d]) /\ Range(e[d]) = Range(EditOf(m, d)) \ {w}
        /\ \A d \in Screens \ Range(m.plugged) : e[d] = <<>>
    BY <2>2, <2>4, LiftedIs
  <2> QED
    BY <2>3, <2>5
<1>4. w \in Ids
  <2>1. PICK d \in Range(m.plugged) : w \in Range(m.list[d])
    BY <1>1 DEF HeldIsShown
  <2>2. Range(m.list[d]) \subseteq m.all
    BY PluggedHas
  <2> QED
    BY <1>1, <2>1, <2>2
<1>5. PICK e : e = [l EXCEPT ![c] = InsertAt(@, i, w)]
  OBVIOUS
<1>6. PICK s : s = l[c]
  OBVIOUS
<1>7. PICK t : t = InsertAt(s, i, w)
  OBVIOUS
<1>8. s \in Seq(Ids \cup {Gone}) /\ w \in Ids \cup {Gone} /\ i \in 1 .. Len(s) + 1
      /\ IsInjective(s) /\ w \notin Range(s)
  BY <1>2, <1>3, <1>4, <1>6
<1>9. t \in Seq(Ids \cup {Gone}) /\ Range(t) = Range(s) \cup {w} /\ IsInjective(t)
  BY <1>7, <1>8, PutInRange
<1>10. e = [l EXCEPT ![c] = t]
  BY <1>5, <1>6, <1>7
<1>11. /\ e \in [Screens -> Seq(Ids \cup {Gone})] /\ e[c] = t
       /\ \A d \in Screens \ {c} : e[d] = l[d]
  BY <1>2, <1>3, <1>9, <1>10
<1>12. \A d \in Range(m.plugged) :
         Range(EditOf(m, d)) \ {w} \subseteq Range(m.list[d]) /\ Range(EditOf(m, d)) \ {w} # {}
  BY <1>1 DEF EditsWhole, EditWhole
<1>13. \A d \in Range(m.plugged) : IsInjective(e[d]) /\ Range(e[d]) \ {w} = Range(EditOf(m, d)) \ {w}
  BY <1>2, <1>3, <1>6, <1>9, <1>11
<1>14. \A d \in Range(m.plugged) : w \in Range(e[d]) => d = c
  BY <1>2, <1>3, <1>11
<1>15. \A d \in Screens \ Range(m.plugged) : e[d] = <<>>
  BY <1>3, <1>11
<1>16. Editable(m, e, w)
  BY <1>11, <1>12, <1>13, <1>14, <1>15 DEF Editable
<1> QED
  BY <1>1, <1>5, <1>16, EditableRests

(* A commit that has come to all screens leaves them at rest.              *)
LEMMA SyncedRests ==
  ASSUME NEW m, NEW D, NEW x, PluggedWell(m, D), m.plugged # <<>>, NEW r,
         Syncing(r, D, x, Range(m.plugged)), NothingNew(r, m)
  PROVE  AtRest(r, D, Null)
<1>1. /\ Well(r, D) /\ ActiveShown(r, D) /\ ~r.crashed /\ EditsKnown(r) /\ AllHeld(r)
      /\ \A c \in Range(r.plugged) : EditReady(r, x, c)
      /\ \A c \in Range(m.plugged) : Range(EditOf(r, c)) \subseteq Range(r.list[c])
      /\ \A c \in Screens : r.limbo[c] = {}
      /\ r.plugged = m.plugged
  BY DEF Syncing, NothingNew
<1>2. r \in WmStates /\ r.plugged \in Seq(Screens) /\ NoLimbo(r)
  BY <1>1 DEF Well, Neat, WmStates, NoLimbo
<1>3. Range(r.plugged) \subseteq Screens
  BY <1>2, RangeIs
<1>4. \A c \in Range(r.plugged) : Gone \notin Range(EditOf(r, c)) /\ Null \notin Range(EditOf(r, c))
  <2> SUFFICES ASSUME NEW c \in Range(r.plugged)
               PROVE  Gone \notin Range(EditOf(r, c)) /\ Null \notin Range(EditOf(r, c))
    OBVIOUS
  <2>1. Range(r.list[c]) \subseteq Ids
    BY <1>2, <1>3, StateIs
  <2> QED
    BY <1>1, <2>1, WorkspacesAssumption
<1>5. \A c \in Range(r.plugged) : Range(EditOf(r, c)) # {}
  <2> SUFFICES ASSUME NEW c \in Range(r.plugged) PROVE Range(EditOf(r, c)) # {}
    OBVIOUS
  <2>1. PICK s : s = EditOf(r, c)
    OBVIOUS
  <2>2. s \in Seq(Ids \cup {Gone}) /\ s # <<>>
    BY <1>1, <1>2, <1>3, <2>1, StateIs DEF EditOf, EditReady
  <2>3. Range(s) # {}
    BY <2>2, RangeIs
  <2> QED
    BY <2>1, <2>3
<1>6. EditsWhole(r, Null)
  <2>1. \A c \in Range(r.plugged) : EditWhole(r, Null, c)
    BY <1>1, <1>4, <1>5 DEF EditWhole, EditReady
  <2>2. OnOneEdit(r, Null)
    BY <1>4 DEF OnOneEdit
  <2> QED
    BY <2>1, <2>2 DEF EditsWhole
<1>7. PluggedWell(r, D)
  <2>1. Range(<<>>) = {}
    BY EmptyRange
  <2>2. ASSUME NEW c \in Screens \ Range(r.plugged)
        PROVE  EditOf(r, c) = <<>> /\ (c \in D \/ r.list[c] = <<>>)
    <3>1. EditOf(m, c) = <<>> /\ (c \in D \/ m.list[c] = <<>>)
      BY <1>1 DEF PluggedWell
    <3>2. EditOf(r, c) = <<>> /\ Range(r.list[c]) \subseteq Range(m.list[c])
      BY <1>1, <3>1 DEF NothingNew
    <3>3. CASE m.list[c] = <<>>
      <4>1. PICK s : s = r.list[c]
        OBVIOUS
      <4>2. s \in Seq(Ids) /\ Range(s) = {}
        BY <1>2, <2>1, <3>2, <3>3, <4>1, StateIs
      <4>3. s = <<>>
        BY <4>2, RangeIs
      <4> QED
        BY <3>2, <4>1, <4>3
    <3> QED
      BY <3>1, <3>2, <3>3
  <2> QED
    BY <1>1, <2>2 DEF PluggedWell
<1>8. HeldIsShown(r, Null)
  BY DEF HeldIsShown
<1> QED
  BY <1>1, <1>2, <1>6, <1>7, <1>8 DEF AtRest, Consistent

(* The workspace is dropped: the proxies are committed.                    *)
LEMMA DropRests ==
  ASSUME NEW m, NEW D, NEW x, x # Null, AtRest(m, D, x), NEW any, NEW r, r = Sync(m, any)
  PROVE  r.crashed \/ AtRest(r, D, Null)
<1>1. /\ Consistent(m, D) /\ PluggedWell(m, D) /\ EditsWhole(m, x) /\ HeldIsShown(m, x)
      /\ m.plugged # <<>>
  BY DEF AtRest
<1>2. m \in WmStates /\ m.plugged \in Seq(Screens)
  BY <1>1 DEF Consistent, Well, Neat, WmStates
<1>3. x # Gone
  <2>1. PICK d \in Range(m.plugged) : x \in Range(m.list[d])
    BY <1>1 DEF HeldIsShown
  <2>2. Range(m.list[d]) \subseteq m.all /\ m.all \subseteq Ids
    BY <1>2, PluggedHas DEF WmStates
  <2> QED
    BY <2>1, <2>2, WorkspacesAssumption
<1>4. Syncing(m, D, x, {})
  <2>1. /\ Well(m, D) /\ ActiveShown(m, D) /\ ~m.crashed /\ EditsKnown(m) /\ AllHeld(m)
        /\ \A c \in Screens : m.limbo[c] = {}
    BY <1>1 DEF Consistent, NoLimbo
  <2>2. \A c \in Range(m.plugged) : EditReady(m, x, c)
    <3>1. Range(<<>>) = {}
      BY EmptyRange
    <3> QED
      BY <1>1, <3>1 DEF EditsWhole, EditWhole, EditReady
  <2>3. \A c, d \in Range(m.plugged) : x \in Range(EditOf(m, c)) \cap Range(EditOf(m, d)) => c = d
    BY <1>1 DEF EditsWhole, OnOneEdit
  <2> QED
    BY <2>1, <2>2, <2>3 DEF Syncing
<1>5. D \subseteq Screens /\ Range(m.plugged) \cap D = {}
  BY <1>1 DEF PluggedWell
<1>6. r.crashed \/ (Syncing(r, D, x, Range(m.plugged)) /\ NothingNew(r, m))
  BY <1>3, <1>4, <1>5, SyncIs
<1> QED
  BY <1>1, <1>6, SyncedRests

\* r is m with the new workspace w in the list of c, in the spread only.
Added(r, m, c, w) ==
  /\ r.all = m.all \cup {w} /\ r.list = m.list /\ r.plugged = m.plugged /\ r.crashed = m.crashed
  /\ r.active = m.active /\ r.activeScreen = m.activeScreen
  /\ r.limbo[c] = {w} /\ \A d \in Screens \ {c} : r.limbo[d] = {}
  /\ EditOf(r, c) = Append(EditOf(m, c), w)
  /\ \A d \in Screens \ {c} : EditOf(r, d) = EditOf(m, d)

(* A workspace is created for the list of a screen.                        *)
LEMMA AddedIs ==
  ASSUME NEW m, NEW D, AtRest(m, D, Null), NEW c \in Range(m.plugged), NEW w \in Ids \ m.all,
         NEW r, r = [Create(m, w) EXCEPT !.limbo[c] = @ \cup {w}, !.proxy["edit"][c] = Append(@, w)]
  PROVE  Well(r, D) /\ Added(r, m, c, w)
<1>1. Well(m, D) /\ NoLimbo(m) /\ m \in WmStates
  BY DEF AtRest, Consistent, Well, Neat
<1>2. /\ c \in Screens \ D /\ m.all # {}
  <2>1. m.current[c] \in Range(m.list[c]) /\ Range(m.list[c]) \subseteq m.all
    BY PluggedHas
  <2>2. c \in Screens \ D
    BY PluggedHas
  <2> QED
    BY <2>1, <2>2
<1>3. PICK a : a = Create(m, w)
  OBVIOUS
<1>4. Well(a, D) /\ Created(a, m, w)
  BY <1>1, <1>3, CreateIs
<1>5. a \in WmStates /\ PlacedOnce(a) /\ Mirrored(a, D) /\ ShowsOne(a)
  BY <1>4 DEF Well, Neat
<1>6. PICK e : e = [a.proxy["edit"] EXCEPT ![c] = Append(@, w)]
  OBVIOUS
<1>7. PICK p : p = [a.proxy EXCEPT !["edit"] = e]
  OBVIOUS
<1>8. PICK b : b = [a.limbo EXCEPT ![c] = @ \cup {w}]
  OBVIOUS
<1>9. r = [a EXCEPT !.limbo = b, !.proxy = p]
  BY <1>3, <1>6, <1>7, <1>8
<1>10. /\ a.proxy \in [Proxies -> [Screens -> Seq(Ids \cup {Gone})]]
       /\ a.proxy["edit"] \in [Screens -> Seq(Ids \cup {Gone})] /\ a.limbo \in [Screens -> SUBSET Ids]
  BY <1>5 DEF WmStates, Proxies
<1>11. /\ e \in [Screens -> Seq(Ids \cup {Gone})] /\ e[c] = Append(a.proxy["edit"][c], w)
       /\ \A d \in Screens \ {c} : e[d] = a.proxy["edit"][d]
  <2>1. PICK s : s = Append(a.proxy["edit"][c], w)
    OBVIOUS
  <2>2. s \in Seq(Ids \cup {Gone})
    BY <1>2, <1>10, <2>1
  <2>3. e = [a.proxy["edit"] EXCEPT ![c] = s]
    BY <1>6, <2>1
  <2> QED
    BY <1>2, <1>10, <2>1, <2>2, <2>3
<1>12. /\ p \in [Proxies -> [Screens -> Seq(Ids \cup {Gone})]]
       /\ p["mirror"] = a.proxy["mirror"] /\ p["edit"] = e
  <2>1. "mirror" # "edit" /\ "mirror" \in Proxies /\ "edit" \in Proxies
    BY DEF Proxies
  <2> QED
    BY <1>7, <1>10, <1>11, <2>1
<1>13. /\ b \in [Screens -> SUBSET Ids] /\ b[c] = a.limbo[c] \cup {w}
       /\ \A d \in Screens \ {c} : b[d] = a.limbo[d]
  BY <1>2, <1>8, <1>10
<1>14. /\ r \in WmStates /\ r.limbo = b /\ r.proxy = p /\ r.list = a.list /\ r.current = a.current
       /\ r.active = a.active /\ r.activeScreen = a.activeScreen /\ r.all = a.all
       /\ r.plugged = a.plugged /\ r.surfaces = a.surfaces /\ r.crashed = a.crashed
  BY <1>5, <1>9, <1>12, <1>13 DEF WmStates
<1>15. /\ a.all = m.all \cup {w} /\ a.list = m.list /\ a.limbo = m.limbo /\ a.proxy = m.proxy
       /\ a.plugged = m.plugged /\ a.crashed = m.crashed
       /\ a.activeScreen = m.activeScreen /\ a.active = m.active
  BY <1>2, <1>4 DEF Created
<1>16. Added(r, m, c, w)
  <2>1. \A d \in Screens : m.limbo[d] = {}
    BY <1>1 DEF NoLimbo
  <2>2. r.limbo[c] = {w} /\ \A d \in Screens \ {c} : r.limbo[d] = {}
    BY <1>2, <1>13, <1>14, <1>15, <2>1
  <2>3. EditOf(r, c) = Append(EditOf(m, c), w) /\ \A d \in Screens \ {c} : EditOf(r, d) = EditOf(m, d)
    BY <1>11, <1>12, <1>14, <1>15 DEF EditOf
  <2> QED
    BY <1>14, <1>15, <2>2, <2>3 DEF Added
<1>17. Neat(r, D)
  <2>1. PlacedOnce(r) /\ ShowsOne(r)
    BY <1>5, <1>14 DEF PlacedOnce, ShowsOne, ShowsOwn
  <2>2. Mirrored(r, D)
    BY <1>5, <1>12, <1>14 DEF Mirrored
  <2> QED
    BY <1>14, <2>1, <2>2 DEF Neat
<1>18. Known(r)
  <2>1. OnScreens(r) = OnScreens(a) /\ OnScreens(a) = OnScreens(m)
    BY <1>14, <1>15 DEF OnScreens
  <2>2. InLimbo(r) = {w}
    BY <1>2, <1>16 DEF InLimbo, Added
  <2>3. w \notin OnScreens(m)
    BY <1>1 DEF Well, Known
  <2> QED
    BY <1>4, <1>14, <2>1, <2>2, <2>3 DEF Well, Known
<1> QED
  BY <1>16, <1>17, <1>18 DEF Well

(* "Add workspace" is committed.                                           *)
LEMMA AddRests ==
  ASSUME NEW m, NEW D, AtRest(m, D, Null), NEW c \in Range(m.plugged), Fresh(m) # {}, NEW w,
         w = Lowest(Fresh(m)), NEW m1,
         m1 = [Create(m, w) EXCEPT !.limbo[c] = @ \cup {w}, !.proxy["edit"][c] = Append(@, w)],
         NEW any, NEW r, r = Sync(m1, any)
  PROVE  r.crashed \/ AtRest(r, D, Null)
<1>1. /\ Consistent(m, D) /\ PluggedWell(m, D) /\ EditsWhole(m, Null) /\ m.plugged # <<>>
  BY DEF AtRest
<1>2. w \in Ids \ m.all /\ \A d \in Screens : w \notin Range(EditOf(m, d))
  BY FreshIs DEF EditOf
<1>3. Well(m1, D) /\ Added(m1, m, c, w)
  BY <1>2, AddedIs
<1>4. /\ m1.all = m.all \cup {w} /\ m1.list = m.list /\ m1.plugged = m.plugged /\ m1.crashed = m.crashed
      /\ m1.active = m.active /\ m1.activeScreen = m.activeScreen
      /\ m1.limbo[c] = {w} /\ \A d \in Screens \ {c} : m1.limbo[d] = {}
      /\ \A d \in Screens \ {c} : EditOf(m1, d) = EditOf(m, d)
  BY <1>3 DEF Added
<1>5. m \in WmStates /\ m.plugged \in Seq(Screens) /\ c \in Screens \ D
  <2>1. m \in WmStates /\ m.plugged \in Seq(Screens)
    BY <1>1 DEF Consistent, Well, Neat, WmStates
  <2> QED
    BY <2>1, PluggedHas
<1>6. Range(m.plugged) \subseteq Screens
  BY <1>5, RangeIs
<1>7. \A d \in Screens : EditOf(m, d) \in Seq(Ids \cup {Gone}) /\ Null \notin Range(EditOf(m, d))
  <2> SUFFICES ASSUME NEW d \in Screens
               PROVE  EditOf(m, d) \in Seq(Ids \cup {Gone}) /\ Null \notin Range(EditOf(m, d))
    OBVIOUS
  <2>1. PICK s : s = EditOf(m, d)
    OBVIOUS
  <2>2. s \in Seq(Ids \cup {Gone})
    BY <1>5, <2>1, StateIs DEF EditOf
  <2>3. Range(s) \subseteq Ids \cup {Gone}
    BY <2>2, RangeIs
  <2> QED
    BY <2>1, <2>2, <2>3, WorkspacesAssumption
<1>8. /\ Range(EditOf(m1, c)) = Range(EditOf(m, c)) \cup {w}
      /\ EditOf(m1, c) # <<>> /\ OnceUnlessGone(EditOf(m1, c))
  <2>1. PICK s : s = EditOf(m, c)
    OBVIOUS
  <2>2. PICK t : t = EditOf(m1, c)
    OBVIOUS
  <2>3. s \in Seq(Ids \cup {Gone}) /\ OnceUnlessGone(s) /\ w \notin Range(s) /\ w \in Ids \cup {Gone}
    BY <1>1, <1>2, <1>5, <1>7, <2>1 DEF EditsWhole, EditWhole
  <2>4. t = Append(s, w)
    BY <1>3, <2>1, <2>2 DEF Added
  <2>5. /\ Len(s) \in Nat /\ Len(t) = Len(s) + 1 /\ t[Len(s) + 1] = w
        /\ \A i \in 1 .. Len(s) : t[i] = s[i]
    BY <2>3, <2>4
  <2>6. s \in Seq(Ids \cup {Gone})
    BY <2>3
  <2>7. t \in Seq(Ids \cup {Gone})
    BY <2>3, <2>4
  <2>8. Range(s) = {s[i] : i \in 1 .. Len(s)}
    BY <2>6, RangeIs
  <2>9. Range(t) = {t[i] : i \in 1 .. Len(t)} /\ (t = <<>> <=> Len(t) = 0)
    BY <2>7, RangeIs
  <2>10. \A i \in 1 .. Len(t) : i \in 1 .. Len(s) \/ i = Len(s) + 1
    BY <2>5
  <2>11. Range(t) = Range(s) \cup {w}
    <3>1. 1 .. Len(s) \subseteq 1 .. Len(t) /\ Len(s) + 1 \in 1 .. Len(t)
      BY <2>5
    <3> QED
      BY <2>5, <2>8, <2>9, <2>10, <3>1
  <2>12. OnceUnlessGone(t)
    <3>1. \A i \in 1 .. Len(s) : s[i] # w
      BY <2>3, <2>8
    <3>2. \A i, j \in 1 .. Len(s) : s[i] = s[j] /\ s[i] # Gone => i = j
      BY <2>3 DEF OnceUnlessGone
    <3>3. \A i, j \in 1 .. Len(t) : t[i] = t[j] /\ t[i] # Gone => i = j
      BY <2>5, <2>10, <3>1, <3>2
    <3> QED
      BY <3>3 DEF OnceUnlessGone
  <2> QED
    BY <2>1, <2>2, <2>5, <2>9, <2>11, <2>12
<1>9. \A d \in Range(m.plugged) : EditReady(m1, w, d)
  <2>1. \A d \in Range(m.plugged) :
          /\ OnceUnlessGone(EditOf(m, d)) /\ Range(EditOf(m, d)) \subseteq Range(m.list[d])
          /\ Range(EditOf(m, d)) # {}
    BY <1>1, <1>6, <1>7 DEF EditsWhole, EditWhole
  <2>2. EditReady(m1, w, c)
    BY <1>4, <1>8, <2>1 DEF EditReady
  <2>3. Range(<<>>) = {}
    BY EmptyRange
  <2>4. \A d \in Range(m.plugged) \ {c} : EditReady(m1, w, d)
    BY <1>4, <1>6, <2>1, <2>3 DEF EditReady
  <2> QED
    BY <2>2, <2>4
<1>10. \A a, b \in Range(m.plugged) : w \in Range(EditOf(m1, a)) \cap Range(EditOf(m1, b)) => a = b
  BY <1>2, <1>4, <1>6
<1>11. EditsKnown(m1)
  <2>1. EditsKnown(m)
    BY <1>1 DEF Consistent
  <2> QED
    BY <1>4, <1>5, <1>8, <2>1 DEF EditsKnown
<1>12. AllHeld(m1) /\ ActiveShown(m1, D) /\ ~m1.crashed
  <2>1. m.all \subseteq OnScreens(m)
    <3>1. InLimbo(m) = {}
      BY <1>1 DEF Consistent, NoLimbo, InLimbo
    <3> QED
      BY <1>1, <3>1 DEF Consistent, AllHeld
  <2>2. OnScreens(m1) = OnScreens(m) /\ w \in InLimbo(m1)
    BY <1>4, <1>5 DEF OnScreens, InLimbo
  <2>3. ActiveShown(m1, D)
    BY <1>1, <1>4 DEF Consistent, ActiveShown
  <2> QED
    BY <1>1, <1>4, <2>1, <2>2, <2>3 DEF AllHeld, Consistent
<1>13. Syncing(m1, D, w, {})
  <2>1. \A d \in Screens : d \notin Range(m1.plugged) => m1.limbo[d] = {}
    BY <1>4
  <2> QED
    BY <1>3, <1>4, <1>9, <1>10, <1>11, <1>12, <2>1 DEF Syncing
<1>14. PluggedWell(m1, D) /\ m1.plugged # <<>>
  BY <1>1, <1>4 DEF PluggedWell
<1>15. r.crashed \/ (Syncing(r, D, w, Range(m1.plugged)) /\ NothingNew(r, m1))
  <2>1. D \subseteq Screens /\ Range(m1.plugged) \cap D = {} /\ w # Gone
    BY <1>2, <1>14, WorkspacesAssumption DEF PluggedWell
  <2> QED
    BY <1>13, <2>1, SyncIs
<1> QED
  BY <1>14, <1>15, SyncedRests

(* A screen leaves the model, with the workspace dragged over it.          *)
LEMMA UnpluggedIs ==
  ASSUME NEW m, NEW D, NEW x, AtRest(m, D, x), NEW c \in Range(m.plugged), Len(m.plugged) > 1,
         x \notin Range(m.list[c]), NEW r,
         r = [m EXCEPT !.plugged = Without(@, c),
                       !.proxy = [k \in Proxies |-> [@[k] EXCEPT ![c] = <<>>]]],
         NEW y, y = IF x \in Range(EditOf(m, c)) THEN Null ELSE x
  PROVE  AtRest(r, D \cup {c}, y)
<1>1. /\ Consistent(m, D) /\ PluggedWell(m, D) /\ EditsWhole(m, x) /\ HeldIsShown(m, x)
  BY DEF AtRest
<1>2. Well(m, D) /\ m \in WmStates /\ PlacedOnce(m) /\ Mirrored(m, D) /\ ShowsOne(m)
  BY <1>1 DEF Consistent, Well, Neat
<1>3. m.plugged \in Seq(Screens) /\ IsInjective(m.plugged)
  BY <1>1, <1>2 DEF WmStates, PluggedWell
<1>4. Range(m.plugged) \subseteq Screens
  BY <1>3, RangeIs
<1>5. PICK q : q = Without(m.plugged, c)
  OBVIOUS
<1>6. q \in Seq(Screens) /\ IsInjective(q) /\ Range(q) = Range(m.plugged) \ {c}
  BY <1>3, <1>5, WithoutRange
<1>7. q # <<>>
  <2>1. PICK s : s = m.plugged
    OBVIOUS
  <2>2. s \in Seq(Screens) /\ IsInjective(s) /\ Len(s) > 1
    BY <1>3, <2>1
  <2>3. 1 \in DOMAIN s /\ 2 \in DOMAIN s
    BY <2>2
  <2>4. s[1] # s[2] /\ s[1] \in Range(s) /\ s[2] \in Range(s)
    BY <2>2, <2>3 DEF IsInjective, Range
  <2>5. Range(q) # {}
    BY <1>6, <2>1, <2>4
  <2>6. Range(<<>>) = {}
    BY EmptyRange
  <2> QED
    BY <2>5, <2>6
<1>8. PICK p : p = [k \in Proxies |-> [m.proxy[k] EXCEPT ![c] = <<>>]]
  OBVIOUS
<1>9. r = [m EXCEPT !.plugged = q, !.proxy = p]
  BY <1>5, <1>8
<1>10. m.proxy \in [Proxies -> [Screens -> Seq(Ids \cup {Gone})]]
  BY <1>2 DEF WmStates
<1>11. /\ p \in [Proxies -> [Screens -> Seq(Ids \cup {Gone})]]
       /\ \A k \in Proxies : p[k][c] = <<>> /\ \A d \in Screens \ {c} : p[k][d] = m.proxy[k][d]
  <2>1. <<>> \in Seq(Ids \cup {Gone})
    OBVIOUS
  <2>2. \A k \in Proxies : [m.proxy[k] EXCEPT ![c] = <<>>] \in [Screens -> Seq(Ids \cup {Gone})]
    BY <1>10, <2>1
  <2>3. p \in [Proxies -> [Screens -> Seq(Ids \cup {Gone})]]
    BY <1>8, <2>2
  <2>4. \A k \in Proxies : p[k][c] = <<>> /\ \A d \in Screens \ {c} : p[k][d] = m.proxy[k][d]
    BY <1>4, <1>8, <1>10
  <2> QED
    BY <2>3, <2>4
<1>12. /\ r \in WmStates /\ r.list = m.list /\ r.limbo = m.limbo /\ r.all = m.all /\ r.plugged = q
       /\ r.proxy = p /\ r.crashed = m.crashed /\ r.active = m.active /\ r.current = m.current
       /\ r.activeScreen = m.activeScreen /\ r.surfaces = m.surfaces
  BY <1>2, <1>6, <1>9, <1>11 DEF WmStates
<1>13. OnScreens(r) = OnScreens(m) /\ InLimbo(r) = InLimbo(m)
  BY <1>12 DEF OnScreens, InLimbo
<1>14. Well(r, D \cup {c})
  <2>1. PlacedOnce(r) /\ ShowsOne(r)
    BY <1>2, <1>12 DEF PlacedOnce, ShowsOne, ShowsOwn
  <2>2. Mirrored(r, D \cup {c})
    BY <1>2, <1>4, <1>11, <1>12 DEF Mirrored, Proxies
  <2>3. Known(r)
    BY <1>2, <1>12, <1>13 DEF Well, Known
  <2> QED
    BY <1>12, <2>1, <2>2, <2>3 DEF Well, Neat
<1>15. EditOf(r, c) = <<>> /\ \A d \in Screens \ {c} : EditOf(r, d) = EditOf(m, d)
  BY <1>11, <1>12 DEF EditOf, Proxies
<1>16. EditsKnown(r)
  <2>1. Range(<<>>) = {}
    BY EmptyRange
  <2>2. EditsKnown(m)
    BY <1>1 DEF Consistent
  <2> QED
    BY <1>12, <1>15, <2>1, <2>2 DEF EditsKnown
<1>17. Consistent(r, D \cup {c})
  <2>1. ActiveShown(r, D \cup {c})
    BY <1>1, <1>12 DEF Consistent, ActiveShown
  <2> QED
    BY <1>1, <1>12, <1>13, <1>14, <1>16, <2>1 DEF Consistent, AllHeld, NoLimbo
<1>18. PluggedWell(r, D \cup {c})
  <2>1. \A d \in Screens \ Range(q) :
          EditOf(r, d) = <<>> /\ (d \in D \cup {c} \/ r.list[d] = <<>>)
    BY <1>1, <1>6, <1>12, <1>15 DEF PluggedWell
  <2>2. D \subseteq Screens /\ Range(m.plugged) \cap D = {}
    BY <1>1 DEF PluggedWell
  <2> QED
    BY <1>4, <1>6, <1>12, <2>1, <2>2 DEF PluggedWell
<1>19. \A d \in Range(q) : d \in Range(m.plugged) /\ d \in Screens \ {c} /\ EditOf(r, d) = EditOf(m, d)
  BY <1>4, <1>6, <1>15
<1>20. \A d \in Range(m.plugged) : Null \notin Range(EditOf(m, d))
  <2> SUFFICES ASSUME NEW d \in Range(m.plugged) PROVE Null \notin Range(EditOf(m, d))
    OBVIOUS
  <2>1. PICK s : s = EditOf(m, d)
    OBVIOUS
  <2>2. s \in Seq(Ids \cup {Gone})
    BY <1>2, <1>4, <2>1, StateIs DEF EditOf
  <2>3. Range(s) \subseteq Ids \cup {Gone}
    BY <2>2, RangeIs
  <2> QED
    BY <2>1, <2>3, WorkspacesAssumption
<1>21. EditsWhole(r, y) /\ HeldIsShown(r, y)
  <2>1. CASE x \in Range(EditOf(m, c))
    <3>1. \A d \in Range(q) : x \notin Range(EditOf(m, d))
      BY <1>1, <1>19, <2>1 DEF EditsWhole, OnOneEdit
    <3>2. \A d \in Range(q) : EditWhole(r, Null, d)
      <4> SUFFICES ASSUME NEW d \in Range(q) PROVE EditWhole(r, Null, d)
        OBVIOUS
      <4>1. EditWhole(m, x, d)
        BY <1>1, <1>19 DEF EditsWhole
      <4>2. Range(EditOf(m, d)) \ {Null} = Range(EditOf(m, d)) \ {x}
        BY <1>19, <1>20, <3>1
      <4> QED
        BY <1>12, <1>19, <4>1, <4>2 DEF EditWhole
    <3>3. OnOneEdit(r, Null)
      BY <1>12, <1>19, <1>20 DEF OnOneEdit
    <3> QED
      BY <1>12, <2>1, <3>2, <3>3 DEF EditsWhole, HeldIsShown
  <2>2. CASE x \notin Range(EditOf(m, c))
    <3>1. y = x
      BY <2>2
    <3>2. \A d \in Range(q) : EditWhole(r, x, d)
      BY <1>1, <1>12, <1>19 DEF EditsWhole, EditWhole
    <3>3. OnOneEdit(r, x)
      <4>1. OnOneEdit(m, x) /\ r.plugged = q
        BY <1>1, <1>12 DEF EditsWhole
      <4> SUFFICES ASSUME NEW d \in Range(q), NEW e \in Range(q),
                          x \in Range(EditOf(r, d)) \cap Range(EditOf(r, e))
                   PROVE d = e
        BY <4>1 DEF OnOneEdit
      <4>2. d \in Range(m.plugged) /\ e \in Range(m.plugged)
            /\ EditOf(r, d) = EditOf(m, d) /\ EditOf(r, e) = EditOf(m, e)
        BY <1>19
      <4> QED
        BY <4>1, <4>2 DEF OnOneEdit
    <3>4. HeldIsShown(r, x)
      BY <1>1, <1>6, <1>12 DEF HeldIsShown
    <3> QED
      BY <1>12, <3>1, <3>2, <3>3, <3>4 DEF EditsWhole
  <2> QED
    BY <2>1, <2>2
<1> QED
  BY <1>7, <1>12, <1>17, <1>18, <1>21 DEF AtRest

(* Plugging a screen into a manager at rest.                               *)
LEMMA PlugRests ==
  ASSUME NEW m, NEW D, NEW x, AtRest(m, D, x), NEW c \in Screens \ (D \cup Range(m.plugged)),
         NEW n \in Nat \ {0}, Cardinality(Fresh(m)) >= n, NEW r, r = Plugged(m, c, n)
  PROVE  AtRest(r, D, x)
<1>1. Consistent(m, D) /\ PluggedWell(m, D) /\ EditsWhole(m, x) /\ HeldIsShown(m, x)
  BY DEF AtRest
<1>2. NoLimbo(m) /\ ~m.crashed /\ Loading(m, m, D, c, 0)
  BY <1>1 DEF Consistent, Loading
<1> QED
  BY <1>1, <1>2, PluggedIs

(* The first screen.                                                       *)
LEMMA FirstPlugged ==
  ASSUME NEW c \in Screens, NEW n \in Nat \ {0}, Cardinality(Fresh(Nothing)) >= n,
         NEW r, r = Plugged(Nothing, c, n)
  PROVE  AtRest(r, {}, Null)
<1>1. PICK m : m = Nothing
  OBVIOUS
<1>2. /\ \A d \in Screens : m.list[d] = <<>> /\ m.limbo[d] = {} /\ m.current[d] = Null
                            /\ m.proxy["mirror"][d] = <<>> /\ m.proxy["edit"][d] = <<>>
      /\ m.active = Null /\ m.activeScreen = Null /\ m.all = {} /\ m.plugged = <<>>
      /\ m.surfaces = [x \in Surfaces |-> Null] /\ m.crashed = FALSE
  BY <1>1 DEF Nothing, Empty, Proxies
<1>3. Range(<<>>) = {} /\ IsInjective(<<>>)
  <2>1. <<>> \in Seq(Ids)
    OBVIOUS
  <2>2. Range(<<>>) = {}
    BY <2>1, RangeIs
  <2> QED
    BY <2>2 DEF IsInjective
<1>4. m \in WmStates
  <2>1. Empty \in [Screens -> Seq(Ids)] /\ Empty \in [Screens -> Seq(Ids \cup {Gone})]
    BY DEF Empty
  <2>2. m = [list |-> Empty, limbo |-> [d \in Screens |-> {}],
             current |-> [d \in Screens |-> Null], active |-> Null, activeScreen |-> Null,
             all |-> {}, plugged |-> << >>, proxy |-> [k \in Proxies |-> Empty],
             surfaces |-> [x \in Surfaces |-> Null], crashed |-> FALSE]
    BY <1>1 DEF Nothing
  <2>3. [k \in Proxies |-> Empty] \in [Proxies -> [Screens -> Seq(Ids \cup {Gone})]]
    BY <2>1
  <2>4. /\ [d \in Screens |-> {}] \in [Screens -> SUBSET Ids]
        /\ [d \in Screens |-> Null] \in [Screens -> Ids \cup {Null}]
        /\ [x \in Surfaces |-> Null] \in [Surfaces -> Ids \cup {Null}]
        /\ << >> \in Seq(Screens)
    OBVIOUS
  <2> QED
    BY <2>1, <2>2, <2>3, <2>4 DEF WmStates
<1>5. OnScreens(m) = {} /\ InLimbo(m) = {}
  BY <1>2, <1>3 DEF OnScreens, InLimbo
<1>6. Well(m, {})
  <2>1. PlacedOnce(m) /\ Mirrored(m, {}) /\ ShowsOne(m)
    BY <1>2, <1>3 DEF PlacedOnce, Mirrored, ShowsOne, ShowsOwn
  <2>2. Known(m)
    BY <1>2, <1>5 DEF Known
  <2> QED
    BY <1>4, <2>1, <2>2 DEF Well, Neat
<1>7. AllHeld(m) /\ EditsKnown(m) /\ NoLimbo(m) /\ ~m.crashed
  BY <1>2, <1>3 DEF AllHeld, EditsKnown, EditOf, NoLimbo
<1>8. Loading(m, m, {}, c, 0)
  BY <1>2, <1>6, <1>7 DEF Loading
<1>9. PluggedWell(m, {})
  BY <1>2, <1>3 DEF PluggedWell, EditOf
<1>10. EditsWhole(m, Null) /\ HeldIsShown(m, Null)
  BY <1>2, <1>3 DEF EditsWhole, OnOneEdit, HeldIsShown
<1>11. c \in Screens \ ({} \cup Range(m.plugged)) /\ Cardinality(Fresh(m)) >= n /\ r = Plugged(m, c, n)
  BY <1>1, <1>2, <1>3
<1>12. PICK D : D = {}
  OBVIOUS
<1>13. AtRest(r, D, Null)
  <2>1. PluggedWell(m, D) /\ Loading(m, m, D, c, 0) /\ c \in Screens \ (D \cup Range(m.plugged))
    BY <1>8, <1>9, <1>11, <1>12
  <2> QED
    BY <1>7, <1>10, <1>11, <2>1, PluggedIs
<1> QED
  BY <1>12, <1>13
(***************************************************************************)
(* The invariant of the workspaces, and the three properties.              *)
(***************************************************************************)
(* It holds once the first screen is plugged in.                           *)
LEMMA WorkspacesStarts == WorkspacesInit => WorkspacesInv
<1> SUFFICES ASSUME WorkspacesInit PROVE WorkspacesInv
  OBVIOUS
<1>1. held = Null /\ dying = {} /\ saved \in [Screens -> {1, 2}]
  BY DEF WorkspacesInit
<1>2. PICK c \in Screens : Cardinality(Fresh(Nothing)) >= saved[c] /\ wm = Plugged(Nothing, c, saved[c])
  BY DEF WorkspacesInit
<1>3. saved \in [Screens -> Nat \ {0}] /\ saved[c] \in Nat \ {0}
  BY <1>1
<1>4. AtRest(wm, {}, Null)
  BY <1>2, <1>3, FirstPlugged
<1> QED
  BY <1>1, <1>3, <1>4 DEF WorkspacesInv

(* Screens come and go.                                                    *)
LEMMA ScreenStep ==
  ASSUME AtRest(wm, dying, held), saved \in [Screens -> Nat \ {0}], NEW c \in Screens,
         ScreenAdded(c) \/ ScreenRemoved(c) \/ ActivateScreen(c)
  PROVE  AtRest(wm', dying', held') /\ saved' \in [Screens -> Nat \ {0}]
<1>1. CASE ScreenAdded(c)
  <2>1. /\ c \in Screens \ (dying \cup Range(wm.plugged)) /\ Cardinality(Fresh(wm)) >= saved[c]
        /\ wm' = Plugged(wm, c, saved[c]) /\ held' = held /\ dying' = dying /\ saved' = saved
    BY <1>1 DEF ScreenAdded
  <2>2. saved[c] \in Nat \ {0}
    OBVIOUS
  <2>3. AtRest(wm', dying, held)
    BY <2>1, <2>2, PlugRests
  <2> QED
    BY <2>1, <2>3
<1>2. CASE ScreenRemoved(c)
  <2>1. /\ c \in Range(wm.plugged) /\ Len(wm.plugged) > 1 /\ held \notin Range(wm.list[c])
        /\ wm' = [wm EXCEPT !.plugged = Without(@, c),
                            !.proxy = [k \in Proxies |-> [@[k] EXCEPT ![c] = <<>>]]]
        /\ held' = IF held \in Range(EditOf(wm, c)) THEN Null ELSE held
        /\ dying' = dying \cup {c}
    BY <1>2 DEF ScreenRemoved, EditOf
  <2>2. AtRest(wm', dying \cup {c}, held')
    BY <2>1, UnpluggedIs
  <2>3. saved' = [saved EXCEPT ![c] = IF Len(wm.list[c]) > 1 THEN Len(wm.list[c]) ELSE 1]
    BY <1>2 DEF ScreenRemoved
  <2>4. Len(wm.list[c]) \in Nat
    <3>1. wm \in WmStates
      BY DEF AtRest, Consistent, Well, Neat
    <3> QED
      BY <3>1, StateIs, RangeIs
  <2> QED
    BY <2>1, <2>2, <2>3, <2>4
<1>3. CASE ActivateScreen(c)
  <2>1. /\ c \in Range(wm.plugged) /\ c # wm.activeScreen /\ wm' = ScreenActive(wm, c)
        /\ held' = held /\ dying' = dying /\ saved' = saved
    BY <1>3 DEF ActivateScreen
  <2>2. AtRest(wm', dying, held)
    BY <2>1, ScreenActiveRests
  <2> QED
    BY <2>1, <2>2
<1> QED
  BY <1>1, <1>2, <1>3

(* A screen that went is deleted.                                          *)
LEMMA ScreenDeletedStep ==
  ASSUME AtRest(wm, dying, held), NEW c \in Screens, NEW any \in Ids, ScreenDeleted(c, any)
  PROVE  AtRest(wm', dying', held') /\ saved' = saved
<1>1. PICK m1 : m1 = ShellDestroyed(wm, c, any)
  OBVIOUS
<1>2. PICK l : l = m1.list[c]
  OBVIOUS
<1>3. PICK m2 : m2 = DeleteEach(m1, l, any)
  OBVIOUS
<1>4. /\ c \in dying /\ dying' = dying \ {c} /\ saved' = saved
      /\ wm' = [m2 EXCEPT !.limbo[c] = {}, !.current[c] = Null]
      /\ held' = IF held \in Range(l) THEN Gone ELSE held
  BY <1>1, <1>2, <1>3 DEF ScreenDeleted
<1>5. Leaving(m1, wm, dying, c)
  BY <1>1, <1>4, ShellIs
<1>6. Leaving(m2, wm, dying, c) /\ m2.list[c] = <<>>
  BY <1>2, <1>3, <1>4, <1>5, RestIs
<1>7. AtRest(wm', dying \ {c}, held)
  BY <1>4, <1>6, DeletionIs
<1>8. held' = held
  <2>1. held \notin Range(wm.list[c])
    BY <1>4, HeldStays
  <2> QED
    BY <1>2, <1>4, <1>5, <2>1 DEF Leaving
<1> QED
  BY <1>4, <1>7, <1>8

(* The user activates workspaces and moves surfaces.                       *)
LEMMA UserStep ==
  ASSUME AtRest(wm, dying, held),
         \/ \E c \in Screens, w \in Ids : Activate(c, w)
         \/ \E x \in Surfaces, c \in Screens, w \in Ids : MoveSurface(x, c, w)
         \/ \E x \in Surfaces : SurfaceShown(x)
  PROVE  AtRest(wm', dying', held') /\ saved' = saved
<1>1. CASE \E c \in Screens, w \in Ids : Activate(c, w)
  <2>1. PICK c \in Screens, w \in Ids : Activate(c, w)
    BY <1>1
  <2>2. /\ c \in Range(wm.plugged) /\ w \in Range(wm.proxy["mirror"][c]) /\ w # wm.active
        /\ wm' = SetActiveWorkspace(wm, w) /\ held' = held /\ dying' = dying /\ saved' = saved
    BY <2>1 DEF Activate
  <2>3. wm.proxy["mirror"][c] = wm.list[c]
    BY <2>2, PluggedHas
  <2>4. AtRest(wm', dying, held)
    BY <2>2, <2>3, ActivateRests
  <2> QED
    BY <2>2, <2>4
<1>2. CASE \E x \in Surfaces, c \in Screens, w \in Ids : MoveSurface(x, c, w)
  <2>1. PICK x \in Surfaces, c \in Screens, w \in Ids : MoveSurface(x, c, w)
    BY <1>2
  <2>2. /\ w \in Range(wm.proxy["mirror"][c]) /\ wm' = [wm EXCEPT !.surfaces[x] = w]
        /\ held' = held /\ dying' = dying /\ saved' = saved
    BY <2>1 DEF MoveSurface
  <2>3. w \in wm.all
    <3>1. Mirrored(wm, dying) /\ OnScreens(wm) \subseteq wm.all
      BY DEF AtRest, Consistent, Well, Neat, Known
    <3>2. Range(<<>>) = {}
      BY EmptyRange
    <3>3. w \in Range(wm.list[c])
      BY <2>2, <3>1, <3>2 DEF Mirrored
    <3>4. w \in OnScreens(wm)
      BY <3>3 DEF OnScreens
    <3> QED
      BY <3>1, <3>4
  <2>4. AtRest(wm', dying, held)
    BY <2>2, <2>3, SurfaceRests
  <2> QED
    BY <2>2, <2>4
<1>3. CASE \E x \in Surfaces : SurfaceShown(x)
  <2>1. PICK x \in Surfaces : SurfaceShown(x)
    BY <1>3
  <2>2. /\ wm.active # Null /\ wm' = [wm EXCEPT !.surfaces[x] = wm.active]
        /\ held' = held /\ dying' = dying /\ saved' = saved
    BY <2>1 DEF SurfaceShown
  <2>3. wm.active \in wm.all
    <3>1. PICK c : c \in Range(wm.plugged)
      <4>1. wm.plugged \in Seq(Screens) /\ wm.plugged # <<>>
        BY DEF AtRest, Consistent, Well, Neat, WmStates
      <4>2. Range(wm.plugged) # {}
        BY <4>1, RangeIs
      <4> QED
        BY <4>2
    <3>2. wm.current[c] \in Range(wm.list[c]) /\ Range(wm.list[c]) \subseteq wm.all
      BY <3>1, PluggedHas
    <3>3. wm.all # {} => wm.active \in wm.all
      BY DEF AtRest, Consistent, Well, Known
    <3> QED
      BY <3>2, <3>3
  <2>4. PICK w : w = wm.active
    OBVIOUS
  <2>5. AtRest(wm', dying, held)
    BY <2>2, <2>3, <2>4, SurfaceRests
  <2> QED
    BY <2>2, <2>5
<1> QED
  BY <1>1, <1>2, <1>3

(* The user edits the lists in the spread and commits them.                *)
LEMMA SpreadStep ==
  ASSUME AtRest(wm, dying, held),
         \/ \E c \in Screens, w \in Ids : DragStart(c, w)
         \/ \E c \in Screens, any \in Ids : AddWorkspace(c, any)
         \/ \E c \in Screens, i \in Ids : DragTo(c, i)
         \/ DragOut
         \/ \E any \in Ids : Drop(any)
  PROVE  (wm'.crashed \/ AtRest(wm', dying', held')) /\ saved' = saved
<1>1. CASE \E c \in Screens, w \in Ids : DragStart(c, w)
  <2>1. PICK c \in Screens, w \in Ids : DragStart(c, w)
    BY <1>1
  <2>2. /\ held = Null /\ c \in Range(wm.plugged) /\ Len(EditOf(wm, c)) >= 2 /\ w \in Range(EditOf(wm, c))
        /\ wm' = [wm EXCEPT !.proxy["edit"][c] = Without(@, w)]
        /\ held' = w /\ dying' = dying /\ saved' = saved
    BY <2>1 DEF DragStart, EditOf
  <2>3. AtRest(wm, dying, Null)
    BY <2>2
  <2>4. AtRest(wm', dying, w)
    BY <2>2, <2>3, DragStartRests
  <2> QED
    BY <2>2, <2>4
<1>2. CASE \E c \in Screens, any \in Ids : AddWorkspace(c, any)
  <2>1. PICK c \in Screens, any \in Ids : AddWorkspace(c, any)
    BY <1>2
  <2>2. PICK w : w = Lowest(Fresh(wm))
    OBVIOUS
  <2>3. PICK m1 : m1 = [Create(wm, w) EXCEPT !.limbo[c] = @ \cup {w}, !.proxy["edit"][c] = Append(@, w)]
    OBVIOUS
  <2>4. /\ held = Null /\ c \in Range(wm.plugged) /\ Fresh(wm) # {} /\ wm' = Sync(m1, any)
        /\ held' = held /\ dying' = dying /\ saved' = saved
    BY <2>1, <2>2, <2>3 DEF AddWorkspace
  <2>5. AtRest(wm, dying, Null)
    BY <2>4
  <2>6. wm'.crashed \/ AtRest(wm', dying, Null)
    BY <2>2, <2>3, <2>4, <2>5, AddRests
  <2> QED
    BY <2>4, <2>6
<1>3. CASE \E c \in Screens, i \in Ids : DragTo(c, i)
  <2>1. PICK c \in Screens, i \in Ids : DragTo(c, i)
    BY <1>3
  <2>2. PICK l : l = [s \in Screens |-> Without(EditOf(wm, s), held)]
    OBVIOUS
  <2>3. /\ held # Null /\ c \in Range(wm.plugged) /\ i \in 1 .. Len(l[c]) + 1
        /\ wm' = [wm EXCEPT !.proxy["edit"] = [l EXCEPT ![c] = InsertAt(@, i, held)]]
        /\ held' = held /\ dying' = dying /\ saved' = saved
    BY <2>1, <2>2 DEF DragTo, EditOf
  <2>4. AtRest(wm', dying, held)
    BY <2>2, <2>3, DragToRests
  <2> QED
    BY <2>3, <2>4
<1>4. CASE DragOut
  <2>1. /\ held # Null /\ wm' = [wm EXCEPT !.proxy["edit"] = [s \in Screens |-> Without(@[s], held)]]
        /\ held' = held /\ dying' = dying /\ saved' = saved
    BY <1>4 DEF DragOut
  <2>2. AtRest(wm', dying, held)
    BY <2>1, DragOutRests
  <2> QED
    BY <2>1, <2>2
<1>5. CASE \E any \in Ids : Drop(any)
  <2>1. PICK any \in Ids : Drop(any)
    BY <1>5
  <2>2. held # Null /\ wm' = Sync(wm, any) /\ held' = Null /\ dying' = dying /\ saved' = saved
    BY <2>1 DEF Drop
  <2>3. wm'.crashed \/ AtRest(wm', dying, Null)
    BY <2>2, DropRests
  <2> QED
    BY <2>2, <2>3
<1> QED
  BY <1>1, <1>2, <1>3, <1>4, <1>5

(* Every event keeps it.                                                   *)
LEMMA WorkspacesStep == WorkspacesInv /\ [WorkspacesNext]_workspacesVars => WorkspacesInv'
<1> SUFFICES ASSUME WorkspacesInv, [WorkspacesNext]_workspacesVars PROVE WorkspacesInv'
  OBVIOUS
<1>1. CASE UNCHANGED workspacesVars
  <2>1. wm' = wm /\ held' = held /\ dying' = dying /\ saved' = saved
    BY <1>1 DEF workspacesVars
  <2> QED
    BY <2>1 DEF WorkspacesInv
<1>2. CASE WorkspacesNext
  <2>1. AtRest(wm, dying, held) /\ saved \in [Screens -> Nat \ {0}]
    BY <1>2 DEF WorkspacesInv, WorkspacesNext
  <2>2. CASE \E c \in Screens : ScreenAdded(c) \/ ScreenRemoved(c) \/ ActivateScreen(c)
    BY <2>1, <2>2, ScreenStep DEF WorkspacesInv
  <2>3. CASE \E c \in Screens, any \in Ids : ScreenDeleted(c, any)
    BY <2>1, <2>3, ScreenDeletedStep DEF WorkspacesInv
  <2>4. CASE \/ \E c \in Screens, w \in Ids : Activate(c, w)
             \/ \E x \in Surfaces, c \in Screens, w \in Ids : MoveSurface(x, c, w)
             \/ \E x \in Surfaces : SurfaceShown(x)
    BY <2>1, <2>4, UserStep DEF WorkspacesInv
  <2>5. CASE \/ \E c \in Screens, w \in Ids : DragStart(c, w)
             \/ \E c \in Screens, any \in Ids : AddWorkspace(c, any)
             \/ \E c \in Screens, i \in Ids : DragTo(c, i)
             \/ DragOut
             \/ \E any \in Ids : Drop(any)
    BY <2>1, <2>5, SpreadStep DEF WorkspacesInv
  <2> QED
    BY <1>2, <2>2, <2>3, <2>4, <2>5 DEF WorkspacesNext
<1> QED
  BY <1>1, <1>2

(* It always holds.                                                        *)
LEMMA WorkspacesRest == WorkspacesSpec => []WorkspacesInv
<1> QED
  BY WorkspacesStarts, WorkspacesStep, PTL DEF WorkspacesSpec

(* A proxy that nobody edits always has the rows of its screen, whatever   *)
(* is dragged and committed, on however many screens                       *)
(* (ProxyWorkspaceModel's slots).                                          *)
THEOREM MirrorsFollow == WorkspacesSpec => []MirrorFollows
<1>1. WorkspacesInv => MirrorFollows
  <2> SUFFICES ASSUME WorkspacesInv, ~wm.crashed PROVE MirrorFollows
    BY DEF MirrorFollows
  <2>1. AtRest(wm, dying, held)
    BY DEF WorkspacesInv
  <2>2. \A c \in Range(wm.plugged) : wm.proxy["mirror"][c] = wm.list[c]
    BY <2>1, PluggedHas
  <2> QED
    BY <2>2 DEF MirrorFollows
<1> QED
  BY <1>1, WorkspacesRest, PTL

(* Once every unplugged screen is deleted, the active workspace is one of  *)
(* the active screen's and every screen shows one of its own, whichever    *)
(* workspace is destroyed in whichever order                               *)
(* (WorkspaceManager::destroyWorkspace(), ConcreteScreen's slots).         *)
THEOREM TheActiveIsShown == WorkspacesSpec => []ActiveIsOnActiveScreen
<1>1. WorkspacesInv => ActiveIsOnActiveScreen
  <2> SUFFICES ASSUME WorkspacesInv, Quiet PROVE ActiveIsOnActiveScreen
    BY DEF ActiveIsOnActiveScreen
  <2>1. AtRest(wm, dying, held) /\ dying = {}
    BY DEF WorkspacesInv, Quiet
  <2>2. ActiveShown(wm, dying)
    BY <2>1 DEF AtRest, Consistent
  <2>3. wm.active \in Range(wm.list[wm.activeScreen])
    BY <2>1, <2>2 DEF ActiveShown
  <2>4. \A c \in Range(wm.plugged) : wm.current[c] \in Range(wm.list[c])
    BY <2>1, PluggedHas
  <2> QED
    BY <2>3, <2>4 DEF ActiveIsOnActiveScreen
<1> QED
  BY <1>1, WorkspacesRest, PTL

(* No surface is left on a workspace that no screen has                    *)
(* (moveWorkspaceContentToWorkspace() in destroyWorkspace()).              *)
THEOREM NoSurfaceIsLost == WorkspacesSpec => []SurfacesAreReachable
<1>1. WorkspacesInv => SurfacesAreReachable
  <2> SUFFICES ASSUME WorkspacesInv, Quiet, NEW x \in Surfaces, wm.surfaces[x] # Null
               PROVE  \E c \in Range(wm.plugged) : wm.surfaces[x] \in Range(wm.list[c])
    BY DEF SurfacesAreReachable
  <2>1. AtRest(wm, dying, held) /\ dying = {}
    BY DEF WorkspacesInv, Quiet
  <2>2. Known(wm) /\ AllHeld(wm) /\ NoLimbo(wm) /\ PluggedWell(wm, dying)
    BY <2>1 DEF AtRest, Consistent, Well
  <2>3. wm.surfaces[x] \in wm.all
    BY <2>2 DEF Known
  <2>4. InLimbo(wm) = {}
    BY <2>2 DEF InLimbo, NoLimbo
  <2>5. wm.surfaces[x] \in OnScreens(wm)
    BY <2>2, <2>3, <2>4 DEF AllHeld
  <2>6. PICK c \in Screens : wm.surfaces[x] \in Range(wm.list[c])
    BY <2>5 DEF OnScreens
  <2>7. Range(<<>>) = {}
    BY EmptyRange
  <2>8. c \in Range(wm.plugged)
    BY <2>1, <2>2, <2>6, <2>7 DEF PluggedWell
  <2> QED
    BY <2>6, <2>8
<1> QED
  BY <1>1, WorkspacesRest, PTL
===============================================================================
