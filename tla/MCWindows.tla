----------------------------- MODULE MCWindows -----------------------------
(***************************************************************************)
(* One application with two surfaces, which move between workspaces or     *)
(* hide and show, or with three; two applications with splash screens, the *)
(* second the one that owns X11 surfaces; one surface with a child surface *)
(* or a keyboard, at addresses that are used again; or two keyboards. A    *)
(* behaviour is of one environment.                                        *)
(***************************************************************************)
EXTENDS TopLevelWindowModel, TLC

CONSTANTS a1, a2, s1, t1, u1, s2, child, k1, k2

Owners == (s1 :> a1) @@ (t1 :> a1) @@ (u1 :> a1) @@
           (s2 :> a2) @@ (child :> NoApp) @@ (k1 :> NoApp) @@ (k2 :> NoApp)
X11Names == {<<s2, a1>>}

Environment(licences, apps, surfaces, bound) ==
    [licences |-> licences, apps |-> apps, surfaces |-> surfaces, maxEvents |-> bound]

\* Two of the first application's surfaces move, hide or show.
Pairs == {pair \in SUBSET {s1, t1, u1} : Cardinality(pair) = 2}
Moving(pair) == Environment({"move"}, {a1}, pair, 0)
MovingAll(pair) == Environment({"moveAll"}, {a1}, pair, 1)
Hiding(pair) == Environment({"hide", "refocus"}, {a1}, pair, 1)
\* Three surfaces take the focus from one another.
ThreeSurfaces == Environment({"refocus"}, {a1}, {s1, t1, u1}, 0)
\* The focus moves freely, applications may start while all windows are closed.
TwoApps(s) == Environment({"refocus", "lateStart"}, {a1, a2}, {s, s2}, 1)
WithChild(s) == Environment({"refocus", "reuse"}, {a1}, {s, child}, 0)
WithKeyboard(s) == Environment({"refocus", "reuse"}, {a1}, {s, k1}, 1)
TwoKeyboards == Environment({"refocus", "reuse", "keyboards"}, {}, {k1, k2}, 1)
AllEnvironments ==
    {ThreeSurfaces, TwoKeyboards}
    \cup UNION {{Moving(pair), MovingAll(pair), Hiding(pair)} : pair \in Pairs}
    \cup UNION {{TwoApps(s), WithChild(s), WithKeyboard(s)} : s \in {s1, t1, u1}}

\* The surfaces of the first application may be exchanged.
SameApp == Permutations({s1, t1, u1})
=============================================================================
