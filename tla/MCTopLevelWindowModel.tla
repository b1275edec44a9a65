----------------------- MODULE MCTopLevelWindowModel -----------------------
(* Small instances of TopLevelWindowModel for TLC: the applications that   *)
(* own the surfaces, and what may happen in a behaviour.                   *)
EXTENDS TopLevelWindowModel, TLC

CONSTANTS a1, a2, s1, s2

OneOfEach == (s1 :> a1) @@ (s2 :> a2)
BothOfOne == (s1 :> a1) @@ (s2 :> a1)
OfNoApp == (s1 :> NoApp) @@ (s2 :> NoApp)

With(licences, bound) ==
    {[licences |-> licences, apps |-> Apps, surfaces |-> Surfaces, maxEvents |-> bound]}
ClosingEnvironments == With({"orderly", "obey"}, 0)
RefocusingEnvironments == With({"refocus"}, 1)
MovingEnvironments == With({"move"}, 1)
TwoKeyboardsEnvironments == With({"keyboards"}, 0)
=============================================================================
