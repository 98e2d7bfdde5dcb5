---------------------------- MODULE MCSaveChanges ----------------------------
(* The first context creates a row and may load it a second time; the      *)
(* second context loads it too.  Values are interchangeable.               *)
EXTENDS SaveChanges, TLC

CONSTANTS u1, u2, o1, o2, o3, a, v1, v2

MCContexts == {u1, u2}
MCObjects == {o1, o2, o3}
MCNew == {o1}
MCOwner == o1 :> u1 @@ o2 :> u2 @@ o3 :> u1
MCRow == o1 :> a @@ o2 :> a @@ o3 :> a
MCValues == {v1, v2}
Symmetry == Permutations(MCValues)

(* Bounds: any two of the three objects are tracked together, never all;   *)
(* only the second context's is filled, and then the third is not tracked. *)
AtMostTwoTracked ==
  /\ \E o \in Objects : state[o] = "Untracked"
  /\ filled = {} \/ (filled = {o2} /\ state[o3] = "Untracked")
=============================================================================
