-------------------------- MODULE MCConnectionCache --------------------------
(* Values and symmetries for the runs of ConnectionCache. *)
EXTENDS ConnectionCache, TLC

CONSTANTS c1, c2, c3, k1, k2, k3

ThreeCalls == {c1, c2, c3}
TwoCalls == {c1, c2}
OneKey == {k1}
TwoKeys == {k1, k2}
ThreeKeys == {k1, k2, k3}

Symmetry3 == Permutations(ThreeCalls)
Symmetry3K3 == Permutations(ThreeCalls) \cup Permutations(ThreeKeys)
=============================================================================
