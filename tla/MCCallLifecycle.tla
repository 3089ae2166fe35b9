--------------------------- MODULE MCCallLifecycle ---------------------------
(* Values and symmetries for the runs of CallLifecycle. *)
EXTENDS CallLifecycle, TLC

CONSTANTS c1, c2, c3, k1, k2

TwoCalls == {c1, c2}
ThreeCalls == {c1, c2, c3}
OneKey == {k1}
TwoKeys == {k1, k2}

Symmetry2 == Permutations(TwoCalls)
Symmetry3 == Permutations(ThreeCalls)

\* AcquireSettles, under the drivers that answer: every acquire() of a call, with its evictions,
\* joined creations and rebuilds, ends with an adapter or an error.
AcquiresSettle == Fairness => AcquireSettles
=============================================================================
