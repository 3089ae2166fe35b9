------------------------------- MODULE MCServer -------------------------------
(* Values for the runs of Server. *)
EXTENDS Server, TLC

CONSTANTS r1, r2

OneRequest == {r1}
SecondRequest == {r2}
TwoRequests == {r1, r2}
=============================================================================
