------------------------------ MODULE MCDescribe ------------------------------
(* Values for the runs of Describe. *)
EXTENDS Describe, TLC

\* Databases with nothing, one table, as many tables as a page holds with a wide one among
\* them, and one more.
SomeCatalogues == {<<>>, <<1>>, <<3, 1, 2>>, <<2, 1, 1, 1>>}
AllDialects == {"postgres", "mysql", "sqlite", "mongodb", "redis"}
DialectsWithObjects == AllDialects \ {"redis"}
SmallLimits == {0, 2}
=============================================================================
