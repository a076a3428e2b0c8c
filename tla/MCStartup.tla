----------------------------- MODULE MCStartup -----------------------------
(* Startup on small instances.                                             *)
EXTENDS Startup

CONSTANTS p1, p2, p3   \* model values

\* An old image next to two processes of a newer one.
OldAndNew == [p \in Processes |-> IF p = p1 THEN 2 ELSE Last]
=============================================================================
