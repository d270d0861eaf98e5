---------------------------- MODULE MCPlacement ----------------------------
(* Two groups; group 0 has two members that take turns leading it.         *)
EXTENDS Placement

MCGroupOf == [m \in {1, 2, 3} |-> IF m = 3 THEN 1 ELSE 0]
=============================================================================
