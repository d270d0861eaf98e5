---------------------------- MODULE MCShardStore ----------------------------
(* Two texts that share a term and differ in another; the fields of the    *)
(* second may come in two orders.  The sign patterns tell nothing apart.   *)
EXTENDS ShardSearch

MCDoc ==
  [key : {0}, text : {1, 2}, rev : {1, 2}] \cup [key : {1}, text : {1, 2}, rev : {1}]
    \cup [key : {2}, text : {1}, rev : {2}]

MCFreq == [x \in {1, 2} |-> IF x = 1 THEN [t \in {"a", "b"} |-> IF t = "a" THEN 2 ELSE 0]
                            ELSE [t \in {"a", "b"} |-> 1]]

MCOrders == [x \in {1, 2} |-> 1 .. x]

MCDistance == [x \in {1, 2} |-> [y \in {1, 2} |-> IF x = y THEN 0 ELSE 1]]

MCHamming == [x \in {1, 2} |-> [y \in {1, 2} |-> 0]]
=============================================================================
