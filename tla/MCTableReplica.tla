--------------------------- MODULE MCTableReplica ---------------------------
(* Instances of TableReplica for TLC: two cores on socket 0, one on         *)
(* socket 1.                                                                *)
EXTENDS TableReplica

TwoSockets == [l \in Cores |-> IF l < 2 THEN 0 ELSE 1]
=============================================================================
