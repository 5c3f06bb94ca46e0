------------------------------ MODULE CellPool ------------------------------
(***************************************************************************)
(* What the memory cells promise their users (the view CtrlBackend takes): *)
(* a cell handed out is free until then, and nobody gets it again before   *)
(* it was given back.                                                      *)
(***************************************************************************)
CONSTANT Cells

VARIABLE unused

Init == unused = Cells

Touch   == \E c \in unused : unused' = unused \ {c}
Detouch == \E c \in Cells \ unused : unused' = unused \cup {c}

Spec == Init /\ [][Touch \/ Detouch]_unused
=============================================================================
