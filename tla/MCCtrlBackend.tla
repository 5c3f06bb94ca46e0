--------------------------- MODULE MCCtrlBackend ---------------------------
(* Instances of CtrlBackend for TLC.  Cells and cores are interchangeable.  *)
EXTENDS CtrlBackend, TLC

Symmetry == Permutations(Cells) \cup Permutations(Lcores)
=============================================================================
