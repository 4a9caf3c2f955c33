----------------------------- MODULE MCSession -----------------------------
(* Instances of Session for TLC.  Callers are interchangeable, and so are  *)
(* scanner objects; symmetry is used where no liveness is checked.         *)
EXTENDS Session, TLC

Symmetry == Permutations(Callers) \cup Permutations(Scanners)
=============================================================================
