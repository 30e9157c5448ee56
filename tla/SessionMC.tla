------------------------------ MODULE SessionMC ------------------------------
(* Instances of Session for TLC. *)
EXTENDS Session, TLC

(* The names of variables are interchangeable. *)
Symmetry == Permutations(Names)
=============================================================================
