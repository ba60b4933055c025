---------------------------- MODULE MCElmSession ----------------------------
(* ElmSession for TLC: the ECUs are interchangeable. *)
EXTENDS ElmSession, TLC

TargetSymmetry == Permutations(Targets)
=============================================================================
