---------------------------- MODULE MCProjectSave ----------------------------
(* Small instances of ProjectSave. *)
EXTENDS ProjectSave, TLC

CONSTANTS d1, d2, t0, t1

(* Sound: no definition singles out a draft, and the run that uses it has   *)
(* no liveness property.                                                     *)
Symmetric == Permutations(Draft)
=============================================================================
