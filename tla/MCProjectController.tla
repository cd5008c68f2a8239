------------------------ MODULE MCProjectController ------------------------
(* A small instance of ProjectController. *)
EXTENDS ProjectController, TLC

CONSTANTS A, B, d1, d2, o1, o2

(* Projects, drafts and places for operations are not told apart by name. *)
Symmetric ==
    Permutations(Projects) \cup Permutations(Drafts) \cup Permutations(Slots)
=============================================================================
