----------------------- MODULE MCWorktreeTransaction -----------------------
(* Small instances of WorktreeTransaction: between the two trees one file  *)
(* is modified, one deleted and one created, in either direction; or none  *)
(* is deleted.                                                             *)
EXTENDS WorktreeTransaction

CONSTANTS a, b, c, x, y

MCRank == [p \in Path |-> CASE p = a -> 1 [] p = b -> 2 [] p = c -> 3]
Old == [p \in Path |-> CASE p = a -> x [] p = b -> x [] p = c -> Absent]
New == [p \in Path |-> CASE p = a -> y [] p = b -> Absent [] p = c -> y]
Full == [p \in Path |-> CASE p = a -> y [] p = b -> x [] p = c -> y]
MCTree == {Old, New, Full}
=============================================================================
