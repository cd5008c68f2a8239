-------------------------- MODULE AtomicProjection --------------------------
(***************************************************************************)
(* What the projection of a candidate promises its callers: the main ref   *)
(* and the project folder, two stores without a common commit, move from   *)
(* one version to the next together or not at all, whatever dies or fails  *)
(* in between.  No journal, no private directory, no git process:          *)
(* CurrentProjection, which has them, implements this.                      *)
(***************************************************************************)
CONSTANTS
    Commit,    \* Git commit ids, the absent first one included
    Tree,      \* the source trees of commits
    TreeOf     \* the tree of a commit

VARIABLES
    ref,       \* the commit main points to
    shows,     \* the tree the folder shows, as a set: {} while it is mixed
    open,      \* a move has begun and is not decided
    move,      \* from which commit to which (the last one, when none is open)
    lost       \* the writer of the ref outlived its caller's patience

vars == <<ref, shows, open, move, lost>>

Moves == [from : Commit, to : Commit]

Init ==
    /\ ref \in Commit
    /\ shows = {TreeOf[ref]}
    /\ open = FALSE
    /\ move \in Moves
    /\ lost = FALSE

Begin ==
    /\ ~open
    /\ open' = TRUE
    /\ \E c \in Commit : move' = [from |-> ref, to |-> c]
    /\ UNCHANGED <<ref, shows, lost>>

(* Files are replaced or put back, one by one, only while main still names *)
(* the old version.                                                         *)
FilesMove ==
    /\ open
    /\ ref = move.from
    /\ shows' \in {{}, {TreeOf[move.from]}, {TreeOf[move.to]}}
    /\ UNCHANGED <<ref, open, move, lost>>

RefMoves ==
    /\ open
    /\ ref = move.from
    /\ shows = {TreeOf[move.to]}
    /\ ref' = move.to
    /\ UNCHANGED <<shows, open, move, lost>>

Decide ==
    /\ open
    /\ shows = {TreeOf[ref]}
    /\ open' = FALSE
    /\ UNCHANGED <<ref, shows, move, lost>>

(* An update of main that takes effect when its caller has given up: from   *)
(* there on nothing is promised.                                            *)
Lose ==
    /\ lost' = TRUE
    /\ ref' \in Commit
    /\ shows' \subseteq Tree
    /\ open' \in BOOLEAN
    /\ move' \in Moves

Next == Begin \/ FilesMove \/ RefMoves \/ Decide \/ Lose

Spec == Init /\ [][Next]_vars
=============================================================================
