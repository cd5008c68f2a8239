----------------------------- MODULE VersionLine -----------------------------
(***************************************************************************)
(* What the history of a project promises: saved versions are appended one *)
(* after the other, nothing that was saved is taken back or given another  *)
(* parent, and the conversation announces only what was saved.  No save,   *)
(* check, folder, main or journal: ProjectSave, which has them, implements *)
(* this.                                                                   *)
(***************************************************************************)
CONSTANTS
    Version,   \* what may be saved
    None       \* before the first version

VARIABLES
    tip,       \* the current version
    line,      \* the saved versions, each behind its parent
    accepted   \* the versions the conversation says are accepted

vars == <<tip, line, accepted>>

Saved == {edge[2] : edge \in line}

Init ==
    /\ tip = None
    /\ line = {}
    /\ accepted = {}

Append(v) ==
    /\ v \notin Saved
    /\ line' = line \cup {<<tip, v>>}
    /\ tip' = v
    /\ UNCHANGED accepted

Accept(v) ==
    /\ v \in Saved
    /\ accepted' = accepted \cup {v}
    /\ UNCHANGED <<tip, line>>

Next == \E v \in Version : Append(v) \/ Accept(v)

Spec == Init /\ [][Next]_vars
=============================================================================
