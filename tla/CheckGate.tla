------------------------------ MODULE CheckGate ------------------------------
(***************************************************************************)
(* What the check registry and the save gate promise of one candidate: who *)
(* holds it, and what its checks have found.  No process, timer, workspace *)
(* or store: CheckRun, which has them, implements this for one candidate,  *)
(* and ProjectSave, which has the saves, for each of its drafts.           *)
(***************************************************************************)
VARIABLES
    held,      \* nobody, a check or a save holds the candidate
    verdict    \* of the latest check, or the decision to go without one

vars == <<held, verdict>>

Init ==
    /\ held = "free"
    /\ verdict = "absent"

CheckTakes ==
    /\ held = "free"
    /\ held' = "check"
    /\ UNCHANGED verdict

(* A check that has run says what it found, and holds nothing any more.     *)
CheckGives ==
    /\ held # "save"
    /\ held' = "free"
    /\ verdict' \in {"passed", "failed", "blocked"}

(* One that could not be run may say so at any time.                        *)
CheckIsBlocked ==
    /\ verdict' = "blocked"
    /\ UNCHANGED held

CheckIsSkipped ==
    /\ held = "free"
    /\ verdict = "absent"
    /\ verdict' = "skipped"
    /\ UNCHANGED held

SaveTakes ==
    /\ held = "free"
    /\ verdict \in {"passed", "skipped"}
    /\ held' = "save"
    /\ UNCHANGED verdict

(* A save is over, a result could not be stored, the process has died.      *)
LetsGo ==
    /\ held' = "free"
    /\ UNCHANGED verdict

Next == CheckTakes \/ CheckGives \/ CheckIsBlocked \/ CheckIsSkipped \/ SaveTakes \/ LetsGo

Spec == Init /\ [][Next]_vars
=============================================================================
