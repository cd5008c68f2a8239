------------------------------ MODULE CheckRun ------------------------------
(***************************************************************************)
(* A project check of one candidate: the package manager that may prepare  *)
(* its workspace, the process that runs it, the registry of what is active *)
(* for the candidate, and the save that reads the results                   *)
(* (src/electron/builder-check-run-main-service.cjs,                        *)
(* builder-check-run-runner.cjs, builder-check-dependency-preparer.cjs,     *)
(* builder-check-run-activity-registry.cjs, builder-check-run-save-gate.cjs *)
(* and the approvals of builder-check-run-approval-ipc-runtime.cjs).         *)
(*                                                                         *)
(* The approval runtime lets one check of a draft run at a time, so checks  *)
(* are numbered 1, 2, ...; processes of earlier ones may still be alive.    *)
(* A step is what the event loop does between two events of the outside    *)
(* world: the promises that connect the end of a process to the record of   *)
(* its result settle before the next event is taken.                        *)
(***************************************************************************)
EXTENDS Naturals

CONSTANTS
    MaxChecks,    \* bound: checks begun
    MaxCrashes,   \* bound: crashes of the main process
    Faults        \* which of "cleanup", "store", "spawn" may fail

ASSUME CheckAssumption ==
    /\ MaxChecks \in Nat
    /\ MaxCrashes \in Nat
    /\ Faults \subseteq {"cleanup", "store", "spawn"}

VARIABLES
    n,          \* the number of the running or last check
    at,         \* where run_approved_check() stands
    asked,      \* who asked for it, and whether it may prepare dependencies
    install,    \* the package manager process of each check
    child,      \* the process of each check: on Windows it is killed with its
                \* tree, elsewhere the adapter knows the direct child only
    stop,       \* each check's stopStatus
    ws,         \* each check's workspace directory
    results,    \* check_runs: the recorded status of each check
    skipped,    \* a check_skip_decision is recorded
    activity,   \* the registry's entry for the candidate
    saving,     \* a save is inside the gate
    evidence,   \* the result the running save was admitted on, 0: the skip
    app,        \* the application: open, draining its checks, closed
    crashes,
    strays      \* history: checks whose processes nobody waits for any more

vars == <<n, at, asked, install, child, stop, ws, results, skipped,
          activity, saving, evidence, app, crashes, strays>>

Checks == 1..MaxChecks
Request == {"automatic", "check", "allow_once"}
StopStatus == {"timed_out", "output_exceeded", "cancelled", "spawn_failed"}
Status == StopStatus \cup {"passed", "failed", "termination_failed", "environment_unavailable"}

TypeOK ==
    /\ n \in 0..MaxChecks
    /\ at \in {"idle", "probing", "preparing", "running"}
    /\ at # "idle" => n \in Checks
    /\ asked \in Request
    /\ install \in [Checks -> {"none", "alive", "ended"}]
    /\ child \in [Checks -> {"none", "alive", "passed", "failed", "killed"}]
    /\ stop \in [Checks -> StopStatus \cup {"none"}]
    /\ ws \in [Checks -> {"none", "present", "removed"}]
    /\ results \in [Checks -> Status \cup {"none"}]
    /\ skipped \in BOOLEAN
    /\ activity \in {"free", "check_run", "save"}
    /\ saving \in BOOLEAN
    /\ evidence \in 0..MaxChecks
    /\ app \in {"open", "draining", "closed"}
    /\ crashes \in 0..MaxCrashes
    /\ strays \in SUBSET Checks

-----------------------------------------------------------------------------
(* run_approved_check() *)

(* One IPC call per draft at a time; a run checks its candidate before it   *)
(* becomes a draft.  The draft, its checkpoint and the tools are read first. *)
BeginCheck(request) ==
    /\ app = "open"
    /\ at = "idle"
    /\ n < MaxChecks
    /\ request = "automatic" => n = 0 /\ ~skipped
    /\ n' = n + 1
    /\ at' = "probing"
    /\ asked' = request
    /\ UNCHANGED <<install, child, stop, ws, results, skipped,
                   activity, saving, evidence, app, crashes, strays>>

Cleanup ==
    \/ ws' = [ws EXCEPT ![n] = "removed"]
    \/ "cleanup" \in Faults /\ ws' = [ws EXCEPT ![n] = "present"]

Record(status) ==
    \/ results' = [results EXCEPT ![n] = status]
    \/ "store" \in Faults /\ UNCHANGED results

(* The readiness snapshot says that the check cannot run: a result without  *)
(* a run.  The workspace goes first, and when that fails nothing is recorded. *)
Blocked ==
    /\ at' = "idle"
    /\ \/ ws' = [ws EXCEPT ![n] = "removed"] /\ Record("environment_unavailable")
       \/ Cleanup /\ ws'[n] = "present" /\ UNCHANGED results
    /\ UNCHANGED <<child, activity, strays>>

(* The runner is entered without an await in between: it takes the registry *)
(* entry and spawns the check.                                              *)
RunnerRefuses ==
    /\ at' = "idle"
    /\ Cleanup
    /\ UNCHANGED <<child, activity, results>>

RunnerStartsAnyTime ==  \* mutant: begin_check_run replaces what is active
    /\ \/ /\ at' = "running"
          /\ activity' = "check_run"
          /\ child' = [child EXCEPT ![n] = "alive"]
          /\ ws' = [ws EXCEPT ![n] = "present"]
          /\ UNCHANGED results
       \/ RunnerRefuses
    /\ UNCHANGED strays

RunnerStarts ==
    /\ \/ /\ activity = "free"
          /\ at' = "running"
          /\ activity' = "check_run"
          /\ child' = [child EXCEPT ![n] = "alive"]
          /\ ws' = [ws EXCEPT ![n] = "present"]
          /\ UNCHANGED results
       \/ /\ activity = "free"
          /\ "spawn" \in Faults
          /\ at' = "idle"
          /\ Cleanup
          /\ Record("spawn_failed")
          /\ UNCHANGED <<child, activity>>
       \/ activity # "free" /\ RunnerRefuses
    /\ UNCHANGED strays

(* The probe has answered; the workspace is materialised and inspected.     *)
Probed ==
    /\ at = "probing"
    /\ \/ RunnerStarts /\ UNCHANGED install
       \/ Blocked /\ UNCHANGED install
       \/ RunnerRefuses /\ UNCHANGED <<install, strays>>  \* something threw
       \/ /\ asked = "allow_once"
          /\ at' = "preparing"
          /\ install' = [install EXCEPT ![n] = "alive"]
          /\ ws' = [ws EXCEPT ![n] = "present"]
          /\ UNCHANGED <<child, activity, results, strays>>
    /\ UNCHANGED <<n, asked, stop, skipped, saving, evidence, app, crashes>>

(* prepare_dependencies(): the install exits, or is given up on after a     *)
(* signal whose effect is not awaited.                                       *)
InstallCloses ==
    /\ at = "preparing"
    /\ install[n] = "ended"
    /\ RunnerStarts \/ Blocked
    /\ UNCHANGED <<n, asked, install, stop, skipped, saving, evidence, app, crashes>>

InstallTimesOut ==
    /\ at = "preparing"
    /\ Blocked
    /\ UNCHANGED <<n, asked, install, stop, skipped, saving, evidence, app, crashes>>

-----------------------------------------------------------------------------
(* The runner.  finish() takes effect once: afterwards the call is over and *)
(* what else its process, timers or kill report is ignored.                 *)

Finish(status, processClosed) ==
    /\ at' = "idle"
    /\ activity' = "free"
    /\ IF processClosed THEN Cleanup /\ UNCHANGED strays
                        ELSE UNCHANGED ws /\ strays' = strays \cup {n}
    /\ Record(status)
    /\ UNCHANGED <<n, asked, install, child, stop, skipped, saving, evidence, app, crashes>>

RequestStop(status) ==
    /\ at = "running"
    /\ stop[n] = "none"
    /\ stop' = [stop EXCEPT ![n] = status]
    /\ UNCHANGED <<n, at, asked, install, child, ws, results, skipped,
                   activity, saving, evidence, app, crashes, strays>>

TimesOut == RequestStop("timed_out")

IsStopped == \E s \in StopStatus \ {"timed_out"} : RequestStop(s)

ExitStatusAsIs == {child[n]}  \* mutant: a signal is passed on as a status

ExitStatus ==
    CASE child[n] = "passed" -> {"passed"}
      [] child[n] = "failed" -> {"failed", "environment_unavailable"}
      [] child[n] = "killed" -> {"spawn_failed"}

ClosedUnasked ==  \* mutant: the exit code decides, also after a stop
    /\ at = "running"
    /\ child[n] # "alive"
    /\ \E s \in ExitStatus : Finish(s, TRUE)

(* The child has ended and its pipes are closed.                            *)
Closed ==
    /\ at = "running"
    /\ child[n] # "alive"
    /\ IF stop[n] # "none"
       THEN Finish(stop[n], TRUE)
       ELSE \E s \in ExitStatus : Finish(s, TRUE)

KillRefusedAndCleaned ==  \* mutant: the workspace goes although the process may live
    /\ at = "running"
    /\ stop[n] # "none"
    /\ Finish("termination_failed", TRUE)

(* terminate_process_tree() answers anything but true, or rejects.          *)
KillRefused ==
    /\ at = "running"
    /\ stop[n] # "none"
    /\ Finish("termination_failed", FALSE)

TerminationTimerCleared ==  \* mutant: clearTimers() clears the second timer as well
    /\ at = "running"
    /\ stop[n] # "none"
    /\ child[n] # "alive"
    /\ Finish("termination_failed", FALSE)

(* The kill was accepted, and no close event followed in time.              *)
TerminationTimer ==
    /\ at = "running"
    /\ stop[n] # "none"
    /\ Finish("termination_failed", FALSE)

-----------------------------------------------------------------------------
(* Processes: any of them may go on for ever, or be killed at any time.     *)

ChildExits(i, how) ==
    /\ child[i] = "alive"
    /\ child' = [child EXCEPT ![i] = how]
    /\ UNCHANGED <<n, at, asked, install, stop, ws, results, skipped,
                   activity, saving, evidence, app, crashes, strays>>

InstallExits(i) ==
    /\ install[i] = "alive"
    /\ install' = [install EXCEPT ![i] = "ended"]
    /\ UNCHANGED <<n, at, asked, child, stop, ws, results, skipped,
                   activity, saving, evidence, app, crashes, strays>>

-----------------------------------------------------------------------------
(* The other users of the registry and of the results *)

NoResult == \A i \in Checks : results[i] = "none"

Latest(i) ==
    /\ i \in Checks
    /\ results[i] # "none"
    /\ \A j \in Checks : j > i => results[j] = "none"

InRun == at # "idle" /\ asked = "automatic"

SaveBeginsOnAny ==  \* mutant: an older result will do
    /\ app # "closed"
    /\ ~InRun
    /\ activity = "free"
    /\ \/ evidence' \in {i \in Checks : results[i] = "passed"}
       \/ NoResult /\ skipped /\ evidence' = 0
    /\ activity' = "save"
    /\ saving' = TRUE
    /\ UNCHANGED <<n, at, asked, install, child, stop, ws, results, skipped,
                   app, crashes, strays>>

(* with_current_candidate_save_gate(): the entry, then the latest result.   *)
SaveBegins ==
    /\ app # "closed"
    /\ ~InRun
    /\ activity = "free"
    /\ \/ evidence' \in {i \in Checks : Latest(i) /\ results[i] = "passed"}
       \/ NoResult /\ skipped /\ evidence' = 0
    /\ activity' = "save"
    /\ saving' = TRUE
    /\ UNCHANGED <<n, at, asked, install, child, stop, ws, results, skipped,
                   app, crashes, strays>>

SaveEnds ==
    /\ saving
    /\ saving' = FALSE
    /\ activity' = IF activity = "save" THEN "free" ELSE activity
    /\ UNCHANGED <<n, at, asked, install, child, stop, ws, results, skipped,
                   evidence, app, crashes, strays>>

SkipCheck ==
    /\ app = "open"
    /\ at = "idle"
    /\ activity = "free"
    /\ NoResult
    /\ skipped' = TRUE
    /\ UNCHANGED <<n, at, asked, install, child, stop, ws, results,
                   activity, saving, evidence, app, crashes, strays>>

(* before-quit: the check handlers go, and every accepted check settles     *)
(* before the stores close.  Saves and runs, the check of a run included,    *)
(* are not waited for.                                                       *)
Drain ==
    /\ app = "open"
    /\ app' = "draining"
    /\ UNCHANGED <<n, at, asked, install, child, stop, ws, results, skipped,
                   activity, saving, evidence, crashes, strays>>

Drained == at = "idle" \/ InRun

QuitAtOnce ==  \* mutant: the stores close while a check the user started runs
    /\ app = "draining"
    /\ app' = "closed"
    /\ at' = "idle"
    /\ activity' = "free"
    /\ saving' = FALSE
    /\ UNCHANGED <<n, asked, install, child, stop, ws, results, skipped,
                   evidence, crashes, strays>>

Quit ==
    /\ app = "draining"
    /\ Drained
    /\ app' = "closed"
    /\ at' = "idle"
    /\ activity' = "free"
    /\ saving' = FALSE
    /\ UNCHANGED <<n, asked, install, child, stop, ws, results, skipped,
                   evidence, crashes, strays>>

(* The processes and the directories outlive the main process, and nothing  *)
(* of the next one looks for them.                                          *)
Crash ==
    /\ app # "closed"
    /\ crashes < MaxCrashes
    /\ crashes' = crashes + 1
    /\ at' = "idle"
    /\ activity' = "free"
    /\ saving' = FALSE
    /\ app' = "open"
    /\ strays' = strays \cup {i \in Checks : child[i] = "alive"}
    /\ UNCHANGED <<n, asked, install, child, stop, ws, results, skipped, evidence>>

-----------------------------------------------------------------------------
Init ==
    /\ n = 0
    /\ at = "idle"
    /\ asked = "check"
    /\ install = [i \in Checks |-> "none"]
    /\ child = [i \in Checks |-> "none"]
    /\ stop = [i \in Checks |-> "none"]
    /\ ws = [i \in Checks |-> "none"]
    /\ results = [i \in Checks |-> "none"]
    /\ skipped = FALSE
    /\ activity = "free"
    /\ saving = FALSE
    /\ evidence = 0
    /\ app = "open"
    /\ crashes = 0
    /\ strays = {}

(* What a check does on its own: its timers fire, its answers and the       *)
(* events of its processes are handled.                                      *)
CheckStep ==
    \/ Probed \/ InstallCloses \/ InstallTimesOut
    \/ TimesOut \/ Closed \/ TerminationTimer

Processes ==
    \E i \in Checks :
        \/ \E how \in {"passed", "failed", "killed"} : ChildExits(i, how)
        \/ InstallExits(i)

Next ==
    \/ \E request \in Request : BeginCheck(request)
    \/ CheckStep
    \/ Processes
    \/ IsStopped \/ KillRefused
    \/ SaveBegins \/ SaveEnds \/ SkipCheck
    \/ Drain \/ Quit \/ Crash

Spec == Init /\ [][Next]_vars

(* The event loop gets to every timer and answer; a process may go on.      *)
Fairness == WF_vars(CheckStep) /\ WF_vars(SaveEnds) /\ WF_vars(Quit)

FairSpec == Spec /\ Fairness

-----------------------------------------------------------------------------
(* Properties *)

(* A recorded result says what happened, whichever of the process's end,    *)
(* its timeout, a cancellation and the answer of the kill came first: a     *)
(* check passed only if its process ended by itself with success before     *)
(* anyone asked it to stop, a stop's own status is recorded only when the   *)
(* process is known to be gone, and only termination_failed leaves it open. *)
ResultIsTrue ==
    \A i \in Checks :
        /\ results[i] = "passed" => child[i] = "passed" /\ stop[i] = "none"
        /\ results[i] \in {"timed_out", "output_exceeded", "cancelled"} => stop[i] = results[i]
        /\ results[i] \notin {"none", "termination_failed"} => child[i] # "alive"

(* A workspace is never removed below a check that still runs in it, also   *)
(* when its kill failed, when the store or a clean-up failed, or when a     *)
(* later check of the same candidate came and went.                         *)
WorkspaceQuiet ==
    \A i \in Checks : ws[i] = "removed" => child[i] # "alive"

(* While a save holds the candidate no check process of it runs, except one *)
(* that could not be killed or that a crash left behind.                    *)
RunExcludesSave ==
    saving => \A i \in Checks : child[i] = "alive" => i \in strays

(* No check that the user started, nor one that is still preparing, is cut  *)
(* off by closing the application: its process is over when the stores go.  *)
ShutdownWaits ==
    app = "closed" /\ asked # "automatic" =>
        \A i \in Checks : child[i] = "alive" => i \in strays

(* Registry, gate, checks and crashes together keep the contract a save is  *)
(* written against: who holds the candidate, and what the latest check has  *)
(* found, change only as CheckGate says.  Processes, timers, preparations    *)
(* and failing stores stay inside.                                           *)
Found(status) == \E i \in Checks : Latest(i) /\ results[i] = status

Verdict ==
    IF NoResult THEN IF skipped THEN "skipped" ELSE "absent"
    ELSE IF Found("passed") THEN "passed"
    ELSE IF Found("environment_unavailable") THEN "blocked"
    ELSE "failed"

Held == IF activity = "check_run" THEN "check" ELSE activity

Gate == INSTANCE CheckGate WITH held <- Held, verdict <- Verdict

GateContract == Gate!Spec

(* Every check that was begun ends, whatever its install and its process    *)
(* do, and so does the shutdown that waits for it.                          *)
CheckEnds ==
    /\ (at # "idle") ~> (at = "idle")
    /\ (app = "draining") ~> (app # "draining")

-----------------------------------------------------------------------------
(* What the documents promise, and the code does not keep                   *)

(* Shutdown reaps every owned process descendant, those excepted that could *)
(* not be killed.  (Nobody waits for, or stops, the check of a run.)         *)
ShutdownReaps ==
    app = "closed" => \A i \in Checks : child[i] = "alive" => i \in strays

(* Process-tree cleanup completes before a check's result is terminal.      *)
(* (The install that timed out is signalled and not awaited.)               *)
InstallIsReaped ==
    \A i \in Checks : results[i] = "environment_unavailable" => install[i] # "alive"

(* A save holds the candidate, so the result it was admitted on stays the   *)
(* latest one until it has ended.  (A check that is prepared, and not yet   *)
(* run, is not registered.)                                                  *)
EvidenceStands ==
    saving => IF evidence = 0 THEN NoResult ELSE Latest(evidence)
=============================================================================
