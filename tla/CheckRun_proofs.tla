-------------------------- MODULE CheckRun_proofs --------------------------
(* Proofs about CheckRun: for any number of checks, crashes and faults.    *)
EXTENDS CheckRun, TLAPS

(* A check that has not begun has left nothing, one that is prepared has    *)
(* no process, no stop and no result yet.                                    *)
Fresh ==
    \A i \in Checks :
        i > n \/ (i = n /\ at \in {"probing", "preparing"}) =>
            /\ child[i] = "none" /\ stop[i] = "none" /\ results[i] = "none"
            /\ i \notin strays

(* A process that somebody still answers for is that of the running check,  *)
(* unless the application was closed during a run.                           *)
AnsweredFor ==
    \A i \in Checks :
        child[i] = "alive" /\ i \notin strays =>
            i = n /\ (at = "running" \/ (app = "closed" /\ asked = "automatic"))

(* The registry's entry is the running check's or the save's.               *)
Entry ==
    /\ at = "running" <=> activity = "check_run"
    /\ saving <=> activity = "save"
    /\ app = "closed" => at = "idle" /\ ~saving

Running ==
    at = "running" => child[n] # "none" /\ results[n] = "none" /\ ws[n] = "present"

Inv == TypeOK /\ Fresh /\ AnsweredFor /\ Entry /\ Running /\ ResultIsTrue /\ WorkspaceQuiet

LEMMA InitInv == Init => Inv
  <1> SUFFICES ASSUME Init PROVE Inv
    OBVIOUS
  <1>1. TypeOK
    <2>1. 0 \in 0..MaxChecks /\ 0 \in 0..MaxCrashes
      BY CheckAssumption
    <2>2. install \in [Checks -> {"none", "alive", "ended"}]
          /\ child \in [Checks -> {"none", "alive", "passed", "failed", "killed"}]
          /\ ws \in [Checks -> {"none", "present", "removed"}]
      BY DEF Init
    <2>3. stop \in [Checks -> StopStatus \cup {"none"}]
          /\ results \in [Checks -> Status \cup {"none"}]
      BY DEF Init
    <2> QED
      BY <2>1, <2>2, <2>3 DEF Init, TypeOK, Request
  <1>2. Fresh
    BY DEF Init, Fresh
  <1>4. AnsweredFor /\ ResultIsTrue /\ WorkspaceQuiet
    BY DEF Init, AnsweredFor, ResultIsTrue, WorkspaceQuiet
  <1>3. Entry /\ Running
    BY DEF Init, Entry, Running
  <1> QED
    BY <1>1, <1>2, <1>3, <1>4 DEF Inv

(* Between probing and running: the ways a check ends without a process.    *)
LEMMA NoProcessStep ==
    ASSUME Inv, at \in {"probing", "preparing"},
           Blocked \/ (RunnerRefuses /\ UNCHANGED strays) \/ RunnerStarts,
           install' \in [Checks -> {"none", "alive", "ended"}],
           UNCHANGED <<n, asked, stop, skipped, saving, evidence, app, crashes>>
    PROVE  Inv'
  <1>1. n \in Checks /\ child[n] = "none" /\ results[n] = "none" /\ stop[n] = "none"
        /\ n \notin strays
    BY DEF Inv, TypeOK, Fresh
  <1>2. TypeOK'
    <2>1. ws' \in [Checks -> {"none", "present", "removed"}]
      BY <1>1 DEF Inv, TypeOK, Blocked, RunnerRefuses, RunnerStarts, Cleanup
    <2>2. results' \in [Checks -> Status \cup {"none"}]
      BY <1>1 DEF Inv, TypeOK, Blocked, RunnerRefuses, RunnerStarts, Record, Status, StopStatus
    <2>3. child' \in [Checks -> {"none", "alive", "passed", "failed", "killed"}]
          /\ at' \in {"idle", "running"} /\ activity' \in {"free", "check_run", "save"}
          /\ strays' = strays
      BY <1>1 DEF Inv, TypeOK, Blocked, RunnerRefuses, RunnerStarts
    <2> QED
      BY <1>1, <2>1, <2>2, <2>3 DEF Inv, TypeOK
  <1>3. Fresh' /\ AnsweredFor'
    <2>1. \A i \in Checks : i > n => i # n
      BY <1>1 DEF Checks
    <2>2. \A i \in Checks : i # n => results'[i] = results[i] /\ child'[i] = child[i]
      BY <1>1 DEF Inv, TypeOK, Blocked, RunnerRefuses, RunnerStarts, Record
    <2>3. at' \in {"idle", "running"} /\ strays' = strays
          /\ (child'[n] = "alive" => at' = "running")
      BY <1>1 DEF Blocked, RunnerRefuses, RunnerStarts
    <2>4. Fresh'
      BY <1>1, <2>1, <2>2, <2>3 DEF Inv, Fresh
    <2>5. AnsweredFor'
      BY <1>1, <2>2, <2>3 DEF Inv, AnsweredFor, Entry
    <2> QED
      BY <2>4, <2>5
  <1>4. Entry' /\ Running'
    BY <1>1 DEF Inv, TypeOK, Entry, Blocked, RunnerRefuses, RunnerStarts, Cleanup, Running
  <1>5. ResultIsTrue'
    BY <1>1 DEF Inv, TypeOK, ResultIsTrue, Blocked, RunnerRefuses, RunnerStarts, Record
  <1>6. WorkspaceQuiet'
    BY <1>1 DEF Inv, TypeOK, WorkspaceQuiet, Blocked, RunnerRefuses, RunnerStarts, Cleanup
  <1> QED
    BY <1>2, <1>3, <1>4, <1>5, <1>6 DEF Inv

(* The end of a process, or of the patience with it.                        *)
LEMMA FinishStep ==
    ASSUME Inv, at = "running",
           NEW status \in Status, NEW closed \in BOOLEAN,
           closed <=> child[n] # "alive" /\ status # "termination_failed",
           ~closed => status = "termination_failed",
           status = "passed" => child[n] = "passed" /\ stop[n] = "none",
           status \in {"timed_out", "output_exceeded", "cancelled"} => stop[n] = status,
           Finish(status, closed)
    PROVE  Inv'
  <1>1. n \in Checks /\ results[n] = "none"
    BY DEF Inv, TypeOK, Running
  <1>2. TypeOK'
    <2>1. ws' \in [Checks -> {"none", "present", "removed"}]
      BY <1>1 DEF Inv, TypeOK, Finish, Cleanup
    <2>2. results' \in [Checks -> Status \cup {"none"}]
      BY <1>1 DEF Inv, TypeOK, Finish, Record
    <2>3. strays' \in SUBSET Checks
      BY <1>1 DEF Inv, TypeOK, Finish
    <2> QED
      BY <1>1, <2>1, <2>2, <2>3 DEF Inv, TypeOK, Finish
  <1>3. Fresh'
    <2>1. \A i \in Checks : i > n => i # n
      BY <1>1 DEF Checks
    <2>2. \A i \in Checks : i # n => results'[i] = results[i] /\ (i \in strays' => i \in strays)
      BY <1>1 DEF Inv, TypeOK, Finish, Record
    <2> QED
      BY <1>1, <2>1, <2>2 DEF Inv, Fresh, Finish
  <1>7. AnsweredFor'
    BY <1>1 DEF Inv, TypeOK, AnsweredFor, Entry, Finish
  <1>4. Entry' /\ Running'
    BY <1>1 DEF Inv, TypeOK, Entry, Finish, Running
  <1>5. ResultIsTrue'
    BY <1>1 DEF Inv, TypeOK, ResultIsTrue, Finish, Record, Status, StopStatus
  <1>6. WorkspaceQuiet'
    BY <1>1 DEF Inv, TypeOK, WorkspaceQuiet, Finish, Cleanup, Running
  <1> QED
    BY <1>2, <1>3, <1>7, <1>4, <1>5, <1>6 DEF Inv

LEMMA RunnerStep ==
    ASSUME Inv, TimesOut \/ IsStopped \/ Closed \/ KillRefused \/ TerminationTimer
    PROVE  Inv'
  <1>1. CASE TimesOut \/ IsStopped
    <2>1. PICK status \in StopStatus : RequestStop(status)
      BY <1>1 DEF TimesOut, IsStopped, StopStatus
    <2>2. n \in Checks /\ results[n] = "none"
      BY <2>1 DEF RequestStop, Inv, TypeOK, Running
    <2>3. TypeOK' /\ Fresh' /\ AnsweredFor'
      BY <2>1, <2>2 DEF RequestStop, Inv, TypeOK, Fresh, AnsweredFor, Checks
    <2>4. Entry' /\ Running' /\ WorkspaceQuiet'
      BY <2>1, <2>2 DEF RequestStop, Inv, Entry, Running, WorkspaceQuiet
    <2>5. ResultIsTrue'
      BY <2>1, <2>2 DEF RequestStop, Inv, TypeOK, ResultIsTrue
    <2> QED
      BY <2>3, <2>4, <2>5 DEF Inv
  <1>2. CASE Closed
    <2>1. n \in Checks /\ child[n] \in {"passed", "failed", "killed"}
      BY <1>2 DEF Inv, TypeOK, Closed, Running
    <2>2. CASE stop[n] # "none"
      BY <1>2, <2>1, <2>2, FinishStep DEF Closed, Inv, TypeOK, Status, StopStatus
    <2>3. CASE stop[n] = "none"
      <3>1. PICK s \in ExitStatus : Finish(s, TRUE)
        BY <1>2, <2>3 DEF Closed
      <3>2. s \in Status /\ s # "termination_failed" /\ (s = "passed" => child[n] = "passed")
            /\ s \notin {"timed_out", "output_exceeded", "cancelled"}
        BY <2>1, <3>1 DEF ExitStatus, Status, StopStatus
      <3> QED
        BY <1>2, <2>1, <2>3, <3>1, <3>2, FinishStep DEF Closed
    <2> QED
      BY <2>2, <2>3
  <1>3. CASE KillRefused \/ TerminationTimer
    BY <1>3, FinishStep DEF KillRefused, TerminationTimer, Status
  <1> QED
    BY <1>1, <1>2, <1>3

LEMMA OtherStep ==
    ASSUME Inv,
           \/ \E request \in Request : BeginCheck(request)
           \/ Processes \/ SaveBegins \/ SaveEnds \/ SkipCheck
           \/ Drain \/ Quit \/ Crash
    PROVE  Inv'
  <1>1. CASE \E request \in Request : BeginCheck(request)
    <2>1. PICK request \in Request : BeginCheck(request)
      BY <1>1
    <2>2. TypeOK' /\ Fresh' /\ AnsweredFor' /\ Entry'
      BY <2>1, CheckAssumption DEF Inv, TypeOK, Fresh, AnsweredFor, Entry, BeginCheck, Checks
    <2>3. Running' /\ ResultIsTrue' /\ WorkspaceQuiet'
      BY <2>1 DEF Inv, Running, ResultIsTrue, WorkspaceQuiet, BeginCheck
    <2> QED
      BY <2>2, <2>3 DEF Inv
  <1>2. CASE Processes
    <2>1. PICK i \in Checks :
             \/ \E how \in {"passed", "failed", "killed"} : ChildExits(i, how)
             \/ InstallExits(i)
      BY <1>2 DEF Processes
    <2>2. CASE \E how \in {"passed", "failed", "killed"} : ChildExits(i, how)
      BY <2>2 DEF Inv, TypeOK, Fresh, AnsweredFor, Entry, Running, ResultIsTrue, WorkspaceQuiet,
         ChildExits
    <2>3. CASE InstallExits(i)
      BY <2>3 DEF Inv, TypeOK, Fresh, AnsweredFor, Entry, Running, ResultIsTrue, WorkspaceQuiet,
         InstallExits
    <2> QED
      BY <2>1, <2>2, <2>3
  <1>3. CASE SaveBegins
    BY <1>3, CheckAssumption DEF Inv, TypeOK, Fresh, AnsweredFor, Entry, Running, ResultIsTrue,
       WorkspaceQuiet, SaveBegins, Checks
  <1>4. CASE SaveEnds
    BY <1>4 DEF Inv, TypeOK, Fresh, AnsweredFor, Entry, Running, ResultIsTrue, WorkspaceQuiet,
       SaveEnds
  <1>7. CASE SkipCheck
    BY <1>7 DEF Inv, TypeOK, Fresh, AnsweredFor, Entry, Running, ResultIsTrue, WorkspaceQuiet,
       SkipCheck
  <1>8. CASE Drain
    BY <1>8 DEF Inv, TypeOK, Fresh, AnsweredFor, Entry, Running, ResultIsTrue, WorkspaceQuiet,
       Drain
  <1>5. CASE Quit
    BY <1>5 DEF Inv, TypeOK, Fresh, AnsweredFor, Entry, Running, ResultIsTrue, WorkspaceQuiet,
       Quit, Drained, InRun
  <1>6. CASE Crash
    <2>1. TypeOK'
      <3>1. strays' \in SUBSET Checks
        BY <1>6 DEF Inv, TypeOK, Crash
      <3>2. crashes' \in 0..MaxCrashes
        BY <1>6, CheckAssumption DEF Inv, TypeOK, Crash
      <3> QED
        BY <1>6, <3>1, <3>2 DEF Inv, TypeOK, Crash
    <2>2. Fresh' /\ AnsweredFor'
      BY <1>6 DEF Inv, TypeOK, Fresh, AnsweredFor, Crash
    <2>3. Entry' /\ Running' /\ ResultIsTrue' /\ WorkspaceQuiet'
      BY <1>6 DEF Inv, Entry, Running, ResultIsTrue, WorkspaceQuiet, Crash
    <2> QED
      BY <2>1, <2>2, <2>3 DEF Inv
  <1> QED
    BY <1>1, <1>2, <1>3, <1>4, <1>5, <1>6, <1>7, <1>8

LEMMA NextInv == Inv /\ [Next]_vars => Inv'
  <1> SUFFICES ASSUME Inv, [Next]_vars PROVE Inv'
    OBVIOUS
  <1>1. CASE Probed
    <2>1. CASE at' = "preparing"
      BY <1>1, <2>1 DEF Inv, TypeOK, Fresh, AnsweredFor, Entry, Running, ResultIsTrue,
         WorkspaceQuiet, Probed, RunnerStarts, Blocked, RunnerRefuses
    <2>2. CASE at' # "preparing"
      BY <1>1, <2>2, NoProcessStep DEF Probed, Inv, TypeOK
    <2> QED
      BY <2>1, <2>2
  <1>2. CASE InstallCloses \/ InstallTimesOut
    BY <1>2, NoProcessStep DEF InstallCloses, InstallTimesOut, Inv, TypeOK
  <1>3. CASE TimesOut \/ IsStopped \/ Closed \/ KillRefused \/ TerminationTimer
    BY <1>3, RunnerStep
  <1>4. CASE UNCHANGED vars
    BY <1>4 DEF vars, Inv, TypeOK, Fresh, AnsweredFor, Entry, Running, ResultIsTrue, WorkspaceQuiet
  <1> QED
    BY <1>1, <1>2, <1>3, <1>4, OtherStep DEF Next, CheckStep

(* Every variable keeps its type, and the invariant holds, whatever dies or *)
(* fails.                                                                   *)
THEOREM InvCorrect == Spec => []Inv
  BY InitInv, NextInv, PTL DEF Spec

THEOREM TypeCorrect == Spec => []TypeOK
  <1>1. Inv => TypeOK
    BY DEF Inv
  <1> QED
    BY <1>1, InvCorrect, PTL

(* Whatever comes first of the process's end, the timeout, a cancellation   *)
(* and the answer of the kill, the recorded status is true.                  *)
THEOREM ResultCorrect == Spec => []ResultIsTrue
  <1>1. Inv => ResultIsTrue
    BY DEF Inv
  <1> QED
    BY <1>1, InvCorrect, PTL

(* No workspace is removed below a running check.                           *)
THEOREM QuietCorrect == Spec => []WorkspaceQuiet
  <1>1. Inv => WorkspaceQuiet
    BY DEF Inv
  <1> QED
    BY <1>1, InvCorrect, PTL

(* Checks and saves of a candidate exclude one another as far as processes  *)
(* go that can be stopped.                                                  *)
THEOREM ExclusionCorrect == Spec => []RunExcludesSave
  <1>1. Inv => RunExcludesSave
    BY DEF Inv, AnsweredFor, Entry, RunExcludesSave
  <1> QED
    BY <1>1, InvCorrect, PTL

(* Closing the application waits for what the user started.                 *)
THEOREM ShutdownCorrect == Spec => []ShutdownWaits
  <1>1. Inv => ShutdownWaits
    BY DEF Inv, AnsweredFor, Entry, ShutdownWaits
  <1> QED
    BY <1>1, InvCorrect, PTL

-----------------------------------------------------------------------------
(* The contract of the gate *)

(* The verdict is a matter of the results and of the decision to skip. *)
LEMMA VerdictFrame ==
    ASSUME UNCHANGED <<results, skipped>>
    PROVE  Verdict' = Verdict
  BY DEF Verdict, NoResult, Found, Latest

(* What the last check records is the verdict. *)
LEMMA RecordedVerdict ==
    ASSUME Inv, n \in Checks, NEW status \in Status,
           results' = [results EXCEPT ![n] = status]
    PROVE  Verdict' = IF status = "passed" THEN "passed"
                      ELSE IF status = "environment_unavailable" THEN "blocked"
                      ELSE "failed"
  <1> PICK m \in Checks : m = n
    OBVIOUS
  <1>1. results'[m] = status /\ status # "none"
    BY DEF Inv, TypeOK, Status, StopStatus
  <1>2. \A j \in Checks : j > m => results'[j] = "none"
    <2>1. \A j \in Checks : j > m => j # n /\ results[j] = "none"
      BY DEF Inv, Fresh, Checks
    <2> QED
      BY <2>1 DEF Inv, TypeOK
  <1>3. \A i \in Checks : Latest(i)' <=> i = m
    <2>1. Latest(m)'
      BY <1>1, <1>2 DEF Latest
    <2>2. ASSUME NEW i \in Checks, Latest(i)', i # m PROVE FALSE
      <3>1. results'[i] # "none" /\ (m > i => results'[m] = "none")
        BY <2>2 DEF Latest
      <3>2. ~(i > m) /\ ~(m > i)
        BY <1>1, <1>2, <3>1
      <3> QED
        BY <2>2, <3>2 DEF Checks
    <2> QED
      BY <2>1, <2>2
  <1>4. \A s : Found(s)' <=> status = s
    BY <1>1, <1>3 DEF Found
  <1>5. ~NoResult'
    BY <1>1 DEF NoResult
  <1> QED
    BY <1>4, <1>5 DEF Verdict

(* A record is made or fails; who makes it holds nothing afterwards. *)
LEMMA RecordGives ==
    ASSUME Inv, n \in Checks, NEW status \in Status, Record(status), skipped' = skipped,
           activity \in {"free", "check_run"}, activity' = "free"
    PROVE  Gate!Next
  <1>1. Held # "save" /\ Held' = "free"
    BY DEF Held
  <1>2. CASE results' = [results EXCEPT ![n] = status]
    BY <1>1, <1>2, RecordedVerdict DEF Gate!Next, Gate!CheckGives
  <1>3. CASE UNCHANGED results
    BY <1>1, <1>3, VerdictFrame DEF Gate!Next, Gate!LetsGo
  <1> QED
    BY <1>2, <1>3 DEF Record

(* Nothing is held, and nothing found, that changes. *)
LEMMA GateFrame ==
    ASSUME UNCHANGED <<results, skipped, activity>>
    PROVE  UNCHANGED Gate!vars
  BY VerdictFrame DEF Gate!vars, Held

(* The check that could not be run, and the runner as it is entered. *)
LEMMA PreparedStep ==
    ASSUME Inv, at \in {"probing", "preparing"}, skipped' = skipped,
           Blocked \/ RunnerRefuses \/ RunnerStarts
    PROVE  [Gate!Next]_(Gate!vars)
  <1>0. n \in Checks
    BY DEF Inv, TypeOK
  <1>1. CASE Blocked
    <2>1. Held' = Held
      BY <1>1 DEF Blocked, Held
    <2>2. CASE results' = [results EXCEPT ![n] = "environment_unavailable"]
      <3>1. "environment_unavailable" \in Status
        BY DEF Status
      <3>2. Verdict' = "blocked"
        BY <1>0, <2>2, <3>1, RecordedVerdict
      <3> QED
        BY <2>1, <3>2 DEF Gate!Next, Gate!CheckIsBlocked
    <2>3. CASE UNCHANGED results
      BY <1>1, <2>3, GateFrame DEF Blocked
    <2> QED
      BY <1>1, <2>2, <2>3 DEF Blocked, Record
  <1>2. CASE RunnerRefuses
    BY <1>2, GateFrame DEF RunnerRefuses
  <1>3. CASE RunnerStarts
    <2>1. CASE activity = "free" /\ activity' = "check_run" /\ UNCHANGED results
      <3>1. Held = "free" /\ Held' = "check"
        BY <2>1 DEF Held
      <3> QED
        BY <2>1, <3>1, VerdictFrame DEF Gate!Next, Gate!CheckTakes
    <2>2. CASE activity = "free" /\ Record("spawn_failed") /\ activity' = activity
      BY <1>0, <2>2, RecordGives DEF Status, StopStatus
    <2> QED
      BY <1>2, <1>3, <2>1, <2>2 DEF RunnerStarts
  <1> QED
    BY <1>1, <1>2, <1>3

(* The end of the runner. *)
LEMMA FinishGives ==
    ASSUME Inv, at = "running", NEW status \in Status, NEW closed \in BOOLEAN,
           Finish(status, closed)
    PROVE  Gate!Next
  <1>1. n \in Checks /\ activity = "check_run"
    BY DEF Inv, TypeOK, Entry
  <1> QED
    BY <1>1, RecordGives DEF Finish

(* Every step is one that the contract allows. *)
LEMMA GateStep ==
    ASSUME Inv, [Next]_vars
    PROVE  [Gate!Next]_(Gate!vars)
  <1>1. CASE UNCHANGED <<results, skipped, activity>>
    BY <1>1, GateFrame
  <1>2. CASE Probed
    <2>1. CASE at' = "preparing"
      BY <1>1, <1>2, <2>1 DEF Probed, RunnerStarts, Blocked, RunnerRefuses
    <2>2. CASE at' # "preparing"
      BY <1>2, <2>2, PreparedStep DEF Probed
    <2> QED
      BY <2>1, <2>2
  <1>3. CASE InstallCloses \/ InstallTimesOut
    BY <1>3, PreparedStep DEF InstallCloses, InstallTimesOut
  <1>4. CASE Closed \/ KillRefused \/ TerminationTimer
    <2>1. PICK status \in Status, closed \in BOOLEAN : Finish(status, closed)
      <3>1. CASE Closed
        <4>1. stop[n] # "none" => stop[n] \in Status
          BY <3>1 DEF Closed, Inv, TypeOK, Status
        <4>2. ExitStatus \subseteq Status
          <5>1. child[n] \in {"passed", "failed", "killed"}
            BY <3>1 DEF Closed, Inv, TypeOK, Running
          <5> QED
            BY <5>1 DEF ExitStatus, Status, StopStatus
        <4> QED
          BY <3>1, <4>1, <4>2 DEF Closed
      <3>2. CASE KillRefused \/ TerminationTimer
        BY <3>2 DEF KillRefused, TerminationTimer, Status
      <3> QED
        BY <1>4, <3>1, <3>2
    <2>2. at = "running"
      BY <1>4 DEF Closed, KillRefused, TerminationTimer
    <2> QED
      BY <2>1, <2>2, FinishGives
  <1>5. CASE SaveBegins
    <2>1. Held = "free" /\ Held' = "save" /\ Verdict' = Verdict
      BY <1>5, VerdictFrame DEF SaveBegins, Held
    <2>2. Verdict \in {"passed", "skipped"}
      <3>1. CASE NoResult /\ skipped
        BY <3>1 DEF Verdict
      <3>2. CASE \E i \in Checks : Latest(i) /\ results[i] = "passed"
        BY <3>2 DEF Verdict, Found, NoResult
      <3> QED
        BY <1>5, <3>1, <3>2 DEF SaveBegins
    <2> QED
      BY <2>1, <2>2 DEF Gate!Next, Gate!SaveTakes
  <1>6. CASE SaveEnds \/ Quit \/ Crash
    <2>1. Held' = "free"
      BY <1>6 DEF SaveEnds, Quit, Crash, Held, Inv, Entry
    <2>2. Verdict' = Verdict
      BY <1>6, VerdictFrame DEF SaveEnds, Quit, Crash
    <2> QED
      BY <2>1, <2>2 DEF Gate!Next, Gate!LetsGo
  <1>7. CASE SkipCheck
    <2>1. CASE skipped
      BY <1>1, <1>7, <2>1 DEF SkipCheck, Inv, TypeOK
    <2>2. CASE ~skipped
      <3>1. Held = "free" /\ Held' = Held
        BY <1>7 DEF SkipCheck, Held
      <3>2. Verdict = "absent" /\ Verdict' = "skipped"
        BY <1>7, <2>2 DEF SkipCheck, Verdict, NoResult
      <3> QED
        BY <3>1, <3>2 DEF Gate!Next, Gate!CheckIsSkipped
    <2> QED
      BY <2>1, <2>2
  <1>8. CASE (\E request \in Request : BeginCheck(request)) \/ Processes
             \/ TimesOut \/ IsStopped \/ Drain
    BY <1>1, <1>8 DEF BeginCheck, Processes, ChildExits, InstallExits, TimesOut, IsStopped,
       RequestStop, Drain
  <1>9. CASE UNCHANGED vars
    BY <1>1, <1>9 DEF vars
  <1> QED
    BY <1>2, <1>3, <1>4, <1>5, <1>6, <1>7, <1>8, <1>9 DEF Next, CheckStep

(* A check with its processes, timers, faults and crashes, and a save,      *)
(* together implement the contract of the gate.                             *)
THEOREM ContractCorrect == Spec => GateContract
  <1>1. Init => Gate!Init
    BY DEF Init, Gate!Init, Held, Verdict, NoResult
  <1>2. Inv /\ [Next]_vars => [Gate!Next]_(Gate!vars)
    BY GateStep
  <1> QED
    BY <1>1, <1>2, InvCorrect, PTL DEF Spec, GateContract, Gate!Spec
=============================================================================
