------------------------------ MODULE HarnessRun ------------------------------
(***************************************************************************)
(* One coding run of the Harness: a child process that speaks JSON-RPC     *)
(* over its pipes (builder-harness-jsonrpc-peer.cjs), the host that        *)
(* starts, asks and ends it (builder-harness-process-host.cjs), the        *)
(* runtime that supervises the run (builder-harness-programming-           *)
(* runtime.cjs) over the journal of its events                             *)
(* (builder-harness-runtime-event-normalizer.cjs), the composition and     *)
(* the runner that own it (-runtime-composition.cjs, -generation-          *)
(* runner.cjs), and what the generation service does with the run:         *)
(* repair, reconcile, cancel (builder-generation-main-service.cjs).        *)
(*                                                                         *)
(* The child answers late or never, sends what it should not, and dies     *)
(* when it likes.  Every await of the code is a place where another step   *)
(* may come between: an answer, a notification, a timer, an exit, the      *)
(* user's cancellation, the end of the application.                        *)
(***************************************************************************)
EXTENDS Naturals, Sequences

CONSTANTS
    Faults,      \* what the child may do wrong, a subset of FaultKinds
    MaxTurns,    \* bound: turns the child begins
    MaxTools,    \* bound: tools it calls
    MaxFaults,   \* bound: frames the child should not have sent
    Users,       \* what else happens, a subset of UserActs
    MaxRepairs   \* repair turns after a failed check

UserActs == {"cancel", "dispose"}
FaultKinds == {"garbage",    \* a frame that is no answer and no notification
               "badNote",    \* a notification the journal rejects
               "badError",   \* an answer whose error is malformed
               "exit"}       \* it dies by itself

ASSUME HarnessAssumption ==
    /\ Faults \subseteq FaultKinds
    /\ {MaxTurns, MaxTools, MaxFaults, MaxRepairs} \subseteq Nat
    /\ Users \subseteq UserActs

Requests == {"initialize", "prompt", "shutdown"}
Answers == {"result", "error", "badError"}
TurnEnds == {"completed", "aborted", "error"}
Notes == {"turn", "tool", "write", "read", "bad"} \cup TurnEnds
StopClasses == {"cancelled", "idle", "limit", "provider", "runtime"}

VARIABLES
    \* the child process
    child,       \* "none", "up", "gone"
    doomed,      \* it was killed, or its input was closed
    work,        \* what it does: "idle", "asked", "turn", "tool"
    asked,       \* requests it has not answered
    turns, tools, faults, \* counters of the bounds
    \* the peer
    pending,     \* requests waiting for an answer
    answer,      \* how a request's promise was settled, until its caller sees it
    closed,      \* the peer is closed
    notes,       \* notifications waiting for the handler
    \* the host
    host,        \* "idle", "starting", "ready", "closing", "closed"
    ladder,      \* the shutdown: "off", "ask", "wait", "eof", "force", "over"
    forcing,     \* who waits for the end of terminate_process_tree
    exited,      \* the host has seen the exit
    ended,       \* the termination signal is given
    \* the journal
    turn,        \* "unborn" until the run's first event, then "none", "active",
                 \* "settled", and "between" a settled turn and the next
    tool,        \* a tool is open
    wrote,       \* a tool changed a file
    sealed,      \* no event is accepted any more
    terminal,    \* the terminal events written
    settlement,  \* "open", "completed", "aborted", "failed"
    \* the run
    handler,     \* the notification handler: "free", "reject", "stop", "throw"
    rejected,    \* a notification was rejected
    pc,          \* where the run's coroutine is
    status,      \* the entry's status
    attempt,     \* 1: the prompt, 2: its one recovery turn, 3: a repair
    armed,       \* the idle timer is armed
    verdict,     \* how the supervised wait ended
    stop,        \* the first reason to stop the run, and how far stopping is
    repairs,
    registered,  \* the composition and the runtime know the run
    cancelled,   \* the user's cancellation
    disposed,    \* the application is closing
    result       \* what the run's caller got

processVars == <<child, doomed, work, asked, turns, tools, faults>>
peerVars == <<pending, answer, closed, notes>>
hostVars == <<host, ladder, forcing, exited, ended>>
journalVars == <<turn, tool, wrote, sealed, terminal, settlement>>
noteVars == <<handler, rejected>>
waitVars == <<attempt, armed, verdict, repairs>>
stopVars == <<status, stop>>
ownVars == <<registered, cancelled, disposed>>
runVars == <<noteVars, waitVars, stopVars, ownVars, pc, result>>
vars == <<processVars, peerVars, hostVars, journalVars, runVars>>

NoStop == [class |-> "none", step |-> "none"]

HTypeOK ==
    /\ child \in {"none", "up", "gone"}
    /\ {doomed, closed, exited, ended, tool, wrote, sealed, rejected, armed,
        registered, cancelled, disposed} \subseteq BOOLEAN
    /\ work \in {"idle", "asked", "turn", "tool"}
    /\ asked \subseteq Requests /\ pending \subseteq Requests
    /\ notes \in Seq(Notes)
    /\ answer \in [Requests -> {"none", "result", "error", "closed", "timeout"}]
    /\ host \in {"idle", "starting", "ready", "closing", "closed"}
    /\ ladder \in {"off", "ask", "wait", "eof", "force", "over"}
    /\ forcing \subseteq {"start", "prompt", "stop", "handler", "shutdown"}
    /\ turn \in {"unborn", "none", "active", "settled", "between"}
    /\ terminal \in Seq({"completed", "failed", "cancelled"})
    /\ settlement \in {"open", "completed", "aborted", "failed"}
    /\ handler \in {"free", "reject", "stop", "throw"}
    /\ status \in {"none", "starting", "running", "awaiting", "repairing",
                   "stopping", "completed", "failed", "cancelled"}
    /\ attempt \in 1 .. 3
    /\ verdict \in {"none", "completed", "aborted", "failed", "idle", "limit", "host"}
    /\ stop.class \in StopClasses \cup {"none"}
    /\ stop.step \in {"none", "host", "journal", "done"}
    /\ turns \in 0 .. MaxTurns /\ tools \in 0 .. MaxTools /\ faults \in 0 .. MaxFaults
    /\ pc \in {"idle", "resolving", "initialize", "closing", "unstarted", "begin",
               "prompt", "settle", "await", "shutdown", "deliver", "stopping", "ended"}
    /\ result \in {"none", "completed", "recovered", "failed", "cancelled"}
    /\ repairs \in 0 .. MaxRepairs

Init ==
    /\ child = "none" /\ doomed = FALSE /\ work = "idle" /\ asked = {}
    /\ turns = 0 /\ tools = 0 /\ faults = 0
    /\ pending = {} /\ answer = [r \in Requests |-> "none"]
    /\ closed = FALSE /\ notes = <<>>
    /\ host = "idle" /\ ladder = "off" /\ forcing = {} /\ exited = FALSE
    /\ ended = FALSE
    /\ turn = "unborn" /\ tool = FALSE /\ wrote = FALSE /\ sealed = FALSE
    /\ terminal = <<>> /\ settlement = "open"
    /\ handler = "free" /\ rejected = FALSE /\ pc = "idle" /\ status = "none"
    /\ attempt = 1 /\ armed = FALSE /\ verdict = "none" /\ stop = NoStop
    /\ repairs = 0 /\ registered = FALSE /\ cancelled = FALSE
    /\ disposed = FALSE /\ result = "none"

-----------------------------------------------------------------------------
(* The peer.  Closing it rejects every pending request, once.  A frame is   *)
(* written and read in one step: what the child has not written yet stands  *)
(* for what is still in the pipe.  Nobody reads what it writes later.       *)

ClosePeer ==
    /\ closed' = TRUE
    /\ pending' = {}
    /\ answer' = [r \in Requests |-> IF r \in pending THEN "closed" ELSE answer[r]]
    /\ notes' = notes

Ask(r) ==
    /\ pending' = pending \cup {r}
    /\ asked' = asked \cup {r}
    /\ UNCHANGED <<answer, closed, notes>>

\* settleResponse: the request leaves "pending" before the answer is looked at,
\* so a malformed error settles nothing
Settled(r, how) ==
    IF r \notin pending
    THEN ClosePeer
    ELSE IF how = "badError"
    THEN /\ closed' = TRUE /\ pending' = {} /\ notes' = notes
         /\ answer' = [q \in Requests |->
                          IF q \in pending \ {r} THEN "closed" ELSE answer[q]]
    ELSE /\ pending' = pending \ {r}
         /\ answer' = [answer EXCEPT ![r] = how]
         /\ UNCHANGED <<closed, notes>>

ChildAnswers(r, how) ==
    /\ child = "up" /\ ~closed /\ r \in asked
    /\ how = "badError" => "badError" \in Faults
    /\ asked' = asked \ {r}
    /\ Settled(r, how)
    /\ UNCHANGED <<child, doomed, work, turns, tools, faults, hostVars,
                   journalVars, runVars>>

\* deliverNotification queues it for the handler
ChildNotifies(n) ==
    /\ child = "up" /\ ~closed
    /\ notes' = Append(notes, n)
    /\ \/ n = "turn" /\ work = "asked" /\ turns < MaxTurns
          /\ work' = "turn" /\ turns' = turns + 1 /\ UNCHANGED <<tools, faults>>
       \/ n = "tool" /\ work = "turn" /\ tools < MaxTools
          /\ work' = "tool" /\ tools' = tools + 1 /\ UNCHANGED <<turns, faults>>
       \/ n \in {"write", "read"} /\ work = "tool"
          /\ work' = "turn" /\ UNCHANGED <<turns, tools, faults>>
       \/ n \in TurnEnds /\ work = "turn"
          /\ work' = "idle" /\ UNCHANGED <<turns, tools, faults>>
       \/ n = "bad" /\ "badNote" \in Faults /\ faults < MaxFaults
          /\ faults' = faults + 1 /\ UNCHANGED <<work, turns, tools>>
    /\ UNCHANGED <<child, doomed, asked, pending, answer, closed, hostVars,
                   journalVars, runVars>>

\* protocolFailure
ChildBabbles ==
    /\ child = "up" /\ ~closed
    /\ "garbage" \in Faults /\ faults < MaxFaults
    /\ faults' = faults + 1
    /\ ClosePeer
    /\ UNCHANGED <<child, doomed, work, asked, turns, tools, hostVars,
                   journalVars, runVars>>

ChildExits ==
    /\ child = "up"
    /\ doomed \/ "exit" \in Faults \/ ladder # "off"
    /\ child' = "gone"
    /\ UNCHANGED <<doomed, work, asked, turns, tools, faults, peerVars, hostVars,
                   journalVars, runVars>>

\* the stream ends before the host sees the exit
PeerSeesEnd ==
    /\ child = "gone" /\ ~closed
    /\ ClosePeer
    /\ UNCHANGED <<processVars, hostVars, journalVars, runVars>>

\* mutant: only the handshake has a timer
HandshakeTimesOut(r) ==
    /\ r \in pending \cap {"initialize"}
    /\ pending' = pending \ {r}
    /\ answer' = [answer EXCEPT ![r] = "timeout"]
    /\ UNCHANGED <<closed, notes, processVars, hostVars, journalVars, runVars>>

\* a prompt has no timer
RequestTimesOut(r) ==
    /\ r \in pending \cap {"initialize", "shutdown"}
    /\ pending' = pending \ {r}
    /\ answer' = [answer EXCEPT ![r] = "timeout"]
    /\ UNCHANGED <<closed, notes, processVars, hostVars, journalVars, runVars>>

-----------------------------------------------------------------------------
(* The host: forceClose closes the peer and the input at once, then waits  *)
(* for terminate_process_tree, whatever it answers.                        *)

ForceClose(who) ==
    /\ ClosePeer
    /\ forcing' = forcing \cup {who}
    /\ doomed' = (doomed \/ child = "up")
    /\ UNCHANGED <<child, work, asked, turns, tools, faults>>

ForceEnds(who) ==
    /\ who \in forcing
    /\ forcing' = forcing \ {who}
    /\ host' = "closed"
    /\ ended' = TRUE
    /\ exited' = exited
    /\ UNCHANGED <<processVars, peerVars, journalVars>>

\* handleExit, from the child's events or the liveness probe
HostSeesExit ==
    /\ child = "gone" /\ ~exited
    /\ exited' = TRUE
    /\ ended' = TRUE
    /\ IF closed THEN UNCHANGED peerVars ELSE ClosePeer
    /\ host' = IF host = "closing" THEN host ELSE "closed"
    /\ UNCHANGED <<processVars, ladder, forcing, journalVars, runVars>>

-----------------------------------------------------------------------------
(* The journal.  Once the user cancelled, the conversation takes no event  *)
(* but run_cancelled (assertHarnessRunActive).                             *)

Reject ==
    /\ settlement' = IF ~sealed /\ settlement = "open" THEN "failed" ELSE settlement
    /\ UNCHANGED <<turn, tool, wrote, sealed, terminal>>

Accepts(n) ==
    \/ n = "turn" /\ turn \in {"none", "between"}
    \/ n = "tool" /\ turn = "active" /\ ~tool
    \/ n \in {"write", "read"} /\ tool
    \/ n \in TurnEnds /\ turn = "active" /\ ~tool

Settle(how) == settlement' = IF settlement = "open" THEN how ELSE settlement

Record(n) ==
    \/ n = "turn" /\ turn' = "active"
       /\ UNCHANGED <<tool, wrote, sealed, terminal, settlement>>
    \/ n = "tool" /\ tool' = TRUE
       /\ UNCHANGED <<turn, wrote, sealed, terminal, settlement>>
    \/ n \in {"write", "read"} /\ tool' = FALSE
       /\ wrote' = (wrote \/ n = "write")
       /\ UNCHANGED <<turn, sealed, terminal, settlement>>
    \/ /\ n \in TurnEnds
       /\ turn' = "settled"
       /\ sealed' = (n # "completed")
       /\ terminal' = IF n = "completed" THEN terminal
                      ELSE Append(terminal, IF n = "error" THEN "failed" ELSE "cancelled")
       /\ Settle(IF n = "error" THEN "failed" ELSE n)
       /\ UNCHANGED <<tool, wrote>>

\* fail_run closes what is open, then writes the terminal event; the events
\* before it are refused after a cancellation, and then it writes nothing.  It
\* awaits the sink between its events: serializeTransition() keeps all others
\* out, the sink appends without waiting, and so these awaits are microtasks;
\* a cancellation, which is an event of its own, comes before or after them
Refused(class) ==
    cancelled /\ turn # "unborn" /\ (turn # "none" \/ class # "cancelled")

\* mutant: the journal is closed again
FailRunTwice(class) ==
    IF Refused(class)
    THEN UNCHANGED journalVars
    ELSE /\ sealed' = TRUE
         /\ terminal' = IF turn = "unborn" THEN terminal
                        ELSE Append(terminal,
                                 IF class = "cancelled" THEN class ELSE "failed")
         /\ turn' = IF turn \in {"active", "between"} THEN "settled" ELSE turn
         /\ tool' = FALSE
         /\ wrote' = wrote
         /\ Settle("failed")

FailRun(class) ==
    IF sealed \/ Refused(class)
    THEN UNCHANGED journalVars
    ELSE /\ sealed' = TRUE
         /\ terminal' = IF turn = "unborn" THEN terminal
                        ELSE Append(terminal,
                                 IF class = "cancelled" THEN class ELSE "failed")
         /\ turn' = IF turn \in {"active", "between"} THEN "settled" ELSE turn
         /\ tool' = FALSE
         /\ wrote' = wrote
         /\ Settle("failed")

\* prepare_repair, for the recovery turn and for a repair
MayPrepare == ~sealed /\ ~cancelled /\ turn = "settled"

PrepareRepair ==
    /\ turn' = "between"
    /\ settlement' = "open"
    /\ UNCHANGED <<tool, wrote, sealed, terminal>>

-----------------------------------------------------------------------------
(* onNotification: one notification at a time; one the journal rejects     *)
(* fails the run, stops the host and then closes the peer.                 *)

Waiting == pc \in {"prompt", "settle"} /\ verdict = "none"

HandleNote ==
    /\ handler = "free" /\ notes # <<>>
    /\ notes' = Tail(notes)
    /\ LET n == Head(notes)
           ok == ~sealed /\ ~cancelled /\ Accepts(n)
       IN /\ IF ok THEN Record(n) ELSE Reject
          /\ handler' = IF ok THEN "free" ELSE "reject"
          /\ rejected' = (rejected \/ ~ok)
          /\ armed' = IF ok /\ Waiting THEN ~tool' ELSE armed
    /\ UNCHANGED <<pending, answer, closed, processVars, hostVars, attempt,
                   verdict, repairs, stopVars, ownVars, pc, result>>

RejectFailsRun ==
    /\ handler = "reject"
    /\ FailRun("invalid")
    /\ handler' = "stop"
    /\ UNCHANGED <<processVars, peerVars, hostVars, rejected, waitVars, stopVars,
                   ownVars, pc, result>>

RejectStopsHost ==
    /\ handler = "stop" /\ "handler" \notin forcing
    /\ IF host \in {"idle", "closed"}
       THEN /\ handler' = "throw"
            /\ UNCHANGED <<processVars, peerVars, hostVars>>
       ELSE /\ host' = "closing"
            /\ ForceClose("handler")
            /\ UNCHANGED <<ladder, exited, ended, handler>>
    /\ UNCHANGED <<journalVars, rejected, waitVars, stopVars, ownVars, pc, result>>

RejectForced ==
    /\ ForceEnds("handler")
    /\ handler' = "throw"
    /\ UNCHANGED <<ladder, rejected, waitVars, stopVars, ownVars, pc, result>>

RejectClosesPeer ==
    /\ handler = "throw"
    /\ handler' = "free"
    /\ IF closed THEN UNCHANGED peerVars ELSE ClosePeer
    /\ UNCHANGED <<processVars, hostVars, journalVars, rejected, waitVars, stopVars,
                   ownVars, pc, result>>

-----------------------------------------------------------------------------
(* Stopping: once, whoever asks first; the host is cancelled, then the     *)
(* journal is closed.                                                      *)

StopWith(class) ==
    IF stop.class # "none"
    THEN UNCHANGED <<stopVars, processVars, peerVars, hostVars>>
    ELSE /\ status' = "stopping"
         /\ IF host \in {"idle", "closed"}
            THEN /\ stop' = [class |-> class, step |-> "journal"]
                 /\ UNCHANGED <<processVars, peerVars, hostVars>>
            ELSE /\ stop' = [class |-> class, step |-> "host"]
                 /\ host' = "closing"
                 /\ ForceClose("stop")
                 /\ UNCHANGED <<ladder, exited, ended>>

StopForced ==
    /\ ForceEnds("stop")
    /\ stop' = [stop EXCEPT !.step = "journal"]
    /\ UNCHANGED <<ladder, noteVars, waitVars, status, ownVars, pc, result>>

StopJournal ==
    /\ stop.step = "journal"
    /\ FailRun(stop.class)
    /\ stop' = [stop EXCEPT !.step = "done"]
    /\ status' = IF stop.class = "cancelled" THEN "cancelled" ELSE "failed"
    /\ UNCHANGED <<processVars, peerVars, hostVars, noteVars, waitVars, ownVars,
                   pc, result>>

-----------------------------------------------------------------------------
(* The run's start.                                                        *)

StartRun ==
    /\ pc = "idle" /\ ~disposed
    /\ pc' = "resolving" /\ status' = "starting"
    /\ UNCHANGED <<processVars, peerVars, hostVars, journalVars, noteVars, waitVars,
                   stop, ownVars, result>>

\* nothing looks at "disposed" again after the workspace is resolved
LaunchHost ==
    /\ pc = "resolving"
    /\ pc' = "initialize"
    /\ child' = "up" /\ host' = "starting"
    /\ registered' = TRUE
    /\ Ask("initialize")
    /\ UNCHANGED <<doomed, work, turns, tools, faults, ladder, forcing, exited, ended,
                   journalVars, noteVars, waitVars, stopVars, cancelled, disposed,
                   result>>

Taken(r) == answer' = [answer EXCEPT ![r] = "none"]

\* whatever happened to the host meanwhile, it is "ready" now
HostStarted ==
    /\ pc = "initialize" /\ answer["initialize"] = "result"
    /\ Taken("initialize")
    /\ host' = "ready"
    /\ pc' = "begin"
    /\ UNCHANGED <<processVars, pending, closed, notes, ladder, forcing, exited,
                   ended, journalVars, noteVars, waitVars, stopVars, ownVars, result>>

HostFailsToStart ==
    /\ pc = "initialize" /\ answer["initialize"] \in {"error", "closed", "timeout"}
    /\ ForceClose("start")
    /\ pc' = "closing"
    /\ UNCHANGED <<host, ladder, exited, ended, journalVars, noteVars, waitVars,
                   stopVars, ownVars, result>>

StartForced ==
    /\ ForceEnds("start")
    /\ pc' = "unstarted"
    /\ UNCHANGED <<ladder, noteVars, waitVars, stopVars, ownVars, result>>

FailStart ==
    /\ \/ pc = "unstarted"
       \/ pc = "begin" /\ (sealed \/ cancelled)
    /\ StopWith("runtime")
    /\ pc' = "stopping"
    /\ UNCHANGED <<journalVars, noteVars, waitVars, ownVars, result>>

\* host.prompt, under a supervised wait of its own
AskPrompt ==
    /\ pc' = "prompt"
    /\ armed' = (host = "ready")
    /\ IF host # "ready"
       THEN /\ verdict' = "host"
            /\ UNCHANGED <<processVars, peerVars, hostVars>>
       ELSE IF closed
       THEN /\ verdict' = "none"
            /\ ForceClose("prompt")
            /\ UNCHANGED <<host, ladder, exited, ended>>
       ELSE /\ verdict' = "none"
            /\ Ask("prompt")
            /\ work' = "asked"
            /\ UNCHANGED <<child, doomed, turns, tools, faults, hostVars>>

Begin ==
    /\ pc = "begin" /\ ~sealed /\ ~cancelled
    /\ turn' = "none"
    /\ status' = "running"
    /\ AskPrompt
    /\ UNCHANGED <<tool, wrote, sealed, terminal, settlement, noteVars, attempt,
                   repairs, stop, ownVars, result>>

-----------------------------------------------------------------------------
(* The supervised wait: the prompt's answer, then the turn's settlement,   *)
(* against two timers and, except in a repair, the end of the process.     *)

Finish(how) ==
    /\ verdict' = IF Waiting THEN how ELSE verdict
    /\ armed' = (armed /\ ~Waiting)

PromptAccepted ==
    /\ answer["prompt"] = "result"
    /\ Taken("prompt")
    /\ pc' = IF Waiting THEN "settle" ELSE pc
    /\ UNCHANGED <<processVars, pending, closed, notes, hostVars, journalVars,
                   noteVars, waitVars, stopVars, ownVars, result>>

PromptFails ==
    /\ answer["prompt"] \in {"error", "closed"}
    /\ IF closed
       THEN /\ notes' = notes /\ closed' = TRUE
            /\ pending' = {} /\ Taken("prompt")
            /\ forcing' = forcing \cup {"prompt"}
            /\ doomed' = (doomed \/ child = "up")
            /\ UNCHANGED <<verdict, armed>>
       ELSE /\ Taken("prompt")
            /\ Finish("host")
            /\ UNCHANGED <<pending, closed, notes, forcing, doomed>>
    /\ UNCHANGED <<child, work, asked, turns, tools, faults, host, ladder, exited,
                   ended, journalVars, noteVars, attempt, repairs, stopVars, ownVars,
                   pc, result>>

PromptForced ==
    /\ ForceEnds("prompt")
    /\ Finish("host")
    /\ UNCHANGED <<ladder, noteVars, attempt, repairs, stopVars, ownVars, pc, result>>

WaitEnds(how) ==
    /\ Waiting
    /\ verdict' = how
    /\ armed' = FALSE
    /\ UNCHANGED <<processVars, peerVars, hostVars, journalVars, noteVars, attempt,
                   repairs, stopVars, ownVars, pc, result>>

TurnSettles == pc = "settle" /\ settlement # "open" /\ WaitEnds(settlement)

\* the end of the process settles the race before any timer can fire; a repair
\* does not race it
EndIsRaced == ended /\ attempt # 3

ProcessTerminated == EndIsRaced /\ WaitEnds("host")

IdleFires == armed /\ ~EndIsRaced /\ WaitEnds("idle")

LimitFires == ~EndIsRaced /\ WaitEnds("limit")

-----------------------------------------------------------------------------
(* What the coroutine does when the wait is over.                          *)

Judging == pc \in {"prompt", "settle"} /\ verdict # "none"

Incomplete == verdict = "completed" /\ ~wrote /\ attempt # 3 /\ stop.class = "none"

Recover ==
    /\ Judging /\ Incomplete /\ attempt = 1 /\ MayPrepare
    /\ PrepareRepair
    /\ attempt' = 2
    /\ AskPrompt
    /\ UNCHANGED <<noteVars, repairs, stopVars, ownVars, result>>

Failure ==
    CASE Incomplete /\ attempt = 1 -> "runtime"
      [] Incomplete /\ attempt = 2 -> "provider"
      [] verdict \in {"idle", "limit"} -> verdict
      [] verdict = "aborted" /\ attempt # 3 -> "cancelled"
      [] OTHER -> "runtime"

Succeeded ==
    verdict = "completed" /\ ~Incomplete /\ ~rejected /\ stop.class = "none"

StopRun ==
    /\ Judging /\ ~Succeeded
    /\ ~(Incomplete /\ attempt = 1 /\ MayPrepare)
    /\ StopWith(Failure)
    /\ pc' = "stopping"
    /\ verdict' = "none"
    /\ UNCHANGED <<journalVars, noteVars, attempt, armed, repairs, ownVars, result>>

AwaitReconciliation ==
    /\ Judging /\ Succeeded
    /\ pc' = "await" /\ status' = "awaiting" /\ verdict' = "none"
    /\ UNCHANGED <<processVars, peerVars, hostVars, journalVars, noteVars, attempt,
                   armed, repairs, stop, ownVars, result>>

\* a failed run that changed files is delivered as an interrupted candidate
Stopped ==
    /\ pc = "stopping" /\ stop.step = "done"
    /\ pc' = "ended"
    /\ registered' = FALSE
    /\ result' = IF cancelled THEN "cancelled"
                 ELSE IF wrote /\ status = "failed" /\ attempt # 3 THEN "recovered"
                 ELSE "failed"
    /\ UNCHANGED <<processVars, peerVars, hostVars, journalVars, noteVars, waitVars,
                   stopVars, cancelled, disposed>>

-----------------------------------------------------------------------------
(* The generation service: a repair after a failed check, or the run's     *)
(* reconciliation; any of its steps may fail.                              *)

Repair ==
    /\ pc = "await" /\ status = "awaiting" /\ registered /\ ~cancelled
    /\ repairs < MaxRepairs /\ MayPrepare
    /\ PrepareRepair
    /\ repairs' = repairs + 1
    /\ attempt' = 3
    /\ status' = "repairing"
    /\ AskPrompt
    /\ UNCHANGED <<noteVars, stop, ownVars, result>>

ServiceFails ==
    /\ pc = "await"
    /\ StopWith("cancelled")
    /\ pc' = "stopping"
    /\ UNCHANGED <<journalVars, noteVars, waitVars, ownVars, result>>

Shutdown ==
    /\ pc = "await" /\ status = "awaiting" /\ registered /\ ~cancelled
    /\ pc' = "shutdown"
    /\ IF host # "ready"
       THEN ladder' = "over" /\ UNCHANGED <<asked, host, peerVars>>
       ELSE /\ host' = "closing"
            /\ ladder' = IF closed THEN "wait" ELSE "ask"
            /\ IF closed THEN UNCHANGED <<asked, peerVars>> ELSE Ask("shutdown")
    /\ UNCHANGED <<child, doomed, work, turns, tools, faults, forcing, exited, ended,
                   journalVars, noteVars, waitVars, stopVars, ownVars, result>>

ShutdownAnswered ==
    /\ ladder = "ask" /\ answer["shutdown"] # "none"
    /\ Taken("shutdown")
    /\ ladder' = "wait"
    /\ UNCHANGED <<processVars, pending, closed, notes, host, forcing, exited,
                   ended, journalVars, runVars>>

ExitAwaited ==
    /\ ladder \in {"wait", "eof"} /\ exited
    /\ ladder' = "over" /\ host' = "closed"
    /\ UNCHANGED <<processVars, peerVars, forcing, exited, ended, journalVars, runVars>>

\* mutant: a shutdown that was asked for counts as an exit
GraceIsOver ==
    /\ ladder = "wait" /\ ladder' = "over"
    /\ UNCHANGED <<processVars, peerVars, host, forcing, exited, ended, journalVars,
                   runVars>>

\* the grace is over: first the end of the input, then the process tree
GraceEnds ==
    /\ \/ /\ ladder = "wait" /\ ladder' = "eof"
          /\ doomed' = (doomed \/ child = "up")
          /\ UNCHANGED <<child, work, asked, turns, tools, faults, peerVars, forcing>>
       \/ /\ ladder = "eof" /\ ladder' = "force"
          /\ ForceClose("shutdown")
    /\ UNCHANGED <<host, exited, ended, journalVars, runVars>>

ShutdownForced ==
    /\ ForceEnds("shutdown")
    /\ ladder' = "over"
    /\ UNCHANGED runVars

\* mutant: a closed journal is completed all the same
CompleteClosedRun ==
    /\ pc = "shutdown" /\ ladder = "over"
    /\ registered' = FALSE
    /\ pc' = "deliver"
    /\ status' = "completed"
    /\ sealed' = TRUE
    /\ terminal' = IF sealed THEN terminal ELSE Append(terminal, "completed")
    /\ UNCHANGED <<processVars, peerVars, hostVars, noteVars, waitVars, stop, turn, tool,
                   wrote, settlement, result, cancelled, disposed>>

\* mutant: it waits for the status a cancellation took away
CompleteAwaitedRun ==
    /\ pc = "shutdown" /\ ladder = "over" /\ status = "awaiting"
    /\ registered' = FALSE
    /\ pc' = "deliver"
    /\ status' = "completed"
    /\ sealed' = TRUE
    /\ terminal' = Append(terminal, "completed")
    /\ UNCHANGED <<processVars, peerVars, hostVars, noteVars, waitVars, stop, turn, tool,
                   wrote, settlement, result, cancelled, disposed>>

\* complete_run; its events are refused once the user cancelled
CompleteRun ==
    /\ pc = "shutdown" /\ ladder = "over"
    /\ registered' = FALSE
    /\ IF sealed \/ cancelled
       THEN /\ pc' = IF stop.class = "none" THEN "ended" ELSE "stopping"
            /\ result' = IF stop.class = "none" THEN "failed" ELSE result
            /\ UNCHANGED <<journalVars, status>>
       ELSE /\ pc' = "deliver"
            /\ status' = "completed"
            /\ sealed' = TRUE
            /\ terminal' = Append(terminal, "completed")
            /\ UNCHANGED <<turn, tool, wrote, settlement, result>>
    /\ UNCHANGED <<processVars, peerVars, hostVars, noteVars, waitVars, stop,
                   cancelled, disposed>>

\* the folder and the conversation, see CurrentProjection; either may fail
Deliver ==
    /\ pc = "deliver"
    /\ pc' = "ended"
    /\ \E how \in {"completed", "failed"} :
          result' = IF cancelled THEN "cancelled" ELSE how
    /\ UNCHANGED <<processVars, peerVars, hostVars, journalVars, noteVars, waitVars,
                   stopVars, ownVars>>

-----------------------------------------------------------------------------
(* The user and the application.                                           *)

\* the runner knows the run from its first prompt on
Cancel ==
    /\ "cancel" \in Users /\ ~cancelled /\ pc \notin {"idle", "ended"}
    /\ cancelled' = TRUE
    /\ IF registered /\ pc \in {"prompt", "settle", "await", "shutdown", "stopping"}
       THEN StopWith("cancelled")
       ELSE UNCHANGED <<stopVars, processVars, peerVars, hostVars>>
    /\ UNCHANGED <<journalVars, noteVars, waitVars, registered, disposed, pc, result>>

Dispose ==
    /\ "dispose" \in Users /\ ~disposed
    /\ disposed' = TRUE
    /\ registered' = FALSE
    /\ IF registered
       THEN StopWith("cancelled")
       ELSE UNCHANGED <<stopVars, processVars, peerVars, hostVars>>
    /\ UNCHANGED <<journalVars, noteVars, waitVars, cancelled, pc, result>>

-----------------------------------------------------------------------------
Environment ==
    \/ \E r \in Requests, how \in Answers : ChildAnswers(r, how)
    \/ \E n \in Notes : ChildNotifies(n)
    \/ ChildBabbles
    \/ ChildExits
    \/ StartRun \/ Cancel \/ Dispose

Builder ==
    \/ PeerSeesEnd \/ (\E r \in Requests : RequestTimesOut(r))
    \/ HostSeesExit \/ HandleNote
    \/ RejectFailsRun \/ RejectStopsHost \/ RejectForced \/ RejectClosesPeer
    \/ LaunchHost \/ HostStarted \/ HostFailsToStart \/ StartForced \/ FailStart
    \/ Begin \/ PromptAccepted \/ PromptFails \/ PromptForced
    \/ TurnSettles \/ ProcessTerminated \/ IdleFires \/ LimitFires
    \/ Recover \/ StopRun \/ AwaitReconciliation
    \/ StopForced \/ StopJournal \/ Stopped
    \/ Repair \/ ServiceFails \/ Shutdown \/ ShutdownAnswered \/ ExitAwaited
    \/ GraceEnds \/ ShutdownForced \/ CompleteRun \/ Deliver

Next == Environment \/ Builder

Spec == Init /\ [][Next]_vars

(* Timers fire, terminate_process_tree answers within its own bounds, and   *)
(* the event loop runs what is ready.  Nothing is asked of the child.       *)
FairSpec == Spec /\ WF_vars(Builder)

-----------------------------------------------------------------------------
\* A run's journal ends once: after the terminal event nothing is recorded,
\* whoever was still writing - the handler, the stop, the reconciliation.
JournalEndsOnce == [][terminal # <<>> => UNCHANGED <<turn, tool, wrote, terminal>>]_vars

\* What the user is told is what the journal says: a finished run is one whose
\* journal completed, a recovered candidate comes from a run that was closed
\* as failed or cancelled, and never from one that completed.
OutcomeMatchesJournal ==
    /\ result = "completed" => terminal = <<"completed">>
    /\ result = "recovered" => terminal \in {<<"failed">>, <<"cancelled">>}

\* However a run ended, its process is gone or was told to go; no request
\* of Builder waits for it.
EndedLeavesNoChild ==
    pc = "ended" => (child # "up" \/ doomed) /\ pending = {}

\* A process that ended while Builder waits for its turn is a runtime failure,
\* never an inactivity or a limit: its end is raced against the settlement
\* (docs/PROGRAMMING_RUNTIME_TIMEOUT_AND_LIVENESS_POLICY.md).
DeadProcessIsNoTimeout ==
    [][ended /\ pc = "settle" /\ Waiting => verdict' \notin {"idle", "limit"}]_vars

\* Every run that was started ends, whatever the child does or leaves undone.
RunEnds == (pc = "resolving") ~> (pc = "ended")

=============================================================================
