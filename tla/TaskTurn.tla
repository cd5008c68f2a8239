------------------------------ MODULE TaskTurn ------------------------------
(***************************************************************************)
(* The requests of one task: who may run, what its conversation records,   *)
(* and whose candidate the project's folder shows                           *)
(* (src/electron/builder-generation-ipc-runtime.cjs,                        *)
(* builder-project-task-lease-coordinator.cjs,                              *)
(* builder-generation-main-service.cjs, builder-conversation-main-service.cjs). *)
(*                                                                         *)
(* A generation, a retry or a revised draft takes the project's lease; a    *)
(* queued follow-up takes only the task's binding, and undoing or restoring *)
(* takes neither.  They all write the project's one folder.                 *)
(*                                                                         *)
(* A request is one IPC call with its own digest; it opens at most one turn, *)
(* which therefore bears the request's name, and a later retry or resume is *)
(* a further call for that turn.  A step is what the event loop does        *)
(* between two awaits.  The conversation is a chain of events, and every    *)
(* append is a compare-and-swap on its head: "head" says whose context is   *)
(* at the end of the chain, and an append from any other context fails.     *)
(***************************************************************************)
EXTENDS Naturals, FiniteSets

CONSTANTS
    Requests,
    Projects,
    Home,         \* the task's project
    None,
    Kinds,        \* the calls the window makes
    MaxExtras     \* bound: other projects opened, messages sent to a run,
                  \* retries, resumes and restarts, all together

Questions == {"answer", "draftAnswer"}
Restores == {"undo", "restore"}
Leased == {"submit", "first", "retry", "resume", "approved", "continue"}
Builds == Leased \cup {"followup"} \cup Restores

ASSUME TaskAssumption ==
    /\ Home \in Projects
    /\ None \notin Requests \cup Projects
    /\ Kinds \subseteq (Builds \ {"retry", "resume"}) \cup Questions
    /\ MaxExtras \in Nat

VARIABLES
    selected,     \* selectedProjectId, None while a project is being opened
    lease,        \* the lease coordinator: each project's holder
    binding,      \* activeTaskRequests: the task's request
    kind, at,     \* each request's method and where its promise stands
    live,         \* the requests whose context is in activeContexts
    stopped,      \* the requests that were cancelled or paused
    turn,         \* the conversation: each request's turn
    owned,        \* ownedActiveTurns of this process
    last,         \* the request whose turn was begun last
    offer,        \* what the conversation ends in: a reviewed plan, a draft
    draft,        \* a draft exists to ask about
    head,         \* the request whose latest context is the head
    local,        \* ... and the copy its run works with is, too
    shown,        \* the request whose candidate the folder and main show
    expected,     \* ... and the one each request's candidate may replace
    extras        \* how many of the bounded events there were

conversation == <<turn, owned, last, offer, draft, head, local>>
control == <<selected, lease, binding, kind, at, live, stopped>>
folder == <<shown, expected>>
vars == <<control, conversation, folder, extras>>

Outside == {"idle", "done"}
Phase == Outside \cup {"permission", "base", "snapshot", "active", "running", "candidate",
                       "admitted", "checked", "writing", "projected", "refused", "ending"}
Closed == {"candidate", "answered", "cancelled", "interrupted", "failure"}

TypeOK ==
    /\ selected \in Projects \cup {None}
    /\ lease \in [Projects -> Requests \cup {None}]
    /\ binding \in Requests \cup {None}
    /\ kind \in [Requests -> Builds \cup Questions]
    /\ at \in [Requests -> Phase]
    /\ live \in SUBSET Requests
    /\ stopped \in SUBSET Requests
    /\ turn \in [Requests -> Closed \cup {"none", "open", "failed"}]
    /\ owned \in SUBSET Requests
    /\ last \in Requests \cup {None}
    /\ offer \in {"plan", "draft", "none"}
    /\ draft \in BOOLEAN
    /\ head \in Requests \cup {None}
    /\ local \in BOOLEAN
    /\ shown \in Requests \cup {None}
    /\ expected \in [Requests -> Requests \cup {None}]
    /\ extras \in 0..MaxExtras

-----------------------------------------------------------------------------
(* The project the window has open *)

OpenProject ==
    /\ extras < MaxExtras
    /\ extras' = extras + 1
    /\ selected' = None
    /\ UNCHANGED <<lease, binding, kind, at, live, stopped, conversation, folder>>

ProjectOpened ==
    /\ selected = None
    /\ selected' \in Projects
    /\ UNCHANGED <<lease, binding, kind, at, live, stopped, conversation, folder, extras>>

-----------------------------------------------------------------------------
(* The conversation: builder-conversation-main-service.cjs *)

(* A first message and a restored version have a conversation of their own. *)
InTask(r) == kind[r] \notin {"first", "restore"}

Active(r) == InTask(r) /\ turn[r] \in {"open", "failed"}
NoneActive == \A r \in Requests : ~Active(r)

(* recoverActive(): the turn that is still open ends as its run did, and a  *)
(* run without an end was interrupted.                                      *)
Recovered ==
    [r \in Requests |-> IF ~Active(r) THEN turn[r]
                        ELSE IF turn[r] = "open" THEN "interrupted" ELSE "failure"]

(* Nobody else appends to a conversation of the request's own.              *)
AtHead(r) == IF InTask(r) THEN head = r ELSE turn[r] = "open"

Append(r) ==
    IF InTask(r) THEN head' = r /\ local' = TRUE ELSE UNCHANGED <<head, local>>

(* A turn is closed by an append whose context nobody keeps.                *)
CloseTurn(r, end) ==
    /\ turn' = [turn EXCEPT ![r] = end]
    /\ owned' = owned \ {r}
    /\ IF InTask(r) THEN head' = None /\ local' = FALSE ELSE UNCHANGED <<head, local>>

(* readResumeContext() *)
Resumable(r) ==
    /\ NoneActive
    /\ last = r
    /\ turn[r] = "interrupted"

BeginUnowned(r) ==  \* mutant: a resumed run is not recorded as this process's
    /\ turn' = [Recovered EXCEPT ![r] = "open"]
    /\ owned' = IF kind[r] = "resume" THEN owned ELSE {q \in owned : ~Active(q)} \cup {r}

BeginBeside(r) ==  \* mutant: the active turn is left as it is
    /\ turn' = [turn EXCEPT ![r] = "open"]
    /\ owned' = owned \cup {r}

(* beginTurn(): whatever turn is active is recovered first *)
BeginTurn(r) ==
    /\ turn' = [(IF InTask(r) THEN Recovered ELSE turn) EXCEPT ![r] = "open"]
    /\ owned' = IF InTask(r) THEN {q \in owned : ~Active(q)} \cup {r} ELSE owned \cup {r}

(* The message of a queued follow-up waits for the active turn to end.      *)
MayBegin(r) ==
    CASE kind[r] = "approved" -> NoneActive /\ offer = "plan"
      [] kind[r] = "continue" -> NoneActive /\ offer = "draft"
      [] kind[r] = "followup" -> NoneActive
      [] kind[r] = "retry"    -> head = r /\ turn[r] = "failed"
      [] kind[r] = "resume"   -> head = r /\ Resumable(r)
      [] OTHER                -> TRUE

-----------------------------------------------------------------------------
(* The gate: permission, the project's lease and the task's binding *)

Ask(r, k) ==
    /\ at[r] = "idle"
    /\ selected # None
    /\ k \in {"approved", "continue", "restore"} \cup Questions => selected = Home
    /\ k \in {"continue", "draftAnswer", "undo"} => draft
    /\ k = "followup" => last # None
    /\ kind' = [kind EXCEPT ![r] = k]
    /\ IF k \in Questions
       THEN /\ k = "answer" => binding = None
            /\ binding' = IF k = "answer" THEN r ELSE binding
            /\ at' = [at EXCEPT ![r] = "base"]
       ELSE /\ at' = [at EXCEPT ![r] = "permission"]
            /\ UNCHANGED binding
    /\ UNCHANGED <<selected, lease, live, stopped, conversation, folder, extras>>

(* The window offers a failed build again, or one a restart interrupted.    *)
AskAgain(r) ==
    /\ at[r] = "done"
    /\ selected = Home
    /\ extras < MaxExtras
    /\ kind[r] \in {"submit", "followup", "retry", "resume"}
    /\ \/ turn[r] = "failed" /\ r \in owned /\ kind' = [kind EXCEPT ![r] = "retry"]
       \/ Resumable(r) /\ kind' = [kind EXCEPT ![r] = "resume"]
    /\ at' = [at EXCEPT ![r] = "permission"]
    /\ extras' = extras + 1
    /\ UNCHANGED <<selected, lease, binding, live, stopped, conversation, folder>>

Rejected(r) ==
    /\ at' = [at EXCEPT ![r] = "done"]
    /\ UNCHANGED <<lease, binding, head, local>>

Busy(p) == lease[p] # None

(* acquireProjectTaskLease() *)
TakeLease(r, p) ==
    lease' = [lease EXCEPT ![p] = r]

(* The attention of a task of another project is refused after the lease   *)
(* was taken.                                                               *)
AdmitElsewhere(r, p) ==
    /\ ~Busy(p)
    /\ p # Home
    /\ kind[r] \in Leased \ {"first"}
    /\ TakeLease(r, p)
    /\ at' = [at EXCEPT ![r] = "done"]
    /\ UNCHANGED <<binding, head, local>>

(* A reviewed plan, a revised draft and the first message of another task   *)
(* run without the task's binding.                                          *)
AdmitUnbound(r) ==
    /\ ~Busy(Home)
    /\ kind[r] \in {"first", "approved", "continue"}
    /\ TakeLease(r, Home)
    /\ at' = [at EXCEPT ![r] = "base"]
    /\ UNCHANGED <<binding, head, local>>

AdmitKept(r) ==  \* mutant: a busy task keeps the lease
    /\ ~Busy(Home)
    /\ kind[r] \in {"submit", "retry", "resume"}
    /\ TakeLease(r, Home)
    /\ IF binding = None
       THEN /\ binding' = r
            /\ at' = [at EXCEPT ![r] = "base"]
            /\ IF kind[r] = "resume" THEN Append(r) ELSE UNCHANGED <<head, local>>
       ELSE /\ at' = [at EXCEPT ![r] = "done"]
            /\ UNCHANGED <<binding, head, local>>

(* retainActiveTaskRequest(): when the task is busy the lease is returned. *)
AdmitBound(r) ==
    /\ ~Busy(Home)
    /\ kind[r] \in {"submit", "retry", "resume"}
    /\ IF binding = None
       THEN /\ TakeLease(r, Home)
            /\ binding' = r
            /\ at' = [at EXCEPT ![r] = "base"]
            /\ IF kind[r] = "resume" THEN Append(r) ELSE UNCHANGED <<head, local>>
       ELSE Rejected(r)

(* A queued follow-up has no lease, whoever holds it, only the binding.     *)
AdmitFollowup(r) ==
    /\ kind[r] = "followup"
    /\ IF binding = None
       THEN /\ binding' = r
            /\ at' = [at EXCEPT ![r] = "base"]
            /\ UNCHANGED <<lease, head, local>>
       ELSE Rejected(r)

(* trackedRestoreRevisionAsDraft(), trackedRestorePreviousCheckpointAsDraft() *)
AdmitFree(r) ==
    /\ kind[r] \in Restores
    /\ at' = [at EXCEPT ![r] = "base"]
    /\ UNCHANGED <<lease, binding, head, local>>

(* assertSelectedProjectWriteAllowed() has answered.  Most requests then go *)
(* to the project that is selected by now.  (A first message that goes to   *)
(* another project leaves this model.)                                      *)
Permission(r) ==
    /\ at[r] = "permission"
    /\ LET p == IF kind[r] \in {"submit", "first", "retry", "followup", "undo"}
                THEN selected ELSE Home
       IN  \/ /\ \/ p = None
                 \/ kind[r] = "resume" /\ ~(selected = Home /\ Resumable(r))
                 \/ kind[r] \in Leased /\ p # None /\ Busy(p)
                 \/ kind[r] \in {"first", "followup", "undo"} /\ p # Home
              /\ Rejected(r)
           \/ /\ p \in Projects
              /\ kind[r] = "resume" => selected = Home /\ Resumable(r)
              /\ \/ AdmitElsewhere(r, p)
                 \/ /\ p = Home
                    /\ AdmitUnbound(r) \/ AdmitBound(r) \/ AdmitFollowup(r) \/ AdmitFree(r)
    /\ UNCHANGED <<selected, kind, live, stopped, turn, owned, last, offer, draft, folder, extras>>

-----------------------------------------------------------------------------
(* How a request ends: the service's catch and finally, then the gate's     *)

EndsWhenNotStopped(r) ==  \* mutant: a stopped request is taken to be unbound
    /\ at' = [at EXCEPT ![r] = "done"]
    /\ live' = live \ {r}
    /\ stopped' = stopped \ {r}
    /\ binding' = IF binding = r /\ r \notin stopped THEN None ELSE binding
    /\ lease' = [p \in Projects |-> IF lease[p] = r THEN None ELSE lease[p]]
    /\ expected' = [expected EXCEPT ![r] = None]
    /\ UNCHANGED <<selected, kind, extras>>

Ends(r) ==
    /\ at' = [at EXCEPT ![r] = "done"]
    /\ live' = live \ {r}
    /\ stopped' = stopped \ {r}
    /\ binding' = IF binding = r THEN None ELSE binding
    /\ lease' = [p \in Projects |-> IF lease[p] = r THEN None ELSE lease[p]]
    /\ expected' = [expected EXCEPT ![r] = None]
    /\ UNCHANGED <<selected, kind, extras>>

(* recordFailure(): a run that can be tried again leaves its turn open; one *)
(* that changed nothing, and one that was stopped, end it.  A context that  *)
(* is not at the head records nothing.                                      *)
RecordFailure(r) ==
    IF r \in live /\ AtHead(r) /\ turn[r] = "open"
    THEN \/ /\ turn' = [turn EXCEPT ![r] = "failed"]
            /\ Append(r)
            /\ UNCHANGED <<owned, last, offer, draft>>
         \/ /\ kind[r] \in Builds \ Restores
            /\ CloseTurn(r, "failure")
            /\ UNCHANGED <<last, offer, draft>>
    ELSE UNCHANGED conversation

Settle(r) ==
    /\ RecordFailure(r)
    /\ Ends(r)
    /\ UNCHANGED shown

(* The catch waits for the runner to be cancelled first, when there is one. *)
Fail(r) ==
    IF /\ kind[r] \notin Restores
       /\ \/ at[r] \in {"candidate", "admitted", "checked", "projected", "refused"}
          \/ at[r] = "running" /\ r \in stopped
    THEN /\ at' = [at EXCEPT ![r] = "ending"]
         /\ UNCHANGED <<selected, lease, binding, kind, live, stopped, conversation, folder, extras>>
    ELSE Settle(r)

Settled(r) ==
    /\ at[r] = "ending"
    /\ Settle(r)

(* An append succeeds only at the head; anything else fails the run.        *)
Goes(r, phase) ==
    /\ at' = [at EXCEPT ![r] = phase]
    /\ UNCHANGED <<selected, lease, binding, kind, stopped, extras>>

-----------------------------------------------------------------------------
(* buildGenerationContext(), buildDraftContinuationContext(),               *)
(* buildExplanationContext(), restoreRevisionAsDraft() and                  *)
(* restorePreviousCheckpointAsDraft()                                       *)

(* What a build starts from: a saved version or a draft, so a candidate     *)
(* that a conversation has recorded, or a folder without any.  A tree is     *)
(* told by the candidate that made it: an undo makes one of its own.        *)
Recorded == {None} \cup {q \in Requests : turn[q] = "candidate"}

Begin(r) ==
    /\ at[r] = "base"
    /\ MayBegin(r)
    /\ BeginTurn(r)
    /\ Append(r)
    /\ IF InTask(r) THEN last' = r /\ offer' = "none" ELSE UNCHANGED <<last, offer>>
    /\ live' = IF kind[r] \in {"resume"} \cup Restores THEN live \cup {r} ELSE live
    /\ \E base \in IF kind[r] \in Questions THEN {None} ELSE Recorded :
         expected' = [expected EXCEPT ![r] = base]
    /\ Goes(r, "snapshot")
    /\ UNCHANGED <<draft, shown>>

(* The base cannot be read, or the conversation has moved on.               *)
BaseFails(r) ==
    /\ at[r] = "base"
    /\ Fail(r)

(* Undoing the first change of a conversation rejects its draft.            *)
UndoRejects(r) ==
    /\ at[r] = "base"
    /\ kind[r] = "undo"
    /\ NoneActive
    /\ draft' \in BOOLEAN
    /\ offer' = "none"
    /\ head' = None
    /\ local' = FALSE
    /\ Ends(r)
    /\ UNCHANGED <<turn, owned, last, shown>>

(* recordConversationContextSnapshot() is awaited before the context enters *)
(* activeContexts.  What is to be restored is a candidate at once.          *)
Snapshot(r) ==
    /\ at[r] = "snapshot"
    /\ AtHead(r)
    /\ Append(r)
    /\ live' = live \cup {r}
    /\ Goes(r, IF kind[r] \in Restores THEN "candidate" ELSE "active")
    /\ UNCHANGED <<turn, owned, last, offer, draft, folder>>

SnapshotFails(r) ==
    /\ at[r] = "snapshot"
    /\ Fail(r)

-----------------------------------------------------------------------------
(* A question: startAnswer().  A message may turn out to be one, too.       *)

Answered(r) ==
    /\ at[r] = "active"
    /\ kind[r] \in Questions \cup {"submit", "first", "followup"}
    /\ AtHead(r)
    /\ CloseTurn(r, "answered")
    /\ Ends(r)
    /\ UNCHANGED <<last, offer, draft, shown>>

-----------------------------------------------------------------------------
(* A build: startHarnessGenerate() *)

(* The provider is read; a reviewed plan records its admission.             *)
StartRun(r) ==
    /\ at[r] = "active"
    /\ kind[r] \in Builds
    /\ kind[r] = "approved" => head = r
    /\ local' = IF head = r THEN TRUE ELSE local
    /\ Goes(r, "running")
    /\ UNCHANGED <<live, turn, owned, last, offer, draft, head, folder>>

StartFails(r) ==
    /\ at[r] = "active"
    /\ Fail(r)

(* persistRuntimeEvent() takes the latest context of the run, in place of   *)
(* the copy, before it appends; so does the result of the automatic check.  *)
PersistEvent(r) ==
    /\ at[r] \in {"running", "checked"}
    /\ r \notin stopped
    /\ head = r
    /\ ~local
    /\ Append(r)
    /\ UNCHANGED <<control, turn, owned, last, offer, draft, folder, extras>>

Current(r) == AtHead(r) /\ (InTask(r) => local)

Responded(r) ==
    /\ at[r] = "running"
    /\ r \notin stopped
    /\ Current(r)
    /\ CloseTurn(r, "answered")
    /\ Ends(r)
    /\ UNCHANGED <<last, offer, draft, shown>>

CandidateReady(r) ==
    /\ at[r] = "running"
    /\ r \notin stopped
    /\ Goes(r, "candidate")
    /\ UNCHANGED <<live, conversation, folder>>

(* admitCandidateWorkspaceGuard() reads the folder afresh.                  *)
Admit(r) ==
    /\ at[r] = "candidate"
    /\ r \notin stopped
    /\ shown = expected[r]
    /\ Goes(r, "admitted")
    /\ UNCHANGED <<live, conversation, folder>>

(* The candidate is committed, verified and recorded as a checkpoint.       *)
Checkpoint(r) ==
    /\ at[r] = "admitted"
    /\ r \notin stopped
    /\ Current(r)
    /\ Append(r)
    /\ Goes(r, "checked")
    /\ UNCHANGED <<live, turn, owned, last, offer, draft, folder>>

(* The automatic check has ended.  A failed one keeps the candidate out of  *)
(* the folder.  A run that is stopped later than this is not called off.    *)
Project(r) ==
    /\ at[r] = "checked"
    /\ r \notin stopped
    /\ \/ Goes(r, "writing")
       \/ kind[r] \notin Restores /\ Goes(r, "refused")
    /\ UNCHANGED <<live, conversation, folder>>

MaterializeAnyway(r) ==  \* mutant: whatever the folder shows is replaced
    /\ at[r] = "writing"
    /\ \/ shown' = r /\ Goes(r, "projected")
       \/ UNCHANGED shown /\ Goes(r, "refused")
    /\ UNCHANGED <<live, conversation, expected>>

(* materializeCandidateToCurrentWorkspace(): the candidate is in the folder, *)
(* in place of what it was made from, or reported not to be.                *)
Materialize(r) ==
    /\ at[r] = "writing"
    /\ \/ shown = expected[r] /\ shown' = r /\ Goes(r, "projected")
       \/ UNCHANGED shown /\ Goes(r, "refused")
    /\ UNCHANGED <<live, conversation, expected>>

CompleteOver(r) ==  \* mutant: the completion is appended wherever the head is
    /\ at[r] \in {"projected", "refused"}
    /\ CloseTurn(r, "candidate")
    /\ IF InTask(r) THEN offer' = "draft" /\ draft' = TRUE ELSE UNCHANGED <<offer, draft>>
    /\ Ends(r)
    /\ UNCHANGED <<last, shown>>

(* completeCandidate() *)
Complete(r) ==
    /\ at[r] \in {"projected", "refused"}
    /\ Current(r)
    /\ CloseTurn(r, "candidate")
    /\ IF InTask(r) THEN offer' = "draft" /\ draft' = TRUE ELSE UNCHANGED <<offer, draft>>
    /\ Ends(r)
    /\ UNCHANGED <<last, shown>>

RunFails(r) ==
    /\ at[r] \in {"running", "candidate", "admitted", "checked", "projected", "refused"}
    /\ Fail(r)

-----------------------------------------------------------------------------
(* What reaches a run from outside *)

CancelFreesTask(r) ==  \* mutant: cancelling returns the lease at once
    /\ r \in live
    /\ r \notin stopped
    /\ kind[r] \notin Restores
    /\ AtHead(r)
    /\ \E outcome \in {"cancelled", "interrupted"} : CloseTurn(r, outcome)
    /\ stopped' = stopped \cup {r}
    /\ binding' = IF binding = r THEN None ELSE binding
    /\ lease' = [p \in Projects |-> IF lease[p] = r THEN None ELSE lease[p]]
    /\ UNCHANGED <<selected, kind, at, live, last, offer, draft, folder, extras>>

(* cancel(): the turn ends at once, the run when it notices.  The task's    *)
(* control, unlike the conversation's, frees the task.  Undoing and         *)
(* restoring cannot be cancelled.                                           *)
Cancel(r) ==
    /\ r \in live
    /\ r \notin stopped
    /\ kind[r] \notin Restores
    /\ AtHead(r)
    /\ \E outcome \in {"cancelled", "interrupted"} : CloseTurn(r, outcome)
    /\ stopped' = stopped \cup {r}
    /\ binding' \in IF binding = r THEN {r, None} ELSE {binding}
    /\ UNCHANGED <<selected, lease, kind, at, live, last, offer, draft, folder, extras>>

(* The conversation has moved on: the call fails, but the run is stopped.   *)
CancelRefused(r) ==
    /\ r \in live
    /\ r \notin stopped
    /\ kind[r] \notin Restores
    /\ ~AtHead(r)
    /\ at[r] \in {"running", "candidate", "admitted", "checked", "writing",
                  "projected", "refused", "ending"}
    /\ stopped' = stopped \cup {r}
    /\ UNCHANGED <<selected, lease, binding, kind, at, live, conversation, folder, extras>>

(* steer() and queue_followup(): the copy of the run is not updated.        *)
Steer(r) ==
    /\ r \in live
    /\ kind[r] \notin Restores
    /\ head = r
    /\ extras < MaxExtras
    /\ extras' = extras + 1
    /\ local' = FALSE
    /\ UNCHANGED <<control, turn, owned, last, offer, draft, head, folder>>

ReadRecovers ==  \* mutant: the turns of this process are recovered, too
    /\ binding = None
    /\ ~NoneActive
    /\ turn' = Recovered
    /\ owned' = {q \in owned : ~Active(q)}
    /\ head' = None
    /\ local' = FALSE
    /\ UNCHANGED <<control, last, offer, draft, folder, extras>>

(* readStream() and recover_inactive_run() *)
ReadStream ==
    /\ binding = None
    /\ ~NoneActive
    /\ \A q \in Requests : Active(q) => q \notin owned
    /\ turn' = Recovered
    /\ owned' = {q \in owned : ~Active(q)}
    /\ head' = None
    /\ local' = FALSE
    /\ UNCHANGED <<control, last, offer, draft, folder, extras>>

(* Only the conversation and the folder are durable; a projection that was  *)
(* under way is finished or undone.                                         *)
Restart ==
    /\ extras < MaxExtras
    /\ extras' = extras + 1
    /\ selected' = Home
    /\ lease' = [p \in Projects |-> None]
    /\ binding' = None
    /\ at' = [r \in Requests |-> IF at[r] = "idle" THEN "idle" ELSE "done"]
    /\ live' = {}
    /\ stopped' = {}
    /\ owned' = {}
    /\ head' = None
    /\ shown' \in {shown} \cup {r \in Requests : at[r] = "writing" /\ shown = expected[r]}
    /\ local' = FALSE
    /\ expected' = [r \in Requests |-> None]
    /\ UNCHANGED <<kind, turn, last, offer, draft>>

-----------------------------------------------------------------------------
Init ==
    /\ selected = Home
    /\ lease = [p \in Projects |-> None]
    /\ binding = None
    /\ kind = [r \in Requests |-> "submit"]
    /\ at = [r \in Requests |-> "idle"]
    /\ live = {}
    /\ stopped = {}
    /\ turn = [r \in Requests |-> "none"]
    /\ owned = {}
    /\ last = None
    /\ offer \in {"plan", "draft"}
    /\ draft = (offer = "draft")
    /\ head = None
    /\ local = FALSE
    /\ shown = None
    /\ expected = [r \in Requests |-> None]
    /\ extras = 0

(* The steps of a request's own promise *)
Advance(r) ==
    \/ Permission(r) \/ Begin(r) \/ BaseFails(r) \/ UndoRejects(r)
    \/ Snapshot(r) \/ SnapshotFails(r)
    \/ Answered(r) \/ StartRun(r) \/ StartFails(r)
    \/ PersistEvent(r) \/ Responded(r) \/ CandidateReady(r)
    \/ Admit(r) \/ Checkpoint(r) \/ Project(r) \/ Materialize(r) \/ Complete(r)
    \/ RunFails(r) \/ Settled(r)

Next ==
    \/ OpenProject \/ ProjectOpened \/ ReadStream \/ Restart
    \/ \E r \in Requests :
         \/ \E k \in Kinds : Ask(r, k)
         \/ AskAgain(r) \/ Advance(r)
         \/ Cancel(r) \/ CancelRefused(r) \/ Steer(r)

Spec == Init /\ [][Next]_vars

(* Every promise a request waits for settles: the reads and Git end, and a  *)
(* run ends by its own timeouts.                                            *)
FairSpec == Spec /\ \A r \in Requests : WF_vars(Advance(r))

-----------------------------------------------------------------------------
(* Of one conversation at most one turn is open, whatever requests begin    *)
(* turns over each other (recoverActive, beginTurn).                        *)
OneOpenTurn ==
    \A q, r \in Requests : Active(q) /\ Active(r) => q = r

(* A turn whose context the process still holds, and that is open, is one   *)
(* the process knows as its own: reading the task's stream therefore never  *)
(* recovers it (ownedActiveTurns, recover_inactive_run).                    *)
LiveTurnIsOwned ==
    \A r \in live : Active(r) => r \in owned

(* A request that asks for the project's lease holds it from its gate until *)
(* its promise has settled, also while it is being cancelled or is failing,  *)
(* and nobody else does: a build that was refused, failed, cancelled or      *)
(* answered, a question, a queued follow-up and a restoration never keep the *)
(* project busy (trackedGenerationOperation and its siblings).               *)
LeaseHeldThroughout ==
    \A r \in Requests :
        lease[Home] = r <=> kind[r] \in Leased /\ at[r] \notin Outside \cup {"permission"}

(* A request that is about to record that its candidate is in the project's *)
(* folder is right: nobody has projected another candidate since, not even   *)
(* one of those that work beside it without the lease, a queued follow-up    *)
(* or a restoration, nor a run that was stopped while it was writing         *)
(* (materializeCandidateToCurrentWorkspace, completeCandidate).              *)
ProjectedIsShown ==
    \A r \in Requests : at[r] = "projected" => shown = r

(* The task is bound to a request that is in progress: a request that ended *)
(* in any way, or was refused, never keeps the task busy.                   *)
BindingIsLive ==
    binding # None => at[binding] \notin Outside \cup {"permission"}

(* A turn ends once: what its end says never changes, whoever races to end  *)
(* it, except that an interrupted turn may be resumed while it is the last. *)
TurnEndsOnce ==
    [][\A r \in Requests :
         turn[r] \in Closed =>
            \/ turn'[r] = turn[r]
            \/ turn[r] = "interrupted" /\ turn'[r] = "open" /\ last = r /\ kind[r] = "resume"]_vars

InterruptedFromOutside(r) ==
    /\ kind[r] \in Builds
    /\ at[r] \notin Outside
    /\ turn[r] = "open"
    /\ r \in owned
    /\ turn'[r] = "interrupted"
    /\ r \notin stopped'

Interrupters(r) ==
    {"undo", "draftAnswer"}
      \cup (IF binding = r THEN {} ELSE {"answer"})
      \cup (IF kind[r] = "undo" THEN {"submit"} ELSE {})

(* A build that runs is closed as interrupted by nobody but a request that  *)
(* begins its turn over it: an undo or a question about the draft, which ask *)
(* for neither the lease nor the binding; a question about the task when the *)
(* build did not take the binding; and a new build only when it was an undo, *)
(* which took nothing.  A queued follow-up never interrupts (beginTurn).     *)
OnlyTheseInterrupt ==
    [][\A r \in Requests : InterruptedFromOutside(r) =>
         \E q \in Requests :
            at[q] = "base" /\ at'[q] = "snapshot" /\ kind[q] \in Interrupters(r)]_vars

(* Every request settles and returns the task and its project.              *)
RequestSettles ==
    \A r \in Requests :
        (at[r] \notin Outside \/ binding = r \/ lease[Home] = r)
            ~> (at[r] = "done" /\ binding # r /\ lease[Home] # r)

(* "One task admits at most one active request" (AGENT_WORKBENCH_TASK_      *)
(* SUPERVISION_V2_CONTROL_AND_RESULT_CLOSURE_GATE): a build that runs is    *)
(* never closed as interrupted by another request of the task.              *)
RunIsNotInterrupted ==
    [][\A r \in Requests : ~InterruptedFromOutside(r)]_vars
=============================================================================
