----------------------------- MODULE ProjectSave -----------------------------
(***************************************************************************)
(* From a generated draft to a saved version of a project: the run that    *)
(* makes a draft and shows it in the project folder                        *)
(* (src/electron/builder-generation-main-service.cjs, under the lease of   *)
(* builder-project-task-lease-coordinator.cjs), the check gate             *)
(* (builder-check-run-save-gate.cjs, builder-check-run-activity-           *)
(* registry.cjs), the save (builder-project-save-authority.cjs), the       *)
(* revision record in SQLite (builder-product-metadata-database.cjs) and   *)
(* the turns and review facts of the conversation                          *)
(* (builder-conversation-main-service.cjs, -replay.cjs).                   *)
(*                                                                         *)
(* A save is a chain of awaits over four stores, and every other operation *)
(* may run between two of its steps: another save, a run, a question, a    *)
(* check, a rejection, a reopening of the project, the user's editor.  The *)
(* process may die at any step; SQLite, Git and the folder survive.        *)
(*                                                                         *)
(* The projection onto main and the folder is the one of CurrentProjection *)
(* with its file steps drawn together: it is begun, finished or undone, or *)
(* it dies and leaves a journal.                                           *)
(***************************************************************************)
EXTENDS Naturals

CONSTANTS
    Draft,         \* drafts; each is one Git candidate commit
    None,          \* no draft, no revision, no tree
    Question,      \* a turn of the conversation that makes no draft
    Tree,          \* source trees
    EmptyTree,     \* the one without files
    Found,         \* what the folder may hold when the project is made
    Mixed,         \* the folder in the middle of a transaction
    Edited,        \* the folder after the user changed a file
    Outcomes,      \* how a check may end: "passed", "failed"
    MaxHead,       \* bound: with that many events the user says no more
    StopKinds,     \* which of "crash", "edit" and "git" (a failure) happen
    MaxStops       \* bound: how often

ASSUME SaveAssumption ==
    /\ None \notin Draft /\ Question \notin Draft \cup {None}
    /\ EmptyTree \in Tree /\ Found \subseteq Tree
    /\ {Mixed, Edited} \cap Tree = {} /\ Mixed # Edited
    /\ None \notin Tree \cup {Mixed, Edited}
    /\ Outcomes \subseteq {"passed", "failed"}
    /\ MaxHead \in Nat
    /\ StopKinds \subseteq {"crash", "edit", "git"}
    /\ MaxStops \in Nat

VARIABLES
    \* SQLite
    selected,   \* the project's current revision
    recorded,   \* a draft's revision record: the head its save was stamped with
    head,       \* number of conversation events
    turn,       \* the active turn of the conversation
    status,     \* a draft in the conversation
    shown,      \* its recorded materialization status is "materialized"
    check,      \* its latest check run, or the decision to skip it
    \* Git and the project folder
    draft,      \* a candidate's base commit, the tree of that base, its own tree
    main,       \* refs/heads/main
    folder,     \* what is in the project folder
    journal,    \* the worktree journal: from which commit to which, and the tree before
    \* memory
    pending,    \* pendingDrafts of the generation service
    attempts,   \* attempts of the save authority: the remembered stamp
    active,     \* the check-run activity registry
    run,        \* the generation that holds the project's lease
    save,       \* where a draft's save stands, and what it has read
    job,        \* the projection that holds the project's queue
    stops

facts == <<selected, recorded, head, turn, status, shown, check>>
git == <<draft, main>>
disk == <<folder, journal>>
memory == <<pending, attempts, active>>
vars == <<facts, git, disk, memory, run, save, job, stops>>

Rev == Draft \cup {None}
Folder == Tree \cup {Mixed, Edited}
NoDraft == [base |-> None, from |-> EmptyTree, to |-> EmptyTree]
NoRun == [draft |-> None, at |-> "none", expect |-> EmptyTree, repair |-> FALSE]
NoSave == [at |-> "none", stamp |-> 0, seen |-> EmptyTree, repair |-> FALSE]
NoJob == [draft |-> None, for |-> "none", at |-> "free", expect |-> EmptyTree, repair |-> FALSE]
NoJournal == [from |-> None, to |-> None, back |-> EmptyTree]

RunState == [draft : Rev,
             at : {"none", "started", "checked", "projecting", "projected", "unprojected"},
             expect : Tree, repair : BOOLEAN]
SaveState == [at : {"none", "verified", "observed", "recorded", "projecting", "projected",
                    "loaded", "failed"},
              stamp : Nat, seen : Tree, repair : BOOLEAN]
JobState == [draft : Rev, for : {"none", "open", "run", "save"},
             at : {"free", "recovering", "inspecting", "updating"},
             expect : Tree, repair : BOOLEAN]

TypeOK ==
    /\ selected \in Rev /\ main \in Rev
    /\ recorded \in [Draft -> Nat] /\ head \in Nat
    /\ turn \in Rev \cup {Question}
    /\ status \in [Draft -> {"none", "working", "failed", "ready", "accepted", "rejected"}]
    /\ shown \in [Draft -> BOOLEAN]
    /\ check \in [Draft -> {"absent", "passed", "failed", "blocked", "skipped"}]
    /\ draft \in [Draft -> [base : Rev, from : Tree, to : Tree]]
    /\ folder \in Folder /\ journal \in [from : Rev, to : Rev, back : Tree]
    /\ pending \in SUBSET Draft /\ attempts \in [Draft -> Nat]
    /\ active \in [Draft -> {"free", "check", "save"}]
    /\ run \in RunState /\ save \in [Draft -> SaveState] /\ job \in JobState
    /\ stops \in 0..MaxStops

Stop(kind) == kind \in StopKinds /\ stops < MaxStops /\ stops' = stops + 1
Appends == head' = head + 1
UserAppends == head < MaxHead /\ Appends
TreeOf(d) == draft[d].to

-----------------------------------------------------------------------------
(* The projection queue: project_current(), and recover_project() of a     *)
(* reopened project, one at a time.                                         *)

Enqueue(d, for, expect, repair) ==
    /\ job = NoJob
    /\ job' = [draft |-> d, for |-> for, at |-> "recovering",
               expect |-> expect, repair |-> repair]

(* The result goes to the caller, and the queue is free for the next job.   *)
JobEnds(ok) ==
    /\ job' = NoJob
    /\ run' = IF job.for = "run"
              THEN [run EXCEPT !.at = IF ok THEN "projected" ELSE "unprojected"] ELSE run
    /\ save' = IF job.for = "save"
               THEN [save EXCEPT ![job.draft].at = IF ok THEN "projected" ELSE "failed"]
               ELSE save

(* recoverWorktree(): job.draft is the commit its caller wants.             *)
Completes == journal.to = job.draft /\ main \in {journal.from, journal.to}
RestoresAny == journal.to # job.draft /\ journal.from = job.draft  \* mutant: main unread
Restores == journal.to # job.draft /\ journal.from = job.draft /\ main = job.draft

JobRecovers ==
    /\ job.at = "recovering"
    /\ \/ journal = NoJournal /\ UNCHANGED <<folder, journal, main>>
       \/ /\ journal # NoJournal /\ folder # Edited
          /\ \/ Completes /\ main' = job.draft /\ folder' = TreeOf(job.draft)
             \/ Restores /\ main' = main /\ folder' = journal.back
          /\ journal' = NoJournal
    /\ IF job.for = "open" THEN JobEnds(TRUE)
       ELSE job' = [job EXCEPT !.at = "inspecting"] /\ UNCHANGED <<run, save>>
    /\ UNCHANGED <<facts, draft, memory, stops>>

RecoveryRefusesSilently ==  \* mutant: the caller is not told
    /\ job.at = "recovering"
    /\ journal # NoJournal
    /\ folder = Edited \/ ~(Completes \/ Restores)
    /\ job' = NoJob
    /\ UNCHANGED <<facts, git, disk, memory, run, save, stops>>

RecoveryRefuses ==
    /\ job.at = "recovering"
    /\ journal # NoJournal
    /\ folder = Edited \/ ~(Completes \/ Restores)
    /\ JobEnds(FALSE)
    /\ UNCHANGED <<facts, git, disk, memory, stops>>

AdmittedForRepair ==  \* mutant: a repair does not look at the folder
    IF main = job.draft THEN folder = TreeOf(job.draft)
    ELSE job.repair \/ (folder = job.expect /\ main = draft[job.draft].base)

Admitted ==
    IF main = job.draft THEN folder = TreeOf(job.draft)
    ELSE folder = job.expect /\ (main = draft[job.draft].base \/ job.repair)

(* begin() and apply(), in one synchronous section with the inspection.     *)
JobApplies ==
    /\ job.at = "inspecting"
    /\ Admitted
    /\ folder' = TreeOf(job.draft)
    /\ journal' = [from |-> main, to |-> job.draft, back |-> folder]
    /\ job' = [job EXCEPT !.at = "updating"]
    /\ UNCHANGED <<facts, git, memory, run, save, stops>>

JobRefuses ==
    /\ job.at = "inspecting"
    /\ ~Admitted
    /\ JobEnds(FALSE)
    /\ UNCHANGED <<facts, git, disk, memory, stops>>

JobCommits ==
    /\ job.at = "updating"
    /\ main' = job.draft
    /\ journal' = NoJournal
    /\ JobEnds(TRUE)
    /\ UNCHANGED <<facts, draft, folder, memory, stops>>

(* A file operation or the update-ref fails, and everything is undone.      *)
JobUndoes ==
    /\ job.at = "updating"
    /\ Stop("git")
    /\ folder' = journal.back
    /\ journal' = NoJournal
    /\ JobEnds(FALSE)
    /\ UNCHANGED <<facts, git, memory>>

-----------------------------------------------------------------------------
(* Turns of the conversation.  A new one interrupts the one in progress     *)
(* (recoverActive()), also when that is a generation still running.         *)

Begins(t) ==
    /\ UserAppends
    /\ turn' = t

Interrupted == IF turn \in Draft THEN [status EXCEPT ![turn] = "failed"] ELSE status

Ask ==
    /\ Begins(Question)
    /\ status' = Interrupted
    /\ UNCHANGED <<selected, recorded, shown, check, git, disk, memory, run, save, job, stops>>

(* The answer, or after a restart the clean-up of a turn nobody runs.       *)
TurnEnds ==
    /\ turn # None
    /\ turn # run.draft
    /\ Appends
    /\ turn' = None
    /\ status' = Interrupted
    /\ UNCHANGED <<selected, recorded, shown, check, git, disk, memory, run, save, job, stops>>

-----------------------------------------------------------------------------
(* A generation run that holds the project's lease, so one at a time.  It   *)
(* starts from the selected revision, or continues a draft on that draft's  *)
(* own base.  What makes a draft without the lease (a queued follow-up, an  *)
(* undo, a restored version) is in TaskTurn, and is left out here: it       *)
(* writes the folder by the same comparison with what the folder shows.     *)

Starts(d, b, from, to, expect, repair) ==
    /\ run = NoRun
    /\ status[d] = "none"
    /\ to # from
    /\ Begins(d)
    /\ status' = [Interrupted EXCEPT ![d] = "working"]
    /\ draft' = [draft EXCEPT ![d] = [base |-> b, from |-> from, to |-> to]]
    /\ run' = [draft |-> d, at |-> "started", expect |-> expect, repair |-> repair]
    /\ UNCHANGED <<selected, recorded, shown, check, main, disk, memory, save, job, stops>>

(* loadBaseForExistingProject(): load_current(), which recovers the         *)
(* worktree first, or without a saved revision what is in the folder.       *)
Generate(d) ==
    \E to \in Tree :
       IF selected = None
       THEN folder \in Tree /\ Starts(d, None, folder, to, folder, FALSE)
       ELSE /\ journal = NoJournal /\ job = NoJob
            /\ Starts(d, selected, TreeOf(selected), to, TreeOf(selected), FALSE)

ContinueDraft(d, p) ==
    /\ status[p] = "ready"
    /\ turn = None
    /\ selected = draft[p].base
    /\ LET from == IF selected = None THEN EmptyTree ELSE TreeOf(selected)
           expect == IF shown[p] THEN TreeOf(p) ELSE from
       IN \E to \in Tree : Starts(d, draft[p].base, from, to, expect, shown[p])

(* The run of an interrupted turn has nothing more to record.               *)
RunFails(d) ==
    /\ run' = NoRun
    /\ IF turn = d
       THEN Appends /\ turn' = None /\ status' = [status EXCEPT ![d] = "failed"]
       ELSE UNCHANGED <<head, turn, status>>

(* admitCandidateWorkspaceGuard(), then the automatic check, when there is  *)
(* one.  A changed folder fails the run.                                    *)
RunChecks(d) ==
    /\ run.draft = d /\ run.at = "started"
    /\ IF folder = run.expect
       THEN /\ run' = [run EXCEPT !.at = "checked"]
            /\ \E c \in {"absent"} \cup Outcomes : check' = [check EXCEPT ![d] = c]
            /\ UNCHANGED <<head, turn, status>>
       ELSE RunFails(d) /\ UNCHANGED check
    /\ UNCHANGED <<selected, recorded, shown, git, disk, memory, save, job, stops>>

(* materializeCandidateToCurrentWorkspace(), unless the check failed.       *)
RunProjects(d) ==
    /\ run.draft = d /\ run.at = "checked"
    /\ check[d] # "failed"
    /\ Enqueue(d, "run", run.expect, run.repair)
    /\ run' = [run EXCEPT !.at = "projecting"]
    /\ UNCHANGED <<facts, git, disk, memory, save, stops>>

RunCompletesInTurn(d) ==  \* mutant: an interrupted run never ends
    /\ turn = d
    /\ run.draft = d
    /\ run.at \in {"projected", "unprojected"}
    /\ Appends
    /\ turn' = None
    /\ status' = [status EXCEPT ![d] = "ready"]
    /\ shown' = [shown EXCEPT ![d] = (run.at = "projected")]
    /\ pending' = pending \cup {d}
    /\ run' = NoRun
    /\ UNCHANGED <<selected, recorded, check, git, disk, attempts, active, save, job, stops>>

(* completeConversationCandidate() needs the turn to be still active.       *)
RunCompletes(d) ==
    /\ run.draft = d
    /\ \/ run.at \in {"projected", "unprojected"}
       \/ run.at = "checked" /\ check[d] = "failed"
    /\ IF turn = d
       THEN /\ Appends
            /\ turn' = None
            /\ status' = [status EXCEPT ![d] = "ready"]
            /\ shown' = [shown EXCEPT ![d] = (run.at = "projected")]
            /\ pending' = pending \cup {d}
            /\ run' = NoRun
       ELSE RunFails(d) /\ UNCHANGED <<shown, pending>>
    /\ UNCHANGED <<selected, recorded, check, git, disk, attempts, active, save, job, stops>>

(* rejectDraft(): the candidate_rejected event.  Nothing is taken back from *)
(* the folder.                                                              *)
RejectDraft(d) ==
    /\ status[d] = "ready"
    /\ turn = None
    /\ UserAppends
    /\ status' = [status EXCEPT ![d] = "rejected"]
    /\ pending' = pending \ {d}
    /\ UNCHANGED <<selected, recorded, turn, shown, check, git, disk,
                   attempts, active, run, save, job, stops>>

-----------------------------------------------------------------------------
(* Checks of a draft: begin_check_run(), end_check_run() with the result    *)
(* recorded or not, and the decision to skip the check, which takes and      *)
(* gives back the registry at once.                                         *)

BeginCheckAnyTime(d) ==  \* mutant: also during a save
    /\ status[d] = "ready"
    /\ active' = [active EXCEPT ![d] = "check"]
    /\ UNCHANGED <<facts, git, disk, pending, attempts, run, save, job, stops>>

BeginCheck(d) ==
    /\ status[d] = "ready"
    /\ active[d] = "free"
    /\ active' = [active EXCEPT ![d] = "check"]
    /\ UNCHANGED <<facts, git, disk, pending, attempts, run, save, job, stops>>

EndCheck(d) ==
    /\ active[d] = "check"
    /\ active' = [active EXCEPT ![d] = "free"]
    /\ \E c \in {check[d]} \cup Outcomes : check' = [check EXCEPT ![d] = c]
    /\ UNCHANGED <<selected, recorded, head, turn, status, shown, git, disk,
                   pending, attempts, run, save, job, stops>>

(* A check that is still being prepared holds nothing.  When it finds that  *)
(* it cannot run it records that, whatever became of the draft meanwhile.   *)
CheckIsBlocked(d) ==
    /\ status[d] \in {"ready", "accepted", "rejected"}
    /\ active[d] # "check"
    /\ check' = [check EXCEPT ![d] = "blocked"]
    /\ UNCHANGED <<selected, recorded, head, turn, status, shown, git, disk,
                   memory, run, save, job, stops>>

SkipCheck(d) ==
    /\ status[d] = "ready"
    /\ active[d] = "free"
    /\ check[d] = "absent"
    /\ check' = [check EXCEPT ![d] = "skipped"]
    /\ UNCHANGED <<selected, recorded, head, turn, status, shown, git, disk,
                   memory, run, save, job, stops>>

-----------------------------------------------------------------------------
(* A save: save(), saveOnce() inside with_current_candidate_save_gate().    *)

SaveGoes(d, to) == save' = [save EXCEPT ![d].at = to]
SaveEnds(d) == save' = [save EXCEPT ![d] = NoSave]

SaveStartUnloaded(d) ==  \* mutant: the draft is not loaded again after a restart
    /\ save[d] = NoSave
    /\ status[d] = "ready"
    /\ save' = [save EXCEPT ![d].at = "verified", ![d].stamp = head]
    /\ UNCHANGED <<facts, git, disk, memory, run, job, stops>>

(* loadPendingDraftById(), verifyCandidate(): an unreviewed draft, and the  *)
(* conversation head of this moment.  A second call joins the first one.    *)
SaveStart(d) ==
    /\ save[d] = NoSave
    /\ status[d] = "ready"
    /\ pending' = pending \cup {d}
    /\ save' = [save EXCEPT ![d].at = "verified", ![d].stamp = head]
    /\ UNCHANGED <<facts, git, disk, attempts, active, run, job, stops>>

(* The folder must be the candidate's base, or the candidate shown in it.   *)
SaveObserve(d) ==
    /\ save[d].at = "verified"
    /\ IF folder \in {draft[d].from} \cup (IF shown[d] THEN {TreeOf(d)} ELSE {})
       THEN save' = [save EXCEPT ![d].at = "observed", ![d].seen = folder]
       ELSE SaveEnds(d)
    /\ UNCHANGED <<facts, git, disk, memory, run, job, stops>>

MayBeSaved(d) == active[d] = "free" /\ check[d] \in {"passed", "skipped"}
StampOf(d) == IF attempts[d] = 0 THEN save[d].stamp ELSE attempts[d]

AnyBase(d) == TRUE  \* mutant: no compare-and-swap
BaseIsCurrent(d) == selected = draft[d].base

(* The gate, and without an await in between attemptFor() and               *)
(* recordProjectRevision(): a compare-and-swap of the current revision, or  *)
(* the replay of the record made before.                                     *)
SaveRecord(d) ==
    /\ save[d].at = "observed"
    /\ MayBeSaved(d)
    /\ attempts' = [attempts EXCEPT ![d] = StampOf(d)]
    /\ \/ /\ recorded[d] = 0
          /\ BaseIsCurrent(d)
          /\ selected' = d
          /\ recorded' = [recorded EXCEPT ![d] = StampOf(d)]
          /\ save' = [save EXCEPT ![d].at = "recorded", ![d].repair = FALSE]
       \/ /\ recorded[d] = StampOf(d)
          /\ UNCHANGED <<selected, recorded>>
          /\ save' = [save EXCEPT ![d].at = "recorded", ![d].repair = TRUE]
    /\ active' = [active EXCEPT ![d] = "save"]
    /\ UNCHANGED <<head, turn, status, shown, check, git, disk, pending, run, job, stops>>

(* builder_check_run_save_gate_active, _not_checked, _failed; metadata      *)
(* conflict, idempotency conflict.                                           *)
SaveIsRefused(d) ==
    /\ save[d].at = "observed"
    /\ \/ ~MayBeSaved(d) /\ UNCHANGED attempts
       \/ /\ MayBeSaved(d)
          /\ recorded[d] # StampOf(d)
          /\ recorded[d] # 0 \/ ~BaseIsCurrent(d)
          /\ attempts' = [attempts EXCEPT ![d] = StampOf(d)]
    /\ SaveEnds(d)
    /\ UNCHANGED <<facts, git, disk, pending, active, run, job, stops>>

SaveProjects(d) ==
    /\ save[d].at = "recorded"
    /\ Enqueue(d, "save", save[d].seen, save[d].repair)
    /\ SaveGoes(d, "projecting")
    /\ UNCHANGED <<facts, git, disk, memory, run, stops>>

(* load_current(): the selected revision must be this one.  Its recovery    *)
(* waits for the queue and finds no journal after a projection.             *)
SaveLoads(d) ==
    /\ save[d].at = "projected"
    /\ job = NoJob
    /\ SaveGoes(d, IF selected = d THEN "loaded" ELSE "failed")
    /\ UNCHANGED <<facts, git, disk, memory, run, job, stops>>

(* acceptCandidate(), releasePendingDraft(), and the release of the gate.   *)
SaveAccepts(d) ==
    /\ save[d].at = "loaded"
    /\ status[d] = "ready" /\ turn = None
    /\ Appends
    /\ status' = [status EXCEPT ![d] = "accepted"]
    /\ pending' = pending \ {d}
    /\ attempts' = [attempts EXCEPT ![d] = IF d \in pending THEN 0 ELSE @]
    /\ active' = [active EXCEPT ![d] = "free"]
    /\ SaveEnds(d)
    /\ UNCHANGED <<selected, recorded, turn, shown, check, git, disk, run, job, stops>>

SaveFailsAndForgets(d) ==  \* mutant: a failed save takes its record back
    /\ \/ save[d].at = "failed"
       \/ save[d].at = "loaded" /\ (status[d] # "ready" \/ turn # None)
    /\ recorded' = [recorded EXCEPT ![d] = 0]
    /\ selected' = draft[d].base
    /\ active' = [active EXCEPT ![d] = "free"]
    /\ SaveEnds(d)
    /\ UNCHANGED <<head, turn, status, shown, check, git, disk, pending, attempts,
                   run, job, stops>>

SaveFails(d) ==
    /\ \/ save[d].at = "failed"
       \/ save[d].at = "loaded" /\ (status[d] # "ready" \/ turn # None)
    /\ active' = [active EXCEPT ![d] = "free"]
    /\ SaveEnds(d)
    /\ UNCHANGED <<facts, git, disk, pending, attempts, run, job, stops>>

-----------------------------------------------------------------------------
(* The environment *)

(* load_current() of a reopened project.                                    *)
Open ==
    /\ selected # None
    /\ Enqueue(selected, "open", EmptyTree, FALSE)
    /\ UNCHANGED <<facts, git, disk, memory, run, save, stops>>

(* Death inside a transaction: before the update-ref at any file step, or   *)
(* after it with the journal not yet removed.                                *)
Crash ==
    /\ Stop("crash")
    /\ pending' = {}
    /\ attempts' = [d \in Draft |-> 0]
    /\ active' = [d \in Draft |-> "free"]
    /\ run' = NoRun
    /\ save' = [d \in Draft |-> NoSave]
    /\ job' = NoJob
    /\ \/ UNCHANGED <<main, folder>>
       \/ job.at = "updating" /\ folder' \in {Mixed, journal.back} /\ UNCHANGED main
       \/ job.at = "updating" /\ main' = job.draft /\ UNCHANGED folder
    /\ UNCHANGED <<facts, draft, journal>>

UserEdits ==
    /\ job.at # "updating"
    /\ Stop("edit")
    /\ folder' = Edited
    /\ UNCHANGED <<facts, git, journal, memory, run, save, job>>

Init ==
    /\ selected = None /\ main = None
    /\ recorded = [d \in Draft |-> 0]
    /\ head = 0 /\ turn = None
    /\ status = [d \in Draft |-> "none"]
    /\ shown = [d \in Draft |-> FALSE]
    /\ check = [d \in Draft |-> "absent"]
    /\ draft = [d \in Draft |-> NoDraft]
    /\ folder \in Found /\ journal = NoJournal
    /\ pending = {} /\ attempts = [d \in Draft |-> 0]
    /\ active = [d \in Draft |-> "free"]
    /\ run = NoRun
    /\ save = [d \in Draft |-> NoSave]
    /\ job = NoJob
    /\ stops = 0

Projection == JobRecovers \/ RecoveryRefuses \/ JobApplies \/ JobRefuses \/ JobCommits
RunStep(d) == RunChecks(d) \/ RunProjects(d) \/ RunCompletes(d)
SaveStep(d) ==
    \/ SaveObserve(d) \/ SaveRecord(d) \/ SaveIsRefused(d) \/ SaveProjects(d)
    \/ SaveLoads(d) \/ SaveAccepts(d) \/ SaveFails(d)

Next ==
    \/ Projection \/ JobUndoes
    \/ \E d \in Draft :
          \/ RunStep(d) \/ SaveStep(d) \/ EndCheck(d)
          \/ Generate(d) \/ \E p \in Draft : ContinueDraft(d, p)
          \/ RejectDraft(d) \/ BeginCheck(d) \/ CheckIsBlocked(d) \/ SkipCheck(d)
          \/ SaveStart(d)
    \/ Ask \/ TurnEnds \/ Open
    \/ Crash \/ UserEdits

Spec == Init /\ [][Next]_vars

(* The program goes on with what it has begun; the queue is first in, first *)
(* out, so whoever waits for it gets it.  What the user does, and failures, *)
(* need not happen.                                                          *)
Fairness ==
    /\ WF_vars(Projection)
    /\ \A d \in Draft :
          /\ WF_vars(RunStep(d)) /\ SF_vars(RunProjects(d))
          /\ WF_vars(SaveStep(d)) /\ SF_vars(SaveProjects(d) \/ SaveLoads(d))

FairSpec == Spec /\ Fairness

-----------------------------------------------------------------------------
(* Properties *)

(* The saved versions are one line: no two are recorded on the same base,   *)
(* and the selected one is no other version's base.  Two saves that read    *)
(* the same current revision long before they record cannot both succeed.   *)
LinearHistory ==
    \A d, e \in Draft :
       recorded[d] # 0 /\ recorded[e] # 0 =>
          /\ d # e => draft[d].base # draft[e].base
          /\ draft[d].base # selected

(* The registry holds a draft for a save just while that save is between    *)
(* its gate and its end, whatever fails on the way, so no check of it runs   *)
(* there and no hold is left behind; and what admitted the save is not       *)
(* refuted: at most a check that holds nothing yet adds that it could not be *)
(* started.                                                                  *)
GateHolds ==
    \A d \in Draft :
       LET pastGate == save[d].at \in {"recorded", "projecting", "projected",
                                      "loaded", "failed"}
       IN /\ pastGate <=> active[d] = "save"
          /\ pastGate => check[d] \in {"passed", "skipped", "blocked"}

(* An acceptance in the conversation never names a version that is not in   *)
(* SQLite, and the steps that follow it, release of the pending draft and of *)
(* the attempt, cannot fail: no save is accepted and reported as failed.     *)
AcceptedIsRecorded ==
    \A d \in Draft :
       /\ status[d] = "accepted" => recorded[d] # 0 /\ d \notin pending /\ attempts[d] = 0
       /\ save[d] # NoSave /\ status[d] = "ready" => d \in pending

(* Whatever is saved, refused, replayed, rejected, crashed or recovered, and *)
(* in whatever order: versions are appended behind the current one, none is *)
(* taken back or moved to another parent, and the conversation accepts only *)
(* what was appended and never takes that back.  The revision of a save     *)
(* behind its base is the line's next edge.                                 *)
Line == INSTANCE VersionLine WITH
    Version <- Draft,
    tip <- selected,
    line <- {<<draft[d].base, d>> : d \in {e \in Draft : recorded[e] # 0}},
    accepted <- {d \in Draft : status[d] = "accepted"}

OneLineOfVersions == Line!Spec

(* With nothing in progress main and the folder agree, unless the user has  *)
(* changed a file: also after runs, saves and recoveries in any order.      *)
FolderFollowsMain ==
    job = NoJob /\ journal = NoJournal /\ folder # Edited /\ main # None =>
       folder = TreeOf(main)

(* No run, save or recovery overwrites what the user did to the folder,     *)
(* however long before it read the folder.                                  *)
EditSurvives == [][folder = Edited => folder' = Edited]_vars

(* A save that was started comes to an end, and with it its hold on the     *)
(* check registry and on the queue, whatever else runs in between.          *)
SaveEndsEventually ==
    \A d \in Draft : save[d] # NoSave ~> save[d] = NoSave /\ active[d] # "save"

(* Registry and gate keep the contract CheckRun keeps, draft by draft.      *)
Gate(d) == INSTANCE CheckGate WITH held <- active[d], verdict <- check[d]

(* The project's lease is given back.                                       *)
RunEndsEventually == run # NoRun ~> run = NoRun

-----------------------------------------------------------------------------
(* What the documents and tests say, and the code does not keep             *)

(* SQLite's selection defines the intended version: once main is there, no  *)
(* step takes it to another saved version.                                   *)
SavedVersionStays ==
    [][main = selected /\ main' # main => recorded[main'] = 0]_vars

(* A recorded revision is replayed by a later save of the same draft, also  *)
(* after a restart.                                                          *)
RetryReplays ==
    \A d \in Draft :
       save[d].at = "observed" /\ recorded[d] # 0 => recorded[d] = StampOf(d)

(* Save or discard: one of the two.                                         *)
DecidedOnce == \A d \in Draft : status[d] = "rejected" => recorded[d] = 0
=============================================================================
