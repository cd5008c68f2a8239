# ClawFabric Builder in TLA+

Models, model-checking runs and proofs for the part of the program that turns a
user's request into a draft, and a draft into a saved version of the user's
project.  Paths are relative to the repository (`src/` here is its root).

## The system

ClawFabric Builder is an Electron application.  The main process
(`electron/*.cjs`) holds all authority, the renderer (`src/features/builder`)
shows projections of it.  A project has four stores:

| store | written by | holds |
|---|---|---|
| SQLite | `builder-product-metadata-database.cjs` | the selected project revision, the revision records, the conversation's events |
| Git | `builder-git-project-repository.cjs`, `builder-git-current-projection.cjs` | candidate commits under refs of their own, and `refs/heads/main` |
| the project folder | `builder-worktree-transaction.cjs`, and the user | the files |
| `.git/clawfabric/worktree-transactions` | `builder-worktree-transaction.cjs` | a journal, backups and staged files of a transaction in progress |

and each service keeps maps in memory that a restart empties.

### Components

| component | state | operations | hard behaviour | correct when |
|---|---|---|---|---|
| project controller (renderer) | the snapshot on display, an epoch, the request in flight | one per button | late answers, cancellation, another project opened meanwhile | an old answer never ends or replaces a newer operation; a request runs where it was typed |
| generation IPC runtime | selected project, an epoch, the requests in progress | open, create, gate of every request | overlapping openings, shutdown | the last opening selects; what a request holds is let go |
| project task lease | holder by project | acquire, release, inspect | stale tokens; requests that do without it | one build at a time of those that ask for it |
| conversation service | the event log; the turn in progress | begin, complete, fail, cancel, recover, reject, accept | a new turn interrupts a running one; appends from old contexts | a turn ends once, a draft is decided once |
| generation service | pending drafts, contexts, operations in flight | submit, continue, answer, retry, resume, cancel, steer, reject | a run awaits a provider while all else goes on | its candidate is admitted and projected, or neither |
| harness runtime | JSON-RPC peer, child process, journal of events | start, prompt, repair, cancel, dispose | late answers, refused notifications, death of the child | a run ends, once, as its journal says, and leaves no child |
| check runs | check store, child processes, workspaces | prepare, run, record, skip | timeouts, kills that fail, shutdown | a result says what happened |
| check gate and activity registry | who holds a candidate | begin, end, gate | a check during a save | what admitted a save stays true until it ends |
| save authority | attempts and saves in flight, in memory | save | eight awaits over four stores | one line of versions; no accepted save without a record |
| current projection | `refs/heads/main`; a queue per project | project_current, recover_project | two stores, no common transaction; a git child that times out | folder and main move together |
| worktree transaction | folder, private directory with journal | begin, apply, rollback, commit, recover | dies at any rename; a step fails; the user edits | no old file is lost; the outcome is one of two trees |
| git command runner | set of poisoned repositories | run | the child outlives its caller | a failed command had no effect, or is observed |
| product metadata | SQLite tables | record revision, append events | compare-and-swap, idempotent replay | a revision has one successor |
| draft checkpoints | append-only store | record | restarts | a restored draft is the recorded one |
| agent assignments, supervision leases, delegation | append-only stores with compare-and-swap heads | create, claim, review, close, release | two claims at once; late reviews | one holder; a closed assignment stays closed |
| permissions, live preview, test browser | stores; child processes and views | grant, start, stop | replacement of a running instance | one preview per project |

The way of a draft: the window sends what was typed; the IPC runtime adds the
project it has selected, takes its lease and binds the task, where the code asks for them; the generation
service begins a turn, lets the harness or the provider work, writes a Git
candidate, runs the automatic check, **projects** the candidate onto main and the
folder, and completes the turn with the candidate.  The user may then check, skip
the check, reject, undo, continue or save it.  A save reads the draft and the
conversation, scans the folder, passes the check gate, records the revision,
projects it, loads it back, and accepts it in the conversation.  Opening a project
recovers an unfinished worktree transaction towards the revision SQLite selects.

`PROJECT.json` lists the components with their files, and as "hazards" the
places in the code where these behaviours bite.

## The modules

```
   ProjectController        the window against the selection
        |
     TaskTurn               requests of a task, turns, the lease
      /     \
HarnessRun  CheckRun        a run's child process;  a check's
      \     /
    ProjectSave             drafts, runs, checks, saves: four stores
        |   --implements-->  VersionLine, and CheckGate, as CheckRun does
        |
 CurrentProjection  --implements-->  AtomicProjection
        |  (EXTENDS, and implements its Spec)
 WorktreeTransaction        the folder and its journal
```

Only the last two are composed in TLA+ (CurrentProjection EXTENDS
WorktreeTransaction).  Elsewhere a module draws the one below together: a
projection is one `job` in ProjectSave, a run's work one step in TaskTurn, a save
one answer in ProjectController.

### WorktreeTransaction

One private directory and one project folder.  `wt`, `backup` and `staged` are
the three places a file may be; `journal` and `plan` are `journal.json`;
`moved` and `installed` the flags of the records of `apply()`; `todo` the rest of
the running loop; `phase` where the manager stands.  Every `renameSync` and
`unlinkSync` of `apply()`, `rollbackApplied()` and the two loops of `recover()` is
an action of its own (`BackUp`, `Install`, `RollRemove`, `RollRestore`,
`BaseUnlink`, `BaseRestore`, `NextBackUp`, `NextInstall`), in the order of
`changedOperations()`.  Between any two of them the process may die
(`Crash`), or the step may fail (`ApplyFails`, `RollbackFails`,
`RecoveryFails`).  A removal of the private directory may stop at any part of it
(`DirLeftOver`), and `journal.json`, which is written in place, may be torn.  The
user writes files whenever the process is idle, dead, or awaits the main ref
update.

Abstracted: paths are flat, and ordered by an injective rank that stands for the
length-then-name order; parent directories, the limit of 16 leftover directories
and the digests (contents are compared as such) are left out.  One directory
exists at a time, because every caller recovers first, under the project's queue.

`hist` and `touched` are history variables of the properties.

### CurrentProjection and AtomicProjection

CurrentProjection extends WorktreeTransaction with its caller:
`project_current(candidate)` and `recover_project(selected)`, serialised per
project, as a program counter `pc`; the main ref; the update-ref child (`git`,
`orphan`), which is one compare-and-swap and may fail, time out and still take
effect, or outlive the process (`late` records that its caller does not know of
its effect); and the selection in SQLite (`Select`).  A projection is asked for a
commit whose base is selected (a finished run) or which is itself selected (a
save), with the expected tree and the repair mode the callers use.

AtomicProjection is what its callers rely on: one ref and one folder; a move
begins, the folder changes only while the ref names the old version, the ref
changes only when the folder shows the new one, and the move is decided when both
agree.  The refinement mapping takes `open` from the journal and `shows` from the
files (`{}` while they are a mixture).  `AtomicMove == Atomic!Spec` is a property
of the run, and so is `Spec`, the protocol of the transaction below.

### ProjectSave

Two stores further out: drafts, runs, checks, saves, rejections, turns, the
selected revision, and the projection queue as a `job` of one file step.
`SaveStart` .. `SaveAccepts` are the awaits of `saveOnce()`: what lies between two
awaits is one action, and what an action read earlier (`stamp`, `seen`, `repair`)
is kept in the record `save[d]`, as it is in the locals of the function.  A run is
cut the same way: `Starts`, `RunChecks`, `RunProjects`, `RunCompletes`; it is one
that holds the project's lease, so there is one at a time.  What makes a draft
without the lease is in TaskTurn.
`head` counts the conversation's events.  `Crash` empties the memory and may leave
a journal; `UserEdits` makes the folder a tree no draft knows of.

A check may be blocked without ever having been registered (`CheckIsBlocked`), and
a check that ran may fail to store its result (`EndCheck`).

VersionLine is what a user relies on: a line of versions that only grows, and the
acceptances the conversation announces.  `Line` maps it to `selected`, to the
edges from each recorded draft to its base, and to the accepted drafts.

Abstracted: one conversation; a draft is a record of its base commit, the base's
tree and its own tree; failures inside a transaction are one undo (their insides
are CurrentProjection's), and the user edits outside the update's await (the
inside is WorktreeTransaction's); provider, harness and checkpoint steps that only
read immutable facts are left out.  `TurnEnds` is the answer to a question, or the
clean-up of a turn nobody runs after a restart.

### HarnessRun

One coding run of the agent in its child process, through five layers of the code:
the pipes and the peer (`pending`, `answer`, `notes`, `closed`), the host with its
shutdown ladder (ask, wait, close the input, kill: `ladder`, `forcing`), the
journal of events with its seal (`turn`, `tool`, `sealed`, `terminal`), the
runtime's entry (`status`, `settlement`, `handler`, `rejected`), and the run's
coroutine (`pc`).  Each `await` of the coroutine is a place where another step may
come: an answer, a timer, an exit, a notification that the journal refuses, the
user's cancellation, the disposal of the runtime.  The child may answer late or
never, and does as many of the `Faults` as the bound allows.  Repair turns after a
failed check use the same child.

Abstracted: contents of messages and events; a queue of notifications of at most
two; the tool broker's own server and manual compaction are left out.

### CheckRun

The checks of one candidate: probe, preparation of dependencies, the runner with
its timeout, its output limit and its termination timer, `terminate_process_tree`
(which may be refused, or never seen to have worked), the clean-up of the
workspace, the record; the decision to skip; the activity registry and the save
gate; the draining shutdown and a crash.  A "process" is what the adapter knows of: the child with its
tree on Windows, and the direct child with its pipes elsewhere.  Processes of
earlier checks stay alive when nobody could kill them (`strays`).  A step is what the event loop does
between two events of the outside world.

CheckGate is the contract between a check and a save: who holds the candidate, and
the verdict of its checks.  CheckRun implements it for one candidate with all its
processes (`Gate`: the registry's entry, and the latest recorded result or the
skip); ProjectSave implements it for each draft with all the saves (`Gate(d)`).
So the module with the processes and the one with the saves are held to the same
contract where they meet.

### TaskTurn

The requests of one task.  `at` is where the promise of a request stands between
the IPC runtime's gate and its `finally`; `lease`, `binding`, `live` are the lease
coordinator, `activeTaskRequests` and `activeContexts`; `turn`, `owned`, `last`,
`head` the conversation; `shown` the candidate that folder and main show.  The
gates differ, and are what the code gives each kind of request:

| kind | lease | binding | begins its turn |
|---|---|---|---|
| `submit` (a message, which also may turn out to be a question) | yes | yes | over any other |
| `retry`, `resume` | yes | yes | in the turn it repeats |
| `first` (the first message of a new task, `task_address_id` null) | yes | no | in a new conversation |
| `approved` (a reviewed plan), `continue` (a revised draft) | yes | no | when none is active |
| `followup` (a queued message) | no | yes | when none is active |
| `undo` (the previous checkpoint) | no | no | over any other; or it rejects the draft |
| `restore` (a saved version) | no | no | in a new conversation |
| `answer` | no | yes, of a task that is free | over any other |
| `draftAnswer` (a question about the draft) | no | no | over any other |

`Ask` .. `Permission` are these gates (`AdmitElsewhere`, `AdmitUnbound`,
`AdmitBound`, `AdmitFollowup`, `AdmitFree`), `Begin` the turn, `Snapshot` the
context's record.  An append is a compare-and-swap on the head, so a request fails
when its context is not the latest (`head`, `local`).

Requests without the lease write the same folder, so what guards it is the
comparison the code makes twice: `expected` is the candidate a request started
from, `Admit` (`admitCandidateWorkspaceGuard`) reads the folder afresh, and
`Materialize` (`materializeCandidateToCurrentWorkspace`, whose queue and
transaction are CurrentProjection's) replaces what is expected or reports that it
did not.  `Checkpoint`, `Project` and `Complete` are the appends and awaits between
and after.  Cancellation, pause, steering, retry, resumption, opening of another
project, recovery when the stream is read, and restarts may come at any step;
undoing and restoring cannot be cancelled.

Two steps are slower than in the code, where they take microtasks only:
`Permission`, in which another project may be opened, and the way from a
projection to the completion of its turn.  The model thus allows more than the
program does, and its properties hold nevertheless.  Trees are told by the
candidate that made them: an undo makes a candidate of its own, whose tree may be
an older one's, and the model takes it for another.

### ProjectController

The window's controller (`builderProjectController.ts`) and the selection in the
main process (`openProject`, `createLocalProject`, `saveDraft`).  Two epochs meet
here: the controller's, which every operation compares after every await, and the
main process's, which only the selecting calls raise.  `live` is the operation of
the current epoch; `op` are the operations under way, those included whose epoch
has passed and whose effects in the main process are still to come; `fresh` marks
those with the main process's current epoch.  `active`, `retryable` are
`activeGeneration`, `retryableGeneration`.  An operation that was left is reduced
to what it may still do there (`Left`): its answer, when it arrives, changes
nothing on display (`Stale`).

Abstracted: sending a call and its arrival are one step, which the order of the
IPC channel justifies; `preview_unavailable` is not told from `ready` and
`draft_ready`, nor `answer_failed` from `submit_failed`, because no guard does;
the save, the turns and the decisions in the main process are one step each
(ProjectSave and TaskTurn have their insides).  Left out: answers without a
project (Agent conversations), `retainConversationProject`, `dispose`; `steer` and
`queueFollowup` change no state of the controller, and `resumeInterruptedRun` is
`submit` without the retry.

Definitions marked *mutant* are wrong versions of the definition below them, one
for each property: each is a plausible error of the code, and the property it
belongs to fails with it.

## Runs

| run | question | bounds |
|---|---|---|
| WorktreeTransaction | crashes, failures, half-done clean-ups, torn journals and the user's edits at every step | 3 files (one modified, one deleted, one created, either way, or none deleted), 3 trees, any number of crashes and edits |
| CurrentProjection | main and folder together; is AtomicProjection implemented? | 2 files, a commit and 2 competing successors' trees, 2 crashes, failures or timeouts |
| ProjectSave | all interleavings of two drafts, with a crash, an edit by the user or a failing update | 2 drafts, 2 trees, a project that begins without files, user events until the conversation has 3, one of the three |
| EndsAfterFailures | do saves and runs end after failures? | 2 events, 3 failures |
| HarnessRun | one run of the agent against a child that misbehaves | 2 turns, 1 tool call, 1 repair, one of: an answer that is no answer, a notification the journal refuses, an exit |
| HarnessCancelled | the same against the user and the end of the application | 1 turn, 1 tool call, cancellation and disposal at any step |
| CheckRun | checks, skips and saves of one candidate | 2 checks, 1 crash, failing clean-ups, stores and spawns |
| TaskTurn | requests of one task of every kind, those without the lease or the binding included | 2 requests, 2 projects, one of: another project opened, a message to the run, a retry or resumption, a restart |
| ProjectController | every button of the window against the selection | 2 projects, 2 drafts, 2 operations under way |
| SavedAndRejected, MalformedErrorHangs, RunIsNotInterrupted | see below | one expected violation each |

The bounds are enough for the cases the code distinguishes.
`changedOperations()` knows creations, updates and deletions, and the order is
total, so three files have a first, a middle and a last of every kind; no loop
looks at more than one file.  Two drafts are needed for a lost update and for a
stale base, and two trees for a draft that undoes the one before it.  `MaxHead`
bounds what the user does, never what the program does to finish.  A harness run
has one turn of prompting and one of repair; the journal compares an event with
the one open turn and the one open tool call, so a second of either repeats the
first.  Two checks are a check and the one that finds what the first left behind.
The lease, the binding, the open turn and the folder are each one cell, and a third
request finds them as the second does; one extra event is enough to part two
requests (a message moves the head, a restart forgets who owns a turn).  An operation of the window is either live
or left, and a third one can only be another that was left; two projects are the
one that shows and the one that is selected.

HarnessRun and HarnessCancelled ask the same of different environments: with both
kinds of trouble at once the state space is beyond a run.  EndsAfterFailures is
smaller than ProjectSave because liveness is dearer than safety; it, and not
ProjectSave, also begins with files in the folder (`Found`), which in ProjectSave a
draft that was shown and not saved leaves there.
The window's operations, drafts and projects are symmetric, and so are the drafts
of ProjectSave (`Symmetric`), which is sound because the properties of these two
runs are invariants and action properties.

Deadlock is checked in the two runs of the file layer, where something can always
happen.  Elsewhere a state with nothing in progress waits for its user, and a
finished run does nothing more.

### Fairness

| run | fair | because |
|---|---|---|
| EndsAfterFailures (`FairSpec` of ProjectSave) | weakly, the steps of the program; strongly, those that wait for the projection queue | they are continuations of promises that have resolved; `createProjectQueue()` chains promises first in, first out |
| HarnessRun, HarnessCancelled (`FairSpec`) | weakly, the steps of the application (`Builder`), its timers among them | the event loop runs what is ready; nothing is asked of the child, which may never answer |
| CheckRun (`FairSpec`) | weakly, the steps of a check, the end of a save, the end of the application | timers of the runner and of the termination; a save ends by EndsAfterFailures |
| TaskTurn (`FairSpec`) | weakly, the progress of each request | what a request awaits ends, by HarnessRun and CheckRun |

Nothing the user does, and no failure, is fair.  WorktreeTransaction,
CurrentProjection, ProjectSave (the run) and ProjectController assume no fairness.

### What the runs show

*Files.*  `Recoverable`, `AtomicOutcome`: while a journal exists every old file is
in the project or in `backup/`, or the whole new tree is in place, and the journal
leaves only when the project is one of the two trees.  `OutcomeTellsTree`: a
result is true.  `EditsKept`, `EditSurvives`: what the user writes is not
overwritten, with the exception of the rollback of a live transaction.
`ForwardNeverRefused`, `BackwardNeverRefused`: recovery finds what it needs after
any crashes, failures and changes of direction.  The exceptions are named in the
properties: towards the new tree a file the user wrote, a rollback that had begun
and a clean-up that stopped halfway; towards the old one the user's file, a
rollback run twice, the clean-up, and a deletion that was carried out, see below.

*Main.*  `AtomicMove`: each step of CurrentProjection is a step of
AtomicProjection or none; so the main ref never changes while the folder shows
anything but its target, and the journal stays until both agree.  `Spec`: the
callers use the transaction as it was made to be used, in spite of crashes.
`SuccessIsReal`: a projection that answers success has moved both.

*Saves.*  `LinearHistory`: saves that race make one line of versions.
`OneLineOfVersions`: and that line only grows (VersionLine is implemented): nothing
recorded is taken back or given another parent, nothing is accepted before it is
recorded, and no acceptance is withdrawn.  `GateHolds`: the registry holds a draft
for a save exactly from its gate to its end, and the verdict that admitted it is
not refuted meanwhile: all that may come is the notice of a check that could not be
started, which holds nothing (hence `"blocked"`).
`AcceptedIsRecorded`: the order of the four stores.  `FolderFollowsMain`: with
nothing in progress folder and main agree.  `SaveEndsEventually`,
`RunEndsEventually`: nothing is left holding the lease, the queue or the registry.

*Runs of the agent.*  `RunEnds`: whatever the child does and whenever the user
cancels, the run ends.  `EndedLeavesNoChild`: when it has, its process is gone or
was told to go, and no request waits for it.  `JournalEndsOnce`,
`OutcomeMatchesJournal`: one terminal event after which nothing is recorded, and
the result the user is told is the journal's.

*Checks.*  `ResultIsTrue`: a check is recorded as passed only when its process
ended so by itself, and only `termination_failed` leaves a process behind.
`WorkspaceQuiet`: the workspace of a check is not removed below a process that
lives in it.  `RunExcludesSave`: no check runs during a save, but for processes
that nobody could kill.  `ShutdownWaits`: the application does not close over a
check the user started (nobody waits for one of a run; `ShutdownReaps`).
`GateContract`: registry, gate, processes, timers and failing stores together keep
the contract ProjectSave is written against.  `CheckEnds`: every check ends.

*Requests.*  `OneOpenTurn`, `TurnEndsOnce`: the conversation has one turn in
progress and none ends twice.  `LiveTurnIsOwned`: the turn of a context the
process holds is known as its own, so reading the task's stream never recovers it.
`LeaseHeldThroughout`: a request that asks for the lease holds it from its gate
until its promise has settled, also while it is being cancelled, and nobody else
ever does.  It does not say that builds exclude each other: follow-ups, undo and
restored versions run beside the holder.  For these `ProjectedIsShown`: whoever is
about to record that its candidate is in the folder is right, which rests on
`Materialize`, and not on the lease.  `BindingIsLive`, `RequestSettles`: what a
request holds is let go, and it answers.  `OnlyTheseInterrupt` names who can end a
running build's turn from outside: an undo and a question about the draft, which
pass every gate; a question about the task, when the build did not take the
binding; and a message, when the build is an undo.  A queued follow-up waits until
no turn is active, and a restored version has its own conversation, so neither
interrupts (see RunIsNotInterrupted).

*The window.*  `RunsWhereShown`: a request runs in the project it was typed in,
although the main process takes the project from its own selection.
`RetryIsPossible`: a retry button has the request it needs.  `WaitsForSomething`:
while the buttons are dead an operation is under way, but for the undo of a draft of
a project with nothing saved (see `UndoComesBack` below).

### Where the code does not do what is written of it

These have a run with the counterexample, and an entry in `PROJECT.json` with the
quoted line.

| run | what happens |
|---|---|
| SavedAndRejected | a rejection between the record and the acceptance of a save leaves a draft that is both |
| MalformedErrorHangs | an error answer whose code is no integer is dropped with its request: the promise never settles, the run never ends |
| RunIsNotInterrupted | a message's build holds the lease and the binding; a question about the draft, which asks for neither, begins its turn over it and records it as interrupted |

Others are visible in the models and have no run.

Files and main:
- recovery to the base tree unlinks a deleted file once more and stops with
  ENOENT, every time (`builder-worktree-transaction.cjs:654`; the last exception
  of `BackwardNeverRefused`, and `BaseRestored` does not hold);
- a draft's projection that died after the main ref moved can be decided in
  neither direction (`:621`);
- a clean-up that stopped halfway after a commit makes later recoveries fail
  (`:634`; the exception `"swept"`);
- the caller runs the rollback that `apply()` already tried, and files the first
  pass restored are removed (`builder-git-current-projection.cjs:522`;
  `RollbackKeepsOldFiles` does not hold);
- a rollback cut off by a crash has removed new files whose staged copies are
  gone, so a selected revision cannot be completed (the exception `"undone"` of
  `ForwardNeverRefused`);
- an update-ref that times out may take effect after its files were rolled back
  (the exception `late`).

Saves:
- a repeated save of an older recorded version moves main back
  (`builder-project-save-authority.cjs:991`);
- after a restart a repeated save conflicts with its own record (`:787`);
- a run projects its candidate before the conversation admits it (`RunProjects`
  before `RunCompletes`), where `docs/DRAFT_CHECKPOINT_ARCHITECTURE.md` has it
  after.

Runs, checks, requests:
- `repairRun()` (`builder-harness-programming-runtime.cjs:644`) does not race the
  end of the process, so a child that dies in a repair is noticed by the timeout;
- an installation of dependencies that timed out is signalled and not awaited
  (`InstallIsReaped`); a check that is prepared and not yet run is not registered,
  so it may replace the result a save was admitted on (`EvidenceStands`); the
  check of a run is not awaited when the application closes (`ShutdownReaps`):
  none of the three holds in CheckRun;
- a cancellation while the candidate is being materialised leaves folder and main
  at the candidate of a cancelled run;
- a queued follow-up runs beside a build that holds the lease
  (`builder-generation-ipc-runtime.cjs:2464`), and undo and restored versions beside
  both (`:2935`): whoever writes the folder second fails, or completes with a
  candidate that is not shown;
- a message to the run in its candidate phase makes the run fail;
- a cancellation before the run's context exists is refused, and when its
  snapshot fails then the turn stays open until the stream is read again;
- runs of approved plans are not paused when the application ends.

The window:
- undoing the first draft of a project without a saved version leaves the window
  at "restoring" (`builderProjectController.ts:1824`): `withPreview()` publishes
  nothing, so `UndoComesBack` does not hold, although
  `docs/FOUNDATIONAL_CODING_LOOP_PLUGIN_RUNTIME_ROADMAP.md:501` says that it
  returns to the project's baseline;
- a request typed in one project whose digest arrives after another was opened
  runs in the other (`:1114`; `late`);
- such a late request replaces `activeGeneration`, and the newer one can no
  longer be cancelled;
- after a failed save whose re-opening fails too, the main process has nothing
  selected while the window keeps its project.

## Proofs

Seven components have proofs.  Each theorem holds for every value of the
constants, from the named assumptions of its module alone.  None of the properties
is inductive by itself; each was strengthened to an invariant that TLC checked
before it was proved.

`WorktreeTransaction_proofs` proves, for any number of paths, contents, trees and
commits, torn writes and half-done clean-ups or not, from `WorktreeAssumption`:
`TypeCorrect`, `RecoverableCorrect`, `AtomicOutcomeCorrect`, `OutcomeCorrect`,
`EditsKeptCorrect`, `ForwardCorrect` and `BackwardCorrect`. Whether an old file is
still somewhere depends on what the flags in memory say was moved, on how far a loop
has come, and on what the staged copies still hold. The inductive invariant `IInv` is
`TypeOK /\ ProtocolInv`, one conjunct for each phase: `JournalInv` (what the
directory's parts hold while a journal is whole), `IdleInv` (nothing running),
`KeptInv` (`Recoverable` file by file), `ApplyingInv`, `AppliedInv`, `RollingInv` and
`RecoveringInv` (for each path what its flags, its place in the loop and the three
copies have to do with one another). `InvInit` and `InvStep` show that it is
inductive, one step per action; `RollingKeeps` is the part of a rollback.  The action properties follow from
`IInv` and the step.  That recovery is not refused needs more: `WayInv`, which says
of every file that it is in place or that what is missing can still be put there.
`ForwardInv` says it for the resulting tree, `BackwardInv` for the base tree, each
for as long as none of its exceptions has happened, and `FlagsInv` says what the
flags in memory know of it, because `apply()` may still be running on them.

`CurrentProjection_proofs` and `AtomicMove_proofs` prove every property of the run
CurrentProjection, from `WorktreeAssumption` and `ProjectionAssumption`, for any
number of commits, files, crashes, failures and timeouts.  `ProtocolCorrect`
(`CPSpec => Spec`) needs to know at each place of a call which phase the
transaction is in (`CallInv`), which call the journal on disk belongs to
(`PlanInv`), whose child the git process is (`GitInv`), and that no child of an
earlier process can take main back to the journal's old commit once the call acts
on the new one (`AdvancedInv`).  With it, what is proved of the transaction holds
of its caller (`ProjectionKeepsFiles`, `ProjectionRecovers`). The refinement,
`AtomicMoveCorrect` (`CPSpec => AtomicMove`), adds `FolderInv` (files outside the
journal's operations are the base's, and a folder without a journal is a whole tree)
and, until an update of main outlives its caller, `MainInv` (what the folder shows is
what main says, and a call's knowledge of main is right where it acts on it).
`StepKinds` sorts the steps by what an observer of main and the folder can see of
them; the lemma `Decided` is the heart: when the journal goes, folder and main are at
the same end. `AgreementCorrect`, `JournalFollowsMainCorrect` and
`SuccessIsRealCorrect` follow.

`ProjectSave_proofs` proves every property of the run ProjectSave, from
`SaveAssumption`: for any number of drafts, trees, events, crashes, failures and
edits, `TypeCorrect`, `LinearCorrect`, `LineCorrect`, `GateCorrect`,
`AcceptedCorrect`, `FolderCorrect` and `EditCorrect`.  `LinearHistory` needs that
every base is a recorded revision (`HistoryInv`): only then can the draft that is
recorded now be nobody's base yet.  `LineCorrect` maps every step to a step of
VersionLine or none; the only steps that are seen there are `SaveRecord` and
`SaveAccepts`, and `StartedStays` (the trees of a started draft are fixed) keeps a
recorded draft's edge where it is.  `GateHolds` needs that a draft in the making was
never saved (`RunInv`, `TurnInv`), because a run's own check does not ask the
registry, and that the queue answers only a save that waits for it (`JobInv`); that
no hold is left behind is `HoldInv`, of which `QueueServes` is a result by itself
(`QueueCorrect`): whoever waits for the queue is the one it works for, and a queue
with no job is free, so a waiting save or run can always go on.
`GateContractCorrect` shows that what happens to each draft's entry and verdict is a
step of CheckGate or none; its `CheckInv` says that a draft in the making is held by
nobody, and that one whose run is yet to check it has no verdict.
`AcceptedIsRecorded` needs what a save knows past its gate (`SaveInv`). `FolderInv`
says whose tree is in the folder and in the journal at each phase of the queue, and
with `StartedStays` gives the two properties of the folder. What is proved is the
model, in which the recovery of a transaction is one step.

`CheckRun_proofs` proves the four invariants of the run CheckRun and its refinement
for any number of checks, crashes and faults: `ResultCorrect`, `QuietCorrect`,
`ExclusionCorrect`, `ShutdownCorrect`, `ContractCorrect`.  The inductive `Inv` adds
to the properties what a check that has not begun has not left behind (`Fresh`), who
answers for a living process (`AnsweredFor`), whose entry the registry holds
(`Entry`, in both directions: a check and a save ask for it at different awaits), and
what a running check has (`Running`).  `ContractCorrect` (`Spec => GateContract`)
follows from it: the lemma `RecordGives` says that a check's result becomes the
verdict, because no later check has one (`Fresh`), and `GateStep` goes through the
actions.  With `GateContractCorrect` both sides of the gate are shown to keep one
contract.

`TaskTurn_proofs` proves the five invariants and the two action properties of the
run TaskTurn, all but its liveness, for any number of requests, projects and extra
events and every choice of kinds: `OneTurnCorrect`, `OwnershipCorrect`,
`LeaseCorrect`, `ShownCorrect`, `BindingCorrect`, `EndCorrect`,
`InterruptCorrect`; and, from `TaskAssumption`, `TypeCorrect`.  The inductive `Inv`
says who holds what (`Gate`: the lease from gate to end, the binding of those that
ask for it unless they were stopped, and that undoing and restoring are never
stopped), what is known of a request's turn at each place its promise may stand,
and that a request which works and has the conversation's head is the one whose
turn is open (`Pending`): all others fail at their next append; that the open turns
the process works on are its own (`Ours`); and what a candidate may replace
(`Bases`).  `ProjectedIsShown` is about the requests that nobody keeps apart: a
candidate that is in the folder and not yet recorded is nobody's base, because a
base is a candidate that a conversation has recorded, and a request ends when its
own is; so another request's comparison with the folder fails until then.  For
`InterruptCorrect` it matters that a build with the binding keeps it until it was
stopped: then only those that do not ask for it can begin a turn over it.

`HarnessRun_proofs` proves the two invariants and the action property of the runs
HarnessRun and HarnessCancelled, all but their liveness, for any number of turns,
tools, repairs and wrong frames and for every mix of faults, the user's cancellation
and the closing of the application, which the runs take apart: `OutcomeCorrect`,
`NoChildCorrect`, `JournalEndsCorrect`; and, from `HarnessAssumption`,
`TypeCorrect`.  The inductive `Inv` is `FreshInv` (before the launch nothing of a run
exists), `HostInv` (the five ways in which a child is ended, each of which has closed
the peer and told the child to go before anybody relies on it) and `JournalInv`
(which terminal event the journal has, and where the run then is).  `ServedCorrect`
is the part of `RunEnds` that a safety proof reaches: a launched run never waits for
what cannot come.  Its `ServeInv` says that a request that was sent is open or
answered (`Answered`), and that who waits for the end of the process tree has asked
for it.  It excepts the error without a code, and must: see MalformedErrorHangs.

`ProjectController_proofs` proves the three invariants of the run
ProjectController for any number of projects, drafts and operations under way,
from `ControllerAssumption` and `RequestAssumption` (a request is an object and
never null): `RunsCorrect`, `RetryCorrect`, `WaitsCorrect`.  The inductive `Inv`
says that one project exists that everything still of consequence is about
(`Agrees`): the selection, every operation whose epoch is the main process's, the
operation with the controller's epoch, the request that may be cancelled, and what
shows unless another project is being opened.  `LiveOK` and `ActiveOK` keep what
the operation with the epoch, and a cancellation, will go back to: a settled
snapshot whose retry is still possible.  `CreateOK` is needed because the target of
a folder that is being picked is not known yet: nothing else may count while it is.

Only model-checked is what needs liveness and fairness (`SaveEndsEventually`,
`RunEndsEventually`, `RequestSettles`, `CheckEnds`, `RunEnds`), which is out of the
prover's reach.  What can be proved of it is that nobody is left waiting for nothing,
or holding what nobody will release: `QueueCorrect`, `GateCorrect`, `LeaseCorrect`,
`BindingCorrect`, `WaitsCorrect`, `ServedCorrect`.

## Not modelled

The components with status `not_modelled` or `partly` in `PROJECT.json`, each
with its reason.  Of the components that are modelled, left out are:

- the plan's own life before its run (proposals, their review), and compaction of
  a conversation by hand;
- the tool broker's server, which answers the agent's tools inside a turn;
- the diagnosis and the preparation of a whole project, which are checks without a
  candidate;
- Agent conversations and answers without a project; the Agent supervision stores,
  which `main.cjs` does not wire to the rest;
- the moment between `endCheckRun` and `recordCheckRun`, which is microtasks only;
- the wall clock, which is taken to go forward;
- a pause by the user, which differs from a cancellation only in the outcome that
  is recorded; resumption and retry of anything but a submitted build or a queued
  follow-up; the first question of a new task, alone in its conversation;
- the views, Electron itself, provider settings, packaging and canary scripts,
  which decide nothing about the state above.

The packaging and verification scripts, the views and the parsers of snapshots are
most of the repository's lines: they are sequential transformations of a value
without a state of their own, and the tests reach them.

## Plan

1. WorktreeTransaction with its proofs — done.
2. CurrentProjection with its proofs, and the proof that it implements
   AtomicProjection — done.
3. ProjectSave with its proofs, and the proofs that it implements VersionLine and
   CheckGate — done.
4. HarnessRun with its proofs — done.
5. CheckRun with its proofs, and the proof that it implements CheckGate — done.
6. TaskTurn (lease, binding, turns, shutdown) with its proofs — done.
7. ProjectController with its proofs — done.
8. Left: ProductMetadata (revision chain, idempotency keys, conversation append
   with its cache) against a linear log as its abstract specification.
9. Left: ConversationReplay, the turn, run and candidate state machine of
   `builder-conversation-replay.cjs` over event batches.
10. Left: LivePreview and AgentTestBrowser (one instance per project, replaced
    while it starts), and the Agent assignment stores once the application uses
    them.
