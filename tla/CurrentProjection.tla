------------------------- MODULE CurrentProjection -------------------------
(***************************************************************************)
(* The projection of a Git candidate onto a project: the main ref and the  *)
(* project folder move together                                            *)
(* (src/electron/builder-git-current-projection.cjs over                   *)
(* builder-worktree-transaction.cjs and builder-git-command-runner.cjs).   *)
(*                                                                         *)
(* Two calls exist, serialised per project: project_current(candidate) and *)
(* recover_project(selected).  The file operations are those of            *)
(* WorktreeTransaction; this module adds the caller's control flow, the    *)
(* main ref, and the git child process that updates it, which may fail,    *)
(* time out after it took effect, or outlive this process.  Edits by the   *)
(* user are left to WorktreeTransaction and ProjectSave.                   *)
(***************************************************************************)
EXTENDS WorktreeTransaction

CONSTANTS
    TreeOf,          \* the source tree of a commit, and the one before any
    BaseOf,          \* a candidate's expected_base_oid
    StopKinds,       \* which of "crash", "file", "git" operations may fail
    MaxStops         \* bound: crashes and failing operations in a behaviour

ASSUME ProjectionAssumption ==
    /\ TreeOf \in [Oid \cup {NoOid} -> Tree]
    /\ BaseOf \in [Oid -> Oid \cup {NoOid}]
    /\ \A o \in Oid : BaseOf[o] # o
    /\ StopKinds \subseteq {"crash", "file", "git"}
    /\ MaxStops \in Nat

VARIABLES
    main,      \* refs/heads/main
    selected,  \* the commit SQLite selects as current (external: the save)
    git,       \* the update-ref child: its state and its arguments
    orphan,    \* that child belongs to an earlier process
    pc,        \* where the running call stands
    call,      \* the running call and its arguments
    seen,      \* the main oid the call works with
    outcome,   \* how the last call ended
    stops,     \* crashes and failures so far
    late       \* history: an update-ref took effect, and its caller does not know

wtVars == vars
allVars == <<wt, dir, backup, staged, journal, plan,
             phase, moved, installed, todo, retain, result, touched, hist,
             main, selected, git, orphan, pc, call, seen, outcome, stops, late>>

Ref == Oid \cup {NoOid}
NoGit == [state |-> "none", new |-> NoOid, old |-> NoOid]
Calls == [kind : {"none", "project", "recover"}, oid : Ref, expect : Ref, repair : BOOLEAN]

CPTypeOK ==
    /\ main \in Ref /\ selected \in Ref /\ seen \in Ref
    /\ git \in [state : {"none", "running", "updated", "failed"}, new : Ref, old : Ref]
    /\ orphan \in BOOLEAN
    /\ pc \in {"idle", "reading", "recovering", "recoverLoop", "advancing",
               "finalizing", "finalLoop", "inspecting", "transaction",
               "updating", "committing", "undoing"}
    /\ call \in Calls
    /\ outcome \in {"none", "ok", "failed"}
    /\ stops \in 0..MaxStops
    /\ late \in BOOLEAN

NoCall == [kind |-> "none", oid |-> NoOid, expect |-> NoOid, repair |-> FALSE]

Stop(kind) == kind \in StopKinds /\ stops < MaxStops /\ stops' = stops + 1
NoStop == UNCHANGED stops
StopIn(how) == IF how = "crashed" THEN Stop("crash") ELSE Stop("file")

Goes(to) == pc' = to /\ UNCHANGED <<call, seen, outcome>>
EndsThere(how) == pc' = how /\ outcome' = how /\ call' = NoCall /\ seen' = NoOid  \* mutant
Ends(how) == pc' = "idle" /\ outcome' = how /\ call' = NoCall /\ seen' = NoOid
Stays == UNCHANGED <<pc, call, seen, outcome>>

-----------------------------------------------------------------------------
(* The git child.  update-ref --stdin is one compare-and-swap of the ref.  *)

GitStarts(new, old) ==
    /\ git.state = "none"
    /\ git' = [state |-> "running", new |-> new, old |-> old]
    /\ orphan' = FALSE

Awaited == ~orphan /\ pc \in {"updating", "advancing"}

GitUpdates ==
    /\ git.state = "running"
    /\ IF main = git.old
       THEN /\ main' = git.new /\ git' = [git EXCEPT !.state = "updated"]
            /\ late' = (late \/ ~Awaited)
       ELSE main' = main /\ git' = [git EXCEPT !.state = "failed"] /\ late' = late
    /\ Stays
    /\ UNCHANGED <<wtVars, selected, orphan, stops>>

(* A lock, a full disk: the child exits with an error and no effect. *)
GitErrs ==
    /\ git.state = "running"
    /\ Stop("git")
    /\ git' = [git EXCEPT !.state = "failed"]
    /\ Stays
    /\ UNCHANGED <<wtVars, main, selected, late, orphan>>

(* A child nobody waits for any more is gone; until then its repository is *)
(* poisoned for the process that started it.                                *)
GitReaped ==
    /\ git.state # "none"
    /\ ~Awaited
    /\ git' = NoGit
    /\ orphan' = FALSE
    /\ Stays
    /\ UNCHANGED <<wtVars, main, selected, late, stops>>

Poisoned == git.state # "none" /\ ~orphan

(* updateMainRef(): exit 0; or a failed command whose effect is observed.  *)
UpdateSucceeds ==
    /\ \/ git.state = "updated"
       \/ git.state = "failed" /\ main = git.new
    /\ git' = NoGit
    /\ NoStop /\ UNCHANGED late

UpdateFails ==
    \/ git.state = "failed" /\ main # git.new /\ git' = NoGit
       /\ NoStop /\ UNCHANGED late
    \/ git.state # "none" /\ Stop("git") /\ git' = git  \* timeout
       /\ late' = (late \/ git.state = "updated")

-----------------------------------------------------------------------------
(* The calls *)

CallProject(c, expect, repair) ==
    /\ pc = "idle"
    /\ call' = [kind |-> "project", oid |-> c, expect |-> expect, repair |-> repair]
    /\ pc' = "reading"
    /\ UNCHANGED <<wtVars, main, selected, late, git, orphan, seen, outcome, stops>>

(* load_current(): recovers towards what SQLite selects. *)
CallRecover ==
    /\ pc = "idle"
    /\ selected # NoOid
    /\ call' = [NoCall EXCEPT !.kind = "recover", !.oid = selected]
    /\ pc' = "reading"
    /\ UNCHANGED <<wtVars, main, selected, late, git, orphan, seen, outcome, stops>>

(* The save records the next revision (compare-and-swap on its base). *)
Select(c) ==
    /\ selected = BaseOf[c]
    /\ selected' = c
    /\ Stays
    /\ UNCHANGED <<wtVars, main, git, orphan, late, stops>>

ReadMainRef ==
    /\ pc = "reading"
    /\ IF Poisoned
       THEN Ends("failed")
       ELSE seen' = main /\ pc' = "recovering" /\ UNCHANGED <<call, outcome>>
    /\ UNCHANGED <<wtVars, main, selected, late, git, orphan, stops>>

(* recoverWorktree(): the first recover(), and the one after the main ref  *)
(* was advanced.                                                            *)
RecoverWorktree ==
    /\ pc \in {"recovering", "finalizing"}
    /\ \/ NothingToRecover /\ Goes("inspecting") /\ NoStop
       \/ /\ DropUnjournaled
          /\ IF result' = "not_required" THEN Goes("inspecting") /\ NoStop
                                         ELSE Ends("failed") /\ StopIn(result')
       \/ RecoverRefuses(seen, call.oid) /\ Ends("failed") /\ NoStop
       \/ RecoverStarts(seen, call.oid) /\ NoStop
          /\ Goes(IF pc = "recovering" THEN "recoverLoop" ELSE "finalLoop")
    /\ UNCHANGED <<main, selected, late, git, orphan>>

InRecovery == pc \in {"recoverLoop", "finalLoop"}

RecoveryLoopStep ==
    /\ InRecovery
    /\ \/ NoStop /\ \E p \in Path : FileStep(p)
       \/ Recovered /\ IF result' \in {"unavailable", "crashed"} THEN StopIn(result')
                                                                 ELSE NoStop
       \/ RecoveryFails /\ Stop("file")
    /\ Stays
    /\ UNCHANGED <<main, selected, late, git, orphan>>

RecoveryEnds ==
    /\ InRecovery
    /\ phase = "idle"
    /\ \/ result \in {"base_restored", "resulting_completed"} /\ Goes("inspecting")
       \/ result \in {"refused", "unavailable", "crashed"} /\ Ends("failed")
    /\ UNCHANGED <<wtVars, main, selected, late, git, orphan, stops>>

(* The folder is the selected tree already: advance main, then recover     *)
(* once more to drop the directory.                                         *)
Advance ==
    /\ InRecovery
    /\ phase = "idle"
    /\ result = "advance"
    /\ GitStarts(call.oid, seen)
    /\ Goes("advancing")
    /\ UNCHANGED <<wtVars, main, selected, late, stops>>

AdvanceEnds ==
    /\ pc = "advancing"
    /\ \/ UpdateSucceeds /\ seen' = call.oid /\ pc' = "finalizing"
          /\ UNCHANGED <<call, outcome>>
       \/ UpdateFails /\ Ends("failed")
    /\ UNCHANGED <<wtVars, main, selected, orphan>>

(* recover_project() is done; project_current() inspects the folder and,   *)
(* without a suspension in between, begins the transaction.                *)
RecoverProjectEnds ==
    /\ pc = "inspecting"
    /\ call.kind = "recover"
    /\ Ends("ok")
    /\ UNCHANGED <<wtVars, main, selected, late, git, orphan, stops>>

Admitted ==
    /\ wt = TreeOf[IF seen = call.oid THEN call.oid ELSE call.expect]
    /\ seen \in {call.oid, BaseOf[call.oid]} \/ call.repair

Inspect ==
    /\ pc = "inspecting"
    /\ call.kind = "project"
    /\ \/ ~Admitted /\ Ends("failed") /\ NoStop /\ UNCHANGED wtVars
       \/ /\ Admitted
          /\ Begin(wt, TreeOf[call.oid], seen, call.oid,
                   IF seen = call.oid THEN "already_current" ELSE "cas_update")
          /\ Goes("transaction") /\ NoStop
       \/ Admitted /\ BeginStops(wt, TreeOf[call.oid]) /\ Ends("failed") /\ StopIn(result')
    /\ UNCHANGED <<main, selected, late, git, orphan>>

-----------------------------------------------------------------------------
(* projectTransaction(): begin, apply, update main, commit.  On any error  *)
(* it calls rollback() once; apply() has rolled back by then on its own,   *)
(* and when that failed the records are gone through a second time.        *)

ApplyStep ==
    /\ pc = "transaction"
    /\ \/ (Apply \/ Applied \/ RolledBack \/ \E p \in Path : FileStep(p)) /\ NoStop
       \/ (ApplyFails \/ RollbackFails) /\ Stop("file")
    /\ Stays
    /\ UNCHANGED <<main, selected, late, git, orphan>>

ApplyFailedUnseen ==  \* mutant: the error of apply() is swallowed
    /\ pc = "transaction"
    /\ \/ phase = "idle" /\ Ends("ok") /\ UNCHANGED wtVars
       \/ phase = "failed" /\ Rollback /\ Goes("undoing")
    /\ UNCHANGED <<main, selected, late, git, orphan, stops>>

ApplyFailed ==
    /\ pc = "transaction"
    /\ \/ phase = "idle" /\ Ends("failed") /\ UNCHANGED wtVars
       \/ phase = "failed" /\ Rollback /\ Goes("undoing")
    /\ UNCHANGED <<main, selected, late, git, orphan, stops>>

StartUpdateFirst ==  \* mutant: main moves before the files
    /\ pc = "transaction"
    /\ phase \in {"prepared", "applied"}
    /\ GitStarts(call.oid, seen) /\ Goes("updating")
    /\ UNCHANGED <<wtVars, main, selected, late, stops>>

StartUpdate ==
    /\ pc = "transaction"
    /\ phase = "applied"
    /\ IF plan.mode = "already_current"
       THEN MainAdvanced /\ Goes("committing") /\ UNCHANGED <<git, orphan>>
       ELSE GitStarts(call.oid, seen) /\ Goes("updating") /\ UNCHANGED wtVars
    /\ UNCHANGED <<main, selected, late, stops>>

UpdateEnds ==
    /\ pc = "updating"
    /\ \/ UpdateSucceeds /\ MainAdvanced /\ Goes("committing")
       \/ UpdateFails /\ Rollback /\ Goes("undoing")
    /\ UNCHANGED <<main, selected, orphan>>

CommitTransactionOrUndo ==  \* mutant: an error after the update undoes the files
    /\ pc = "committing"
    /\ \/ Commit /\ Ends("ok")
       \/ Rollback /\ Goes("undoing")
    /\ UNCHANGED <<main, selected, late, git, orphan, stops>>

CommitTransaction ==
    /\ pc = "committing"
    /\ Commit
    /\ Ends("ok")
    /\ UNCHANGED <<main, selected, late, git, orphan, stops>>

UndoStep ==
    /\ pc = "undoing"
    /\ \/ (RolledBack \/ \E p \in Path : FileStep(p)) /\ NoStop
       \/ RollbackFails /\ IF BackupMissing THEN NoStop ELSE Stop("file")
    /\ Stays
    /\ UNCHANGED <<main, selected, late, git, orphan>>

UndoEnds ==
    /\ pc = "undoing"
    /\ \/ phase = "idle" /\ UNCHANGED wtVars
       \/ Abandon
    /\ Ends("failed")
    /\ UNCHANGED <<main, selected, late, git, orphan, stops>>

-----------------------------------------------------------------------------
(* The environment *)

ProcessDies ==
    /\ pc # "idle"
    /\ Stop("crash")
    /\ IF phase = "idle" THEN UNCHANGED wtVars ELSE Crash
    /\ git' = git /\ orphan' = (git.state # "none")
    /\ Ends("failed")
    /\ UNCHANGED <<main, selected, late>>

CPInit ==
    /\ Init
    /\ wt = TreeOf[NoOid]
    /\ main = NoOid
    /\ selected = NoOid
    /\ git = NoGit
    /\ orphan = FALSE
    /\ pc = "idle"
    /\ call = NoCall
    /\ seen = NoOid
    /\ outcome = "none"
    /\ stops = 0
    /\ late = FALSE

Program ==
    \/ ReadMainRef \/ RecoverWorktree \/ RecoveryLoopStep \/ RecoveryEnds
    \/ Advance \/ AdvanceEnds \/ RecoverProjectEnds
    \/ Inspect \/ ApplyStep \/ ApplyFailed \/ StartUpdate \/ UpdateEnds
    \/ CommitTransaction \/ UndoStep \/ UndoEnds

(* A save projects the selected commit, a finished run its own candidate,  *)
(* whose base is the selected commit.                                       *)
Request ==
    \/ \E c \in Oid, e \in Ref, r \in BOOLEAN :
          /\ selected \in {c, BaseOf[c]}
          /\ r \/ e \in {c, BaseOf[c]}
          /\ CallProject(c, e, r)
    \/ CallRecover
    \/ \E c \in Oid : Select(c)

CPNext ==
    \/ Program
    \/ GitUpdates \/ GitErrs \/ GitReaped
    \/ Request
    \/ ProcessDies

CPSpec == CPInit /\ [][CPNext]_allVars

-----------------------------------------------------------------------------
(* Properties *)

(* Nothing below main/worktree is undecided between calls: without a       *)
(* journal, the folder is exactly the tree of the commit main points to.   *)
(* Here and below an update-ref that took effect after its caller gave up, *)
(* and rolled the files back, is the exception; updateMainRef() does not   *)
(* look at the ref again after a timeout.                                  *)
Agreement ==
    pc = "idle" /\ journal # "whole" /\ ~late => wt = TreeOf[main]

(* A journal that is still on disk always belongs to the commit main       *)
(* points to, as its old or as its new value, so a recovery that is asked  *)
(* for one of the two knows what to do; and after a successful update it   *)
(* is the new one.                                                          *)
JournalFollowsMain ==
    journal = "whole" /\ ~late =>
        /\ main \in {plan.expected, plan.resulting}
        /\ "advanced" \in hist => main = plan.resulting

(* A projection that reports success left main at its candidate and the    *)
(* candidate's files in the folder, also after recovering an earlier one.  *)
SuccessIsReal ==
    [][pc # "idle" /\ outcome' = "ok" /\ pc' = "idle" /\ call.kind = "project" /\ ~late
          => /\ main = call.oid
             /\ plan.next = TreeOf[call.oid]
             /\ \A p \in Ops : Holds(plan.next, p)]_allVars

-----------------------------------------------------------------------------
(* The refinement: an open move is a journal on disk, and the folder is     *)
(* mixed while it is neither of the journal's trees.                        *)

FolderShows ==
    {t \in {wt} : journal = "whole" =>
                      t \in {TreeOf[plan.expected], TreeOf[plan.resulting]}}

Atomic == INSTANCE AtomicProjection WITH
    Commit <- Ref,
    ref <- main,
    shows <- FolderShows,
    open <- journal = "whole",
    move <- [from |-> plan.expected, to |-> plan.resulting],
    lost <- late

(* Two stores behave as one: to whoever looks at the main ref and the       *)
(* folder, project_current() and recover_project() with their journal,      *)
(* renames, unlinks, git child, crashes and failures are one atomic move.   *)
AtomicMove == Atomic!Spec

-----------------------------------------------------------------------------
(* What the documents and comments promise, and the code does not keep      *)

(* Every applied operation is undone when a later one fails: old files are  *)
(* never lost, also when the undoing is cut short by a failing unlink.      *)
(* (projectTransaction() runs the rollback that apply() ran already, over   *)
(* records whose backups are back in place, and unlinks those.)             *)
RollbackKeepsOldFiles ==
    journal = "whole" => Whole(plan.next) \/ \A p \in Ops : BaseKept(p)

(* An unselected interrupted candidate restores the base tree, also when    *)
(* the process died between the main ref update and the clean-up.           *)
CandidateIsDecided == result # "mismatch"

(* A committed projection remains valid even if its clean-up is deferred:   *)
(* later recoveries of that project are not stopped by what is left.        *)
CommittedStaysUsable ==
    journal = "whole" /\ "advanced" \in hist => result # "refused"
=============================================================================
