------------------------ MODULE WorktreeTransaction ------------------------
(***************************************************************************)
(* The journaled file transaction that moves a project folder from one     *)
(* source tree to another (src/electron/builder-worktree-transaction.cjs). *)
(*                                                                         *)
(* begin() stages the new contents in a private directory below .git and   *)
(* writes a journal; apply() renames each old file into backup/ and each   *)
(* staged file into place; commit() drops the directory; rollback() undoes *)
(* what was applied.  recover() is what a later call, usually of a later   *)
(* process, does with a directory that is still there: it moves the        *)
(* project to the base tree or to the resulting tree.                      *)
(*                                                                         *)
(* Every rename and every unlink is a step of its own, and the process may *)
(* die, or the operation fail, at each of them.  The user may change files *)
(* whenever this process is not inside a synchronous section.              *)
(*                                                                         *)
(* The callers in src run recover() before begin() and serialise both per  *)
(* project, so one private directory exists at a time.                     *)
(***************************************************************************)
EXTENDS Naturals

CONSTANTS
    Path,             \* relative paths of the project's source files
    Rank,             \* a path's place in the length-then-name order
    Content,          \* file contents that source trees hold
    Edit,             \* file contents only the user writes
    UserFiles,        \* what the user may turn a file into
    Absent,           \* "no such file" (a null digest)
    Tree,             \* the source trees handed to begin()
    Oid,              \* Git commit ids
    NoOid,            \* the main ref of a repository without one
    TornWrites,       \* a crash may leave half a journal.json
    CleanupMayFail    \* a directory removal may stop halfway

File == Content \cup Edit \cup {Absent}
Mode == {"cas_update", "already_current"}

ASSUME WorktreeAssumption ==
    /\ Absent \notin Content \cup Edit
    /\ Content \cap Edit = {}
    /\ UserFiles \subseteq File
    /\ Rank \in [Path -> Nat]
    /\ \A p, q \in Path : Rank[p] = Rank[q] => p = q
    /\ Tree \subseteq [Path -> Content \cup {Absent}]
    /\ NoOid \notin Oid
    /\ TornWrites \in BOOLEAN
    /\ CleanupMayFail \in BOOLEAN

VARIABLES
    \* on disk: survive a crash
    wt,         \* the project folder: what each path holds
    dir,        \* the parts of the private directory that exist
    backup,     \* <private directory>/backup
    staged,     \* <private directory>/next
    journal,    \* journal.json: "absent", "torn" or "whole"
    plan,       \* what the journal says (its operations as two trees)
    \* in memory: lost in a crash
    phase,      \* what the manager is doing
    moved,      \* paths whose record says backup_moved
    installed,  \* paths whose record says installed
    todo,       \* operations the running loop has not finished
    retain,     \* recover() keeps the directory for a main ref advance
    result,     \* how the last call ended
    \* history, for the properties only
    touched,    \* paths the user wrote since begin()
    hist        \* what happened to this directory since begin()

disk == <<wt, dir, backup, staged, journal, plan>>
mem == <<phase, moved, installed, todo, retain>>
vars == <<wt, dir, backup, staged, journal, plan,
          phase, moved, installed, todo, retain, result, touched, hist>>

NoFiles == [p \in Path |-> Absent]

Plan == [mode : Mode, expected : Oid \cup {NoOid}, resulting : Oid \cup {NoOid},
         base : [Path -> Content \cup {Absent}],
         next : [Path -> Content \cup {Absent}]]

Phase == {"idle", "prepared", "applying", "applied", "rolling", "failed",
          "recBase", "recNext"}

Result == {"none", "begun", "conflict", "unavailable", "applied", "committed",
           "rolled_back", "rollback_failed", "not_required", "base_restored",
           "resulting_completed", "advance", "mismatch", "refused", "crashed"}

TypeOK ==
    /\ wt \in [Path -> File]
    /\ dir \in SUBSET {"root", "backup", "next"}
    /\ backup \in [Path -> File]
    /\ staged \in [Path -> File]
    /\ journal \in {"absent", "torn", "whole"}
    /\ plan \in Plan
    /\ phase \in Phase
    /\ moved \in SUBSET Path
    /\ installed \in SUBSET Path
    /\ todo \in SUBSET Path
    /\ retain \in BOOLEAN
    /\ result \in Result
    /\ touched \in SUBSET Path
    /\ hist \in SUBSET {"undone", "reran", "swept", "advanced"}

-----------------------------------------------------------------------------
(* changedOperations(): the paths whose content differs, deletions first,  *)
(* longest path first, then the upserts, shortest path first.              *)

Changed(b, n) == {p \in Path : b[p] # n[p]}
Ops == Changed(plan.base, plan.next)

Deletes(p) == plan.next[p] = Absent

Before(p, q) ==
    IF Deletes(p) THEN Deletes(q) => Rank[q] < Rank[p]
                  ELSE ~Deletes(q) /\ Rank[p] < Rank[q]

IsFirst(p) == p \in todo /\ \A q \in todo \ {p} : Before(p, q)
IsLast(p) == p \in todo /\ \A q \in todo \ {p} : Before(q, p)

(* rmSync(transactionRoot, { recursive: true }): all of it, or, when it is *)
(* interrupted, any part of it, in whatever order the children are listed. *)
KeepOnly(files, S) == [p \in S |-> files[p]]  \* mutant: no entry for the others
Keep(files, S) == [p \in Path |-> IF p \in S THEN files[p] ELSE Absent]

DirGone ==
    /\ dir' = {}
    /\ backup' = NoFiles
    /\ staged' = NoFiles
    /\ journal' = "absent"
    /\ hist' = hist
    /\ UNCHANGED plan

DirLeftOver ==
    /\ CleanupMayFail
    /\ \E D \in SUBSET dir : "root" \in D /\ dir' = D
    /\ \E B \in SUBSET Path : backup' = Keep(backup, IF "backup" \in dir' THEN B ELSE {})
    /\ \E S \in SUBSET Path : staged' = Keep(staged, IF "next" \in dir' THEN S ELSE {})
    /\ journal' \in {journal, "absent"}
    /\ hist' = hist \cup {"swept"}
    /\ UNCHANGED plan

Forget ==  \* the transaction object, or the loop's locals, are dropped
    /\ moved' = {}
    /\ installed' = {}
    /\ todo' = {}
    /\ retain' = FALSE

-----------------------------------------------------------------------------
(* begin() *)

Matches(b, n) == \A p \in Changed(b, n) : wt[p] = b[p]

ModeFits(mode, expected, resulting) ==
    (mode = "already_current") <=> (expected = resulting)

(* Some file on disk is not the expected one. *)
BeginConflicts(b, n) ==
    /\ phase = "idle"
    /\ ~Matches(b, n)
    /\ result' = "conflict"
    /\ UNCHANGED <<disk, mem, touched, hist>>

(* Staging and the journal are complete. *)
Begin(b, n, expected, resulting, mode) ==
    /\ phase = "idle"
    /\ dir = {}
    /\ ModeFits(mode, expected, resulting)
    /\ Matches(b, n)
    /\ dir' = {"root", "backup", "next"}
    /\ staged' = Keep(n, Changed(b, n))
    /\ backup' = NoFiles
    /\ journal' = "whole"
    /\ plan' = [mode |-> mode, expected |-> expected, resulting |-> resulting,
                base |-> b, next |-> n]
    /\ phase' = "prepared"
    /\ todo' = Changed(b, n)
    /\ result' = "begun"
    /\ touched' = {}
    /\ hist' = {}
    /\ UNCHANGED <<wt, moved, installed, retain>>

(* Staging fails, and its clean-up may fail too; or the process dies while  *)
(* staging or while writing journal.json.                                   *)
BeginStops(b, n) ==
    /\ phase = "idle"
    /\ dir = {}
    /\ Matches(b, n)
    /\ \/ UNCHANGED <<dir, journal>> /\ result' = "unavailable"
       \/ CleanupMayFail /\ dir' = {"root"} /\ result' = "unavailable"
          /\ journal' \in {"absent"} \cup (IF TornWrites THEN {"torn"} ELSE {})
       \/ dir' \in {{"root"}, {"root", "next"}, {"root", "next", "backup"}}
          /\ journal' \in {"absent"} \cup (IF TornWrites THEN {"torn"} ELSE {})
          /\ result' = "crashed"
    /\ UNCHANGED <<wt, backup, staged, plan, mem, touched, hist>>

-----------------------------------------------------------------------------
(* apply() *)

Apply ==
    /\ phase = "prepared"
    /\ phase' = "applying"
    /\ UNCHANGED <<disk, moved, installed, todo, retain, result, touched, hist>>

(* renameSync(target, backup): a deletion is finished by it. *)
BackUp(p) ==
    /\ phase = "applying"
    /\ IsFirst(p)
    /\ plan.base[p] # Absent
    /\ p \notin moved
    /\ backup' = [backup EXCEPT ![p] = wt[p]]
    /\ wt' = [wt EXCEPT ![p] = Absent]
    /\ moved' = moved \cup {p}
    /\ todo' = IF Deletes(p) THEN todo \ {p} ELSE todo
    /\ UNCHANGED <<dir, staged, journal, plan, phase, installed, retain,
                   result, touched, hist>>

(* renameSync(staged, target) *)
Install(p) ==
    /\ phase = "applying"
    /\ IsFirst(p)
    /\ ~Deletes(p)
    /\ plan.base[p] = Absent \/ p \in moved
    /\ wt' = [wt EXCEPT ![p] = staged[p]]
    /\ staged' = [staged EXCEPT ![p] = Absent]
    /\ installed' = installed \cup {p}
    /\ todo' = todo \ {p}
    /\ UNCHANGED <<dir, backup, journal, plan, phase, moved, retain,
                   result, touched, hist>>

Applied ==
    /\ phase = "applying"
    /\ todo = {}
    /\ phase' = "applied"
    /\ result' = "applied"
    /\ UNCHANGED <<disk, moved, installed, todo, retain, touched, hist>>

(* A file operation of the loop fails: apply() itself rolls back. *)
ApplyFailsMidFile ==  \* mutant: a file backed up but not installed is forgotten
    /\ phase = "applying"
    /\ todo # {}
    /\ phase' = "rolling"
    /\ todo' = installed
    /\ UNCHANGED <<disk, moved, installed, retain, result, touched, hist>>

ApplyFails ==
    /\ phase = "applying"
    /\ todo # {}
    /\ phase' = "rolling"
    /\ todo' = moved \cup installed
    /\ UNCHANGED <<disk, moved, installed, retain, result, touched, hist>>

-----------------------------------------------------------------------------
(* rollback() and rollbackApplied(): backwards over the records; neither   *)
(* flag of a record is cleared when its step is undone.                    *)

Rollback ==
    \/ /\ phase = "prepared"
       /\ DirGone \/ DirLeftOver
       /\ phase' = "idle"
       /\ Forget
       /\ result' = "rolled_back"
       /\ UNCHANGED <<wt, touched>>
    \/ /\ phase \in {"applied", "failed"}
       /\ phase' = "rolling"
       /\ todo' = moved \cup installed
       /\ hist' = IF phase = "failed" THEN hist \cup {"reran"} ELSE hist
       /\ UNCHANGED <<disk, moved, installed, retain, result, touched>>

(* rmSync(target) *)
RollRemove(p) ==
    /\ phase = "rolling"
    /\ IsLast(p)
    /\ p \in installed
    /\ wt[p] # Absent
    /\ wt' = [wt EXCEPT ![p] = Absent]
    /\ todo' = IF p \in moved THEN todo ELSE todo \ {p}
    /\ hist' = hist \cup {"undone"}
    /\ UNCHANGED <<dir, backup, staged, journal, plan, phase, moved, installed,
                   retain, result, touched>>

(* renameSync(backup, target), which replaces whatever is there *)
RollRestore(p) ==
    /\ phase = "rolling"
    /\ IsLast(p)
    /\ p \in moved
    /\ p \in installed => wt[p] = Absent
    /\ backup[p] # Absent
    /\ wt' = [wt EXCEPT ![p] = backup[p]]
    /\ backup' = [backup EXCEPT ![p] = Absent]
    /\ todo' = todo \ {p}
    /\ UNCHANGED <<dir, staged, journal, plan, phase, moved, installed,
                   retain, result, touched, hist>>

(* An installed file without a backup is already gone. *)
RollSkip(p) ==
    /\ phase = "rolling"
    /\ IsLast(p)
    /\ p \notin moved
    /\ wt[p] = Absent
    /\ todo' = todo \ {p}
    /\ UNCHANGED <<disk, phase, moved, installed, retain, result, touched, hist>>

RolledBack ==
    /\ phase = "rolling"
    /\ todo = {}
    /\ DirGone \/ DirLeftOver
    /\ phase' = "idle"
    /\ Forget
    /\ result' = "rolled_back"
    /\ UNCHANGED <<wt, touched>>

(* The rename of a backup that an earlier pass has already moved back.     *)
BackupMissing ==
    \E p \in moved :
        IsLast(p) /\ backup[p] = Absent /\ (p \in installed => wt[p] = Absent)

(* An unlink or a rename fails, for certain when BackupMissing.  The state *)
(* stays "applying" or "applied", so rollback() can be called again.       *)
RollbackFails ==
    /\ phase = "rolling"
    /\ todo # {}
    /\ phase' = "failed"
    /\ todo' = {}
    /\ result' = "rollback_failed"
    /\ UNCHANGED <<disk, moved, installed, retain, touched, hist>>

Abandon ==  \* the caller drops the object and reports "unavailable"
    /\ phase = "failed"
    /\ phase' = "idle"
    /\ Forget
    /\ UNCHANGED <<disk, result, touched, hist>>

(* The caller's main ref update succeeded, or there was nothing to update. *)
MainAdvanced ==
    /\ phase = "applied"
    /\ hist' = hist \cup {"advanced"}
    /\ UNCHANGED <<disk, mem, result, touched>>

(* commit(): a failed removal is swallowed. *)
Commit ==
    /\ phase = "applied"
    /\ "advanced" \in hist
    /\ DirGone \/ DirLeftOver
    /\ phase' = "idle"
    /\ Forget
    /\ result' = "committed"
    /\ UNCHANGED <<wt, touched>>

-----------------------------------------------------------------------------
(* recover(current_main_oid, selected_main_oid) *)

Forward(current, selected) ==
    /\ selected = plan.resulting
    /\ \/ current = plan.resulting
       \/ plan.mode = "cas_update" /\ current = plan.expected

Backward(current, selected) ==
    /\ selected # plan.resulting
    /\ selected = plan.expected
    /\ current = plan.expected
    /\ plan.mode # "already_current"

NothingToRecover ==
    /\ phase = "idle"
    /\ dir = {}
    /\ result' = "not_required"
    /\ UNCHANGED <<disk, mem, touched, hist>>

(* No journal: staging never finished, no file was touched.  rmSync throws *)
(* here when it fails.                                                      *)
DropUnjournaled ==
    /\ phase = "idle"
    /\ dir # {}
    /\ journal = "absent"
    /\ \/ DirGone /\ result' = "not_required"
       \/ DirLeftOver /\ result' \in {"unavailable", "crashed"}
    /\ UNCHANGED <<wt, mem, touched>>

(* The journal does not parse, the ids fit neither side, or a part of the  *)
(* directory is missing.                                                    *)
RecoverRefuses(current, selected) ==
    /\ phase = "idle"
    /\ dir # {}
    /\ \/ journal = "torn" /\ result' = "refused"
       \/ /\ journal = "whole"
          /\ ~Forward(current, selected)
          /\ ~Backward(current, selected)
          /\ result' = "mismatch"
       \/ /\ journal = "whole"
          /\ Forward(current, selected) \/ Backward(current, selected)
          /\ ~({"backup", "next"} \subseteq dir)
          /\ result' = "refused"
    /\ UNCHANGED <<disk, mem, touched, hist>>

RecoverStarts(current, selected) ==
    /\ phase = "idle"
    /\ journal = "whole"
    /\ {"backup", "next"} \subseteq dir
    /\ \/ Forward(current, selected) /\ phase' = "recNext"
       \/ Backward(current, selected) /\ phase' = "recBase"
    /\ retain' = (Forward(current, selected) /\ current # plan.resulting)
    /\ todo' = Ops
    /\ hist' = IF current = plan.resulting THEN hist \cup {"advanced"} ELSE hist
    /\ UNCHANGED <<disk, moved, installed, result, touched>>

(* Towards the base tree, backwards over the operations. *)

BaseCanUnlinkOld(p) ==  \* mutant: created files are forgotten
    /\ wt[p] = plan.next[p]
    /\ ~Deletes(p)
    /\ plan.base[p] # Absent /\ backup[p] = plan.base[p]

BaseCanUnlink(p) ==
    /\ wt[p] = plan.next[p]
    /\ ~Deletes(p)
    /\ backup[p] = plan.base[p]   \* both Absent for a created file

BaseCanRestore(p) ==
    /\ plan.base[p] # Absent
    /\ backup[p] = plan.base[p]
    /\ wt[p] = Absent
    /\ ~Deletes(p)    \* a deletion: unlinking the absent file throws ENOENT

BaseInPlaceUnread(p) == backup[p] = Absent  \* mutant: the file is not compared
BaseInPlace(p) == backup[p] = Absent /\ wt[p] = plan.base[p]

BaseUnlink(p) ==
    /\ phase = "recBase"
    /\ IsLast(p)
    /\ BaseCanUnlink(p)
    /\ wt' = [wt EXCEPT ![p] = Absent]
    /\ todo' = IF plan.base[p] = Absent THEN todo \ {p} ELSE todo
    /\ hist' = hist \cup {"undone"}
    /\ UNCHANGED <<dir, backup, staged, journal, plan, phase, moved, installed,
                   retain, result, touched>>

BaseRestore(p) ==
    /\ phase = "recBase"
    /\ IsLast(p)
    /\ BaseCanRestore(p)
    /\ wt' = [wt EXCEPT ![p] = backup[p]]
    /\ backup' = [backup EXCEPT ![p] = Absent]
    /\ todo' = todo \ {p}
    /\ UNCHANGED <<dir, staged, journal, plan, phase, moved, installed,
                   retain, result, touched, hist>>

BaseSkip(p) ==
    /\ phase = "recBase"
    /\ IsLast(p)
    /\ BaseInPlace(p)
    /\ todo' = todo \ {p}
    /\ UNCHANGED <<disk, phase, moved, installed, retain, result, touched, hist>>

(* Towards the resulting tree, forwards over the operations. *)

NextCanBackUpAny(p) ==  \* mutant: the file is not compared
    /\ plan.base[p] # Absent
    /\ wt[p] # Absent
    /\ backup[p] = Absent

NextCanBackUp(p) ==
    /\ plan.base[p] # Absent
    /\ wt[p] = plan.base[p]
    /\ backup[p] = Absent

NextCanInstallNew(p) ==  \* mutant: an update cut off between its two renames
    /\ ~Deletes(p)
    /\ plan.base[p] = Absent
    /\ wt[p] = Absent
    /\ staged[p] = plan.next[p]

NextCanInstall(p) ==
    /\ ~Deletes(p)
    /\ wt[p] = Absent
    /\ staged[p] = plan.next[p]

NextInPlace(p) == wt[p] = plan.next[p]

NextBackUp(p) ==
    /\ phase = "recNext"
    /\ IsFirst(p)
    /\ NextCanBackUp(p)
    /\ backup' = [backup EXCEPT ![p] = wt[p]]
    /\ wt' = [wt EXCEPT ![p] = Absent]
    /\ todo' = IF Deletes(p) THEN todo \ {p} ELSE todo
    /\ UNCHANGED <<dir, staged, journal, plan, phase, moved, installed,
                   retain, result, touched, hist>>

NextInstall(p) ==
    /\ phase = "recNext"
    /\ IsFirst(p)
    /\ NextCanInstall(p)
    /\ wt' = [wt EXCEPT ![p] = staged[p]]
    /\ staged' = [staged EXCEPT ![p] = Absent]
    /\ todo' = todo \ {p}
    /\ UNCHANGED <<dir, backup, journal, plan, phase, moved, installed,
                   retain, result, touched, hist>>

NextSkip(p) ==
    /\ phase = "recNext"
    /\ IsFirst(p)
    /\ NextInPlace(p)
    /\ todo' = todo \ {p}
    /\ UNCHANGED <<disk, phase, moved, installed, retain, result, touched, hist>>

(* None of the cases the loop knows. *)
RecoveryRefuses(p) ==
    /\ \/ /\ phase = "recBase"
          /\ IsLast(p)
          /\ ~BaseCanUnlink(p) /\ ~BaseCanRestore(p) /\ ~BaseInPlace(p)
       \/ /\ phase = "recNext"
          /\ IsFirst(p)
          /\ ~NextCanBackUp(p) /\ ~NextCanInstall(p) /\ ~NextInPlace(p)
    /\ phase' = "idle"
    /\ Forget
    /\ result' = "refused"
    /\ UNCHANGED <<disk, touched, hist>>

(* A file operation of either loop fails. *)
RecoveryFails ==
    /\ phase \in {"recBase", "recNext"}
    /\ phase' = "idle"
    /\ Forget
    /\ result' = "unavailable"
    /\ UNCHANGED <<disk, touched, hist>>

Recovered ==
    /\ phase \in {"recBase", "recNext"}
    /\ todo = {}
    /\ phase' = "idle"
    /\ Forget
    /\ \/ /\ retain
          /\ result' = "advance"
          /\ UNCHANGED <<dir, backup, staged, journal, plan, hist>>
       \/ /\ ~retain
          /\ DirGone
          /\ result' = IF phase = "recBase" THEN "base_restored"
                                            ELSE "resulting_completed"
       \/ /\ ~retain
          /\ DirLeftOver
          /\ result' \in {"unavailable", "crashed"}
    /\ UNCHANGED <<wt, touched>>

-----------------------------------------------------------------------------
(* The environment *)

Crash ==
    /\ phase # "idle"
    /\ phase' = "idle"
    /\ Forget
    /\ result' = "crashed"
    /\ UNCHANGED <<disk, touched, hist>>

(* The user saves or deletes a file while this process is idle, is not     *)
(* running, or awaits the main ref update of an applied transaction.       *)
UserWrites(p, f) ==
    /\ phase \in {"idle", "applied"}
    /\ wt[p] # f
    /\ wt' = [wt EXCEPT ![p] = f]
    /\ touched' = touched \cup {p}
    /\ UNCHANGED <<dir, backup, staged, journal, plan, mem, result, hist>>

Init ==
    /\ wt \in Tree
    /\ dir = {}
    /\ backup = NoFiles
    /\ staged = NoFiles
    /\ journal = "absent"
    /\ plan = [mode |-> "cas_update", expected |-> NoOid, resulting |-> NoOid,
               base |-> wt, next |-> wt]
    /\ phase = "idle"
    /\ moved = {}
    /\ installed = {}
    /\ todo = {}
    /\ retain = FALSE
    /\ result = "none"
    /\ touched = {}
    /\ hist = {}

FileStep(p) ==
    \/ BackUp(p) \/ Install(p)
    \/ RollRemove(p) \/ RollRestore(p) \/ RollSkip(p)
    \/ BaseUnlink(p) \/ BaseRestore(p) \/ BaseSkip(p)
    \/ NextBackUp(p) \/ NextInstall(p) \/ NextSkip(p)
    \/ RecoveryRefuses(p)

Call ==
    \/ \E b, n \in Tree : BeginConflicts(b, n) \/ BeginStops(b, n)
    \/ \E b, n \in Tree, e \in Oid \cup {NoOid}, r \in Oid, m \in Mode :
          Begin(b, n, e, r, m)
    \/ Apply \/ MainAdvanced \/ Commit \/ Abandon
    \/ "advanced" \notin hist /\ Rollback
    \/ NothingToRecover \/ DropUnjournaled
    \/ \E c, s \in Oid \cup {NoOid} :
          /\ "advanced" \in hist => c = plan.resulting
          /\ RecoverRefuses(c, s) \/ RecoverStarts(c, s)

LoopStep ==
    \/ \E p \in Path : FileStep(p)
    \/ Applied \/ ApplyFails \/ RolledBack \/ RollbackFails
    \/ Recovered \/ RecoveryFails

Next ==
    \/ Call
    \/ LoopStep
    \/ Crash
    \/ \E p \in Path, f \in UserFiles : UserWrites(p, f)

(* Also a property of its callers: whatever they do keeps to this protocol; *)
(* no transaction is rolled back once its main ref has moved, or recovered  *)
(* with a main ref that is not the one it knows of.                         *)
Spec == Init /\ [][Next]_vars

-----------------------------------------------------------------------------
(* Properties *)

(* Path p holds what tree t has there, or the user changed it meanwhile. *)
Holds(t, p) == wt[p] = t[p] \/ p \in touched

Whole(t) == \A p \in Ops : Holds(t, p)

BaseKept(p) ==
    plan.base[p] = Absent \/ wt[p] = plan.base[p] \/ backup[p] = plan.base[p]

(* As long as a journal is on disk, every old file still exists, in the    *)
(* project or in backup/, or the whole resulting tree is in place; no      *)
(* crash, failed step, or unfinished recovery in either direction loses    *)
(* one.  (Exempt: a rollback that is run a second time on its records.)    *)
Recoverable ==
    journal = "whole" /\ "reran" \notin hist =>
        \/ \A p \in Ops : p \in touched \/ BaseKept(p)
        \/ Whole(plan.next)

(* A journal goes away only when the project is entirely the base tree or  *)
(* entirely the resulting tree: a mixture is never left without the record *)
(* that can repair it.                                                      *)
AtomicOutcome ==
    [][journal = "whole" /\ journal' # "whole"
          => Whole(plan.base) \/ Whole(plan.next)]_vars

(* What a finished call reports is what is in the folder: a rollback and a *)
(* recovery to base leave the base tree, a commit and a recovery forward   *)
(* (also the one that still waits for the main ref) the resulting tree.    *)
OutcomeTellsTree ==
    [][phase # "idle" /\ phase' = "idle" =>
          /\ result' \in {"rolled_back", "base_restored"} => Whole(plan.base)
          /\ result' \in {"committed", "resulting_completed", "advance"}
                => Whole(plan.next)]_vars

(* A file the user wrote is never overwritten or removed, except by the    *)
(* rollback of a live transaction whose main ref update failed.            *)
EditsKept ==
    [][\A p \in Path :
          wt[p] \in Edit /\ wt'[p] # wt[p]
             => \/ phase = "rolling"
                \/ \E f \in UserFiles : UserWrites(p, f)]_vars

(* After any crash, in apply(), in recovery itself or before the main ref  *)
(* moved, recovery towards the resulting tree finds everything it needs,   *)
(* unless a rollback had begun to throw the staged files away.             *)
ForwardNeverRefused ==
    [][phase = "recNext" /\ phase' = "idle" /\ result' = "refused"
          => \/ touched # {}
             \/ hist \cap {"undone", "reran", "swept"} # {}]_vars

(* Likewise towards the base tree, unless a deletion was already carried    *)
(* out or a rollback was run twice.                                         *)
BackwardNeverRefused ==
    [][phase = "recBase" /\ phase' = "idle" /\ result' = "refused"
          => \/ touched # {}
             \/ hist \cap {"reran", "swept"} # {}
             \/ \E p \in Ops : Deletes(p) /\ wt[p] = Absent]_vars

(* What the slice document says of an unselected interrupted candidate:     *)
(* recovery restores the base tree.  (recover() unlinks the target of an    *)
(* interrupted deletion although it is already absent, and stops there.)    *)
BaseRestored ==
    [][phase = "recBase" /\ phase' = "idle" /\ result' = "refused"
          => \/ touched # {}
             \/ hist \cap {"reran", "swept"} # {}]_vars
=============================================================================
