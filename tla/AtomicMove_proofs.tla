-------------------------- MODULE AtomicMove_proofs --------------------------
(* Proof that the main ref and the project folder move as one: the calls of *)
(* the projection, with their journal, renames, git child, crashes and      *)
(* failures, implement AtomicProjection, for any number of them.            *)
EXTENDS CurrentProjection_proofs

(* The folder as a whole: a tree of some commit, or one that differs from   *)
(* the journal's base in the journal's operations only.                     *)
FolderInv ==
    /\ touched = {}
    /\ journal # "whole" => wt \in Tree
    /\ journal = "whole" => \A p \in Path \ Ops : wt[p] = plan.base[p]

(* What the folder shows is what main says, once it is decided.             *)
TreeInv ==
    /\ journal # "whole" => wt = TreeOf[main]
    /\ journal = "whole" =>
          /\ plan.base = TreeOf[plan.expected]
          /\ main \in {plan.expected, plan.resulting}
          /\ main # plan.expected => wt = plan.next

(* What a call believes of main is so.                                      *)
Working == pc \notin {"idle", "reading", "updating", "advancing", "committing"}

SeenInv ==
    /\ Working => main = seen
    /\ pc \in {"updating", "advancing"} /\ git.state # "updated" => main = seen
    /\ pc = "committing" => main = call.oid

MainInv == TreeInv /\ SeenInv
MoveInv == CPInv /\ FolderInv /\ (~late => MainInv)

-----------------------------------------------------------------------------
(* A tree that holds on every operation is the folder.                      *)
LEMMA WholeFolder ==
  ASSUME CPInv, FolderInv, journal = "whole"
  PROVE  /\ Whole(plan.base) => wt = plan.base
         /\ Whole(plan.next) => wt = plan.next
  <1>1. /\ wt \in [Path -> File] /\ plan.base \in [Path -> Content \cup {Absent}]
        /\ plan.next \in [Path -> Content \cup {Absent}]
    BY DEF CPInv, IInv, TypeOK, Plan
  <1>2. \A p \in Path \ Ops : wt[p] = plan.base[p] /\ plan.next[p] = plan.base[p]
    BY DEF FolderInv, Ops, Changed
  <1>3. Ops \subseteq Path /\ touched = {}
    BY DEF Ops, Changed, FolderInv
  <1>4. ASSUME Whole(plan.base) PROVE wt = plan.base
    <2>1. \A p \in Path : wt[p] = plan.base[p]
      BY <1>2, <1>3, <1>4 DEF Whole, Holds
    <2> QED
      BY <1>1, <2>1
  <1>5. ASSUME Whole(plan.next) PROVE wt = plan.next
    <2>1. \A p \in Path : wt[p] = plan.next[p]
      BY <1>2, <1>3, <1>5 DEF Whole, Holds
    <2> QED
      BY <1>1, <2>1
  <1> QED
    BY <1>4, <1>5

(* One file step writes one path of the journal, and none of a resulting    *)
(* tree that is in place already.                                           *)
LEMMA FileWrites ==
  ASSUME CPInv, NEW p \in Path, FileStep(p)
  PROVE  /\ UNCHANGED <<plan, journal, touched>> /\ journal = "whole" /\ p \in Ops
         /\ \A q \in Path : q # p => wt'[q] = wt[q]
         /\ phase = "recNext" /\ wt = plan.next => wt' = wt
  <1> USE DEF CPInv, IInv, ProtocolInv, JournalInv
  <1>1. wt \in [Path -> File]
    BY DEF TypeOK
  <1>2. CASE BackUp(p) \/ Install(p)
    BY <1>1, <1>2 DEF BackUp, Install, IsFirst, ApplyingInv
  <1>3. CASE RollRemove(p) \/ RollRestore(p) \/ RollSkip(p)
    BY <1>1, <1>3 DEF RollRemove, RollRestore, RollSkip, IsLast, RollingInv, disk
  <1>4. CASE BaseUnlink(p) \/ BaseRestore(p) \/ BaseSkip(p)
    BY <1>1, <1>4 DEF BaseUnlink, BaseRestore, BaseSkip, IsLast, RecoveringInv, disk
  <1>5. CASE NextBackUp(p) \/ NextInstall(p) \/ NextSkip(p)
    <2>1. p \in Ops /\ phase = "recNext"
      BY <1>5 DEF NextBackUp, NextInstall, NextSkip, IsFirst, RecoveringInv
    <2>2. wt = plan.next => ~NextBackUp(p) /\ ~NextInstall(p)
      BY <2>1 DEF NextBackUp, NextCanBackUp, NextInstall, NextCanInstall, Deletes, Ops, Changed
    <2> QED
      BY <1>1, <1>5, <2>1, <2>2 DEF NextBackUp, NextInstall, NextSkip, disk
  <1>6. CASE RecoveryRefuses(p)
    BY <1>1, <1>6 DEF RecoveryRefuses, IsFirst, IsLast, RecoveringInv, disk
  <1> QED
    BY <1>2, <1>3, <1>4, <1>5, <1>6 DEF FileStep

(* The steps, by what they do to main, the folder and its journal.          *)
Quiet == UNCHANGED <<main, wt, plan, touched>> /\ (journal' = "whole" => journal = "whole")

Begins ==
    /\ Inspect /\ Admitted /\ main' = main /\ Goes("transaction")
    /\ Begin(wt, TreeOf[call.oid], seen, call.oid,
             IF seen = call.oid THEN "already_current" ELSE "cas_update")

FileMoves == main' = main /\ (InRecovery \/ pc \in {"transaction", "undoing"})
                          /\ \E p \in Path : FileStep(p)

RefIsMoved ==
    /\ GitUpdates /\ git.state = "running" /\ main = git.old /\ main' = git.new
    /\ UNCHANGED vars

LEMMA StepKinds ==
  ASSUME CPInv, CPNext
  PROVE  Quiet \/ Begins \/ FileMoves \/ RefIsMoved
  <1>1. CASE ReadMainRef \/ RecoveryEnds \/ Advance \/ AdvanceEnds \/ RecoverProjectEnds
    BY <1>1 DEF ReadMainRef, RecoveryEnds, Advance, AdvanceEnds, RecoverProjectEnds, Quiet,
       wtVars, vars
  <1>2. CASE RecoverWorktree
    BY <1>2 DEF RecoverWorktree, NothingToRecover, DropUnjournaled, DirGone, DirLeftOver,
       RecoverRefuses, RecoverStarts, Quiet, disk
  <1>3. CASE RecoveryLoopStep
    BY <1>3, DirFacts DEF RecoveryLoopStep, Recovered, RecoveryFails, Keeps, FileMoves, Quiet, disk
  <1>4. CASE Inspect
    BY <1>4 DEF Inspect, Begins, BeginStops, Quiet, wtVars, vars
  <1>5. CASE ApplyStep
    BY <1>5, DirFacts DEF ApplyStep, Apply, Applied, RolledBack, ApplyFails, RollbackFails,
       Keeps, FileMoves, Quiet, disk
  <1>6. CASE ApplyFailed \/ CommitTransaction \/ UndoEnds
    BY <1>6, DirFacts DEF ApplyFailed, CommitTransaction, UndoEnds, Rollback, Commit, Abandon,
       Keeps, Quiet, disk, wtVars, vars
  <1>7. CASE StartUpdate \/ UpdateEnds
    BY <1>7, DirFacts DEF StartUpdate, UpdateEnds, MainAdvanced, Rollback, Keeps, Quiet,
       disk, wtVars, vars
  <1>8. CASE UndoStep
    BY <1>8, DirFacts DEF UndoStep, RolledBack, RollbackFails, Keeps, FileMoves, Quiet, disk
  <1>9. CASE GitUpdates
    BY <1>9 DEF GitUpdates, Quiet, RefIsMoved, wtVars, vars
  <1>10. CASE GitErrs \/ GitReaped \/ Request
    BY <1>10 DEF GitErrs, GitReaped, Request, CallProject, CallRecover, Select, Quiet, wtVars, vars
  <1>11. CASE ProcessDies
    BY <1>11 DEF ProcessDies, Crash, Quiet, disk, wtVars, vars
  <1> QED
    BY <1>1, <1>2, <1>3, <1>4, <1>5, <1>6, <1>7, <1>8, <1>9, <1>10, <1>11 DEF CPNext, Program

-----------------------------------------------------------------------------
(* When the journal goes, the folder is at one end of the move, and main    *)
(* names that end.                                                          *)
LEMMA Decided ==
  ASSUME MoveInv, CPNext, journal = "whole", journal' # "whole"
  PROVE  /\ wt \in {plan.base, plan.next}
         /\ ~late => wt = TreeOf[main]
  <1> USE DEF MoveInv, CPInv, ProjInv
  <1>1. plan.next = TreeOf[plan.resulting]
    BY DEF PlanInv
  <1>2. CASE RolledBack /\ pc \in {"transaction", "undoing"}
    <2>1. phase = "rolling" /\ todo = {}
      BY <1>2 DEF RolledBack
    <2>2. Whole(plan.base)
      BY <2>1 DEF IInv, ProtocolInv, RollingInv, Whole
    <2>3. wt = plan.base
      BY <2>2, WholeFolder
    <2>4. plan.expected = seen
      BY <1>2, <2>1 DEF PlanInv, Undertaken
    <2> QED
      BY <1>2, <2>3, <2>4 DEF MainInv, TreeInv, SeenInv, Working
  <1>3. CASE CommitTransaction
    <2>1. pc = "committing" /\ phase = "applied"
      BY <1>3 DEF CommitTransaction, Commit
    <2>2. Whole(plan.next) /\ plan.resulting = call.oid
      BY <2>1 DEF IInv, ProtocolInv, AppliedInv, Whole, PlanInv, Undertaken
    <2>3. wt = plan.next
      BY <2>2, WholeFolder
    <2> QED
      BY <1>1, <2>1, <2>2, <2>3 DEF MainInv, SeenInv
  <1>4. CASE Recovered /\ InRecovery
    <2>1. ~retain /\ todo = {} /\ phase \in {"recBase", "recNext"}
      BY <1>4 DEF Recovered
    <2>2. CASE phase = "recBase"
      <3>1. Whole(plan.base) /\ plan.expected = seen
        BY <2>1, <2>2 DEF IInv, ProtocolInv, RecoveringInv, Whole, PlanInv
      <3>2. wt = plan.base
        BY <3>1, WholeFolder
      <3> QED
        BY <1>4, <3>1, <3>2 DEF MainInv, TreeInv, SeenInv, Working, InRecovery
    <2>3. CASE phase = "recNext"
      <3>1. Whole(plan.next) /\ plan.resulting = seen
        BY <2>1, <2>3 DEF IInv, ProtocolInv, RecoveringInv, Whole, PlanInv
      <3>2. wt = plan.next
        BY <3>1, WholeFolder
      <3> QED
        BY <1>1, <1>4, <3>1, <3>2 DEF MainInv, SeenInv, Working, InRecovery
    <2> QED
      BY <2>1, <2>2, <2>3
  <1>5. (RolledBack /\ pc \in {"transaction", "undoing"}) \/ CommitTransaction
        \/ (Recovered /\ InRecovery)
    <2>1. CASE ReadMainRef \/ RecoveryEnds \/ Advance \/ AdvanceEnds \/ RecoverProjectEnds
               \/ GitUpdates \/ GitErrs \/ GitReaped \/ Request
      BY <2>1 DEF ReadMainRef, RecoveryEnds, Advance, AdvanceEnds, RecoverProjectEnds,
         GitUpdates, GitErrs, GitReaped, Request, CallProject, CallRecover, Select, wtVars, vars
    <2>2. CASE RecoverWorktree
      BY <2>2 DEF RecoverWorktree, NothingToRecover, DropUnjournaled, RecoverRefuses,
         RecoverStarts, disk
    <2>3. CASE RecoveryLoopStep
      BY <2>3, FileWrites DEF RecoveryLoopStep, RecoveryFails, disk
    <2>4. CASE Inspect
      <3>1. dir # {}
        BY DEF IInv, ProtocolInv, JournalInv
      <3> QED
        BY <2>4, <3>1 DEF Inspect, Begin, BeginStops, wtVars, vars
    <2>5. CASE ApplyStep
      BY <2>5, FileWrites DEF ApplyStep, Apply, Applied, ApplyFails, RollbackFails, disk
    <2>6. CASE ApplyFailed \/ UndoEnds
      BY <2>6 DEF ApplyFailed, UndoEnds, Rollback, Abandon, disk, wtVars, vars
    <2>7. CASE StartUpdate \/ UpdateEnds
      <3>1. phase = "applied"
        BY <2>7 DEF StartUpdate, UpdateEnds, CallInv
      <3> QED
        BY <2>7, <3>1 DEF StartUpdate, UpdateEnds, MainAdvanced, Rollback, disk, wtVars, vars
    <2>8. CASE UndoStep
      BY <2>8, FileWrites DEF UndoStep, RollbackFails, disk
    <2>9. CASE ProcessDies
      BY <2>9 DEF ProcessDies, Crash, disk, wtVars, vars
    <2> QED
      BY <2>1, <2>2, <2>3, <2>4, <2>5, <2>6, <2>7, <2>8, <2>9 DEF CPNext, Program
  <1> QED
    BY <1>2, <1>3, <1>4, <1>5

(* A transaction begins in a decided folder.                                *)
LEMMA BeginFacts ==
  ASSUME CPInv, Begins
  PROVE  /\ journal # "whole" /\ journal' = "whole" /\ UNCHANGED <<wt, main, seen, call>>
         /\ touched' = {} /\ pc = "inspecting" /\ pc' = "transaction"
         /\ plan'.base = wt /\ plan'.next = TreeOf[call.oid]
         /\ plan'.expected = seen /\ plan'.resulting = call.oid
  <1>1. dir = {} /\ journal # "whole"
    BY DEF Begins, Begin, CPInv, IInv, ProtocolInv, JournalInv
  <1> QED
    BY <1>1 DEF Begins, Begin, Inspect, Goes

LEMMA FolderStep ==
  ASSUME MoveInv, CPNext
  PROVE  FolderInv'
  <1> USE DEF MoveInv
  <1>1. CASE Quiet
    <2>1. CASE journal = "whole" /\ journal' # "whole"
      <3>1. plan.base \in Tree /\ plan.next \in Tree
        <4>1. plan.next = TreeOf[plan.resulting] /\ plan.resulting \in Oid /\ plan.base \in Tree
          BY <2>1 DEF CPInv, ProjInv, PlanInv
        <4> QED
          BY <4>1, ProjectionAssumption
      <3> QED
        BY <1>1, <2>1, <3>1, Decided DEF Quiet, FolderInv
    <2>2. CASE ~(journal = "whole" /\ journal' # "whole")
      BY <1>1, <2>2 DEF Quiet, FolderInv, Ops, Changed
    <2> QED
      BY <2>1, <2>2
  <1>2. CASE Begins
    BY <1>2, BeginFacts DEF FolderInv
  <1>3. CASE FileMoves
    <2>1. PICK p \in Path : FileStep(p)
      BY <1>3 DEF FileMoves
    <2>2. /\ UNCHANGED <<plan, journal, touched>> /\ journal = "whole" /\ p \in Ops
          /\ \A q \in Path : q # p => wt'[q] = wt[q]
      BY <2>1, FileWrites
    <2> QED
      BY <2>2 DEF FolderInv, Ops, Changed
  <1>4. CASE RefIsMoved
    BY <1>4 DEF RefIsMoved, FolderInv, vars, Ops, Changed
  <1> QED
    BY <1>1, <1>2, <1>3, <1>4, StepKinds

LEMMA TreeStep ==
  ASSUME MoveInv, CPNext, ~late, ~late'
  PROVE  TreeInv'
  <1> USE DEF MoveInv, MainInv
  <1>1. CASE Quiet
    <2>1. CASE journal = "whole" /\ journal' # "whole"
      BY <1>1, <2>1, Decided DEF Quiet, TreeInv
    <2>2. CASE ~(journal = "whole" /\ journal' # "whole")
      BY <1>1, <2>2 DEF Quiet, TreeInv
    <2> QED
      BY <2>1, <2>2
  <1>2. CASE Begins
    BY <1>2, BeginFacts DEF TreeInv, SeenInv, Working
  <1>3. CASE FileMoves
    <2>1. PICK p \in Path : FileStep(p)
      BY <1>3 DEF FileMoves
    <2>2. /\ UNCHANGED <<plan, journal, main>> /\ journal = "whole"
          /\ phase = "recNext" /\ wt = plan.next => wt' = wt
      BY <1>3, <2>1, FileWrites DEF FileMoves
    <2>3. main = plan.expected \/ phase = "recNext"
      <3>1. main = seen
        BY <1>3 DEF FileMoves, SeenInv, Working, InRecovery
      <3>2. phase \in {"applying", "rolling", "recBase", "recNext"}
        BY <2>1, FileFacts
      <3>3. phase \in {"applying", "rolling"} => pc \in Undertaken
        BY <1>3, <3>2 DEF FileMoves, CPInv, ProjInv, CallInv, Undertaken
      <3>4. phase # "recNext" => plan.expected = seen
        BY <3>2, <3>3 DEF CPInv, ProjInv, PlanInv
      <3> QED
        BY <3>1, <3>4
    <2> QED
      BY <2>2, <2>3 DEF TreeInv
  <1>4. CASE RefIsMoved
    <2>1. /\ pc \in {"updating", "advancing"} /\ UNCHANGED <<wt, journal, plan>>
          /\ main' = call.oid
      <3>1. Awaited
        BY <1>4 DEF RefIsMoved, GitUpdates
      <3> QED
        BY <1>4, <3>1 DEF RefIsMoved, Awaited, CPInv, ProjInv, GitInv, vars
    <2>2. /\ journal = "whole" /\ plan.resulting = call.oid /\ Whole(plan.next)
      <3>1. CASE pc = "updating"
        BY <3>1 DEF CPInv, ProjInv, CallInv, PlanInv, Undertaken, IInv, ProtocolInv,
           JournalInv, AppliedInv, Whole
      <3>2. CASE pc = "advancing"
        BY <3>2 DEF CPInv, ProjInv, PlanInv, MustAdvance
      <3> QED
        BY <2>1, <3>1, <3>2
    <2>3. wt = plan.next
      BY <2>2, WholeFolder
    <2> QED
      BY <2>1, <2>2, <2>3 DEF TreeInv
  <1> QED
    BY <1>1, <1>2, <1>3, <1>4, StepKinds

LEMMA SeenStep ==
  ASSUME MoveInv, CPNext, ~late, ~late'
  PROVE  SeenInv'
  <1> USE DEF MoveInv, MainInv, CPInv, ProjInv
  <1>1. CASE ReadMainRef
    BY <1>1 DEF ReadMainRef, SeenInv, Working, Ends
  <1>2. CASE RecoverWorktree \/ RecoveryLoopStep \/ RecoveryEnds \/ RecoverProjectEnds \/ Inspect
             \/ ApplyStep \/ ApplyFailed \/ UndoStep \/ UndoEnds \/ CommitTransaction \/ ProcessDies
    <2>1. /\ main' = main
          /\ \/ pc' = "idle"
             \/ Working /\ Working' /\ seen' = seen
      BY <1>2 DEF RecoverWorktree, RecoveryLoopStep, RecoveryEnds, RecoverProjectEnds, Inspect,
         ApplyStep, ApplyFailed, UndoStep, UndoEnds, CommitTransaction, ProcessDies,
         Ends, Goes, Stays, Working, InRecovery
    <2> QED
      BY <2>1 DEF SeenInv, Working
  <1>3. CASE Advance
    BY <1>3 DEF Advance, InRecovery, Goes, SeenInv, Working
  <1>4. CASE AdvanceEnds \/ UpdateEnds
    <2>1. /\ pc \in {"advancing", "updating"} /\ main' = main
          /\ \/ UpdateSucceeds /\ seen' = call.oid /\ pc' = "finalizing" /\ call' = call
             \/ UpdateSucceeds /\ Goes("committing")
             \/ UpdateFails /\ (Ends("failed") \/ Goes("undoing"))
      BY <1>4 DEF AdvanceEnds, UpdateEnds
    <2>2. UpdateSucceeds => main = call.oid
      BY <2>1, UpdateReturned DEF GitInv
    <2>3. UpdateFails => main = seen
      BY <2>1, UpdateReturned DEF SeenInv
    <2> QED
      BY <2>1, <2>2, <2>3 DEF Goes, Ends, SeenInv, Working
  <1>5. CASE StartUpdate
    <2>1. pc = "transaction" /\ main = seen /\ main' = main /\ phase = "applied"
      BY <1>5 DEF StartUpdate, SeenInv, Working
    <2>2. plan.mode = "already_current" => seen = call.oid
      BY <2>1 DEF PlanInv, Undertaken, IInv, ProtocolInv, JournalInv
    <2> QED
      BY <1>5, <2>1, <2>2 DEF StartUpdate, Goes, SeenInv, Working
  <1>6. CASE GitUpdates \/ GitErrs \/ GitReaped
    <2>1. UNCHANGED <<pc, call, seen>>
      BY <1>6 DEF GitUpdates, GitErrs, GitReaped, Stays
    <2>2. \/ main' = main /\ (git.state = "updated" => ~Awaited)
          \/ Awaited /\ git'.state = "updated"
      BY <1>6 DEF GitUpdates, GitErrs, GitReaped, CPTypeOK
    <2> QED
      BY <2>1, <2>2 DEF SeenInv, Working, Awaited, GitInv
  <1>7. CASE Request
    <2>1. UNCHANGED <<main, git>> /\ (UNCHANGED <<pc, call, seen>> \/ pc' = "reading")
      BY <1>7 DEF Request, CallProject, CallRecover, Select, Stays
    <2> QED
      BY <2>1 DEF SeenInv, Working
  <1> QED
    BY <1>1, <1>2, <1>3, <1>4, <1>5, <1>6, <1>7 DEF CPNext, Program

LEMMA LateStays ==
  ASSUME CPInv, [CPNext]_allVars
  PROVE  late' \in BOOLEAN /\ (late => late')
  <1>1. CASE CPNext
    BY <1>1, UpdateReturned DEF CPInv, ProjInv, CPTypeOK, CPNext, Program, ReadMainRef,
       RecoverWorktree, RecoveryLoopStep, RecoveryEnds, Advance, AdvanceEnds,
       RecoverProjectEnds, Inspect, ApplyStep, ApplyFailed, StartUpdate, UpdateEnds,
       CommitTransaction, UndoStep, UndoEnds, GitUpdates, GitErrs, GitReaped, Request,
       CallProject, CallRecover, Select, ProcessDies
  <1>2. CASE UNCHANGED allVars
    BY <1>2 DEF CPInv, ProjInv, CPTypeOK, allVars
  <1> QED
    BY <1>1, <1>2

LEMMA MoveInvInit == CPInit => MoveInv
  <1> SUFFICES ASSUME CPInit PROVE MoveInv
    OBVIOUS
  <1>1. CPInv
    BY CPInvInit
  <1>2. FolderInv /\ TreeInv /\ SeenInv
    BY DEF CPInit, Init, FolderInv, TreeInv, SeenInv, Working
  <1> QED
    BY <1>1, <1>2 DEF MoveInv, MainInv

LEMMA MoveInvStep == MoveInv /\ [CPNext]_allVars => MoveInv'
  <1> SUFFICES ASSUME MoveInv, [CPNext]_allVars PROVE MoveInv'
    OBVIOUS
  <1>1. CPInv' /\ (late => late') /\ late' \in BOOLEAN
    BY CPInvStep, LateStays DEF MoveInv
  <1>2. CASE CPNext
    BY <1>1, <1>2, FolderStep, TreeStep, SeenStep DEF MoveInv, MainInv
  <1>3. CASE UNCHANGED allVars
    BY <1>1, <1>3 DEF allVars, MoveInv, MainInv, FolderInv, TreeInv, SeenInv, Working, Ops, Changed
  <1> QED
    BY <1>2, <1>3

-----------------------------------------------------------------------------
(* At every step the folder is at an end of the move or the journal says    *)
(* how far it is from one, and, until an update of main has outlived its    *)
(* caller, main names the end, and every call knows main.                   *)
THEOREM MoveInvCorrect == CPSpec => []MoveInv
  <1> QED
    BY MoveInvInit, MoveInvStep, PTL DEF CPSpec

(* Between calls the folder of a project without a journal is exactly the   *)
(* tree of the commit main points to.                                       *)
THEOREM AgreementCorrect == CPSpec => []Agreement
  <1>1. MoveInv => Agreement
    BY DEF MoveInv, MainInv, TreeInv, Agreement
  <1> QED
    BY <1>1, MoveInvCorrect, PTL

(* A journal on disk names main as its old or as its new commit, and as the *)
(* new one once the update is known: its recovery always knows what to do.  *)
THEOREM JournalFollowsMainCorrect == CPSpec => []JournalFollowsMain
  <1>1. MoveInv => JournalFollowsMain
    <2>1. CPInv /\ journal = "whole" => plan.mode \in Mode
      BY DEF CPInv, IInv, TypeOK, Plan
    <2> QED
      BY <2>1 DEF MoveInv, MainInv, TreeInv, JournalFollowsMain, CPInv, ProjInv, AdvancedInv,
         Casing, NeverExpected, Mode, IInv, ProtocolInv, JournalInv
  <1> QED
    BY <1>1, MoveInvCorrect, PTL

(* A projection that reports success has moved main to its candidate and    *)
(* left the candidate's files in the folder.                                *)
THEOREM SuccessIsRealCorrect == CPSpec => SuccessIsReal
  <1>1. MoveInv /\ [CPNext]_allVars =>
          [pc # "idle" /\ outcome' = "ok" /\ pc' = "idle" /\ call.kind = "project" /\ ~late
             => /\ main = call.oid
                /\ plan.next = TreeOf[call.oid]
                /\ \A p \in Ops : Holds(plan.next, p)]_allVars
    <2> SUFFICES ASSUME MoveInv, CPNext, pc # "idle", outcome' = "ok", pc' = "idle",
                        call.kind = "project", ~late
                 PROVE  /\ main = call.oid
                        /\ plan.next = TreeOf[call.oid]
                        /\ \A p \in Ops : Holds(plan.next, p)
      OBVIOUS
    <2>1. CommitTransaction
      BY DEF CPNext, Program, ReadMainRef, RecoverWorktree, RecoveryLoopStep, RecoveryEnds,
         Advance, AdvanceEnds, RecoverProjectEnds, Inspect, ApplyStep, ApplyFailed,
         StartUpdate, UpdateEnds, UndoStep, UndoEnds, GitUpdates, GitErrs, GitReaped,
         Request, CallProject, CallRecover, Select, ProcessDies, Goes, Ends, Stays, InRecovery
    <2>2. pc = "committing" /\ phase = "applied"
      BY <2>1 DEF CommitTransaction, Commit
    <2>3. main = call.oid
      BY <2>2 DEF MoveInv, MainInv, SeenInv
    <2>4. \A p \in Ops : Holds(plan.next, p)
      BY <2>2 DEF MoveInv, CPInv, IInv, ProtocolInv, AppliedInv
    <2>5. plan.next = TreeOf[call.oid]
      BY <2>2 DEF MoveInv, CPInv, ProjInv, PlanInv, Undertaken, IInv, ProtocolInv, JournalInv
    <2> QED
      BY <2>3, <2>4, <2>5
  <1> QED
    BY <1>1, MoveInvCorrect, PTL DEF CPSpec, SuccessIsReal

-----------------------------------------------------------------------------
(* The refinement                                                           *)

(* The initial state maps to one. *)
LEMMA AtomicInit == CPInit => Atomic!Init
  <1> SUFFICES ASSUME CPInit PROVE Atomic!Init
    OBVIOUS
  <1>1. journal # "whole" /\ late = FALSE /\ main = NoOid /\ wt = TreeOf[main]
        /\ plan.expected = NoOid /\ plan.resulting = NoOid
    BY DEF CPInit, Init
  <1>2. FolderShows = {TreeOf[main]}
    BY <1>1 DEF FolderShows
  <1> QED
    BY <1>1, <1>2 DEF Atomic!Init, Atomic!Moves, Ref

(* Every step maps to a step of the atomic move, or to none. *)
LEMMA AtomicStep ==
  ASSUME MoveInv, MoveInv', [CPNext]_allVars
  PROVE  [Atomic!Next]_(Atomic!vars)
  <1> USE DEF MoveInv
  <1>1. late \in BOOLEAN /\ late' \in BOOLEAN /\ (late => late')
    BY LateStays DEF CPInv, ProjInv, CPTypeOK
  <1>2. CASE UNCHANGED allVars
    BY <1>2 DEF allVars, Atomic!vars, FolderShows
  <1>3. CASE late' = TRUE
    <2>1. main' \in Ref /\ plan'.expected \in Ref /\ plan'.resulting \in Ref
      BY DEF CPInv, ProjInv, CPTypeOK, IInv, TypeOK, Plan, Ref
    <2>2. FolderShows' \subseteq Tree
      <3>1. TreeOf[plan'.expected] \in Tree /\ TreeOf[plan'.resulting] \in Tree
        BY <2>1, ProjectionAssumption DEF Ref
      <3> QED
        BY <3>1 DEF FolderShows, FolderInv
    <2> QED
      BY <1>3, <2>1, <2>2 DEF Atomic!Next, Atomic!Lose, Atomic!Moves
  <1>4. CASE CPNext /\ ~late' /\ Quiet
    <2>1. UNCHANGED <<main, wt, plan>> /\ late' = late /\ TreeInv
          /\ (journal' = "whole" => journal = "whole")
      BY <1>1, <1>4 DEF Quiet, MainInv
    <2>2. CASE journal = "whole" /\ journal' # "whole"
      <3>1. wt = TreeOf[main] /\ main \in {plan.expected, plan.resulting}
        BY <1>1, <1>4, <2>1, <2>2, Decided DEF TreeInv
      <3>2. FolderShows = {TreeOf[main]} /\ FolderShows' = {TreeOf[main]}
        BY <2>1, <2>2, <3>1 DEF FolderShows
      <3> QED
        BY <2>1, <2>2, <3>2 DEF Atomic!Next, Atomic!Decide
    <2>3. CASE ~(journal = "whole" /\ journal' # "whole")
      <3>1. FolderShows' = FolderShows /\ (journal' = "whole") = (journal = "whole")
        BY <2>1, <2>3 DEF FolderShows
      <3> QED
        BY <2>1, <3>1 DEF Atomic!vars
    <2> QED
      BY <2>2, <2>3
  <1>5. CASE CPNext /\ ~late' /\ Begins
    <2>1. /\ journal # "whole" /\ journal' = "whole" /\ UNCHANGED <<wt, main, seen, call>>
          /\ plan'.expected = main /\ plan'.resulting = call.oid /\ call.oid \in Ref
          /\ wt = TreeOf[main] /\ late' = late
      BY <1>1, <1>5, BeginFacts DEF MainInv, TreeInv, SeenInv, Working, CPInv, ProjInv,
         CallInv, Ref
    <2>2. FolderShows = {wt} /\ FolderShows' = {wt}
      BY <2>1 DEF FolderShows
    <2> QED
      BY <1>5, <2>1, <2>2, BeginFacts DEF Atomic!Next, Atomic!Begin, Begins
  <1>6. CASE CPNext /\ ~late' /\ FileMoves
    <2>1. PICK p \in Path : FileStep(p)
      BY <1>6 DEF FileMoves
    <2>2. /\ UNCHANGED <<main, plan, journal, late>> /\ journal = "whole"
          /\ phase = "recNext" /\ wt = plan.next => wt' = wt
      BY <1>1, <1>6, <2>1, FileWrites DEF FileMoves
    <2>3. CASE main = plan.expected
      <3>1. FolderShows' \in {{}, {TreeOf[plan.expected]}, {TreeOf[plan.resulting]}}
        BY <2>2 DEF FolderShows
      <3> QED
        BY <2>2, <2>3, <3>1 DEF Atomic!Next, Atomic!FilesMove
    <2>4. CASE main # plan.expected
      <3>1. wt = plan.next /\ wt' = plan.next
        BY <1>1, <1>6, <2>2, <2>4 DEF MainInv, TreeInv
      <3> QED
        BY <2>2, <3>1 DEF Atomic!vars, FolderShows
    <2> QED
      BY <2>3, <2>4
  <1>7. CASE CPNext /\ ~late' /\ RefIsMoved
    <2>1. /\ pc \in {"updating", "advancing"} /\ UNCHANGED <<wt, journal, plan, late>>
          /\ main = seen /\ main' = call.oid
      <3>1. Awaited
        BY <1>7 DEF RefIsMoved, GitUpdates
      <3> QED
        BY <1>1, <1>7, <3>1 DEF RefIsMoved, Awaited, CPInv, ProjInv, GitInv, vars
    <2>2. /\ journal = "whole" /\ plan.resulting = call.oid /\ plan.expected = seen
      <3>1. CASE pc = "updating"
        BY <3>1 DEF CPInv, ProjInv, CallInv, PlanInv, Undertaken, IInv, ProtocolInv, JournalInv
      <3>2. CASE pc = "advancing"
        BY <3>2 DEF CPInv, ProjInv, PlanInv, MustAdvance
      <3> QED
        BY <2>1, <3>1, <3>2
    <2>3. wt = TreeOf[plan.resulting]
      <3>1. Whole(plan.next)
        BY <2>1 DEF CPInv, ProjInv, CallInv, PlanInv, MustAdvance, IInv, ProtocolInv,
           AppliedInv, Whole
      <3> QED
        BY <2>2, <3>1, WholeFolder DEF CPInv, ProjInv, PlanInv
    <2>4. FolderShows = {TreeOf[plan.resulting]} /\ FolderShows' = FolderShows
      BY <2>1, <2>2, <2>3 DEF FolderShows
    <2> QED
      BY <2>1, <2>2, <2>4 DEF Atomic!Next, Atomic!RefMoves
  <1> QED
    BY <1>1, <1>2, <1>3, <1>4, <1>5, <1>6, <1>7, StepKinds

(* Whoever looks at main and at the folder sees one atomic move: the calls  *)
(* implement AtomicProjection.                                              *)
THEOREM AtomicMoveCorrect == CPSpec => AtomicMove
  <1>1. MoveInv /\ MoveInv' /\ [CPNext]_allVars => [Atomic!Next]_(Atomic!vars)
    BY AtomicStep
  <1> QED
    BY <1>1, AtomicInit, MoveInvCorrect, PTL DEF CPSpec, AtomicMove, Atomic!Spec
=============================================================================
