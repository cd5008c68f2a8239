---------------------- MODULE CurrentProjection_proofs ----------------------
(* Proofs about the projection of a candidate: its calls keep to the        *)
(* protocol of the file transaction, so what is proved of the transaction   *)
(* holds of them, and with main and the folder they implement one atomic    *)
(* move; for any number of commits, paths, contents, crashes and failures.  *)
EXTENDS CurrentProjection, WorktreeTransaction_proofs

Undertaken == {"transaction", "updating", "committing", "undoing"}

(* What the transaction does, by where the call stands.                     *)
CallInv ==
    /\ pc # "idle" => call.kind # "none" /\ call.oid \in Oid
    /\ pc \in Undertaken => call.kind = "project"
    /\ pc \in {"idle", "reading", "recovering", "advancing", "finalizing", "inspecting"}
          => phase = "idle"
    /\ InRecovery => phase \in {"idle", "recBase", "recNext"}
    /\ pc = "transaction" =>
          phase \in {"idle", "prepared", "applying", "applied", "rolling", "failed"}
    /\ pc \in {"updating", "committing"} => phase = "applied"
    /\ pc = "undoing" => phase \in {"idle", "rolling", "failed"}

(* The recovery stopped where main has to follow the folder.                *)
MustAdvance == pc = "advancing" \/ (InRecovery /\ phase = "idle" /\ result = "advance")

(* What the journal says of the call.                                       *)
PlanInv ==
    /\ journal = "whole" =>
          plan.resulting \in Oid /\ plan.next = TreeOf[plan.resulting] /\ plan.base \in Tree
    /\ pc \in Undertaken /\ phase # "idle" =>
          plan.resulting = call.oid /\ plan.expected = seen
    /\ phase = "recNext" =>
          /\ plan.resulting = call.oid
          /\ IF retain
             THEN plan.expected = seen /\ plan.mode = "cas_update" /\ "advanced" \notin hist
             ELSE seen = plan.resulting
    /\ phase = "recBase" => plan.expected = seen
    /\ MustAdvance =>
          /\ journal = "whole" /\ plan.mode = "cas_update" /\ "advanced" \notin hist
          /\ plan.resulting = call.oid /\ plan.expected = seen
          /\ Whole(plan.next)
    /\ pc \in {"finalizing", "finalLoop"} /\ journal = "whole" =>
          seen = call.oid /\ plan.resulting = call.oid

(* The update-ref child: who started it, and what it has done.              *)
GitInv ==
    /\ git.state = "updated" => main = git.new
    /\ pc \in {"updating", "advancing"} =>
          git.state # "none" /\ ~orphan /\ git.new = call.oid /\ git.old = seen
    /\ pc \in {"finalizing", "finalLoop"} => git.state = "none" /\ main = seen
    /\ git.state = "running" /\ pc \in {"recovering", "recoverLoop", "inspecting", "transaction"}
          => main = seen

(* While the journal waits for main, or for its own removal, no child of an *)
(* earlier process takes main back.                                         *)
Casing == journal = "whole" /\ plan.mode = "cas_update"

NeverExpected ==
    /\ main # plan.expected
    /\ ~(git.state = "running" /\ git.old = main /\ git.new = plan.expected)

AdvancedInv ==
    /\ pc \in {"transaction", "updating", "undoing"} => "advanced" \notin hist
    /\ Casing /\ git.state = "running" /\ git.old = main /\ main = plan.resulting
          => git.new # plan.expected
    /\ Casing /\ "advanced" \in hist => NeverExpected
    /\ Casing /\ pc = "recovering" /\ seen = plan.resulting => NeverExpected
    /\ Casing /\ pc \in {"recovering", "finalizing"} /\ "advanced" \in hist
          => seen # plan.expected

ProjInv == CPTypeOK /\ CallInv /\ PlanInv /\ GitInv /\ AdvancedInv
CPInv == IInv /\ ProjInv

-----------------------------------------------------------------------------
(* Every step is one of the transaction's, or none of them.                 *)

LEMMA RecoverProtocol ==
  ASSUME CPInv, pc \in {"recovering", "finalizing"},
         RecoverRefuses(seen, call.oid) \/ RecoverStarts(seen, call.oid)
  PROVE  Next
  <1>1. /\ seen \in Oid \cup {NoOid} /\ call.oid \in Oid /\ plan.mode \in Mode
        /\ plan.resulting \in Oid \cup {NoOid}
    BY DEF CPInv, ProjInv, CPTypeOK, CallInv, Ref, IInv, TypeOK, Plan
  <1>2. CASE "advanced" \in hist => seen = plan.resulting
    BY <1>1, <1>2 DEF Next, Call
  <1>3. CASE "advanced" \in hist /\ seen # plan.resulting
    <2>1. CASE journal # "whole"
      <3>1. RecoverRefuses(plan.resulting, call.oid)
        BY <2>1 DEF RecoverRefuses, RecoverStarts
      <3> QED
        BY <1>1, <3>1 DEF Next, Call
    <2>2. CASE journal = "whole"
      <3>1. ~Forward(seen, call.oid) /\ ~Backward(seen, call.oid)
        BY <1>1, <1>3, <2>2 DEF Forward, Backward, CPInv, ProjInv, AdvancedInv, Casing, Mode
      <3>2. plan.resulting # NoOid
        BY <2>2, WorktreeAssumption DEF CPInv, ProjInv, PlanInv
      <3>3. ~Forward(plan.resulting, NoOid) /\ ~Backward(plan.resulting, NoOid)
        BY <2>2, <3>2 DEF Forward, Backward, CPInv, IInv, ProtocolInv, JournalInv
      <3>4. RecoverRefuses(plan.resulting, NoOid)
        BY <2>2, <3>1, <3>3 DEF RecoverRefuses, RecoverStarts
      <3> QED
        BY <1>1, <3>4 DEF Next, Call
    <2> QED
      BY <2>1, <2>2
  <1> QED
    BY <1>2, <1>3

LEMMA Protocol ==
  ASSUME CPInv, CPNext
  PROVE  [Next]_vars
  <1> USE DEF wtVars
  <1>1. CASE ReadMainRef \/ RecoveryEnds \/ Advance \/ AdvanceEnds \/ RecoverProjectEnds
    BY <1>1 DEF ReadMainRef, RecoveryEnds, Advance, AdvanceEnds, RecoverProjectEnds
  <1>2. CASE RecoverWorktree
    BY <1>2, RecoverProtocol DEF RecoverWorktree, Next, Call
  <1>3. CASE RecoveryLoopStep
    BY <1>3 DEF RecoveryLoopStep, Next, LoopStep
  <1>4. CASE Inspect
    <2>1. CASE Admitted
      <3>1. wt \in Tree /\ TreeOf[call.oid] \in Tree /\ seen \in Oid \cup {NoOid} /\ call.oid \in Oid
        BY <1>4, <2>1, ProjectionAssumption
           DEF Inspect, Admitted, CPInv, ProjInv, CPTypeOK, CallInv, Calls, Ref
      <3>2. {"already_current", "cas_update"} = Mode
        BY DEF Mode
      <3> QED
        BY <1>4, <2>1, <3>1, <3>2 DEF Inspect, Next, Call
    <2>2. CASE ~Admitted
      BY <1>4, <2>2 DEF Inspect
    <2> QED
      BY <2>1, <2>2
  <1>5. CASE ApplyStep
    BY <1>5 DEF ApplyStep, Next, LoopStep, Call
  <1>6. CASE ApplyFailed
    BY <1>6 DEF ApplyFailed, Next, Call, CPInv, ProjInv, AdvancedInv
  <1>7. CASE StartUpdate
    BY <1>7 DEF StartUpdate, Next, Call
  <1>8. CASE UpdateEnds
    BY <1>8 DEF UpdateEnds, Next, Call, CPInv, ProjInv, AdvancedInv
  <1>9. CASE CommitTransaction \/ UndoEnds
    BY <1>9 DEF CommitTransaction, UndoEnds, Next, Call
  <1>10. CASE UndoStep
    BY <1>10 DEF UndoStep, Next, LoopStep
  <1>11. CASE GitUpdates \/ GitErrs \/ GitReaped \/ Request
    BY <1>11 DEF GitUpdates, GitErrs, GitReaped, Request, CallProject, CallRecover, Select
  <1>12. CASE ProcessDies
    BY <1>12 DEF ProcessDies, Next
  <1> QED
    BY <1>1, <1>2, <1>3, <1>4, <1>5, <1>6, <1>7, <1>8, <1>9, <1>10, <1>11, <1>12
       DEF CPNext, Program

-----------------------------------------------------------------------------

(* What a step does to the call, the bound and the child, and no more.      *)
Points == {"idle", "reading", "recovering", "recoverLoop", "advancing", "finalizing",
           "finalLoop", "inspecting", "transaction", "updating", "committing", "undoing"}

CallMoves ==
    \/ Stays \/ Ends("ok") \/ Ends("failed")
    \/ \E to \in Points : Goes(to)
    \/ \E to \in Points, o \in Ref : pc' = to /\ seen' = o /\ UNCHANGED <<call, outcome>>
    \/ pc' = "reading" /\ call' \in Calls /\ UNCHANGED <<seen, outcome>>

Counts == NoStop \/ \E kind \in {"crash", "file", "git"} : Stop(kind)

ChildTypes ==
    /\ main' \in Ref /\ selected' \in Ref /\ orphan' \in BOOLEAN /\ late' \in BOOLEAN
    /\ git' \in [state : {"none", "running", "updated", "failed"}, new : Ref, old : Ref]

LEMMA TypeOfStep ==
  ASSUME CPTypeOK, CallMoves, Counts, ChildTypes
  PROVE  CPTypeOK'
  <1>1. NoCall \in Calls /\ NoOid \in Ref
    BY DEF NoCall, Calls, Ref
  <1>2. /\ pc' \in Points /\ call' \in Calls /\ seen' \in Ref
        /\ outcome' \in {"none", "ok", "failed"}
    BY <1>1 DEF CPTypeOK, CallMoves, Stays, Ends, Goes, Points
  <1>3. stops' \in 0..MaxStops
    BY ProjectionAssumption DEF CPTypeOK, Counts, NoStop, Stop
  <1> QED
    BY <1>2, <1>3 DEF CPTypeOK, ChildTypes, Points

(* The child's variables, by what a step does with it.                      *)
LEMMA ChildStays ==
  ASSUME CPTypeOK, UNCHANGED <<main, selected, orphan>>, late' \in BOOLEAN,
         git' = git \/ git' = NoGit
  PROVE  ChildTypes
  BY DEF CPTypeOK, ChildTypes, NoGit, Ref

LEMMA StopKind ==
  ASSUME NEW how
  PROVE  StopIn(how) => Counts
  BY DEF StopIn, Counts

LEMMA UpdateReturned ==
  ASSUME CPTypeOK, UpdateSucceeds \/ UpdateFails
  PROVE  /\ git' = git \/ git' = NoGit
         /\ late' \in BOOLEAN /\ Counts
         /\ UpdateSucceeds => git' = NoGit /\ late' = late /\ (git.state = "updated" \/ main = git.new)
         /\ UpdateFails => \/ git.state = "failed" /\ git' = NoGit /\ late' = late
                           \/ git.state # "none" /\ git' = git
                              /\ late' = (late \/ git.state = "updated")
  BY DEF UpdateSucceeds, UpdateFails, CPTypeOK, Counts

LEMMA CPTypeStep ==
  ASSUME CPInv, CPNext
  PROVE  CPTypeOK'
  <1>0. CPTypeOK /\ CallInv
    BY DEF CPInv, ProjInv
  <1>1. CASE ReadMainRef \/ RecoverWorktree \/ RecoveryLoopStep \/ RecoveryEnds
             \/ RecoverProjectEnds \/ Inspect \/ ApplyStep \/ ApplyFailed \/ CommitTransaction
             \/ UndoStep \/ UndoEnds
    <2>1. CallMoves
      <3> USE <1>0 DEF CallMoves, Points
      <3>1. CASE ReadMainRef
        BY <3>1 DEF ReadMainRef, CPTypeOK
      <3>2. CASE RecoverWorktree
        <4>1. \/ Ends("failed") \/ Goes("inspecting")
              \/ Goes(IF pc = "recovering" THEN "recoverLoop" ELSE "finalLoop")
          BY <3>2 DEF RecoverWorktree
        <4> QED
          BY <4>1
      <3>3. CASE RecoveryLoopStep \/ ApplyStep \/ UndoStep
        BY <3>3 DEF RecoveryLoopStep, ApplyStep, UndoStep
      <3>4. CASE RecoveryEnds \/ RecoverProjectEnds \/ CommitTransaction \/ UndoEnds
        BY <3>4 DEF RecoveryEnds, RecoverProjectEnds, CommitTransaction, UndoEnds
      <3>5. CASE Inspect \/ ApplyFailed
        BY <3>5 DEF Inspect, ApplyFailed
      <3> QED
        BY <1>1, <3>1, <3>2, <3>3, <3>4, <3>5
    <2>2. Counts
      <3>1. CASE RecoverWorktree \/ RecoveryLoopStep
        BY <3>1, StopKind DEF RecoverWorktree, RecoveryLoopStep, Counts
      <3>2. CASE Inspect \/ ApplyStep \/ UndoStep
        BY <3>2, StopKind DEF Inspect, ApplyStep, UndoStep, Counts
      <3>3. CASE ReadMainRef \/ RecoveryEnds \/ RecoverProjectEnds \/ ApplyFailed
                 \/ CommitTransaction \/ UndoEnds
        BY <3>3 DEF ReadMainRef, RecoveryEnds, RecoverProjectEnds, ApplyFailed,
           CommitTransaction, UndoEnds, Counts, NoStop
      <3> QED
        BY <1>1, <3>1, <3>2, <3>3
    <2>3. ChildTypes
      <3>1. UNCHANGED <<main, selected, orphan, late, git>>
        BY <1>1 DEF ReadMainRef, RecoverWorktree, RecoveryLoopStep, RecoveryEnds,
           RecoverProjectEnds, Inspect, ApplyStep, ApplyFailed, CommitTransaction, UndoStep,
           UndoEnds
      <3> QED
        BY <1>0, <3>1, ChildStays DEF CPTypeOK
    <2> QED
      BY <1>0, <2>1, <2>2, <2>3, TypeOfStep
  <1>2. CASE Advance \/ StartUpdate
    <2>1. CallMoves /\ Counts
      BY <1>2 DEF Advance, StartUpdate, CallMoves, Points, Counts, NoStop
    <2>2. call.oid \in Ref /\ seen \in Ref
      BY <1>0, <1>2 DEF Advance, StartUpdate, InRecovery, CallInv, CPTypeOK, Ref
    <2>3. ChildTypes
      <3>1. UNCHANGED <<main, selected, late>>
        BY <1>2 DEF Advance, StartUpdate
      <3>2. GitStarts(call.oid, seen) \/ UNCHANGED <<git, orphan>>
        BY <1>2 DEF Advance, StartUpdate
      <3>3. main' \in Ref /\ selected' \in Ref /\ late' \in BOOLEAN
        BY <1>0, <3>1 DEF CPTypeOK
      <3>4. orphan' \in BOOLEAN
        BY <1>0, <3>2 DEF GitStarts, CPTypeOK
      <3>5. git' \in [state : {"none", "running", "updated", "failed"}, new : Ref, old : Ref]
        BY <1>0, <2>2, <3>2 DEF GitStarts, CPTypeOK
      <3> QED
        BY <3>3, <3>4, <3>5 DEF ChildTypes
    <2> QED
      BY <1>0, <2>1, <2>3, TypeOfStep
  <1>3. CASE AdvanceEnds \/ UpdateEnds
    <2>1. UNCHANGED <<main, selected, orphan>> /\ (UpdateSucceeds \/ UpdateFails)
      BY <1>3 DEF AdvanceEnds, UpdateEnds
    <2>2. CallMoves
      BY <1>0, <1>3 DEF AdvanceEnds, UpdateEnds, CallMoves, Points, CallInv, Ref
    <2> QED
      BY <1>0, <2>1, <2>2, UpdateReturned, ChildStays, TypeOfStep
  <1>4. CASE GitUpdates \/ GitErrs \/ GitReaped
    <2>1. CallMoves /\ Counts
      BY <1>4 DEF GitUpdates, GitErrs, GitReaped, CallMoves, Counts, NoStop
    <2>2. UNCHANGED selected /\ orphan' \in BOOLEAN /\ late' \in BOOLEAN /\ main' \in {main, git.new}
      BY <1>0, <1>4 DEF GitUpdates, GitErrs, GitReaped, CPTypeOK
    <2>3. git' \in {NoGit, [git EXCEPT !.state = "updated"], [git EXCEPT !.state = "failed"]}
      BY <1>4 DEF GitUpdates, GitErrs, GitReaped
    <2>4. ChildTypes
      BY <1>0, <2>2, <2>3 DEF ChildTypes, CPTypeOK, NoGit, Ref
    <2> QED
      BY <1>0, <2>1, <2>4, TypeOfStep
  <1>5. CASE Request
    <2>1. NoCall \in Calls /\ [NoCall EXCEPT !.kind = "recover", !.oid = selected] \in Calls
      BY <1>0 DEF NoCall, Calls, Ref, CPTypeOK
    <2>2. Counts
      BY <1>5 DEF Request, CallProject, CallRecover, Select, Counts, NoStop
    <2>3. ChildTypes
      BY <1>0, <1>5 DEF Request, CallProject, CallRecover, Select, ChildTypes, CPTypeOK, Ref
    <2>4. CallMoves
      <3>1. CASE \E c \in Oid, e \in Ref, r \in BOOLEAN : CallProject(c, e, r)
        BY <3>1 DEF CallProject, CallMoves, Calls, Ref
      <3>2. CASE CallRecover
        BY <2>1, <3>2 DEF CallRecover, CallMoves
      <3>3. CASE \E c \in Oid : Select(c)
        BY <3>3 DEF Select, CallMoves
      <3> QED
        BY <1>5, <3>1, <3>2, <3>3 DEF Request
    <2> QED
      BY <1>0, <2>2, <2>3, <2>4, TypeOfStep
  <1>6. CASE ProcessDies
    <2>1. CallMoves /\ Counts
      BY <1>6 DEF ProcessDies, CallMoves, Counts
    <2>2. ChildTypes
      BY <1>0, <1>6 DEF ProcessDies, ChildTypes, CPTypeOK
    <2> QED
      BY <1>0, <2>1, <2>2, TypeOfStep
  <1> QED
    BY <1>1, <1>2, <1>3, <1>4, <1>5, <1>6 DEF CPNext, Program

-----------------------------------------------------------------------------
(* What the transaction's steps leave alone.                                *)

Keeps ==
    /\ plan' = plan
    /\ journal' = "whole" => journal = "whole"
    /\ "advanced" \in hist' <=> "advanced" \in hist

LEMMA DirFacts ==
  ASSUME DirGone \/ DirLeftOver
  PROVE  Keeps
  BY DEF DirGone, DirLeftOver, Keeps

LEMMA FileFacts ==
  ASSUME NEW p \in Path, FileStep(p)
  PROVE  /\ Keeps
         /\ \/ phase \in {"applying", "rolling", "recBase", "recNext"}
               /\ UNCHANGED <<phase, retain, result>>
            \/ phase \in {"recBase", "recNext"} /\ phase' = "idle" /\ result' = "refused"
  <1>1. CASE BackUp(p) \/ Install(p)
    BY <1>1 DEF BackUp, Install, Keeps
  <1>2. CASE RollRemove(p) \/ RollRestore(p) \/ RollSkip(p)
    BY <1>2 DEF RollRemove, RollRestore, RollSkip, Keeps, disk
  <1>3. CASE BaseUnlink(p) \/ BaseRestore(p) \/ BaseSkip(p)
    BY <1>3 DEF BaseUnlink, BaseRestore, BaseSkip, Keeps, disk
  <1>4. CASE NextBackUp(p) \/ NextInstall(p) \/ NextSkip(p)
    BY <1>4 DEF NextBackUp, NextInstall, NextSkip, Keeps, disk
  <1>5. CASE RecoveryRefuses(p)
    BY <1>5 DEF RecoveryRefuses, Keeps, disk
  <1> QED
    BY <1>1, <1>2, <1>3, <1>4, <1>5 DEF FileStep

(* Where a step goes that neither starts nor ends a child, nor advances.    *)
Onward ==
    \/ pc' \in {pc, "idle"} /\ pc \notin {"reading", "advancing", "updating", "committing"}
    \/ pc' = "idle" /\ pc = "committing"
    \/ pc' = "inspecting" /\ pc \in {"recovering", "recoverLoop", "finalizing", "finalLoop"}
    \/ pc' = "undoing" /\ pc = "transaction"

LEMMA KeepsGit ==
  ASSUME CPInv, Keeps, UNCHANGED <<main, git, orphan>>, Onward,
         pc' # "idle" => UNCHANGED <<seen, call>>
  PROVE  GitInv' /\ AdvancedInv'
  <1> USE DEF CPInv, ProjInv, Onward
  <1>1. GitInv'
    BY DEF GitInv
  <1>2. AdvancedInv'
    BY DEF AdvancedInv, Casing, NeverExpected, Keeps
  <1> QED
    BY <1>1, <1>2

LEMMA RecoverWorktreeInv ==
  ASSUME CPInv, RecoverWorktree
  PROVE  CallInv' /\ PlanInv' /\ GitInv' /\ AdvancedInv'
  <1> USE DEF CPInv, ProjInv
  <1>1. /\ pc \in {"recovering", "finalizing"} /\ phase = "idle"
        /\ UNCHANGED <<main, git, orphan>>
    BY DEF RecoverWorktree, CallInv
  <1>2. CASE NothingToRecover \/ DropUnjournaled \/ RecoverRefuses(seen, call.oid)
    <2>1. (Goes("inspecting") \/ Ends("failed")) /\ phase' = phase
      BY <1>1, <1>2 DEF RecoverWorktree, NothingToRecover, DropUnjournaled, RecoverRefuses,
         RecoverStarts, mem
    <2>2. Keeps
      BY <1>2, DirFacts DEF NothingToRecover, DropUnjournaled, RecoverRefuses, disk, Keeps
    <2>3. Onward /\ (pc' # "idle" => UNCHANGED <<seen, call>>)
      BY <1>1, <2>1 DEF Onward, Goes, Ends
    <2>4. CallInv'
      BY <1>1, <2>1 DEF CallInv, Goes, Ends, Undertaken, InRecovery
    <2>5. PlanInv'
      BY <1>1, <2>1, <2>2 DEF PlanInv, Goes, Ends, Undertaken, InRecovery, MustAdvance, Keeps
    <2> QED
      BY <1>1, <2>2, <2>3, <2>4, <2>5, KeepsGit
  <1>3. CASE RecoverStarts(seen, call.oid)
    <2>1. /\ Goes(IF pc = "recovering" THEN "recoverLoop" ELSE "finalLoop")
          /\ journal = "whole" /\ UNCHANGED <<plan, journal>>
          /\ \/ Forward(seen, call.oid) /\ phase' = "recNext"
             \/ Backward(seen, call.oid) /\ phase' = "recBase"
          /\ retain' = (Forward(seen, call.oid) /\ seen # plan.resulting)
          /\ hist' = IF seen = plan.resulting THEN hist \cup {"advanced"} ELSE hist
      BY <1>1, <1>3 DEF RecoverWorktree, NothingToRecover, DropUnjournaled, RecoverRefuses,
         RecoverStarts, disk
    <2>2. CallInv'
      BY <1>1, <2>1 DEF CallInv, Goes, Undertaken, InRecovery
    <2>3. PlanInv'
      BY <1>1, <2>1 DEF PlanInv, Goes, Undertaken, InRecovery, MustAdvance, Forward, Backward,
         AdvancedInv, Casing
    <2>4. GitInv'
      BY <1>1, <2>1 DEF GitInv, Goes
    <2>5. AdvancedInv'
      <3>1. Casing /\ pc = "finalizing" /\ seen = plan.resulting => NeverExpected
        BY DEF GitInv, PlanInv, Casing, NeverExpected, IInv, ProtocolInv, JournalInv
      <3>2. Casing /\ seen = plan.resulting => NeverExpected
        BY <1>1, <3>1 DEF AdvancedInv
      <3> QED
        BY <1>1, <2>1, <3>2 DEF AdvancedInv, Goes, Casing, NeverExpected
    <2> QED
      BY <2>2, <2>3, <2>4, <2>5
  <1> QED
    BY <1>2, <1>3 DEF RecoverWorktree

LEMMA RecoveryInv ==
  ASSUME CPInv, RecoveryLoopStep \/ RecoveryEnds
  PROVE  CallInv' /\ PlanInv' /\ GitInv' /\ AdvancedInv'
  <1> USE DEF CPInv, ProjInv
  <1>1. InRecovery /\ UNCHANGED <<main, git, orphan>> /\ phase \in {"idle", "recBase", "recNext"}
    BY DEF RecoveryLoopStep, RecoveryEnds, CallInv
  <1>2. CASE RecoveryLoopStep
    <2>1. Stays
      BY <1>2 DEF RecoveryLoopStep
    <2>2. /\ Keeps
          /\ \/ phase # "idle" /\ UNCHANGED <<phase, retain>>
             \/ phase # "idle" /\ phase' = "idle" /\
                (result' = "advance" => Recovered /\ retain)
      <3>1. CASE \E p \in Path : FileStep(p)
        BY <3>1, FileFacts
      <3>2. CASE Recovered \/ RecoveryFails
        BY <3>2, DirFacts DEF Recovered, RecoveryFails, Keeps, disk
      <3> QED
        BY <1>2, <3>1, <3>2 DEF RecoveryLoopStep
    <2>3. Onward /\ UNCHANGED <<seen, call, pc>>
      BY <1>1, <2>1 DEF Stays, Onward, InRecovery
    <2>4. CallInv'
      BY <1>1, <2>2, <2>3 DEF CallInv, Undertaken, InRecovery
    <2>5. MustAdvance' => 
             /\ journal' = "whole" /\ plan.mode = "cas_update" /\ "advanced" \notin hist
             /\ plan.resulting = call.oid /\ plan.expected = seen
             /\ Whole(plan.next)'
      <3> SUFFICES ASSUME MustAdvance'
                   PROVE  /\ journal' = "whole" /\ plan.mode = "cas_update" /\ "advanced" \notin hist
                          /\ plan.resulting = call.oid /\ plan.expected = seen
                          /\ Whole(plan.next)'
        OBVIOUS
      <3>1. Recovered /\ retain /\ phase = "recNext"
        BY <1>1, <2>2, <2>3 DEF MustAdvance, InRecovery, IInv, ProtocolInv, RecoveringInv
      <3>2. UNCHANGED <<journal, plan, wt, touched>> /\ todo = {}
        BY <3>1 DEF Recovered
      <3>3. journal = "whole" /\ \A p \in Ops : Holds(plan.next, p)
        BY <3>1, <3>2 DEF IInv, ProtocolInv, RecoveringInv, JournalInv
      <3>4. Whole(plan.next)'
        BY <3>2, <3>3 DEF Whole, Ops, Changed, Holds
      <3>5. "advanced" \notin hist
        BY <3>1 DEF PlanInv
      <3> QED
        BY <3>1, <3>2, <3>3, <3>4, <3>5 DEF PlanInv
    <2>6. PlanInv'
      BY <1>1, <2>2, <2>3, <2>5 DEF PlanInv, Undertaken, InRecovery, Keeps
    <2> QED
      BY <1>1, <2>2, <2>3, <2>4, <2>6, KeepsGit
  <1>3. CASE RecoveryEnds
    <2>1. phase = "idle" /\ UNCHANGED vars /\ (Goes("inspecting") \/ Ends("failed"))
      BY <1>3 DEF RecoveryEnds, wtVars
    <2>2. Keeps /\ phase' = "idle" /\ UNCHANGED <<journal, plan>>
      BY <2>1 DEF Keeps, vars
    <2>3. Onward /\ (pc' # "idle" => UNCHANGED <<seen, call>>)
      BY <1>1, <2>1 DEF Onward, Goes, Ends, InRecovery
    <2>4. CallInv'
      BY <1>1, <2>1, <2>2 DEF CallInv, Goes, Ends, Undertaken, InRecovery
    <2>5. PlanInv'
      BY <1>1, <2>1, <2>2 DEF PlanInv, Goes, Ends, Undertaken, InRecovery, MustAdvance, Keeps
    <2> QED
      BY <1>1, <2>2, <2>3, <2>4, <2>5, KeepsGit
  <1> QED
    BY <1>2, <1>3

LEMMA ReadInv ==
  ASSUME CPInv, ReadMainRef
  PROVE  CallInv' /\ PlanInv' /\ GitInv' /\ AdvancedInv'
  <1> USE DEF CPInv, ProjInv
  <1>1. /\ pc = "reading" /\ phase = "idle" /\ UNCHANGED vars /\ UNCHANGED <<main, git, orphan>>
        /\ \/ Ends("failed")
           \/ seen' = main /\ pc' = "recovering" /\ UNCHANGED call
    BY DEF ReadMainRef, CallInv, wtVars
  <1>2. UNCHANGED <<phase, journal, plan, hist, retain, result>>
    BY <1>1 DEF vars
  <1>3. CallInv' /\ PlanInv' /\ GitInv'
    BY <1>1, <1>2 DEF CallInv, PlanInv, GitInv, Undertaken, InRecovery, MustAdvance, Ends
  <1>4. AdvancedInv'
    <2>1. Casing => plan.expected # plan.resulting
      BY DEF Casing, IInv, ProtocolInv, JournalInv
    <2> QED
      BY <1>1, <1>2, <2>1 DEF AdvancedInv, Casing, NeverExpected, Ends
  <1> QED
    BY <1>3, <1>4

LEMMA AdvanceInv ==
  ASSUME CPInv, Advance \/ AdvanceEnds
  PROVE  CallInv' /\ PlanInv' /\ GitInv' /\ AdvancedInv'
  <1> USE DEF CPInv, ProjInv
  <1>1. /\ UNCHANGED vars /\ UNCHANGED main /\ phase = "idle" /\ MustAdvance
        /\ UNCHANGED <<phase, journal, plan, hist, retain, result, wt, touched>>
    BY DEF Advance, AdvanceEnds, wtVars, vars, CallInv, MustAdvance
  <1>2. /\ Casing /\ "advanced" \notin hist /\ plan.resulting = call.oid /\ plan.expected = seen
        /\ plan.expected # plan.resulting /\ Whole(plan.next)
    BY <1>1 DEF PlanInv, Casing, IInv, ProtocolInv, JournalInv
  <1>3. Whole(plan.next)'
    BY <1>1, <1>2 DEF Whole, Ops, Changed, Holds
  <1>4. CASE Advance
    <2>1. /\ git.state = "none" /\ git' = [state |-> "running", new |-> call.oid, old |-> seen]
          /\ orphan' = FALSE /\ pc' = "advancing" /\ UNCHANGED <<call, seen>> /\ InRecovery
      BY <1>4 DEF Advance, GitStarts, Goes
    <2>2. /\ git'.state = "running" /\ git'.new = call.oid /\ git'.old = seen
      BY <2>1
    <2>3. CallInv'
      BY <1>1, <2>1 DEF CallInv, InRecovery, Undertaken
    <2>4. PlanInv'
      BY <1>1, <1>2, <1>3, <2>1 DEF PlanInv, Casing, MustAdvance, Undertaken
    <2>5. GitInv' /\ AdvancedInv'
      BY <1>1, <1>2, <2>1, <2>2 DEF GitInv, AdvancedInv, Casing, NeverExpected
    <2> QED
      BY <2>3, <2>4, <2>5
  <1>5. CASE AdvanceEnds
    <2>1. pc = "advancing" /\ CPTypeOK /\ orphan' = orphan
      BY <1>5 DEF AdvanceEnds
    <2>2. CASE UpdateSucceeds /\ seen' = call.oid /\ pc' = "finalizing" /\ UNCHANGED call
      <3>1. git' = NoGit /\ (git.state = "updated" \/ main = git.new)
        BY <2>1, <2>2, UpdateReturned
      <3>2. git'.state = "none" /\ main = call.oid
        BY <2>1, <3>1 DEF NoGit, GitInv
      <3>3. CallInv' /\ PlanInv'
        BY <1>1, <1>2, <2>1, <2>2 DEF CallInv, PlanInv, InRecovery, Undertaken, MustAdvance
      <3>4. GitInv' /\ AdvancedInv'
        BY <1>1, <1>2, <2>2, <3>2 DEF GitInv, AdvancedInv, Casing, NeverExpected
      <3> QED
        BY <3>3, <3>4
    <2>3. CASE UpdateFails /\ Ends("failed")
      <3>1. git'.state = "none" \/ git' = git
        BY <2>1, <2>3, UpdateReturned DEF NoGit
      <3>2. CallInv' /\ PlanInv'
        BY <1>1, <2>3 DEF CallInv, PlanInv, InRecovery, Undertaken, MustAdvance, Ends
      <3>3. GitInv' /\ AdvancedInv'
        BY <1>1, <1>2, <2>3, <3>1 DEF GitInv, AdvancedInv, Casing, NeverExpected, Ends
      <3> QED
        BY <3>2, <3>3
    <2> QED
      BY <1>5, <2>2, <2>3 DEF AdvanceEnds
  <1> QED
    BY <1>4, <1>5

LEMMA InspectInv ==
  ASSUME CPInv, Inspect \/ RecoverProjectEnds
  PROVE  CallInv' /\ PlanInv' /\ GitInv' /\ AdvancedInv'
  <1> USE DEF CPInv, ProjInv
  <1>1. pc = "inspecting" /\ phase = "idle" /\ UNCHANGED <<main, git, orphan>>
    BY DEF Inspect, RecoverProjectEnds, CallInv
  <1>2. CASE UNCHANGED vars /\ (Ends("failed") \/ Ends("ok"))
    <2>1. UNCHANGED <<phase, journal, plan, hist, retain, result>>
      BY <1>2 DEF vars
    <2>2. Keeps /\ Onward /\ pc' = "idle"
      BY <1>1, <1>2, <2>1 DEF Keeps, Onward, Ends
    <2>3. CallInv' /\ PlanInv'
      BY <1>1, <2>1, <2>2 DEF CallInv, PlanInv, InRecovery, Undertaken, MustAdvance
    <2> QED
      BY <1>1, <2>2, <2>3, KeepsGit
  <1>3. CASE BeginStops(wt, TreeOf[call.oid]) /\ Ends("failed")
    <2>2. /\ UNCHANGED <<phase, plan, hist, retain>> /\ (journal' = "whole" => journal = "whole")
      BY <1>3 DEF BeginStops, mem
    <2>3. Keeps /\ Onward /\ pc' = "idle"
      BY <1>1, <1>3, <2>2 DEF Keeps, Onward, Ends
    <2>4. CallInv' /\ PlanInv'
      BY <1>1, <2>2, <2>3 DEF CallInv, PlanInv, InRecovery, Undertaken, MustAdvance
    <2> QED
      BY <1>1, <2>3, <2>4, KeepsGit
  <1>4. CASE /\ Admitted /\ Goes("transaction") /\ call.kind = "project"
             /\ Begin(wt, TreeOf[call.oid], seen, call.oid,
                      IF seen = call.oid THEN "already_current" ELSE "cas_update")
    <2>1. /\ plan' = [mode |-> IF seen = call.oid THEN "already_current" ELSE "cas_update",
                      expected |-> seen, resulting |-> call.oid,
                      base |-> wt, next |-> TreeOf[call.oid]]
          /\ hist' = {} /\ phase' = "prepared" /\ journal' = "whole"
          /\ pc' = "transaction" /\ UNCHANGED <<call, seen>>
      BY <1>4 DEF Begin, Goes
    <2>2. /\ plan'.expected = seen /\ plan'.resulting = call.oid /\ plan'.base = wt
          /\ plan'.next = TreeOf[call.oid]
          /\ plan'.mode = "cas_update" => seen # call.oid
      BY <2>1
    <2>3. wt \in Tree /\ call.oid \in Oid
      BY <1>1, <1>4, ProjectionAssumption DEF Admitted, CPTypeOK, CallInv, Calls, Ref
    <2>4. CallInv' /\ PlanInv'
      BY <1>4, <2>1, <2>2, <2>3 DEF CallInv, PlanInv, InRecovery, Undertaken, MustAdvance
    <2>5. GitInv'
      BY <1>1, <2>1 DEF GitInv
    <2>6. AdvancedInv'
      BY <1>1, <2>1, <2>2 DEF AdvancedInv, Casing, NeverExpected, GitInv
    <2> QED
      BY <2>4, <2>5, <2>6
  <1> QED
    BY <1>2, <1>3, <1>4 DEF Inspect, RecoverProjectEnds, wtVars

(* What the undertaken transaction's own steps have in common: they keep    *)
(* the journal's content, and lead to no phase of a recovery.               *)
LEMMA UndertakenInv ==
  ASSUME CPInv, pc \in Undertaken, Keeps, Onward, UNCHANGED <<main, git, orphan>>,
         phase # "idle" \/ phase' = "idle",
         phase' \notin {"recBase", "recNext"},
         \/ pc' = "idle" /\ phase' = "idle"
         \/ /\ UNCHANGED <<seen, call>>
            /\ \/ pc' = "transaction" /\ phase' \in {"idle", "prepared", "applying", "applied", "rolling", "failed"}
               \/ pc' = "undoing" /\ phase' \in {"idle", "rolling", "failed"}
  PROVE  CallInv' /\ PlanInv' /\ GitInv' /\ AdvancedInv'
  <1> USE DEF CPInv, ProjInv
  <1>1. CallInv'
    BY DEF CallInv, Undertaken, InRecovery
  <1>2. PlanInv'
    BY DEF PlanInv, Undertaken, InRecovery, MustAdvance, Keeps
  <1> QED
    BY <1>1, <1>2, KeepsGit

LEMMA TransactionInv ==
  ASSUME CPInv, ApplyStep \/ ApplyFailed \/ CommitTransaction \/ UndoStep \/ UndoEnds
  PROVE  CallInv' /\ PlanInv' /\ GitInv' /\ AdvancedInv'
  <1> USE DEF CPInv, ProjInv
  <1>1. CASE ApplyStep
    <2>1. pc = "transaction" /\ Stays /\ UNCHANGED <<main, git, orphan>>
          /\ phase \notin {"recBase", "recNext"}
      BY <1>1 DEF ApplyStep, CallInv
    <2>2. /\ Keeps /\ phase # "idle"
          /\ phase' \in {"idle", "applying", "applied", "rolling", "failed"}
      <3>1. CASE \E p \in Path : FileStep(p)
        BY <2>1, <3>1, FileFacts
      <3>2. CASE Apply \/ Applied \/ ApplyFails \/ RollbackFails
        BY <3>2 DEF Apply, Applied, ApplyFails, RollbackFails, Keeps, disk
      <3>3. CASE RolledBack
        BY <3>3, DirFacts DEF RolledBack
      <3> QED
        BY <1>1, <3>1, <3>2, <3>3 DEF ApplyStep
    <2> QED
      BY <2>1, <2>2, UndertakenInv DEF Undertaken, Onward, Stays
  <1>2. CASE ApplyFailed
    <2>1. /\ pc = "transaction" /\ UNCHANGED <<main, git, orphan>>
          /\ \/ phase = "idle" /\ UNCHANGED vars /\ Ends("failed")
             \/ phase = "failed" /\ Rollback /\ Goes("undoing")
      BY <1>2 DEF ApplyFailed, wtVars
    <2>2. CASE phase = "idle" /\ UNCHANGED vars /\ Ends("failed")
      BY <2>1, <2>2, UndertakenInv DEF Undertaken, Onward, Ends, Keeps, vars
    <2>3. CASE phase = "failed" /\ Rollback /\ Goes("undoing")
      BY <2>1, <2>3, UndertakenInv DEF Undertaken, Onward, Goes, Keeps, Rollback, disk
    <2> QED
      BY <2>1, <2>2, <2>3
  <1>3. CASE CommitTransaction
    <2>1. Keeps /\ phase = "applied" /\ phase' = "idle"
      BY <1>3, DirFacts DEF CommitTransaction, Commit
    <2> QED
      BY <1>3, <2>1, UndertakenInv DEF CommitTransaction, Undertaken, Onward, Ends
  <1>4. CASE UndoStep
    <2>1. pc = "undoing" /\ Stays /\ UNCHANGED <<main, git, orphan>>
          /\ phase \in {"idle", "rolling", "failed"}
      BY <1>4 DEF UndoStep, CallInv
    <2>2. Keeps /\ phase # "idle" /\ phase' \in {"idle", "rolling", "failed"}
      <3>1. CASE \E p \in Path : FileStep(p)
        BY <2>1, <3>1, FileFacts
      <3>2. CASE RollbackFails
        BY <3>2 DEF RollbackFails, Keeps, disk
      <3>3. CASE RolledBack
        BY <3>3, DirFacts DEF RolledBack
      <3> QED
        BY <1>4, <3>1, <3>2, <3>3 DEF UndoStep
    <2> QED
      BY <2>1, <2>2, UndertakenInv DEF Undertaken, Onward, Stays
  <1>5. CASE UndoEnds
    <2>1. /\ pc = "undoing" /\ Ends("failed") /\ UNCHANGED <<main, git, orphan>>
          /\ Keeps /\ phase' = "idle"
      BY <1>5 DEF UndoEnds, Abandon, wtVars, vars, Keeps, disk
    <2> QED
      BY <2>1, UndertakenInv DEF Undertaken, Onward, Ends
  <1> QED
    BY <1>1, <1>2, <1>3, <1>4, <1>5

LEMMA UpdateInv ==
  ASSUME CPInv, StartUpdate \/ UpdateEnds
  PROVE  CallInv' /\ PlanInv' /\ GitInv' /\ AdvancedInv'
  <1> USE DEF CPInv, ProjInv
  <1>1. /\ pc \in {"transaction", "updating"} /\ phase = "applied" /\ UNCHANGED main
        /\ "advanced" \notin hist /\ journal = "whole"
        /\ plan.resulting = call.oid /\ plan.expected = seen /\ call.kind = "project"
        /\ plan.mode = "cas_update" <=> seen # call.oid
    <2>1. pc \in {"transaction", "updating"} /\ phase = "applied" /\ UNCHANGED main
      BY DEF StartUpdate, UpdateEnds, CallInv
    <2>2. plan.mode \in Mode
      BY DEF IInv, TypeOK, Plan
    <2> QED
      BY <2>1, <2>2 DEF PlanInv, CallInv, AdvancedInv, Undertaken, Mode, IInv, ProtocolInv, JournalInv
  <1>2. CASE MainAdvanced /\ Goes("committing")
    <2>1. /\ UNCHANGED <<plan, journal, phase>> /\ hist' = hist \cup {"advanced"}
          /\ pc' = "committing" /\ UNCHANGED <<call, seen>>
      BY <1>2 DEF MainAdvanced, Goes, disk, mem
    <2>2. \/ plan.mode = "already_current" /\ UNCHANGED <<git, orphan>>
          \/ git' = NoGit /\ main = call.oid
      <3>1. CASE StartUpdate
        BY <1>1, <1>2, <3>1 DEF StartUpdate, Goes
      <3>2. CASE UpdateEnds
        <4>1. UpdateSucceeds /\ pc = "updating"
          BY <1>2, <3>2 DEF UpdateEnds, Goes
        <4> QED
          BY <4>1, UpdateReturned DEF GitInv
      <3> QED
        BY <3>1, <3>2
    <2>3. CallInv' /\ PlanInv'
      BY <1>1, <2>1 DEF CallInv, PlanInv, InRecovery, Undertaken, MustAdvance
    <2>4. GitInv'
      BY <1>1, <2>1, <2>2 DEF GitInv, NoGit
    <2>5. AdvancedInv'
      BY <1>1, <2>1, <2>2 DEF AdvancedInv, Casing, NeverExpected, NoGit
    <2> QED
      BY <2>3, <2>4, <2>5
  <1>3. CASE StartUpdate /\ GitStarts(call.oid, seen) /\ Goes("updating")
    <2>1. /\ git.state = "none" /\ git' = [state |-> "running", new |-> call.oid, old |-> seen]
          /\ orphan' = FALSE /\ pc' = "updating" /\ UNCHANGED <<call, seen>> /\ UNCHANGED vars
      BY <1>3 DEF StartUpdate, GitStarts, Goes, wtVars
    <2>2. git'.state = "running" /\ git'.new = call.oid /\ git'.old = seen
      BY <2>1
    <2>3. UNCHANGED <<plan, journal, phase, hist, retain, result>>
      BY <2>1 DEF vars
    <2>4. CallInv' /\ PlanInv'
      BY <1>1, <2>1, <2>3 DEF CallInv, PlanInv, InRecovery, Undertaken, MustAdvance
    <2>5. GitInv'
      BY <1>1, <2>1, <2>2 DEF GitInv
    <2>6. AdvancedInv'
      BY <1>1, <2>1, <2>2, <2>3 DEF AdvancedInv, Casing, NeverExpected
    <2> QED
      BY <2>4, <2>5, <2>6
  <1>4. CASE UpdateEnds /\ UpdateFails /\ Rollback /\ Goes("undoing")
    <2>1. /\ UNCHANGED <<plan, journal, hist, retain>> /\ phase' = "rolling"
          /\ pc' = "undoing" /\ UNCHANGED <<call, seen, orphan>>
      BY <1>1, <1>4 DEF UpdateEnds, Rollback, Goes, disk
    <2>2. git'.state = "none" \/ git' = git
      BY <1>4, UpdateReturned DEF NoGit
    <2>3. CallInv' /\ PlanInv'
      BY <1>1, <2>1 DEF CallInv, PlanInv, InRecovery, Undertaken, MustAdvance
    <2>4. GitInv' /\ AdvancedInv'
      BY <1>1, <2>1, <2>2 DEF GitInv, AdvancedInv, Casing, NeverExpected
    <2> QED
      BY <2>3, <2>4
  <1> QED
    BY <1>2, <1>3, <1>4 DEF StartUpdate, UpdateEnds

LEMMA ChildInv ==
  ASSUME CPInv, GitUpdates \/ GitErrs \/ GitReaped
  PROVE  CallInv' /\ PlanInv' /\ GitInv' /\ AdvancedInv'
  <1> USE DEF CPInv, ProjInv
  <1>1. /\ UNCHANGED <<pc, call, seen>> /\ UNCHANGED vars
        /\ UNCHANGED <<plan, journal, phase, hist, retain, result, wt, touched>>
    BY DEF GitUpdates, GitErrs, GitReaped, Stays, wtVars, vars
  <1>2. Whole(plan.next)' <=> Whole(plan.next)
    BY <1>1 DEF Whole, Ops, Changed, Holds
  <1>3. CallInv' /\ PlanInv'
    BY <1>1, <1>2 DEF CallInv, PlanInv, InRecovery, Undertaken, MustAdvance
  <1>4. \/ /\ git.state = "running" /\ main = git.old /\ main' = git.new
           /\ git'.state = "updated" /\ git'.new = git.new /\ git'.old = git.old
           /\ orphan' = orphan
        \/ /\ git.state = "running" /\ main' = main /\ orphan' = orphan
           /\ git'.state = "failed" /\ git'.new = git.new /\ git'.old = git.old
        \/ main' = main /\ git'.state = "none" /\ ~Awaited
    BY DEF GitUpdates, GitErrs, GitReaped, CPTypeOK, NoGit
  <1>5. GitInv'
    BY <1>1, <1>4 DEF GitInv, Awaited
  <1>6. AdvancedInv'
    BY <1>1, <1>4 DEF AdvancedInv, Casing, NeverExpected
  <1> QED
    BY <1>3, <1>5, <1>6

LEMMA OutsideInv ==
  ASSUME CPInv, Request \/ ProcessDies
  PROVE  CallInv' /\ PlanInv' /\ GitInv' /\ AdvancedInv'
  <1> USE DEF CPInv, ProjInv
  <1>1. CASE Request
    <2>1. /\ UNCHANGED vars /\ UNCHANGED <<main, git, orphan, seen>>
          /\ UNCHANGED <<plan, journal, phase, hist, retain, result, wt, touched>>
      BY <1>1 DEF Request, CallProject, CallRecover, Select, Stays, wtVars, vars
    <2>2. \/ UNCHANGED <<pc, call>>
          \/ pc = "idle" /\ pc' = "reading" /\ call'.kind # "none" /\ call'.oid \in Oid
      <3>1. CASE \E c \in Oid, e \in Ref, r \in BOOLEAN : CallProject(c, e, r)
        BY <3>1 DEF CallProject
      <3>2. CASE CallRecover
        BY <3>2 DEF CallRecover, NoCall, CPTypeOK, Ref
      <3>3. CASE \E c \in Oid : Select(c)
        BY <3>3 DEF Select, Stays
      <3> QED
        BY <1>1, <3>1, <3>2, <3>3 DEF Request
    <2>3. Whole(plan.next)' <=> Whole(plan.next)
      BY <2>1 DEF Whole, Ops, Changed, Holds
    <2>4. CallInv' /\ PlanInv'
      BY <2>1, <2>2, <2>3 DEF CallInv, PlanInv, InRecovery, Undertaken, MustAdvance
    <2>5. GitInv' /\ AdvancedInv'
      BY <2>1, <2>2 DEF GitInv, AdvancedInv, Casing, NeverExpected
    <2> QED
      BY <2>4, <2>5
  <1>2. CASE ProcessDies
    <2>1. /\ pc' = "idle" /\ phase' = "idle" /\ UNCHANGED <<main, git>>
          /\ UNCHANGED <<plan, journal, hist>>
      BY <1>2 DEF ProcessDies, Ends, Crash, disk, wtVars, vars
    <2>2. CallInv' /\ PlanInv'
      BY <2>1 DEF CallInv, PlanInv, InRecovery, Undertaken, MustAdvance
    <2>3. GitInv' /\ AdvancedInv'
      BY <2>1 DEF GitInv, AdvancedInv, Casing, NeverExpected
    <2> QED
      BY <2>2, <2>3
  <1> QED
    BY <1>1, <1>2

LEMMA CPInvInit == CPInit => CPInv
  <1> SUFFICES ASSUME CPInit PROVE CPInv
    OBVIOUS
  <1>1. IInv
    BY InvInit DEF CPInit
  <1>2. CPTypeOK
    <2>1. 0 \in 0..MaxStops
      BY ProjectionAssumption
    <2>2. NoOid \in Ref
      BY DEF Ref
    <2>3. git \in [state : {"none", "running", "updated", "failed"}, new : Ref, old : Ref]
      BY <2>2 DEF CPInit, NoGit
    <2>4. call \in Calls
      BY <2>2 DEF CPInit, NoCall, Calls
    <2> QED
      BY <2>1, <2>2, <2>3, <2>4 DEF CPInit, CPTypeOK
  <1>3. CallInv /\ PlanInv /\ GitInv /\ AdvancedInv
    BY DEF CPInit, Init, CallInv, PlanInv, GitInv, AdvancedInv, Casing, InRecovery,
       Undertaken, MustAdvance, NoGit
  <1> QED
    BY <1>1, <1>2, <1>3 DEF CPInv, ProjInv

LEMMA CPInvStep == CPInv /\ [CPNext]_allVars => CPInv' /\ [Next]_vars
  <1> SUFFICES ASSUME CPInv, [CPNext]_allVars PROVE CPInv' /\ [Next]_vars
    OBVIOUS
  <1>1. CASE CPNext
    <2>1. [Next]_vars
      BY <1>1, Protocol
    <2>2. IInv'
      BY <2>1, InvStep DEF CPInv
    <2>3. CPTypeOK'
      BY <1>1, CPTypeStep
    <2>4. CallInv' /\ PlanInv' /\ GitInv' /\ AdvancedInv'
      BY <1>1, ReadInv, RecoverWorktreeInv, RecoveryInv, AdvanceInv, InspectInv,
         TransactionInv, UpdateInv, ChildInv, OutsideInv DEF CPNext, Program
    <2> QED
      BY <2>1, <2>2, <2>3, <2>4 DEF CPInv, ProjInv
  <1>2. CASE UNCHANGED allVars
    <2>1. UNCHANGED vars
      BY <1>2 DEF allVars, vars
    <2>2. IInv'
      BY <2>1, InvStep DEF CPInv
    <2>3. Whole(plan.next)' <=> Whole(plan.next)
      BY <1>2 DEF allVars, Whole, Ops, Changed, Holds
    <2>4. CPTypeOK' /\ CallInv'
      BY <1>2 DEF CPInv, ProjInv, CPTypeOK, CallInv, InRecovery, Undertaken, allVars
    <2>5. PlanInv'
      BY <1>2, <2>3 DEF CPInv, ProjInv, PlanInv, InRecovery, Undertaken, MustAdvance, allVars
    <2>6. GitInv' /\ AdvancedInv'
      BY <1>2 DEF CPInv, ProjInv, GitInv, AdvancedInv, Casing, NeverExpected, allVars
    <2> QED
      BY <2>1, <2>2, <2>4, <2>5, <2>6 DEF CPInv, ProjInv
  <1> QED
    BY <1>1, <1>2

-----------------------------------------------------------------------------
(* Where a call stands, what its journal says, and what the git child may   *)
(* still do to main are known at every step of project_current() and        *)
(* recover_project(), whatever fails, times out or dies.                    *)
THEOREM CPInvCorrect == CPSpec => []CPInv
  <1> QED
    BY CPInvInit, CPInvStep, PTL DEF CPSpec

(* The calls' variables keep their types. *)
THEOREM CPTypeCorrect == CPSpec => []CPTypeOK
  <1>1. CPInv => CPTypeOK
    BY DEF CPInv, ProjInv
  <1> QED
    BY <1>1, CPInvCorrect, PTL

(* The callers keep to the transaction's protocol: no transaction is rolled *)
(* back once its main ref has moved, and none is recovered with a main ref  *)
(* other than the one it knows of.                                          *)
THEOREM ProtocolCorrect == CPSpec => Spec
  <1>1. CPInit => Init
    BY DEF CPInit
  <1> QED
    BY <1>1, CPInvInit, CPInvStep, PTL DEF CPSpec, Spec

(* So no old file is lost, and no journal given up over a mixed folder, by  *)
(* any call of the projection.                                              *)
THEOREM ProjectionKeepsFiles == CPSpec => []Recoverable /\ AtomicOutcome
  <1> QED
    BY ProtocolCorrect, RecoverableCorrect, AtomicOutcomeCorrect

(* And the recovery of a projection that was cut off at any step, by a      *)
(* crash, a timeout or a failing git, is refused only for the reasons that  *)
(* the transaction names.                                                   *)
THEOREM ProjectionRecovers == CPSpec => ForwardNeverRefused /\ BackwardNeverRefused
  <1> QED
    BY ProtocolCorrect, ForwardCorrect, BackwardCorrect
=============================================================================
