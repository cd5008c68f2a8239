-------------------- MODULE WorktreeTransaction_proofs --------------------
(* Proofs that the file transaction keeps its promises for every set of     *)
(* paths, contents, trees and commits, whatever crashes, failures and edits *)
(* happen.                                                                  *)
EXTENDS WorktreeTransaction, TLAPS

-----------------------------------------------------------------------------
(* The inductive invariant *)

(* journal.json lives in the private directory, and every phase but "idle"  *)
(* works on a complete one.                                                 *)
JournalInv ==
    /\ journal # "absent" => "root" \in dir
    /\ phase # "idle" => journal = "whole"
    /\ journal = "whole" =>
          (plan.mode = "already_current") <=> (plan.expected = plan.resulting)

(* An idle manager remembers nothing of an earlier transaction. *)
IdleInv ==
    phase = "idle" => moved = {} /\ installed = {}

(* Old files survive until the main ref is known to have advanced. *)
KeptInv ==
    journal = "whole" /\ "reran" \notin hist =>
        \/ \A p \in Ops : p \in touched \/ BaseKept(p)
        \/ "advanced" \in hist /\ Whole(plan.next)

(* apply(): finished operations, the current one, and the ones to come. *)
ApplyingInv ==
    phase \in {"prepared", "applying"} =>
        /\ touched = {}
        /\ hist = {}
        /\ todo \subseteq Ops
        /\ moved \subseteq Ops
        /\ installed \subseteq Ops
        /\ phase = "prepared" => todo = Ops /\ moved = {} /\ installed = {}
        /\ \A p \in Ops :
              /\ p \in moved => plan.base[p] # Absent /\ backup[p] = plan.base[p]
              /\ p \in todo /\ p \notin moved => wt[p] = plan.base[p]
              /\ p \in todo /\ p \in moved => wt[p] = Absent
              /\ p \in todo => p \notin installed /\ staged[p] = plan.next[p]
              /\ p \notin todo => /\ wt[p] = plan.next[p]
                                  /\ p \in moved \cup installed
                                  /\ p \in moved \/ plan.base[p] = Absent

AppliedInv ==
    phase = "applied" =>
        /\ "reran" \notin hist
        /\ todo = {}
        /\ moved \subseteq Ops
        /\ installed \subseteq Ops
        /\ \A p \in Ops :
              /\ p \in moved => plan.base[p] # Absent /\ backup[p] = plan.base[p]
              /\ p \notin moved => plan.base[p] = Absent
              /\ p \in moved \cup installed
              /\ Holds(plan.next, p)

(* rollbackApplied(), also when it runs a second time. *)
RollingInv ==
    phase \in {"rolling", "failed"} =>
        /\ phase = "failed" => result = "rollback_failed"
        /\ moved \subseteq Ops
        /\ installed \subseteq Ops
        /\ todo \subseteq moved \cup installed
        /\ \A p \in Ops :
              /\ p \in moved => /\ plan.base[p] # Absent
                                /\ backup[p] \in {plan.base[p], Absent}
              /\ p \in installed /\ p \notin moved => plan.base[p] = Absent
              /\ p \notin moved \cup installed => Holds(plan.base, p)
              /\ phase = "rolling" /\ p \in todo \cap moved /\ "reran" \notin hist
                    => backup[p] = plan.base[p]
              /\ phase = "rolling" /\ p \notin todo => Holds(plan.base, p)

(* The two loops of recover(). *)
RecoveringInv ==
    /\ phase \in {"recBase", "recNext"} => todo \subseteq Ops
    /\ phase = "recBase" =>
          /\ "advanced" \notin hist
          /\ ~retain
          /\ \A p \in Ops \ todo : Holds(plan.base, p)
    /\ phase = "recNext" =>
          /\ ~retain => "advanced" \in hist
          /\ \A p \in Ops \ todo : Holds(plan.next, p)

ProtocolInv ==
    /\ JournalInv
    /\ IdleInv
    /\ KeptInv
    /\ ApplyingInv
    /\ AppliedInv
    /\ RollingInv
    /\ RecoveringInv

IInv == TypeOK /\ ProtocolInv

-----------------------------------------------------------------------------
(* Removing the private directory, wholly or partly, keeps the types. *)
LEMMA DirGoneType == ASSUME TypeOK, DirGone
                     PROVE  /\ dir' \in SUBSET {"root", "backup", "next"}
                            /\ backup' \in [Path -> File]
                            /\ staged' \in [Path -> File]
                            /\ journal' \in {"absent", "torn", "whole"}
                            /\ plan' \in Plan
                            /\ hist' \in SUBSET {"undone", "reran", "swept", "advanced"}
  BY DEF TypeOK, DirGone, NoFiles, File

LEMMA DirLeftOverType == ASSUME TypeOK, DirLeftOver
                         PROVE  /\ dir' \in SUBSET {"root", "backup", "next"}
                                /\ backup' \in [Path -> File]
                                /\ staged' \in [Path -> File]
                                /\ journal' \in {"absent", "torn", "whole"}
                                /\ plan' \in Plan
                                /\ hist' \in SUBSET {"undone", "reran", "swept", "advanced"}
  BY DEF TypeOK, DirLeftOver, Keep, File

(* Every step keeps the types of all variables. *)
LEMMA TypeStep == TypeOK /\ [Next]_vars => TypeOK'
  <1> SUFFICES ASSUME TypeOK, [Next]_vars PROVE TypeOK'
    OBVIOUS
  <1> USE DEF disk, mem
  <1>1. ASSUME NEW b \in Tree, NEW n \in Tree, BeginConflicts(b, n) PROVE TypeOK'
    BY <1>1 DEF TypeOK, BeginConflicts, Result
  <1>2. ASSUME NEW b \in Tree, NEW n \in Tree,
               NEW e \in Oid \cup {NoOid}, NEW r \in Oid, NEW m \in Mode, Begin(b, n, e, r, m) PROVE TypeOK'
    BY <1>2, WorktreeAssumption DEF TypeOK, Begin, Keep, NoFiles, Changed, Plan, File, Phase, Result
  <1>3. ASSUME NEW b \in Tree, NEW n \in Tree, BeginStops(b, n) PROVE TypeOK'
    BY <1>3 DEF TypeOK, BeginStops, Result
  <1>4. ASSUME Apply PROVE TypeOK'
    BY <1>4 DEF TypeOK, Apply, Phase, Result
  <1>5. ASSUME Applied PROVE TypeOK'
    BY <1>5 DEF TypeOK, Applied, Phase, Result
  <1>6. ASSUME ApplyFails PROVE TypeOK'
    BY <1>6 DEF TypeOK, ApplyFails, Phase, Result
  <1>7. ASSUME NEW p \in Path, BackUp(p) PROVE TypeOK'
    BY <1>7 DEF TypeOK, BackUp, File
  <1>8. ASSUME NEW p \in Path, Install(p) PROVE TypeOK'
    BY <1>8 DEF TypeOK, Install, File
  <1>9. ASSUME NEW p \in Path, RollRemove(p) PROVE TypeOK'
    BY <1>9 DEF TypeOK, RollRemove, File
  <1>10. ASSUME NEW p \in Path, RollRestore(p) PROVE TypeOK'
    BY <1>10 DEF TypeOK, RollRestore, File
  <1>11. ASSUME NEW p \in Path, RollSkip(p) PROVE TypeOK'
    BY <1>11 DEF TypeOK, RollSkip, File
  <1>12. ASSUME NEW p \in Path, BaseUnlink(p) PROVE TypeOK'
    BY <1>12 DEF TypeOK, BaseUnlink, File
  <1>13. ASSUME NEW p \in Path, BaseRestore(p) PROVE TypeOK'
    BY <1>13 DEF TypeOK, BaseRestore, File
  <1>14. ASSUME NEW p \in Path, BaseSkip(p) PROVE TypeOK'
    BY <1>14 DEF TypeOK, BaseSkip, File
  <1>15. ASSUME NEW p \in Path, NextBackUp(p) PROVE TypeOK'
    BY <1>15 DEF TypeOK, NextBackUp, File
  <1>16. ASSUME NEW p \in Path, NextInstall(p) PROVE TypeOK'
    BY <1>16 DEF TypeOK, NextInstall, File
  <1>17. ASSUME NEW p \in Path, NextSkip(p) PROVE TypeOK'
    BY <1>17 DEF TypeOK, NextSkip, File
  <1>18. ASSUME NEW p \in Path, RecoveryRefuses(p) PROVE TypeOK'
    BY <1>18 DEF TypeOK, RecoveryRefuses, Forget, Phase, Result
  <1>19. ASSUME RolledBack PROVE TypeOK'
    BY <1>19, DirGoneType, DirLeftOverType DEF TypeOK, RolledBack, Forget, Phase, Result
  <1>20. ASSUME Commit PROVE TypeOK'
    BY <1>20, DirGoneType, DirLeftOverType DEF TypeOK, Commit, Forget, Phase, Result
  <1>21. ASSUME Rollback PROVE TypeOK'
    BY <1>21, DirGoneType, DirLeftOverType DEF TypeOK, Rollback, Forget, Phase, Result
  <1>22. ASSUME RollbackFails PROVE TypeOK'
    BY <1>22 DEF TypeOK, RollbackFails, Phase, Result
  <1>23. ASSUME Abandon PROVE TypeOK'
    BY <1>23 DEF TypeOK, Abandon, Forget, Phase
  <1>24. ASSUME MainAdvanced PROVE TypeOK'
    BY <1>24 DEF TypeOK, MainAdvanced
  <1>25. ASSUME NothingToRecover PROVE TypeOK'
    BY <1>25 DEF TypeOK, NothingToRecover, Result
  <1>26. ASSUME DropUnjournaled PROVE TypeOK'
    BY <1>26, DirGoneType, DirLeftOverType DEF TypeOK, DropUnjournaled, Result
  <1>27. ASSUME NEW c \in Oid \cup {NoOid}, NEW s \in Oid \cup {NoOid}, RecoverRefuses(c, s) PROVE TypeOK'
    BY <1>27 DEF TypeOK, RecoverRefuses, Result
  <1>28. ASSUME NEW c \in Oid \cup {NoOid}, NEW s \in Oid \cup {NoOid}, RecoverStarts(c, s) PROVE TypeOK'
    BY <1>28 DEF TypeOK, RecoverStarts, Ops, Changed, Phase
  <1>29. ASSUME RecoveryFails PROVE TypeOK'
    BY <1>29 DEF TypeOK, RecoveryFails, Forget, Phase, Result
  <1>30. ASSUME Recovered PROVE TypeOK'
    BY <1>30, DirGoneType, DirLeftOverType DEF TypeOK, Recovered, Forget, Phase, Result
  <1>31. ASSUME Crash PROVE TypeOK'
    BY <1>31 DEF TypeOK, Crash, Forget, Phase, Result
  <1>32. ASSUME NEW p \in Path, NEW f \in UserFiles, UserWrites(p, f) PROVE TypeOK'
    BY <1>32, WorktreeAssumption DEF TypeOK, UserWrites
  <1>33. CASE UNCHANGED vars
    BY <1>33 DEF TypeOK, vars
  <1> QED
    BY <1>1, <1>2, <1>3, <1>4, <1>5, <1>6, <1>7, <1>8, <1>9, <1>10, <1>11, <1>12, <1>13, <1>14, <1>15, <1>16, <1>17, <1>18, <1>19, <1>20, <1>21, <1>22, <1>23, <1>24, <1>25, <1>26, <1>27, <1>28, <1>29, <1>30, <1>31, <1>32, <1>33 DEF Next, Call, LoopStep, FileStep

(* The initial state has the declared types. *)
LEMMA TypeInit == Init => TypeOK
  <1> SUFFICES ASSUME Init PROVE TypeOK
    OBVIOUS
  <1>1. wt \in [Path -> Content \cup {Absent}]
    BY WorktreeAssumption DEF Init
  <1>2. wt \in [Path -> File] /\ NoFiles \in [Path -> File]
    BY <1>1 DEF NoFiles, File
  <1>3. plan \in Plan
    BY <1>1 DEF Init, Plan, Mode
  <1> QED
    BY <1>2, <1>3 DEF Init, TypeOK, Phase, Result

(* Every variable of the transaction always has its type. *)
THEOREM TypeCorrect == Spec => []TypeOK
  BY TypeInit, TypeStep, PTL DEF Spec

-----------------------------------------------------------------------------
(* The invariant holds at first. *)
LEMMA InvInit == Init => IInv
  <1> SUFFICES ASSUME Init PROVE IInv
    OBVIOUS
  <1>1. TypeOK
    BY TypeInit
  <1> QED
    BY <1>1 DEF Init, IInv, ProtocolInv, JournalInv, IdleInv, KeptInv, ApplyingInv,
                AppliedInv, RollingInv, RecoveringInv

(* While a rollback runs for the first time, every old file is still there: *)
(* in backup/ if its record is still to do, in the folder if it is done.    *)
LEMMA RollingKeeps ==
    ASSUME TypeOK, RollingInv, phase = "rolling", "reran" \notin hist
    PROVE  \A p \in Ops : p \in touched \/ BaseKept(p)
  BY DEF TypeOK, RollingInv, BaseKept, Holds

(* Every step keeps the invariant. *)
LEMMA InvStep == IInv /\ [Next]_vars => IInv'
  <1> SUFFICES ASSUME IInv, [Next]_vars PROVE IInv'
    OBVIOUS
  <1>t. TypeOK /\ TypeOK' /\ ProtocolInv
    BY TypeStep DEF IInv
  <1> USE DEF ProtocolInv, disk, mem
  <1>1. ASSUME NEW b \in Tree, NEW n \in Tree, BeginConflicts(b, n)
        PROVE  ProtocolInv'
    BY <1>1, <1>t DEF JournalInv, IdleInv, KeptInv, ApplyingInv, AppliedInv,
       RollingInv, RecoveringInv, Ops, Changed, Deletes, BaseKept, Holds,
       Whole, TypeOK, Plan, BeginConflicts
  <1>2. ASSUME NEW b \in Tree, NEW n \in Tree,
               NEW e \in Oid \cup {NoOid}, NEW r \in Oid, NEW m \in Mode, Begin(b, n, e, r, m)
        PROVE  ProtocolInv'
    <2>1. JournalInv'
      BY <1>2, <1>t DEF JournalInv, TypeOK, Plan, Begin, ModeFits, Keep,
         NoFiles, Matches
    <2>2. KeptInv'
      BY <1>2, <1>t DEF KeptInv, Ops, Changed, BaseKept, Holds, Whole, TypeOK,
         Plan, Begin, ModeFits, Keep, NoFiles, Matches
    <2>3. ApplyingInv'
      <3>1. /\ plan' \in Plan /\ plan'.base = b /\ plan'.next = n
            /\ Ops' = Changed(b, n) /\ todo' = Ops'
        BY <1>2, <1>t DEF TypeOK, Begin, Ops
      <3>2. \A p \in Ops' : staged'[p] = n[p] /\ wt'[p] = b[p]
        BY <1>2, <3>1 DEF Begin, Keep, Matches, Changed
      <3>3. touched' = {} /\ hist' = {} /\ moved' = {} /\ installed' = {}
            /\ phase' = "prepared"
        BY <1>2, <1>t DEF Begin, IdleInv
      <3> QED
        BY <3>1, <3>2, <3>3 DEF ApplyingInv
    <2>4. IdleInv' /\ AppliedInv' /\ RollingInv' /\ RecoveringInv'
      BY <1>2, <1>t DEF IdleInv, AppliedInv, RollingInv, RecoveringInv,
         TypeOK, Begin, ModeFits, Keep, NoFiles, Matches
    <2> QED
      BY <2>1, <2>2, <2>3, <2>4
  <1>3. ASSUME NEW b \in Tree, NEW n \in Tree, BeginStops(b, n)
        PROVE  ProtocolInv'
    BY <1>3, <1>t DEF JournalInv, IdleInv, KeptInv, ApplyingInv, AppliedInv,
       RollingInv, RecoveringInv, Ops, Changed, Deletes, BaseKept, Holds,
       Whole, TypeOK, Plan, BeginStops
  <1>4. ASSUME Apply
        PROVE  ProtocolInv'
    BY <1>4, <1>t DEF JournalInv, IdleInv, KeptInv, ApplyingInv, AppliedInv,
       RollingInv, RecoveringInv, Ops, Changed, Deletes, BaseKept, Holds,
       Whole, TypeOK, Plan, Apply
  <1>5. ASSUME Applied
        PROVE  ProtocolInv'
    BY <1>5, <1>t DEF JournalInv, IdleInv, KeptInv, ApplyingInv, AppliedInv,
       RollingInv, RecoveringInv, Ops, Changed, Deletes, BaseKept, Holds,
       Whole, TypeOK, Plan, Applied
  <1>6. ASSUME ApplyFails
        PROVE  ProtocolInv'
    BY <1>6, <1>t DEF JournalInv, IdleInv, KeptInv, ApplyingInv, AppliedInv,
       RollingInv, RecoveringInv, Ops, Changed, Deletes, BaseKept, Holds,
       Whole, TypeOK, Plan, ApplyFails
  <1>7. ASSUME NEW p \in Path, BackUp(p)
        PROVE  ProtocolInv'
    <2>1. KeptInv'
      BY <1>7, <1>t DEF KeptInv, ApplyingInv, Ops, Changed, BaseKept, Holds,
         Whole, TypeOK, Plan, BackUp, IsFirst, IsLast, Deletes
    <2>2. ApplyingInv'
      BY <1>7, <1>t DEF ApplyingInv, Ops, Changed, TypeOK, Plan, BackUp,
         IsFirst, IsLast, Deletes
    <2>3. JournalInv' /\ IdleInv' /\ AppliedInv' /\ RollingInv' /\ RecoveringInv'
      BY <1>7, <1>t DEF JournalInv, IdleInv, AppliedInv, RollingInv,
         RecoveringInv, TypeOK, BackUp, IsFirst, IsLast
    <2> QED
      BY <2>1, <2>2, <2>3
  <1>8. ASSUME NEW p \in Path, Install(p)
        PROVE  ProtocolInv'
    <2>1. KeptInv'
      BY <1>8, <1>t DEF KeptInv, ApplyingInv, Ops, Changed, BaseKept, Holds,
         Whole, TypeOK, Plan, Install, IsFirst, IsLast, Deletes
    <2>2. ApplyingInv'
      BY <1>8, <1>t DEF ApplyingInv, Ops, Changed, TypeOK, Plan, Install,
         IsFirst, IsLast, Deletes
    <2>3. JournalInv' /\ IdleInv' /\ AppliedInv' /\ RollingInv' /\ RecoveringInv'
      BY <1>8, <1>t DEF JournalInv, IdleInv, AppliedInv, RollingInv,
         RecoveringInv, TypeOK, Install, IsFirst, IsLast
    <2> QED
      BY <2>1, <2>2, <2>3
  <1>9. ASSUME NEW p \in Path, RollRemove(p)
        PROVE  ProtocolInv'
    <2>1. KeptInv'
      BY <1>9, <1>t DEF KeptInv, RollingInv, Ops, Changed, BaseKept, Holds,
         Whole, TypeOK, Plan, RollRemove, IsFirst, IsLast
    <2>2. RollingInv'
      BY <1>9, <1>t DEF RollingInv, Ops, Changed, Holds, TypeOK, Plan,
         RollRemove, IsFirst, IsLast
    <2>3. JournalInv' /\ IdleInv' /\ ApplyingInv' /\ AppliedInv' /\ RecoveringInv'
      BY <1>9, <1>t DEF JournalInv, IdleInv, ApplyingInv, AppliedInv,
         RecoveringInv, TypeOK, RollRemove, IsFirst, IsLast
    <2> QED
      BY <2>1, <2>2, <2>3
  <1>10. ASSUME NEW p \in Path, RollRestore(p)
        PROVE  ProtocolInv'
    <2>1. KeptInv'
      BY <1>10, <1>t, RollingKeeps DEF KeptInv, RollingInv, Ops, Changed,
         BaseKept, Holds, Whole, TypeOK, Plan, RollRestore, IsFirst, IsLast
    <2>2. RollingInv'
      BY <1>10, <1>t DEF RollingInv, Ops, Changed, Holds, TypeOK, Plan,
         RollRestore, IsFirst, IsLast
    <2>3. JournalInv' /\ IdleInv' /\ ApplyingInv' /\ AppliedInv' /\ RecoveringInv'
      BY <1>10, <1>t DEF JournalInv, IdleInv, ApplyingInv, AppliedInv,
         RecoveringInv, TypeOK, RollRestore, IsFirst, IsLast
    <2> QED
      BY <2>1, <2>2, <2>3
  <1>11. ASSUME NEW p \in Path, RollSkip(p)
        PROVE  ProtocolInv'
    BY <1>11, <1>t DEF JournalInv, IdleInv, KeptInv, ApplyingInv, AppliedInv,
       RollingInv, RecoveringInv, Ops, Changed, Deletes, BaseKept, Holds,
       Whole, TypeOK, Plan, RollSkip, IsFirst, IsLast
  <1>12. ASSUME NEW p \in Path, BaseUnlink(p)
        PROVE  ProtocolInv'
    <2>1. KeptInv'
      BY <1>12, <1>t DEF KeptInv, RecoveringInv, Ops, Changed, BaseKept,
         Holds, Whole, TypeOK, Plan, BaseUnlink, BaseCanUnlink, IsFirst,
         IsLast
    <2>2. RecoveringInv'
      BY <1>12, <1>t DEF RecoveringInv, Ops, Changed, Holds, TypeOK, Plan,
         BaseUnlink, BaseCanUnlink, IsFirst, IsLast
    <2>3. JournalInv' /\ IdleInv' /\ ApplyingInv' /\ AppliedInv' /\ RollingInv'
      BY <1>12, <1>t DEF JournalInv, IdleInv, ApplyingInv, AppliedInv,
         RollingInv, TypeOK, BaseUnlink, BaseCanUnlink, IsFirst, IsLast
    <2> QED
      BY <2>1, <2>2, <2>3
  <1>13. ASSUME NEW p \in Path, BaseRestore(p)
        PROVE  ProtocolInv'
    <2>1. KeptInv'
      BY <1>13, <1>t DEF KeptInv, RecoveringInv, Ops, Changed, BaseKept,
         Holds, Whole, TypeOK, Plan, BaseRestore, BaseCanRestore, IsFirst,
         IsLast
    <2>2. RecoveringInv'
      BY <1>13, <1>t DEF RecoveringInv, Ops, Changed, Holds, TypeOK, Plan,
         BaseRestore, BaseCanRestore, IsFirst, IsLast
    <2>3. JournalInv' /\ IdleInv' /\ ApplyingInv' /\ AppliedInv' /\ RollingInv'
      BY <1>13, <1>t DEF JournalInv, IdleInv, ApplyingInv, AppliedInv,
         RollingInv, TypeOK, BaseRestore, BaseCanRestore, IsFirst, IsLast
    <2> QED
      BY <2>1, <2>2, <2>3
  <1>14. ASSUME NEW p \in Path, BaseSkip(p)
        PROVE  ProtocolInv'
    BY <1>14, <1>t DEF JournalInv, IdleInv, KeptInv, ApplyingInv, AppliedInv,
       RollingInv, RecoveringInv, Ops, Changed, Deletes, BaseKept, Holds,
       Whole, TypeOK, Plan, BaseSkip, BaseInPlace, IsFirst, IsLast
  <1>15. ASSUME NEW p \in Path, NextBackUp(p)
        PROVE  ProtocolInv'
    <2>1. KeptInv'
      BY <1>15, <1>t DEF KeptInv, Ops, Changed, BaseKept, Holds, Whole,
         TypeOK, Plan, NextBackUp, NextCanBackUp, IsFirst, IsLast
    <2>2. RecoveringInv'
      BY <1>15, <1>t DEF RecoveringInv, Ops, Changed, Holds, TypeOK, Plan,
         NextBackUp, NextCanBackUp, IsFirst, IsLast, Deletes
    <2>3. JournalInv' /\ IdleInv' /\ ApplyingInv' /\ AppliedInv' /\ RollingInv'
      BY <1>15, <1>t DEF JournalInv, IdleInv, ApplyingInv, AppliedInv,
         RollingInv, TypeOK, NextBackUp, NextCanBackUp, IsFirst, IsLast
    <2> QED
      BY <2>1, <2>2, <2>3
  <1>16. ASSUME NEW p \in Path, NextInstall(p)
        PROVE  ProtocolInv'
    <2>1. KeptInv'
      BY <1>16, <1>t DEF KeptInv, Ops, Changed, BaseKept, Holds, Whole,
         TypeOK, Plan, NextInstall, NextCanInstall, IsFirst, IsLast, Deletes
    <2>2. RecoveringInv'
      BY <1>16, <1>t DEF RecoveringInv, Ops, Changed, Holds, TypeOK, Plan,
         NextInstall, NextCanInstall, IsFirst, IsLast, Deletes
    <2>3. JournalInv' /\ IdleInv' /\ ApplyingInv' /\ AppliedInv' /\ RollingInv'
      BY <1>16, <1>t DEF JournalInv, IdleInv, ApplyingInv, AppliedInv,
         RollingInv, TypeOK, NextInstall, NextCanInstall, IsFirst, IsLast
    <2> QED
      BY <2>1, <2>2, <2>3
  <1>17. ASSUME NEW p \in Path, NextSkip(p)
        PROVE  ProtocolInv'
    BY <1>17, <1>t DEF JournalInv, IdleInv, KeptInv, ApplyingInv, AppliedInv,
       RollingInv, RecoveringInv, Ops, Changed, Deletes, BaseKept, Holds,
       Whole, TypeOK, Plan, NextSkip, NextInPlace, IsFirst, IsLast
  <1>18. ASSUME NEW p \in Path, RecoveryRefuses(p)
        PROVE  ProtocolInv'
    BY <1>18, <1>t DEF JournalInv, IdleInv, KeptInv, ApplyingInv, AppliedInv,
       RollingInv, RecoveringInv, Ops, Changed, Deletes, BaseKept, Holds,
       Whole, TypeOK, Plan, RecoveryRefuses, Forget
  <1>19. ASSUME RolledBack
        PROVE  ProtocolInv'
    <2>1. JournalInv'
      BY <1>19, <1>t DEF JournalInv, TypeOK, Plan, RolledBack, Forget,
         DirGone, DirLeftOver, Keep
    <2>2. KeptInv'
      BY <1>19, <1>t DEF KeptInv, RollingInv, Ops, Changed, BaseKept, Holds,
         Whole, TypeOK, Plan, RolledBack, Forget, DirGone, DirLeftOver, Keep
    <2>3. IdleInv' /\ ApplyingInv' /\ AppliedInv' /\ RollingInv' /\ RecoveringInv'
      BY <1>19, <1>t DEF IdleInv, ApplyingInv, AppliedInv, RollingInv,
         RecoveringInv, TypeOK, RolledBack, Forget, DirGone, DirLeftOver, Keep
    <2> QED
      BY <2>1, <2>2, <2>3
  <1>20. ASSUME Commit
        PROVE  ProtocolInv'
    <2>1. JournalInv'
      BY <1>20, <1>t DEF JournalInv, TypeOK, Plan, Commit, Forget, DirGone,
         DirLeftOver, Keep
    <2>2. KeptInv'
      BY <1>20, <1>t DEF KeptInv, AppliedInv, Ops, Changed, BaseKept, Holds,
         Whole, TypeOK, Plan, Commit, Forget, DirGone, DirLeftOver, Keep
    <2>3. IdleInv' /\ ApplyingInv' /\ AppliedInv' /\ RollingInv' /\ RecoveringInv'
      BY <1>20, <1>t DEF IdleInv, ApplyingInv, AppliedInv, RollingInv,
         RecoveringInv, TypeOK, Commit, Forget, DirGone, DirLeftOver, Keep
    <2> QED
      BY <2>1, <2>2, <2>3
  <1>21. ASSUME "advanced" \notin hist, Rollback
        PROVE  ProtocolInv'
    <2>1. JournalInv'
      BY <1>21, <1>t DEF JournalInv, TypeOK, Plan, Rollback, Forget, DirGone,
         DirLeftOver, Keep
    <2>2. KeptInv'
      BY <1>21, <1>t DEF KeptInv, ApplyingInv, AppliedInv, Ops, Changed,
         BaseKept, Holds, Whole, TypeOK, Plan, Rollback, Forget, DirGone,
         DirLeftOver, Keep
    <2>3. RollingInv'
      BY <1>21, <1>t DEF RollingInv, AppliedInv, Ops, Changed, Holds, TypeOK,
         Plan, Rollback, Forget, DirGone, DirLeftOver, Keep
    <2>4. IdleInv' /\ ApplyingInv' /\ AppliedInv' /\ RecoveringInv'
      BY <1>21, <1>t DEF IdleInv, ApplyingInv, AppliedInv, RecoveringInv,
         TypeOK, Rollback, Forget, DirGone, DirLeftOver, Keep
    <2> QED
      BY <2>1, <2>2, <2>3, <2>4
  <1>22. ASSUME RollbackFails
        PROVE  ProtocolInv'
    BY <1>22, <1>t DEF JournalInv, IdleInv, KeptInv, ApplyingInv, AppliedInv,
       RollingInv, RecoveringInv, Ops, Changed, Deletes, BaseKept, Holds,
       Whole, TypeOK, Plan, RollbackFails, Forget
  <1>23. ASSUME Abandon
        PROVE  ProtocolInv'
    BY <1>23, <1>t DEF JournalInv, IdleInv, KeptInv, ApplyingInv, AppliedInv,
       RollingInv, RecoveringInv, Ops, Changed, Deletes, BaseKept, Holds,
       Whole, TypeOK, Plan, Abandon, Forget
  <1>24. ASSUME MainAdvanced
        PROVE  ProtocolInv'
    BY <1>24, <1>t DEF JournalInv, IdleInv, KeptInv, ApplyingInv, AppliedInv,
       RollingInv, RecoveringInv, Ops, Changed, Deletes, BaseKept, Holds,
       Whole, TypeOK, Plan, MainAdvanced, Forget
  <1>25. ASSUME NothingToRecover
        PROVE  ProtocolInv'
    BY <1>25, <1>t DEF JournalInv, IdleInv, KeptInv, ApplyingInv, AppliedInv,
       RollingInv, RecoveringInv, Ops, Changed, Deletes, BaseKept, Holds,
       Whole, TypeOK, Plan, NothingToRecover, Forget
  <1>26. ASSUME DropUnjournaled
        PROVE  ProtocolInv'
    BY <1>26, <1>t DEF JournalInv, IdleInv, KeptInv, ApplyingInv, AppliedInv,
       RollingInv, RecoveringInv, Ops, Changed, Deletes, BaseKept, Holds,
       Whole, TypeOK, Plan, DropUnjournaled, DirGone, DirLeftOver, Keep
  <1>27. ASSUME NEW c \in Oid \cup {NoOid}, NEW s \in Oid \cup {NoOid}, RecoverRefuses(c, s)
        PROVE  ProtocolInv'
    BY <1>27, <1>t DEF JournalInv, IdleInv, KeptInv, ApplyingInv, AppliedInv,
       RollingInv, RecoveringInv, Ops, Changed, Deletes, BaseKept, Holds,
       Whole, TypeOK, Plan, RecoverRefuses
  <1>28. ASSUME NEW c \in Oid \cup {NoOid}, NEW s \in Oid \cup {NoOid},
               "advanced" \in hist => c = plan.resulting, RecoverStarts(c, s)
        PROVE  ProtocolInv'
    <2>1. KeptInv'
      BY <1>28, <1>t DEF KeptInv, Ops, Changed, BaseKept, Holds, Whole,
         TypeOK, Plan, RecoverStarts, Forward, Backward
    <2>2. RecoveringInv'
      BY <1>28, <1>t DEF RecoveringInv, JournalInv, Ops, Changed, Holds,
         TypeOK, Plan, RecoverStarts, Forward, Backward
    <2>3. JournalInv' /\ IdleInv' /\ ApplyingInv' /\ AppliedInv' /\ RollingInv'
      BY <1>28, <1>t DEF JournalInv, IdleInv, ApplyingInv, AppliedInv,
         RollingInv, TypeOK, RecoverStarts, Forward, Backward
    <2> QED
      BY <2>1, <2>2, <2>3
  <1>29. ASSUME RecoveryFails
        PROVE  ProtocolInv'
    BY <1>29, <1>t DEF JournalInv, IdleInv, KeptInv, ApplyingInv, AppliedInv,
       RollingInv, RecoveringInv, Ops, Changed, Deletes, BaseKept, Holds,
       Whole, TypeOK, Plan, RecoveryFails, Forget
  <1>30. ASSUME Recovered
        PROVE  ProtocolInv'
    <2>1. JournalInv'
      BY <1>30, <1>t DEF JournalInv, TypeOK, Plan, Recovered, Forget, DirGone,
         DirLeftOver, Keep
    <2>2. KeptInv'
      BY <1>30, <1>t DEF KeptInv, RecoveringInv, Ops, Changed, BaseKept,
         Holds, Whole, TypeOK, Plan, Recovered, Forget, DirGone, DirLeftOver,
         Keep
    <2>3. IdleInv' /\ ApplyingInv' /\ AppliedInv' /\ RollingInv' /\ RecoveringInv'
      BY <1>30, <1>t DEF IdleInv, ApplyingInv, AppliedInv, RollingInv,
         RecoveringInv, TypeOK, Recovered, Forget, DirGone, DirLeftOver, Keep
    <2> QED
      BY <2>1, <2>2, <2>3
  <1>31. ASSUME Crash
        PROVE  ProtocolInv'
    BY <1>31, <1>t DEF JournalInv, IdleInv, KeptInv, ApplyingInv, AppliedInv,
       RollingInv, RecoveringInv, Ops, Changed, Deletes, BaseKept, Holds,
       Whole, TypeOK, Plan, Crash, Forget
  <1>32. ASSUME NEW p \in Path, NEW f \in UserFiles, UserWrites(p, f)
        PROVE  ProtocolInv'
    BY <1>32, <1>t DEF JournalInv, IdleInv, KeptInv, ApplyingInv, AppliedInv,
       RollingInv, RecoveringInv, Ops, Changed, Deletes, BaseKept, Holds,
       Whole, TypeOK, Plan, UserWrites
  <1>33. ASSUME UNCHANGED vars
        PROVE  ProtocolInv'
    BY <1>33, <1>t DEF vars, TypeOK, JournalInv, IdleInv, KeptInv,
       ApplyingInv, AppliedInv, RollingInv, RecoveringInv, Ops, Changed,
       BaseKept, Holds, Whole
  <1>p. ProtocolInv'
    BY <1>t, <1>1, <1>2, <1>3, <1>4, <1>5, <1>6, <1>7, <1>8, <1>9, <1>10,
       <1>11, <1>12, <1>13, <1>14, <1>15, <1>16, <1>17, <1>18, <1>19, <1>20,
       <1>21, <1>22, <1>23, <1>24, <1>25, <1>26, <1>27, <1>28, <1>29, <1>30,
       <1>31, <1>32, <1>33
       DEF Next, Call, LoopStep, FileStep
  <1> QED
    BY <1>t, <1>p DEF IInv

(* The inductive invariant holds in every reachable state. *)
THEOREM InvCorrect == Spec => []IInv
  BY InvInit, InvStep, PTL DEF Spec

-----------------------------------------------------------------------------
(* What follows from it *)

(* As long as a journal is on disk, every old file still exists or the      *)
(* whole resulting tree is in place, after any crash, failure and edit.     *)
THEOREM RecoverableCorrect == Spec => []Recoverable
  <1>1. IInv => Recoverable
    BY DEF IInv, ProtocolInv, KeptInv, Recoverable
  <1> QED
    BY InvCorrect, <1>1, PTL

(* A journal disappears only when the project is wholly the base tree or    *)
(* wholly the resulting tree.                                               *)
THEOREM AtomicOutcomeCorrect == Spec => AtomicOutcome
  <1> DEFINE Step == journal = "whole" /\ journal' # "whole"
                        => Whole(plan.base) \/ Whole(plan.next)
  <1>1. IInv /\ [Next]_vars => [Step]_vars
    <2> SUFFICES ASSUME IInv, Next, journal = "whole", journal' # "whole"
                 PROVE  Whole(plan.base) \/ Whole(plan.next)
      BY DEF IInv
    <2> USE DEF IInv, ProtocolInv, disk, mem
    <2>1. \/ phase = "prepared" /\ Rollback
          \/ RolledBack \/ Commit \/ Recovered
      <3>1. ~ \E b, n \in Tree : BeginConflicts(b, n) \/ BeginStops(b, n)
        BY DEF BeginConflicts, BeginStops, JournalInv
      <3>2. ~ \E b, n \in Tree, e \in Oid \cup {NoOid}, r \in Oid, m \in Mode :
                 Begin(b, n, e, r, m)
        BY DEF Begin
      <3>3. ~ \E p \in Path : FileStep(p)
        BY DEF FileStep, BackUp, Install, RollRemove, RollRestore, RollSkip,
               BaseUnlink, BaseRestore, BaseSkip, NextBackUp, NextInstall,
               NextSkip, RecoveryRefuses
      <3>4. /\ ~Apply /\ ~MainAdvanced /\ ~Abandon /\ ~NothingToRecover
            /\ ~DropUnjournaled /\ ~Applied /\ ~ApplyFails /\ ~RollbackFails
            /\ ~RecoveryFails /\ ~Crash
        BY DEF Apply, MainAdvanced, Abandon, NothingToRecover, DropUnjournaled,
               Applied, ApplyFails, RollbackFails, RecoveryFails, Crash
      <3>5. ~ \E c, s \in Oid \cup {NoOid} :
                 RecoverRefuses(c, s) \/ RecoverStarts(c, s)
        BY DEF RecoverRefuses, RecoverStarts
      <3>6. ~ \E p \in Path, f \in UserFiles : UserWrites(p, f)
        BY DEF UserWrites
      <3>7. Rollback => phase = "prepared"
        BY DEF Rollback
      <3> QED
        BY <3>1, <3>2, <3>3, <3>4, <3>5, <3>6, <3>7 DEF Next, Call, LoopStep
    <2>2. ASSUME phase = "prepared"
          PROVE  Whole(plan.base)
      BY <2>2 DEF ApplyingInv, Whole, Holds
    <2>3. ASSUME RolledBack
          PROVE  Whole(plan.base)
      BY <2>3 DEF RolledBack, RollingInv, Whole
    <2>4. ASSUME Commit
          PROVE  Whole(plan.next)
      BY <2>4 DEF Commit, AppliedInv, Whole
    <2>5. ASSUME Recovered
          PROVE  Whole(plan.base) \/ Whole(plan.next)
      BY <2>5 DEF Recovered, RecoveringInv, Whole
    <2> QED
      BY <2>1, <2>2, <2>3, <2>4, <2>5
  <1> QED
    BY InvCorrect, <1>1, PTL DEF Spec, AtomicOutcome

(* The result a finished call reports is the tree that is in the folder.    *)
THEOREM OutcomeCorrect == Spec => OutcomeTellsTree
  <1> DEFINE Step == phase # "idle" /\ phase' = "idle" =>
                        /\ result' \in {"rolled_back", "base_restored"}
                              => Whole(plan.base)
                        /\ result' \in {"committed", "resulting_completed", "advance"}
                              => Whole(plan.next)
  <1>1. IInv /\ [Next]_vars => [Step]_vars
    <2> SUFFICES ASSUME IInv, Next, phase # "idle", phase' = "idle"
                 PROVE  Step
      BY DEF IInv
    <2> USE DEF IInv, ProtocolInv, mem
    <2>1. \/ Rollback \/ RolledBack \/ Commit \/ Recovered
          \/ Abandon \/ RecoveryFails \/ Crash
          \/ \E p \in Path : RecoveryRefuses(p)
      <3>1. ~ \E b, n \in Tree :
                 \/ BeginConflicts(b, n) \/ BeginStops(b, n)
                 \/ \E e \in Oid \cup {NoOid}, r \in Oid, m \in Mode :
                       Begin(b, n, e, r, m)
        BY DEF BeginConflicts, BeginStops, Begin
      <3>2. ~ \E p \in Path :
                 \/ BackUp(p) \/ Install(p)
                 \/ RollRemove(p) \/ RollRestore(p) \/ RollSkip(p)
                 \/ BaseUnlink(p) \/ BaseRestore(p) \/ BaseSkip(p)
                 \/ NextBackUp(p) \/ NextInstall(p) \/ NextSkip(p)
        BY DEF BackUp, Install, RollRemove, RollRestore, RollSkip,
               BaseUnlink, BaseRestore, BaseSkip, NextBackUp, NextInstall,
               NextSkip
      <3>3. /\ ~Apply /\ ~MainAdvanced /\ ~NothingToRecover
            /\ ~DropUnjournaled /\ ~Applied /\ ~ApplyFails /\ ~RollbackFails
        BY DEF Apply, MainAdvanced, NothingToRecover, DropUnjournaled,
               Applied, ApplyFails, RollbackFails
      <3>4. ~ \E c, s \in Oid \cup {NoOid} :
                 RecoverRefuses(c, s) \/ RecoverStarts(c, s)
        BY DEF RecoverRefuses, RecoverStarts
      <3>5. ~ \E p \in Path, f \in UserFiles : UserWrites(p, f)
        BY DEF UserWrites
      <3> QED
        BY <3>1, <3>2, <3>3, <3>4, <3>5 DEF Next, Call, LoopStep, FileStep
    <2>2. CASE Rollback
      BY <2>2 DEF Rollback, ApplyingInv, Whole, Holds
    <2>3. CASE RolledBack
      BY <2>3 DEF RolledBack, RollingInv, Whole
    <2>4. CASE Commit
      BY <2>4 DEF Commit, AppliedInv, Whole
    <2>5. CASE Recovered
      BY <2>5 DEF Recovered, RecoveringInv, Whole
    <2>6. CASE Abandon
      BY <2>6 DEF Abandon, RollingInv
    <2>7. CASE RecoveryFails \/ Crash \/ \E p \in Path : RecoveryRefuses(p)
      BY <2>7 DEF RecoveryFails, Crash, RecoveryRefuses
    <2> QED
      BY <2>1, <2>2, <2>3, <2>4, <2>5, <2>6, <2>7
  <1> QED
    BY InvCorrect, <1>1, PTL DEF Spec, OutcomeTellsTree

(* Outside a rollback, only the user changes a file the user wrote: apply() *)
(* and both recovery loops touch nothing but expected contents.             *)
THEOREM EditsKeptCorrect == Spec => EditsKept
  <1> DEFINE Step == \A p \in Path :
                        wt[p] \in Edit /\ wt'[p] # wt[p]
                           => \/ phase = "rolling"
                              \/ \E f \in UserFiles : UserWrites(p, f)
  <1>1. IInv /\ [Next]_vars => [Step]_vars
    <2> SUFFICES ASSUME IInv, Next, NEW p \in Path, wt[p] \in Edit,
                        wt'[p] # wt[p], phase # "rolling"
                 PROVE  \E f \in UserFiles : UserWrites(p, f)
      BY DEF IInv
    <2> USE DEF IInv, ProtocolInv, disk
    <2>t. /\ wt \in [Path -> File] /\ plan \in Plan
          /\ todo \subseteq Path
      BY DEF TypeOK
    <2>1. /\ wt[p] # Absent
          /\ wt[p] # plan.base[p]
          /\ wt[p] # plan.next[p]
      BY <2>t, WorktreeAssumption DEF Plan
    <2>2. \A q \in Path : (BackUp(q) \/ Install(q)) => q # p
      <3> SUFFICES ASSUME BackUp(p) \/ Install(p) PROVE FALSE
        OBVIOUS
      <3>1. p \in todo /\ p \in Ops /\ phase = "applying"
        BY DEF BackUp, Install, IsFirst, ApplyingInv
      <3>2. wt[p] = plan.base[p] \/ wt[p] = Absent
        BY <3>1 DEF ApplyingInv
      <3> QED
        BY <3>2, <2>1
    <2>3. \A q \in Path :
             (BaseUnlink(q) \/ BaseRestore(q) \/ NextBackUp(q) \/ NextInstall(q))
                => q # p
      BY <2>1 DEF BaseUnlink, BaseCanUnlink, BaseRestore, BaseCanRestore,
                  NextBackUp, NextCanBackUp, NextInstall, NextCanInstall
    <2>4. \E q \in Path : \/ BackUp(q) \/ Install(q)
                          \/ BaseUnlink(q) \/ BaseRestore(q)
                          \/ NextBackUp(q) \/ NextInstall(q)
                          \/ \E f \in UserFiles : UserWrites(q, f)
      <3>1. ~ \E b, n \in Tree :
                 \/ BeginConflicts(b, n) \/ BeginStops(b, n)
                 \/ \E e \in Oid \cup {NoOid}, r \in Oid, m \in Mode :
                       Begin(b, n, e, r, m)
        BY DEF BeginConflicts, BeginStops, Begin
      <3>2. ~ \E q \in Path :
                 \/ RollRemove(q) \/ RollRestore(q) \/ RollSkip(q)
                 \/ BaseSkip(q) \/ NextSkip(q) \/ RecoveryRefuses(q)
        BY DEF RollRemove, RollRestore, RollSkip, BaseSkip, NextSkip,
               RecoveryRefuses
      <3>3. /\ ~Apply /\ ~MainAdvanced /\ ~Commit /\ ~Abandon /\ ~Rollback
            /\ ~NothingToRecover /\ ~DropUnjournaled /\ ~Applied /\ ~ApplyFails
            /\ ~RolledBack /\ ~RollbackFails /\ ~Recovered /\ ~RecoveryFails
            /\ ~Crash
        BY DEF Apply, MainAdvanced, Commit, Abandon, Rollback, NothingToRecover,
               DropUnjournaled, Applied, ApplyFails, RolledBack, RollbackFails,
               Recovered, RecoveryFails, Crash
      <3>4. ~ \E c, s \in Oid \cup {NoOid} :
                 RecoverRefuses(c, s) \/ RecoverStarts(c, s)
        BY DEF RecoverRefuses, RecoverStarts
      <3> QED
        BY <3>1, <3>2, <3>3, <3>4 DEF Next, Call, LoopStep, FileStep
    <2>5. PICK q \in Path : \/ BackUp(q) \/ Install(q)
                            \/ BaseUnlink(q) \/ BaseRestore(q)
                            \/ NextBackUp(q) \/ NextInstall(q)
                            \/ \E f \in UserFiles : UserWrites(q, f)
      BY <2>4
    <2>6. q = p
      BY <2>5, <2>t DEF BackUp, Install, BaseUnlink, BaseRestore, NextBackUp,
                        NextInstall, UserWrites
    <2> QED
      BY <2>2, <2>3, <2>5, <2>6
  <1> QED
    BY InvCorrect, <1>1, PTL DEF Spec, EditsKept

-----------------------------------------------------------------------------
(* Recovery finds what it needs *)

(* Nobody but apply() and a recovery that has not unlinked anything has     *)
(* worked on the transaction that the journal describes.                    *)
Clean ==
    /\ journal = "whole"
    /\ touched = {}
    /\ hist \cap {"undone", "reran", "swept"} = {}

(* Each file is in its place in the resulting tree, or its new content is   *)
(* still staged and the old one is gone or can still be backed up.          *)
ForwardInv ==
    Clean => \A p \in Ops :
        \/ wt[p] = plan.next[p]
        \/ /\ staged[p] = plan.next[p]
           /\ \/ wt[p] = Absent
              \/ plan.base[p] # Absent /\ wt[p] = plan.base[p] /\ backup[p] = Absent

(* The records of a live transaction tell what is still staged. *)
FlagsInv ==
    Clean /\ phase \in {"prepared", "applying", "applied", "rolling", "failed"} =>
        \A p \in Ops :
            IF p \in installed THEN wt[p] = plan.next[p] /\ ~Deletes(p)
                               ELSE staged[p] = plan.next[p]

(* Each file is in its place in the base tree, or its old content is in     *)
(* backup/ and the folder holds nothing but the new one.                    *)
BackwardInv ==
    journal = "whole" /\ touched = {} /\ hist \cap {"reran", "swept"} = {} =>
        \A p \in Ops :
            \/ wt[p] = plan.base[p] /\ backup[p] = Absent
            \/ backup[p] = plan.base[p] /\ wt[p] \in {Absent, plan.next[p]}

WayInv == ForwardInv /\ FlagsInv /\ BackwardInv

(* Every step keeps both ways open, as the invariant above describes them.  *)
LEMMA WayStep == IInv /\ WayInv /\ [Next]_vars => WayInv'
  <1> SUFFICES ASSUME IInv, WayInv, [Next]_vars PROVE WayInv'
    OBVIOUS
  <1>t. TypeOK /\ ProtocolInv
    BY DEF IInv
  <1> USE DEF WayInv, disk, mem
  <1>1. ASSUME NEW b \in Tree, NEW n \in Tree, BeginConflicts(b, n) PROVE WayInv'
    BY <1>1, <1>t DEF TypeOK, Plan, Clean, ForwardInv, FlagsInv, BackwardInv, Ops,
       Changed, Deletes, BeginConflicts
  <1>2. ASSUME NEW b \in Tree, NEW n \in Tree, NEW e \in Oid \cup {NoOid},
               NEW r \in Oid, NEW m \in Mode, Begin(b, n, e, r, m)
        PROVE  WayInv'
    BY <1>2, <1>t DEF TypeOK, Plan, Clean, ForwardInv, FlagsInv, BackwardInv, Ops,
       Changed, Deletes, Begin, Keep, NoFiles, Matches, Changed, ProtocolInv, IdleInv
  <1>3. ASSUME NEW b \in Tree, NEW n \in Tree, BeginStops(b, n) PROVE WayInv'
    BY <1>3, <1>t DEF TypeOK, Plan, Clean, ForwardInv, FlagsInv, BackwardInv, Ops,
       Changed, Deletes, BeginStops
  <1>4. ASSUME Apply PROVE WayInv'
    BY <1>4, <1>t DEF TypeOK, Plan, Clean, ForwardInv, FlagsInv, BackwardInv, Ops,
       Changed, Deletes, Apply
  <1>5. ASSUME Applied PROVE WayInv'
    BY <1>5, <1>t DEF TypeOK, Plan, Clean, ForwardInv, FlagsInv, BackwardInv, Ops,
       Changed, Deletes, Applied
  <1>6. ASSUME ApplyFails PROVE WayInv'
    BY <1>6, <1>t DEF TypeOK, Plan, Clean, ForwardInv, FlagsInv, BackwardInv, Ops,
       Changed, Deletes, ApplyFails
  <1>7. ASSUME NEW p \in Path, BackUp(p) PROVE WayInv'
    BY <1>7, <1>t DEF TypeOK, Plan, Clean, ForwardInv, FlagsInv, BackwardInv, Ops,
       Changed, Deletes, BackUp, ProtocolInv, ApplyingInv, IsFirst
  <1>8. ASSUME NEW p \in Path, Install(p) PROVE WayInv'
    BY <1>8, <1>t DEF TypeOK, Plan, Clean, ForwardInv, FlagsInv, BackwardInv, Ops,
       Changed, Deletes, Install, ProtocolInv, ApplyingInv, IsFirst
  <1>9. ASSUME NEW p \in Path, RollRemove(p) PROVE WayInv'
    BY <1>9, <1>t DEF TypeOK, Plan, Clean, ForwardInv, FlagsInv, BackwardInv, Ops,
       Changed, Deletes, RollRemove, ProtocolInv, RollingInv, IsLast
  <1>10. ASSUME NEW p \in Path, RollRestore(p) PROVE WayInv'
    BY <1>10, <1>t DEF TypeOK, Plan, Clean, ForwardInv, FlagsInv, BackwardInv, Ops,
       Changed, Deletes, RollRestore, ProtocolInv, RollingInv, IsLast
  <1>11. ASSUME NEW p \in Path, RollSkip(p) PROVE WayInv'
    BY <1>11, <1>t DEF TypeOK, Plan, Clean, ForwardInv, FlagsInv, BackwardInv, Ops,
       Changed, Deletes, RollSkip
  <1>12. ASSUME NEW p \in Path, BaseUnlink(p) PROVE WayInv'
    BY <1>12, <1>t DEF TypeOK, Plan, Clean, ForwardInv, FlagsInv, BackwardInv, Ops,
       Changed, Deletes, BaseUnlink, ProtocolInv, RecoveringInv, IsLast, BaseCanUnlink
  <1>13. ASSUME NEW p \in Path, BaseRestore(p) PROVE WayInv'
    BY <1>13, <1>t DEF TypeOK, Plan, Clean, ForwardInv, FlagsInv, BackwardInv, Ops,
       Changed, Deletes, BaseRestore, ProtocolInv, RecoveringInv, IsLast, BaseCanRestore
  <1>14. ASSUME NEW p \in Path, BaseSkip(p) PROVE WayInv'
    BY <1>14, <1>t DEF TypeOK, Plan, Clean, ForwardInv, FlagsInv, BackwardInv, Ops,
       Changed, Deletes, BaseSkip
  <1>15. ASSUME NEW p \in Path, NextBackUp(p) PROVE WayInv'
    BY <1>15, <1>t DEF TypeOK, Plan, Clean, ForwardInv, FlagsInv, BackwardInv, Ops,
       Changed, Deletes, NextBackUp, ProtocolInv, RecoveringInv, IsFirst, NextCanBackUp
  <1>16. ASSUME NEW p \in Path, NextInstall(p) PROVE WayInv'
    BY <1>16, <1>t DEF TypeOK, Plan, Clean, ForwardInv, FlagsInv, BackwardInv, Ops,
       Changed, Deletes, NextInstall, ProtocolInv, RecoveringInv, IsFirst, NextCanInstall
  <1>17. ASSUME NEW p \in Path, NextSkip(p) PROVE WayInv'
    BY <1>17, <1>t DEF TypeOK, Plan, Clean, ForwardInv, FlagsInv, BackwardInv, Ops,
       Changed, Deletes, NextSkip
  <1>18. ASSUME NEW p \in Path, RecoveryRefuses(p) PROVE WayInv'
    BY <1>18, <1>t DEF TypeOK, Plan, Clean, ForwardInv, FlagsInv, BackwardInv, Ops,
       Changed, Deletes, RecoveryRefuses
  <1>19. ASSUME RolledBack PROVE WayInv'
    BY <1>19, <1>t DEF TypeOK, Plan, Clean, ForwardInv, FlagsInv, BackwardInv, Ops,
       Changed, Deletes, RolledBack, Forget, DirGone, DirLeftOver
  <1>20. ASSUME Commit PROVE WayInv'
    BY <1>20, <1>t DEF TypeOK, Plan, Clean, ForwardInv, FlagsInv, BackwardInv, Ops,
       Changed, Deletes, Commit, Forget, DirGone, DirLeftOver
  <1>21. ASSUME Rollback PROVE WayInv'
    BY <1>21, <1>t DEF TypeOK, Plan, Clean, ForwardInv, FlagsInv, BackwardInv, Ops,
       Changed, Deletes, Rollback, Forget, DirGone, DirLeftOver
  <1>22. ASSUME RollbackFails PROVE WayInv'
    BY <1>22, <1>t DEF TypeOK, Plan, Clean, ForwardInv, FlagsInv, BackwardInv, Ops,
       Changed, Deletes, RollbackFails
  <1>23. ASSUME Abandon PROVE WayInv'
    BY <1>23, <1>t DEF TypeOK, Plan, Clean, ForwardInv, FlagsInv, BackwardInv, Ops,
       Changed, Deletes, Abandon
  <1>24. ASSUME MainAdvanced PROVE WayInv'
    BY <1>24, <1>t DEF TypeOK, Plan, Clean, ForwardInv, FlagsInv, BackwardInv, Ops,
       Changed, Deletes, MainAdvanced
  <1>25. ASSUME NothingToRecover PROVE WayInv'
    BY <1>25, <1>t DEF TypeOK, Plan, Clean, ForwardInv, FlagsInv, BackwardInv, Ops,
       Changed, Deletes, NothingToRecover
  <1>26. ASSUME DropUnjournaled PROVE WayInv'
    BY <1>26, <1>t DEF TypeOK, Plan, Clean, ForwardInv, FlagsInv, BackwardInv, Ops,
       Changed, Deletes, DropUnjournaled, DirGone, DirLeftOver
  <1>27. ASSUME NEW c \in Oid \cup {NoOid}, NEW s \in Oid \cup {NoOid}, RecoverRefuses(c, s) PROVE WayInv'
    BY <1>27, <1>t DEF TypeOK, Plan, Clean, ForwardInv, FlagsInv, BackwardInv, Ops,
       Changed, Deletes, RecoverRefuses
  <1>28. ASSUME NEW c \in Oid \cup {NoOid}, NEW s \in Oid \cup {NoOid}, RecoverStarts(c, s) PROVE WayInv'
    BY <1>28, <1>t DEF TypeOK, Plan, Clean, ForwardInv, FlagsInv, BackwardInv, Ops,
       Changed, Deletes, RecoverStarts
  <1>29. ASSUME RecoveryFails PROVE WayInv'
    BY <1>29, <1>t DEF TypeOK, Plan, Clean, ForwardInv, FlagsInv, BackwardInv, Ops,
       Changed, Deletes, RecoveryFails
  <1>30. ASSUME Recovered PROVE WayInv'
    BY <1>30, <1>t DEF TypeOK, Plan, Clean, ForwardInv, FlagsInv, BackwardInv, Ops,
       Changed, Deletes, Recovered, Forget, DirGone, DirLeftOver
  <1>31. ASSUME Crash PROVE WayInv'
    BY <1>31, <1>t DEF TypeOK, Plan, Clean, ForwardInv, FlagsInv, BackwardInv, Ops,
       Changed, Deletes, Crash
  <1>32. ASSUME NEW p \in Path, NEW f \in UserFiles, UserWrites(p, f) PROVE WayInv'
    BY <1>32, <1>t DEF TypeOK, Plan, Clean, ForwardInv, FlagsInv, BackwardInv, Ops,
       Changed, Deletes, UserWrites
  <1>33. ASSUME UNCHANGED vars PROVE WayInv'
    BY <1>33, <1>t DEF TypeOK, Plan, Clean, ForwardInv, FlagsInv, BackwardInv, Ops,
       Changed, Deletes, vars
  <1> QED
    BY <1>1, <1>2, <1>3, <1>4, <1>5, <1>6, <1>7, <1>8, <1>9, <1>10, <1>11, <1>12, <1>13, <1>14, <1>15, <1>16, <1>17, <1>18, <1>19, <1>20, <1>21, <1>22, <1>23, <1>24, <1>25, <1>26, <1>27, <1>28, <1>29, <1>30, <1>31, <1>32, <1>33
       DEF Next, Call, LoopStep, FileStep

(* Both ways stay open in every reachable state. *)
THEOREM WayCorrect == Spec => []WayInv
  <1>1. Init => WayInv
    BY DEF Init, WayInv, ForwardInv, FlagsInv, BackwardInv, Clean
  <1> QED
    BY <1>1, WayStep, InvCorrect, PTL DEF Spec

(* A recovery loop reports "refused" at one file, and nowhere else. *)
LEMMA RefusedAtAFile ==
    ASSUME Next, phase \in {"recBase", "recNext"},
           phase' = "idle", result' = "refused"
    PROVE  \E p \in Path : RecoveryRefuses(p)
  <1>1. ~ \E b, n \in Tree :
             \/ BeginConflicts(b, n) \/ BeginStops(b, n)
             \/ \E e \in Oid \cup {NoOid}, r \in Oid, m \in Mode : Begin(b, n, e, r, m)
    BY DEF BeginConflicts, BeginStops, Begin
  <1>2. ~ \E p \in Path :
             \/ BackUp(p) \/ Install(p)
             \/ RollRemove(p) \/ RollRestore(p) \/ RollSkip(p)
             \/ BaseUnlink(p) \/ BaseRestore(p) \/ BaseSkip(p)
             \/ NextBackUp(p) \/ NextInstall(p) \/ NextSkip(p)
    BY DEF BackUp, Install, RollRemove, RollRestore, RollSkip, BaseUnlink,
           BaseRestore, BaseSkip, NextBackUp, NextInstall, NextSkip
  <1>3. /\ ~Apply /\ ~MainAdvanced /\ ~Commit /\ ~Abandon /\ ~Rollback
        /\ ~NothingToRecover /\ ~DropUnjournaled /\ ~Applied /\ ~ApplyFails
        /\ ~RolledBack /\ ~RollbackFails /\ ~Recovered /\ ~RecoveryFails /\ ~Crash
    BY DEF Apply, MainAdvanced, Commit, Abandon, Rollback, NothingToRecover,
           DropUnjournaled, Applied, ApplyFails, RolledBack, RollbackFails,
           Recovered, RecoveryFails, Crash
  <1>4. ~ \E c, s \in Oid \cup {NoOid} : RecoverRefuses(c, s) \/ RecoverStarts(c, s)
    BY DEF RecoverRefuses, RecoverStarts
  <1>5. ~ \E p \in Path, f \in UserFiles : UserWrites(p, f)
    BY DEF UserWrites
  <1> QED
    BY <1>1, <1>2, <1>3, <1>4, <1>5 DEF Next, Call, LoopStep, FileStep

(* Recovery towards the resulting tree is never refused, wherever apply(),  *)
(* the wait for the main ref or an earlier recovery was cut off, unless the *)
(* user wrote a file or something had begun to undo the transaction.        *)
THEOREM ForwardCorrect == Spec => ForwardNeverRefused
  <1> DEFINE Step == phase = "recNext" /\ phase' = "idle" /\ result' = "refused"
                        => \/ touched # {}
                           \/ hist \cap {"undone", "reran", "swept"} # {}
  <1>1. IInv /\ WayInv /\ [Next]_vars => [Step]_vars
    <2> SUFFICES ASSUME IInv, WayInv, Next, phase = "recNext", phase' = "idle",
                        result' = "refused", touched = {},
                        hist \cap {"undone", "reran", "swept"} = {}
                 PROVE  FALSE
      OBVIOUS
    <2>1. PICK p \in Path : RecoveryRefuses(p)
      BY RefusedAtAFile
    <2>2. p \in Ops /\ Clean
      BY <2>1 DEF IInv, ProtocolInv, RecoveringInv, JournalInv, Clean,
                  RecoveryRefuses, IsFirst
    <2>3. \/ NextInPlace(p) \/ NextCanInstall(p) \/ NextCanBackUp(p)
      BY <2>2 DEF WayInv, ForwardInv, NextInPlace, NextCanInstall,
                  NextCanBackUp, Deletes
    <2> QED
      BY <2>1, <2>3 DEF RecoveryRefuses
  <1> QED
    BY InvCorrect, WayCorrect, <1>1, PTL DEF Spec, ForwardNeverRefused

(* Recovery towards the base tree is never refused either, also when a      *)
(* rollback or a recovery was cut off half way, unless the user wrote a     *)
(* file, a rollback was run twice, or a deletion had been carried out.      *)
THEOREM BackwardCorrect == Spec => BackwardNeverRefused
  <1> DEFINE Step == phase = "recBase" /\ phase' = "idle" /\ result' = "refused"
                        => \/ touched # {}
                           \/ hist \cap {"reran", "swept"} # {}
                           \/ \E p \in Ops : Deletes(p) /\ wt[p] = Absent
  <1>1. IInv /\ WayInv /\ [Next]_vars => [Step]_vars
    <2> SUFFICES ASSUME IInv, WayInv, Next, phase = "recBase", phase' = "idle",
                        result' = "refused", touched = {},
                        hist \cap {"reran", "swept"} = {}
                 PROVE  \E p \in Ops : Deletes(p) /\ wt[p] = Absent
      OBVIOUS
    <2>1. PICK p \in Path : RecoveryRefuses(p)
      BY RefusedAtAFile
    <2>2. p \in Ops /\ journal = "whole"
      BY <2>1 DEF IInv, ProtocolInv, RecoveringInv, JournalInv, RecoveryRefuses, IsLast
    <2>3. \/ BaseInPlace(p) \/ BaseCanUnlink(p) \/ BaseCanRestore(p)
          \/ Deletes(p) /\ wt[p] = Absent
      BY <2>2 DEF WayInv, BackwardInv, BaseInPlace, BaseCanUnlink,
                  BaseCanRestore, Deletes
    <2> QED
      BY <2>1, <2>2, <2>3 DEF RecoveryRefuses
  <1> QED
    BY InvCorrect, WayCorrect, <1>1, PTL DEF Spec, BackwardNeverRefused
=============================================================================
