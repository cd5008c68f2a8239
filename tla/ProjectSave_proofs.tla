-------------------------- MODULE ProjectSave_proofs --------------------------
(* Proofs that saves keep the history of a project linear, the check gate   *)
(* closed and acceptance behind the record, for every set of drafts and     *)
(* trees and every number of events, failures and crashes.                  *)
EXTENDS ProjectSave, TLAPS

-----------------------------------------------------------------------------
(* The inductive invariant *)

(* The queue works on a draft, and for a save on one that waits for it. *)
JobInv ==
    /\ job.at # "free" => job.draft \in Draft
    /\ job.for = "save" => job.draft \in Draft /\ save[job.draft].at = "projecting"

(* A draft in the making has never been ready: only a run may record that   *)
(* it passed or failed without the registry.                                *)
RunInv == run.draft \in Draft => status[run.draft] \in {"working", "failed"}
TurnInv == turn \in Draft => status[turn] = "working"

PastGate(d) ==
    save[d].at \in {"recorded", "projecting", "projected", "loaded", "failed"}

(* Who saves has an unreviewed draft, or one that was rejected meanwhile.   *)
SaveInv ==
    \A d \in Draft :
       /\ save[d] # NoSave => /\ status[d] \in {"ready", "rejected"}
                              /\ save[d].stamp > 0
                              /\ status[d] = "ready" => d \in pending
       /\ PastGate(d) => /\ recorded[d] # 0
                         /\ active[d] = "save"
                         /\ check[d] \in {"passed", "skipped", "blocked"}

(* Every base is a recorded revision, so none is recorded after its child.  *)
HistoryInv ==
    /\ selected # None => recorded[selected] # 0
    /\ \A d \in Draft :
          /\ status[d] # "none" => /\ head > 0
                                   /\ draft[d].base # None => recorded[draft[d].base] # 0
          /\ recorded[d] # 0 => status[d] # "none"
    /\ LinearHistory

AcceptInv ==
    \A d \in Draft :
       status[d] = "accepted" =>
          recorded[d] # 0 /\ d \notin pending /\ attempts[d] = 0 /\ save[d] = NoSave

Started(d) == status[d] # "none"

(* A draft that main, the journal or the queue names keeps its trees; the   *)
(* journal knows what main's tree was before it; and the folder is main's   *)
(* unless a transaction is under way, or died, or the user changed it.      *)
FolderInv ==
    /\ main # None => Started(main)
    /\ job.at # "free" => Started(job.draft)
    /\ journal # NoJournal =>
          /\ journal.to \in Draft /\ Started(journal.to)
          /\ journal.from # None =>
                Started(journal.from) /\ journal.back = TreeOf(journal.from)
    /\ job.at = "inspecting" => journal = NoJournal
    /\ job.at = "updating" =>
          journal.to = job.draft /\ journal.from = main /\ folder = TreeOf(job.draft)
    /\ job.at # "updating" /\ journal = NoJournal /\ folder # Edited /\ main # None =>
          folder = TreeOf(main)

IInv == TypeOK /\ JobInv /\ RunInv /\ TurnInv /\ SaveInv /\ HistoryInv /\ AcceptInv

-----------------------------------------------------------------------------
(* Types *)

(* The phase of a save can be set to another phase. *)
LEMMA SaveAt ==
    ASSUME TypeOK, NEW d \in Draft,
           NEW a \in {"none", "verified", "observed", "recorded", "projecting",
                       "projected", "loaded", "failed"}
    PROVE  [save EXCEPT ![d].at = a] \in [Draft -> SaveState]
<1>1. save[d] \in SaveState
  BY DEF TypeOK
<1>2. [save[d] EXCEPT !.at = a] \in SaveState
  BY <1>1 DEF SaveState
<1> QED
  BY <1>2 DEF TypeOK

(* So can a phase together with what the save has read. *)
LEMMA SaveAtWith ==
    ASSUME TypeOK, NEW d \in Draft, NEW a \in {"verified", "observed", "recorded"}
    PROVE  /\ \A n \in Nat : [save EXCEPT ![d].at = a, ![d].stamp = n] \in [Draft -> SaveState]
           /\ \A t \in Tree : [save EXCEPT ![d].at = a, ![d].seen = t] \in [Draft -> SaveState]
           /\ [save EXCEPT ![d].at = a, ![d].repair = FALSE] \in [Draft -> SaveState]
           /\ [save EXCEPT ![d].at = a, ![d].repair = TRUE] \in [Draft -> SaveState]
<1>1. save[d] \in SaveState
  BY DEF TypeOK
<1>2. ASSUME NEW n \in Nat
      PROVE  [save EXCEPT ![d].at = a, ![d].stamp = n] \in [Draft -> SaveState]
  <2>1. [save[d] EXCEPT !.at = a, !.stamp = n] \in SaveState
    BY <1>1 DEF SaveState
  <2>2. [save EXCEPT ![d].at = a, ![d].stamp = n]
           = [save EXCEPT ![d] = [save[d] EXCEPT !.at = a, !.stamp = n]]
    BY <1>1 DEF TypeOK, SaveState
  <2> QED
    BY <2>1, <2>2 DEF TypeOK
<1>3. ASSUME NEW t \in Tree
      PROVE  [save EXCEPT ![d].at = a, ![d].seen = t] \in [Draft -> SaveState]
  <2>1. [save[d] EXCEPT !.at = a, !.seen = t] \in SaveState
    BY <1>1 DEF SaveState
  <2>2. [save EXCEPT ![d].at = a, ![d].seen = t]
           = [save EXCEPT ![d] = [save[d] EXCEPT !.at = a, !.seen = t]]
    BY <1>1 DEF TypeOK, SaveState
  <2> QED
    BY <2>1, <2>2 DEF TypeOK
<1>4. [save EXCEPT ![d].at = a, ![d].repair = FALSE] \in [Draft -> SaveState]
  <2>1. [save[d] EXCEPT !.at = a, !.repair = FALSE] \in SaveState
    BY <1>1 DEF SaveState
  <2>2. [save EXCEPT ![d].at = a, ![d].repair = FALSE]
           = [save EXCEPT ![d] = [save[d] EXCEPT !.at = a, !.repair = FALSE]]
    BY <1>1 DEF TypeOK, SaveState
  <2> QED
    BY <2>1, <2>2 DEF TypeOK
<1>5. [save EXCEPT ![d].at = a, ![d].repair = TRUE] \in [Draft -> SaveState]
  <2>1. [save[d] EXCEPT !.at = a, !.repair = TRUE] \in SaveState
    BY <1>1 DEF SaveState
  <2>2. [save EXCEPT ![d].at = a, ![d].repair = TRUE]
           = [save EXCEPT ![d] = [save[d] EXCEPT !.at = a, !.repair = TRUE]]
    BY <1>1 DEF TypeOK, SaveState
  <2> QED
    BY <2>1, <2>2 DEF TypeOK
<1> QED
  BY <1>2, <1>3, <1>4, <1>5

(* The same for the run, *)
LEMMA RunAt ==
    ASSUME TypeOK,
           NEW a \in {"none", "started", "checked", "projecting", "projected", "unprojected"}
    PROVE  [run EXCEPT !.at = a] \in RunState
BY DEF TypeOK, RunState

(* and for the queue. *)
LEMMA JobAt ==
    ASSUME TypeOK, NEW a \in {"free", "recovering", "inspecting", "updating"}
    PROVE  [job EXCEPT !.at = a] \in JobState
BY DEF TypeOK, JobState

(* Who is idle is in one of its states. *)
LEMMA IdleTypes ==
    /\ NoRun \in RunState /\ NoSave \in SaveState /\ NoJob \in JobState
    /\ NoDraft \in [base : Rev, from : Tree, to : Tree]
    /\ NoJournal \in [from : Rev, to : Rev, back : Tree]
BY SaveAssumption DEF NoRun, NoSave, NoJob, NoDraft, NoJournal,
                      RunState, SaveState, JobState, Rev

(* What the steps read out of the records. *)
LEMMA FieldTypes ==
    ASSUME TypeOK
    PROVE  /\ run.draft \in Rev /\ run.expect \in Tree /\ run.repair \in BOOLEAN
           /\ job.draft \in Rev /\ job.expect \in Tree /\ job.repair \in BOOLEAN
           /\ journal.from \in Rev /\ journal.to \in Rev /\ journal.back \in Tree
           /\ \A d \in Draft :
                 /\ save[d] \in SaveState
                 /\ save[d].stamp \in Nat /\ save[d].seen \in Tree
                 /\ save[d].repair \in BOOLEAN
                 /\ draft[d].base \in Rev /\ draft[d].from \in Tree /\ TreeOf(d) \in Tree
<1>1. \A d \in Draft : /\ save[d] \in SaveState
                        /\ draft[d] \in [base : Rev, from : Tree, to : Tree]
  BY DEF TypeOK
<1> QED
  BY <1>1 DEF TypeOK, RunState, JobState, SaveState, TreeOf

(* A result goes to a caller that can receive it: a save's to a draft. *)
LEMMA JobEndsType ==
    ASSUME TypeOK, JobInv, NEW ok \in BOOLEAN, JobEnds(ok)
    PROVE  job' \in JobState /\ run' \in RunState /\ save' \in [Draft -> SaveState]
<1>1. job' \in JobState
  BY IdleTypes DEF JobEnds
<1>2. run' \in RunState
  <2>1. run' = run \/ run' = [run EXCEPT !.at = "projected"]
                  \/ run' = [run EXCEPT !.at = "unprojected"]
    BY DEF JobEnds
  <2> QED
    BY <2>1, RunAt DEF TypeOK
<1>3. save' \in [Draft -> SaveState]
  <2>1. CASE job.for # "save"
    BY <2>1 DEF JobEnds, TypeOK
  <2>2. CASE job.for = "save"
    <3>1. job.draft \in Draft
      BY <2>2 DEF JobInv
    <3>2. save' = [save EXCEPT ![job.draft].at = IF ok THEN "projected" ELSE "failed"]
      BY <2>2 DEF JobEnds
    <3>3. (IF ok THEN "projected" ELSE "failed") \in {"projected", "failed"}
      OBVIOUS
    <3> QED
      BY <3>1, <3>2, <3>3, SaveAt
  <2> QED
    BY <2>1, <2>2
<1> QED
  BY <1>1, <1>2, <1>3

(* A request in the queue is one of its states. *)
LEMMA EnqueueType ==
    ASSUME TypeOK, NEW d \in Rev, NEW for \in {"open", "run", "save"},
           NEW expect \in Tree, NEW repair \in BOOLEAN, Enqueue(d, for, expect, repair)
    PROVE  job' \in JobState
BY DEF Enqueue, JobState

(* A run starts with a typed draft. *)
LEMMA StartsType ==
    ASSUME TypeOK, NEW d \in Draft, NEW b \in Rev, NEW from \in Tree, NEW to \in Tree,
           NEW expect \in Tree, NEW repair \in BOOLEAN,
           Starts(d, b, from, to, expect, repair)
    PROVE  TypeOK'
<1>1. run' \in RunState
  BY DEF Starts, RunState, Rev
<1>2. draft' \in [Draft -> [base : Rev, from : Tree, to : Tree]]
  BY DEF Starts, TypeOK
<1>3. head' \in Nat /\ turn' \in Rev \cup {Question}
  BY DEF Starts, Begins, UserAppends, Appends, TypeOK, Rev
<1>4. status' \in [Draft -> {"none", "working", "failed", "ready", "accepted", "rejected"}]
  BY DEF Starts, Interrupted, TypeOK
<1> QED
  BY <1>1, <1>2, <1>3, <1>4 DEF Starts, TypeOK, disk, memory

(* Every step keeps the variables in their types. *)
LEMMA TypeStep ==
    ASSUME TypeOK, JobInv, [Next]_vars
    PROVE  TypeOK'
<1> USE FieldTypes, IdleTypes
<1>1. CASE JobRecovers
  <2>1. job.draft \in Draft
    BY <1>1 DEF JobRecovers, JobInv
  <2>2. /\ folder' \in Folder /\ main' \in Rev
        /\ journal' \in [from : Rev, to : Rev, back : Tree]
    BY <1>1, <2>1 DEF JobRecovers, TypeOK, Folder
  <2>3. job' \in JobState /\ run' \in RunState /\ save' \in [Draft -> SaveState]
    BY <1>1, JobEndsType, JobAt DEF JobRecovers, TypeOK
  <2> QED
    BY <1>1, <2>2, <2>3 DEF JobRecovers, facts, memory, TypeOK
<1>2. CASE RecoveryRefuses
  BY <1>2, JobEndsType DEF RecoveryRefuses, facts, git, disk, memory, TypeOK
<1>3. CASE JobApplies
  <2>1. job.draft \in Draft
    BY <1>3 DEF JobApplies, JobInv
  <2>2. folder' \in Folder
    BY <1>3, <2>1 DEF JobApplies, Folder
  <2>3. folder \in Tree
    BY <1>3, <2>1, FieldTypes DEF JobApplies, Admitted
  <2>4. journal' \in [from : Rev, to : Rev, back : Tree]
    BY <1>3, <2>1, <2>3 DEF JobApplies, TypeOK
  <2> QED
    BY <1>3, <2>2, <2>4, JobAt DEF JobApplies, facts, git, memory, TypeOK
<1>4. CASE JobRefuses
  BY <1>4, JobEndsType DEF JobRefuses, facts, git, disk, memory, TypeOK
<1>5. CASE JobCommits
  BY <1>5, JobEndsType DEF JobCommits, facts, memory, TypeOK
<1>6. CASE JobUndoes
  <2>1. /\ folder' \in Folder /\ stops' \in 0..MaxStops
        /\ journal' \in [from : Rev, to : Rev, back : Tree]
    BY <1>6, SaveAssumption DEF JobUndoes, Stop, TypeOK, Folder
  <2> QED
    BY <1>6, <2>1, JobEndsType DEF JobUndoes, facts, git, memory, TypeOK
<1>7. CASE Ask
  BY <1>7 DEF Ask, Begins, UserAppends, Appends, Interrupted, git, disk, memory, TypeOK
<1>8. CASE TurnEnds
  BY <1>8 DEF TurnEnds, Appends, Interrupted, git, disk, memory, TypeOK, Rev
<1>9. CASE Open
  BY <1>9, EnqueueType, SaveAssumption DEF Open, facts, git, disk, memory, TypeOK
<1>10. CASE Crash
  <2>1. folder' \in Folder /\ main' \in Rev /\ stops' \in 0..MaxStops
    BY <1>10, SaveAssumption DEF Crash, Stop, TypeOK, Folder
  <2>2. /\ pending' \in SUBSET Draft /\ attempts' \in [Draft -> Nat]
        /\ active' \in [Draft -> {"free", "check", "save"}]
        /\ save' \in [Draft -> SaveState]
    BY <1>10 DEF Crash
  <2> QED
    BY <1>10, <2>1, <2>2 DEF Crash, facts, TypeOK
<1>11. CASE UserEdits
  BY <1>11, SaveAssumption DEF UserEdits, Stop, facts, git, memory, TypeOK, Folder
<1>12. ASSUME NEW d \in Draft, RunChecks(d) PROVE TypeOK'
  <2>1. run' \in RunState
    BY <1>12, RunAt DEF RunChecks, RunFails
  <2>2. check' \in [Draft -> {"absent", "passed", "failed", "blocked", "skipped"}]
    <3>1. check \in [Draft -> {"absent", "passed", "failed", "blocked", "skipped"}]
      BY DEF TypeOK
    <3>2. \/ check' = check
          \/ \E c \in {"absent"} \cup Outcomes : check' = [check EXCEPT ![d] = c]
      BY <1>12 DEF RunChecks
    <3> QED
      BY <3>1, <3>2, SaveAssumption
  <2>3. /\ head' \in Nat /\ turn' \in Rev \cup {Question}
        /\ status' \in [Draft -> {"none", "working", "failed", "ready", "accepted", "rejected"}]
    <3>1. /\ head \in Nat /\ turn \in Rev \cup {Question}
          /\ status \in [Draft -> {"none", "working", "failed", "ready", "accepted", "rejected"}]
      BY DEF TypeOK
    <3>2. \/ UNCHANGED <<head, turn, status>>
          \/ head' = head + 1 /\ turn' = None /\ status' = [status EXCEPT ![d] = "failed"]
      BY <1>12 DEF RunChecks, RunFails, Appends
    <3> QED
      BY <3>1, <3>2 DEF Rev
  <2> QED
    BY <1>12, <2>1, <2>2, <2>3 DEF RunChecks, git, disk, memory, TypeOK
<1>13. ASSUME NEW d \in Draft, RunProjects(d) PROVE TypeOK'
  BY <1>13, EnqueueType, RunAt DEF RunProjects, facts, git, disk, memory, TypeOK, Rev
<1>14. ASSUME NEW d \in Draft, RunCompletes(d) PROVE TypeOK'
  <2>1. /\ head' \in Nat /\ turn' \in Rev \cup {Question} /\ run' \in RunState
        /\ status' \in [Draft -> {"none", "working", "failed", "ready", "accepted", "rejected"}]
    <3>1. /\ head \in Nat /\ turn \in Rev \cup {Question} /\ run \in RunState
          /\ status \in [Draft -> {"none", "working", "failed", "ready", "accepted", "rejected"}]
      BY DEF TypeOK
    <3>2. run' = NoRun
      BY <1>14 DEF RunCompletes, RunFails
    <3>3. \/ UNCHANGED <<head, turn, status>>
          \/ /\ head' = head + 1 /\ turn' = None
             /\ \E new \in {"ready", "failed"} : status' = [status EXCEPT ![d] = new]
      BY <1>14 DEF RunCompletes, RunFails, Appends
    <3> QED
      BY <3>1, <3>2, <3>3 DEF Rev
  <2>2. shown' \in [Draft -> BOOLEAN]
    <3>1. (run.at = "projected") \in BOOLEAN
      OBVIOUS
    <3>2. shown' = [shown EXCEPT ![d] = (run.at = "projected")] \/ shown' = shown
      BY <1>14 DEF RunCompletes
    <3> QED
      BY <3>1, <3>2, Zenon DEF TypeOK
  <2>3. pending' \in SUBSET Draft
    BY <1>14 DEF RunCompletes, TypeOK
  <2> QED
    BY <1>14, <2>1, <2>2, <2>3 DEF RunCompletes, git, disk, TypeOK
<1>15. ASSUME NEW d \in Draft, SaveObserve(d) PROVE TypeOK'
  <2>1. save' \in [Draft -> SaveState]
    <3>1. CASE folder \in {draft[d].from} \cup (IF shown[d] THEN {TreeOf(d)} ELSE {})
      <4>1. folder \in Tree
        BY <3>1
      <4> QED
        <5>1. save' = [save EXCEPT ![d].at = "observed", ![d].seen = folder]
          BY <1>15, <3>1 DEF SaveObserve
        <5> QED
          BY <4>1, <5>1, SaveAtWith
    <3>2. CASE SaveEnds(d)
      BY <3>2 DEF SaveEnds, TypeOK
    <3> QED
      BY <1>15, <3>1, <3>2 DEF SaveObserve
  <2> QED
    BY <1>15, <2>1 DEF SaveObserve, facts, git, disk, memory, TypeOK
<1>16. ASSUME NEW d \in Draft, SaveRecord(d) PROVE TypeOK'
  <2>1. StampOf(d) \in Nat
    BY DEF StampOf, TypeOK
  <2>2. save' \in [Draft -> SaveState]
    <3>1. \/ save' = [save EXCEPT ![d].at = "recorded", ![d].repair = FALSE]
          \/ save' = [save EXCEPT ![d].at = "recorded", ![d].repair = TRUE]
      BY <1>16 DEF SaveRecord
    <3>2. /\ [save EXCEPT ![d].at = "recorded", ![d].repair = FALSE] \in [Draft -> SaveState]
          /\ [save EXCEPT ![d].at = "recorded", ![d].repair = TRUE] \in [Draft -> SaveState]
      BY SaveAtWith
    <3> QED
      BY <3>1, <3>2
  <2>3. selected' \in Rev /\ recorded' \in [Draft -> Nat]
    BY <1>16, <2>1 DEF SaveRecord, TypeOK, Rev
  <2> QED
    BY <1>16, <2>1, <2>2, <2>3 DEF SaveRecord, git, disk, TypeOK
<1>17. ASSUME NEW d \in Draft, SaveIsRefused(d) PROVE TypeOK'
  BY <1>17 DEF SaveIsRefused, SaveEnds, StampOf, facts, git, disk, TypeOK
<1>18. ASSUME NEW d \in Draft, SaveProjects(d) PROVE TypeOK'
  <2>1. job' \in JobState
    BY <1>18, EnqueueType DEF SaveProjects, Rev
  <2>2. save' \in [Draft -> SaveState]
    BY <1>18, SaveAt DEF SaveProjects, SaveGoes
  <2> QED
    BY <1>18, <2>1, <2>2 DEF SaveProjects, facts, git, disk, memory, TypeOK
<1>19. ASSUME NEW d \in Draft, SaveLoads(d) PROVE TypeOK'
  BY <1>19, SaveAt DEF SaveLoads, SaveGoes, facts, git, disk, memory, TypeOK
<1>20. ASSUME NEW d \in Draft, SaveAccepts(d) PROVE TypeOK'
  BY <1>20 DEF SaveAccepts, SaveEnds, Appends, git, disk, TypeOK
<1>21. ASSUME NEW d \in Draft, SaveFails(d) PROVE TypeOK'
  BY <1>21 DEF SaveFails, SaveEnds, facts, git, disk, TypeOK
<1>22. ASSUME NEW d \in Draft, EndCheck(d) PROVE TypeOK'
  <2>1. PICK c \in {check[d]} \cup Outcomes : check' = [check EXCEPT ![d] = c]
    BY <1>22 DEF EndCheck
  <2>2. c \in {"absent", "passed", "failed", "blocked", "skipped"}
    BY SaveAssumption DEF TypeOK
  <2>3. check' \in [Draft -> {"absent", "passed", "failed", "blocked", "skipped"}]
    BY <2>1, <2>2 DEF TypeOK
  <2>4. active' \in [Draft -> {"free", "check", "save"}]
    BY <1>22 DEF EndCheck, TypeOK
  <2> QED
    BY <1>22, <2>3, <2>4 DEF EndCheck, git, disk, TypeOK
<1>23. ASSUME NEW d \in Draft, Generate(d) PROVE TypeOK'
  <2>1. PICK to \in Tree :
           \/ folder \in Tree /\ Starts(d, None, folder, to, folder, FALSE)
           \/ /\ selected # None
              /\ Starts(d, selected, TreeOf(selected), to, TreeOf(selected), FALSE)
    BY <1>23 DEF Generate
  <2>2. None \in Rev /\ selected \in Rev /\ (selected # None => TreeOf(selected) \in Tree)
    BY DEF TypeOK, Rev
  <2> QED
    BY <2>1, <2>2, StartsType
<1>24. ASSUME NEW d \in Draft, NEW p \in Draft, ContinueDraft(d, p) PROVE TypeOK'
  <2> DEFINE from == IF selected = None THEN EmptyTree ELSE TreeOf(selected)
  <2> DEFINE expect == IF shown[p] THEN TreeOf(p) ELSE from
  <2>1. PICK to \in Tree : Starts(d, draft[p].base, from, to, expect, shown[p])
    BY <1>24 DEF ContinueDraft
  <2>2. from \in Tree /\ expect \in Tree /\ draft[p].base \in Rev /\ shown[p] \in BOOLEAN
    BY SaveAssumption DEF TypeOK, Rev
  <2> QED
    BY <2>1, <2>2, StartsType
<1>25. ASSUME NEW d \in Draft, RejectDraft(d) PROVE TypeOK'
  BY <1>25 DEF RejectDraft, UserAppends, Appends, git, disk, TypeOK
<1>26. ASSUME NEW d \in Draft, BeginCheck(d) \/ CheckIsBlocked(d) \/ SkipCheck(d) PROVE TypeOK'
  BY <1>26 DEF BeginCheck, CheckIsBlocked, SkipCheck, facts, git, disk, memory, TypeOK
<1>27. ASSUME NEW d \in Draft, SaveStart(d) PROVE TypeOK'
  <2>1. save' \in [Draft -> SaveState]
    BY <1>27, SaveAtWith DEF SaveStart, TypeOK
  <2> QED
    BY <1>27, <2>1 DEF SaveStart, facts, git, disk, TypeOK
<1>28. CASE UNCHANGED vars
  BY <1>28 DEF vars, facts, git, disk, memory, TypeOK
<1> QED
  BY <1>1, <1>2, <1>3, <1>4, <1>5, <1>6, <1>7, <1>8, <1>9, <1>10, <1>11, <1>12, <1>13,
     <1>14, <1>15, <1>16, <1>17, <1>18, <1>19, <1>20, <1>21, <1>22, <1>23, <1>24, <1>25,
     <1>26, <1>27, <1>28
  DEF Next, Projection, RunStep, SaveStep

-----------------------------------------------------------------------------
(* The invariant is inductive *)

(* Nothing has happened, so nothing is wrong. *)
LEMMA InvInit == Init => IInv
<1> SUFFICES ASSUME Init PROVE IInv
  OBVIOUS
<1>1. TypeOK
  BY IdleTypes, SaveAssumption DEF Init, TypeOK, Rev, Folder
<1>2. JobInv /\ RunInv /\ TurnInv
  BY SaveAssumption DEF Init, JobInv, RunInv, TurnInv, NoJob, NoRun
<1>3. SaveInv
  BY DEF Init, SaveInv, PastGate, NoSave
<1>4. HistoryInv /\ AcceptInv
  BY DEF Init, HistoryInv, AcceptInv, LinearHistory
<1> QED
  BY <1>1, <1>2, <1>3, <1>4 DEF IInv

(* The end of a job moves at most the save that waits for it, which stays   *)
(* behind its gate.                                                         *)
LEMMA JobEndsInv ==
    ASSUME IInv, NEW ok \in BOOLEAN, JobEnds(ok), UNCHANGED <<facts, draft, memory>>
    PROVE  JobInv' /\ RunInv' /\ TurnInv' /\ SaveInv' /\ HistoryInv' /\ AcceptInv'
<1>1. JobInv' /\ TurnInv'
  BY DEF IInv, JobInv, TurnInv, JobEnds, NoJob, facts
<1>2. RunInv'
  <2>1. run'.draft = run.draft
    BY DEF IInv, TypeOK, RunState, JobEnds
  <2> QED
    BY <2>1 DEF IInv, RunInv, facts
<1>3. \A d \in Draft :
         \/ save'[d] = save[d]
         \/ /\ PastGate(d) /\ save'[d].stamp = save[d].stamp
            /\ save[d] # NoSave
  <2>1. CASE job.for # "save"
    BY <2>1 DEF JobEnds
  <2>2. CASE job.for = "save"
    <3>1. job.draft \in Draft /\ save[job.draft].at = "projecting"
      BY <2>2 DEF IInv, JobInv
    <3>2. save[job.draft] # NoSave
      BY <3>1 DEF NoSave
    <3>3. save[job.draft] \in SaveState
      BY <3>1 DEF IInv, TypeOK
    <3>4. save'[job.draft].stamp = save[job.draft].stamp
      BY <2>2, <3>1, <3>3 DEF JobEnds, SaveState, IInv, TypeOK
    <3>5. \A d \in Draft : d # job.draft => save'[d] = save[d]
      BY <2>2 DEF JobEnds, IInv, TypeOK
    <3> QED
      BY <3>1, <3>2, <3>4, <3>5 DEF PastGate
  <2> QED
    BY <2>1, <2>2
<1>4. SaveInv'
  BY <1>3 DEF IInv, SaveInv, PastGate, facts, memory
<1>5. HistoryInv'
  BY DEF IInv, HistoryInv, LinearHistory, facts
<1>6. AcceptInv'
  BY <1>3 DEF IInv, AcceptInv, facts, memory
<1> QED
  BY <1>1, <1>2, <1>4, <1>5, <1>6

(* Interrupting a turn touches no draft that was ready. *)
LEMMA InterruptedInv ==
    ASSUME IInv, status' = Interrupted, head' = head + 1,
           UNCHANGED <<selected, recorded, check, draft, memory, run, save, job>>
    PROVE  JobInv' /\ RunInv' /\ SaveInv' /\ HistoryInv' /\ AcceptInv'
<1>1. JobInv'
  BY DEF IInv, JobInv
<1>2. \A d \in Draft : status'[d] = status[d] \/ (status[d] = "working" /\ status'[d] = "failed")
  BY DEF IInv, TypeOK, TurnInv, Interrupted
<1>3. RunInv'
  BY <1>2 DEF IInv, RunInv
<1>4. SaveInv'
  BY <1>2 DEF IInv, SaveInv, PastGate, memory
<1>5. HistoryInv'
  BY <1>2 DEF IInv, TypeOK, HistoryInv, LinearHistory
<1>6. AcceptInv'
  BY <1>2 DEF IInv, AcceptInv, memory
<1> QED
  BY <1>1, <1>3, <1>4, <1>5, <1>6

(* A new draft starts from a recorded revision, and is itself none. *)
LEMMA StartsInv ==
    ASSUME IInv, NEW d \in Draft, NEW b \in Rev, NEW from \in Tree, NEW to \in Tree,
           NEW expect \in Tree, NEW repair \in BOOLEAN,
           Starts(d, b, from, to, expect, repair),
           b # None => recorded[b] # 0
    PROVE  JobInv' /\ RunInv' /\ TurnInv' /\ SaveInv' /\ HistoryInv' /\ AcceptInv'
<1>1. JobInv'
  BY DEF IInv, JobInv, Starts
<1>2. /\ status[d] = "none" /\ status'[d] = "working"
      /\ \A e \in Draft \ {d} :
            status'[e] = status[e] \/ (status[e] = "working" /\ status'[e] = "failed")
  BY DEF IInv, TypeOK, TurnInv, Starts, Interrupted
<1>3. RunInv' /\ TurnInv'
  BY <1>2 DEF RunInv, TurnInv, Starts, Begins
<1>4. SaveInv'
  BY <1>2 DEF IInv, SaveInv, PastGate, Starts, memory
<1>5. HistoryInv'
  <2>1. recorded[d] = 0
    BY <1>2 DEF IInv, HistoryInv
  <2>2. draft'[d].base = b /\ \A e \in Draft \ {d} : draft'[e] = draft[e]
    BY DEF IInv, TypeOK, Starts
  <2>3. head' > 0 /\ UNCHANGED <<selected, recorded>>
    BY DEF IInv, TypeOK, Starts, Begins, UserAppends, Appends
  <2>4. LinearHistory'
    BY <2>1, <2>2, <2>3 DEF IInv, HistoryInv, LinearHistory
  <2> QED
    BY <1>2, <2>1, <2>2, <2>3, <2>4 DEF IInv, HistoryInv
<1>6. AcceptInv'
  BY <1>2 DEF IInv, AcceptInv, Starts, memory
<1> QED
  BY <1>1, <1>3, <1>4, <1>5, <1>6

(* Who has not changed keeps its part of the invariant. *)
LEMMA Frame ==
    ASSUME IInv
    PROVE  /\ UNCHANGED <<job, save>> => JobInv'
           /\ UNCHANGED <<run, status>> => RunInv'
           /\ UNCHANGED <<turn, status>> => TurnInv'
           /\ UNCHANGED <<save, status, pending, recorded, active, check>> => SaveInv'
           /\ UNCHANGED <<selected, recorded, status, head, draft>> => HistoryInv'
           /\ UNCHANGED <<status, recorded, pending, attempts, save>> => AcceptInv'
BY DEF IInv, JobInv, RunInv, TurnInv, SaveInv, PastGate, HistoryInv, LinearHistory, AcceptInv

(* A save that is over is at no phase. *)
LEMMA NoneAt == NoSave.at = "none"
BY DEF NoSave

(* Every step keeps the invariant. *)
LEMMA InvStep == IInv /\ [Next]_vars => IInv'
<1> SUFFICES ASSUME IInv, [Next]_vars
             PROVE  JobInv' /\ RunInv' /\ TurnInv' /\ SaveInv' /\ HistoryInv' /\ AcceptInv'
  BY TypeStep DEF IInv
<1> USE Frame DEF facts, git, disk, memory
<1>1. CASE JobRecovers
  <2>1. CASE job.for = "open"
    BY <1>1, <2>1, JobEndsInv DEF JobRecovers
  <2>2. CASE job.for # "open"
    <3>1. JobInv'
      BY <1>1, <2>2 DEF JobRecovers, IInv, JobInv, TypeOK, JobState
    <3> QED
      BY <1>1, <2>2, <3>1 DEF JobRecovers
  <2> QED
    BY <2>1, <2>2
<1>2. CASE JobApplies
  <2>1. JobInv'
    BY <1>2 DEF JobApplies, IInv, JobInv, TypeOK, JobState
  <2> QED
    BY <1>2, <2>1 DEF JobApplies
<1>3. CASE RecoveryRefuses \/ JobRefuses \/ JobCommits \/ JobUndoes
  BY <1>3, JobEndsInv DEF RecoveryRefuses, JobRefuses, JobCommits, JobUndoes
<1>4. CASE Ask
  <2>1. TurnInv'
    BY <1>4, SaveAssumption DEF Ask, Begins, TurnInv
  <2> QED
    BY <1>4, <2>1, InterruptedInv DEF Ask, Begins, UserAppends, Appends
<1>5. CASE TurnEnds
  <2>1. TurnInv'
    BY <1>5, SaveAssumption DEF TurnEnds, TurnInv
  <2> QED
    BY <1>5, <2>1, InterruptedInv DEF TurnEnds, Appends
<1>6. CASE Open
  <2>1. JobInv'
    BY <1>6 DEF Open, Enqueue, IInv, TypeOK, Rev, JobInv
  <2> QED
    BY <1>6, <2>1 DEF Open
<1>7. CASE Crash
  <2>1. JobInv' /\ RunInv'
    BY <1>7, SaveAssumption DEF Crash, JobInv, RunInv, NoJob, NoRun
  <2>2. SaveInv'
    BY <1>7 DEF Crash, SaveInv, PastGate, NoSave
  <2>3. AcceptInv'
    BY <1>7 DEF Crash, IInv, AcceptInv
  <2> QED
    BY <1>7, <2>1, <2>2, <2>3 DEF Crash
<1>8. CASE UserEdits
  BY <1>8 DEF UserEdits
<1>9. ASSUME NEW d \in Draft, RunChecks(d)
      PROVE  JobInv' /\ RunInv' /\ TurnInv' /\ SaveInv' /\ HistoryInv' /\ AcceptInv'
  <2>1. status[d] \in {"working", "failed"}
    BY <1>9 DEF RunChecks, IInv, RunInv
  <2>2. /\ status' = status \/ (status' = [status EXCEPT ![d] = "failed"] /\ turn' = None)
        /\ head' = head \/ head' = head + 1
        /\ run'.draft \in {d, None}
        /\ check' = check \/ \E c \in {"absent"} \cup Outcomes : check' = [check EXCEPT ![d] = c]
        /\ turn' = turn \/ turn' = None
    BY <1>9 DEF RunChecks, RunFails, Appends, NoRun, IInv, TypeOK, RunState
  <2>3. /\ status'[d] \in {"working", "failed"}
        /\ \A e \in Draft \ {d} : status'[e] = status[e] /\ check'[e] = check[e]
    BY <2>1, <2>2 DEF IInv, TypeOK
  <2>4. RunInv'
    BY <2>2, <2>3, SaveAssumption DEF RunInv
  <2>5. TurnInv'
    BY <2>2, <2>3, SaveAssumption DEF IInv, TypeOK, TurnInv
  <2>6. SaveInv'
    <3>1. save[d] = NoSave
      BY <2>1 DEF IInv, SaveInv
    <3> QED
      BY <1>9, <2>3, <3>1 DEF RunChecks, IInv, SaveInv, PastGate, NoSave
  <2>7. HistoryInv'
    BY <1>9, <2>1, <2>2, <2>3 DEF RunChecks, IInv, TypeOK, HistoryInv, LinearHistory
  <2>8. AcceptInv'
    BY <1>9, <2>3 DEF RunChecks, IInv, AcceptInv
  <2> QED
    BY <1>9, <2>4, <2>5, <2>6, <2>7, <2>8 DEF RunChecks
<1>10. ASSUME NEW d \in Draft, RunProjects(d)
      PROVE  JobInv' /\ RunInv' /\ TurnInv' /\ SaveInv' /\ HistoryInv' /\ AcceptInv'
  <2>1. JobInv'
    BY <1>10 DEF RunProjects, Enqueue, JobInv
  <2>2. RunInv'
    BY <1>10 DEF RunProjects, IInv, TypeOK, RunState, RunInv
  <2> QED
    BY <1>10, <2>1, <2>2 DEF RunProjects
<1>11. ASSUME NEW d \in Draft, RunCompletes(d)
      PROVE  JobInv' /\ RunInv' /\ TurnInv' /\ SaveInv' /\ HistoryInv' /\ AcceptInv'
  <2>1. status[d] \in {"working", "failed"}
    BY <1>11 DEF RunCompletes, IInv, RunInv
  <2>2. run' = NoRun /\ (turn' = turn \/ turn' = None) /\ (turn = d => turn' = None)
    BY <1>11 DEF RunCompletes, RunFails
  <2>3. /\ head' = head \/ head' = head + 1
        /\ \/ status' = status /\ turn # d /\ pending' = pending
           \/ status' = [status EXCEPT ![d] = "failed"] /\ pending' = pending
           \/ status' = [status EXCEPT ![d] = "ready"] /\ pending' = pending \cup {d}
    BY <1>11 DEF RunCompletes, RunFails, Appends
  <2>4. /\ status'[d] \in {"working", "failed", "ready"}
        /\ \A e \in Draft \ {d} : /\ status'[e] = status[e]
                                  /\ e \in pending' <=> e \in pending
    BY <2>1, <2>3 DEF IInv, TypeOK
  <2>5. RunInv'
    BY <2>2, SaveAssumption DEF RunInv, NoRun
  <2>6. TurnInv'
    BY <2>2, <2>3, <2>4, SaveAssumption DEF IInv, TypeOK, TurnInv
  <2>7. SaveInv'
    <3>1. save[d] = NoSave
      BY <2>1 DEF IInv, SaveInv
    <3> QED
      BY <1>11, <2>4, <3>1 DEF RunCompletes, IInv, SaveInv, PastGate, NoSave
  <2>8. HistoryInv'
    BY <1>11, <2>1, <2>3, <2>4 DEF RunCompletes, IInv, TypeOK, HistoryInv, LinearHistory
  <2>9. AcceptInv'
    BY <1>11, <2>4 DEF RunCompletes, IInv, AcceptInv
  <2> QED
    BY <1>11, <2>5, <2>6, <2>7, <2>8, <2>9 DEF RunCompletes
<1>12. ASSUME NEW d \in Draft, SaveObserve(d)
      PROVE  JobInv' /\ RunInv' /\ TurnInv' /\ SaveInv' /\ HistoryInv' /\ AcceptInv'
  <2>1. save[d] # NoSave /\ ~PastGate(d)
    BY <1>12 DEF SaveObserve, NoSave, PastGate
  <2>2. /\ \A e \in Draft \ {d} : save'[e] = save[e]
        /\ save'[d] = NoSave \/ (save'[d].at = "observed" /\ save'[d].stamp = save[d].stamp)
    <3>1. save[d] \in SaveState
      BY DEF IInv, TypeOK
    <3> QED
      BY <1>12, <3>1 DEF SaveObserve, SaveEnds, IInv, TypeOK, SaveState
  <2>3. JobInv'
    BY <1>12, <2>2 DEF SaveObserve, IInv, JobInv
  <2>4. SaveInv'
    BY <1>12, <2>1, <2>2, NoneAt DEF SaveObserve, IInv, SaveInv, PastGate
  <2>5. AcceptInv'
    BY <1>12, <2>1, <2>2 DEF SaveObserve, IInv, AcceptInv
  <2> QED
    BY <1>12, <2>3, <2>4, <2>5 DEF SaveObserve
<1>13. ASSUME NEW d \in Draft, SaveRecord(d)
      PROVE  JobInv' /\ RunInv' /\ TurnInv' /\ SaveInv' /\ HistoryInv' /\ AcceptInv'
  <2>1. /\ save[d] # NoSave /\ save[d].stamp > 0
        /\ status[d] \in {"ready", "rejected"}
        /\ status[d] = "ready" => d \in pending
        /\ check[d] \in {"passed", "skipped", "blocked"}
    BY <1>13 DEF SaveRecord, MayBeSaved, IInv, SaveInv, NoSave
  <2>2. StampOf(d) \in Nat /\ StampOf(d) > 0
    BY <2>1 DEF StampOf, IInv, TypeOK, SaveState
  <2>3. /\ \A e \in Draft \ {d} : /\ save'[e] = save[e] /\ active'[e] = active[e]
                                  /\ recorded'[e] = recorded[e] /\ attempts'[e] = attempts[e]
        /\ save'[d].at = "recorded" /\ save'[d].stamp = save[d].stamp
        /\ active'[d] = "save" /\ recorded'[d] = StampOf(d)
    <3>1. save[d] \in SaveState
      BY DEF IInv, TypeOK
    <3> QED
      BY <1>13, <3>1 DEF SaveRecord, IInv, TypeOK, SaveState
  <2>4. \/ UNCHANGED <<selected, recorded>>
        \/ recorded[d] = 0 /\ selected = draft[d].base /\ selected' = d
    BY <1>13 DEF SaveRecord, BaseIsCurrent
  <2>5. JobInv'
    BY <1>13, <2>3 DEF SaveRecord, IInv, JobInv
  <2>6. SaveInv'
    BY <1>13, <2>1, <2>2, <2>3 DEF SaveRecord, IInv, SaveInv, PastGate
  <2>7. HistoryInv'
    <3>1. CASE UNCHANGED <<selected, recorded>>
      BY <1>13, <3>1 DEF SaveRecord
    <3>2. CASE recorded[d] = 0 /\ selected = draft[d].base /\ selected' = d
      <4>1. /\ selected' # None => recorded'[selected'] # 0
            /\ \A e \in Draft : recorded[e] # 0 => recorded'[e] # 0
        BY <2>2, <2>3, <3>2
      <4>2. \A e \in Draft : status[e] # "none" /\ draft[e].base # None =>
                draft[e].base # d /\ recorded[draft[e].base] # 0
        BY <3>2 DEF IInv, HistoryInv
      <4>3. \A e \in Draft : recorded'[e] # 0 => status[e] # "none"
        BY <2>1, <2>3 DEF IInv, HistoryInv
      <4>4. \A e \in Draft : recorded'[e] # 0 => draft[e].base # d
        BY <4>2, <4>3, SaveAssumption
      <4>5. \A e \in Draft \ {d} : recorded'[e] # 0 => draft[e].base # draft[d].base
        BY <2>3, <3>2 DEF IInv, HistoryInv, LinearHistory
      <4>6. \A e, f \in Draft \ {d} :
               recorded'[e] # 0 /\ recorded'[f] # 0 /\ e # f => draft[e].base # draft[f].base
        BY <2>3 DEF IInv, HistoryInv, LinearHistory
      <4>7. LinearHistory'
        BY <1>13, <3>2, <4>4, <4>5, <4>6 DEF SaveRecord, LinearHistory
      <4>8. \A e \in Draft : draft[e].base \in Rev
        BY FieldTypes DEF IInv
      <4> QED
        BY <1>13, <4>1, <4>2, <4>3, <4>7, <4>8 DEF SaveRecord, IInv, HistoryInv, Rev
    <3> QED
      BY <2>4, <3>1, <3>2
  <2>8. AcceptInv'
    BY <1>13, <2>1, <2>3 DEF SaveRecord, IInv, AcceptInv
  <2> QED
    BY <1>13, <2>5, <2>6, <2>7, <2>8 DEF SaveRecord
<1>14. ASSUME NEW d \in Draft, SaveIsRefused(d)
      PROVE  JobInv' /\ RunInv' /\ TurnInv' /\ SaveInv' /\ HistoryInv' /\ AcceptInv'
  <2>1. save[d] # NoSave /\ save[d].at # "projecting"
    BY <1>14 DEF SaveIsRefused, NoSave
  <2>2. /\ \A e \in Draft \ {d} : save'[e] = save[e] /\ attempts'[e] = attempts[e]
        /\ save'[d] = NoSave
    BY <1>14 DEF SaveIsRefused, SaveEnds, IInv, TypeOK
  <2>3. JobInv'
    BY <1>14, <2>1, <2>2 DEF SaveIsRefused, IInv, JobInv
  <2>4. SaveInv'
    BY <1>14, <2>2, NoneAt DEF SaveIsRefused, IInv, SaveInv, PastGate
  <2>5. AcceptInv'
    BY <1>14, <2>1, <2>2 DEF SaveIsRefused, IInv, AcceptInv
  <2> QED
    BY <1>14, <2>3, <2>4, <2>5 DEF SaveIsRefused
<1>15. ASSUME NEW d \in Draft, SaveProjects(d)
      PROVE  JobInv' /\ RunInv' /\ TurnInv' /\ SaveInv' /\ HistoryInv' /\ AcceptInv'
  <2>1. save[d] # NoSave /\ PastGate(d) /\ save[d].at = "recorded"
    BY <1>15 DEF SaveProjects, NoSave, PastGate
  <2>2. /\ \A e \in Draft \ {d} : save'[e] = save[e]
        /\ save'[d].at = "projecting" /\ save'[d].stamp = save[d].stamp
    <3>1. save[d] \in SaveState
      BY DEF IInv, TypeOK
    <3> QED
      BY <1>15, <3>1 DEF SaveProjects, SaveGoes, IInv, TypeOK, SaveState
  <2>3. JobInv'
    BY <1>15, <2>1, <2>2 DEF SaveProjects, Enqueue, IInv, JobInv
  <2>4. SaveInv'
    BY <1>15, <2>1, <2>2 DEF SaveProjects, IInv, SaveInv, PastGate
  <2>5. AcceptInv'
    BY <1>15, <2>1, <2>2 DEF SaveProjects, IInv, AcceptInv
  <2> QED
    BY <1>15, <2>3, <2>4, <2>5 DEF SaveProjects
<1>16. ASSUME NEW d \in Draft, SaveLoads(d)
      PROVE  JobInv' /\ RunInv' /\ TurnInv' /\ SaveInv' /\ HistoryInv' /\ AcceptInv'
  <2>1. save[d] # NoSave /\ PastGate(d) /\ save[d].at = "projected"
    BY <1>16 DEF SaveLoads, NoSave, PastGate
  <2>2. /\ \A e \in Draft \ {d} : save'[e] = save[e]
        /\ save'[d].at \in {"loaded", "failed"} /\ save'[d].stamp = save[d].stamp
    <3>1. save[d] \in SaveState
      BY DEF IInv, TypeOK
    <3> QED
      BY <1>16, <3>1 DEF SaveLoads, SaveGoes, IInv, TypeOK, SaveState
  <2>3. JobInv'
    BY <1>16, <2>1, <2>2 DEF SaveLoads, IInv, JobInv
  <2>4. SaveInv'
    BY <1>16, <2>1, <2>2 DEF SaveLoads, IInv, SaveInv, PastGate
  <2>5. AcceptInv'
    BY <1>16, <2>1, <2>2 DEF SaveLoads, IInv, AcceptInv
  <2> QED
    BY <1>16, <2>3, <2>4, <2>5 DEF SaveLoads
<1>17. ASSUME NEW d \in Draft, SaveAccepts(d)
      PROVE  JobInv' /\ RunInv' /\ TurnInv' /\ SaveInv' /\ HistoryInv' /\ AcceptInv'
  <2>1. /\ PastGate(d) /\ recorded[d] # 0 /\ d \in pending
        /\ save[d].at # "projecting" /\ status[d] = "ready"
    <3>1. save[d] # NoSave /\ PastGate(d)
      BY <1>17 DEF SaveAccepts, NoSave, PastGate
    <3> QED
      BY <1>17, <3>1 DEF SaveAccepts, IInv, SaveInv
  <2>2. /\ \A e \in Draft \ {d} : /\ save'[e] = save[e] /\ attempts'[e] = attempts[e]
                                  /\ active'[e] = active[e] /\ status'[e] = status[e]
                                  /\ e \in pending' <=> e \in pending
        /\ save'[d] = NoSave /\ attempts'[d] = 0 /\ status'[d] = "accepted" /\ d \notin pending'
    BY <1>17, <2>1 DEF SaveAccepts, SaveEnds, IInv, TypeOK
  <2>3. JobInv'
    BY <1>17, <2>1, <2>2 DEF SaveAccepts, IInv, JobInv
  <2>4. RunInv' /\ TurnInv'
    BY <1>17, <2>2, SaveAssumption DEF SaveAccepts, IInv, RunInv, TurnInv
  <2>5. SaveInv'
    BY <1>17, <2>2, NoneAt DEF SaveAccepts, IInv, SaveInv, PastGate
  <2>6. HistoryInv'
    BY <1>17, <2>1, <2>2 DEF SaveAccepts, Appends, IInv, TypeOK, HistoryInv, LinearHistory
  <2>7. AcceptInv'
    BY <1>17, <2>1, <2>2 DEF SaveAccepts, IInv, AcceptInv
  <2> QED
    BY <2>3, <2>4, <2>5, <2>6, <2>7
<1>18. ASSUME NEW d \in Draft, SaveFails(d)
      PROVE  JobInv' /\ RunInv' /\ TurnInv' /\ SaveInv' /\ HistoryInv' /\ AcceptInv'
  <2>1. save[d] # NoSave /\ save[d].at # "projecting"
    BY <1>18 DEF SaveFails, NoSave
  <2>2. /\ \A e \in Draft \ {d} : save'[e] = save[e] /\ active'[e] = active[e]
        /\ save'[d] = NoSave
    BY <1>18 DEF SaveFails, SaveEnds, IInv, TypeOK
  <2>3. JobInv'
    BY <1>18, <2>1, <2>2 DEF SaveFails, IInv, JobInv
  <2>4. SaveInv'
    BY <1>18, <2>2, NoneAt DEF SaveFails, IInv, SaveInv, PastGate
  <2>5. AcceptInv'
    BY <1>18, <2>1, <2>2 DEF SaveFails, IInv, AcceptInv
  <2> QED
    BY <1>18, <2>3, <2>4, <2>5 DEF SaveFails
<1>19. ASSUME NEW d \in Draft, EndCheck(d)
      PROVE  JobInv' /\ RunInv' /\ TurnInv' /\ SaveInv' /\ HistoryInv' /\ AcceptInv'
  <2>1. ~PastGate(d)
    BY <1>19 DEF EndCheck, IInv, SaveInv
  <2>2. \A e \in Draft \ {d} : active'[e] = active[e] /\ check'[e] = check[e]
    BY <1>19 DEF EndCheck, IInv, TypeOK
  <2>3. SaveInv'
    BY <1>19, <2>1, <2>2 DEF EndCheck, IInv, SaveInv, PastGate
  <2> QED
    BY <1>19, <2>3 DEF EndCheck
<1>20. ASSUME NEW d \in Draft, Generate(d)
      PROVE  JobInv' /\ RunInv' /\ TurnInv' /\ SaveInv' /\ HistoryInv' /\ AcceptInv'
  <2>1. PICK to \in Tree :
           \/ folder \in Tree /\ Starts(d, None, folder, to, folder, FALSE)
           \/ /\ selected # None
              /\ Starts(d, selected, TreeOf(selected), to, TreeOf(selected), FALSE)
    BY <1>20 DEF Generate
  <2>2. /\ None \in Rev /\ selected \in Rev
        /\ selected # None => TreeOf(selected) \in Tree /\ recorded[selected] # 0
    BY FieldTypes DEF IInv, TypeOK, Rev, HistoryInv
  <2> QED
    BY <2>1, <2>2, StartsInv
<1>21. ASSUME NEW d \in Draft, NEW p \in Draft, ContinueDraft(d, p)
      PROVE  JobInv' /\ RunInv' /\ TurnInv' /\ SaveInv' /\ HistoryInv' /\ AcceptInv'
  <2> DEFINE from == IF selected = None THEN EmptyTree ELSE TreeOf(selected)
  <2> DEFINE expect == IF shown[p] THEN TreeOf(p) ELSE from
  <2>1. PICK to \in Tree : Starts(d, draft[p].base, from, to, expect, shown[p])
    BY <1>21 DEF ContinueDraft
  <2>2. /\ from \in Tree /\ expect \in Tree /\ draft[p].base \in Rev /\ shown[p] \in BOOLEAN
        /\ draft[p].base # None => recorded[draft[p].base] # 0
    BY <1>21, FieldTypes, SaveAssumption DEF ContinueDraft, IInv, TypeOK, Rev, HistoryInv
  <2> QED
    BY <2>1, <2>2, StartsInv
<1>22. ASSUME NEW d \in Draft, RejectDraft(d)
      PROVE  JobInv' /\ RunInv' /\ TurnInv' /\ SaveInv' /\ HistoryInv' /\ AcceptInv'
  <2>1. /\ \A e \in Draft \ {d} : /\ status'[e] = status[e]
                                  /\ e \in pending' <=> e \in pending
        /\ status'[d] = "rejected" /\ status[d] = "ready"
    BY <1>22 DEF RejectDraft, IInv, TypeOK
  <2>2. RunInv' /\ TurnInv'
    BY <1>22, <2>1, SaveAssumption DEF RejectDraft, IInv, RunInv, TurnInv
  <2>3. SaveInv'
    BY <1>22, <2>1 DEF RejectDraft, IInv, SaveInv, PastGate
  <2>4. HistoryInv'
    BY <1>22, <2>1 DEF RejectDraft, UserAppends, Appends, IInv, TypeOK, HistoryInv, LinearHistory
  <2>5. AcceptInv'
    BY <1>22, <2>1 DEF RejectDraft, IInv, AcceptInv
  <2> QED
    BY <1>22, <2>2, <2>3, <2>4, <2>5 DEF RejectDraft
<1>23. ASSUME NEW d \in Draft, BeginCheck(d) \/ CheckIsBlocked(d) \/ SkipCheck(d)
      PROVE  JobInv' /\ RunInv' /\ TurnInv' /\ SaveInv' /\ HistoryInv' /\ AcceptInv'
  <2>1. PastGate(d) => check'[d] = "blocked" /\ active' = active
    BY <1>23 DEF BeginCheck, CheckIsBlocked, SkipCheck, IInv, TypeOK, SaveInv, memory
  <2>2. \A e \in Draft \ {d} : active'[e] = active[e] /\ check'[e] = check[e]
    BY <1>23 DEF BeginCheck, CheckIsBlocked, SkipCheck, IInv, TypeOK
  <2>3. SaveInv'
    BY <1>23, <2>1, <2>2 DEF BeginCheck, CheckIsBlocked, SkipCheck, IInv, SaveInv, PastGate
  <2> QED
    BY <1>23, <2>3 DEF BeginCheck, CheckIsBlocked, SkipCheck
<1>24. ASSUME NEW d \in Draft, SaveStart(d)
      PROVE  JobInv' /\ RunInv' /\ TurnInv' /\ SaveInv' /\ HistoryInv' /\ AcceptInv'
  <2>1. /\ \A e \in Draft \ {d} : /\ save'[e] = save[e]
                                  /\ e \in pending' <=> e \in pending
        /\ save'[d].at = "verified" /\ save'[d].stamp = head /\ d \in pending'
        /\ save[d].at = "none"
    <3>1. save[d] \in SaveState
      BY DEF IInv, TypeOK
    <3> QED
      BY <1>24, <3>1 DEF SaveStart, NoSave, IInv, TypeOK, SaveState
  <2>2. head > 0 /\ status[d] = "ready"
    BY <1>24 DEF SaveStart, IInv, HistoryInv
  <2>3. JobInv'
    BY <1>24, <2>1 DEF SaveStart, IInv, JobInv
  <2>4. SaveInv'
    BY <1>24, <2>1, <2>2 DEF SaveStart, IInv, SaveInv, PastGate
  <2>5. AcceptInv'
    BY <1>24, <2>1, <2>2 DEF SaveStart, IInv, AcceptInv
  <2> QED
    BY <1>24, <2>3, <2>4, <2>5 DEF SaveStart
<1>25. CASE UNCHANGED vars
  BY <1>25 DEF vars
<1> QED
  BY <1>1, <1>2, <1>3, <1>4, <1>5, <1>6, <1>7, <1>8, <1>9, <1>10, <1>11, <1>12,
     <1>13, <1>14, <1>15, <1>16, <1>17, <1>18, <1>19, <1>20, <1>21, <1>22,
     <1>23, <1>24, <1>25
  DEF Next, Projection, RunStep, SaveStep

-----------------------------------------------------------------------------
(* The folder *)

(* A draft that was started is never forgotten, and its trees are fixed. *)
LEMMA StartedStays ==
    ASSUME IInv, [Next]_vars
    PROVE  \A d \in Draft : Started(d) => status'[d] # "none" /\ draft'[d] = draft[d]
<1> SUFFICES ASSUME NEW d \in Draft, Started(d)
             PROVE  status'[d] # "none" /\ draft'[d] = draft[d]
  OBVIOUS
<1> USE DEF Started, facts, git, disk, memory
<1>1. CASE UNCHANGED <<status, draft>>
  BY <1>1
<1>2. CASE Ask \/ TurnEnds
  BY <1>2 DEF Ask, TurnEnds, Interrupted, IInv, TypeOK
<1>3. ASSUME NEW e \in Draft, RunChecks(e) \/ RunCompletes(e) \/ RejectDraft(e) \/ SaveAccepts(e)
      PROVE  status'[d] # "none" /\ draft'[d] = draft[d]
  BY <1>3 DEF RunChecks, RunCompletes, RunFails, RejectDraft, SaveAccepts, IInv, TypeOK
<1>4. ASSUME NEW e \in Draft, NEW b, NEW from, NEW to, NEW expect, NEW repair,
             Starts(e, b, from, to, expect, repair)
      PROVE  status'[d] # "none" /\ draft'[d] = draft[d]
  BY <1>4 DEF Starts, Interrupted, IInv, TypeOK
<1>5. ASSUME NEW e \in Draft, Generate(e) \/ \E q \in Draft : ContinueDraft(e, q)
      PROVE  status'[d] # "none" /\ draft'[d] = draft[d]
  <2>1. CASE Generate(e)
    BY <2>1, <1>4 DEF Generate
  <2>2. ASSUME NEW q \in Draft, ContinueDraft(e, q)
        PROVE  status'[d] # "none" /\ draft'[d] = draft[d]
    BY <2>2, <1>4 DEF ContinueDraft
  <2> QED
    BY <1>5, <2>1, <2>2
<1>6. CASE JobRecovers \/ RecoveryRefuses \/ JobApplies \/ JobRefuses \/ JobCommits \/ JobUndoes
           \/ Open \/ Crash \/ UserEdits
  BY <1>1, <1>6 DEF JobRecovers, RecoveryRefuses, JobApplies, JobRefuses, JobCommits, JobUndoes,
                    Open, Crash, UserEdits
<1>7. ASSUME NEW e \in Draft,
             \/ RunProjects(e) \/ SaveObserve(e) \/ SaveRecord(e) \/ SaveIsRefused(e)
             \/ SaveProjects(e) \/ SaveLoads(e) \/ SaveFails(e) \/ EndCheck(e)
             \/ BeginCheck(e) \/ CheckIsBlocked(e) \/ SkipCheck(e) \/ SaveStart(e)
      PROVE  status'[d] # "none" /\ draft'[d] = draft[d]
  BY <1>1, <1>7 DEF RunProjects, SaveObserve, SaveRecord, SaveIsRefused, SaveProjects, SaveLoads,
                    SaveFails, EndCheck, BeginCheck, CheckIsBlocked, SkipCheck, SaveStart
<1> QED
  BY <1>1, <1>2, <1>3, <1>5, <1>6, <1>7 DEF Next, Projection, RunStep, SaveStep, vars

(* The drafts that main, the journal and the queue name keep their trees.   *)
LEMMA NamedStay ==
    ASSUME IInv, FolderInv, [Next]_vars
    PROVE  /\ main # None => status'[main] # "none" /\ draft'[main] = draft[main]
           /\ job.at # "free" =>
                 /\ job.draft \in Draft
                 /\ status'[job.draft] # "none" /\ draft'[job.draft] = draft[job.draft]
           /\ journal # NoJournal => status'[journal.to] # "none"
           /\ journal # NoJournal /\ journal.from # None =>
                 status'[journal.from] # "none" /\ draft'[journal.from] = draft[journal.from]
  BY StartedStays, FieldTypes DEF IInv, TypeOK, Rev, JobInv, FolderInv, Started, TreeOf

(* A step that touches neither of them, or gives the queue away. *)
LEMMA FolderFrame ==
    ASSUME IInv, FolderInv, [Next]_vars, UNCHANGED <<main, folder, journal>>,
           \/ job' = job
           \/ job.at # "updating" /\ job' = NoJob
           \/ /\ job = NoJob /\ job'.at = "recovering"
              /\ job'.draft \in Draft /\ Started(job'.draft)
    PROVE  FolderInv'
<1>1. job' # job => job.at # "updating" /\ job'.at \notin {"inspecting", "updating"}
  BY DEF NoJob
<1>2. job'.at # "free" => status'[job'.draft] # "none"
  BY NamedStay, StartedStays DEF NoJob
<1> QED
  BY <1>1, <1>2, NamedStay DEF FolderInv, Started, TreeOf

(* At first no draft is named. *)
LEMMA FolderInit == Init => FolderInv
BY SaveAssumption DEF Init, FolderInv, NoJob

(* Every step keeps the folder's invariant. *)
LEMMA FolderStep ==
    ASSUME IInv, FolderInv, [Next]_vars
    PROVE  FolderInv'
<1> USE DEF facts, git, disk, memory
<1>1. CASE UNCHANGED <<main, folder, journal, job>>
  BY <1>1, FolderFrame
<1>2. CASE JobRecovers
  <2>1. /\ job.draft \in Draft /\ status'[job.draft] # "none"
        /\ draft'[job.draft] = draft[job.draft]
    BY <1>2, NamedStay DEF JobRecovers
  <2>2. journal' = NoJournal
    BY <1>2 DEF JobRecovers
  <2>3. main' # None => status'[main'] # "none"
    BY <1>2, <2>1, NamedStay DEF JobRecovers
  <2>4. main' # None /\ folder' # Edited => folder' = draft'[main'].to
    <3>1. CASE journal = NoJournal /\ UNCHANGED <<folder, journal, main>>
      BY <1>2, <3>1, NamedStay DEF JobRecovers, FolderInv, Started, TreeOf
    <3>2. CASE main' = job.draft /\ folder' = TreeOf(job.draft)
      BY <2>1, <3>2 DEF TreeOf
    <3>3. CASE journal # NoJournal /\ Restores /\ main' = main /\ folder' = journal.back
      BY <2>1, <3>3, NamedStay DEF Restores, FolderInv, Started, TreeOf
    <3> QED
      BY <1>2, <3>1, <3>2, <3>3 DEF JobRecovers
  <2>5. job' = NoJob \/ (job'.at = "inspecting" /\ job'.draft = job.draft)
    BY <1>2 DEF JobRecovers, JobEnds, IInv, TypeOK, JobState
  <2>6. job'.at \in {"free", "inspecting"} /\ (job'.at # "free" => status'[job'.draft] # "none")
    BY <2>1, <2>5 DEF NoJob
  <2> QED
    BY <2>2, <2>3, <2>4, <2>6 DEF FolderInv, Started, TreeOf
<1>3. CASE RecoveryRefuses \/ JobRefuses
  BY <1>3, FolderFrame DEF RecoveryRefuses, JobRefuses, JobEnds
<1>4. CASE JobApplies
  <2>1. /\ job.draft \in Draft /\ status'[job.draft] # "none"
        /\ draft'[job.draft] = draft[job.draft]
    BY <1>4, NamedStay DEF JobApplies
  <2>2. job'.at = "updating" /\ job'.draft = job.draft
    BY <1>4 DEF JobApplies, IInv, TypeOK, JobState
  <2>3. folder \in Tree
    BY <1>4, <2>1, FieldTypes DEF JobApplies, Admitted, IInv
  <2>4. main # None => folder = TreeOf(main)
    BY <1>4, <2>3, SaveAssumption DEF JobApplies, FolderInv, Started, TreeOf
  <2>5. /\ journal'.from = main /\ journal'.to = job.draft /\ journal'.back = folder
        /\ main' = main /\ folder' = TreeOf(job.draft)
    BY <1>4 DEF JobApplies
  <2> QED
    BY <2>1, <2>2, <2>4, <2>5, NamedStay DEF FolderInv, Started, TreeOf
<1>5. CASE JobCommits
  <2>1. /\ job.draft \in Draft /\ status'[job.draft] # "none"
        /\ draft'[job.draft] = draft[job.draft]
    BY <1>5, NamedStay DEF JobCommits
  <2> QED
    BY <1>5, <2>1 DEF JobCommits, JobEnds, NoJob, FolderInv, Started, TreeOf
<1>6. CASE JobUndoes
  <2>1. journal # NoJournal /\ journal.from = main
    <3>1. journal.to \in Draft
      BY <1>6 DEF JobUndoes, FolderInv, IInv, JobInv
    <3> QED
      BY <1>6, <3>1, SaveAssumption DEF JobUndoes, FolderInv, NoJournal
  <2> QED
    BY <1>6, <2>1, NamedStay DEF JobUndoes, JobEnds, NoJob, FolderInv, Started, TreeOf
<1>7. CASE Crash
  <2>1. CASE job.at # "updating"
    BY <1>7, <2>1, FolderFrame DEF Crash
  <2>2. CASE job.at = "updating"
    <3>1. journal # NoJournal /\ journal' = journal
      <4>1. journal.to \in Draft
        BY <2>2 DEF FolderInv, IInv, JobInv
      <4> QED
        BY <1>7, <4>1, SaveAssumption DEF Crash, NoJournal
    <3>2. main' \in {main, job.draft} /\ job'.at = "free"
      BY <1>7 DEF Crash, NoJob
    <3> QED
      BY <2>2, <3>1, <3>2, NamedStay DEF FolderInv, Started, TreeOf
  <2> QED
    BY <2>1, <2>2
<1>8. CASE UserEdits
  BY <1>8, NamedStay DEF UserEdits, FolderInv, Started, TreeOf
<1>9. ASSUME NEW d \in Draft, NEW for, NEW expect, NEW repair,
             Enqueue(d, for, expect, repair), Started(d), UNCHANGED <<main, folder, journal>>
      PROVE  FolderInv'
  BY <1>9, FolderFrame DEF Enqueue
<1>10. CASE Open
  BY <1>9, <1>10 DEF Open, IInv, TypeOK, Rev, HistoryInv, Started
<1>11. ASSUME NEW d \in Draft, RunProjects(d) \/ SaveProjects(d) PROVE FolderInv'
  <2>1. Started(d)
    <3>1. CASE RunProjects(d)
      BY <3>1 DEF RunProjects, IInv, RunInv, Started
    <3>2. CASE SaveProjects(d)
      BY <3>2, NoneAt DEF SaveProjects, IInv, SaveInv, Started
    <3> QED
      BY <1>11, <3>1, <3>2
  <2> QED
    BY <1>9, <1>11, <2>1 DEF RunProjects, SaveProjects
<1>12. CASE Ask \/ TurnEnds
  BY <1>1, <1>12 DEF Ask, TurnEnds
<1>13. ASSUME NEW d \in Draft,
              \/ RunChecks(d) \/ RunCompletes(d) \/ SaveObserve(d) \/ SaveRecord(d)
              \/ SaveIsRefused(d) \/ SaveLoads(d) \/ SaveAccepts(d) \/ SaveFails(d) \/ EndCheck(d)
              \/ Generate(d) \/ \E q \in Draft : ContinueDraft(d, q)
              \/ RejectDraft(d) \/ BeginCheck(d) \/ CheckIsBlocked(d)
              \/ SkipCheck(d) \/ SaveStart(d)
       PROVE  FolderInv'
  BY <1>1, <1>13 DEF RunChecks, RunCompletes, SaveObserve, SaveRecord, SaveIsRefused, SaveLoads,
                     SaveAccepts, SaveFails, EndCheck, Generate, ContinueDraft, Starts,
                     RejectDraft, BeginCheck, CheckIsBlocked, SkipCheck, SaveStart
<1> QED
  BY <1>1, <1>2, <1>3, <1>4, <1>5, <1>6, <1>7, <1>8, <1>10, <1>11, <1>12, <1>13
  DEF Next, Projection, RunStep, SaveStep, vars

(* What the user did to a file is overwritten by no step. *)
LEMMA EditStep ==
    ASSUME IInv, FolderInv, [Next]_vars, folder = Edited
    PROVE  folder' = Edited
<1> USE DEF facts, git, disk, memory
<1>1. \A d \in Draft : TreeOf(d) # Edited
  BY FieldTypes, SaveAssumption DEF IInv
<1>2. job.at # "updating"
  BY <1>1 DEF FolderInv, IInv, JobInv
<1>3. ~Admitted \/ job.at = "free"
  BY <1>1, FieldTypes, SaveAssumption DEF Admitted, IInv, JobInv
<1>4. CASE UNCHANGED folder
  BY <1>4
<1>5. CASE Projection \/ JobUndoes
  BY <1>2, <1>3, <1>5 DEF Projection, JobRecovers, RecoveryRefuses, JobApplies, JobRefuses,
                          JobCommits, JobUndoes
<1>6. CASE Crash \/ UserEdits
  BY <1>2, <1>6 DEF Crash, UserEdits
<1>7. CASE Ask \/ TurnEnds \/ Open
  BY <1>7 DEF Ask, TurnEnds, Open
<1>8. ASSUME NEW d \in Draft,
             \/ RunStep(d) \/ SaveStep(d) \/ EndCheck(d)
             \/ Generate(d) \/ \E q \in Draft : ContinueDraft(d, q)
             \/ RejectDraft(d) \/ BeginCheck(d) \/ CheckIsBlocked(d)
              \/ SkipCheck(d) \/ SaveStart(d)
      PROVE  UNCHANGED folder
  BY <1>8 DEF RunStep, SaveStep, RunChecks, RunProjects, RunCompletes, SaveObserve, SaveRecord,
              SaveIsRefused, SaveProjects, SaveLoads, SaveAccepts, SaveFails, EndCheck,
              Generate, ContinueDraft, Starts, RejectDraft, BeginCheck, CheckIsBlocked,
              SkipCheck, SaveStart
<1> QED
  BY <1>4, <1>5, <1>6, <1>7, <1>8 DEF Next, vars

-----------------------------------------------------------------------------
(* The line of versions *)

(* The saved versions and their parents, as VersionLine sees them. *)
Edges == {<<draft[d].base, d>> : d \in {e \in Draft : recorded[e] # 0}}
Reviewed == {d \in Draft : status[d] = "accepted"}

(* The versions behind some parent are the recorded ones. *)
LEMMA SavedAreRecorded == \A d \in Draft : d \in Line!Saved <=> recorded[d] # 0
<1> SUFFICES ASSUME NEW d \in Draft PROVE d \in Line!Saved <=> recorded[d] # 0
  OBVIOUS
<1>1. \A edge \in Edges : edge[2] \in Draft /\ recorded[edge[2]] # 0
  BY DEF Edges
<1>2. ASSUME recorded[d] # 0 PROVE \E edge \in Edges : edge[2] = d
  <2>1. <<draft[d].base, d>> \in Edges
    BY <1>2 DEF Edges
  <2>2. <<draft[d].base, d>>[2] = d
    OBVIOUS
  <2> QED
    BY <2>1, <2>2
<1>3. Line!Saved = {edge[2] : edge \in Edges}
  BY DEF Line!Saved, Edges
<1>4. d \in Line!Saved <=> \E edge \in Edges : edge[2] = d
  BY <1>3
<1> QED
  BY <1>1, <1>2, <1>4

(* At first nothing is saved. *)
LEMMA LineInit == Init => Line!Init
<1> SUFFICES ASSUME Init PROVE Line!Init
  OBVIOUS
<1>1. Edges = {} /\ Reviewed = {}
  BY DEF Init, Edges, Reviewed
<1> QED
  BY <1>1 DEF Init, Line!Init, Edges, Reviewed

(* A step that records nothing and reviews nothing leaves the line alone. *)
LEMMA LineFrame ==
    ASSUME IInv, [Next]_vars, UNCHANGED <<selected, recorded>>,
           \A d \in Draft : status'[d] = "accepted" <=> status[d] = "accepted"
    PROVE  UNCHANGED Line!vars
<1>1. \A d \in Draft : recorded[d] # 0 => draft'[d] = draft[d]
  BY StartedStays DEF IInv, HistoryInv, Started
<1>2. Edges' = Edges
  BY <1>1 DEF Edges
<1>3. Reviewed' = Reviewed
  BY DEF Reviewed
<1> QED
  BY <1>2, <1>3 DEF Line!vars, Edges, Reviewed

(* A record puts its draft behind the current version, *)
LEMMA RecordAppends ==
    ASSUME IInv, [Next]_vars, NEW d \in Draft, SaveRecord(d)
    PROVE  Line!Append(d) \/ UNCHANGED Line!vars
<1>1. UNCHANGED <<draft, status>>
  BY DEF SaveRecord, git
<1>2. CASE UNCHANGED <<selected, recorded>>
  BY <1>1, <1>2, LineFrame
<1>3. CASE /\ recorded[d] = 0 /\ selected = draft[d].base /\ selected' = d
           /\ recorded' = [recorded EXCEPT ![d] = StampOf(d)]
  <2>1. StampOf(d) # 0
    <3>1. save[d].stamp > 0
      BY NoneAt DEF SaveRecord, IInv, SaveInv
    <3> QED
      BY <3>1, FieldTypes DEF StampOf, IInv, TypeOK
  <2>2. \A e \in Draft : recorded'[e] # 0 <=> recorded[e] # 0 \/ e = d
    BY <1>3, <2>1 DEF IInv, TypeOK
  <2>3. Edges' = Edges \cup {<<selected, d>>}
    BY <1>1, <1>3, <2>2 DEF Edges
  <2>4. d \notin Line!Saved
    BY <1>3, SavedAreRecorded
  <2>5. Reviewed' = Reviewed
    BY <1>1 DEF Reviewed
  <2> QED
    BY <1>3, <2>3, <2>4, <2>5 DEF Line!Append, Edges, Reviewed
<1> QED
  BY <1>2, <1>3 DEF SaveRecord, BaseIsCurrent

(* and an acceptance names one that was recorded. *)
LEMMA AcceptanceAccepts ==
    ASSUME IInv, [Next]_vars, NEW d \in Draft, SaveAccepts(d)
    PROVE  Line!Accept(d)
<1>1. UNCHANGED <<selected, recorded, draft>>
  BY DEF SaveAccepts, git
<1>2. recorded[d] # 0
  BY DEF SaveAccepts, IInv, SaveInv, PastGate
<1>3. d \in Line!Saved
  BY <1>2, SavedAreRecorded
<1>4. Reviewed' = Reviewed \cup {d}
  BY DEF SaveAccepts, Reviewed, IInv, TypeOK
<1>5. Edges' = Edges
  BY <1>1 DEF Edges
<1> QED
  BY <1>1, <1>3, <1>4, <1>5 DEF Line!Accept, Edges, Reviewed

(* Every step appends a version, accepts one, or leaves the line alone. *)
LEMMA LineStep ==
    ASSUME IInv, [Next]_vars
    PROVE  [Line!Next]_(Line!vars)
<1> DEFINE Kept == /\ UNCHANGED <<selected, recorded>>
                   /\ \A d \in Draft : status'[d] = "accepted" <=> status[d] = "accepted"
<1> USE DEF facts, git, disk, memory
<1>1. CASE Kept
  BY <1>1, LineFrame
<1>2. ASSUME NEW d \in Draft, SaveRecord(d) PROVE [Line!Next]_(Line!vars)
  BY <1>2, RecordAppends DEF Line!Next
<1>3. ASSUME NEW d \in Draft, SaveAccepts(d) PROVE [Line!Next]_(Line!vars)
  BY <1>3, AcceptanceAccepts DEF Line!Next
<1>4. \A d \in Draft : Interrupted[d] = "accepted" <=> status[d] = "accepted"
  BY DEF Interrupted, IInv, TypeOK, TurnInv
<1>5. ASSUME Ask \/ TurnEnds PROVE Kept
  BY <1>4, <1>5 DEF Ask, TurnEnds
<1>6. ASSUME NEW d \in Draft, NEW b, NEW from, NEW to, NEW expect, NEW repair,
             Starts(d, b, from, to, expect, repair)
      PROVE  Kept
  <2>1. Interrupted \in [Draft -> {"none", "working", "failed", "ready", "accepted", "rejected"}]
    BY DEF Interrupted, IInv, TypeOK
  <2> QED
    BY <1>4, <1>6, <2>1 DEF Starts
<1>7. ASSUME NEW d \in Draft, Generate(d) \/ \E q \in Draft : ContinueDraft(d, q)
      PROVE  Kept
  <2>1. CASE Generate(d)
    BY <1>6, <2>1 DEF Generate
  <2>2. CASE \E q \in Draft : ContinueDraft(d, q)
    BY <1>6, <2>2 DEF ContinueDraft
  <2> QED
    BY <1>7, <2>1, <2>2
<1>8. ASSUME NEW d \in Draft, RunChecks(d) \/ RunCompletes(d) \/ RejectDraft(d)
      PROVE  Kept
  <2>1. turn = d => status[d] = "working"
    BY DEF IInv, TurnInv
  <2> QED
    BY <1>8, <2>1 DEF RunChecks, RunCompletes, RunFails, RejectDraft, IInv, TypeOK
<1>9. ASSUME \/ JobRecovers \/ RecoveryRefuses \/ JobApplies \/ JobRefuses
             \/ JobCommits \/ JobUndoes \/ Open \/ Crash \/ UserEdits
      PROVE  Kept
  BY <1>9 DEF JobRecovers, RecoveryRefuses, JobApplies, JobRefuses, JobCommits, JobUndoes,
              Open, Crash, UserEdits
<1>10. ASSUME NEW d \in Draft,
              \/ RunProjects(d) \/ SaveObserve(d) \/ SaveIsRefused(d)
              \/ SaveProjects(d) \/ SaveLoads(d) \/ SaveFails(d) \/ EndCheck(d)
              \/ BeginCheck(d) \/ CheckIsBlocked(d) \/ SkipCheck(d) \/ SaveStart(d)
       PROVE  Kept
  BY <1>10 DEF RunProjects, SaveObserve, SaveIsRefused, SaveProjects, SaveLoads,
               SaveFails, EndCheck, BeginCheck, CheckIsBlocked, SkipCheck, SaveStart
<1> QED
  BY <1>1, <1>2, <1>3, <1>5, <1>7, <1>8, <1>9, <1>10
  DEF Next, Projection, RunStep, SaveStep, vars

-----------------------------------------------------------------------------
(* The check gate of each draft *)

(* Nobody holds a draft that is not ready yet, and one that has not been    *)
(* checked by its run has not been checked.                                 *)
CheckInv ==
    \A d \in Draft :
       /\ status[d] \in {"none", "working", "failed"} => active[d] = "free"
       /\ status[d] = "none" => check[d] = "absent"
       /\ run.draft = d /\ run.at = "started" => check[d] = "absent"

(* Nothing is checked at first. *)
LEMMA CheckInit == Init => CheckInv
BY SaveAssumption DEF Init, CheckInv, NoRun

(* A run that starts, or does not, finds its draft unchecked. *)
LEMMA StartsUnchecked ==
    ASSUME IInv, CheckInv, NEW d \in Draft, NEW b, NEW from, NEW to, NEW expect, NEW repair,
           Starts(d, b, from, to, expect, repair)
    PROVE  CheckInv'
<1>1. \A e \in Draft : status'[e] \in {"none", "working", "failed"} =>
                          status[e] \in {"none", "working", "failed"}
  BY DEF Starts, Interrupted, IInv, TypeOK, TurnInv
<1>2. \A e \in Draft : status'[e] = "none" => status[e] = "none"
  BY DEF Starts, Interrupted, IInv, TypeOK
<1>3. run'.draft = d /\ status[d] = "none" /\ active' = active /\ check' = check
  BY DEF Starts, memory
<1> QED
  BY <1>1, <1>2, <1>3 DEF CheckInv

(* Every step keeps that. *)
LEMMA CheckStep ==
    ASSUME IInv, CheckInv, [Next]_vars
    PROVE  CheckInv'
<1> USE DEF facts, git, disk, memory
<1>1. CASE UNCHANGED <<status, active, check, run>>
  BY <1>1 DEF CheckInv
<1>2. CASE JobRecovers \/ RecoveryRefuses \/ JobApplies \/ JobRefuses \/ JobCommits \/ JobUndoes
  <2>1. run' = run \/ JobEnds(TRUE) \/ JobEnds(FALSE)
    BY <1>2 DEF JobRecovers, RecoveryRefuses, JobApplies, JobRefuses, JobCommits, JobUndoes
  <2>2. run' = run \/ run'.at \in {"projected", "unprojected"}
    BY <2>1 DEF JobEnds, IInv, TypeOK, RunState
  <2>3. UNCHANGED <<status, active, check>>
    BY <1>2 DEF JobRecovers, RecoveryRefuses, JobApplies, JobRefuses, JobCommits, JobUndoes
  <2> QED
    BY <2>2, <2>3 DEF CheckInv
<1>3. CASE Ask \/ TurnEnds
  BY <1>3 DEF Ask, TurnEnds, Interrupted, IInv, TypeOK, TurnInv, CheckInv
<1>4. CASE Open \/ UserEdits
  BY <1>1, <1>4 DEF Open, UserEdits
<1>5. CASE Crash
  BY <1>5, SaveAssumption DEF Crash, CheckInv, NoRun
<1>6. ASSUME NEW d \in Draft, Generate(d) \/ \E q \in Draft : ContinueDraft(d, q)
      PROVE  CheckInv'
  <2>1. CASE Generate(d)
    BY <2>1, StartsUnchecked DEF Generate
  <2>2. CASE \E q \in Draft : ContinueDraft(d, q)
    BY <2>2, StartsUnchecked DEF ContinueDraft
  <2> QED
    BY <1>6, <2>1, <2>2
<1>7. ASSUME NEW d \in Draft, RunChecks(d) \/ RunCompletes(d)
      PROVE  CheckInv'
  <2>1. status[d] \in {"working", "failed"} /\ (turn = d => status[d] = "working")
    BY <1>7 DEF RunChecks, RunCompletes, IInv, RunInv, TurnInv
  <2>2. \/ run' = NoRun
        \/ run'.draft = d /\ run'.at = "checked"
    BY <1>7 DEF RunChecks, RunCompletes, RunFails, IInv, TypeOK, RunState
  <2>3. active' = active /\ \A e \in Draft \ {d} : check'[e] = check[e]
    BY <1>7 DEF RunChecks, RunCompletes, IInv, TypeOK
  <2>4. status' = status \/ \E new \in {"ready", "failed"} : status' = [status EXCEPT ![d] = new]
    BY <1>7 DEF RunChecks, RunCompletes, RunFails
  <2> QED
    BY <2>1, <2>2, <2>3, <2>4, SaveAssumption DEF CheckInv, NoRun, IInv, TypeOK
<1>8. ASSUME NEW d \in Draft, RunProjects(d)
      PROVE  CheckInv'
  <2>1. run'.at = "projecting" /\ UNCHANGED <<status, active, check>>
    BY <1>8 DEF RunProjects, IInv, TypeOK, RunState
  <2> QED
    BY <2>1 DEF CheckInv
<1>9. ASSUME NEW d \in Draft, SaveRecord(d)
      PROVE  CheckInv'
  <2>1. status[d] \in {"ready", "rejected"}
    BY <1>9, NoneAt DEF SaveRecord, IInv, SaveInv
  <2> QED
    BY <1>9, <2>1 DEF SaveRecord, CheckInv, IInv, TypeOK
<1>10. ASSUME NEW d \in Draft, SaveAccepts(d) \/ SaveFails(d) \/ RejectDraft(d)
       PROVE  CheckInv'
  <2>1. CASE SaveAccepts(d)
    BY <2>1 DEF SaveAccepts, CheckInv, IInv, TypeOK
  <2>2. CASE SaveFails(d)
    BY <2>2 DEF SaveFails, CheckInv, IInv, TypeOK
  <2>3. CASE RejectDraft(d)
    BY <2>3 DEF RejectDraft, CheckInv, IInv, TypeOK
  <2> QED
    BY <1>10, <2>1, <2>2, <2>3
<1>11. ASSUME NEW d \in Draft, BeginCheck(d) \/ EndCheck(d) \/ CheckIsBlocked(d) \/ SkipCheck(d)
       PROVE  CheckInv'
  <2>1. status[d] \in {"ready", "accepted", "rejected"}
    BY <1>11 DEF BeginCheck, EndCheck, CheckIsBlocked, SkipCheck, CheckInv, IInv, TypeOK
  <2>2. run.draft # d
    BY <2>1 DEF IInv, RunInv
  <2>3. /\ \A e \in Draft \ {d} : active'[e] = active[e] /\ check'[e] = check[e]
        /\ UNCHANGED <<status, run>>
    BY <1>11 DEF BeginCheck, EndCheck, CheckIsBlocked, SkipCheck, IInv, TypeOK
  <2> QED
    BY <2>1, <2>2, <2>3 DEF CheckInv
<1>12. ASSUME NEW d \in Draft,
              \/ SaveStart(d) \/ SaveObserve(d) \/ SaveIsRefused(d) \/ SaveProjects(d) \/ SaveLoads(d)
       PROVE  CheckInv'
  BY <1>1, <1>12 DEF SaveStart, SaveObserve, SaveIsRefused, SaveProjects, SaveLoads
<1> QED
  BY <1>1, <1>2, <1>3, <1>4, <1>5, <1>6, <1>7, <1>8, <1>9, <1>10, <1>11, <1>12
  DEF Next, Projection, RunStep, SaveStep, vars

(* Every step is one the gate's contract allows, for every draft. *)
LEMMA GateStep ==
    ASSUME IInv, CheckInv, [Next]_vars, NEW d \in Draft
    PROVE  [Gate(d)!Next]_(Gate(d)!vars)
<1> DEFINE Kept == active'[d] = active[d] /\ check'[d] = check[d]
<1> USE DEF facts, git, disk, memory
<1>1. CASE Kept
  BY <1>1 DEF Gate!vars
<1>2. ASSUME NEW e \in Draft, e # d,
             \/ RunChecks(e) \/ SaveRecord(e) \/ SaveAccepts(e) \/ SaveFails(e)
             \/ EndCheck(e) \/ BeginCheck(e) \/ CheckIsBlocked(e) \/ SkipCheck(e)
      PROVE  Kept
  BY <1>2 DEF RunChecks, SaveRecord, SaveAccepts, SaveFails, EndCheck, BeginCheck,
              CheckIsBlocked, SkipCheck, IInv, TypeOK
<1>3. CASE RunChecks(d)
  <2>1. check[d] = "absent" /\ active[d] = "free"
    BY <1>3 DEF RunChecks, CheckInv, IInv, RunInv
  <2>2. active'[d] = active[d] /\ check'[d] \in {"absent", "passed", "failed"}
    BY <1>3, <2>1, SaveAssumption DEF RunChecks, IInv, TypeOK
  <2> QED
    BY <2>1, <2>2, <1>1 DEF Gate!Next, Gate!CheckGives
<1>4. CASE BeginCheck(d)
  BY <1>4 DEF BeginCheck, IInv, TypeOK, Gate!Next, Gate!CheckTakes
<1>5. CASE EndCheck(d)
  <2>1. /\ active[d] = "check" /\ active'[d] = "free"
        /\ check'[d] \in {check[d], "passed", "failed"}
    BY <1>5, SaveAssumption DEF EndCheck, IInv, TypeOK
  <2> QED
    BY <2>1 DEF Gate!Next, Gate!CheckGives, Gate!LetsGo
<1>6. CASE CheckIsBlocked(d)
  BY <1>6 DEF CheckIsBlocked, IInv, TypeOK, Gate!Next, Gate!CheckIsBlocked
<1>7. CASE SkipCheck(d)
  BY <1>7 DEF SkipCheck, IInv, TypeOK, Gate!Next, Gate!CheckIsSkipped
<1>8. CASE SaveRecord(d)
  BY <1>8 DEF SaveRecord, MayBeSaved, IInv, TypeOK, Gate!Next, Gate!SaveTakes
<1>9. CASE SaveAccepts(d) \/ SaveFails(d) \/ Crash
  <2>1. active'[d] = "free" /\ check'[d] = check[d]
    BY <1>9 DEF SaveAccepts, SaveFails, Crash, IInv, TypeOK
  <2> QED
    BY <2>1 DEF Gate!Next, Gate!LetsGo
<1>10. ASSUME \/ JobRecovers \/ RecoveryRefuses \/ JobApplies \/ JobRefuses \/ JobCommits
              \/ JobUndoes \/ Ask \/ TurnEnds \/ Open \/ UserEdits
       PROVE  Kept
  BY <1>10 DEF JobRecovers, RecoveryRefuses, JobApplies, JobRefuses, JobCommits, JobUndoes,
               Ask, TurnEnds, Open, UserEdits
<1>11. ASSUME NEW e \in Draft,
              \/ RunProjects(e) \/ RunCompletes(e) \/ SaveStart(e) \/ SaveObserve(e)
              \/ SaveIsRefused(e) \/ SaveProjects(e) \/ SaveLoads(e) \/ RejectDraft(e)
              \/ Generate(e) \/ \E q \in Draft : ContinueDraft(e, q)
       PROVE  Kept
  BY <1>11 DEF RunProjects, RunCompletes, SaveStart, SaveObserve, SaveIsRefused, SaveProjects,
               SaveLoads, RejectDraft, Generate, ContinueDraft, Starts
<1> QED
  BY <1>1, <1>2, <1>3, <1>4, <1>5, <1>6, <1>7, <1>8, <1>9, <1>10, <1>11
  DEF Next, Projection, RunStep, SaveStep, vars

-----------------------------------------------------------------------------
(* Holds *)

(* Whoever waits for the queue is the one it works for; and what has been   *)
(* taken has a holder: the queue a job, the registry a save past its gate.  *)
QueueServes ==
    /\ \A d \in Draft : save[d].at = "projecting" <=> job.for = "save" /\ job.draft = d
    /\ run.at = "projecting" <=> job.for = "run"
    /\ job.for = "run" => job.draft = run.draft
    /\ job.at = "free" <=> job.for = "none"
    /\ job.for = "none" => job = NoJob

HeldBySave == \A d \in Draft : active[d] = "save" => PastGate(d)

HoldInv == QueueServes /\ HeldBySave

(* Nobody holds anything at first. *)
LEMMA HoldInit == Init => HoldInv
BY DEF Init, HoldInv, QueueServes, HeldBySave, NoJob, NoRun, NoSave

(* An answer of the queue reaches the one who waits. *)
LEMMA AnswerServes ==
    ASSUME IInv, HoldInv, NEW ok \in BOOLEAN, JobEnds(ok), active' = active
    PROVE  HoldInv'
<1>1. job' = NoJob /\ run'.draft = run.draft
  BY DEF JobEnds, IInv, TypeOK, RunState
<1>2. run'.at # "projecting"
  BY DEF JobEnds, HoldInv, QueueServes, IInv, TypeOK, RunState
<1>3. \A d \in Draft :
         \/ save'[d].at = save[d].at /\ ~(job.for = "save" /\ job.draft = d)
         \/ job.for = "save" /\ job.draft = d /\ save'[d].at \in {"projected", "failed"}
  <2>1. CASE job.for = "save"
    <3>1. job.draft \in Draft
      BY <2>1 DEF IInv, JobInv
    <3>2. \A d \in Draft \ {job.draft} : save'[d] = save[d]
      BY <2>1, <3>1 DEF JobEnds, IInv, TypeOK
    <3>3. save'[job.draft].at \in {"projected", "failed"}
      BY <2>1, <3>1, FieldTypes DEF JobEnds, IInv, TypeOK, SaveState
    <3> QED
      BY <2>1, <3>1, <3>2, <3>3
  <2>2. CASE job.for # "save"
    BY <2>2 DEF JobEnds
  <2> QED
    BY <2>1, <2>2
<1>4. QueueServes'
  BY <1>1, <1>2, <1>3 DEF HoldInv, QueueServes, NoJob
<1>5. HeldBySave'
  BY <1>3 DEF HoldInv, HeldBySave, PastGate
<1> QED
  BY <1>4, <1>5 DEF HoldInv

(* A save that moves on without the queue keeps the registry in step. *)
LEMMA SaveKeepsHold ==
    ASSUME IInv, HoldInv, NEW d \in Draft, UNCHANGED <<job, run>>,
           save[d].at # "projecting", save'[d].at # "projecting",
           \A e \in Draft \ {d} : save'[e] = save[e] /\ active'[e] = active[e],
           active'[d] = "save" => PastGate(d)'
    PROVE  HoldInv'
BY DEF HoldInv, QueueServes, HeldBySave, PastGate

(* Every step keeps the holds. *)
LEMMA HoldStep ==
    ASSUME IInv, HoldInv, [Next]_vars
    PROVE  HoldInv'
<1> USE DEF facts, git, disk, memory
<1>1. CASE UNCHANGED <<job, run, save, active>>
  BY <1>1 DEF HoldInv, QueueServes, HeldBySave, PastGate
<1>2. CASE JobRecovers \/ RecoveryRefuses \/ JobApplies \/ JobRefuses \/ JobCommits \/ JobUndoes
  <2>1. active' = active
    BY <1>2 DEF JobRecovers, RecoveryRefuses, JobApplies, JobRefuses, JobCommits, JobUndoes
  <2>2. CASE JobEnds(TRUE) \/ JobEnds(FALSE)
    BY <2>1, <2>2, AnswerServes
  <2>3. CASE ~(JobEnds(TRUE) \/ JobEnds(FALSE))
    <3>1. UNCHANGED <<run, save>> /\ job.at # "free"
      BY <1>2, <2>3 DEF JobRecovers, RecoveryRefuses, JobApplies, JobRefuses, JobCommits, JobUndoes
    <3>2. /\ job'.for = job.for /\ job'.draft = job.draft
          /\ job'.at \in {"inspecting", "updating"}
      BY <1>2, <2>3 DEF JobRecovers, RecoveryRefuses, JobApplies, JobRefuses, JobCommits,
                        JobUndoes, IInv, TypeOK, JobState
    <3> QED
      BY <2>1, <3>1, <3>2 DEF HoldInv, QueueServes, HeldBySave, PastGate
  <2> QED
    BY <2>2, <2>3
<1>3. CASE Ask \/ TurnEnds \/ UserEdits
  BY <1>1, <1>3 DEF Ask, TurnEnds, UserEdits
<1>4. CASE Open
  BY <1>4 DEF Open, Enqueue, NoJob, HoldInv, QueueServes, HeldBySave, PastGate
<1>5. CASE Crash
  BY <1>5 DEF Crash, HoldInv, QueueServes, HeldBySave, NoJob, NoRun, NoSave
<1>6. ASSUME UNCHANGED <<job, save, active>>, run.at # "projecting", run'.at # "projecting"
      PROVE  HoldInv'
  BY <1>6 DEF HoldInv, QueueServes, HeldBySave, PastGate
<1>7. ASSUME NEW d \in Draft, Generate(d) \/ \E q \in Draft : ContinueDraft(d, q)
      PROVE  HoldInv'
  <2>1. UNCHANGED <<job, save, active>> /\ run = NoRun /\ run'.at = "started"
    BY <1>7 DEF Generate, ContinueDraft, Starts
  <2> QED
    BY <1>6, <2>1 DEF NoRun
<1>8. ASSUME NEW d \in Draft, RunChecks(d) \/ RunCompletes(d)
      PROVE  HoldInv'
  <2>1. UNCHANGED <<job, save, active>> /\ run.at # "projecting"
    BY <1>8 DEF RunChecks, RunCompletes
  <2>2. run'.at # "projecting"
    BY <1>8 DEF RunChecks, RunCompletes, RunFails, NoRun, IInv, TypeOK, RunState
  <2> QED
    BY <1>6, <2>1, <2>2
<1>9. ASSUME NEW d \in Draft, RunProjects(d)
      PROVE  HoldInv'
  <2>1. run'.at = "projecting" /\ run'.draft = d
    BY <1>9 DEF RunProjects, IInv, TypeOK, RunState
  <2>2. job = NoJob /\ job'.for = "run" /\ job'.draft = d /\ job'.at = "recovering"
    BY <1>9 DEF RunProjects, Enqueue
  <2>3. UNCHANGED <<save, active>>
    BY <1>9 DEF RunProjects
  <2> QED
    BY <2>1, <2>2, <2>3 DEF HoldInv, QueueServes, HeldBySave, PastGate, NoJob
<1>10. ASSUME NEW d \in Draft, SaveProjects(d)
       PROVE  HoldInv'
  <2>1. save'[d].at = "projecting" /\ \A e \in Draft \ {d} : save'[e] = save[e]
    BY <1>10, FieldTypes DEF SaveProjects, SaveGoes, IInv, TypeOK, SaveState
  <2>2. job = NoJob /\ job'.for = "save" /\ job'.draft = d /\ job'.at = "recovering"
    BY <1>10 DEF SaveProjects, Enqueue
  <2>3. UNCHANGED <<run, active>>
    BY <1>10 DEF SaveProjects
  <2> QED
    BY <2>1, <2>2, <2>3 DEF HoldInv, QueueServes, HeldBySave, PastGate, NoJob
<1>11. ASSUME NEW d \in Draft,
              SaveObserve(d) \/ SaveRecord(d) \/ SaveIsRefused(d) \/ SaveLoads(d) \/ SaveStart(d)
       PROVE  HoldInv'
  <2>1. UNCHANGED <<job, run>> /\ \A e \in Draft \ {d} : save'[e] = save[e]
    BY <1>11 DEF SaveObserve, SaveRecord, SaveIsRefused, SaveLoads, SaveStart,
                 SaveEnds, SaveGoes, IInv, TypeOK
  <2>2. save[d].at \in {"none", "verified", "observed", "projected"}
    BY <1>11 DEF SaveObserve, SaveRecord, SaveIsRefused, SaveLoads, SaveStart, NoSave
  <2>3. /\ save'[d].at # "projecting"
        /\ PastGate(d) => PastGate(d)'
    BY <1>11, FieldTypes DEF SaveObserve, SaveRecord, SaveIsRefused, SaveLoads, SaveStart,
       SaveEnds, SaveGoes, NoSave, PastGate, IInv, TypeOK, SaveState
  <2>4. \/ active' = active
        \/ /\ \A e \in Draft \ {d} : active'[e] = active[e]
           /\ SaveRecord(d)
    BY <1>11 DEF SaveObserve, SaveRecord, SaveIsRefused, SaveLoads, SaveStart, IInv, TypeOK
  <2>5. SaveRecord(d) => PastGate(d)'
    BY FieldTypes DEF SaveRecord, PastGate, IInv, TypeOK, SaveState
  <2> QED
    BY <2>1, <2>2, <2>3, <2>4, <2>5, SaveKeepsHold DEF HoldInv, HeldBySave
<1>12. ASSUME NEW d \in Draft, SaveAccepts(d) \/ SaveFails(d)
       PROVE  HoldInv'
  <2>1. /\ UNCHANGED <<job, run>> /\ save[d].at # "projecting"
        /\ \A e \in Draft \ {d} : save'[e] = save[e] /\ active'[e] = active[e]
    BY <1>12 DEF SaveAccepts, SaveFails, SaveEnds, IInv, TypeOK
  <2>2. active'[d] = "free" /\ save'[d] = NoSave
    BY <1>12 DEF SaveAccepts, SaveFails, SaveEnds, IInv, TypeOK
  <2> QED
    BY <2>1, <2>2, SaveKeepsHold DEF NoSave
<1>13. ASSUME NEW d \in Draft,
              RejectDraft(d) \/ BeginCheck(d) \/ EndCheck(d) \/ CheckIsBlocked(d) \/ SkipCheck(d)
       PROVE  HoldInv'
  <2>1. /\ UNCHANGED <<job, run, save>>
        /\ \A e \in Draft : active'[e] = "save" => active[e] = "save"
    BY <1>13 DEF RejectDraft, BeginCheck, EndCheck, CheckIsBlocked, SkipCheck, IInv, TypeOK
  <2> QED
    BY <2>1 DEF HoldInv, QueueServes, HeldBySave, PastGate
<1> QED
  BY <1>1, <1>2, <1>3, <1>4, <1>5, <1>7, <1>8, <1>9, <1>10, <1>11, <1>12, <1>13
  DEF Next, Projection, RunStep, SaveStep, vars

-----------------------------------------------------------------------------
(* The theorems *)

(* The invariant holds in every reachable state, whatever crashes, failures *)
(* and edits happen, and however many drafts, trees and events there are.   *)
THEOREM InvCorrect == Spec => []IInv
  BY InvInit, InvStep, PTL DEF Spec

(* The state of drafts, saves, checks and the queue stays in its types. *)
THEOREM TypeCorrect == Spec => []TypeOK
<1>1. IInv => TypeOK
  BY DEF IInv
<1> QED
  BY InvCorrect, <1>1, PTL

(* Saves that read the current revision long before they record keep the    *)
(* saved versions one line: recordProjectRevision() compares and swaps.     *)
THEOREM LinearCorrect == Spec => []LinearHistory
<1>1. IInv => LinearHistory
  BY DEF IInv, HistoryInv
<1> QED
  BY InvCorrect, <1>1, PTL

(* The invariant of the rest, and the one of what is held. *)
LEMMA HoldInvCorrect == Spec => [](IInv /\ HoldInv)
  BY InvInit, InvStep, HoldInit, HoldStep, PTL DEF Spec

(* The registry is a save's from its gate to its end and no longer, and     *)
(* what admitted the save is not refuted until then: registry and gate shut *)
(* out every check but one that has not got as far as to run.               *)
THEOREM GateCorrect == Spec => []GateHolds
<1>1. IInv /\ HoldInv => GateHolds
  BY DEF IInv, SaveInv, HoldInv, HeldBySave, PastGate, GateHolds
<1> QED
  BY HoldInvCorrect, <1>1, PTL

(* An accepted draft is a recorded version, and whoever saves an unreviewed *)
(* draft has it loaded: the steps after acceptCandidate() cannot fail.      *)
THEOREM AcceptedCorrect == Spec => []AcceptedIsRecorded
<1>1. IInv => AcceptedIsRecorded
  BY DEF IInv, SaveInv, AcceptInv, AcceptedIsRecorded
<1> QED
  BY InvCorrect, <1>1, PTL

(* Both invariants of the folder and of the rest. *)
LEMMA FolderInvCorrect == Spec => [](IInv /\ FolderInv)
  BY InvInit, InvStep, FolderInit, FolderStep, PTL DEF Spec

(* With nothing in progress the folder is what main names, after any number *)
(* of runs, saves, failures, crashes and recoveries.                        *)
THEOREM FolderCorrect == Spec => []FolderFollowsMain
<1>1. IInv /\ FolderInv => FolderFollowsMain
  BY DEF FolderInv, FolderFollowsMain, NoJob
<1> QED
  BY FolderInvCorrect, <1>1, PTL

(* No run, save or recovery overwrites what the user did to the folder. *)
THEOREM EditCorrect == Spec => EditSurvives
<1>1. IInv /\ FolderInv /\ [Next]_vars => (folder = Edited => folder' = Edited)
  BY EditStep
<1>2. IInv /\ FolderInv /\ [Next]_vars => [folder = Edited => folder' = Edited]_vars
  BY <1>1
<1> QED
  BY FolderInvCorrect, <1>2, PTL DEF Spec, EditSurvives

(* The whole of generation, checks, saves, rejections, crashes and          *)
(* recoveries implements a line to which versions are only appended.        *)
THEOREM LineCorrect == Spec => OneLineOfVersions
<1>1. IInv /\ [Next]_vars => [Line!Next]_(Line!vars)
  BY LineStep
<1> QED
  BY <1>1, LineInit, InvCorrect, PTL DEF Spec, OneLineOfVersions, Line!Spec

(* Each draft's registry entry and latest check follow the contract of the  *)
(* check gate, with all the awaits of a save and every crash in between.    *)
THEOREM GateContractCorrect ==
    ASSUME NEW d \in Draft
    PROVE  Spec => Gate(d)!Spec
<1>1. Init => Gate(d)!Init
  BY DEF Init, Gate!Init
<1>2. IInv /\ CheckInv /\ [Next]_vars => [Gate(d)!Next]_(Gate(d)!vars)
  BY GateStep
<1>3. Spec => [](IInv /\ CheckInv)
  BY InvInit, InvStep, CheckInit, CheckStep, PTL DEF Spec
<1> QED
  BY <1>1, <1>2, <1>3, PTL DEF Spec, Gate!Spec

(* Nobody waits for a projection that is not his, the queue works for       *)
(* somebody who waits, and a busy queue has a job: the safety half of the   *)
(* end of every run and save, whatever fails or is interrupted.             *)
THEOREM QueueCorrect == Spec => []QueueServes
<1>1. HoldInv => QueueServes
  BY DEF HoldInv
<1> QED
  BY HoldInvCorrect, <1>1, PTL
=============================================================================
