-------------------------- MODULE TaskTurn_proofs --------------------------
(* Proofs about TaskTurn: for any number of requests and projects.          *)
EXTENDS TaskTurn, TLAPS

Before == {"permission", "base"}
InRun == Phase \ (Outside \cup Before)
Binders == {"submit", "retry", "resume", "followup", "answer"}

(* Who may work: beyond the lease and the binding themselves, a request     *)
(* that asked for the binding has it unless it was stopped, and only a run   *)
(* is ever stopped.                                                         *)
Gate ==
    /\ LeaseHeldThroughout
    /\ BindingIsLive
    /\ \A r \in Requests :
         kind[r] \in Binders /\ at[r] \in InRun \cup {"base"} /\ r \notin stopped => binding = r
    /\ \A r \in stopped : at[r] \in InRun

(* What is known of a request's turn while its promise is pending.          *)
Pending ==
    /\ \A r \in Requests : at[r] = "idle" => turn[r] = "none"
    /\ \A r \in Requests :
         at[r] \in Before =>
            IF kind[r] \in {"retry", "resume"} THEN turn[r] # "open" ELSE turn[r] = "none"
    /\ \A r \in Requests : head = r => at[r] # "idle" /\ InTask(r)
    /\ \A r \in Requests : at[r] \in InRun /\ head = r => turn[r] = "open"

(* Whose turns they are.                                                    *)
Ours ==
    /\ \A r \in live : at[r] \in InRun
    /\ \A r \in Requests : at[r] \in InRun /\ Active(r) => r \in owned

(* A candidate is recorded when its request ends, and only a recorded one   *)
(* may be replaced: so a candidate that is being reported is nobody's base.  *)
Bases ==
    /\ \A r \in Requests : turn[r] = "candidate" => at[r] = "done"
    /\ \A r \in Requests : expected[r] \in Recorded
    /\ ProjectedIsShown

Inv == TypeOK /\ Gate /\ OneOpenTurn /\ Pending /\ Ours /\ Bases

LEMMA InitInv == Init => Inv
  <1> SUFFICES ASSUME Init PROVE Inv
    OBVIOUS
  <1>1. TypeOK
    <2>1. kind \in [Requests -> Builds \cup Questions] /\ at \in [Requests -> Phase]
      BY DEF Init, Builds, Leased, Phase, Outside
    <2>2. turn \in [Requests -> Closed \cup {"none", "open", "failed"}]
      BY DEF Init
    <2>3. lease \in [Projects -> Requests \cup {None}] /\ selected \in Projects \cup {None}
      BY TaskAssumption DEF Init
    <2>4. extras \in 0..MaxExtras
      BY TaskAssumption DEF Init
    <2> QED
      BY <2>1, <2>2, <2>3, <2>4 DEF Init, TypeOK
  <1>2. Gate
    BY TaskAssumption DEF Init, Gate, LeaseHeldThroughout, BindingIsLive, Outside, InRun, Before
  <1>3. OneOpenTurn /\ Pending /\ Ours
    BY TaskAssumption DEF Init, OneOpenTurn, Active, Pending, Ours, Before, InRun, Outside, Phase
  <1>4. Bases
    BY DEF Init, Bases, Recorded, ProjectedIsShown
  <1> QED
    BY <1>1, <1>2, <1>3, <1>4 DEF Inv

(* A recorded candidate stays recorded.                                     *)
LEMMA StillRecorded ==
    ASSUME \A q \in Requests : turn[q] = "candidate" => turn'[q] = "candidate"
    PROVE  \A x \in Recorded : x \in Recorded'
  BY DEF Recorded

(* A request ends, and nothing but its own turn is closed.                  *)
LEMMA EndStep ==
    ASSUME Inv, NEW r \in Requests, at[r] \in InRun \cup {"base"},
           Ends(r), UNCHANGED <<last, shown>>,
           NEW t \in {turn[r], "failed"} \cup Closed, t = "failed" => turn[r] \in {"open", "failed"},
           turn' = [turn EXCEPT ![r] = t],
           owned' \in {owned, owned \ {r}},
           head' \in {head, None} \/ (head' = r /\ InTask(r)),
           local' \in BOOLEAN, offer' \in {offer, "draft", "none"}, draft' \in BOOLEAN
    PROVE  Inv'
  <1> USE DEF Ends
  <1>1. TypeOK'
    BY DEF Inv, TypeOK, Phase, Outside, Closed
  <1>2. Gate'
    <2>1. LeaseHeldThroughout'
      BY TaskAssumption DEF Inv, TypeOK, Gate, LeaseHeldThroughout, Outside
    <2>2. BindingIsLive'
      BY TaskAssumption DEF Inv, TypeOK, Gate, BindingIsLive, Outside
    <2>3. \A q \in Requests :
            kind'[q] \in Binders /\ at'[q] \in InRun \cup {"base"} /\ q \notin stopped' => binding' = q
      BY DEF Inv, TypeOK, Gate, InRun, Before, Outside
    <2>4. \A q \in stopped' : at'[q] \in InRun
      BY DEF Inv, TypeOK, Gate
    <2> QED
      BY <2>1, <2>2, <2>3, <2>4 DEF Gate
  <1>3. OneOpenTurn'
    BY DEF Inv, TypeOK, OneOpenTurn, Active, InTask, Closed
  <1>4. Pending'
    BY TaskAssumption DEF Inv, TypeOK, Pending, InTask, InRun, Before, Outside
  <1>5. Ours'
    BY DEF Inv, TypeOK, Ours, Active, InTask, InRun, Outside
  <1>6. Bases'
    <2>1. turn[r] # "candidate"
      BY DEF Inv, Bases, InRun, Outside
    <2>2. \A q \in Requests : turn'[q] = "candidate" => at'[q] = "done"
      BY DEF Inv, TypeOK, Bases
    <2>3. \A q \in Requests : expected'[q] \in Recorded'
      <3>1. \A q \in Requests : turn[q] = "candidate" => turn'[q] = "candidate"
        BY <2>1 DEF Inv, TypeOK
      <3>2. None \in Recorded'
        BY DEF Recorded
      <3> QED
        BY <3>1, <3>2, StillRecorded DEF Inv, TypeOK, Bases
    <2>4. ProjectedIsShown'
      BY DEF Inv, TypeOK, Bases, ProjectedIsShown
    <2> QED
      BY <2>2, <2>3, <2>4 DEF Bases
  <1> QED
    BY <1>1, <1>2, <1>3, <1>4, <1>5, <1>6 DEF Inv

(* The way every promise settles that does not complete its turn.           *)
LEMMA SettleStep ==
    ASSUME Inv, NEW r \in Requests, at[r] \in InRun \cup {"base"}, Settle(r)
    PROVE  Inv'
  <1> USE DEF Settle
  <1>1. CASE UNCHANGED conversation
    <2>1. turn' = [turn EXCEPT ![r] = turn[r]]
      BY <1>1 DEF conversation, Inv, TypeOK
    <2>2. UNCHANGED <<owned, last, offer, draft, head, local>>
      BY <1>1 DEF conversation
    <2>3. local \in BOOLEAN /\ draft \in BOOLEAN
      BY DEF Inv, TypeOK
    <2> QED
      BY <2>1, <2>2, <2>3, EndStep
  <1>2. CASE /\ turn[r] = "open"
             /\ turn' = [turn EXCEPT ![r] = "failed"]
             /\ Append(r)
             /\ UNCHANGED <<owned, last, offer, draft>>
    <2>1. (head' = head \/ (head' = r /\ InTask(r))) /\ local' \in BOOLEAN /\ draft' \in BOOLEAN
      BY <1>2 DEF Append, Inv, TypeOK
    <2> QED
      BY <1>2, <2>1, EndStep
  <1>3. CASE CloseTurn(r, "failure") /\ UNCHANGED <<last, offer, draft>>
    <2>1. head' \in {head, None} /\ local' \in BOOLEAN /\ draft' \in BOOLEAN /\ "failure" \in Closed
      BY <1>3 DEF CloseTurn, Inv, TypeOK, Closed
    <2> QED
      BY <1>3, <2>1, EndStep DEF CloseTurn
  <1> QED
    BY <1>1, <1>2, <1>3 DEF RecordFailure

LEMMA FailStep ==
    ASSUME Inv, NEW r \in Requests, at[r] \in InRun \cup {"base"}, Fail(r)
    PROVE  Inv'
  <1>1. CASE Settle(r)
    BY <1>1, SettleStep
  <1>2. CASE /\ at[r] \in {"running", "candidate", "admitted", "checked", "projected", "refused"}
             /\ at' = [at EXCEPT ![r] = "ending"]
             /\ UNCHANGED <<selected, lease, binding, kind, live, stopped, conversation, folder, extras>>
    <2> USE <1>2 DEF conversation, folder
    <2>1. TypeOK'
      BY DEF Inv, TypeOK, Phase
    <2>2. Gate'
      BY DEF Inv, TypeOK, Gate, LeaseHeldThroughout, BindingIsLive, InRun, Before, Outside, Phase
    <2>3. OneOpenTurn' /\ Pending' /\ Ours'
      BY DEF Inv, TypeOK, OneOpenTurn, Active, InTask, Pending, Ours, InRun, Before, Phase, Outside
    <2>4. Bases'
      BY DEF Inv, TypeOK, Bases, Recorded, ProjectedIsShown
    <2> QED
      BY <2>1, <2>2, <2>3, <2>4 DEF Inv
  <1> QED
    BY <1>1, <1>2 DEF Fail

(* From the call to the gate's answer.                                      *)
LEMMA AskStep ==
    ASSUME Inv, NEW r \in Requests,
           (\E k \in Kinds : Ask(r, k)) \/ AskAgain(r)
    PROVE  Inv'
  <1>1. ASSUME NEW k \in Kinds, Ask(r, k) PROVE Inv'
    <2> USE <1>1 DEF Ask, conversation, folder
    <2>1. k \in (Builds \ {"retry", "resume"}) \cup Questions
      BY TaskAssumption
    <2>2. at[r] = "idle" /\ kind'[r] = k /\ at'[r] \in Before /\ turn[r] = "none" /\ head # r
      BY DEF Inv, TypeOK, Pending, Before
    <2>3. TypeOK'
      BY <2>1 DEF Inv, TypeOK, Phase
    <2>4. LeaseHeldThroughout'
      BY <2>1 DEF Inv, TypeOK, Gate, LeaseHeldThroughout, Leased, Questions, Outside
    <2>5. BindingIsLive'
      BY TaskAssumption DEF Inv, TypeOK, Gate, BindingIsLive, Outside
    <2>6. \A q \in Requests :
            kind'[q] \in Binders /\ at'[q] \in InRun \cup {"base"} /\ q \notin stopped' => binding' = q
      BY TaskAssumption DEF Inv, TypeOK, Gate, Binders, Questions, InRun, Before
    <2>7. \A q \in stopped' : at'[q] \in InRun
      BY DEF Inv, TypeOK, Gate, InRun, Before, Outside
    <2>8. OneOpenTurn'
      BY <2>2 DEF Inv, TypeOK, OneOpenTurn, Active, InTask
    <2>9. Pending'
      BY <2>1, <2>2 DEF Inv, TypeOK, Pending, InTask, InRun, Before, Outside
    <2>10. Ours'
      BY <2>2 DEF Inv, TypeOK, Ours, Active, InTask, InRun, Before, Outside
    <2>11. Bases'
      BY <2>2 DEF Inv, TypeOK, Bases, Recorded, ProjectedIsShown, Before
    <2> QED
      BY <2>3, <2>4, <2>5, <2>6, <2>7, <2>8, <2>9, <2>10, <2>11 DEF Inv, Gate
  <1>2. CASE AskAgain(r)
    <2> USE <1>2 DEF AskAgain, conversation, folder
    <2>1. TypeOK'
      <3>1. extras' \in 0..MaxExtras
        BY TaskAssumption DEF Inv, TypeOK
      <3> QED
        BY <3>1 DEF Inv, TypeOK, Phase, Builds, Leased
    <2>2. Gate'
      BY DEF Inv, TypeOK, Gate, LeaseHeldThroughout, BindingIsLive, Binders, InRun, Before, Outside
    <2>3. OneOpenTurn'
      BY DEF Inv, TypeOK, OneOpenTurn, Active, InTask
    <2>4. Pending'
      BY DEF Inv, TypeOK, Pending, InTask, InRun, Before, Outside, Resumable
    <2>5. Ours'
      BY DEF Inv, TypeOK, Ours, Active, InTask, InRun, Before, Outside
    <2>6. Bases'
      BY DEF Inv, TypeOK, Bases, Recorded, ProjectedIsShown, Resumable
    <2> QED
      BY <2>1, <2>2, <2>3, <2>4, <2>5, <2>6 DEF Inv
  <1> QED
    BY <1>1, <1>2

LEMMA PermissionStep ==
    ASSUME Inv, NEW r \in Requests, Permission(r)
    PROVE  Inv'
  <1> DEFINE stays == UNCHANGED <<selected, kind, live, stopped, turn, owned, last, offer, draft,
                                  folder, extras>>
  <1>1. at[r] = "permission" /\ stays
    BY DEF Permission
  <1>2. CASE Rejected(r)
    <2> USE <1>1, <1>2 DEF Rejected, folder
    <2>1. TypeOK'
      BY DEF Inv, TypeOK, Phase, Outside
    <2>2. Gate'
      BY DEF Inv, TypeOK, Gate, LeaseHeldThroughout, BindingIsLive, InRun, Before, Outside
    <2>3. OneOpenTurn' /\ Pending' /\ Ours'
      BY DEF Inv, TypeOK, OneOpenTurn, Active, InTask, Pending, Ours, InRun, Before, Phase, Outside
    <2>4. Bases'
      BY DEF Inv, TypeOK, Bases, Recorded, ProjectedIsShown
    <2> QED
      BY <2>1, <2>2, <2>3, <2>4 DEF Inv
  <1>3. ASSUME NEW p \in Projects, AdmitElsewhere(r, p) PROVE Inv'
    <2> USE <1>1, <1>3 DEF AdmitElsewhere, TakeLease, folder
    <2>1. TypeOK'
      BY DEF Inv, TypeOK, Phase, Outside
    <2>2. Gate'
      BY TaskAssumption DEF Inv, TypeOK, Gate, LeaseHeldThroughout, BindingIsLive, InRun, Before, Outside
    <2>3. OneOpenTurn' /\ Pending' /\ Ours'
      BY DEF Inv, TypeOK, OneOpenTurn, Active, InTask, Pending, Ours, InRun, Before, Phase, Outside
    <2>4. Bases'
      BY DEF Inv, TypeOK, Bases, Recorded, ProjectedIsShown
    <2> QED
      BY <2>1, <2>2, <2>3, <2>4 DEF Inv
  <1>4. CASE /\ IF kind[r] \in Leased THEN ~Busy(Home) /\ TakeLease(r, Home) ELSE lease' = lease
             /\ at' = [at EXCEPT ![r] = "base"]
             /\ IF kind[r] \in Binders THEN binding = None /\ binding' = r ELSE binding' = binding
             /\ (head' = head /\ local' = local)
                \/ (kind[r] = "resume" /\ Append(r))
    <2> USE <1>1, <1>4 DEF Busy, TakeLease, folder
    <2>1. TypeOK'
      BY DEF Inv, TypeOK, Phase, Append
    <2>2. LeaseHeldThroughout'
      <3>1. CASE kind[r] \in Leased
        <4>1. lease[Home] = None /\ lease'[Home] = r
          BY <3>1, TaskAssumption DEF Inv, TypeOK
        <4> QED
          BY <3>1, <4>1, TaskAssumption DEF Inv, TypeOK, Gate, LeaseHeldThroughout, Outside
      <3>2. CASE kind[r] \notin Leased
        BY <3>2 DEF Inv, TypeOK, Gate, LeaseHeldThroughout, Outside
      <3> QED
        BY <3>1, <3>2
    <2>3. BindingIsLive'
      BY TaskAssumption DEF Inv, TypeOK, Gate, BindingIsLive, Outside
    <2>4. \A q \in Requests :
            kind'[q] \in Binders /\ at'[q] \in InRun \cup {"base"} /\ q \notin stopped' => binding' = q
      BY TaskAssumption DEF Inv, TypeOK, Gate
    <2>5. \A q \in stopped' : at'[q] \in InRun
      BY DEF Inv, TypeOK, Gate, InRun, Before
    <2>6. OneOpenTurn'
      BY DEF Inv, TypeOK, OneOpenTurn, Active, InTask
    <2>7. Pending' /\ Ours'
      BY DEF Inv, TypeOK, Append, Active, InTask, Pending, Ours, InRun, Before, Phase, Outside
    <2>8. Bases'
      BY DEF Inv, TypeOK, Bases, Recorded, ProjectedIsShown
    <2> QED
      BY <2>1, <2>2, <2>3, <2>4, <2>5, <2>6, <2>7, <2>8 DEF Inv, Gate
  <1>5. \/ Rejected(r) \/ \E p \in Projects : AdmitElsewhere(r, p)
        \/ AdmitUnbound(r) \/ AdmitBound(r) \/ AdmitFollowup(r) \/ AdmitFree(r)
    BY DEF Permission
  <1> QED
    BY <1>2, <1>3, <1>4, <1>5 DEF AdmitUnbound, AdmitBound, AdmitFollowup, AdmitFree,
       Leased, Binders, Restores

(* A turn begins over whatever is open in its conversation, and then is the *)
(* only one.                                                                *)
LEMMA BeginStep ==
    ASSUME Inv, NEW r \in Requests, Begin(r)
    PROVE  Inv'
  <1> USE DEF Begin, BeginTurn, Append, Goes
  <1>1. turn' \in [Requests -> Closed \cup {"none", "open", "failed"}] /\ turn'[r] = "open"
    BY DEF Inv, TypeOK, Recovered, Closed
  <1>2. \A q \in Requests \ {r} :
          /\ turn'[q] = turn[q] \/ (InTask(r) /\ Active(q) /\ turn'[q] \in {"interrupted", "failure"})
          /\ InTask(r) /\ InTask(q) => turn'[q] \notin {"open", "failed"}
    <2> SUFFICES ASSUME NEW q \in Requests \ {r}
                 PROVE  /\ turn'[q] = turn[q]
                           \/ (InTask(r) /\ Active(q) /\ turn'[q] \in {"interrupted", "failure"})
                        /\ (InTask(r) /\ InTask(q)) => turn'[q] \notin {"open", "failed"}
      OBVIOUS
    <2>1. CASE ~InTask(r)
      BY <2>1 DEF Inv, TypeOK
    <2>2. CASE InTask(r) /\ ~Active(q)
      <3>1. Recovered[q] = turn[q]
        BY <2>2 DEF Recovered, Active
      <3>2. turn'[q] = Recovered[q]
        BY <2>2 DEF Recovered
      <3> QED
        BY <2>2, <3>1, <3>2 DEF Active
    <2>3. CASE InTask(r) /\ Active(q)
      <3>1. Recovered[q] \in {"interrupted", "failure"} /\ turn'[q] = Recovered[q]
        BY <2>3 DEF Recovered
      <3> QED
        BY <2>3, <3>1
    <2> QED
      BY <2>1, <2>2, <2>3
  <1>3. kind' = kind
    OBVIOUS
  <1>4. TypeOK'
    <2>1. expected' \in [Requests -> Requests \cup {None}]
      BY DEF Inv, TypeOK, Recorded
    <2> QED
      BY <1>1, <2>1 DEF Inv, TypeOK, Phase, Outside
  <1>5. Gate'
    BY DEF Inv, TypeOK, Gate, LeaseHeldThroughout, BindingIsLive, InRun, Before, Phase, Outside
  <1>6. OneOpenTurn'
    BY <1>2, <1>3 DEF Inv, OneOpenTurn, Active, InTask
  <1>7. Pending'
    <2>1. at'[r] = "snapshot" /\ \A q \in Requests \ {r} : at'[q] = at[q]
      BY DEF Inv, TypeOK
    <2>2. InTask(r) => head' = r
      OBVIOUS
    <2>3. ~InTask(r) => head' = head /\ head # r
      BY DEF Inv, Pending
    <2> QED
      BY <1>1, <1>2, <1>3, <2>1, <2>2, <2>3 DEF Inv, Pending, Active, InTask, InRun, Before, Outside
  <1>8. Ours'
    BY <1>2, <1>3 DEF Inv, TypeOK, Ours, Active, InTask, InRun, Before, Phase, Outside
  <1>9. Bases'
    <2>1. \A q \in Requests : turn'[q] = "candidate" <=> turn[q] = "candidate"
      BY <1>1, <1>2 DEF Inv, Bases, Active
    <2>2. Recorded' = Recorded
      BY <2>1 DEF Recorded
    <2>3. \A q \in Requests : expected'[q] \in Recorded
      BY DEF Inv, TypeOK, Bases, Recorded
    <2> QED
      BY <2>1, <2>2, <2>3 DEF Inv, TypeOK, Bases, ProjectedIsShown
  <1> QED
    BY <1>4, <1>5, <1>6, <1>7, <1>8, <1>9 DEF Inv

(* A run goes on.                                                           *)
LEMMA RunStep ==
    ASSUME Inv, NEW r \in Requests,
           \/ Snapshot(r) \/ StartRun(r) \/ PersistEvent(r) \/ CandidateReady(r)
           \/ Admit(r) \/ Checkpoint(r) \/ Project(r) \/ Materialize(r)
    PROVE  Inv'
  <1>1. at[r] \in InRun
    BY DEF Snapshot, StartRun, PersistEvent, CandidateReady, Admit, Checkpoint, Project, Materialize,
       InRun, Before, Outside, Phase
  <1>2. PICK phase \in InRun : at' = [at EXCEPT ![r] = phase]
    <2>1. CASE PersistEvent(r)
      BY <1>1, <2>1 DEF PersistEvent, control, Inv, TypeOK
    <2>2. CASE ~PersistEvent(r)
      BY <2>2 DEF Snapshot, StartRun, CandidateReady, Admit, Checkpoint, Project, Materialize, Goes,
         InRun, Before, Outside, Phase
    <2> QED
      BY <2>1, <2>2
  <1>3. /\ UNCHANGED <<selected, lease, binding, kind, stopped, extras, turn, owned, last, offer, draft,
                       expected>>
        /\ live' \in {live, live \cup {r}}
    BY DEF Snapshot, StartRun, PersistEvent, CandidateReady, Admit, Checkpoint, Project, Materialize,
       Goes, control, conversation, folder
  <1>4. head' = head /\ local' \in BOOLEAN
    BY DEF Snapshot, StartRun, PersistEvent, CandidateReady, Admit, Checkpoint, Project, Materialize,
       AtHead, Current, Append, conversation, Inv, TypeOK
  <1>5. shown' = shown \/ (at[r] = "writing" /\ shown = expected[r] /\ shown' = r)
    BY DEF Snapshot, StartRun, PersistEvent, CandidateReady, Admit, Checkpoint, Project, Materialize,
       folder
  <1>6. phase = "projected" => shown' = r
    <2>1. at'[r] = phase
      BY <1>2 DEF Inv, TypeOK
    <2>2. CASE PersistEvent(r)
      BY <2>1, <2>2 DEF PersistEvent, control, folder, Inv, Bases, ProjectedIsShown
    <2>3. CASE ~PersistEvent(r)
      BY <2>1, <2>3 DEF Snapshot, StartRun, CandidateReady, Admit, Checkpoint, Project, Materialize,
         Goes, Inv, TypeOK
    <2> QED
      BY <2>2, <2>3
  <1>7. TypeOK'
    BY <1>2, <1>3, <1>4, <1>5 DEF Inv, TypeOK, InRun
  <1>8. Gate'
    BY <1>1, <1>2, <1>3, TaskAssumption DEF Inv, TypeOK, Gate, LeaseHeldThroughout, BindingIsLive,
       InRun, Before, Outside
  <1>9. OneOpenTurn'
    BY <1>3 DEF Inv, OneOpenTurn, Active, InTask
  <1>10. Pending' /\ Ours'
    BY <1>1, <1>2, <1>3, <1>4 DEF Inv, TypeOK, Pending, Ours, Active, InTask, InRun, Before, Outside
  <1>11. Bases'
    <2>1. \A q \in Requests : turn'[q] = "candidate" => at'[q] = "done"
      BY <1>1, <1>2, <1>3 DEF Inv, TypeOK, Bases, InRun, Outside
    <2>2. \A q \in Requests : expected'[q] \in Recorded'
      BY <1>3 DEF Inv, Bases, Recorded
    <2>3. ASSUME NEW q \in Requests, q # r, at'[q] = "projected" PROVE shown' = q
      <3>1. at[q] = "projected" /\ shown = q
        BY <1>2, <2>3 DEF Inv, TypeOK, Bases, ProjectedIsShown
      <3>2. q \notin Recorded
        BY <3>1, TaskAssumption DEF Inv, Bases, Recorded
      <3> QED
        BY <1>5, <3>1, <3>2 DEF Inv, Bases
    <2>4. ProjectedIsShown'
      BY <1>2, <1>6, <2>3 DEF Inv, TypeOK, ProjectedIsShown
    <2> QED
      BY <2>1, <2>2, <2>4 DEF Bases
  <1> QED
    BY <1>7, <1>8, <1>9, <1>10, <1>11 DEF Inv

(* A turn is completed by its own request, or its request has no turn.      *)
LEMMA CompletionStep ==
    ASSUME Inv, NEW r \in Requests, Answered(r) \/ Responded(r) \/ Complete(r) \/ UndoRejects(r)
    PROVE  Inv'
  <1>1. CASE Answered(r) \/ Responded(r) \/ Complete(r)
    <2>1. PICK end \in {"answered", "candidate"} : CloseTurn(r, end)
      BY <1>1 DEF Answered, Responded, Complete
    <2>2. /\ at[r] \in InRun
          /\ Ends(r)
          /\ UNCHANGED <<last, shown>>
          /\ offer' \in {offer, "draft"} /\ draft' \in BOOLEAN
      BY <1>1 DEF Answered, Responded, Complete, InRun, Before, Outside, Phase, Inv, TypeOK
    <2>3. head' \in {head, None} /\ local' \in BOOLEAN /\ end \in Closed
      BY <2>1 DEF CloseTurn, Inv, TypeOK, Closed
    <2> QED
      BY <2>1, <2>2, <2>3, EndStep DEF CloseTurn
  <1>2. CASE UndoRejects(r)
    <2>1. turn' = [turn EXCEPT ![r] = turn[r]]
      BY <1>2 DEF UndoRejects, Inv, TypeOK
    <2> QED
      BY <1>2, <2>1, EndStep DEF UndoRejects
  <1> QED
    BY <1>1, <1>2

(* What the window and the process do to it.                                *)
LEMMA OutsideStep ==
    ASSUME Inv,
           \/ OpenProject \/ ProjectOpened \/ ReadStream \/ Restart
           \/ \E r \in Requests : Cancel(r) \/ CancelRefused(r) \/ Steer(r)
    PROVE  Inv'
  <1>1. CASE OpenProject \/ ProjectOpened
    <2> USE <1>1 DEF OpenProject, ProjectOpened, conversation, folder
    <2>1. TypeOK'
      BY TaskAssumption DEF Inv, TypeOK
    <2>2. Gate'
      BY DEF Inv, Gate, LeaseHeldThroughout, BindingIsLive
    <2>3. OneOpenTurn' /\ Pending' /\ Ours'
      BY DEF Inv, OneOpenTurn, Active, InTask, Pending, Ours
    <2>4. Bases'
      BY DEF Inv, Bases, Recorded, ProjectedIsShown
    <2> QED
      BY <2>1, <2>2, <2>3, <2>4 DEF Inv
  <1>2. CASE ReadStream
    <2> USE <1>2 DEF ReadStream, control, folder
    <2>1. turn' \in [Requests -> Closed \cup {"none", "open", "failed"}]
      BY DEF Inv, TypeOK, Recovered, Closed
    <2>2. TypeOK'
      BY <2>1 DEF Inv, TypeOK
    <2>3. Gate'
      BY DEF Inv, Gate, LeaseHeldThroughout, BindingIsLive
    <2>4. \A q \in Requests :
            /\ turn'[q] = turn[q] \/ (Active(q) /\ turn'[q] \in {"interrupted", "failure"})
            /\ InTask(q) => turn'[q] \notin {"open", "failed"}
      BY DEF Inv, TypeOK, Recovered, Active
    <2>5. OneOpenTurn' /\ Pending' /\ Ours'
      BY <2>4, TaskAssumption DEF Inv, OneOpenTurn, Active, InTask, Pending, Ours
    <2>6. Bases'
      BY <2>4 DEF Inv, Bases, Recorded, ProjectedIsShown, Active
    <2> QED
      BY <2>2, <2>3, <2>5, <2>6 DEF Inv
  <1>3. CASE Restart
    <2> USE <1>3 DEF Restart
    <2>1. TypeOK'
      <3>1. extras' \in 0..MaxExtras
        BY TaskAssumption DEF Inv, TypeOK
      <3>2. lease' \in [Projects -> Requests \cup {None}]
        OBVIOUS
      <3>3. at' \in [Requests -> Phase]
        BY DEF Phase, Outside
      <3> QED
        BY <3>1, <3>2, <3>3, TaskAssumption DEF Inv, TypeOK
    <2>2. \A q \in Requests : at'[q] \in Outside /\ (at'[q] = "idle" => at[q] = "idle")
      BY DEF Outside
    <2>3. Gate'
      BY <2>2, TaskAssumption DEF Inv, Gate, LeaseHeldThroughout, BindingIsLive, InRun, Before, Outside
    <2>4. OneOpenTurn' /\ Pending' /\ Ours'
      BY <2>2, TaskAssumption DEF Inv, OneOpenTurn, Active, InTask, Pending, Ours, InRun, Before, Outside
    <2>5. Bases'
      BY <2>2 DEF Inv, Bases, Recorded, ProjectedIsShown, Outside
    <2> QED
      BY <2>1, <2>3, <2>4, <2>5 DEF Inv
  <1>4. ASSUME NEW r \in Requests, Cancel(r) PROVE Inv'
    <2> USE <1>4 DEF Cancel, folder
    <2>1. PICK outcome \in {"cancelled", "interrupted"} : CloseTurn(r, outcome)
      OBVIOUS
    <2>2. /\ turn' = [turn EXCEPT ![r] = outcome]
          /\ owned' = owned \ {r}
          /\ IF InTask(r) THEN head' = None /\ local' = FALSE ELSE head' = head /\ local' = local
      BY <2>1 DEF CloseTurn
    <2>3. TypeOK'
      BY <2>2 DEF Inv, TypeOK, Closed
    <2>4. at[r] \in InRun /\ turn[r] # "candidate"
      BY DEF Inv, TypeOK, Ours, Bases, InRun, Outside
    <2>5. Gate'
      <3>1. LeaseHeldThroughout' /\ BindingIsLive'
        BY DEF Inv, Gate, LeaseHeldThroughout, BindingIsLive
      <3>2. \A q \in Requests :
              kind'[q] \in Binders /\ at'[q] \in InRun \cup {"base"} /\ q \notin stopped' => binding' = q
        BY DEF Inv, Gate
      <3>3. \A q \in stopped' : at'[q] \in InRun
        BY <2>4 DEF Inv, Gate
      <3> QED
        BY <3>1, <3>2, <3>3 DEF Gate
    <2>6. /\ turn'[r] \in {"cancelled", "interrupted"}
          /\ \A q \in Requests \ {r} : turn'[q] = turn[q]
      BY <2>2 DEF Inv, TypeOK
    <2>7. OneOpenTurn' /\ Ours'
      BY <2>2, <2>4, <2>6 DEF Inv, OneOpenTurn, Active, InTask, Ours
    <2>8. Pending'
      BY <2>2, <2>4, <2>6, TaskAssumption DEF Inv, Pending, InTask, InRun, Before, Outside
    <2>9. Bases'
      BY <2>4, <2>6 DEF Inv, Bases, Recorded, ProjectedIsShown
    <2> QED
      BY <2>3, <2>5, <2>7, <2>8, <2>9 DEF Inv
  <1>5. ASSUME NEW r \in Requests, CancelRefused(r) \/ Steer(r) PROVE Inv'
    <2> USE <1>5 DEF CancelRefused, Steer, control, conversation, folder
    <2>1. TypeOK'
      <3>1. CASE CancelRefused(r)
        BY <3>1 DEF Inv, TypeOK
      <3>2. CASE Steer(r)
        <4>1. extras' \in 0..MaxExtras
          BY <3>2, TaskAssumption DEF Inv, TypeOK
        <4> QED
          BY <3>2, <4>1 DEF Inv, TypeOK
      <3> QED
        BY <3>1, <3>2
    <2>2. at[r] \in InRun
      BY DEF Inv, Ours
    <2>3. Gate'
      BY <2>2 DEF Inv, Gate, LeaseHeldThroughout, BindingIsLive
    <2>4. OneOpenTurn' /\ Pending' /\ Ours'
      BY DEF Inv, OneOpenTurn, Active, InTask, Pending, Ours
    <2>5. Bases'
      BY DEF Inv, Bases, Recorded, ProjectedIsShown
    <2> QED
      BY <2>1, <2>3, <2>4, <2>5 DEF Inv
  <1> QED
    BY <1>1, <1>2, <1>3, <1>4, <1>5

LEMMA NextInv == Inv /\ [Next]_vars => Inv'
  <1> SUFFICES ASSUME Inv, [Next]_vars PROVE Inv'
    OBVIOUS
  <1>1. CASE OpenProject \/ ProjectOpened \/ ReadStream \/ Restart
    BY <1>1, OutsideStep
  <1>2. ASSUME NEW r \in Requests, Cancel(r) \/ CancelRefused(r) \/ Steer(r) PROVE Inv'
    BY <1>2, OutsideStep
  <1>3. ASSUME NEW r \in Requests, (\E k \in Kinds : Ask(r, k)) \/ AskAgain(r) PROVE Inv'
    BY <1>3, AskStep
  <1>4. ASSUME NEW r \in Requests, Advance(r) PROVE Inv'
    <2>1. CASE Permission(r)
      BY <2>1, PermissionStep
    <2>2. CASE Begin(r)
      BY <2>2, BeginStep
    <2>3. CASE BaseFails(r) \/ SnapshotFails(r) \/ StartFails(r) \/ RunFails(r)
      <3>1. at[r] \in InRun \cup {"base"} /\ Fail(r)
        BY <2>3 DEF BaseFails, SnapshotFails, StartFails, RunFails, InRun, Before, Outside, Phase
      <3> QED
        BY <3>1, FailStep
    <2>4. CASE Settled(r)
      <3>1. at[r] \in InRun \cup {"base"} /\ Settle(r)
        BY <2>4 DEF Settled, InRun, Before, Outside, Phase
      <3> QED
        BY <3>1, SettleStep
    <2>5. CASE Answered(r) \/ Responded(r) \/ Complete(r) \/ UndoRejects(r)
      BY <2>5, CompletionStep
    <2>6. CASE \/ Snapshot(r) \/ StartRun(r) \/ PersistEvent(r) \/ CandidateReady(r)
               \/ Admit(r) \/ Checkpoint(r) \/ Project(r) \/ Materialize(r)
      BY <2>6, RunStep
    <2> QED
      BY <1>4, <2>1, <2>2, <2>3, <2>4, <2>5, <2>6 DEF Advance
  <1>5. CASE UNCHANGED vars
    BY <1>5 DEF vars, control, conversation, folder, Inv, TypeOK, Gate, LeaseHeldThroughout,
       BindingIsLive, OneOpenTurn, Active, InTask, Pending, Ours, Bases, Recorded, ProjectedIsShown
  <1> QED
    BY <1>1, <1>2, <1>3, <1>4, <1>5 DEF Next

(* The inductive invariant.                                                 *)
THEOREM InvCorrect == Spec => []Inv
  <1> QED
    BY InitInv, NextInv, PTL DEF Spec

(* Every reachable state has its type.                                      *)
THEOREM TypeCorrect == Spec => []TypeOK
  <1>1. Inv => TypeOK
    BY DEF Inv
  <1> QED
    BY <1>1, InvCorrect, PTL

(* A conversation has at most one open turn.                                *)
THEOREM OneTurnCorrect == Spec => []OneOpenTurn
  <1>1. Inv => OneOpenTurn
    BY DEF Inv
  <1> QED
    BY <1>1, InvCorrect, PTL

(* Reading the stream never recovers a turn of this process.                *)
THEOREM OwnershipCorrect == Spec => []LiveTurnIsOwned
  <1>1. Inv => LiveTurnIsOwned
    BY DEF Inv, TypeOK, Ours, LiveTurnIsOwned
  <1> QED
    BY <1>1, InvCorrect, PTL

(* A request that asked for its project's lease has it while it works, and  *)
(* nobody else ever has: not a question, a queued follow-up or a restoration. *)
THEOREM LeaseCorrect == Spec => []LeaseHeldThroughout
  <1>1. Inv => LeaseHeldThroughout
    BY DEF Inv, Gate
  <1> QED
    BY <1>1, InvCorrect, PTL

(* A candidate reported to be in the folder is in the folder, also beside   *)
(* queued follow-ups and restorations, which write it without the lease.    *)
THEOREM ShownCorrect == Spec => []ProjectedIsShown
  <1>1. Inv => ProjectedIsShown
    BY DEF Inv, Bases
  <1> QED
    BY <1>1, InvCorrect, PTL

(* A task is bound only to a request that is in progress.                   *)
THEOREM BindingCorrect == Spec => []BindingIsLive
  <1>1. Inv => BindingIsLive
    BY DEF Inv, Gate
  <1> QED
    BY <1>1, InvCorrect, PTL

(* A request that ends its turn finds its context at the head, and there    *)
(* the turn is still open.                                                  *)
LEMMA HeadIsOpen ==
    ASSUME Inv, NEW r \in Requests, at[r] \in InRun, AtHead(r)
    PROVE  turn[r] = "open"
  BY DEF Inv, Pending, AtHead

(* The end of a turn is final.                                              *)
LEMMA TurnStep ==
    ASSUME Inv, [Next]_vars, NEW r \in Requests, turn[r] \in Closed, turn'[r] # turn[r]
    PROVE  turn[r] = "interrupted" /\ turn'[r] = "open" /\ last = r /\ kind[r] = "resume"
  <1>1. turn[r] \notin {"open", "failed", "none"}
    BY DEF Closed
  <1>2. PICK q \in Requests : Advance(q) \/ Cancel(q)
    <2>1. ReadStream => turn'[r] = turn[r]
      BY <1>1 DEF ReadStream, Recovered, Active
    <2> QED
      BY <2>1 DEF Next, vars, conversation, control, OpenProject, ProjectOpened, Restart, Ask,
         AskAgain, CancelRefused, Steer
  <1>3. CASE Begin(q)
    <2>1. q = r
      <3>1. q # r => turn'[r] = turn[r]
        BY <1>1, <1>3 DEF Begin, BeginTurn, Recovered, Active, Inv, TypeOK
      <3> QED
        BY <3>1
    <2>2. MayBegin(r) /\ turn'[r] = "open" /\ at[r] = "base"
      BY <1>3, <2>1 DEF Begin, BeginTurn, Recovered, Inv, TypeOK
    <2>3. kind[r] \in {"retry", "resume"}
      BY <1>1, <2>2 DEF Inv, Pending, Before
    <2> QED
      BY <1>1, <2>2, <2>3 DEF MayBegin, Resumable
  <1>4. CASE ~Begin(q)
    <2>1. turn'[r] = turn[r] \/ (q = r /\ turn[r] = "open")
      <3>1. Settle(q) => turn'[r] = turn[r] \/ (q = r /\ turn[r] = "open")
        BY DEF Settle, RecordFailure, CloseTurn, conversation, Inv, TypeOK
      <3>2. Fail(q) => Settle(q) \/ UNCHANGED turn
        BY DEF Fail, conversation
      <3>3. Cancel(q) => turn'[r] = turn[r] \/ (q = r /\ turn[r] = "open")
        <4>1. Cancel(q) => turn[q] = "open"
          BY HeadIsOpen DEF Cancel, Inv, Ours
        <4> QED
          BY <4>1 DEF Cancel, CloseTurn, Inv, TypeOK
      <3>4. Answered(q) \/ Responded(q) \/ Complete(q) =>
                turn'[r] = turn[r] \/ (q = r /\ turn[r] = "open")
        <4> SUFFICES ASSUME Answered(q) \/ Responded(q) \/ Complete(q)
                     PROVE  turn'[r] = turn[r] \/ (q = r /\ turn[r] = "open")
          OBVIOUS
        <4>1. at[q] \in InRun /\ AtHead(q)
          BY DEF Answered, Responded, Complete, Current, InRun, Before, Outside, Phase
        <4>2. turn[q] = "open"
          BY <4>1, HeadIsOpen
        <4> QED
          BY <4>2 DEF Answered, Responded, Complete, CloseTurn, Inv, TypeOK
      <3>5. Permission(q) \/ UndoRejects(q) \/ Snapshot(q) \/ StartRun(q) \/ PersistEvent(q)
            \/ CandidateReady(q) \/ Admit(q) \/ Checkpoint(q) \/ Project(q) \/ Materialize(q)
            => UNCHANGED turn
        BY DEF Permission, UndoRejects, Snapshot, StartRun, PersistEvent, CandidateReady, Admit,
           Checkpoint, Project, Materialize, conversation
      <3> QED
        BY <1>2, <1>4, <3>1, <3>2, <3>3, <3>4, <3>5 DEF Advance, BaseFails, SnapshotFails,
           StartFails, RunFails, Settled
    <2> QED
      BY <1>1, <2>1
  <1> QED
    BY <1>3, <1>4

(* What the end of a turn says is never replaced.                           *)
THEOREM EndCorrect == Spec => TurnEndsOnce
  <1>1. Inv /\ [Next]_vars =>
          [\A r \in Requests :
             turn[r] \in Closed =>
                \/ turn'[r] = turn[r]
                \/ turn[r] = "interrupted" /\ turn'[r] = "open" /\ last = r /\ kind[r] = "resume"]_vars
    BY TurnStep
  <1> QED
    BY <1>1, InvCorrect, PTL DEF Spec, TurnEndsOnce

(* Who interrupts a build from outside: a request that begins its turn.     *)
LEMMA InterruptStep ==
    ASSUME Inv, [Next]_vars, NEW r \in Requests, InterruptedFromOutside(r)
    PROVE  \E q \in Requests :
              at[q] = "base" /\ at'[q] = "snapshot" /\ kind[q] \in Interrupters(r)
  <1> USE DEF InterruptedFromOutside
  <1>1. at[r] \in InRun
    <2>1. at[r] \notin Before
      BY DEF Inv, Pending
    <2> QED
      BY <2>1 DEF Inv, TypeOK, InRun
  <1>2. PICK q \in Requests : Begin(q)
    <2>1. ~ReadStream
      BY DEF ReadStream, Recovered, Active
    <2>2. \A q \in Requests : ~Cancel(q)
      BY DEF Cancel, CloseTurn, Inv, TypeOK
    <2>3. \A q \in Requests : ~Begin(q) /\ Advance(q) => turn'[r] # "interrupted"
      <3> SUFFICES ASSUME NEW q \in Requests, ~Begin(q), Advance(q) PROVE turn'[r] # "interrupted"
        OBVIOUS
      <3>1. Settle(q) => turn'[r] # "interrupted"
        BY DEF Settle, RecordFailure, CloseTurn, conversation, Inv, TypeOK
      <3>2. Fail(q) => Settle(q) \/ UNCHANGED turn
        BY DEF Fail, conversation
      <3>3. Answered(q) \/ Responded(q) \/ Complete(q) => turn'[r] # "interrupted"
        BY DEF Answered, Responded, Complete, CloseTurn, Inv, TypeOK
      <3>4. Permission(q) \/ UndoRejects(q) \/ Snapshot(q) \/ StartRun(q) \/ PersistEvent(q)
            \/ CandidateReady(q) \/ Admit(q) \/ Checkpoint(q) \/ Project(q) \/ Materialize(q)
            => UNCHANGED turn
        BY DEF Permission, UndoRejects, Snapshot, StartRun, PersistEvent, CandidateReady, Admit,
           Checkpoint, Project, Materialize, conversation
      <3> QED
        BY <3>1, <3>2, <3>3, <3>4 DEF Advance, BaseFails, SnapshotFails, StartFails, RunFails, Settled
    <2> QED
      BY <2>1, <2>2, <2>3 DEF Next, vars, conversation, control, OpenProject, ProjectOpened, Restart,
         Ask, AskAgain, CancelRefused, Steer
  <1>3. at[q] = "base" /\ at'[q] = "snapshot" /\ q # r
    BY <1>1, <1>2 DEF Begin, Goes, Inv, TypeOK, InRun, Before
  <1>4. InTask(q) /\ Active(r)
    <2>1. InTask(q)
      BY <1>2, <1>3 DEF Begin, BeginTurn, Inv, TypeOK
    <2>2. turn'[r] = Recovered[r]
      BY <1>2, <1>3, <2>1 DEF Begin, BeginTurn, Recovered
    <2> QED
      BY <2>1, <2>2 DEF Recovered
  <1>5. kind[q] \notin {"first", "restore", "approved", "continue", "followup", "retry", "resume"}
    <2>1. kind[q] \notin {"first", "restore"}
      BY <1>4 DEF InTask
    <2>2. ~NoneActive
      BY <1>4 DEF NoneActive
    <2>3. MayBegin(q)
      BY <1>2 DEF Begin
    <2>4. kind[q] # "retry"
      <3>1. kind[q] = "retry" => Active(q)
        BY <2>3 DEF MayBegin, Active, InTask
      <3> QED
        BY <1>3, <1>4, <3>1 DEF Inv, OneOpenTurn
    <2> QED
      BY <2>1, <2>2, <2>3, <2>4 DEF MayBegin, Resumable
  <1>6. kind[q] = "answer" => binding # r
    BY <1>3 DEF Inv, Gate, Binders, InRun, Before
  <1>7. kind[q] = "submit" => kind[r] = "undo"
    <2> SUFFICES ASSUME kind[q] = "submit" PROVE kind[r] = "undo"
      OBVIOUS
    <2>1. lease[Home] = q /\ binding = q
      BY <1>3 DEF Inv, Gate, LeaseHeldThroughout, Leased, Outside, Binders, InRun, Before
    <2>2. kind[r] \notin Leased
      BY <1>1, <1>3, <2>1 DEF Inv, Gate, LeaseHeldThroughout, InRun, Before
    <2>3. kind[r] # "followup"
      <3>1. stopped' = stopped
        BY <1>2 DEF Begin, Goes
      <3> QED
        BY <1>1, <1>3, <2>1, <3>1 DEF Inv, Gate, Binders
    <2>4. kind[r] \notin {"first", "restore"}
      BY <1>4 DEF Active, InTask
    <2> QED
      BY <2>2, <2>3, <2>4 DEF Builds, Restores
  <1>8. kind[q] \in Interrupters(r)
    <2>1. kind[q] \in Builds \cup Questions
      BY DEF Inv, TypeOK
    <2> QED
      BY <1>5, <1>6, <1>7, <2>1 DEF Interrupters, Builds, Leased, Restores, Questions
  <1> QED
    BY <1>3, <1>8

(* A build is interrupted by nobody else than these.                        *)
THEOREM InterruptCorrect == Spec => OnlyTheseInterrupt
  <1>1. Inv /\ [Next]_vars =>
          [\A r \in Requests : InterruptedFromOutside(r) =>
             \E q \in Requests :
                at[q] = "base" /\ at'[q] = "snapshot" /\ kind[q] \in Interrupters(r)]_vars
    BY InterruptStep
  <1> QED
    BY <1>1, InvCorrect, PTL DEF Spec, OnlyTheseInterrupt
=============================================================================
