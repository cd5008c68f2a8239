---------------------- MODULE ProjectController_proofs ----------------------
(* Proofs about ProjectController: for any number of projects, drafts and   *)
(* operations under way.                                                    *)
EXTENDS ProjectController, TLAPS

DraftMap == [Drafts -> [state : {"unborn", "pending", "saved", "gone"},
                        home : Projects \cup {None}, base : Nat]]

(* A draft that is named where project p is meant is one of p's, or gone.   *)
Named(d, p, dr) ==
    d # None => dr[d].state # "unborn" /\ dr[d].home \in {None, p}

SnapshotOK(s, dr) ==
    /\ s \in Snapshot
    /\ s.project = None => s.saved = 0 /\ s.draft = None /\ ~s.inspected
    /\ s.status = "ready" => s.draft = None
    /\ Named(s.draft, s.project, dr)

(* What an operation says of itself.                                        *)
OperationOK(r, dr) ==
    /\ r \in Operation
    /\ SnapshotOK(r.before, dr)
    /\ r.before.status \notin Busy
    /\ r.before.project \in {None, r.target}
    /\ Named(r.draft, r.target, dr) /\ Named(r.result.draft, r.target, dr)
    /\ r.target = None => r.draft = None /\ r.result.saved = 0 /\ r.result.draft = None
    /\ r.stage \in {"digest", "asked"} =>
          /\ r.target = None => r.kind \in {"new", "create"}
          /\ r.kind \in {"continue", "undo", "reject", "save", "restoreDraft"} => r.draft # None
    /\ r.stage = "digest" => r.kind \in Turns /\ ~r.before.retry
    /\ r.stage = "asked" /\ r.kind = "create" => r.target = None
    /\ r.result.is = "retryable" => r.kind \in Builds
    /\ r.kind \in Turns /\ ~r.late /\ r.ran # None => r.ran = r.target

(* What is known of the operation that has the epoch.                       *)
Matches(s, again) ==
    s.retry =>
        /\ again # None
        /\ again.target = s.project
        /\ s.draft = None
        /\ s.status = FailedStatus(again.kind)

LiveOK(o) ==
    /\ ~op[o].late
    /\ op[o].target = None => op[o].kind \in {"new", "create"}
    /\ op[o].kind \in Builds \ {"continue"} =>
          op[o].before.project = op[o].target /\ op[o].before.draft = None
    /\ op[o].stage # "preview" => Matches(op[o].before, retryable)
    /\ op[o].kind # "showCurrent" => ~shown.retry
    /\ op[o].kind = "undo" =>
          shown.status = "restoring" /\ shown.saved = op[o].before.saved /\ shown.draft # None

ActiveOK ==
    /\ cancelling => active # None
    /\ retryable # None => retryable.kind # "continue"
    /\ active # None =>
        /\ SnapshotOK(active.before, draft)
        /\ active.before.status \notin Busy
        /\ active.before.retry =>
              /\ Matches(active.before, retryable)
              /\ live # None
              /\ op[live].kind \in Builds /\ op[live].stage # "preview"
              /\ IF op[live].kind = "approved" THEN op[live].target = active.target
                 ELSE active.slot = live /\ active.known

(* A folder that is being picked is the only thing under way.               *)
CreateOK ==
    \A o \in Slots :
        op[o].kind = "create" /\ op[o].stage = "asked" /\ (op[o].fresh \/ live = o) =>
            /\ op[o].fresh /\ live = o
            /\ active = None
            /\ pending
            /\ shown.status = "opening"
            /\ \A q \in Slots \ {o} : ~op[q].fresh

(* All that still counts is about one project: what main has selected, what *)
(* is still going to select, the operation that has the epoch, what can be  *)
(* cancelled, and what shows unless another project is being opened.        *)
Agrees(p) ==
    /\ selected \in {None, p}
    /\ \A o \in Slots : op[o].fresh => op[o].target \in {None, p}
    /\ live # None => op[live].target \in {None, p}
    /\ live = None \/ op[live].kind \notin {"open", "new", "create"} =>
          shown.project \in {None, p}
    /\ active # None => active.target = p /\ active.before.project \in {None, p}

Homes ==
    \A d \in Drafts : draft[d].home # None <=> draft[d].state \in {"pending", "saved"}

Inv ==
    /\ TypeOK
    /\ Homes
    /\ \A o \in Slots : OperationOK(op[o], draft)
    /\ SnapshotOK(shown, draft)
    /\ Matches(shown, retryable)
    /\ WaitsForSomething
    /\ live # None => LiveOK(live)
    /\ ActiveOK
    /\ CreateOK
    /\ \E p \in Projects \cup {None} : Agrees(p)

-----------------------------------------------------------------------------
(* Records *)

(* A draft, once named, keeps its project or is gone.                       *)
Moves(dr, dr2) ==
    \A d \in Drafts : dr[d].state # "unborn" =>
        dr2[d].state # "unborn" /\ dr2[d].home \in {None, dr[d].home}

LEMMA SnapshotKept ==
  ASSUME NEW dr, NEW dr2, Moves(dr, dr2), NEW s, SnapshotOK(s, dr)
  PROVE  SnapshotOK(s, dr2)
  <1>1. s.draft \in Drafts \cup {None}
    BY DEF SnapshotOK, Snapshot
  <1>2. Named(s.draft, s.project, dr2)
    BY <1>1 DEF SnapshotOK, Named, Moves
  <1> QED
    BY <1>2 DEF SnapshotOK

LEMMA OperationKept ==
  ASSUME NEW dr, NEW dr2, Moves(dr, dr2), NEW r, OperationOK(r, dr)
  PROVE  OperationOK(r, dr2)
  <1>1. r.draft \in Drafts \cup {None} /\ r.result.draft \in Drafts \cup {None}
    BY DEF OperationOK, Operation, Result
  <1>2. Named(r.draft, r.target, dr2) /\ Named(r.result.draft, r.target, dr2)
    BY <1>1 DEF OperationOK, Named, Moves
  <1>3. SnapshotOK(r.before, dr2)
    BY SnapshotKept DEF OperationOK
  <1> QED
    BY <1>2, <1>3 DEF OperationOK

LEMMA BlankOK ==
  ASSUME NEW dr, NEW status \in Status
  PROVE  SnapshotOK(Blank(status), dr) /\ ~Blank(status).retry
  BY DEF SnapshotOK, Blank, Snapshot, Named

LEMMA IdleOK ==
  ASSUME NEW dr
  PROVE  OperationOK(Idle, dr) /\ OperationOK(Unread, dr)
  <1>1. "new" \in Status /\ SnapshotOK(Blank("new"), dr)
    BY BlankOK DEF Status, Settled
  <1>2. Blank("new") \in Snapshot /\ Blank("new").status = "new" /\ Blank("new").project = None
    BY <1>1 DEF SnapshotOK, Blank
  <1>3. NoResult \in Result
    BY DEF NoResult, Result
  <1>4. Idle \in Operation /\ Unread \in Operation
    BY <1>2, <1>3 DEF Idle, Unread, Operation, Kinds, Selections
  <1>5. /\ Idle.target = None /\ Idle.draft = None /\ Idle.result = NoResult
        /\ Idle.before = Blank("new") /\ Idle.ran = None /\ Idle.stage = "idle"
        /\ Unread.target = None /\ Unread.draft = None /\ Unread.result = NoResult
        /\ Unread.before = Blank("new") /\ Unread.ran = None /\ Unread.stage = "answered"
    BY DEF Idle, Unread
  <1>6. NoResult.draft = None /\ NoResult.saved = 0 /\ NoResult.is = "none"
    BY DEF NoResult
  <1> QED
    BY <1>1, <1>2, <1>4, <1>5, <1>6 DEF OperationOK, Named, Busy

LEMMA OperatesOK ==
  ASSUME NEW kind \in Kinds, NEW target \in Projects \cup {None},
         NEW d \in Drafts \cup {None}, NEW before \in Snapshot
  PROVE  LET r == Operates(kind, target, d, before)
         IN  /\ r \in Operation /\ r.kind = kind /\ r.target = target /\ r.draft = d
             /\ r.before = before /\ r.result = NoResult /\ ~r.late /\ ~r.fresh
             /\ r.ran = None /\ r.stage = "idle" /\ r.base = 0
  <1>1. Idle \in Operation
    BY IdleOK DEF OperationOK
  <1>2. Idle.result = NoResult /\ ~Idle.late /\ ~Idle.fresh /\ Idle.ran = None
        /\ Idle.stage = "idle" /\ Idle.base = 0
    BY DEF Idle
  <1> QED
    BY <1>1, <1>2 DEF Operates, Operation

(* An operation that is left keeps what it may still do.                    *)
LEMMA LeftOK ==
  ASSUME NEW dr, NEW r, OperationOK(r, dr)
  PROVE  /\ OperationOK(Left(r), dr)
         /\ Left(r).fresh => r.fresh /\ Left(r).target = r.target
         /\ Left(r).stage = "asked" /\ Left(r).kind = "create" /\ Left(r).fresh =>
               r.kind = "create" /\ r.stage = "asked"
  <1> DEFINE k == CASE r.kind = "generate" -> "submit"
                    [] r.kind = "reopen" -> "open"
                    [] OTHER -> r.kind
             l == [r EXCEPT !.before = Blank("new"), !.kind = k]
  <1>1. CASE r.stage \in {"idle", "digest"}
    <2>1. Left(r) = r
      BY <1>1 DEF Left
    <2> QED
      BY <2>1, <1>1
  <1>2. CASE r.stage = "asked" /\ MayChangeMain(r)
    <2>1. Left(r) = l
      BY <1>2 DEF Left
    <2>2. r \in Operation
      BY DEF OperationOK
    <2>3. "new" \in Status /\ SnapshotOK(Blank("new"), dr)
      BY BlankOK DEF Status, Settled
    <2>4. Blank("new") \in Snapshot /\ Blank("new").status = "new" /\ Blank("new").project = None
      BY <2>3 DEF SnapshotOK, Blank
    <2>5. k \in Kinds /\ (k = r.kind \/ (k = "submit" /\ r.kind = "generate")
                                     \/ (k = "open" /\ r.kind = "reopen"))
      BY <2>2 DEF Operation, Kinds, Turns, Builds, Selections
    <2> HIDE DEF k
    <2>6. l \in Operation
      BY <2>2, <2>4, <2>5 DEF Operation
    <2>7. /\ l.kind = k /\ l.before = Blank("new") /\ l.stage = r.stage /\ l.target = r.target
          /\ l.draft = r.draft /\ l.result = r.result /\ l.late = r.late /\ l.ran = r.ran
          /\ l.fresh = r.fresh
      BY <2>2 DEF Operation
    <2> HIDE DEF l
    <2>8. OperationOK(l, dr)
      <3>1. l.result.is = "retryable" => l.kind \in Builds
        BY <2>5, <2>7 DEF OperationOK, Builds
      <3>2. l.kind \in Turns /\ ~l.late /\ l.ran # None => l.ran = l.target
        BY <2>5, <2>7 DEF OperationOK, Turns, Builds
      <3>3. /\ l.target = None => l.kind \in {"new", "create"}
            /\ l.kind \in {"continue", "undo", "reject", "save", "restoreDraft"} => l.draft # None
        BY <1>2, <2>5, <2>7 DEF OperationOK
      <3>4. l.kind = "create" => l.target = None
        BY <1>2, <2>5, <2>7 DEF OperationOK
      <3> QED
        BY <1>2, <2>3, <2>4, <2>6, <2>7, <3>1, <3>2, <3>3, <3>4 DEF OperationOK, Busy
    <2> QED
      BY <1>2, <2>1, <2>5, <2>7, <2>8
  <1>3. CASE ~(r.stage \in {"idle", "digest"}) /\ ~(r.stage = "asked" /\ MayChangeMain(r))
    <2>1. Left(r) = Unread
      BY <1>3 DEF Left
    <2>2. ~Unread.fresh
      BY DEF Unread, Idle
    <2> QED
      BY <2>1, <2>2, IdleOK
  <1> QED
    BY <1>1, <1>2, <1>3

-----------------------------------------------------------------------------
(* A call of the main process finds the selection as it is.                 *)

LEMMA AskedOK ==
  ASSUME Inv, NEW r,
         OperationOK([r EXCEPT !.stage = "asked"], draft), r \in Operation,
         r.kind # "create", r.ran = None \/ r.kind # "save",
         r.target = selected \/ selected = None \/ r.late \/ r.kind \notin Turns
  PROVE  LET a == Asked(r)
         IN  /\ OperationOK(a, draft)
             /\ a.stage \in {"asked", "answered"} /\ a.kind = r.kind /\ a.target = r.target
             /\ a.before = r.before /\ a.late = r.late
             /\ a.ran \in {None, selected} /\ (pending => a.ran = None)
             /\ a.fresh => r.kind = "save"
  <1> DEFINE ran == IF pending \/ r.kind \in Plain THEN None ELSE selected
             f == [r EXCEPT !.stage = "answered", !.result = Says("failed")]
             a == [r EXCEPT !.stage = "asked", !.ran = ran, !.fresh = (r.kind = "save"),
                            !.base = IF ran = None THEN 0 ELSE revision[ran]]
             b == [r EXCEPT !.stage = "asked"]
  <1>0. TypeOK /\ b \in Operation
    BY DEF Inv, OperationOK
  <1>1. /\ b.stage = "asked" /\ b.kind = r.kind /\ b.target = r.target
        /\ b.before = r.before /\ b.late = r.late /\ b.ran = r.ran /\ b.draft = r.draft
        /\ b.result = r.result
    BY DEF Operation
  <1> HIDE DEF b
  <1>2. CASE pending /\ r.kind = "save"
    <2>1. Asked(r) = f
      BY <1>2 DEF Asked
    <2>2. Says("failed") \in Result /\ Says("failed").draft = None
          /\ Says("failed").saved = 0 /\ Says("failed").is = "failed"
      BY DEF Says, NoResult, Result
    <2>3. f \in Operation
      BY <2>2 DEF Operation
    <2>4. /\ f.stage = "answered" /\ f.kind = r.kind /\ f.target = r.target
          /\ f.before = r.before /\ f.late = r.late /\ f.ran = r.ran /\ f.draft = r.draft
          /\ f.result = Says("failed")
      BY DEF Operation
    <2> HIDE DEF f
    <2>5. OperationOK(f, draft)
      BY <1>2, <1>1, <2>2, <2>3, <2>4 DEF OperationOK, Named
    <2> QED
      BY <1>2, <2>1, <2>4, <2>5
  <1>3. CASE ~(pending /\ r.kind = "save")
    <2>1. Asked(r) = a
      BY <1>3 DEF Asked
    <2>2. ran \in Projects \cup {None} /\ ran \in {None, selected} /\ (pending => ran = None)
      BY <1>0 DEF TypeOK
    <2>3. (IF ran = None THEN 0 ELSE revision[ran]) \in Nat
      BY <1>0, <2>2 DEF TypeOK
    <2> HIDE DEF ran
    <2>4. a \in Operation
      BY <2>2, <2>3 DEF Operation
    <2>5. /\ a.stage = "asked" /\ a.kind = r.kind /\ a.target = r.target
          /\ a.before = r.before /\ a.late = r.late /\ a.ran = ran /\ a.draft = r.draft
          /\ a.result = r.result /\ a.fresh = (r.kind = "save")
      BY DEF Operation
    <2> HIDE DEF a
    <2>6. a.kind \in Turns /\ ~a.late /\ a.ran # None => a.ran = a.target
      BY <2>2, <2>5
    <2>7. OperationOK(a, draft)
      BY <1>1, <2>4, <2>5, <2>6 DEF OperationOK
    <2> QED
      BY <2>1, <2>2, <2>5, <2>7
  <1> QED
    BY <1>2, <1>3

-----------------------------------------------------------------------------
(* The main process answers an operation: nothing in the window changes,    *)
(* and only an operation that is fresh changes what is selected.            *)
LEMMA ReplyStep ==
  ASSUME Inv, NEW o \in Slots, NEW res \in Result,
         op[o].stage = "asked",
         op' \in [Slots -> Operation], op'[o] = Answered(o, res),
         \A q \in Slots \ {o} :
            op'[q] = op[q] \/ (op[o].fresh /\ op'[q] = [op[q] EXCEPT !.fresh = FALSE]),
         TypeOK', Homes', Moves(draft, draft'),
         live = o => Named(res.draft, op[o].target, draft'),
         live = o /\ op[o].target = None => res.saved = 0 /\ res.draft = None,
         res.is = "retryable" => op[o].kind \in Builds,
         pending' = pending \/ op[o].fresh,
         selected' \in {None, selected} \/ (op[o].fresh /\ selected' = op[o].target),
         UNCHANGED window
  PROVE  Inv'
  <1> USE DEF window
  <1>0. TypeOK /\ \A q \in Slots : OperationOK(op[q], draft)
    BY DEF Inv
  <1>1. ASSUME live # o
        PROVE  op'[o] = Unread /\ ~Unread.fresh /\ Unread.stage = "answered"
    BY <1>1 DEF Answered, Unread, Idle
  <1>2. ASSUME live = o
        PROVE  /\ op'[o].kind = op[o].kind /\ op'[o].target = op[o].target
               /\ op'[o].draft = op[o].draft /\ op'[o].before = op[o].before
               /\ op'[o].ran = op[o].ran /\ op'[o].late = op[o].late
               /\ op'[o].fresh = op[o].fresh /\ op'[o].stage = "answered"
               /\ op'[o].result = res
    BY <1>0, <1>2 DEF Answered, TypeOK, Operation
  <1>3. ASSUME NEW q \in Slots \ {o}
        PROVE  /\ op'[q].kind = op[q].kind /\ op'[q].target = op[q].target
               /\ op'[q].draft = op[q].draft /\ op'[q].before = op[q].before
               /\ op'[q].ran = op[q].ran /\ op'[q].late = op[q].late
               /\ op'[q].stage = op[q].stage /\ op'[q].result = op[q].result
               /\ op'[q].fresh => op[q].fresh
               /\ ~op[o].fresh => op'[q].fresh = op[q].fresh
    BY <1>0 DEF TypeOK, Operation
  <1>4. /\ \A q \in Slots : op'[q].fresh => op[q].fresh /\ op'[q].target = op[q].target
        /\ live # None =>
              /\ op'[live].kind = op[live].kind /\ op'[live].target = op[live].target
              /\ op'[live].before = op[live].before /\ op'[live].late = op[live].late
              /\ op[live].stage = "preview" <=> op'[live].stage = "preview"
    BY <1>0, <1>1, <1>2, <1>3 DEF TypeOK
  <1>5. ASSUME NEW q \in Slots PROVE OperationOK(op'[q], draft')
    <2>1. OperationOK(op[q], draft')
      BY <1>0, OperationKept
    <2>2. CASE q # o
      BY <1>3, <2>1, <2>2 DEF OperationOK
    <2>3. CASE q = o /\ live # o
      BY <1>1, <2>3, IdleOK
    <2>4. CASE q = o /\ live = o
      <3>1. op'[o] \in Operation
        OBVIOUS
      <3> QED
        BY <1>2, <2>1, <2>4, <3>1 DEF OperationOK
    <2> QED
      BY <2>2, <2>3, <2>4
  <1>6. SnapshotOK(shown', draft') /\ Matches(shown, retryable)' /\ WaitsForSomething'
    BY SnapshotKept DEF Inv, Matches, WaitsForSomething, Displayed
  <1>7. (live # None => LiveOK(live))'
    <2> SUFFICES ASSUME live # None PROVE LiveOK(live)'
      OBVIOUS
    <2>1. LiveOK(live)
      BY DEF Inv
    <2>2. op'[live].stage # "preview" => Matches(op[live].before, retryable)
      BY <1>4, <2>1 DEF LiveOK
    <2>3. op'[live].stage # "preview" => Matches(op[live].before, retryable)'
      BY <1>4, <2>2 DEF Matches
    <2> QED
      BY <1>4, <2>1, <2>3 DEF LiveOK
  <1>8. ActiveOK'
    <2>1. active # None => SnapshotOK(active.before, draft')
      BY SnapshotKept DEF Inv, ActiveOK
    <2> QED
      BY <1>4, <2>1 DEF Inv, ActiveOK, Matches
  <1>9. CreateOK'
    <2> SUFFICES ASSUME NEW q \in Slots, op'[q].kind = "create", op'[q].stage = "asked",
                        op'[q].fresh \/ live = q
                 PROVE  /\ op'[q].fresh /\ live = q /\ active = None /\ pending'
                        /\ shown.status = "opening"
                        /\ \A x \in Slots \ {q} : ~op'[x].fresh
      BY DEF CreateOK
    <2>1. q # o
      BY <1>1, <1>2
    <2>2. op[q].kind = "create" /\ op[q].stage = "asked" /\ (op[q].fresh \/ live = q)
      BY <1>3, <2>1
    <2>3. /\ op[q].fresh /\ live = q /\ active = None /\ pending
          /\ shown.status = "opening"
          /\ \A x \in Slots \ {q} : ~op[x].fresh
      BY <2>2 DEF Inv, CreateOK
    <2>4. ~op[o].fresh
      BY <2>1, <2>3
    <2> QED
      BY <1>3, <1>4, <2>1, <2>3, <2>4
  <1>10. \E p \in Projects \cup {None} : Agrees(p)'
    <2>1. PICK p \in Projects \cup {None} : Agrees(p)
      BY DEF Inv
    <2>2. selected' \in {None, p}
      BY <2>1 DEF Agrees
    <2> QED
      BY <1>4, <2>1, <2>2 DEF Agrees
  <1> QED
    BY <1>5, <1>6, <1>7, <1>8, <1>9, <1>10 DEF Inv

LEMMA AnsweredType ==
  ASSUME Inv, NEW o \in Slots, NEW res \in Result
  PROVE  Answered(o, res) \in Operation
  <1>1. Unread \in Operation
    BY IdleOK DEF OperationOK
  <1>2. op[o] \in Operation
    BY DEF Inv, TypeOK
  <1> DEFINE r == [op[o] EXCEPT !.stage = "answered", !.result = res]
  <1>3. r \in Operation
    BY <1>2 DEF Operation
  <1> QED
    BY <1>1, <1>3 DEF Answered

LEMMA AnswerStep ==
  ASSUME Inv, NEW o \in Slots, NEW res \in Result,
         op[o].stage = "asked", Answers(o, res),
         draft' \in DraftMap, Homes', Moves(draft, draft'),
         live = o => Named(res.draft, op[o].target, draft'),
         live = o /\ op[o].target = None => res.saved = 0 /\ res.draft = None,
         res.is = "retryable" => op[o].kind \in Builds,
         pending' \in BOOLEAN, selected' \in Projects \cup {None},
         pending' = pending \/ op[o].fresh,
         selected' \in {None, selected} \/ (op[o].fresh /\ selected' = op[o].target),
         UNCHANGED <<window, bound, revision>>
  PROVE  Inv'
  <1>1. Answered(o, res) \in Operation
    BY AnsweredType
  <1>2. TypeOK
    BY DEF Inv
  <1>3. op' \in [Slots -> Operation] /\ op'[o] = Answered(o, res)
        /\ \A q \in Slots \ {o} : op'[q] = op[q]
    BY <1>1, <1>2 DEF Answers, TypeOK
  <1>4. TypeOK'
    BY <1>2, <1>3 DEF TypeOK, DraftMap, window
  <1> QED
    BY <1>3, <1>4, ReplyStep

LEMMA SaysOK ==
  ASSUME NEW is \in {"none", "failed", "retryable", "answered", "done", "baseline"}
  PROVE  /\ Says(is) \in Result /\ Says(is).is = is
         /\ Says(is).draft = None /\ Says(is).saved = 0
         /\ \A p, dr : Named(Says(is).draft, p, dr)
  BY DEF Says, NoResult, Result, Named

LEMMA DraftsStay ==
  ASSUME Inv, UNCHANGED draft
  PROVE  draft' \in DraftMap /\ Homes' /\ Moves(draft, draft')
  <1>1. draft \in DraftMap /\ Homes
    BY DEF Inv, TypeOK, DraftMap
  <1>2. \A d \in Drafts : draft[d].home \in {None, draft[d].home}
    OBVIOUS
  <1> QED
    BY <1>1, <1>2 DEF Homes, Moves

(* A draft that is drawn is of the project the operation runs in.           *)
LEMMA DrawStep ==
  ASSUME Inv, NEW o \in Slots, op[o].stage = "asked", op[o].ran # None,
         live = o => op[o].ran = op[o].target,
         NEW d \in Drafts, NEW before \in DraftMap, NEW base \in Nat,
         \A c \in Drafts : before[c] = draft[c] \/ (before[c] = Gone /\ draft[c].state # "unborn"),
         Draws(o, d, before, base), UNCHANGED window
  PROVE  Inv'
  <1> DEFINE new == [state |-> "pending", home |-> op[o].ran, base |-> base]
             res == [NoResult EXCEPT !.is = "draft", !.draft = d, !.base = base]
  <1>1. TypeOK /\ Homes /\ op[o] \in Operation /\ OperationOK(op[o], draft)
    BY DEF Inv, TypeOK
  <1>2. op[o].ran \in Projects
    BY <1>1 DEF Operation
  <1>3. new \in [state : {"unborn", "pending", "saved", "gone"},
                 home : Projects \cup {None}, base : Nat]
    BY <1>2
  <1>4. new.state = "pending" /\ new.home = op[o].ran
    OBVIOUS
  <1>5. res \in Result /\ res.is = "draft" /\ res.draft = d /\ res.saved = 0
    BY DEF NoResult, Result
  <1>6. Answers(o, res) /\ draft' = [before EXCEPT ![d] = new]
        /\ UNCHANGED <<selected, pending, bound, revision>> /\ draft[d].state = "unborn"
    BY DEF Draws
  <1> HIDE DEF new, res
  <1>7. draft' \in DraftMap /\ draft'[d] = new /\ \A c \in Drafts \ {d} : draft'[c] = before[c]
    BY <1>3, <1>6 DEF DraftMap
  <1>8. Gone.state = "gone" /\ Gone.home = None
    BY DEF Gone
  <1>9. Homes'
    BY <1>1, <1>2, <1>4, <1>7, <1>8, ControllerAssumption DEF Homes
  <1>10. Moves(draft, draft')
    BY <1>6, <1>7, <1>8 DEF Moves
  <1>11. live = o => Named(res.draft, op[o].target, draft')
    BY <1>4, <1>5, <1>7 DEF Named
  <1>12. live = o => op[o].target # None
    BY <1>2, ControllerAssumption
  <1> QED
    BY <1>1, <1>5, <1>6, <1>7, <1>9, <1>10, <1>11, <1>12, AnswerStep DEF TypeOK

LEMMA FolderPicked ==
  ASSUME Inv, NEW o \in Slots, MainCreates(o), UNCHANGED window
  PROVE  Inv'
  <1>0. TypeOK /\ OperationOK(op[o], draft) /\ op[o].stage = "asked" /\ op[o].kind = "create"
    BY DEF Inv, MainCreates
  <1>1. draft' = draft /\ revision' = revision
    BY DEF MainCreates
  <1>2. ASSUME NEW p \in Projects \ bound, bound' = bound \cup {p}, Selects(o, p),
               op' = [op EXCEPT ![o] =
                        IF live = o THEN [@ EXCEPT !.stage = "answered", !.target = p,
                                                   !.result = Says("done")]
                        ELSE Unread]
        PROVE  Inv'
    <2>1. selected' \in Projects \cup {None} /\ pending' \in BOOLEAN /\ bound' \subseteq Projects
      BY <1>0, <1>2 DEF Selects, TypeOK
    <2>2. CASE live # o
      <3>1. ~op[o].fresh
        BY <1>0, <2>2 DEF Inv, CreateOK
      <3>2. selected' = selected /\ pending' = pending
        BY <1>0, <1>2, <3>1 DEF Selects, TypeOK
      <3>3. Unread \in Operation /\ Says("failed") \in Result
        BY IdleOK, SaysOK DEF OperationOK
      <3>4. op' \in [Slots -> Operation] /\ op'[o] = Answered(o, Says("failed"))
            /\ \A q \in Slots \ {o} : op'[q] = op[q]
        BY <1>0, <1>2, <2>2, <3>3 DEF TypeOK, Answered
      <3>5. TypeOK'
        BY <1>0, <1>1, <2>1, <3>4 DEF TypeOK, window
      <3>6. Homes' /\ Moves(draft, draft')
        BY <1>1, DraftsStay
      <3>7. Says("failed").is # "retryable"
        BY SaysOK
      <3> QED
        BY <1>0, <2>2, <3>1, <3>2, <3>3, <3>4, <3>5, <3>6, <3>7, ReplyStep
    <2>3. CASE live = o
      <3> DEFINE r == [op[o] EXCEPT !.stage = "answered", !.target = p, !.result = Says("done")]
      <3>1. /\ op[o].fresh /\ active = None /\ shown.status = "opening"
            /\ \A q \in Slots \ {o} : ~op[q].fresh
        BY <1>0, <2>3 DEF Inv, CreateOK
      <3>2. selected' = p
        BY <1>2, <3>1 DEF Selects
      <3>3. op[o] \in Operation /\ Says("done") \in Result
        BY <1>0, SaysOK DEF TypeOK
      <3>4. r \in Operation
        BY <3>3 DEF Operation
      <3>5. /\ r.stage = "answered" /\ r.target = p /\ r.result = Says("done")
            /\ r.kind = "create" /\ r.draft = op[o].draft /\ r.before = op[o].before
            /\ r.late = op[o].late
        BY <1>0, <3>3 DEF Operation
      <3>6. op' \in [Slots -> Operation] /\ op'[o] = r
            /\ \A q \in Slots \ {o} : op'[q] = op[q]
        BY <1>0, <1>2, <2>3, <3>4 DEF TypeOK
      <3> HIDE DEF r
      <3>7. TypeOK'
        BY <1>0, <1>1, <2>1, <3>6 DEF TypeOK, window
      <3>8. Says("done").draft = None /\ Says("done").saved = 0 /\ Says("done").is = "done"
        BY SaysOK
      <3>9. p # None /\ op[o].target = None /\ op[o].draft = None /\ op[o].before.project = None
        BY <1>0, ControllerAssumption DEF OperationOK
      <3>10. OperationOK(r, draft)
        BY <1>0, <3>4, <3>5, <3>8, <3>9 DEF OperationOK, Named, Turns, Builds
      <3>11. \A q \in Slots : OperationOK(op'[q], draft')
        BY <1>1, <3>6, <3>10 DEF Inv
      <3>12. LiveOK(o)
        BY <2>3, ControllerAssumption DEF Inv
      <3>13. LiveOK(o)'
        BY <1>0, <3>5, <3>6, <3>12 DEF LiveOK, Matches, window, Builds
      <3>14. CreateOK'
        BY <2>3, <3>1, <3>5, <3>6 DEF CreateOK, window
      <3>15. Agrees(p)'
        <4>1. \A q \in Slots : op'[q].fresh => op'[q].target = p
          BY <3>1, <3>5, <3>6
        <4>2. live' = o /\ active' = None /\ op'[o].target = p /\ op'[o].kind = "create"
          BY <2>3, <3>1, <3>5, <3>6 DEF window
        <4>3. o # None
          BY ControllerAssumption
        <4> QED
          BY <3>2, <4>1, <4>2, <4>3 DEF Agrees
      <3>16. ActiveOK'
        BY <3>1 DEF Inv, ActiveOK, window
      <3>17. Homes'
        BY <1>1, DraftsStay
      <3> QED
        BY <1>1, <1>2, <2>3, <3>7, <3>11, <3>13, <3>14, <3>15, <3>16, <3>17
        DEF Inv, Matches, WaitsForSomething, Displayed, window
    <2> QED
      BY <2>2, <2>3
  <1>3. ASSUME Selects(o, None), Answers(o, Says("failed")), UNCHANGED bound
        PROVE  Inv'
    <2>1. /\ selected' \in {None, selected} /\ pending' = (pending /\ ~op[o].fresh)
      BY <1>0, <1>3 DEF Selects
    <2>2. pending' \in BOOLEAN /\ selected' \in Projects \cup {None}
      BY <1>0, <2>1 DEF TypeOK
    <2>3. pending' = pending \/ op[o].fresh
      BY <1>0, <2>1 DEF TypeOK
    <2>4. /\ Says("failed") \in Result /\ Says("failed").is = "failed"
          /\ Says("failed").draft = None /\ Says("failed").saved = 0
          /\ Named(Says("failed").draft, op[o].target, draft')
      BY SaysOK
    <2> QED
      BY <1>0, <1>1, <1>3, <2>1, <2>2, <2>3, <2>4, AnswerStep, DraftsStay
  <1> QED
    BY <1>2, <1>3 DEF MainCreates

LEMMA DraftSaved ==
  ASSUME Inv, NEW o \in Slots, MainSaves(o), UNCHANGED window
  PROVE  Inv'
  <1> DEFINE d == op[o].draft
             p == draft[d].home
             kept == op[o].fresh /\ selected = op[o].ran
  <1>0. TypeOK /\ OperationOK(op[o], draft) /\ op[o].stage = "asked" /\ op[o].kind = "save"
        /\ Homes
    BY DEF Inv, MainSaves
  <1>1. d \in Drafts
    BY <1>0 DEF OperationOK, Operation
  <1>2. draft[d].state \in {"pending", "saved"}
    BY DEF MainSaves, Pending
  <1>3. p \in Projects /\ op[o].target = p
    BY <1>0, <1>1, <1>2, ControllerAssumption DEF Homes, TypeOK, OperationOK, Named
  <1>4. draft' \in DraftMap /\ Homes' /\ Moves(draft, draft')
    <2>1. CASE UNCHANGED draft
      BY <2>1, DraftsStay
    <2>2. CASE draft' = [draft EXCEPT ![d].state = "saved"]
      <3>1. draft \in DraftMap
        BY <1>0 DEF TypeOK, DraftMap
      <3>2. draft' \in DraftMap /\ \A c \in Drafts : draft'[c].home = draft[c].home
        BY <2>2, <3>1 DEF DraftMap
      <3>3. draft'[d].state = "saved" /\ \A c \in Drafts \ {d} : draft'[c].state = draft[c].state
        BY <1>1, <2>2, <3>1 DEF DraftMap
      <3> QED
        BY <1>0, <1>2, <3>2, <3>3 DEF Homes, Moves
    <2> QED
      BY <2>1, <2>2 DEF MainSaves
  <1>5. revision' \in [Projects -> Nat]
    BY <1>0, <1>3 DEF MainSaves, TypeOK
  <1>6. UNCHANGED <<pending, bound>>
    BY DEF MainSaves
  <1>7. ASSUME op' = [q \in Slots |-> IF q = o THEN Answered(q, Says("done"))
                                      ELSE [op[q] EXCEPT !.fresh = @ /\ ~kept]],
               selected' = IF kept THEN p ELSE selected
        PROVE  Inv'
    <2>1. Says("done") \in Result /\ Says("done").is = "done" /\ Says("done").draft = None
          /\ Says("done").saved = 0 /\ Named(Says("done").draft, op[o].target, draft')
      BY SaysOK
    <2>2. op'[o] = Answered(o, Says("done")) /\ op'[o] \in Operation
      BY <1>7, <2>1, AnsweredType
    <2>3. ASSUME NEW q \in Slots \ {o}
          PROVE  /\ op'[q] \in Operation
                 /\ op'[q] = op[q] \/ (op[o].fresh /\ op'[q] = [op[q] EXCEPT !.fresh = FALSE])
      <3>1. op[q] \in Operation /\ op'[q] = [op[q] EXCEPT !.fresh = op[q].fresh /\ ~kept]
        BY <1>0, <1>7 DEF TypeOK
      <3>2. CASE kept
        <4>1. (op[q].fresh /\ ~kept) = FALSE
          BY <3>2
        <4> QED
          BY <3>1, <3>2, <4>1 DEF Operation
      <3>3. CASE ~kept
        <4>1. (op[q].fresh /\ ~kept) = op[q].fresh
          BY <3>1, <3>3 DEF Operation
        <4> QED
          BY <3>1, <4>1 DEF Operation
      <3> QED
        BY <3>2, <3>3
    <2>4. op' \in [Slots -> Operation]
      BY <1>7, <2>2, <2>3
    <2>5. selected' \in Projects \cup {None}
      BY <1>0, <1>3, <1>7 DEF TypeOK
    <2>6. TypeOK'
      BY <1>0, <1>4, <1>5, <1>6, <2>4, <2>5 DEF TypeOK, DraftMap, window
    <2> QED
      BY <1>0, <1>3, <1>4, <1>6, <1>7, <2>1, <2>2, <2>3, <2>4, <2>6, ReplyStep
  <1>8. ASSUME Answers(o, Says("failed")), UNCHANGED selected
        PROVE  Inv'
    <2>1. Says("failed") \in Result /\ Says("failed").is = "failed" /\ Says("failed").draft = None
          /\ Says("failed").saved = 0 /\ Named(Says("failed").draft, op[o].target, draft')
      BY SaysOK
    <2>2. op' \in [Slots -> Operation] /\ op'[o] = Answered(o, Says("failed"))
          /\ \A q \in Slots \ {o} : op'[q] = op[q]
      BY <1>0, <1>8, <2>1, AnsweredType DEF Answers, TypeOK
    <2>3. TypeOK'
      BY <1>0, <1>4, <1>5, <1>6, <1>8, <2>2 DEF TypeOK, DraftMap, window
    <2> QED
      BY <1>0, <1>4, <1>6, <1>8, <2>1, <2>2, <2>3, ReplyStep
  <1> QED
    BY <1>7, <1>8 DEF MainSaves

LEMMA MainStepInv ==
  ASSUME Inv, NEW o \in Slots, MainStep(o)
  PROVE  Inv'
  <1>0. TypeOK /\ OperationOK(op[o], draft) /\ op[o] \in Operation /\ UNCHANGED window
    BY DEF Inv, TypeOK, MainStep
  <1>1. selected \in Projects \cup {None} /\ pending \in BOOLEAN /\ draft \in DraftMap
    BY <1>0 DEF TypeOK, DraftMap
  <1>2. ASSUME NEW is \in {"failed", "answered", "done", "retryable"}, UNCHANGED main,
               op[o].stage = "asked", Answers(o, Says(is)),
               is = "retryable" => op[o].kind \in Builds
        PROVE  Inv'
    <2>1. Says(is) \in Result /\ Says(is).is = is /\ Says(is).draft = None
          /\ Says(is).saved = 0 /\ Named(Says(is).draft, op[o].target, draft')
      BY SaysOK
    <2> QED
      BY <1>0, <1>1, <1>2, <2>1, AnswerStep, DraftsStay DEF main
  <1>3. CASE MainFails(o)
    BY <1>2, <1>3 DEF MainFails
  <1>4. CASE MainAnswers(o)
    BY <1>2, <1>4 DEF MainAnswers
  <1>5. CASE MainOpensNone(o)
    BY <1>2, <1>5 DEF MainOpensNone
  <1>6. CASE MainDrafts(o)
    <2>1. PICK d \in Drafts :
            \/ /\ op[o].kind \in {"submit", "generate", "approved", "restoreRevision"}
               /\ Draws(o, d, draft, op[o].base)
            \/ /\ op[o].kind \in {"continue", "undo"}
               /\ Pending(op[o].draft)
               /\ Draws(o, d, [draft EXCEPT ![op[o].draft] = Gone],
                        draft[op[o].draft].base)
      BY <1>6 DEF MainDrafts
    <2>2. op[o].stage = "asked" /\ op[o].ran # None
          /\ (op[o].kind \in {"continue", "approved", "restoreRevision", "undo"}
                => op[o].ran = op[o].target)
      BY <1>6 DEF MainDrafts, Admitted
    <2>3. live = o => op[o].ran = op[o].target
      <3>1. live = o => ~op[o].late
        BY ControllerAssumption DEF Inv, LiveOK
      <3>2. op[o].kind \in {"submit", "generate"} => op[o].kind \in Turns
        BY DEF Turns, Builds
      <3> QED
        BY <1>0, <2>1, <2>2, <3>1, <3>2 DEF OperationOK
    <2>4. CASE Draws(o, d, draft, op[o].base)
      <3>1. op[o].base \in Nat
        BY <1>0 DEF Operation
      <3> QED
        BY <1>0, <1>1, <2>2, <2>3, <2>4, <3>1, DrawStep
    <2>5. CASE /\ op[o].kind \in {"continue", "undo"}
               /\ Pending(op[o].draft)
               /\ Draws(o, d, [draft EXCEPT ![op[o].draft] = Gone], draft[op[o].draft].base)
      <3>1. op[o].draft \in Drafts
        BY <1>0, <2>2, <2>5 DEF OperationOK, Operation
      <3>2. draft[op[o].draft].base \in Nat /\ draft[op[o].draft].state = "pending"
        BY <1>1, <2>5, <3>1 DEF DraftMap, Pending
      <3>3. Gone \in [state : {"unborn", "pending", "saved", "gone"},
                      home : Projects \cup {None}, base : Nat]
        BY DEF Gone
      <3> DEFINE before == [draft EXCEPT ![op[o].draft] = Gone]
      <3>4. before \in DraftMap
            /\ \A c \in Drafts : before[c] = draft[c] \/ (before[c] = Gone /\ draft[c].state # "unborn")
        BY <1>1, <3>1, <3>2, <3>3 DEF DraftMap
      <3> HIDE DEF before
      <3>5. Draws(o, d, before, draft[op[o].draft].base)
        BY <2>5 DEF before
      <3> QED
        BY <1>0, <2>2, <2>3, <3>2, <3>4, <3>5, DrawStep
    <2> QED
      BY <2>1, <2>4, <2>5
  <1>7. ASSUME NEW is \in {"baseline", "done"}, Decides(o, is), op[o].stage = "asked",
               op[o].kind \in {"undo", "reject"},
               UNCHANGED <<selected, pending, bound, revision>>
        PROVE  Inv'
    <2>1. op[o].draft \in Drafts
      BY <1>0, <1>7 DEF OperationOK, Operation
    <2>2. draft[op[o].draft].state = "pending" /\ draft' = [draft EXCEPT ![op[o].draft] = Gone]
      BY <1>7 DEF Decides, Pending
    <2>3. Gone \in [state : {"unborn", "pending", "saved", "gone"},
                    home : Projects \cup {None}, base : Nat]
          /\ Gone.state = "gone" /\ Gone.home = None
      BY DEF Gone
    <2>4. draft' \in DraftMap /\ draft'[op[o].draft] = Gone
          /\ \A c \in Drafts \ {op[o].draft} : draft'[c] = draft[c]
      BY <1>1, <2>1, <2>2, <2>3 DEF DraftMap
    <2>5. Homes' /\ Moves(draft, draft')
      BY <2>2, <2>3, <2>4 DEF Inv, Homes, Moves
    <2>6. Says(is) \in Result /\ Says(is).is = is /\ Says(is).draft = None
          /\ Says(is).saved = 0 /\ Named(Says(is).draft, op[o].target, draft')
      BY SaysOK
    <2>7. Answers(o, Says(is))
      BY <1>7 DEF Decides
    <2> QED
      BY <1>0, <1>1, <1>7, <2>4, <2>5, <2>6, <2>7, AnswerStep
  <1>8. CASE MainUndoesAll(o)
    BY <1>7, <1>8 DEF MainUndoesAll
  <1>9. CASE MainRejects(o)
    BY <1>7, <1>9 DEF MainRejects
  <1>10. CASE MainRestores(o)
    <2> DEFINE d == op[o].draft
               res == [NoResult EXCEPT !.is = "draft", !.draft = d, !.base = draft[d].base]
    <2>1. op[o].stage = "asked" /\ op[o].kind = "restoreDraft" /\ Answers(o, res) /\ UNCHANGED main
      BY <1>10 DEF MainRestores
    <2>2. d \in Drafts
      BY <1>0, <2>1 DEF OperationOK, Operation
    <2>3. draft[d].base \in Nat
      BY <1>1, <2>2 DEF DraftMap
    <2>4. res \in Result /\ res.draft = d /\ res.is = "draft" /\ res.saved = 0
      BY <2>2, <2>3 DEF NoResult, Result
    <2> HIDE DEF res
    <2>5. Named(res.draft, op[o].target, draft') /\ op[o].target # None
      BY <1>0, <2>1, <2>4 DEF OperationOK, main
    <2> QED
      BY <1>0, <1>1, <2>1, <2>4, <2>5, AnswerStep, DraftsStay DEF main
  <1>11. ASSUME NEW saved \in Nat, op[o].stage = "asked", op[o].target # None,
                Answers(o, [NoResult EXCEPT !.is = "done", !.saved = saved]),
                UNCHANGED <<bound, revision, draft>>,
                pending' \in BOOLEAN, selected' \in Projects \cup {None},
                pending' = pending \/ op[o].fresh,
                selected' \in {None, selected} \/ (op[o].fresh /\ selected' = op[o].target)
         PROVE  Inv'
    <2> DEFINE res == [NoResult EXCEPT !.is = "done", !.saved = saved]
    <2>1. res \in Result /\ res.draft = None /\ res.is = "done"
      BY DEF NoResult, Result
    <2>2. Answers(o, res)
      BY <1>11
    <2> HIDE DEF res
    <2>3. Named(res.draft, op[o].target, draft')
      BY <2>1 DEF Named
    <2> QED
      BY <1>0, <1>11, <2>1, <2>2, <2>3, AnswerStep, DraftsStay
  <1>12. CASE MainOpens(o)
    <2>1. op[o].stage = "asked" /\ op[o].kind \in {"open", "reopen"}
      BY <1>12 DEF MainOpens
    <2>2. op[o].target \in Projects /\ op[o].target # None
      BY <1>0, <2>1 DEF OperationOK, Operation
    <2>3. revision[op[o].target] \in Nat
      BY <1>0, <2>2 DEF TypeOK
    <2>4. ASSUME NEW p \in {op[o].target, None}, Selects(o, p)
          PROVE  /\ pending' \in BOOLEAN /\ selected' \in Projects \cup {None}
                 /\ pending' = pending \/ op[o].fresh
                 /\ selected' \in {None, selected} \/ (op[o].fresh /\ selected' = op[o].target)
      BY <1>1, <2>2, <2>4 DEF Selects
    <2>5. CASE /\ Selects(o, op[o].target)
               /\ Answers(o, [NoResult EXCEPT !.is = "done", !.saved = revision[op[o].target]])
      BY <1>11, <1>12, <2>1, <2>2, <2>3, <2>4, <2>5 DEF MainOpens
    <2>6. CASE Selects(o, None) /\ Answers(o, Says("failed"))
      <3>1. Says("failed") \in Result /\ Says("failed").is = "failed"
            /\ Says("failed").draft = None /\ Says("failed").saved = 0
            /\ Named(Says("failed").draft, op[o].target, draft')
        BY SaysOK
      <3> QED
        BY <1>0, <1>12, <2>1, <2>4, <2>6, <3>1, AnswerStep, DraftsStay DEF MainOpens
    <2> QED
      BY <1>12, <2>5, <2>6 DEF MainOpens
  <1>13. CASE MainReads(o)
    <2>1. op[o].stage = "asked" /\ op[o].kind \in {"reload", "inspect"} /\ UNCHANGED main
          /\ Answers(o, [NoResult EXCEPT !.is = "done", !.saved = revision[op[o].target]])
      BY <1>13 DEF MainReads
    <2>2. op[o].target \in Projects /\ op[o].target # None
      BY <1>0, <2>1 DEF OperationOK, Operation
    <2>3. revision[op[o].target] \in Nat
      BY <1>0, <2>2 DEF TypeOK
    <2> QED
      BY <1>1, <1>11, <2>1, <2>2, <2>3 DEF main
  <1> QED
    BY <1>0, <1>3, <1>4, <1>5, <1>6, <1>8, <1>9, <1>10, <1>12, <1>13, FolderPicked, DraftSaved
    DEF MainStep

-----------------------------------------------------------------------------
(* An answer arrives: the operation ends and shows what it brought, or goes *)
(* on to a preview of it.                                                   *)

RetryableOK(r) ==
    r = None \/ (r \in [kind : Builds, target : Projects] /\ r.kind # "continue")

(* What may be cancelled stays, or was the operation's own.                 *)
Clears ==
    /\ active' \in {active, None}
    /\ cancelling' \in BOOLEAN
    /\ cancelling' => active' # None
    /\ active' # None => ~active.before.retry

LEMMA KeepsActive ==
  ASSUME Inv, live # None, op[live].kind \notin Builds, UNCHANGED <<active, cancelling>>
  PROVE  Clears
  BY DEF Inv, ActiveOK, Clears, TypeOK

LEMMA ShowStep ==
  ASSUME Inv, NEW o \in Slots, live = o, op[o].stage \in {"answered", "preview"},
         NEW s, Shows(o, s), SnapshotOK(s, draft),
         s.status \notin Busy \/ (s.status = "restoring" /\ s.saved = 0 /\ s.draft # None),
         \A p : Agrees(p) => s.project \in {None, p},
         Clears, RetryableOK(retryable'), Matches(s, retryable'),
         UNCHANGED main
  PROVE  Inv'
  <1>0. TypeOK /\ draft' = draft /\ UNCHANGED <<selected, pending, bound, revision>>
    BY DEF Inv, main
  <1>1. shown' = s /\ live' = None /\ op' = [op EXCEPT ![o] = Idle]
    BY DEF Shows, Free
  <1>2. Idle \in Operation /\ OperationOK(Idle, draft) /\ ~Idle.fresh /\ Idle.kind = "open"
    BY IdleOK DEF OperationOK, Idle
  <1>3. op'[o] = Idle /\ \A q \in Slots \ {o} : op'[q] = op[q]
    BY <1>0, <1>1 DEF TypeOK
  <1>4. TypeOK'
    BY <1>0, <1>1, <1>2 DEF TypeOK, SnapshotOK, Clears, RetryableOK
  <1>5. \A q \in Slots : OperationOK(op'[q], draft')
    BY <1>0, <1>2, <1>3 DEF Inv
  <1>6. SnapshotOK(shown', draft') /\ Matches(shown, retryable)'
    BY <1>0, <1>1 DEF Matches
  <1>7. WaitsForSomething'
    BY <1>1 DEF WaitsForSomething, Displayed
  <1>8. ActiveOK'
    BY <1>0 DEF Inv, ActiveOK, Clears, RetryableOK
  <1>9. CreateOK'
    <2> SUFFICES ASSUME NEW q \in Slots, op'[q].kind = "create", op'[q].stage = "asked",
                        op'[q].fresh \/ live' = q
                 PROVE  FALSE
      BY DEF CreateOK
    <2>1. q # o /\ op'[q] = op[q] /\ op[q].fresh
      BY <1>1, <1>2, <1>3, ControllerAssumption
    <2> QED
      BY <2>1 DEF Inv, CreateOK
  <1>10. \E p \in Projects \cup {None} : Agrees(p)'
    <2>1. PICK p \in Projects \cup {None} : Agrees(p)
      BY DEF Inv
    <2>2. s.project \in {None, p}
      BY <2>1
    <2>3. Agrees(p)'
      BY <1>0, <1>1, <1>2, <1>3, <2>1, <2>2 DEF Agrees, Clears
    <2> QED
      BY <2>3
  <1>11. Homes'
    BY <1>0 DEF Inv, Homes
  <1> QED
    BY <1>1, <1>4, <1>5, <1>6, <1>7, <1>8, <1>9, <1>10, <1>11 DEF Inv

LEMMA PreviewStep ==
  ASSUME Inv, NEW o \in Slots, live = o, op[o].stage = "answered",
         op[o].kind # "showCurrent",
         NEW saved \in Nat, NEW d \in Drafts \cup {None}, Previews(o, saved, d),
         Named(d, op[o].target, draft),
         op[o].target = None => saved = 0 /\ d = None,
         Clears, RetryableOK(retryable'),
         UNCHANGED main
  PROVE  Inv'
  <1> DEFINE res == [NoResult EXCEPT !.saved = saved, !.draft = d]
             r == [op[o] EXCEPT !.stage = "preview", !.result = res]
  <1>0. TypeOK /\ draft' = draft /\ UNCHANGED <<selected, pending, bound, revision>>
    BY DEF Inv, main
  <1>1. op[o] \in Operation /\ OperationOK(op[o], draft) /\ LiveOK(o) /\ o # None
    BY ControllerAssumption DEF Inv, TypeOK
  <1>2. res \in Result /\ res.saved = saved /\ res.draft = d /\ res.is = "none"
    BY DEF NoResult, Result
  <1>3. op' = [op EXCEPT ![o].stage = "preview", ![o].result = res] /\ UNCHANGED <<shown, live>>
    BY DEF Previews
  <1> HIDE DEF res
  <1>4. r \in Operation
    BY <1>1, <1>2 DEF Operation
  <1>5. /\ r.stage = "preview" /\ r.result = res /\ r.kind = op[o].kind
        /\ r.target = op[o].target /\ r.draft = op[o].draft /\ r.before = op[o].before
        /\ r.late = op[o].late /\ r.ran = op[o].ran /\ r.fresh = op[o].fresh
    BY <1>1 DEF Operation
  <1>6. op'[o] = r /\ op' \in [Slots -> Operation] /\ \A q \in Slots \ {o} : op'[q] = op[q]
    BY <1>0, <1>3, <1>4 DEF TypeOK
  <1> HIDE DEF r
  <1>7. OperationOK(r, draft)
    BY <1>1, <1>2, <1>4, <1>5 DEF OperationOK
  <1>8. TypeOK'
    BY <1>0, <1>3, <1>6 DEF TypeOK, Clears, RetryableOK
  <1>9. \A q \in Slots : OperationOK(op'[q], draft')
    BY <1>0, <1>6, <1>7 DEF Inv
  <1>10. ~shown.retry
    BY <1>1 DEF LiveOK
  <1>11. SnapshotOK(shown', draft') /\ Matches(shown, retryable)' /\ WaitsForSomething'
    BY <1>0, <1>1, <1>3, <1>10 DEF Inv, Matches, WaitsForSomething, Displayed
  <1>12. (live # None => LiveOK(live))'
    BY <1>1, <1>3, <1>5, <1>6 DEF LiveOK
  <1>13. ActiveOK'
    BY <1>0 DEF Inv, ActiveOK, Clears, RetryableOK
  <1>14. CreateOK'
    <2> SUFFICES ASSUME NEW q \in Slots, op'[q].kind = "create", op'[q].stage = "asked",
                        op'[q].fresh \/ live' = q
                 PROVE  FALSE
      BY DEF CreateOK
    <2>1. q # o /\ op'[q] = op[q] /\ op[q].fresh
      BY <1>3, <1>5, <1>6
    <2> QED
      BY <2>1 DEF Inv, CreateOK
  <1>15. \E p \in Projects \cup {None} : Agrees(p)'
    <2>1. PICK p \in Projects \cup {None} : Agrees(p)
      BY DEF Inv
    <2>2. Agrees(p)'
      BY <1>0, <1>1, <1>3, <1>5, <1>6, <2>1 DEF Agrees, Clears
    <2> QED
      BY <2>2
  <1>16. Homes'
    BY <1>0 DEF Inv, Homes
  <1> QED
    BY <1>8, <1>9, <1>11, <1>12, <1>13, <1>14, <1>15, <1>16 DEF Inv

LEMMA LiveFacts ==
  ASSUME Inv, NEW o \in Slots, live = o
  PROVE  /\ TypeOK /\ op[o] \in Operation /\ OperationOK(op[o], draft) /\ LiveOK(o)
         /\ op[o].before \in Snapshot /\ op[o].result \in Result
         /\ \A p : Agrees(p) => op[o].target \in {None, p} /\ op[o].before.project \in {None, p}
         /\ RetryableOK(retryable)
  <1>1. TypeOK /\ op[o] \in Operation /\ OperationOK(op[o], draft) /\ LiveOK(o)
    BY ControllerAssumption DEF Inv, TypeOK
  <1>2. op[o].before \in Snapshot /\ op[o].result \in Result
    BY <1>1 DEF Operation
  <1>3. \A p : Agrees(p) => op[o].target \in {None, p} /\ op[o].before.project \in {None, p}
    BY <1>1, ControllerAssumption DEF Agrees, OperationOK
  <1>4. RetryableOK(retryable)
    BY <1>1 DEF Inv, ActiveOK, RetryableOK, TypeOK
  <1> QED
    BY <1>1, <1>2, <1>3, <1>4

(* A doubtful or failed operation shows what was there before.              *)
LEMMA FallsBack ==
  ASSUME Inv, NEW o \in Slots, live = o, op[o].stage = "answered",
         NEW status \in Settled \cup Doubtful, NEW again \in BOOLEAN,
         status # "ready" \/ op[o].before.draft = None,
         Shows(o, [op[o].before EXCEPT !.status = status, !.retry = again]),
         Clears, RetryableOK(retryable'),
         again => /\ retryable' # None
                  /\ retryable'.target = op[o].before.project
                  /\ op[o].before.draft = None
                  /\ status = FailedStatus(retryable'.kind),
         UNCHANGED main
  PROVE  Inv'
  <1> DEFINE b == op[o].before
             s == [b EXCEPT !.status = status, !.retry = again]
  <1>1. b \in Snapshot /\ OperationOK(op[o], draft)
        /\ \A p : Agrees(p) => b.project \in {None, p}
    BY LiveFacts
  <1>2. status \in Status /\ status \notin Busy
    BY DEF Status, Settled, Doubtful, Busy
  <1>3. s \in Snapshot
    BY <1>1, <1>2 DEF Snapshot
  <1>4. /\ s.status = status /\ s.retry = again /\ s.project = b.project
        /\ s.draft = b.draft /\ s.saved = b.saved /\ s.inspected = b.inspected
    BY <1>1 DEF Snapshot
  <1>5. Shows(o, s)
    OBVIOUS
  <1>6. SnapshotOK(b, draft)
    BY <1>1 DEF OperationOK
  <1> HIDE DEF s
  <1>7. SnapshotOK(s, draft)
    BY <1>3, <1>4, <1>6 DEF SnapshotOK
  <1>8. Matches(s, retryable')
    BY <1>4 DEF Matches
  <1> QED
    BY <1>1, <1>2, <1>4, <1>5, <1>7, <1>8, ShowStep

(* ... or exactly what was there.                                           *)
LEMMA GoesBack ==
  ASSUME Inv, NEW o \in Slots, live = o, op[o].stage = "answered",
         Shows(o, op[o].before), Clears, UNCHANGED retryable, UNCHANGED main
  PROVE  Inv'
  <1>1. /\ OperationOK(op[o], draft) /\ LiveOK(o) /\ RetryableOK(retryable)
        /\ \A p : Agrees(p) => op[o].before.project \in {None, p}
    BY LiveFacts
  <1>2. SnapshotOK(op[o].before, draft) /\ op[o].before.status \notin Busy
    BY <1>1 DEF OperationOK
  <1> DEFINE s == op[o].before
  <1>3. Matches(s, retryable)
    BY <1>1 DEF LiveOK
  <1> HIDE DEF s
  <1>4. Matches(s, retryable')
    BY <1>3 DEF Matches, s
  <1>5. SnapshotOK(s, draft) /\ s.status \notin Busy /\ Shows(o, s)
        /\ \A p : Agrees(p) => s.project \in {None, p}
    BY <1>1, <1>2 DEF s
  <1>6. RetryableOK(retryable')
    BY <1>1
  <1> QED
    BY <1>4, <1>5, <1>6, ShowStep

LEMMA ReceiveSelectionInv ==
  ASSUME Inv, NEW o \in Slots, ReceiveSelection(o)
  PROVE  Inv'
  <1> DEFINE r == op[o].result
  <1>1. live = o /\ op[o].stage = "answered" /\ op[o].kind \in {"open", "new", "create"}
        /\ UNCHANGED <<active, retryable, cancelling, main>>
    BY DEF ReceiveSelection, Arrives
  <1>2. /\ OperationOK(op[o], draft) /\ LiveOK(o) /\ r \in Result /\ RetryableOK(retryable)
        /\ op[o].target \in Projects \cup {None}
        /\ \A p : Agrees(p) => op[o].target \in {None, p}
    BY <1>1, LiveFacts DEF Operation
  <1>3. Clears
    BY <1>1, KeepsActive, ControllerAssumption DEF Builds
  <1>4. ASSUME NEW s, Shows(o, s), s \in Snapshot, s.draft = None, s.saved = 0, ~s.retry, ~s.inspected,
               s.project \in {None, op[o].target}, s.status \notin Busy
        PROVE  Inv'
    <2>1. SnapshotOK(s, draft) /\ Matches(s, retryable')
      BY <1>4 DEF SnapshotOK, Named, Matches
    <2>2. \A p : Agrees(p) => s.project \in {None, p}
      BY <1>2, <1>4
    <2> QED
      BY <1>1, <1>2, <1>3, <1>4, <2>1, <2>2, ShowStep
  <1>5. CASE r.is = "done" /\ r.saved > 0 /\ Previews(o, r.saved, None)
    <2>1. r.saved \in Nat /\ (op[o].target = None => r.saved = 0)
      BY <1>2 DEF Result, OperationOK
    <2>2. Named(None, op[o].target, draft)
      BY DEF Named
    <2>3. op[o].target = None => r.saved = 0 /\ None = None
      BY <2>1
    <2> HIDE DEF r
    <2> QED
      BY <1>1, <1>2, <1>3, <1>5, <2>1, <2>2, <2>3, PreviewStep
  <1>6. CASE Shows(o, IF op[o].kind = "new" THEN Blank("new") ELSE Local(op[o].target))
    <2>1. Blank("new") \in Snapshot /\ Blank("new").draft = None /\ Blank("new").saved = 0
          /\ ~Blank("new").retry /\ ~Blank("new").inspected /\ Blank("new").project = None /\ Blank("new").status = "new"
      BY DEF Blank, Snapshot, Status, Settled
    <2>2. /\ Local(op[o].target) \in Snapshot /\ Local(op[o].target).draft = None
          /\ Local(op[o].target).saved = 0 /\ ~Local(op[o].target).retry
          /\ ~Local(op[o].target).inspected
          /\ Local(op[o].target).project = op[o].target /\ Local(op[o].target).status = "ready"
      BY <1>2 DEF Local, Blank, Snapshot, Status, Settled
    <2> QED
      BY <1>4, <1>6, <2>1, <2>2 DEF Busy
  <1>7. CASE Shows(o, Blank(IF op[o].kind = "open" THEN "unavailable" ELSE "new"))
    <2> DEFINE status == IF op[o].kind = "open" THEN "unavailable" ELSE "new"
    <2>1. status \in Status /\ status \notin Busy
      BY DEF Status, Settled, Busy
    <2> HIDE DEF status
    <2>2. Blank(status) \in Snapshot /\ Blank(status).draft = None /\ Blank(status).saved = 0
          /\ ~Blank(status).retry /\ ~Blank(status).inspected /\ Blank(status).project = None /\ Blank(status).status = status
      BY <2>1 DEF Blank, Snapshot
    <2>3. Shows(o, Blank(status))
      BY <1>7 DEF status
    <2> QED
      BY <1>4, <2>1, <2>2, <2>3
  <1> QED
    BY <1>5, <1>6, <1>7 DEF ReceiveSelection

(* A request that shows its answer is no longer to be cancelled.            *)
LEMMA TurnClears ==
  ASSUME Inv, NEW o \in Slots, live = o, ClearActive(o)
  PROVE  Clears
  <1> DEFINE its == /\ active # None
                    /\ IF op[o].kind = "approved" THEN active.target = op[o].target
                       ELSE active.slot = o
  <1>1. active' = (IF its THEN None ELSE active) /\ cancelling' = (cancelling /\ ~its)
    BY DEF ClearActive
  <1>2. TypeOK /\ ActiveOK
    BY DEF Inv
  <1>3. active # None /\ active.before.retry => its
    BY <1>2 DEF ActiveOK
  <1> HIDE DEF its
  <1> QED
    BY <1>1, <1>2, <1>3 DEF Clears, ActiveOK, TypeOK

LEMMA ReceiveTurnInv ==
  ASSUME Inv, NEW o \in Slots, ReceiveTurn(o)
  PROVE  Inv'
  <1> DEFINE r == op[o].result
             b == op[o].before
             its == op[o].ran = op[o].target
  <1>1. live = o /\ op[o].stage = "answered" /\ op[o].kind \in Turns /\ ClearActive(o)
        /\ UNCHANGED main
    BY DEF ReceiveTurn, Arrives
  <1>2. /\ OperationOK(op[o], draft) /\ LiveOK(o) /\ r \in Result /\ RetryableOK(retryable)
        /\ op[o].target \in Projects \cup {None} /\ b \in Snapshot /\ op[o] \in Operation
    BY <1>1, LiveFacts DEF Operation
  <1>3. Clears
    BY <1>1, TurnClears
  <1>4. op[o].target # None /\ op[o].kind \notin {"new", "create", "showCurrent"}
    BY <1>1, <1>2 DEF LiveOK, Turns, Builds
  <1>5. ASSUME NEW again \in BOOLEAN, TurnFails(o, again), again => op[o].kind \in Builds
        PROVE  Inv'
    <2> DEFINE kept == again /\ op[o].kind # "continue"
    <2>1. /\ retryable' = (IF op[o].kind \in {"answer", "proposePlan"} THEN retryable
                           ELSE IF kept THEN [kind |-> op[o].kind, target |-> op[o].target]
                           ELSE None)
          /\ Shows(o, [b EXCEPT !.status = FailedStatus(op[o].kind), !.retry = kept])
      BY <1>5 DEF TurnFails
    <2>2. kept => op[o].kind \in Builds \ {"continue"}
      BY <1>5
    <2>3. kept \in BOOLEAN
      OBVIOUS
    <2> HIDE DEF kept
    <2>4. kept => /\ retryable' = [kind |-> op[o].kind, target |-> op[o].target]
                  /\ op[o].before.project = op[o].target /\ op[o].before.draft = None
      BY <1>2, <2>1, <2>2 DEF Builds, LiveOK
    <2>5. RetryableOK(retryable')
      <3>1. CASE kept
        BY <1>2, <1>4, <2>2, <2>4, <3>1 DEF RetryableOK
      <3>2. CASE ~kept
        BY <1>2, <2>1, <3>2 DEF RetryableOK
      <3> QED
        BY <3>1, <3>2
    <2>6. FailedStatus(op[o].kind) \in Settled \cup Doubtful /\ FailedStatus(op[o].kind) # "ready"
      BY DEF FailedStatus, Settled
    <2>7. kept => /\ retryable' # None
                  /\ retryable'.target = op[o].before.project
                  /\ op[o].before.draft = None
                  /\ FailedStatus(op[o].kind) = FailedStatus(retryable'.kind)
      <3> SUFFICES ASSUME kept
                   PROVE  /\ retryable' # None
                          /\ retryable'.target = op[o].before.project
                          /\ op[o].before.draft = None
                          /\ FailedStatus(op[o].kind) = FailedStatus(retryable'.kind)
        OBVIOUS
      <3>1. retryable' = [kind |-> op[o].kind, target |-> op[o].target]
        BY <2>4
      <3>2. retryable'.kind = op[o].kind /\ retryable'.target = op[o].target
        BY <3>1
      <3>3. retryable' # None
        BY <1>2, <1>4, <2>2, <3>1, RequestAssumption
      <3> QED
        BY <2>4, <3>2, <3>3
    <2> DEFINE status == FailedStatus(op[o].kind)
    <2> HIDE DEF status
    <2>8. status \in Settled \cup Doubtful /\ status # "ready"
          /\ Shows(o, [op[o].before EXCEPT !.status = status, !.retry = kept])
      BY <2>1, <2>6 DEF status
    <2>9. kept => /\ retryable' # None
                  /\ retryable'.target = op[o].before.project
                  /\ op[o].before.draft = None
                  /\ status = FailedStatus(retryable'.kind)
      BY <2>7 DEF status
    <2> QED
      BY <1>1, <1>3, <2>3, <2>5, <2>8, <2>9, FallsBack
  <1>6. CASE /\ r.is = "answered" /\ its
             /\ Shows(o, Settle(b))
             /\ retryable' = IF op[o].kind \in Builds THEN None ELSE retryable
    <2> DEFINE status == IF b.draft = None THEN "ready" ELSE "draft_ready"
    <2>1. status \in Settled \cup Doubtful /\ (status # "ready" \/ b.draft = None)
      BY DEF Settled
    <2>2. Shows(o, [op[o].before EXCEPT !.status = status, !.retry = FALSE])
      BY <1>6 DEF Settle
    <2>3. RetryableOK(retryable')
      BY <1>2, <1>6 DEF RetryableOK
    <2> HIDE DEF status
    <2> QED
      BY <1>1, <1>3, <2>1, <2>2, <2>3, FallsBack
  <1>7. CASE /\ r.is = "draft" /\ its
             /\ Previews(o, b.saved, r.draft)
             /\ retryable' = None
    <2>1. b.saved \in Nat /\ r.draft \in Drafts \cup {None} /\ Named(r.draft, op[o].target, draft)
      BY <1>2 DEF Snapshot, Result, OperationOK
    <2>2. RetryableOK(retryable')
      BY <1>7 DEF RetryableOK
    <2> DEFINE saved == b.saved
               d == r.draft
    <2> HIDE DEF saved, d
    <2>3. saved \in Nat /\ d \in Drafts \cup {None} /\ Named(d, op[o].target, draft)
          /\ Previews(o, saved, d)
      BY <1>7, <2>1 DEF saved, d
    <2> QED
      BY <1>1, <1>3, <1>4, <2>2, <2>3, PreviewStep
  <1>8. CASE TurnFails(o, FALSE)
    BY <1>5, <1>8
  <1>9. CASE r.is = "retryable" /\ TurnFails(o, TRUE)
    <2>1. op[o].kind \in Builds
      BY <1>2, <1>9 DEF OperationOK
    <2> QED
      BY <1>5, <1>9, <2>1
  <1> QED
    BY <1>6, <1>7, <1>8, <1>9 DEF ReceiveTurn

LEMMA ReceiveRestoredInv ==
  ASSUME Inv, NEW o \in Slots, ReceiveRestored(o)
  PROVE  Inv'
  <1> DEFINE r == op[o].result
             b == op[o].before
  <1>1. live = o /\ op[o].stage = "answered" /\ op[o].kind \in {"restoreDraft", "restoreRevision"}
        /\ UNCHANGED <<active, cancelling, main>>
    BY DEF ReceiveRestored, Arrives
  <1>2. /\ OperationOK(op[o], draft) /\ LiveOK(o) /\ r \in Result /\ RetryableOK(retryable)
        /\ op[o].target \in Projects \cup {None} /\ b \in Snapshot /\ TypeOK
    BY <1>1, LiveFacts DEF Operation
  <1>3. Clears
    BY <1>1, KeepsActive, ControllerAssumption DEF Builds
  <1>4. op[o].target # None
    BY <1>1, <1>2 DEF LiveOK
  <1>5. ASSUME NEW saved \in {b.saved} \cup
                  (IF op[o].kind = "restoreDraft" /\ b.saved = 0
                   THEN {revision[op[o].target]} ELSE {}),
               Previews(o, saved, r.draft), retryable' = None
        PROVE  Inv'
    <2>1. saved \in Nat
      BY <1>2, <1>4, <1>5 DEF Snapshot, TypeOK
    <2>2. r.draft \in Drafts \cup {None} /\ Named(r.draft, op[o].target, draft)
      BY <1>2 DEF Result, OperationOK
    <2>3. RetryableOK(retryable')
      BY <1>5 DEF RetryableOK
    <2> DEFINE d == r.draft
    <2> HIDE DEF d
    <2>4. d \in Drafts \cup {None} /\ Named(d, op[o].target, draft) /\ Previews(o, saved, d)
      BY <1>5, <2>2 DEF d
    <2> QED
      BY <1>1, <1>3, <1>4, <2>1, <2>3, <2>4, PreviewStep
  <1>6. CASE Shows(o, b) /\ UNCHANGED retryable
    BY <1>1, <1>3, <1>6, GoesBack
  <1> QED
    BY <1>5, <1>6 DEF ReceiveRestored

LEMMA ReceiveUndoneInv ==
  ASSUME Inv, NEW o \in Slots, ReceiveUndone(o)
  PROVE  Inv'
  <1> DEFINE r == op[o].result
             b == op[o].before
  <1>1. live = o /\ op[o].stage = "answered" /\ op[o].kind = "undo"
        /\ UNCHANGED <<active, cancelling, main>>
    BY DEF ReceiveUndone, Arrives
  <1>2. /\ OperationOK(op[o], draft) /\ LiveOK(o) /\ r \in Result /\ RetryableOK(retryable)
        /\ op[o].target \in Projects \cup {None} /\ b \in Snapshot /\ TypeOK
    BY <1>1, LiveFacts DEF Operation
  <1>3. Clears
    BY <1>1, KeepsActive, ControllerAssumption DEF Builds
  <1>4. op[o].target # None
    BY <1>1, <1>2 DEF LiveOK
  <1>5. ASSUME NEW d \in Drafts \cup {None}, Previews(o, b.saved, d),
               Named(d, op[o].target, draft), RetryableOK(retryable')
        PROVE  Inv'
    <2> DEFINE saved == b.saved
    <2>1. saved \in Nat
      BY <1>2 DEF Snapshot
    <2> HIDE DEF saved
    <2>2. Previews(o, saved, d)
      BY <1>5 DEF saved
    <2> QED
      BY <1>1, <1>3, <1>4, <1>5, <2>1, <2>2, PreviewStep
  <1>6. CASE PreviewsSaved(o) /\ retryable' = None
    <2>1. RetryableOK(retryable') /\ Named(None, op[o].target, draft)
      BY <1>6 DEF RetryableOK, Named
    <2>2. CASE b.saved # 0
      BY <1>5, <1>6, <2>1, <2>2 DEF PreviewsSaved
    <2>3. CASE b.saved = 0
      <3>1. Shows(o, shown)
        BY <1>6, <2>3 DEF PreviewsSaved
      <3>2. SnapshotOK(shown, draft) /\ ~shown.retry
        BY <1>1, <1>2 DEF Inv, LiveOK
      <3>3. shown.status = "restoring" /\ shown.saved = 0 /\ shown.draft # None
        BY <1>1, <1>2, <2>3 DEF LiveOK
      <3>4. \A p : Agrees(p) => shown.project \in {None, p}
        BY <1>1 DEF Agrees
      <3> DEFINE s == shown
      <3> HIDE DEF s
      <3>5. /\ Shows(o, s) /\ SnapshotOK(s, draft) /\ ~s.retry
            /\ s.status = "restoring" /\ s.saved = 0 /\ s.draft # None
            /\ \A p : Agrees(p) => s.project \in {None, p}
        BY <3>1, <3>2, <3>3, <3>4 DEF s
      <3>6. Matches(s, retryable')
        BY <3>5 DEF Matches
      <3> QED
        BY <1>1, <1>3, <2>1, <3>5, <3>6, ShowStep
    <2> QED
      BY <2>2, <2>3
  <1>7. CASE Previews(o, b.saved, r.draft) /\ retryable' = None
    <2>1. r.draft \in Drafts \cup {None} /\ Named(r.draft, op[o].target, draft)
      BY <1>2 DEF Result, OperationOK
    <2>2. RetryableOK(retryable')
      BY <1>7 DEF RetryableOK
    <2> DEFINE d == r.draft
    <2> HIDE DEF d
    <2>3. d \in Drafts \cup {None} /\ Named(d, op[o].target, draft) /\ Previews(o, b.saved, d)
      BY <1>7, <2>1 DEF d
    <2> QED
      BY <1>5, <2>2, <2>3
  <1>8. CASE Shows(o, [b EXCEPT !.status = "generation_failed", !.retry = FALSE])
             /\ UNCHANGED retryable
    <2>1. "generation_failed" \in Settled \cup Doubtful
      BY DEF Settled
    <2>2. RetryableOK(retryable')
      BY <1>2, <1>8
    <2> QED
      BY <1>1, <1>3, <1>8, <2>1, <2>2, FallsBack
  <1> QED
    BY <1>6, <1>7, <1>8 DEF ReceiveUndone

(* What is left to receive on one of the plainer operations.                *)
LEMMA PlainStep ==
  ASSUME Inv, NEW o \in Slots, live = o, op[o].stage = "answered",
         op[o].kind \in {"reject", "reload", "reopen", "inspect"},
         UNCHANGED <<active, retryable, cancelling, main>>
  PROVE  /\ \A saved \in Nat : Previews(o, saved, None) => Inv'
         /\ \A status \in Doubtful :
               Shows(o, [op[o].before EXCEPT !.status = status, !.retry = FALSE]) => Inv'
         /\ Shows(o, op[o].before) => Inv'
  <1>1. LiveOK(o) /\ RetryableOK(retryable')
    BY LiveFacts
  <1>2. Clears
    BY KeepsActive, ControllerAssumption DEF Builds
  <1>3. op[o].target # None
    BY <1>1 DEF LiveOK
  <1>4. ASSUME NEW saved \in Nat, Previews(o, saved, None) PROVE Inv'
    <2>1. Named(None, op[o].target, draft)
      BY DEF Named
    <2> QED
      BY <1>1, <1>2, <1>3, <1>4, <2>1, PreviewStep
  <1>5. ASSUME NEW status \in Doubtful,
               Shows(o, [op[o].before EXCEPT !.status = status, !.retry = FALSE])
        PROVE  Inv'
    <2>1. status # "ready"
      BY DEF Doubtful
    <2> QED
      BY <1>1, <1>2, <1>5, <2>1, FallsBack
  <1>6. ASSUME Shows(o, op[o].before) PROVE Inv'
    BY <1>2, <1>6, GoesBack
  <1> QED
    BY <1>4, <1>5, <1>6

LEMMA ReceivePlainInv ==
  ASSUME Inv, NEW o \in Slots, ReceiveRejected(o) \/ ReceiveReadBack(o) \/ ReceiveInspected(o)
  PROVE  Inv'
  <1> DEFINE r == op[o].result
             b == op[o].before
  <1>1. live = o /\ op[o].stage = "answered"
        /\ op[o].kind \in {"reject", "reload", "reopen", "inspect"}
        /\ UNCHANGED <<active, retryable, cancelling, main>>
    BY DEF ReceiveRejected, ReceiveReadBack, ReceiveInspected, Arrives
  <1>2. /\ OperationOK(op[o], draft) /\ b \in Snapshot /\ r \in Result /\ RetryableOK(retryable')
        /\ \A p : Agrees(p) => b.project \in {None, p}
    BY <1>1, LiveFacts
  <1>3. /\ Previews(o, b.saved, None) => Inv'
        /\ Previews(o, r.saved, None) => Inv'
        /\ Shows(o, b) => Inv'
        /\ \A status \in Doubtful : Shows(o, [b EXCEPT !.status = status, !.retry = FALSE]) => Inv'
    <2>1. b.saved \in Nat /\ r.saved \in Nat
      BY <1>2 DEF Snapshot, Result
    <2> QED
      BY <1>1, <2>1, PlainStep
  <1>4. CASE ReceiveRejected(o)
    <2>1. ASSUME Shows(o, Local(b.project)) PROVE Inv'
      <3> DEFINE s == Local(b.project)
      <3>1. b.project \in Projects \cup {None}
        BY <1>2 DEF Snapshot
      <3>2. s \in Snapshot /\ s.draft = None /\ s.saved = 0 /\ ~s.retry /\ ~s.inspected
            /\ s.project = b.project /\ s.status = "ready"
        BY <3>1 DEF Local, Blank, Snapshot, Status, Settled
      <3> HIDE DEF s
      <3>3. SnapshotOK(s, draft) /\ Matches(s, retryable') /\ s.status \notin Busy
        BY <3>2 DEF SnapshotOK, Named, Matches, Busy
      <3>4. Shows(o, s) /\ \A p : Agrees(p) => s.project \in {None, p}
        BY <1>2, <2>1, <3>2 DEF s
      <3>5. Clears
        BY <1>1, KeepsActive, ControllerAssumption DEF Builds
      <3> QED
        BY <1>1, <1>2, <3>3, <3>4, <3>5, ShowStep
    <2>2. "reject_failed" \in Doubtful
      BY DEF Doubtful
    <2> QED
      BY <1>3, <1>4, <2>1, <2>2 DEF ReceiveRejected
  <1>5. CASE ReceiveReadBack(o)
    <2>1. {"conflict", "save_unknown"} \subseteq Doubtful
      BY DEF Doubtful
    <2> QED
      BY <1>3, <1>5, <2>1 DEF ReceiveReadBack
  <1>6. CASE ReceiveInspected(o)
    BY <1>3, <1>6 DEF ReceiveInspected
  <1> QED
    BY <1>4, <1>5, <1>6

-----------------------------------------------------------------------------
(* The user starts an operation on the project shown.                       *)

LEMMA ShownSelected ==
  ASSUME Inv, live = None, shown.project # None
  PROVE  shown.project = selected \/ selected = None
  BY DEF Inv, Agrees

LEMMA StartStep ==
  ASSUME Inv, NEW o \in Slots, live = None, live' = o, shown.project # None,
         NEW a, op' = [op EXCEPT ![o] = a], OperationOK(a, draft),
         ~a.late, a.target = shown.project, a.kind \notin {"open", "new", "create"},
         a.kind \in Builds \ {"continue"} =>
            a.before.project = a.target /\ a.before.draft = None,
         a.stage # "preview" => Matches(a.before, retryable'),
         a.kind # "showCurrent" => ~shown'.retry,
         a.kind = "undo" =>
            shown'.status = "restoring" /\ shown'.saved = a.before.saved /\ shown'.draft # None,
         SnapshotOK(shown', draft), shown'.project = shown.project,
         Matches(shown', retryable'), RetryableOK(retryable'),
         ActiveOK', TypeOK', 
         \/ active' = active
         \/ active'.target = shown.project /\ active'.before.project = shown.project,
         UNCHANGED main
  PROVE  Inv'
  <1>0. TypeOK /\ draft' = draft /\ UNCHANGED <<selected, pending, bound, revision>> /\ o # None
    BY ControllerAssumption DEF Inv, main
  <1>1. op'[o] = a /\ \A q \in Slots \ {o} : op'[q] = op[q]
    BY <1>0 DEF TypeOK
  <1>2. \A q \in Slots : OperationOK(op'[q], draft')
    BY <1>0, <1>1 DEF Inv
  <1>3. LiveOK(o)'
    <2>1. op'[o].target # None
      BY <1>1
    <2>2. op'[o].stage # "preview" => Matches(op'[o].before, retryable')
      BY <1>1
    <2> QED
      BY <1>1, <2>1, <2>2 DEF LiveOK
  <1>4. CreateOK'
    <2> SUFFICES ASSUME NEW q \in Slots, op'[q].kind = "create", op'[q].stage = "asked",
                        op'[q].fresh \/ live' = q
                 PROVE  FALSE
      BY DEF CreateOK
    <2>1. q # o /\ op'[q] = op[q] /\ op[q].fresh
      BY <1>1
    <2> QED
      BY <1>0, <2>1, ControllerAssumption DEF Inv, CreateOK
  <1>5. \E p \in Projects \cup {None} : Agrees(p)'
    <2>1. PICK p \in Projects \cup {None} : Agrees(p)
      BY DEF Inv
    <2>2. shown.project = p
      BY <2>1 DEF Agrees
    <2>3. \A q \in Slots : op'[q].fresh => op'[q].target \in {None, p}
      BY <1>1, <2>1, <2>2 DEF Agrees
    <2>4. active' # None => active'.target = p /\ active'.before.project \in {None, p}
      BY <2>1, <2>2 DEF Agrees
    <2>5. Agrees(p)'
      BY <1>0, <1>1, <2>1, <2>2, <2>3, <2>4 DEF Agrees
    <2> QED
      BY <2>5
  <1>6. Homes' /\ SnapshotOK(shown', draft') /\ WaitsForSomething'
    BY <1>0 DEF Inv, Homes, WaitsForSomething
  <1>7. Matches(shown, retryable)'
    OBVIOUS
  <1> QED
    BY <1>2, <1>3, <1>4, <1>5, <1>6, <1>7 DEF Inv

LEMMA PublishedOK ==
  ASSUME Inv, NEW status \in Status, status # "ready"
  PROVE  /\ Published(status) \in Snapshot /\ SnapshotOK(Published(status), draft)
         /\ Published(status).status = status /\ ~Published(status).retry
         /\ Published(status).project = shown.project /\ Published(status).saved = shown.saved
         /\ Published(status).draft = shown.draft
        /\ Published(status).inspected = shown.inspected
  <1>1. shown \in Snapshot /\ SnapshotOK(shown, draft)
    BY DEF Inv, TypeOK
  <1>2. /\ Published(status) \in Snapshot
        /\ Published(status).status = status /\ ~Published(status).retry
        /\ Published(status).project = shown.project /\ Published(status).saved = shown.saved
        /\ Published(status).draft = shown.draft
        /\ Published(status).inspected = shown.inspected
    BY <1>1 DEF Published, Snapshot
  <1> QED
    BY <1>1, <1>2 DEF SnapshotOK

LEMMA WithoutRetryOK ==
  ASSUME Inv
  PROVE  /\ WithoutRetry \in Snapshot /\ SnapshotOK(WithoutRetry, draft)
         /\ WithoutRetry.status = shown.status /\ ~WithoutRetry.retry
         /\ WithoutRetry.project = shown.project /\ WithoutRetry.draft = shown.draft
  <1>1. shown \in Snapshot /\ SnapshotOK(shown, draft)
    BY DEF Inv, TypeOK
  <1>2. /\ WithoutRetry \in Snapshot
        /\ WithoutRetry.status = shown.status /\ ~WithoutRetry.retry
        /\ WithoutRetry.project = shown.project /\ WithoutRetry.saved = shown.saved
        /\ WithoutRetry.draft = shown.draft /\ WithoutRetry.inspected = shown.inspected
    BY <1>1 DEF WithoutRetry, Snapshot
  <1> QED
    BY <1>1, <1>2 DEF SnapshotOK

(* An operation as it is when it starts, before it was asked.               *)
LEMMA OperatesSound ==
  ASSUME Inv, NEW kind \in Kinds, NEW stage \in {"digest", "asked", "preview"},
         NEW d \in Drafts \cup {None}, NEW before, SnapshotOK(before, draft),
         before.status \notin Busy, before.project = shown.project, shown.project # None,
         Named(d, shown.project, draft), kind \notin {"create"},
         stage \in {"digest", "asked"} =>
            (kind \in {"continue", "undo", "reject", "save", "restoreDraft"} => d # None),
         stage = "digest" => kind \in Turns /\ ~before.retry
  PROVE  LET r == [Operates(kind, shown.project, d, before) EXCEPT !.stage = stage]
         IN  /\ OperationOK(r, draft) /\ r \in Operation /\ r.stage = stage /\ ~r.late
             /\ r.kind = kind /\ r.target = shown.project /\ r.before = before /\ ~r.fresh
             /\ r.draft = d /\ r.result = NoResult
  <1> DEFINE x == Operates(kind, shown.project, d, before)
             r == [x EXCEPT !.stage = stage]
  <1>1. shown.project \in Projects \cup {None} /\ before \in Snapshot
    BY DEF Inv, TypeOK, Snapshot, SnapshotOK
  <1>2. /\ x \in Operation /\ x.kind = kind /\ x.target = shown.project /\ x.draft = d
        /\ x.before = before /\ x.result = NoResult /\ ~x.late /\ ~x.fresh
        /\ x.ran = None
    BY <1>1, OperatesOK
  <1> HIDE DEF x
  <1>3. /\ r \in Operation /\ r.kind = kind /\ r.target = shown.project /\ r.draft = d
        /\ r.before = before /\ r.result = NoResult /\ ~r.late /\ ~r.fresh
        /\ r.ran = None /\ r.stage = stage
    BY <1>2 DEF Operation
  <1> HIDE DEF r
  <1>4. NoResult.draft = None /\ NoResult.saved = 0 /\ NoResult.is = "none"
    BY DEF NoResult
  <1>5. OperationOK(r, draft)
    BY <1>3, <1>4 DEF OperationOK, Named
  <1> QED
    BY <1>3, <1>5 DEF r, x

LEMMA TypeStep ==
  ASSUME Inv, NEW o \in Slots, NEW kind \in Turns, NEW status \in Busy,
         Type(o, kind, status),
         kind = "continue" <=> kind \in Builds /\ shown.draft # None
  PROVE  Inv'
  <1> DEFINE a == [Operates(kind, shown.project, shown.draft, WithoutRetry)
                   EXCEPT !.stage = "digest"]
  <1>1. /\ live = None /\ shown.status \in Settled /\ shown.project # None
        /\ live' = o /\ retryable' = None /\ shown' = Published(status)
        /\ op' = [op EXCEPT ![o] = a] /\ UNCHANGED <<active, cancelling, main>>
    BY DEF Type, Usable
  <1>2. TypeOK /\ SnapshotOK(shown, draft) /\ ActiveOK /\ o # None
    BY ControllerAssumption DEF Inv
  <1>3. kind \in Kinds /\ kind \notin {"open", "new", "create", "showCurrent", "undo", "reject",
                                       "save", "restoreDraft"}
    BY DEF Kinds, Turns, Builds
  <1>4. shown.draft \in Drafts \cup {None} /\ Named(shown.draft, shown.project, draft)
    BY <1>2 DEF SnapshotOK, Snapshot
  <1>5. /\ SnapshotOK(WithoutRetry, draft)
        /\ WithoutRetry.status = shown.status /\ ~WithoutRetry.retry
        /\ WithoutRetry.project = shown.project /\ WithoutRetry.draft = shown.draft
    BY WithoutRetryOK
  <1>6. WithoutRetry.status \notin Busy
    BY <1>1, <1>5 DEF Settled, Busy
  <1>7. kind \in {"continue", "undo", "reject", "save", "restoreDraft"} => shown.draft # None
    BY <1>3
  <1> DEFINE before == WithoutRetry
             d == shown.draft
  <1>8. /\ OperationOK(a, draft) /\ a \in Operation /\ a.stage = "digest" /\ ~a.late
        /\ a.kind = kind /\ a.target = shown.project /\ a.before = WithoutRetry
    <2> HIDE DEF before, d
    <2>1. SnapshotOK(before, draft) /\ before.status \notin Busy /\ ~before.retry
          /\ before.project = shown.project
          /\ d \in Drafts \cup {None} /\ Named(d, shown.project, draft)
          /\ (kind \in {"continue", "undo", "reject", "save", "restoreDraft"} => d # None)
      BY <1>4, <1>5, <1>6, <1>7 DEF before, d
    <2>2. LET r == [Operates(kind, shown.project, d, before) EXCEPT !.stage = "digest"]
          IN  /\ OperationOK(r, draft) /\ r \in Operation /\ r.stage = "digest" /\ ~r.late
              /\ r.kind = kind /\ r.target = shown.project /\ r.before = before
      BY <1>1, <1>3, <2>1, OperatesSound
    <2> QED
      BY <2>2 DEF before, d
  <1> HIDE DEF a
  <1>9. status \in Status /\ status # "ready"
    BY DEF Busy, Status
  <1>10. /\ shown' \in Snapshot /\ SnapshotOK(shown', draft) /\ ~shown'.retry
         /\ shown'.project = shown.project
    BY <1>1, <1>9, PublishedOK
  <1>11. RetryableOK(retryable') /\ Matches(shown', retryable')
    BY <1>1, <1>10 DEF RetryableOK, Matches
  <1>12. ActiveOK'
    BY <1>1, <1>2 DEF ActiveOK, main
  <1>13. TypeOK'
    BY <1>1, <1>2, <1>8, <1>10 DEF TypeOK, main
  <1>14. Matches(a.before, retryable')
    BY <1>5, <1>8 DEF Matches
  <1>15. a.kind \in Builds \ {"continue"} => a.before.project = a.target /\ a.before.draft = None
    BY <1>5, <1>8
  <1> QED
    BY <1>1, <1>3, <1>8, <1>10, <1>11, <1>12, <1>13, <1>14, <1>15, StartStep

LEMMA TypingInv ==
  ASSUME Inv, NEW o \in Slots,
         Answer(o) \/ Submit(o) \/ Generate(o) \/ ProposePlan(o)
  PROVE  Inv'
  <1>1. {"answering", "submitting", "generating"} \subseteq Busy
    BY DEF Busy
  <1>2. {"answer", "submit", "continue", "generate", "proposePlan"} \subseteq Turns
    BY DEF Turns, Builds
  <1>3. CASE Answer(o)
    BY <1>1, <1>2, <1>3, TypeStep DEF Answer, Builds
  <1>4. CASE Submit(o)
    <2>1. CASE shown.draft = None
      BY <1>1, <1>2, <1>4, <2>1, TypeStep DEF Submit
    <2>2. CASE shown.draft # None
      BY <1>1, <1>2, <1>4, <2>2, TypeStep DEF Submit, Builds
    <2> QED
      BY <2>1, <2>2
  <1>5. CASE Generate(o)
    BY <1>1, <1>2, <1>5, TypeStep DEF Generate
  <1>6. CASE ProposePlan(o)
    BY <1>1, <1>2, <1>6, TypeStep DEF ProposePlan
  <1> QED
    BY <1>3, <1>4, <1>5, <1>6

(* A call as it leaves.                                                     *)
LEMMA AskedSound ==
  ASSUME Inv, NEW kind \in Kinds \ {"open", "new", "create"}, NEW d \in Drafts \cup {None},
         NEW before, SnapshotOK(before, draft),
         live = None, before.status \notin Busy, before.project = shown.project,
         shown.project # None, Named(d, shown.project, draft),
         kind \in {"continue", "undo", "reject", "save", "restoreDraft"} => d # None
  PROVE  LET a == Asked(Operates(kind, shown.project, d, before))
         IN  /\ OperationOK(a, draft) /\ a \in Operation /\ ~a.late
             /\ a.kind = kind /\ a.target = shown.project /\ a.before = before
             /\ a.stage # "preview"
  <1> DEFINE x == Operates(kind, shown.project, d, before)
  <1>1. shown.project \in Projects \cup {None} /\ before \in Snapshot
    BY DEF Inv, TypeOK, Snapshot, SnapshotOK
  <1>2. /\ x \in Operation /\ x.kind = kind /\ x.target = shown.project /\ x.before = before
        /\ ~x.late /\ x.ran = None
    BY <1>1, OperatesOK
  <1>3. OperationOK([x EXCEPT !.stage = "asked"], draft)
    BY OperatesSound
  <1>4. x.target = selected \/ selected = None
    BY <1>2, ShownSelected
  <1> HIDE DEF x
  <1>5. LET a == Asked(x)
        IN  /\ OperationOK(a, draft) /\ a.kind = x.kind /\ a.target = x.target
            /\ a.before = x.before /\ a.late = x.late /\ a.stage # "preview"
    BY <1>2, <1>3, <1>4, AskedOK
  <1>6. OperationOK(Asked(x), draft) => Asked(x) \in Operation
    BY DEF OperationOK
  <1>7. /\ OperationOK(Asked(x), draft) /\ Asked(x) \in Operation /\ ~Asked(x).late
        /\ Asked(x).kind = kind /\ Asked(x).target = shown.project /\ Asked(x).before = before
        /\ Asked(x).stage # "preview"
    BY <1>2, <1>5, <1>6
  <1> QED
    BY <1>7 DEF x

LEMMA RunStep ==
  ASSUME Inv, NEW o \in Slots, NEW kind \in Builds \ {"continue"}, live = None,
         shown.project # None, shown.draft = None, shown.status \in Settled,
         NEW before, SnapshotOK(before, draft), before.status = shown.status,
         before.project = shown.project, before.draft = None,
         Run(o, kind, before),
         RetryableOK(retryable'), Matches(before, retryable')
  PROVE  Inv'
  <1> DEFINE a == Asked(Operates(kind, shown.project, None, before))
             status == IF kind = "submit" THEN "submitting" ELSE "generating"
             run == [slot |-> IF kind = "approved" THEN None ELSE o,
                     known |-> kind # "approved",
                     target |-> shown.project, before |-> before]
  <1>1. /\ live' = o /\ shown' = Published(status) /\ active' = run /\ cancelling' = FALSE
        /\ op' = [op EXCEPT ![o] = a] /\ UNCHANGED main
    BY DEF Run, Ask
  <1>2. TypeOK /\ o # None /\ shown.project \in Projects /\ before \in Snapshot
    BY ControllerAssumption DEF Inv, TypeOK, Snapshot, SnapshotOK
  <1>3. kind \in Kinds \ {"open", "new", "create", "showCurrent", "undo", "reject", "save",
                          "restoreDraft"}
    BY DEF Kinds, Turns, Builds
  <1>4. before.status \notin Busy /\ Named(None, shown.project, draft)
    BY DEF Settled, Busy, Named
  <1>5. /\ OperationOK(a, draft) /\ a \in Operation /\ ~a.late
        /\ a.kind = kind /\ a.target = shown.project /\ a.before = before
        /\ a.stage # "preview"
    BY <1>3, <1>4, AskedSound
  <1> HIDE DEF a
  <1>6. status \in Status /\ status # "ready"
    BY DEF Busy, Status
  <1> HIDE DEF status
  <1>7. /\ shown' \in Snapshot /\ SnapshotOK(shown', draft) /\ ~shown'.retry
        /\ shown'.project = shown.project
    BY <1>1, <1>6, PublishedOK
  <1>8. Matches(shown', retryable')
    BY <1>7 DEF Matches
  <1>9. /\ run \in [slot : Slots \cup {None}, known : BOOLEAN, target : Projects,
                    before : Snapshot]
        /\ run.target = shown.project /\ run.before = before
        /\ kind # "approved" => run.slot = o /\ run.known
    BY <1>2
  <1> HIDE DEF run
  <1>10. TypeOK'
    BY <1>1, <1>2, <1>5, <1>7, <1>9 DEF TypeOK, RetryableOK, main
  <1>11. ActiveOK'
    <2>1. op'[o] = a
      BY <1>1, <1>2 DEF TypeOK
    <2>2. Matches(active'.before, retryable') /\ SnapshotOK(active'.before, draft')
      BY <1>1, <1>9 DEF main
    <2> QED
      BY <1>1, <1>2, <1>4, <1>5, <1>9, <2>1, <2>2 DEF ActiveOK, RetryableOK
  <1>12. Matches(a.before, retryable')
    BY <1>5
  <1>13. active'.target = shown.project /\ active'.before.project = shown.project
    BY <1>1, <1>9
  <1>14. a.before.project = a.target /\ a.before.draft = None
    BY <1>5
  <1> QED
    BY <1>1, <1>3, <1>5, <1>7, <1>8, <1>10, <1>11, <1>12, <1>13, <1>14, StartStep

LEMMA RunningInv ==
  ASSUME Inv, NEW o \in Slots, GenerateApprovedPlan(o) \/ RetryGenerate(o)
  PROVE  Inv'
  <1>1. SnapshotOK(shown, draft) /\ Matches(shown, retryable) /\ TypeOK /\ ActiveOK
    BY DEF Inv
  <1>2. live = None /\ shown.status \in Settled /\ shown.project # None
    BY DEF GenerateApprovedPlan, RetryGenerate, Usable
  <1>3. CASE GenerateApprovedPlan(o)
    <2>1. shown.status = "ready" /\ retryable' = None /\ Run(o, "approved", WithoutRetry)
      BY <1>3 DEF GenerateApprovedPlan
    <2>2. shown.draft = None
      BY <1>1, <2>1 DEF SnapshotOK
    <2> DEFINE before == WithoutRetry
    <2> HIDE DEF before
    <2>3. /\ SnapshotOK(before, draft) /\ before.status = shown.status /\ ~before.retry
          /\ before.project = shown.project /\ before.draft = None
          /\ Run(o, "approved", before)
      BY <2>1, <2>2, WithoutRetryOK DEF before
    <2>4. RetryableOK(retryable') /\ Matches(before, retryable') /\ "approved" \in Builds \ {"continue"}
      BY <2>1, <2>3 DEF RetryableOK, Matches, Builds
    <2> QED
      BY <1>2, <2>2, <2>3, <2>4, RunStep
  <1>4. CASE RetryGenerate(o)
    <2>1. shown.draft = None /\ retryable # None /\ UNCHANGED retryable
          /\ Run(o, retryable.kind, shown)
      BY <1>4 DEF RetryGenerate
    <2>2. retryable.kind \in Builds \ {"continue"} /\ RetryableOK(retryable')
      BY <1>1, <2>1 DEF TypeOK, ActiveOK, RetryableOK
    <2> DEFINE before == shown
               kind == retryable.kind
    <2> HIDE DEF before, kind
    <2>3. /\ SnapshotOK(before, draft) /\ before.status = shown.status
          /\ before.project = shown.project /\ before.draft = None
          /\ Run(o, kind, before) /\ Matches(before, retryable')
          /\ kind \in Builds \ {"continue"}
      BY <1>1, <2>1, <2>2 DEF before, kind, Matches
    <2> QED
      BY <1>2, <2>1, <2>2, <2>3, RunStep
  <1> QED
    BY <1>3, <1>4

LEMMA CallStep ==
  ASSUME Inv, NEW o \in Slots,
         NEW kind \in {"restoreDraft", "restoreRevision", "undo", "inspect", "reject", "save"},
         NEW d \in Drafts \cup {None}, NEW status \in Busy,
         Call(o, kind, d, Published(status)),
         shown.project # None, Named(d, shown.project, draft), Displayed,
         kind \in {"undo", "reject", "save", "restoreDraft"} => d # None,
         kind = "undo" => status = "restoring" /\ shown.draft # None
  PROVE  Inv'
  <1> DEFINE a == Asked(Operates(kind, shown.project, d, shown))
             s == Published(status)
  <1>1. /\ live = None /\ live' = o /\ shown' = s /\ op' = [op EXCEPT ![o] = a]
        /\ UNCHANGED <<active, retryable, cancelling, main>>
    BY DEF Call, Ask
  <1>2. TypeOK /\ SnapshotOK(shown, draft) /\ Matches(shown, retryable) /\ ActiveOK /\ o # None
    BY ControllerAssumption DEF Inv
  <1>3. kind \in Kinds \ {"open", "new", "create", "showCurrent"} /\ kind \notin Builds
    BY DEF Kinds, Plain, Builds
  <1> DEFINE before == shown
  <1> HIDE DEF before
  <1>4. SnapshotOK(before, draft) /\ before.status \notin Busy /\ before.project = shown.project
        /\ before.saved = shown.saved
    BY <1>2 DEF before, Displayed
  <1>5. kind \in {"continue", "undo", "reject", "save", "restoreDraft"} => d # None
    OBVIOUS
  <1> DEFINE b == Asked(Operates(kind, shown.project, d, before))
  <1>6. /\ OperationOK(b, draft) /\ b \in Operation /\ ~b.late
        /\ b.kind = kind /\ b.target = shown.project /\ b.before = before
    BY <1>1, <1>3, <1>4, <1>5, AskedSound
  <1>7. a = b
    BY DEF before
  <1> HIDE DEF a, b
  <1>8. status \in Status /\ status # "ready"
    BY DEF Busy, Status
  <1>9. /\ s \in Snapshot /\ SnapshotOK(s, draft) /\ ~s.retry /\ s.status = status
        /\ s.project = shown.project /\ s.saved = shown.saved /\ s.draft = shown.draft
    BY <1>8, PublishedOK
  <1> HIDE DEF s
  <1>10. Matches(shown', retryable') /\ RetryableOK(retryable')
    BY <1>1, <1>2, <1>9 DEF Matches, RetryableOK, TypeOK, ActiveOK
  <1>11. ActiveOK'
    BY <1>1, <1>2 DEF ActiveOK, main
  <1>12. TypeOK'
    BY <1>1, <1>2, <1>6, <1>7, <1>9 DEF TypeOK, main
  <1>13. Matches(a.before, retryable')
    BY <1>1, <1>2, <1>6, <1>7 DEF before
  <1>14. a.kind = "undo" =>
            shown'.status = "restoring" /\ shown'.saved = a.before.saved /\ shown'.draft # None
    BY <1>1, <1>4, <1>6, <1>7, <1>9
  <1>15. a.kind \notin {"open", "new", "create", "showCurrent"} /\ a.kind \notin Builds
    BY <1>3, <1>6, <1>7
  <1> QED
    BY <1>1, <1>6, <1>7, <1>9, <1>10, <1>11, <1>12, <1>13, <1>14, <1>15, StartStep

LEMMA CallingInv ==
  ASSUME Inv, NEW o \in Slots,
         \/ RestoreDraft(o) \/ RestoreRevision(o) \/ Undo(o)
         \/ InspectRevision(o) \/ Reject(o) \/ Save(o)
  PROVE  Inv'
  <1>1. TypeOK /\ SnapshotOK(shown, draft) /\ shown \in Snapshot /\ Homes
    BY DEF Inv, TypeOK
  <1>2. {"restoring", "opening", "rejecting", "saving"} \subseteq Busy
    BY DEF Busy
  <1>3. Named(None, shown.project, draft)
    BY DEF Named
  <1>4. shown.draft \in Drafts \cup {None} /\ Named(shown.draft, shown.project, draft)
    BY <1>1 DEF SnapshotOK, Snapshot
  <1>5. shown.draft # None \/ shown.saved > 1 => shown.project # None
    BY <1>1 DEF SnapshotOK, Snapshot
  <1>6. shown.status \in {"ready", "generation_failed", "draft_ready"} => Displayed
    BY DEF Displayed, Busy
  <1> DEFINE d0 == shown.draft
  <1>7. CASE RestoreDraft(o)
    <2>1. PICK d \in Drafts : /\ draft[d].home = shown.project /\ shown.project # None
                              /\ Call(o, "restoreDraft", d, Published("restoring"))
      BY <1>7 DEF RestoreDraft
    <2>2. Named(d, shown.project, draft)
      BY <1>1, <2>1 DEF Named, Homes
    <2>3. d # None
      BY ControllerAssumption
    <2> QED
      BY <1>2, <1>6, <1>7, <2>1, <2>2, <2>3, CallStep DEF RestoreDraft
  <1>8. CASE RestoreRevision(o)
    BY <1>2, <1>3, <1>5, <1>6, <1>8, CallStep DEF RestoreRevision
  <1>9. CASE InspectRevision(o)
    BY <1>2, <1>3, <1>5, <1>9, CallStep DEF InspectRevision
  <1>10. ASSUME NEW kind \in {"undo", "reject", "save"}, NEW status \in Busy,
                shown.draft # None, Displayed, kind = "undo" => status = "restoring",
                Call(o, kind, shown.draft, Published(status))
         PROVE  Inv'
    <2> HIDE DEF d0
    <2>1. d0 \in Drafts \cup {None} /\ Named(d0, shown.project, draft) /\ d0 # None
          /\ Call(o, kind, d0, Published(status))
      BY <1>4, <1>10 DEF d0
    <2> QED
      BY <1>5, <1>10, <2>1, CallStep
  <1>11. CASE Undo(o)
    BY <1>2, <1>6, <1>10, <1>11 DEF Undo
  <1>12. CASE Reject(o)
    BY <1>2, <1>10, <1>12 DEF Reject
  <1>13. CASE Save(o)
    BY <1>2, <1>10, <1>13 DEF Save
  <1> QED
    BY <1>7, <1>8, <1>9, <1>11, <1>12, <1>13

LEMMA ShowCurrentInv ==
  ASSUME Inv, NEW o \in Slots, ShowCurrent(o)
  PROVE  Inv'
  <1> DEFINE before == shown
             a == [Operates("showCurrent", shown.project, None, shown) EXCEPT
                    !.stage = "preview", !.result.saved = shown.saved]
             b == [Operates("showCurrent", shown.project, None, before) EXCEPT
                    !.stage = "preview"]
             c == [b EXCEPT !.result = [NoResult EXCEPT !.saved = shown.saved]]
  <1>1. /\ live = None /\ live' = o /\ op' = [op EXCEPT ![o] = a] /\ Displayed
        /\ UNCHANGED <<shown, active, retryable, cancelling, main>>
    BY DEF ShowCurrent
  <1>2. TypeOK /\ SnapshotOK(shown, draft) /\ Matches(shown, retryable) /\ ActiveOK /\ o # None
        /\ shown \in Snapshot
    BY ControllerAssumption DEF Inv, TypeOK
  <1>0. shown.project # None
    BY <1>2 DEF ShowCurrent, SnapshotOK
  <1> HIDE DEF before
  <1>3. SnapshotOK(before, draft) /\ before.status \notin Busy /\ before.project = shown.project
        /\ Named(None, shown.project, draft) /\ "showCurrent" \in Kinds
    BY <1>1, <1>2, <1>0 DEF before, Displayed, Named, Kinds
  <1>4. /\ OperationOK(b, draft) /\ b \in Operation /\ b.stage = "preview" /\ ~b.late
        /\ b.kind = "showCurrent" /\ b.target = shown.project /\ b.before = before /\ ~b.fresh
        /\ b.draft = None /\ b.result = NoResult
    BY <1>0, <1>3, OperatesSound
  <1>5. [NoResult EXCEPT !.saved = shown.saved] \in Result
        /\ [NoResult EXCEPT !.saved = shown.saved].draft = None
        /\ [NoResult EXCEPT !.saved = shown.saved].is = "none"
    BY <1>2 DEF NoResult, Result, Snapshot
  <1>6. a = c
    BY <1>4 DEF before, Operation
  <1> HIDE DEF a, b
  <1>7. c \in Operation
    BY <1>4, <1>5 DEF Operation
  <1>8. /\ c.stage = "preview" /\ c.kind = "showCurrent" /\ c.target = shown.project
        /\ c.before = before /\ c.late = b.late /\ c.draft = None /\ c.ran = b.ran
        /\ c.result = [NoResult EXCEPT !.saved = shown.saved]
    BY <1>4 DEF Operation
  <1> HIDE DEF c
  <1>9. OperationOK(c, draft)
    BY <1>0, <1>3, <1>4, <1>5, <1>7, <1>8 DEF OperationOK, Named
  <1>10. RetryableOK(retryable')
    BY <1>1, <1>2 DEF RetryableOK, TypeOK, ActiveOK
  <1>11. ActiveOK' /\ TypeOK'
    BY <1>1, <1>2, <1>6, <1>7 DEF ActiveOK, TypeOK, main
  <1>12. Matches(shown', retryable') /\ SnapshotOK(shown', draft)
    BY <1>1, <1>2
  <1>13. a.kind \notin Builds /\ a.kind = "showCurrent"
    BY <1>6, <1>8 DEF Builds
  <1> QED
    BY <1>0, <1>1, <1>4, <1>6, <1>8, <1>9, <1>10, <1>11, <1>12, <1>13, StartStep

-----------------------------------------------------------------------------
(* The user goes elsewhere, and every operation is left.                    *)

(* Nothing but the new selection counts.                                    *)
LEMMA SelectStep ==
  ASSUME Inv, NEW o \in Slots, NEW kind \in {"open", "new", "create"},
         NEW target \in Projects \cup {None}, NEW snapshot,
         Select(o, kind, target, snapshot),
         SnapshotOK(snapshot, draft), ~snapshot.retry, snapshot.status = "opening",
         target = None <=> kind \in {"new", "create"}
  PROVE  Inv'
  <1> DEFINE x == Operates(kind, target, None, Blank("new"))
             r == [x EXCEPT !.stage = "asked", !.fresh = TRUE]
  <1>1. /\ live' = o /\ active' = None /\ retryable' = None /\ cancelling' = FALSE
        /\ shown' = snapshot /\ selected' = None /\ pending' = (kind # "new" )
        /\ UNCHANGED <<bound, revision, draft>>
        /\ op' = [q \in Slots |-> IF q = o THEN r ELSE [Left(op[q]) EXCEPT !.fresh = FALSE]]
    <2>1. Blank("new") \in Snapshot
      BY DEF Blank, Snapshot, Status, Settled
    <2>2. kind \in Kinds /\ x.kind = kind
      <3>1. kind \in Kinds
        BY DEF Kinds, Selections
      <3> QED
        BY <2>1, <3>1, OperatesOK
    <2>3. /\ op' = [q \in Slots |-> IF q = o THEN r
                                    ELSE [[z \in Slots |-> Left(op[z])][q] EXCEPT !.fresh = FALSE]]
          /\ pending' = (x.kind # "new")
      BY DEF Select, AskToSelect
    <2>4. \A q \in Slots : [z \in Slots |-> Left(op[z])][q] = Left(op[q])
      OBVIOUS
    <2> HIDE DEF x, r
    <2> QED
      BY <2>2, <2>3, <2>4 DEF Select, AskToSelect
  <1>2. TypeOK /\ o # None /\ Homes
    BY ControllerAssumption DEF Inv
  <1>3. Blank("new") \in Snapshot /\ SnapshotOK(Blank("new"), draft) /\ ~Blank("new").retry
        /\ Blank("new").status = "new" /\ Blank("new").project = None /\ Blank("new").draft = None
    <2>1. "new" \in Status
      BY DEF Status, Settled
    <2> QED
      BY <2>1, BlankOK DEF Blank, SnapshotOK
  <1>4. /\ x \in Operation /\ x.kind = kind /\ x.target = target /\ x.draft = None
        /\ x.before = Blank("new") /\ x.result = NoResult /\ ~x.late /\ x.ran = None
    <2>1. kind \in Kinds
      BY DEF Kinds, Selections
    <2> QED
      BY <1>3, <2>1, OperatesOK
  <1> HIDE DEF x
  <1>5. /\ r \in Operation /\ r.kind = kind /\ r.target = target /\ r.draft = None
        /\ r.before = Blank("new") /\ r.result = NoResult /\ ~r.late /\ r.ran = None
        /\ r.stage = "asked" /\ r.fresh
    BY <1>4 DEF Operation
  <1> HIDE DEF r
  <1>6. NoResult.draft = None /\ NoResult.saved = 0 /\ NoResult.is = "none"
    BY DEF NoResult
  <1>7. OperationOK(r, draft)
    BY <1>3, <1>5, <1>6 DEF OperationOK, Named, Busy, Turns, Builds
  <1>8. ASSUME NEW q \in Slots \ {o}
        PROVE  op'[q] \in Operation /\ OperationOK(op'[q], draft) /\ ~op'[q].fresh
    <2> DEFINE l == Left(op[q])
               f == [l EXCEPT !.fresh = FALSE]
    <2>1. OperationOK(l, draft) /\ l \in Operation
      BY LeftOK DEF Inv, OperationOK
    <2> HIDE DEF l
    <2>2. /\ f \in Operation /\ f.kind = l.kind /\ f.target = l.target /\ f.draft = l.draft
          /\ f.before = l.before /\ f.result = l.result /\ f.late = l.late /\ f.ran = l.ran
          /\ f.stage = l.stage /\ ~f.fresh
      BY <2>1 DEF Operation
    <2> HIDE DEF f
    <2>3. OperationOK(f, draft)
      BY <2>1, <2>2 DEF OperationOK
    <2>4. op'[q] = f
      BY <1>1 DEF f, l
    <2> QED
      BY <2>2, <2>3, <2>4
  <1>9. op'[o] = r /\ op' \in [Slots -> Operation]
    BY <1>1, <1>5, <1>8
  <1>10. TypeOK'
    BY <1>1, <1>2, <1>9 DEF TypeOK, SnapshotOK
  <1>11. \A q \in Slots : OperationOK(op'[q], draft')
    BY <1>1, <1>7, <1>8, <1>9
  <1>12. LiveOK(o)'
    <2>1. Matches(op'[o].before, retryable')
      BY <1>3, <1>5, <1>9 DEF Matches
    <2> QED
      BY <1>1, <1>5, <1>9, <2>1 DEF LiveOK, Builds
  <1>13. CreateOK'
    BY <1>1, <1>5, <1>8, <1>9 DEF CreateOK
  <1>14. Agrees(target)'
    BY <1>1, <1>2, <1>5, <1>8, <1>9 DEF Agrees
  <1>15. ActiveOK' /\ Homes' /\ WaitsForSomething'
    BY <1>1, <1>2 DEF ActiveOK, Homes, WaitsForSomething
  <1>16. SnapshotOK(shown', draft') /\ Matches(shown, retryable)'
    BY <1>1 DEF Matches
  <1> QED
    BY <1>1, <1>10, <1>11, <1>12, <1>13, <1>14, <1>15, <1>16 DEF Inv

LEMMA SelectingInv ==
  ASSUME Inv, NEW o \in Slots, Open(o) \/ OpenNone(o) \/ Create(o)
  PROVE  Inv'
  <1>1. "opening" \in Status /\ "opening" # "ready"
    BY DEF Status, Busy
  <1>2. SnapshotOK(Blank("opening"), draft) /\ ~Blank("opening").retry
        /\ Blank("opening").status = "opening"
    BY <1>1, BlankOK DEF Blank
  <1>3. SnapshotOK(Published("opening"), draft) /\ ~Published("opening").retry
        /\ Published("opening").status = "opening"
    BY <1>1, PublishedOK
  <1>4. CASE Open(o)
    <2>1. PICK p \in bound : Select(o, "open", p, Published("opening"))
      BY <1>4 DEF Open
    <2>2. p \in Projects /\ p # None
      BY ControllerAssumption DEF Inv, TypeOK
    <2> DEFINE snapshot == Published("opening")
    <2> HIDE DEF snapshot
    <2>3. Select(o, "open", p, snapshot) /\ SnapshotOK(snapshot, draft) /\ ~snapshot.retry
          /\ snapshot.status = "opening"
      BY <1>3, <2>1 DEF snapshot
    <2> QED
      BY <2>2, <2>3, SelectStep
  <1>5. CASE OpenNone(o)
    BY <1>2, <1>5, SelectStep DEF OpenNone
  <1>6. CASE Create(o)
    BY <1>2, <1>6, SelectStep DEF Create
  <1> QED
    BY <1>4, <1>5, <1>6

(* An operation is left, and something settled shows.                       *)
LEMMA LeaveStep ==
  ASSUME Inv, NEW s, SnapshotOK(s, draft), s.status \notin Busy,
         live' = None, active' = None, cancelling' = FALSE, shown' = s,
         op' = [q \in Slots |-> Left(op[q])], RetryableOK(retryable'),
         Matches(s, retryable'), \A p : Agrees(p) => s.project \in {None, p},
         \A q \in Slots :
            ~(op[q].kind = "create" /\ op[q].stage = "asked" /\ op[q].fresh),
         UNCHANGED main
  PROVE  Inv'
  <1>0. TypeOK /\ draft' = draft /\ UNCHANGED <<selected, pending, bound, revision>>
    BY DEF Inv, main
  <1>1. ASSUME NEW q \in Slots
        PROVE  /\ op'[q] \in Operation /\ OperationOK(op'[q], draft)
               /\ op'[q].fresh => op[q].fresh /\ op'[q].target = op[q].target
               /\ ~(op'[q].stage = "asked" /\ op'[q].kind = "create" /\ op'[q].fresh)
    <2>1. OperationOK(op[q], draft) /\ op'[q] = Left(op[q])
      BY DEF Inv
    <2> QED
      BY <2>1, LeftOK DEF OperationOK
  <1>2. TypeOK'
    BY <1>0, <1>1 DEF TypeOK, SnapshotOK, RetryableOK
  <1>3. ActiveOK' /\ Homes' /\ WaitsForSomething'
    BY <1>0 DEF Inv, ActiveOK, Homes, WaitsForSomething, Displayed, RetryableOK
  <1>4. CreateOK'
    BY <1>1, ControllerAssumption DEF CreateOK
  <1>5. \E p \in Projects \cup {None} : Agrees(p)'
    <2>1. PICK p \in Projects \cup {None} : Agrees(p)
      BY DEF Inv
    <2>2. Agrees(p)'
      BY <1>0, <1>1, <2>1 DEF Agrees
    <2> QED
      BY <2>2
  <1>6. SnapshotOK(shown', draft') /\ Matches(shown, retryable)'
    BY <1>0
  <1> QED
    BY <1>0, <1>1, <1>2, <1>3, <1>4, <1>5, <1>6 DEF Inv

LEMMA LeavingInv ==
  ASSUME Inv, ClearWorkspace \/ Cancelled
  PROVE  Inv'
  <1>1. TypeOK /\ ActiveOK /\ RetryableOK(retryable)
    BY DEF Inv, TypeOK, ActiveOK, RetryableOK
  <1>2. CASE ClearWorkspace
    <2>1. "new" \in Status /\ "new" \notin Busy
      BY DEF Status, Settled, Busy
    <2> DEFINE s == Blank("new")
    <2>2. SnapshotOK(s, draft) /\ ~s.retry /\ s.status = "new" /\ s.project = None
      BY <2>1, BlankOK DEF Blank
    <2> HIDE DEF s
    <2>3. /\ live' = None /\ active' = None /\ retryable' = None /\ cancelling' = FALSE
          /\ shown' = s /\ op' = [q \in Slots |-> Left(op[q])] /\ UNCHANGED main
      BY <1>2 DEF ClearWorkspace, s
    <2>4. \A q \in Slots : ~(op[q].kind = "create" /\ op[q].stage = "asked" /\ op[q].fresh)
      BY <1>2 DEF ClearWorkspace, Inv, CreateOK, Displayed, Busy
    <2>5. RetryableOK(retryable') /\ Matches(s, retryable')
          /\ \A p : Agrees(p) => s.project \in {None, p}
      BY <2>2, <2>3 DEF RetryableOK, Matches
    <2> QED
      BY <2>1, <2>2, <2>3, <2>4, <2>5, LeaveStep
  <1>3. CASE Cancelled
    <2> DEFINE s == active.before
    <2>1. active # None
      BY <1>1, <1>3 DEF Cancelled, ActiveOK
    <2>2. /\ live' = None /\ active' = None /\ retryable' = retryable /\ cancelling' = FALSE
          /\ shown' = s /\ op' = [q \in Slots |-> Left(op[q])] /\ UNCHANGED main
      BY <1>3 DEF Cancelled
    <2>3. SnapshotOK(s, draft) /\ s.status \notin Busy /\ Matches(s, retryable')
          /\ \A p : Agrees(p) => s.project \in {None, p}
      BY <1>1, <2>1, <2>2 DEF ActiveOK, Matches, Agrees
    <2>4. \A q \in Slots : ~(op[q].kind = "create" /\ op[q].stage = "asked" /\ op[q].fresh)
      BY <2>1 DEF Inv, CreateOK
    <2> HIDE DEF s
    <2> QED
      BY <1>1, <2>2, <2>3, <2>4, LeaveStep
  <1> QED
    BY <1>2, <1>3

-----------------------------------------------------------------------------
(* The steps that remain                                                    *)

LEMMA PreviewedInv ==
  ASSUME Inv, NEW o \in Slots, Previewed(o)
  PROVE  Inv'
  <1> DEFINE s == [status |-> IF op[o].result.draft = None THEN "ready" ELSE "draft_ready",
                   project |-> op[o].target, saved |-> op[o].result.saved,
                   draft |-> op[o].result.draft, inspected |-> op[o].kind = "inspect",
                   retry |-> FALSE]
  <1>1. live = o /\ op[o].stage = "preview" /\ Shows(o, s)
        /\ UNCHANGED <<active, retryable, cancelling, main>>
    BY DEF Previewed
  <1>2. /\ OperationOK(op[o], draft) /\ LiveOK(o) /\ RetryableOK(retryable')
        /\ op[o].target \in Projects \cup {None} /\ op[o].result \in Result
        /\ \A p : Agrees(p) => op[o].target \in {None, p}
    BY <1>1, LiveFacts DEF Operation
  <1>3. s \in Snapshot
    BY <1>2 DEF Snapshot, Result, Status, Settled
  <1>4. /\ s.status = (IF op[o].result.draft = None THEN "ready" ELSE "draft_ready")
        /\ s.project = op[o].target /\ s.saved = op[o].result.saved
        /\ s.draft = op[o].result.draft /\ s.inspected = (op[o].kind = "inspect") /\ ~s.retry
    OBVIOUS
  <1> HIDE DEF s
  <1>5. SnapshotOK(s, draft)
    BY <1>2, <1>3, <1>4 DEF SnapshotOK, OperationOK, LiveOK
  <1>6. s.status \notin Busy /\ Matches(s, retryable')
    BY <1>4 DEF Busy, Matches
  <1>7. Clears
    BY <1>1, ControllerAssumption DEF Inv, TypeOK, ActiveOK, Clears
  <1>8. \A p : Agrees(p) => s.project \in {None, p}
    BY <1>2, <1>4
  <1> QED
    BY <1>1, <1>2, <1>5, <1>6, <1>7, <1>8, ShowStep

(* The snapshot and the operation with the epoch stay: what else changes is *)
(* one operation, or what may be cancelled.                                 *)
LEMMA AsideStep ==
  ASSUME Inv, NEW o \in Slots, NEW a, op' = [op EXCEPT ![o] = a],
         OperationOK(a, draft), a.fresh => op[o].fresh /\ a.target = op[o].target,
         a.kind # "create" \/ a.stage # "asked",
         live = o => /\ a.kind = op[o].kind /\ a.target = op[o].target /\ ~a.late
                     /\ a.before = op[o].before /\ op[o].stage # "preview" /\ a.stage # "preview",
         active' # None =>
            active' \in [slot : Slots \cup {None}, known : BOOLEAN,
                         target : Projects, before : Snapshot],
         active' # None =>
            /\ SnapshotOK(active'.before, draft)
            /\ active'.before.status \notin Busy
            /\ active'.before.project \in {None, active'.target}
            /\ \A p \in Projects \cup {None} : Agrees(p) => active'.target = p
            /\ active'.before.retry =>
                  /\ active # None /\ active.before.retry /\ active'.before = active.before
                  /\ active'.target = active.target
                  /\ \/ op[live].kind = "approved"
                     \/ active'.known = active.known /\ active'.slot = active.slot,
         CreateOK => \A q \in Slots : op[q].fresh /\ op[q].kind = "create" /\ op[q].stage = "asked"
                        => active' = None,
         cancelling' \in BOOLEAN, cancelling' => active' # None,
         UNCHANGED <<shown, live, retryable, main>>
  PROVE  Inv'
  <1>0. TypeOK /\ draft' = draft /\ UNCHANGED <<selected, pending, bound, revision>>
        /\ None \notin Slots
    BY ControllerAssumption DEF Inv, main
  <1>1. a \in Operation /\ op'[o] = a /\ \A q \in Slots \ {o} : op'[q] = op[q]
    BY <1>0 DEF TypeOK, OperationOK
  <1>2. TypeOK'
    BY <1>0, <1>1 DEF TypeOK
  <1>3. \A q \in Slots : OperationOK(op'[q], draft')
    BY <1>0, <1>1 DEF Inv
  <1>4. live # None =>
           /\ op'[live].kind = op[live].kind /\ op'[live].target = op[live].target
           /\ op'[live].before = op[live].before
           /\ op'[live].stage = "preview" <=> op[live].stage = "preview"
           /\ op[live].late = FALSE => op'[live].late = FALSE
    <2>1. CASE live = o
      <3>1. a.late = FALSE
        BY <1>1, <2>1 DEF Operation
      <3> QED
        BY <1>1, <2>1, <3>1
    <2>2. CASE live # o
      BY <1>0, <1>1, <2>2 DEF TypeOK
    <2> QED
      BY <2>1, <2>2
  <1>5. (live # None => LiveOK(live))'
    <2> SUFFICES ASSUME live # None PROVE LiveOK(live)'
      OBVIOUS
    <2>1. LiveOK(live) /\ op[live].late = FALSE
      BY <1>0 DEF Inv, LiveOK, TypeOK, Operation
    <2> QED
      BY <1>4, <2>1 DEF LiveOK
  <1>6. ActiveOK'
    <2>1. ActiveOK
      BY DEF Inv
    <2> QED
      BY <1>0, <1>4, <2>1 DEF ActiveOK
  <1>7. CreateOK'
    <2> SUFFICES ASSUME NEW q \in Slots, op'[q].kind = "create", op'[q].stage = "asked",
                        op'[q].fresh \/ live' = q
                 PROVE  /\ op'[q].fresh /\ live' = q /\ active' = None /\ pending'
                        /\ shown'.status = "opening"
                        /\ \A x \in Slots \ {q} : ~op'[x].fresh
      BY DEF CreateOK
    <2>1. q # o /\ op'[q] = op[q]
      BY <1>1
    <2>2. CreateOK
      BY DEF Inv
    <2>3. /\ op[q].fresh /\ live = q /\ pending /\ shown.status = "opening"
          /\ \A x \in Slots \ {q} : ~op[x].fresh
      BY <2>1, <2>2 DEF CreateOK
    <2>4. active' = None
      BY <2>1, <2>2, <2>3
    <2> QED
      BY <1>0, <1>1, <2>1, <2>3, <2>4
  <1>8. \E p \in Projects \cup {None} : Agrees(p)'
    <2>1. PICK p \in Projects \cup {None} : Agrees(p)
      BY DEF Inv
    <2>2. Agrees(p)'
      BY <1>0, <1>1, <1>4, <2>1 DEF Agrees
    <2> QED
      BY <2>2
  <1>9. Homes' /\ SnapshotOK(shown', draft') /\ Matches(shown, retryable)' /\ WaitsForSomething'
    BY <1>0 DEF Inv, Homes, Matches, WaitsForSomething, Displayed
  <1> QED
    BY <1>2, <1>3, <1>5, <1>6, <1>7, <1>8, <1>9 DEF Inv

(* What may be cancelled, as it is.                                         *)
LEMMA ActiveFacts ==
  ASSUME Inv, active # None
  PROVE  /\ active \in [slot : Slots \cup {None}, known : BOOLEAN,
                        target : Projects, before : Snapshot]
         /\ SnapshotOK(active.before, draft) /\ active.before.status \notin Busy
         /\ active.before.project \in {None, active.target}
         /\ \A p \in Projects \cup {None} : Agrees(p) => active.target = p
         /\ \A q \in Slots : op[q].fresh /\ op[q].kind = "create" => op[q].stage # "asked"
  <1>1. PICK p \in Projects \cup {None} : Agrees(p)
    BY DEF Inv
  <1> QED
    BY <1>1 DEF Inv, TypeOK, ActiveOK, Agrees, CreateOK

LEMMA StaleInv ==
  ASSUME Inv, NEW o \in Slots, Stale(o)
  PROVE  Inv'
  <1>1. /\ live # o /\ op' = [op EXCEPT ![o] = Idle]
        /\ active' = (IF active # None /\ active.slot = o THEN [active EXCEPT !.slot = None]
                      ELSE active)
        /\ UNCHANGED <<shown, live, retryable, cancelling, main>>
    BY DEF Stale, Free
  <1>2. OperationOK(Idle, draft) /\ ~Idle.fresh /\ Idle.kind # "create" /\ Idle.stage # "asked"
    BY IdleOK DEF Idle
  <1>3. CASE active = None
    BY <1>1, <1>2, <1>3, AsideStep DEF Inv, ActiveOK, TypeOK
  <1>4. CASE active # None
    <2> DEFINE x == [active EXCEPT !.slot = None]
    <2>1. /\ active \in [slot : Slots \cup {None}, known : BOOLEAN,
                         target : Projects, before : Snapshot]
          /\ SnapshotOK(active.before, draft) /\ active.before.status \notin Busy
          /\ active.before.project \in {None, active.target}
          /\ \A p \in Projects \cup {None} : Agrees(p) => active.target = p
          /\ \A q \in Slots : op[q].fresh /\ op[q].kind = "create" => op[q].stage # "asked"
      BY <1>4, ActiveFacts
    <2>2. CASE active.slot # o
      BY <1>1, <1>2, <1>4, <2>1, <2>2, AsideStep DEF Inv, TypeOK
    <2>3. CASE active.slot = o
      <3>1. /\ x \in [slot : Slots \cup {None}, known : BOOLEAN,
                      target : Projects, before : Snapshot]
            /\ x.known = active.known /\ x.target = active.target /\ x.before = active.before
        BY <2>1
      <3>2. active' = x
        BY <1>1, <1>4, <2>3
      <3> HIDE DEF x
      <3>3. active.before.retry => op[live].kind = "approved"
        BY <1>1, <1>4, <2>3 DEF Inv, ActiveOK
      <3>4. /\ SnapshotOK(active'.before, draft) /\ active'.before.status \notin Busy
            /\ active'.before.project \in {None, active'.target}
            /\ \A p \in Projects \cup {None} : Agrees(p) => active'.target = p
            /\ active'.before.retry =>
                  /\ active # None /\ active.before.retry /\ active'.before = active.before
                  /\ active'.target = active.target /\ op[live].kind = "approved"
        BY <1>4, <2>1, <3>1, <3>2, <3>3
      <3>5. cancelling' \in BOOLEAN
        BY <1>1 DEF Inv, TypeOK
      <3>6. active' # None
        BY <3>1, <3>2, RequestAssumption
      <3> QED
        BY <1>1, <1>2, <2>1, <3>1, <3>2, <3>4, <3>5, <3>6, AsideStep
    <2> QED
      BY <2>2, <2>3
  <1> QED
    BY <1>3, <1>4

LEMMA CancelInv ==
  ASSUME Inv, Cancel
  PROVE  Inv'
  <1> DEFINE o == active.slot
             y == [op[o].result EXCEPT !.is = "failed"]
             a == [op[o] EXCEPT !.stage = "answered", !.result = y]
  <1>1. /\ active # None /\ o # None /\ op[o].stage = "asked"
        /\ op' = [op EXCEPT ![o].stage = "answered", ![o].result.is = "failed"]
        /\ cancelling' = TRUE /\ UNCHANGED <<shown, live, active, retryable, main>>
    BY DEF Cancel
  <1>2. /\ active \in [slot : Slots \cup {None}, known : BOOLEAN,
                       target : Projects, before : Snapshot]
        /\ SnapshotOK(active.before, draft) /\ active.before.status \notin Busy
        /\ active.before.project \in {None, active.target}
        /\ \A p \in Projects \cup {None} : Agrees(p) => active.target = p
        /\ \A q \in Slots : op[q].fresh /\ op[q].kind = "create" => op[q].stage # "asked"
    BY <1>1, ActiveFacts
  <1>3. o \in Slots
    BY <1>1, <1>2
  <1>4. TypeOK /\ op[o] \in Operation /\ OperationOK(op[o], draft) /\ op[o].result \in Result
    BY <1>3 DEF Inv, TypeOK, Operation
  <1> HIDE DEF o
  <1>5. y \in Result /\ y.is = "failed" /\ y.draft = op[o].result.draft
        /\ y.saved = op[o].result.saved
    BY <1>4 DEF Result
  <1> HIDE DEF y
  <1>6. /\ a \in Operation /\ a.stage = "answered" /\ a.result = y /\ a.kind = op[o].kind
        /\ a.target = op[o].target /\ a.draft = op[o].draft /\ a.before = op[o].before
        /\ a.late = op[o].late /\ a.ran = op[o].ran /\ a.fresh = op[o].fresh
    BY <1>4, <1>5 DEF Operation
  <1>7. op' = [op EXCEPT ![o] = a]
    BY <1>1, <1>3, <1>4 DEF TypeOK, Operation, y
  <1> HIDE DEF a
  <1>8. OperationOK(a, draft)
    BY <1>4, <1>5, <1>6 DEF OperationOK
  <1>9. live = o => ~a.late
    BY <1>1, <1>6, LiveFacts, <1>3 DEF LiveOK
  <1> QED
    BY <1>1, <1>2, <1>3, <1>6, <1>7, <1>8, <1>9, AsideStep

(* A save goes on to read back what it has saved.                           *)
LEMMA GoesOn ==
  ASSUME Inv, NEW o \in Slots, live = o, op[o].kind = "save", op[o].stage = "answered",
         NEW a, OperationOK(a, draft), a.kind \in {"reload", "reopen"}, a.stage # "preview",
         a.target = op[o].target, a.before = op[o].before, ~a.late,
         op' \in [Slots -> Operation], op'[o] = a,
         \A q \in Slots \ {o} :
            /\ OperationOK(op'[q], draft)
            /\ op'[q].fresh => op[q].fresh
            /\ op'[q].kind = op[q].kind /\ op'[q].stage = op[q].stage
            /\ op'[q].target = op[q].target,
         selected' \in {None, selected}, pending' \in BOOLEAN,
         UNCHANGED <<window, bound, revision, draft>>
  PROVE  Inv'
  <1>1. /\ TypeOK /\ LiveOK(o) /\ o # None
        /\ UNCHANGED <<shown, live, active, retryable, cancelling, bound, revision, draft>>
    BY ControllerAssumption DEF Inv, TypeOK, window
  <1>2. TypeOK'
    BY <1>1 DEF TypeOK
  <1>3. \A q \in Slots : OperationOK(op'[q], draft')
    BY <1>1
  <1>4. (live # None => LiveOK(live))'
    <2>1. op'[o].target # None
      BY <1>1 DEF LiveOK
    <2>2. Matches(op'[o].before, retryable')
      BY <1>1 DEF LiveOK, Matches
    <2> QED
      BY <1>1, <2>1, <2>2 DEF LiveOK, Builds
  <1>5. ActiveOK'
    <2>1. ActiveOK /\ op[live].kind \notin Builds
      BY DEF Inv, Builds
    <2> QED
      BY <1>1, <2>1 DEF ActiveOK
  <1>6. CreateOK'
    <2> SUFFICES ASSUME NEW q \in Slots, op'[q].kind = "create", op'[q].stage = "asked",
                        op'[q].fresh \/ live' = q
                 PROVE  FALSE
      BY DEF CreateOK
    <2>1. q # o /\ op[q].fresh /\ op[q].kind = "create" /\ op[q].stage = "asked"
      BY <1>1
    <2> QED
      BY <2>1 DEF Inv, CreateOK
  <1>7. \E p \in Projects \cup {None} : Agrees(p)'
    <2>1. PICK p \in Projects \cup {None} : Agrees(p)
      BY DEF Inv
    <2>2. \A q \in Slots : op'[q].fresh => op'[q].target \in {None, p}
      BY <1>1, <2>1 DEF Agrees
    <2>3. Agrees(p)'
      BY <1>1, <2>1, <2>2 DEF Agrees
    <2> QED
      BY <2>3
  <1>8. Homes' /\ SnapshotOK(shown', draft') /\ Matches(shown, retryable)' /\ WaitsForSomething'
    BY <1>1 DEF Inv, Homes, Matches, WaitsForSomething, Displayed
  <1> QED
    BY <1>1, <1>2, <1>3, <1>4, <1>5, <1>6, <1>7, <1>8 DEF Inv

LEMMA ReceiveSavedInv ==
  ASSUME Inv, NEW o \in Slots, ReceiveSaved(o)
  PROVE  Inv'
  <1>1. live = o /\ op[o].kind = "save" /\ op[o].stage = "answered" /\ UNCHANGED window
    BY DEF ReceiveSaved, Arrives
  <1>2. op[o] \in Operation /\ OperationOK(op[o], draft) /\ LiveOK(o) /\ TypeOK /\ o # None
    BY <1>1, LiveFacts, ControllerAssumption
  <1>3. NoResult \in Result /\ NoResult.draft = None /\ NoResult.saved = 0 /\ NoResult.is = "none"
    BY DEF NoResult, Result
  <1>4. op[o].target # None /\ op[o].late = FALSE
    BY <1>1, <1>2 DEF LiveOK, Operation
  <1>5. CASE op[o].result.is = "done"
    <2> DEFINE r == [op[o] EXCEPT !.kind = "reload", !.result = NoResult]
               b == [r EXCEPT !.stage = "asked"]
    <2>1. /\ r \in Operation /\ r.kind = "reload" /\ r.target = op[o].target
          /\ r.before = op[o].before /\ ~r.late
      BY <1>2, <1>3, <1>4 DEF Operation, Kinds, Plain
    <2>2. /\ b \in Operation /\ b.kind = "reload" /\ b.target = op[o].target
          /\ b.before = op[o].before /\ b.draft = op[o].draft /\ b.result = NoResult
          /\ b.stage = "asked"
      BY <1>2, <1>3 DEF Operation, Kinds, Plain
    <2>3. Ask(o, r)
      BY <1>5 DEF ReceiveSaved
    <2> HIDE DEF b
    <2>4. OperationOK(b, draft)
      BY <1>2, <1>3, <1>4, <2>2 DEF OperationOK, Named, Turns, Builds
    <2>5. OperationOK([r EXCEPT !.stage = "asked"], draft)
      BY <2>4 DEF b
    <2> HIDE DEF r
    <2> DEFINE a == Asked(r)
    <2>6. r.kind \notin Turns
      BY <2>1 DEF Turns, Builds
    <2>7. /\ OperationOK(a, draft) /\ a.stage \in {"asked", "answered"} /\ a.kind = "reload"
          /\ a.target = op[o].target /\ a.before = op[o].before /\ ~a.late
      BY <2>1, <2>5, <2>6, AskedOK
    <2>8. op' = [op EXCEPT ![o] = a] /\ UNCHANGED <<selected, pending, bound, revision, draft>>
      BY <2>3 DEF Ask, main
    <2> HIDE DEF a
    <2>9. /\ op' \in [Slots -> Operation] /\ op'[o] = a
          /\ \A q \in Slots \ {o} : op'[q] = op[q] /\ OperationOK(op'[q], draft)
      BY <1>2, <2>7, <2>8 DEF TypeOK, OperationOK, Inv
    <2>10. selected' \in {None, selected} /\ pending' \in BOOLEAN
      BY <1>2, <2>8 DEF TypeOK
    <2> QED
      BY <1>1, <2>7, <2>8, <2>9, <2>10, GoesOn
  <1>6. CASE op[o].result.is # "done"
    <2> DEFINE r == [op[o] EXCEPT !.kind = "reopen", !.result = NoResult]
               a == [r EXCEPT !.stage = "asked", !.fresh = TRUE]
    <2>1. AskToSelect(o, r, op)
      BY <1>6 DEF ReceiveSaved
    <2>2. /\ a \in Operation /\ a.kind = "reopen" /\ a.target = op[o].target
          /\ a.before = op[o].before /\ a.draft = op[o].draft /\ a.result = NoResult
          /\ a.stage = "asked" /\ ~a.late /\ r.kind = "reopen"
      BY <1>2, <1>3, <1>4 DEF Operation, Kinds, Selections
    <2>3. /\ op' = [q \in Slots |-> IF q = o THEN a ELSE [op[q] EXCEPT !.fresh = FALSE]]
          /\ selected' = None /\ pending' = (r.kind # "new")
          /\ UNCHANGED <<bound, revision, draft>>
      BY <2>1 DEF AskToSelect
    <2> HIDE DEF a, r
    <2>4. OperationOK(a, draft)
      BY <1>2, <1>3, <1>4, <2>2 DEF OperationOK, Named, Turns, Builds
    <2>5. ASSUME NEW q \in Slots \ {o}
          PROVE  /\ op'[q] \in Operation /\ OperationOK(op'[q], draft) /\ ~op'[q].fresh
                 /\ op'[q].kind = op[q].kind /\ op'[q].stage = op[q].stage
                 /\ op'[q].target = op[q].target
      <3> DEFINE u == [op[q] EXCEPT !.fresh = FALSE]
      <3>1. op'[q] = u
        BY <2>3
      <3>2. op[q] \in Operation /\ OperationOK(op[q], draft)
        BY <1>2 DEF Inv, TypeOK
      <3>3. /\ u \in Operation /\ u.fresh = FALSE /\ u.kind = op[q].kind /\ u.stage = op[q].stage
            /\ u.target = op[q].target /\ u.draft = op[q].draft /\ u.before = op[q].before
            /\ u.result = op[q].result /\ u.late = op[q].late /\ u.ran = op[q].ran
        BY <3>2 DEF Operation
      <3> HIDE DEF u
      <3>4. OperationOK(u, draft)
        BY <3>2, <3>3 DEF OperationOK
      <3> QED
        BY <3>1, <3>3, <3>4
    <2>6. op' \in [Slots -> Operation] /\ op'[o] = a
      BY <2>2, <2>3, <2>5
    <2>7. pending' \in BOOLEAN
      BY <2>3
    <2> QED
      BY <1>1, <2>2, <2>3, <2>4, <2>5, <2>6, <2>7, GoesOn
  <1> QED
    BY <1>5, <1>6

LEMMA BuildUnboundInv ==
  ASSUME Inv, BuildUnbound
  PROVE  Inv'
  <1>1. /\ live = None /\ retryable' = None
        /\ UNCHANGED <<live, active, cancelling, op, main>>
    BY DEF BuildUnbound
  <1>2. PICK status \in {"submit_failed", "generation_failed"} : shown' = Blank(status)
    BY DEF BuildUnbound
  <1>3. status \in Status /\ status \notin Busy
    BY DEF Status, Settled, Busy
  <1>4. SnapshotOK(shown', draft) /\ shown'.status = status /\ ~shown'.retry /\ shown'.project = None
    BY <1>2, <1>3, BlankOK DEF Blank
  <1>5. TypeOK /\ UNCHANGED <<selected, pending, bound, revision, draft>>
    BY <1>1 DEF Inv, main
  <1>6. TypeOK'
    BY <1>1, <1>4, <1>5 DEF TypeOK, SnapshotOK
  <1>7. ActiveOK'
    BY <1>1, <1>5 DEF Inv, ActiveOK
  <1>8. CreateOK'
    <2> SUFFICES ASSUME NEW q \in Slots, op[q].kind = "create", op[q].stage = "asked",
                        op[q].fresh
                 PROVE  FALSE
      BY <1>1, ControllerAssumption DEF CreateOK
    <2> QED
      BY <1>1, ControllerAssumption DEF Inv, CreateOK
  <1>9. \E p \in Projects \cup {None} : Agrees(p)'
    <2>1. PICK p \in Projects \cup {None} : Agrees(p)
      BY DEF Inv
    <2>2. Agrees(p)'
      BY <1>1, <1>4, <1>5, <2>1 DEF Agrees
    <2> QED
      BY <2>2
  <1>10. /\ Homes' /\ SnapshotOK(shown', draft') /\ Matches(shown, retryable)'
         /\ WaitsForSomething' /\ \A o \in Slots : OperationOK(op'[o], draft')
    BY <1>1, <1>3, <1>4, <1>5 DEF Inv, Homes, Matches, WaitsForSomething, Displayed
  <1> QED
    BY <1>1, <1>6, <1>7, <1>8, <1>9, <1>10 DEF Inv

LEMMA StartedInv ==
  ASSUME Inv, NEW o \in Slots, Started(o)
  PROVE  Inv'
  <1> DEFINE x == [active EXCEPT !.slot = o, !.known = TRUE]
  <1>1. /\ active # None /\ ~active.known /\ op[o].kind \in Turns
        /\ op[o].stage \in {"asked", "answered"} /\ active' = x /\ cancelling' = FALSE
        /\ UNCHANGED <<shown, live, retryable, op, main>>
    BY DEF Started
  <1>2. TypeOK /\ op[o] \in Operation /\ OperationOK(op[o], draft)
    BY DEF Inv, TypeOK
  <1>3. op' = [op EXCEPT ![o] = op[o]]
    BY <1>1, <1>2 DEF TypeOK
  <1>4. op[o].kind # "create"
    BY <1>1 DEF Turns, Builds
  <1>5. /\ active \in [slot : Slots \cup {None}, known : BOOLEAN,
                       target : Projects, before : Snapshot]
        /\ SnapshotOK(active.before, draft) /\ active.before.status \notin Busy
        /\ active.before.project \in {None, active.target}
        /\ \A p \in Projects \cup {None} : Agrees(p) => active.target = p
        /\ \A q \in Slots : op[q].fresh /\ op[q].kind = "create" => op[q].stage # "asked"
    BY <1>1, ActiveFacts
  <1>6. /\ x \in [slot : Slots \cup {None}, known : BOOLEAN,
                  target : Projects, before : Snapshot]
        /\ x.target = active.target /\ x.before = active.before
    BY <1>5
  <1> HIDE DEF x
  <1>7. active.before.retry => op[live].kind = "approved"
    BY <1>1 DEF Inv, ActiveOK
  <1>8. /\ SnapshotOK(active'.before, draft) /\ active'.before.status \notin Busy
        /\ active'.before.project \in {None, active'.target}
        /\ \A p \in Projects \cup {None} : Agrees(p) => active'.target = p
        /\ active'.before.retry =>
              /\ active # None /\ active.before.retry /\ active'.before = active.before
              /\ active'.target = active.target /\ op[live].kind = "approved"
    BY <1>1, <1>5, <1>6, <1>7
  <1>9. live = o => ~op[o].late
    BY LiveFacts DEF LiveOK
  <1> QED
    BY <1>1, <1>2, <1>3, <1>4, <1>5, <1>6, <1>8, <1>9, AsideStep

(* The epoch is not asked for when the digest is there: the request runs,   *)
(* late, in whatever is selected.                                           *)
LEMMA DigestedInv ==
  ASSUME Inv, NEW o \in Slots, Digested(o)
  PROVE  Inv'
  <1> DEFINE r == op[o]
             late == [r EXCEPT !.late = TRUE]
             c == live # o => Asked(r).ran = Asked(r).target
             x == [slot |-> o, known |-> TRUE, target |-> r.target, before |-> r.before]
  <1>1. /\ r.stage = "digest" /\ cancelling' = FALSE /\ UNCHANGED <<shown, live, retryable, main>>
        /\ active' = IF c THEN x ELSE None
    BY DEF Digested
  <1>2. /\ TypeOK /\ r \in Operation /\ OperationOK(r, draft) /\ SnapshotOK(r.before, draft)
        /\ r.before.status \notin Busy /\ r.before.project \in {None, r.target}
    BY DEF Inv, TypeOK, OperationOK
  <1>3. /\ r.kind \in Turns /\ ~r.before.retry /\ r.target # None /\ r.target \in Projects
        /\ r.before \in Snapshot /\ r.kind # "create" /\ r.kind # "save"
    BY <1>1, <1>2 DEF OperationOK, Turns, Builds, Operation
  <1>4. late \in Operation /\ late.kind = r.kind /\ late.target = r.target /\ late.late = TRUE
        /\ late.before = r.before /\ late.ran = r.ran
    BY <1>2 DEF Operation
  <1>5. ASSUME NEW z \in {r, late}
        PROVE  OperationOK([z EXCEPT !.stage = "asked"], draft)
    <2> DEFINE b == [z EXCEPT !.stage = "asked"]
    <2>1. /\ b \in Operation /\ b.stage = "asked" /\ b.kind = r.kind /\ b.target = r.target
          /\ b.before = r.before /\ b.draft = r.draft /\ b.result = r.result
          /\ b.ran = r.ran /\ (b.late = r.late \/ b.late = TRUE)
      BY <1>2 DEF Operation
    <2> HIDE DEF b
    <2>2. OperationOK(b, draft)
      BY <1>1, <1>2, <1>3, <2>1 DEF OperationOK
    <2> QED
      BY <2>2 DEF b
  <1>6. /\ x \in [slot : Slots \cup {None}, known : BOOLEAN, target : Projects, before : Snapshot]
        /\ x.target = r.target /\ x.before = r.before
    BY <1>3
  <1> HIDE DEF x
  <1>7. CASE live = o
    <2> DEFINE a == Asked(r)
    <2>1. op' = [op EXCEPT ![o] = a] /\ active' = x
      BY <1>1, <1>7 DEF Digested
    <2>2. \A p \in Projects \cup {None} : Agrees(p) => r.target = p
      BY <1>3, <1>7, ControllerAssumption DEF Agrees
    <2>3. r.target = selected \/ selected = None
      BY <2>2 DEF Inv, Agrees
    <2>4. /\ OperationOK(a, draft) /\ a.kind = r.kind /\ a.target = r.target
          /\ a.before = r.before /\ a.late = r.late /\ ~a.fresh
          /\ a.stage \in {"asked", "answered"}
      BY <1>2, <1>3, <1>5, <2>3, AskedOK
    <2>5. ~a.late
      BY <1>7, <2>4, LiveFacts DEF LiveOK
    <2>6. CreateOK =>
             \A q \in Slots : ~(op[q].fresh /\ op[q].kind = "create" /\ op[q].stage = "asked")
      BY <1>1, <1>7 DEF CreateOK
    <2> HIDE DEF a
    <2> QED
      BY <1>1, <1>2, <1>3, <1>6, <1>7, <2>1, <2>2, <2>4, <2>5, <2>6, AsideStep
  <1>8. CASE live # o
    <2> DEFINE k == Asked(late)
    <2>1. [Asked(r) EXCEPT !.late = TRUE] = k /\ Asked(r).ran = k.ran /\ Asked(r).target = r.target
      BY <1>2, <1>3, <1>4 DEF Asked, Operation
    <2>2. /\ OperationOK(k, draft) /\ k.kind = r.kind /\ k.target = r.target
          /\ k.late = TRUE /\ ~k.fresh /\ k.ran \in {None, selected}
          /\ (pending => k.ran = None) /\ k.stage \in {"asked", "answered"}
      BY <1>3, <1>4, <1>5, AskedOK
    <2> HIDE DEF k
    <2>3. CASE c
      <3> DEFINE a == [Asked(r) EXCEPT !.late = TRUE, !.before = Blank("new")]
                 b == [k EXCEPT !.before = Blank("new")]
      <3>1. op' = [op EXCEPT ![o] = a] /\ active' = x
        BY <1>1, <1>8, <2>3 DEF Digested
      <3>2. "new" \in Status /\ "new" \notin Busy
        BY DEF Status, Settled, Busy
      <3>3. /\ SnapshotOK(Blank("new"), draft) /\ Blank("new") \in Snapshot
            /\ Blank("new").status = "new" /\ Blank("new").project = None
        BY <3>2, BlankOK DEF SnapshotOK, Blank
      <3>4. a = b
        BY <2>1
      <3> HIDE DEF a
      <3>5. /\ b \in Operation /\ b.before = Blank("new") /\ b.kind = k.kind /\ b.stage = k.stage
            /\ b.target = k.target /\ b.draft = k.draft /\ b.result = k.result
            /\ b.late = k.late /\ b.ran = k.ran /\ b.fresh = k.fresh
        BY <2>2, <3>3 DEF OperationOK, Operation
      <3> HIDE DEF b
      <3>6. OperationOK(b, draft)
        BY <2>2, <3>2, <3>3, <3>5 DEF OperationOK
      <3>7. k.ran = r.target /\ r.target = selected /\ ~pending
        BY <1>3, <1>8, <2>1, <2>2, <2>3
      <3>8. \A p \in Projects \cup {None} : Agrees(p) => r.target = p
        BY <1>3, <3>7 DEF Agrees
      <3>9. CreateOK =>
               \A q \in Slots : ~(op[q].fresh /\ op[q].kind = "create" /\ op[q].stage = "asked")
        BY <3>7 DEF CreateOK
      <3>10. a.kind # "create" /\ ~a.fresh
        BY <1>3, <2>2, <3>4, <3>5
      <3>11. OperationOK(a, draft)
        BY <3>4, <3>6
      <3> QED
        BY <1>1, <1>2, <1>3, <1>6, <1>8, <3>1, <3>8, <3>9, <3>10, <3>11, AsideStep
    <2>4. CASE ~c
      <3> DEFINE a == Left(k)
      <3>1. op' = [op EXCEPT ![o] = a] /\ active' = None
        BY <1>1, <1>8, <2>1, <2>4 DEF Digested
      <3>2. OperationOK(a, draft) /\ ~a.fresh
        BY <2>2, LeftOK
      <3>3. a.kind # "create" \/ a.stage # "asked"
        <4>1. CASE k.stage = "answered"
          <5>1. a = Unread
            BY <4>1 DEF Left
          <5> QED
            BY <5>1 DEF Unread, Idle
        <4>2. CASE k.stage = "asked"
          <5>1. MayChangeMain(k) \/ a = Unread
            BY <4>2 DEF Left
          <5>2. CASE MayChangeMain(k)
            <6> DEFINE kind == CASE k.kind = "generate" -> "submit"
                                 [] k.kind = "reopen" -> "open"
                                 [] OTHER -> k.kind
            <6>1. a = [k EXCEPT !.before = Blank("new"), !.kind = kind]
              BY <4>2, <5>2 DEF Left
            <6>2. kind # "create"
              BY <1>3, <2>2
            <6> HIDE DEF kind
            <6>3. a.kind = kind
              BY <2>2, <6>1 DEF OperationOK, Operation
            <6> QED
              BY <6>2, <6>3
          <5>3. Unread.stage = "answered"
            BY DEF Unread, Idle
          <5> QED
            BY <5>1, <5>2, <5>3
        <4> QED
          BY <2>2, <4>1, <4>2
      <3> HIDE DEF a
      <3> QED
        BY <1>1, <1>8, <3>1, <3>2, <3>3, AsideStep
    <2> QED
      BY <2>3, <2>4
  <1> QED
    BY <1>7, <1>8

-----------------------------------------------------------------------------

LEMMA InitInv == Init => Inv
  <1> SUFFICES ASSUME Init PROVE Inv
    OBVIOUS
  <1>1. "new" \in Status /\ "new" \notin Busy
    BY DEF Status, Settled, Busy
  <1>2. SnapshotOK(shown, draft) /\ ~shown.retry /\ shown.status = "new"
    BY <1>1, BlankOK DEF Init, Blank
  <1>3. \A o \in Slots : op[o] = Idle /\ OperationOK(op[o], draft)
    BY IdleOK DEF Init
  <1>4. Idle.kind = "open" /\ ~Idle.fresh /\ Idle.stage = "idle" /\ Idle \in Operation
    BY IdleOK DEF Idle, OperationOK
  <1>5. op \in [Slots -> Operation]
    BY <1>4 DEF Init
  <1>6. draft \in DraftMap
    BY DEF Init, DraftMap
  <1>7. TypeOK
    BY <1>2, <1>5, <1>6, ControllerAssumption DEF Init, TypeOK, SnapshotOK, DraftMap
  <1>8. Homes
    BY DEF Init, Homes
  <1>9. ActiveOK /\ WaitsForSomething /\ Matches(shown, retryable)
    BY <1>1, <1>2 DEF Init, ActiveOK, WaitsForSomething, Displayed, Matches
  <1>10. CreateOK
    BY <1>3, <1>4 DEF CreateOK
  <1>11. Agrees(None)
    BY <1>3, <1>4 DEF Init, Agrees, Blank
  <1> QED
    BY <1>2, <1>3, <1>7, <1>8, <1>9, <1>10, <1>11 DEF Inv, Init

LEMMA NextInv == Inv /\ [Next]_vars => Inv'
  <1> SUFFICES ASSUME Inv, [Next]_vars PROVE Inv'
    OBVIOUS
  <1>1. ASSUME NEW o \in Slots, User(o)
        PROVE  Inv'
    BY <1>1, SelectingInv, TypingInv, RunningInv, CallingInv, ShowCurrentInv DEF User
  <1>2. ASSUME NEW o \in Slots, MainStep(o)
        PROVE  Inv'
    BY <1>2, MainStepInv
  <1>3. ASSUME NEW o \in Slots, WindowStep(o)
        PROVE  Inv'
    BY <1>3, DigestedInv, ReceiveSelectionInv, ReceiveTurnInv, ReceiveRestoredInv,
       ReceiveUndoneInv, ReceivePlainInv, ReceiveSavedInv, PreviewedInv, StaleInv
       DEF WindowStep, Receive
  <1>4. CASE ClearWorkspace \/ Cancelled
    BY <1>4, LeavingInv
  <1>5. CASE UNCHANGED vars
    BY <1>5 DEF vars, window, main, Inv, TypeOK, Homes, Matches, WaitsForSomething, Displayed,
       LiveOK, ActiveOK, CreateOK, Agrees
  <1> QED
    BY <1>1, <1>2, <1>3, <1>4, <1>5, StartedInv, BuildUnboundInv, CancelInv DEF Next

(* All that still counts is about one project: what main has selected, the  *)
(* operation with the epoch and what can be cancelled, whatever operations  *)
(* were left under way (run(), openProject(), saveDraft()).                 *)
THEOREM InvCorrect == Spec => []Inv
  <1>1. Init => Inv
    BY InitInv
  <1>2. Inv /\ [Next]_vars => Inv'
    BY NextInv
  <1> QED
    BY <1>1, <1>2, PTL DEF Spec

(* The state of the window and of the main process is well formed.          *)
THEOREM TypeCorrect == Spec => []TypeOK
  <1>1. Inv => TypeOK
    BY DEF Inv
  <1> QED
    BY <1>1, InvCorrect, PTL

(* For any number of operations under way, a turn runs in the project that  *)
(* the window showed, or was sent when the user had gone elsewhere          *)
(* (submit(), openProject(), trackedGenerationOperation()).                 *)
THEOREM RunsCorrect == Spec => []RunsWhereShown
  <1>1. Inv => RunsWhereShown
    BY DEF Inv, OperationOK, RunsWhereShown
  <1> QED
    BY <1>1, InvCorrect, PTL

(* What is offered to be tried again can be (retryGenerate()).              *)
THEOREM RetryCorrect == Spec => []RetryIsPossible
  <1>1. Inv => RetryIsPossible
    BY DEF Inv, Matches, RetryIsPossible
  <1> QED
    BY <1>1, InvCorrect, PTL

(* While the window is busy, what it waits for is under way (run(),         *)
(* openProject(), cancel(), withPreview()).                                 *)
THEOREM WaitsCorrect == Spec => []WaitsForSomething
  <1>1. Inv => WaitsForSomething
    BY DEF Inv
  <1> QED
    BY <1>1, InvCorrect, PTL
=============================================================================
