------------------------- MODULE ProjectController -------------------------
(***************************************************************************)
(* The window's project controller against the main process                *)
(* (src/src/features/builder/application/builderProjectController.ts, and   *)
(* the selection in src/electron/builder-generation-ipc-runtime.cjs).       *)
(*                                                                         *)
(* Every button starts an operation that awaits the main process and then  *)
(* publishes a snapshot.  An operation cannot be called back: when the user *)
(* opens another project it goes on, and finds at its end that the epoch is *)
(* no longer its own.  The main process keeps a second epoch, of what it has *)
(* selected, and what the window asks for runs in the project selected     *)
(* there.  "live" is the operation whose epoch is the controller's, and     *)
(* "fresh" marks the operations whose epoch is the main process's.          *)
(***************************************************************************)
EXTENDS Naturals

CONSTANTS
    Projects,
    Bound,        \* the projects that have a folder when the window opens
    Drafts,
    Slots,        \* bound: operations under way at once
    None

ASSUME ControllerAssumption ==
    /\ Bound \subseteq Projects
    /\ None \notin Projects \cup Drafts \cup Slots

VARIABLES
    shown,        \* the controller's snapshot
    live,         \* the operation in inFlight, whose epoch is the current one
    active,       \* activeGeneration
    retryable,    \* retryableGeneration
    cancelling,   \* the run of activeGeneration was cancelled, cancel() is
                  \* still to hear of it
    op,           \* the operations under way
    selected,     \* main: selectedProjectId
    pending,      \* main: selectionPending
    bound,        \* main: the projects with a folder
    revision,     \* main: each project's current revision, 0 when it has none
    draft         \* main: the drafts

window == <<shown, live, active, retryable, cancelling>>
main == <<selected, pending, bound, revision, draft>>
vars == <<window, op, main>>

(* preview_unavailable stands with ready and draft_ready, answer_failed with *)
(* submit_failed: no button tells them apart.                               *)
Settled == {"new", "ready", "draft_ready", "submit_failed", "generation_failed"}
Doubtful == {"save_unknown", "reject_failed", "conflict"}
Busy == {"opening", "answering", "submitting", "generating", "restoring",
         "rejecting", "saving"}
Status == Settled \cup Doubtful \cup Busy \cup {"unavailable"}

Selections == {"open", "new", "create", "reopen"}
Builds == {"submit", "continue", "generate", "approved"}
Turns == Builds \cup {"answer", "proposePlan"}
Plain == {"restoreDraft", "inspect", "reject", "reload"}
Kinds == Selections \cup Turns \cup
         Plain \cup {"restoreRevision", "undo", "showCurrent", "save"}

Snapshot == [status : Status, project : Projects \cup {None}, saved : Nat,
             draft : Drafts \cup {None}, inspected : BOOLEAN, retry : BOOLEAN]

(* A request is an object, and never null.                                  *)
ASSUME RequestAssumption ==
    /\ None \notin [kind : Builds, target : Projects]
    /\ None \notin [slot : Slots \cup {None}, known : BOOLEAN,
                    target : Projects, before : Snapshot]

Result == [is : {"none", "failed", "retryable", "answered", "draft", "done", "baseline"},
           draft : Drafts \cup {None}, base : Nat, saved : Nat]

Operation == [kind : Kinds, stage : {"idle", "digest", "asked", "answered", "preview"},
              target : Projects \cup {None}, draft : Drafts \cup {None},
              before : Snapshot, ran : Projects \cup {None}, base : Nat,
              fresh : BOOLEAN, late : BOOLEAN, result : Result]

Blank(status) ==
    [status |-> status, project |-> None, saved |-> 0, draft |-> None,
     inspected |-> FALSE, retry |-> FALSE]

NoResult == [is |-> "none", draft |-> None, base |-> 0, saved |-> 0]

Idle == [kind |-> "open", stage |-> "idle", target |-> None, draft |-> None,
         before |-> Blank("new"), ran |-> None, base |-> 0, fresh |-> FALSE,
         late |-> FALSE, result |-> NoResult]

Pending(d) == draft[d].state = "pending"

TypeOK ==
    /\ shown \in Snapshot
    /\ live \in Slots \cup {None}
    /\ active = None \/ active \in [slot : Slots \cup {None}, known : BOOLEAN,
                                    target : Projects, before : Snapshot]
    /\ retryable = None \/ retryable \in [kind : Builds, target : Projects]
    /\ cancelling \in BOOLEAN
    /\ op \in [Slots -> Operation]
    /\ selected \in Projects \cup {None}
    /\ pending \in BOOLEAN
    /\ bound \in SUBSET Projects
    /\ revision \in [Projects -> Nat]
    /\ draft \in [Drafts -> [state : {"unborn", "pending", "saved", "gone"},
                             home : Projects \cup {None}, base : Nat]]

Init ==
    /\ shown = Blank("new")
    /\ live = None
    /\ active = None
    /\ retryable = None
    /\ cancelling = FALSE
    /\ op = [o \in Slots |-> Idle]
    /\ selected = None
    /\ pending = FALSE
    /\ bound = Bound
    /\ revision = [p \in Projects |-> 0]
    /\ draft = [d \in Drafts |-> [state |-> "unborn", home |-> None, base |-> 0]]

-----------------------------------------------------------------------------
(* What the controller publishes *)

Displayed == shown.status \notin Busy

Published(status) ==
    [shown EXCEPT !.status = status, !.retry = FALSE]

(* Most buttons work on a settled project without an inspected revision.    *)
Usable ==
    /\ live = None
    /\ shown.status \in Settled
    /\ ~shown.inspected
    /\ shown.project # None

Settle(before) ==
    [before EXCEPT !.status = IF before.draft = None THEN "ready" ELSE "draft_ready",
                   !.retry = FALSE]

(* Mutant: the button to try again stays. *)
WithRetry == shown

WithoutRetry == [shown EXCEPT !.retry = FALSE]

-----------------------------------------------------------------------------
(* How an operation starts: run() and the call of the main process          *)

NextSlot(o) == op[o].stage = "idle"

Operates(kind, target, d, before) ==
    [Idle EXCEPT !.kind = kind, !.target = target, !.draft = d, !.before = before]

(* An operation that was left goes on.  Its answer will be of no use; what  *)
(* is kept of it is what it may still do in the main process.               *)
Unread == [Idle EXCEPT !.stage = "answered"]

MayChangeMain(r) ==
    \/ r.kind \in {"open", "reopen", "create", "reject", "save"}
    \/ r.kind \in Builds \cup {"restoreRevision", "undo"} /\ r.ran # None

Left(r) ==
    CASE r.stage \in {"idle", "digest"} -> r
      [] r.stage = "asked" /\ MayChangeMain(r) ->
            [r EXCEPT !.before = Blank("new"),
                      !.kind = CASE @ = "generate" -> "submit"
                                 [] @ = "reopen" -> "open"
                                 [] OTHER -> @]
      [] OTHER -> Unread

(* openProject() and createLocalProject() in the main process: nothing is   *)
(* selected until the last of them has an answer.                           *)
AskToSelect(o, r, others) ==
    /\ op' = [q \in Slots |-> IF q = o THEN [r EXCEPT !.stage = "asked", !.fresh = TRUE]
                              ELSE [others[q] EXCEPT !.fresh = FALSE]]
    /\ selected' = None
    /\ pending' = (r.kind # "new")
    /\ UNCHANGED <<bound, revision, draft>>

Says(is) == [NoResult EXCEPT !.is = is]

(* Everything else finds the selection as it is when the call arrives; a    *)
(* save is refused while it is pending.                                     *)
Asked(r) ==
    LET ran == IF pending \/ r.kind \in Plain THEN None ELSE selected
    IN  IF pending /\ r.kind = "save"
        THEN [r EXCEPT !.stage = "answered", !.result = Says("failed")]
        ELSE [r EXCEPT !.stage = "asked", !.ran = ran, !.fresh = (r.kind = "save"),
                       !.base = IF ran = None THEN 0 ELSE revision[ran]]

Ask(o, r) ==
    /\ op' = [op EXCEPT ![o] = Asked(r)]
    /\ UNCHANGED main

Select(o, kind, target, snapshot) ==
    /\ NextSlot(o)
    /\ live' = o
    /\ active' = None
    /\ retryable' = None
    /\ cancelling' = FALSE
    /\ shown' = snapshot
    /\ AskToSelect(o, Operates(kind, target, None, Blank("new")),
                   [q \in Slots |-> Left(op[q])])

Open(o) ==
    \E p \in bound : Select(o, "open", p, Published("opening"))

OpenNone(o) == Select(o, "new", None, Blank("opening"))

Create(o) ==
    /\ Displayed
    /\ shown.draft = None
    /\ ~shown.inspected
    /\ Select(o, "create", None, Blank("opening"))

(* clearWorkspaceSelection() does not tell the main process.                *)
ClearWorkspace ==
    /\ Displayed
    /\ shown.draft = None
    /\ ~shown.inspected
    /\ shown.project # None
    /\ live' = None
    /\ active' = None
    /\ retryable' = None
    /\ cancelling' = FALSE
    /\ shown' = Blank("new")
    /\ op' = [o \in Slots |-> Left(op[o])]
    /\ UNCHANGED main

(* answer(), submit(), generate() and proposePlan() first digest what was   *)
(* typed.                                                                   *)
Type(o, kind, status) ==
    /\ Usable
    /\ NextSlot(o)
    /\ live' = o
    /\ retryable' = None
    /\ shown' = Published(status)
    /\ op' = [op EXCEPT ![o] = [Operates(kind, shown.project, shown.draft, WithoutRetry)
                                EXCEPT !.stage = "digest"]]
    /\ UNCHANGED <<active, cancelling, main>>

Answer(o) == Type(o, "answer", "answering")

Submit(o) ==
    Type(o, IF shown.draft = None THEN "submit" ELSE "continue", "submitting")

Generate(o) == shown.draft = None /\ Type(o, "generate", "generating")

ProposePlan(o) ==
    /\ shown.draft = None
    /\ shown.status # "new"
    /\ Type(o, "proposePlan", "submitting")

(* Without a folder there is nothing to build in.                           *)
BuildUnbound ==
    /\ live = None
    /\ shown.status \in Settled
    /\ shown.project = None
    /\ retryable' = None
    /\ \E status \in {"submit_failed", "generation_failed"} : shown' = Blank(status)
    /\ UNCHANGED <<live, active, cancelling, op, main>>

(* The digest is there, and nobody asks whether the epoch still is.  A       *)
(* request of another project than the selected one cannot be cancelled:    *)
(* its digest is not the one of the run.                                    *)
Digested(o) ==
    /\ op[o].stage = "digest"
    /\ LET r == Asked(op[o])
           late == live # o
           cancellable == late => r.ran = r.target
       IN  /\ op' = [op EXCEPT ![o] =
                        IF ~late THEN r
                        ELSE IF cancellable
                        THEN [r EXCEPT !.late = TRUE, !.before = Blank("new")]
                        ELSE Left([r EXCEPT !.late = TRUE])]
           /\ active' = IF cancellable
                        THEN [slot |-> o, known |-> TRUE, target |-> op[o].target,
                              before |-> op[o].before]
                        ELSE None
    /\ cancelling' = FALSE
    /\ UNCHANGED <<shown, live, retryable, main>>

(* The request of an approved plan has no digest here: its run is known     *)
(* when the main process says that it has started.                          *)
Run(o, kind, before) ==
    /\ NextSlot(o)
    /\ live' = o
    /\ shown' = Published(IF kind = "submit" THEN "submitting" ELSE "generating")
    /\ active' = [slot |-> IF kind = "approved" THEN None ELSE o,
                  known |-> kind # "approved",
                  target |-> shown.project, before |-> before]
    /\ cancelling' = FALSE
    /\ Ask(o, Operates(kind, shown.project, None, before))

GenerateApprovedPlan(o) ==
    /\ Usable
    /\ shown.status = "ready"
    /\ retryable' = None
    /\ Run(o, "approved", WithoutRetry)

RetryGenerate(o) ==
    /\ Usable
    /\ shown.draft = None
    /\ retryable # None
    /\ retryable.target = shown.project
    /\ shown.status = IF retryable.kind = "submit" THEN "submit_failed"
                      ELSE "generation_failed"
    /\ UNCHANGED retryable
    /\ Run(o, retryable.kind, shown)

(* The operations on drafts and versions                                    *)
Call(o, kind, d, snapshot) ==
    /\ live = None
    /\ NextSlot(o)
    /\ live' = o
    /\ shown' = snapshot
    /\ Ask(o, Operates(kind, shown.project, d, shown))
    /\ UNCHANGED <<active, retryable, cancelling>>

RestoreDraft(o) ==
    /\ shown.status \in {"ready", "generation_failed"}
    /\ shown.draft = None
    /\ ~shown.inspected
    /\ \E d \in Drafts :
        /\ draft[d].home = shown.project
        /\ shown.project # None
        /\ Call(o, "restoreDraft", d, Published("restoring"))

RestoreRevision(o) ==
    /\ shown.status \in {"ready", "generation_failed"}
    /\ shown.draft = None
    /\ shown.saved > 1
    /\ Call(o, "restoreRevision", None, Published("restoring"))

Undo(o) ==
    /\ shown.status \in {"draft_ready", "generation_failed"}
    /\ shown.draft # None
    /\ Call(o, "undo", shown.draft, Published("restoring"))

InspectRevision(o) ==
    /\ Displayed
    /\ shown.draft = None
    /\ shown.saved > 1
    /\ Call(o, "inspect", None, Published("opening"))

ShowCurrent(o) ==
    /\ Displayed
    /\ shown.inspected
    /\ live = None
    /\ NextSlot(o)
    /\ live' = o
    /\ op' = [op EXCEPT ![o] =
                [Operates("showCurrent", shown.project, None, shown) EXCEPT
                    !.stage = "preview", !.result.saved = shown.saved]]
    /\ UNCHANGED <<shown, active, retryable, cancelling, main>>

Reject(o) ==
    /\ Displayed
    /\ shown.draft # None
    /\ Call(o, "reject", shown.draft, Published("rejecting"))

Save(o) ==
    /\ Displayed
    /\ shown.draft # None
    /\ Call(o, "save", shown.draft, Published("saving"))

-----------------------------------------------------------------------------
(* cancel(): main ends the run of that digest, if it still is one           *)

Cancel ==
    /\ active # None
    /\ active.known
    /\ active.slot # None
    /\ ~cancelling
    /\ LET o == active.slot
       IN  /\ op[o].stage = "asked"
           /\ op[o].ran = op[o].target
           /\ op' = [op EXCEPT ![o].stage = "answered", ![o].result.is = "failed"]
    /\ cancelling' = TRUE
    /\ UNCHANGED <<shown, live, active, retryable, main>>

(* ... and the controller goes back, when activeGeneration is still the     *)
(* object it was.                                                           *)
Cancelled ==
    /\ cancelling
    /\ cancelling' = FALSE
    /\ live' = None
    /\ active' = None
    /\ shown' = active.before
    /\ op' = [q \in Slots |-> Left(op[q])]
    /\ UNCHANGED <<retryable, main>>

(* subscribeStarted(): an approved plan's request learns which run is its.  *)
Started(o) ==
    /\ active # None
    /\ ~active.known
    /\ ~Displayed
    /\ op[o].kind \in Turns
    /\ op[o].stage \in {"asked", "answered"}
    /\ op[o].ran = active.target
    /\ op[o].ran = shown.project
    /\ active' = [active EXCEPT !.slot = o, !.known = TRUE]
    /\ cancelling' = FALSE
    /\ UNCHANGED <<shown, live, retryable, op, main>>

-----------------------------------------------------------------------------
(* What the main process answers *)

Answered(o, r) ==
    IF live = o THEN [op[o] EXCEPT !.stage = "answered", !.result = r] ELSE Unread

Answers(o, r) == op' = [op EXCEPT ![o] = Answered(o, r)]

(* The handlers refuse a project that is not the one they have selected.    *)
Admitted(o) ==
    /\ op[o].ran # None
    /\ op[o].kind \in {"continue", "approved", "restoreRevision", "undo"}
          => op[o].ran = op[o].target

MainFails(o) ==
    /\ op[o].stage = "asked"
    /\ op[o].kind \notin {"open", "reopen", "new", "create"}
    /\ \/ Answers(o, Says("failed"))
       \/ /\ op[o].kind \in Builds
          /\ Admitted(o)
          /\ Answers(o, Says("retryable"))
    /\ UNCHANGED main

MainAnswers(o) ==
    /\ op[o].stage = "asked"
    /\ op[o].kind \in Turns
    /\ Admitted(o)
    /\ Answers(o, Says("answered"))
    /\ UNCHANGED main

Gone == [state |-> "gone", home |-> None, base |-> 0]

Draws(o, d, before, base) ==
    /\ draft[d].state = "unborn"
    /\ draft' = [before EXCEPT ![d] = [state |-> "pending", home |-> op[o].ran,
                                       base |-> base]]
    /\ Answers(o, [NoResult EXCEPT !.is = "draft", !.draft = d, !.base = base])
    /\ UNCHANGED <<selected, pending, bound, revision>>

(* A build, or an older version taken up again: a new draft.  A draft that  *)
(* was continued is replaced by it, and so is one whose last change is      *)
(* undone.                                                                  *)
MainDrafts(o) ==
    /\ op[o].stage = "asked"
    /\ Admitted(o)
    /\ \E d \in Drafts :
        \/ /\ op[o].kind \in {"submit", "generate", "approved", "restoreRevision"}
           /\ Draws(o, d, draft, op[o].base)
        \/ /\ op[o].kind \in {"continue", "undo"}
           /\ Pending(op[o].draft)
           /\ Draws(o, d, [draft EXCEPT ![op[o].draft] = Gone],
                    draft[op[o].draft].base)

Decides(o, is) ==
    /\ Pending(op[o].draft)
    /\ draft' = [draft EXCEPT ![op[o].draft] = Gone]
    /\ Answers(o, Says(is))

(* The first change of a draft was undone: back to the project's baseline.  *)
MainUndoesAll(o) ==
    /\ op[o].stage = "asked"
    /\ op[o].kind = "undo"
    /\ Admitted(o)
    /\ Decides(o, "baseline")
    /\ UNCHANGED <<selected, pending, bound, revision>>

MainRejects(o) ==
    /\ op[o].stage = "asked"
    /\ op[o].kind = "reject"
    /\ Decides(o, "done")
    /\ UNCHANGED <<selected, pending, bound, revision>>

MainRestores(o) ==
    /\ op[o].stage = "asked"
    /\ op[o].kind = "restoreDraft"
    /\ Pending(op[o].draft)
    /\ Answers(o, [NoResult EXCEPT !.is = "draft", !.draft = op[o].draft,
                                   !.base = draft[op[o].draft].base])
    /\ UNCHANGED main

(* Mutant: every answer selects. *)
SelectsLate(o, p) ==
    /\ selected' = p
    /\ pending' = FALSE

(* openProject(): only the last selection selects.                          *)
Selects(o, p) ==
    /\ selected' = IF op[o].fresh THEN p ELSE selected
    /\ pending' = (pending /\ ~op[o].fresh)

MainOpens(o) ==
    /\ op[o].stage = "asked"
    /\ op[o].kind \in {"open", "reopen"}
    /\ \/ /\ Selects(o, op[o].target)
          /\ Answers(o, [NoResult EXCEPT !.is = "done", !.saved = revision[op[o].target]])
       \/ /\ Selects(o, None)
          /\ Answers(o, Says("failed"))
    /\ UNCHANGED <<bound, revision, draft>>

MainOpensNone(o) ==
    /\ op[o].stage = "asked"
    /\ op[o].kind = "new"
    /\ Answers(o, Says("done"))
    /\ UNCHANGED main

(* createLocalProject(): the user picks a folder, or none.                  *)
MainCreates(o) ==
    /\ op[o].stage = "asked"
    /\ op[o].kind = "create"
    /\ \/ \E p \in Projects \ bound :
            /\ bound' = bound \cup {p}
            /\ Selects(o, p)
            /\ op' = [op EXCEPT ![o] =
                        IF live = o THEN [@ EXCEPT !.stage = "answered", !.target = p,
                                                   !.result = Says("done")]
                        ELSE Unread]
       \/ /\ Selects(o, None)
          /\ Answers(o, Says("failed"))
          /\ UNCHANGED bound
    /\ UNCHANGED <<revision, draft>>

(* saveDraft(): the save itself is ProjectSave's.  It may fail after it was *)
(* recorded, and a repeated save finds its record.                          *)
MainSaves(o) ==
    /\ op[o].stage = "asked"
    /\ op[o].kind = "save"
    /\ LET d == op[o].draft
           p == draft[d].home
           kept == op[o].fresh /\ selected = op[o].ran
       IN  /\ \/ /\ Pending(d)
                 /\ draft[d].base = revision[p]
                 /\ draft' = [draft EXCEPT ![d].state = "saved"]
                 /\ revision' = [revision EXCEPT ![p] = @ + 1]
              \/ /\ draft[d].state = "saved"
                 /\ UNCHANGED <<draft, revision>>
           /\ \/ /\ op' = [q \in Slots |->
                            IF q = o THEN Answered(q, Says("done"))
                            ELSE [op[q] EXCEPT !.fresh = @ /\ ~kept]]
                 /\ selected' = IF kept THEN p ELSE selected
              \/ /\ Answers(o, Says("failed"))
                 /\ UNCHANGED selected
    /\ UNCHANGED <<pending, bound>>

(* loadCurrent() and loadRevision()                                         *)
MainReads(o) ==
    /\ op[o].stage = "asked"
    /\ op[o].kind \in {"reload", "inspect"}
    /\ Answers(o, [NoResult EXCEPT !.is = "done", !.saved = revision[op[o].target]])
    /\ UNCHANGED main

MainStep(o) ==
    /\ \/ MainFails(o) \/ MainAnswers(o) \/ MainDrafts(o) \/ MainUndoesAll(o)
       \/ MainRejects(o) \/ MainRestores(o) \/ MainOpens(o) \/ MainOpensNone(o)
       \/ MainCreates(o) \/ MainSaves(o) \/ MainReads(o)
    /\ UNCHANGED window

-----------------------------------------------------------------------------
(* The answer arrives *)

Free(o) == op' = [op EXCEPT ![o] = Idle]

(* Mutant: run() forgets what is in flight when any operation ends. *)
StaleForgets(o) ==
    /\ op[o].stage \in {"answered", "preview"}
    /\ live # o
    /\ Free(o)
    /\ active' = IF active # None /\ active.slot = o THEN [active EXCEPT !.slot = None]
                 ELSE active
    /\ live' = None
    /\ UNCHANGED <<shown, retryable, cancelling, main>>

(* A later operation has the epoch: the answer changes nothing that shows.  *)
Stale(o) ==
    /\ op[o].stage \in {"answered", "preview"}
    /\ live # o
    /\ Free(o)
    /\ active' = IF active # None /\ active.slot = o THEN [active EXCEPT !.slot = None]
                 ELSE active
    /\ UNCHANGED <<shown, live, retryable, cancelling, main>>

Arrives(o, kinds) ==
    /\ op[o].stage = "answered"
    /\ op[o].kind \in kinds
    /\ live = o

Shows(o, snapshot) ==
    /\ shown' = snapshot
    /\ live' = None
    /\ Free(o)

(* withPreview() awaits a preview of what it will show.                     *)
Previews(o, saved, d) ==
    /\ op' = [op EXCEPT ![o].stage = "preview", ![o].result =
                [NoResult EXCEPT !.saved = saved, !.draft = d]]
    /\ UNCHANGED <<shown, live>>

Previewed(o) ==
    /\ op[o].stage = "preview"
    /\ live = o
    /\ Shows(o, [status |-> IF op[o].result.draft = None THEN "ready" ELSE "draft_ready",
                 project |-> op[o].target, saved |-> op[o].result.saved,
                 draft |-> op[o].result.draft, inspected |-> op[o].kind = "inspect",
                 retry |-> FALSE])
    /\ UNCHANGED <<active, retryable, cancelling, main>>

Local(p) == [Blank("ready") EXCEPT !.project = p]

ReceiveSelection(o) ==
    /\ Arrives(o, {"open", "new", "create"})
    /\ LET r == op[o].result
       IN  \/ /\ r.is = "done"
              /\ r.saved > 0
              /\ Previews(o, r.saved, None)
           \/ /\ r.is = "done"
              /\ r.saved = 0
              /\ Shows(o, IF op[o].kind = "new" THEN Blank("new") ELSE Local(op[o].target))
           \/ /\ r.is = "failed"
              /\ Shows(o, Blank(IF op[o].kind = "open" THEN "unavailable" ELSE "new"))
    /\ UNCHANGED <<active, retryable, cancelling, main>>

(* clearActiveGeneration(), clearProjectGeneration()                        *)
ClearActive(o) ==
    LET its == /\ active # None
               /\ IF op[o].kind = "approved" THEN active.target = op[o].target
                  ELSE active.slot = o
    IN  /\ active' = IF its THEN None ELSE active
        /\ cancelling' = (cancelling /\ ~its)

FailedStatus(kind) ==
    IF kind \in {"answer", "submit", "continue", "proposePlan"} THEN "submit_failed"
    ELSE "generation_failed"

(* submitFailureDiagnostic(), generationFailureDiagnostic(): only what the  *)
(* main process calls retryable is kept, and never a continued draft.       *)
TurnFails(o, again) ==
    LET kept == again /\ op[o].kind # "continue"
    IN  /\ retryable' = IF op[o].kind \in {"answer", "proposePlan"} THEN retryable
                        ELSE IF kept THEN [kind |-> op[o].kind, target |-> op[o].target]
                        ELSE None
        /\ Shows(o, [op[o].before EXCEPT !.status = FailedStatus(op[o].kind),
                                         !.retry = kept])

(* What comes back must be of the request, and a draft of the base shown.   *)
ReceiveTurn(o) ==
    /\ Arrives(o, Turns)
    /\ ClearActive(o)
    /\ LET r == op[o].result
           its == op[o].ran = op[o].target
       IN  \/ /\ r.is = "answered" /\ its
              /\ Shows(o, Settle(op[o].before))
              /\ retryable' = IF op[o].kind \in Builds THEN None ELSE retryable
           \/ /\ r.is = "draft" /\ its
              /\ r.base = op[o].before.saved
              /\ Previews(o, op[o].before.saved, r.draft)
              /\ retryable' = None
           \/ /\ \/ r.is = "failed"
                 \/ r.is \in {"answered", "draft"} /\ ~its
                 \/ r.is = "draft" /\ r.base # op[o].before.saved
              /\ TurnFails(o, FALSE)
           \/ /\ r.is = "retryable"
              /\ TurnFails(o, TRUE)
    /\ UNCHANGED main

(* A recovered draft may bring its base with it; any other must be of the   *)
(* base shown.                                                              *)
ReceiveRestored(o) ==
    /\ Arrives(o, {"restoreDraft", "restoreRevision"})
    /\ LET r == op[o].result
           b == op[o].before
       IN  \/ /\ r.is = "draft"
              /\ \E saved \in {b.saved} \cup
                        (IF op[o].kind = "restoreDraft" /\ b.saved = 0
                         THEN {revision[op[o].target]} ELSE {}) :
                    /\ saved = r.base
                    /\ Previews(o, saved, r.draft)
              /\ retryable' = None
           \/ /\ r.is = "draft" => r.base # b.saved
              /\ Shows(o, b)
              /\ UNCHANGED retryable
    /\ UNCHANGED <<active, cancelling, main>>

(* withPreview() publishes nothing when there is nothing to preview.        *)
PreviewsSaved(o) ==
    IF op[o].before.saved = 0
    THEN Shows(o, shown)
    ELSE Previews(o, op[o].before.saved, None)

ReceiveUndone(o) ==
    /\ Arrives(o, {"undo"})
    /\ LET r == op[o].result
           b == op[o].before
       IN  \/ /\ r.is = "baseline"
              /\ PreviewsSaved(o)
              /\ retryable' = None
           \/ /\ r.is = "draft"
              /\ r.base = b.saved
              /\ Previews(o, b.saved, r.draft)
              /\ retryable' = None
           \/ /\ \/ r.is = "failed"
                 \/ r.is = "draft" /\ r.base # b.saved
              /\ Shows(o, [b EXCEPT !.status = "generation_failed", !.retry = FALSE])
              /\ UNCHANGED retryable
    /\ UNCHANGED <<active, cancelling, main>>

ReceiveRejected(o) ==
    /\ Arrives(o, {"reject"})
    /\ LET b == op[o].before
       IN  \/ /\ op[o].result.is = "done"
              /\ IF b.saved = 0 THEN Shows(o, Local(b.project))
                 ELSE Previews(o, b.saved, None)
           \/ /\ op[o].result.is = "failed"
              /\ Shows(o, [b EXCEPT !.status = "reject_failed", !.retry = FALSE])
    /\ UNCHANGED <<active, retryable, cancelling, main>>

(* save(): after a success the current version is read back; after a        *)
(* failure the project is opened to see whether the draft is in it.         *)
ReceiveSaved(o) ==
    /\ Arrives(o, {"save"})
    /\ IF op[o].result.is = "done"
       THEN Ask(o, [op[o] EXCEPT !.kind = "reload", !.result = NoResult])
       ELSE AskToSelect(o, [op[o] EXCEPT !.kind = "reopen", !.result = NoResult], op)
    /\ UNCHANGED window

SavedDraft(o, saved) ==
    /\ draft[op[o].draft].state = "saved"
    /\ saved = draft[op[o].draft].base + 1

ReceiveReadBack(o) ==
    /\ Arrives(o, {"reload", "reopen"})
    /\ LET r == op[o].result
           b == op[o].before
           Doubt(status) == Shows(o, [b EXCEPT !.status = status, !.retry = FALSE])
       IN  \/ /\ r.is = "done" /\ SavedDraft(o, r.saved)
              /\ Previews(o, r.saved, None)
           \/ /\ r.is = "done" /\ ~SavedDraft(o, r.saved)
              /\ Doubt(IF op[o].kind = "reload" THEN "conflict" ELSE "save_unknown")
           \/ /\ r.is = "failed"
              /\ Doubt("save_unknown")
    /\ UNCHANGED <<active, retryable, cancelling, main>>

ReceiveInspected(o) ==
    /\ Arrives(o, {"inspect"})
    /\ LET r == op[o].result
           b == op[o].before
       IN  IF r.is = "done" /\ r.saved = b.saved
           THEN Previews(o, b.saved, None)
           ELSE Shows(o, b)
    /\ UNCHANGED <<active, retryable, cancelling, main>>

Receive(o) ==
    \/ ReceiveSelection(o) \/ ReceiveTurn(o) \/ ReceiveRestored(o)
    \/ ReceiveUndone(o) \/ ReceiveRejected(o) \/ ReceiveSaved(o)
    \/ ReceiveReadBack(o) \/ ReceiveInspected(o)

WindowStep(o) == Digested(o) \/ Receive(o) \/ Previewed(o) \/ Stale(o)

User(o) ==
    \/ Open(o) \/ OpenNone(o) \/ Create(o) \/ Answer(o) \/ Submit(o)
    \/ Generate(o) \/ ProposePlan(o) \/ GenerateApprovedPlan(o)
    \/ RetryGenerate(o) \/ RestoreDraft(o) \/ RestoreRevision(o) \/ Undo(o)
    \/ InspectRevision(o) \/ ShowCurrent(o) \/ Reject(o) \/ Save(o)

Next ==
    \/ \E o \in Slots : User(o) \/ MainStep(o) \/ WindowStep(o) \/ Started(o)
    \/ ClearWorkspace \/ BuildUnbound \/ Cancel \/ Cancelled

Spec == Init /\ [][Next]_vars

-----------------------------------------------------------------------------
(* Properties *)

(* A turn that the user started where the window shows a project runs in    *)
(* that project, although the main process takes the project from its own   *)
(* selection and the two follow different epochs; but for a request that    *)
(* was sent when the user had already gone elsewhere (submit(),             *)
(* openProject(), trackedGenerationOperation()).                            *)
RunsWhereShown ==
    \A o \in Slots :
        op[o].stage # "idle" /\ op[o].kind \in Turns /\ ~op[o].late /\ op[o].ran # None
            => op[o].ran = op[o].target

(* While the window offers to try again, the request to try again with is   *)
(* kept, it is of the project shown and of the kind of the failure          *)
(* (retryGenerate(), withoutRetryableGeneration()).                         *)
RetryIsPossible ==
    shown.retry =>
        /\ retryable # None
        /\ retryable.target = shown.project
        /\ shown.draft = None
        /\ Displayed => shown.status = FailedStatus(retryable.kind)

(* While the window is busy, and its buttons do nothing, the operation it   *)
(* waits for is under way, however operations were left, cancelled or       *)
(* answered late; but for the undo of the draft of a project with nothing   *)
(* saved, which leaves nothing to show.  Only an undo restores over a       *)
(* draft: both other restorations start without one (run(), openProject(),  *)
(* cancel(), withPreview()).                                                *)
WaitsForSomething ==
    \/ Displayed
    \/ live # None
    \/ shown.status = "restoring" /\ shown.saved = 0 /\ shown.draft # None

(* The same without the exception: an undo of the first draft comes back to *)
(* the user (restorePreviousCheckpointAsDraft()).                           *)
UndoComesBack == Displayed \/ live # None

=============================================================================
