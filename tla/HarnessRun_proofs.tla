--------------------------- MODULE HarnessRun_proofs ---------------------------
(* Proofs about a coding run in its child process: its journal ends once,   *)
(* its outcome is its journal's, and it leaves no child behind, whatever    *)
(* the child and the user do, for any number of turns, tools and repairs.   *)
EXTENDS HarnessRun, TLAPS

(* The child is gone, or was told to go, and nothing waits for it.          *)
Told == closed /\ pending = {} /\ (child # "up" \/ doomed)

(* Before the launch nothing of a run exists.                               *)
FreshInv ==
    pc \in {"idle", "resolving"} =>
        /\ child = "none" /\ host = "idle" /\ ladder = "off" /\ forcing = {}
        /\ ~exited /\ ~closed /\ pending = {} /\ notes = <<>>
        /\ \A r \in Requests : answer[r] = "none"
        /\ handler = "free" /\ stop.class = "none" /\ ~registered
        /\ turn = "unborn" /\ ~sealed

(* Who ends the child, and that each way of ending it has told it to go     *)
(* before anybody relies on it.                                             *)
Stops == [class : StopClasses \cup {"none"}, step : {"none", "host", "journal", "done"}]

HostInv ==
    /\ doomed \in BOOLEAN
    /\ host \in {"idle", "starting", "ready", "closing", "closed"} /\ stop \in Stops
    /\ closed => pending = {}
    /\ exited \/ forcing # {} \/ host = "closed" => Told
    /\ host = "closing" /\ ladder = "off" => Told
    /\ ladder = "over" \/ stop.class # "none" \/ pc \in {"deliver", "ended"} => Told
    /\ host = "idle" => pc \in {"idle", "resolving"}
    /\ host = "starting" => pc \in {"initialize", "closing"}
    /\ ladder # "off" => pc \in {"shutdown", "deliver", "stopping", "ended"}
    /\ "start" \in forcing => pc = "closing"
    /\ "shutdown" \in forcing => ladder # "off"
    /\ "stop" \in forcing => stop.class # "none"
    /\ stop.class = "none" <=> stop.step = "none"

(* What is written when the journal is closed, and where the run then is.   *)
JournalInv ==
    /\ terminal \in {<<>>, <<"completed">>, <<"failed">>, <<"cancelled">>}
    /\ terminal # <<>> => sealed
    /\ sealed /\ terminal = <<>> => turn = "unborn"
    /\ turn = "unborn" => ~wrote /\ ~tool /\ terminal = <<>>
    /\ pc \in {"prompt", "settle", "await", "shutdown"} => turn # "unborn"
    /\ terminal = <<"completed">> => pc \in {"deliver", "ended"}
    /\ pc = "deliver" => terminal = <<"completed">>
    /\ result # "none" => pc = "ended"
    /\ stop.step = "done" /\ ~cancelled => sealed
    /\ OutcomeMatchesJournal

Inv == FreshInv /\ HostInv /\ JournalInv

(* A host that is closed by force is told to go at once. *)
LEMMA Forced ==
  ASSUME NEW who, ForceClose(who)
  PROVE  Told' /\ doomed' \in BOOLEAN /\ forcing' = forcing \cup {who}
  BY DEF ForceClose, ClosePeer, Told

(* Stopping a run that was launched: the host goes, or is gone already. *)
LEMMA StopFacts ==
  ASSUME HostInv, NEW class \in StopClasses, StopWith(class), pc \notin {"idle", "resolving"}
  PROVE  /\ Told' /\ doomed' \in BOOLEAN
         /\ stop' \in Stops /\ stop'.class # "none" /\ stop'.step # "none"
         /\ forcing' \in {forcing, forcing \cup {"stop"}}
         /\ host' \in {host, "closing"}
         /\ UNCHANGED <<ladder, exited>>
         /\ stop'.step = "done" => stop.step = "done"
  <1>1. "none" \notin StopClasses
    BY DEF StopClasses
  <1>2. CASE stop.class # "none"
    BY <1>2 DEF StopWith, HostInv, Told, stopVars, processVars, peerVars, hostVars
  <1>3. CASE stop.class = "none" /\ host = "closed"
    BY <1>1, <1>3 DEF StopWith, HostInv, Told, Stops, processVars, peerVars, hostVars
  <1>4. CASE stop.class = "none" /\ host # "closed"
    <2>1. ForceClose("stop") /\ stop' = [class |-> class, step |-> "host"] /\ host' = "closing"
          /\ UNCHANGED <<ladder, exited>>
      BY <1>4 DEF StopWith, HostInv
    <2> QED
      BY <1>1, <2>1, Forced DEF Stops
  <1> QED
    BY <1>2, <1>3, <1>4

(* Asking a ready host, or finding that it is not ready any more. *)
LEMMA AskFacts ==
  ASSUME HostInv, AskPrompt
  PROVE  /\ closed' => pending' = {}
         /\ Told \/ forcing' # forcing => Told'
         /\ doomed' \in BOOLEAN
         /\ forcing' \in {forcing, forcing \cup {"prompt"}}
         /\ UNCHANGED <<host, ladder, exited>>
         /\ pc' = "prompt"
  BY Forced DEF AskPrompt, Ask, HostInv, Told, ForceClose, ClosePeer,
     processVars, peerVars, hostVars

JournalIsKept == UNCHANGED <<turn, tool, wrote, sealed, terminal>>

JournalCloses ==
    /\ ~sealed /\ sealed' = TRUE /\ tool' = FALSE /\ wrote' = wrote
    /\ \/ turn = "unborn" /\ turn' = turn /\ terminal' = terminal
       \/ turn # "unborn" /\ turn' # "unborn" /\ terminal' \in {<<"failed">>, <<"cancelled">>}

(* Closing a journal leaves one that is closed, or that refuses, as it is. *)
LEMMA RunFailed ==
  ASSUME JournalInv, NEW class, FailRun(class)
  PROVE  JournalIsKept \/ JournalCloses
  <1>1. CASE sealed \/ Refused(class)
    BY <1>1 DEF FailRun, JournalIsKept, journalVars
  <1>2. CASE ~(sealed \/ Refused(class))
    <2>1. ~sealed /\ terminal = <<>>
      BY <1>2 DEF JournalInv
    <2>2. /\ sealed' = TRUE /\ tool' = FALSE /\ wrote' = wrote
          /\ turn' = IF turn \in {"active", "between"} THEN "settled" ELSE turn
          /\ terminal' = IF turn = "unborn" THEN terminal
                         ELSE Append(terminal, IF class = "cancelled" THEN class ELSE "failed")
      BY <1>2 DEF FailRun
    <2>3. turn # "unborn" => terminal' \in {<<"failed">>, <<"cancelled">>}
      BY <2>1, <2>2
    <2> QED
      BY <2>1, <2>2, <2>3 DEF JournalCloses
  <1> QED
    BY <1>1, <1>2

(* A step before the launch starts nothing but the launch itself. *)
LEMMA FreshStep ==
  ASSUME Inv, Next
  PROVE  FreshInv'
  <1> USE DEF Inv, processVars, peerVars, hostVars, journalVars, noteVars, waitVars,
          stopVars, ownVars, runVars
  <1>1. CASE \E r \in Requests, how \in Answers : ChildAnswers(r, how)
    BY <1>1 DEF FreshInv, HostInv, NoStop, ChildAnswers, Settled, ClosePeer
  <1>2. CASE \E n \in Notes : ChildNotifies(n)
    BY <1>2 DEF FreshInv, HostInv, NoStop, ChildNotifies
  <1>3. CASE ChildBabbles \/ ChildExits \/ PeerSeesEnd
    BY <1>3 DEF FreshInv, HostInv, NoStop, ChildBabbles, ChildExits, PeerSeesEnd,
       ClosePeer
  <1>4. CASE StartRun
    BY <1>4 DEF FreshInv, HostInv, NoStop, StartRun
  <1>5. CASE Cancel
    BY <1>5 DEF FreshInv, HostInv, NoStop, Cancel, StopWith, ForceClose, ClosePeer
  <1>6. CASE Dispose
    BY <1>6 DEF FreshInv, HostInv, NoStop, Dispose, StopWith, ForceClose, ClosePeer
  <1>7. CASE \E r \in Requests : RequestTimesOut(r)
    BY <1>7 DEF FreshInv, HostInv, NoStop, RequestTimesOut
  <1>8. CASE HostSeesExit
    BY <1>8 DEF FreshInv, HostInv, NoStop, HostSeesExit, ClosePeer
  <1>9. CASE HandleNote
    BY <1>9 DEF FreshInv, HostInv, NoStop, HandleNote, Record, Reject, Accepts, Settle
  <1>10. CASE RejectFailsRun
    BY <1>10 DEF FreshInv, HostInv, NoStop, RejectFailsRun, FailRun, Refused, Settle
  <1>11. CASE RejectStopsHost
    BY <1>11 DEF FreshInv, HostInv, NoStop, RejectStopsHost, ForceClose, ClosePeer
  <1>12. CASE RejectForced \/ RejectClosesPeer
    BY <1>12 DEF FreshInv, HostInv, NoStop, RejectForced, RejectClosesPeer, ForceEnds,
       ClosePeer
  <1>13. CASE LaunchHost
    BY <1>13 DEF FreshInv, HostInv, NoStop, LaunchHost, Ask
  <1>14. CASE HostStarted
    BY <1>14 DEF FreshInv, HostInv, NoStop, HostStarted, Taken
  <1>15. CASE HostFailsToStart \/ StartForced
    BY <1>15 DEF FreshInv, HostInv, NoStop, HostFailsToStart, StartForced, ForceClose,
       ForceEnds, ClosePeer
  <1>16. CASE FailStart
    BY <1>16 DEF FreshInv, HostInv, NoStop, FailStart, StopWith, ForceClose, ClosePeer
  <1>17. CASE Begin
    BY <1>17 DEF FreshInv, HostInv, NoStop, Begin, AskPrompt, Ask, ForceClose, ClosePeer
  <1>18. CASE PromptAccepted
    BY <1>18 DEF FreshInv, HostInv, NoStop, PromptAccepted, Taken, Waiting
  <1>19. CASE PromptFails
    BY <1>19 DEF FreshInv, HostInv, PromptFails, Taken, Finish, Requests
  <1>20. CASE PromptForced
    BY <1>20 DEF FreshInv, HostInv, NoStop, PromptForced, ForceEnds, Finish
  <1>21. CASE TurnSettles
    BY <1>21 DEF FreshInv, HostInv, NoStop, TurnSettles, WaitEnds, Waiting
  <1>22. CASE ProcessTerminated \/ IdleFires \/ LimitFires
    BY <1>22 DEF FreshInv, HostInv, NoStop, ProcessTerminated, IdleFires, LimitFires,
       WaitEnds, Waiting
  <1>23. CASE Recover
    BY <1>23 DEF FreshInv, HostInv, NoStop, Recover, PrepareRepair, MayPrepare, Judging,
       AskPrompt, Ask, ForceClose, ClosePeer
  <1>24. CASE StopRun
    BY <1>24 DEF FreshInv, HostInv, NoStop, StopRun, Judging, StopWith, ForceClose,
       ClosePeer
  <1>25. CASE AwaitReconciliation
    BY <1>25 DEF FreshInv, HostInv, NoStop, AwaitReconciliation, Judging
  <1>26. CASE StopForced
    BY <1>26 DEF FreshInv, HostInv, NoStop, StopForced, ForceEnds
  <1>27. CASE StopJournal
    BY <1>27 DEF FreshInv, HostInv, NoStop, StopJournal, FailRun, Refused, Settle
  <1>28. CASE Stopped
    BY <1>28 DEF FreshInv, HostInv, NoStop, Stopped
  <1>29. CASE Repair
    BY <1>29 DEF FreshInv, HostInv, NoStop, Repair, PrepareRepair, MayPrepare,
       AskPrompt, Ask, ForceClose, ClosePeer
  <1>30. CASE ServiceFails
    BY <1>30 DEF FreshInv, HostInv, NoStop, ServiceFails, StopWith, ForceClose,
       ClosePeer
  <1>31. CASE Shutdown
    BY <1>31 DEF FreshInv, HostInv, NoStop, Shutdown, Ask
  <1>32. CASE ShutdownAnswered \/ ExitAwaited
    BY <1>32 DEF FreshInv, HostInv, NoStop, ShutdownAnswered, ExitAwaited, Taken
  <1>33. CASE GraceEnds \/ ShutdownForced
    BY <1>33 DEF FreshInv, HostInv, NoStop, GraceEnds, ShutdownForced, ForceClose,
       ForceEnds, ClosePeer
  <1>34. CASE CompleteRun
    BY <1>34 DEF FreshInv, HostInv, NoStop, CompleteRun
  <1>35. CASE Deliver
    BY <1>35 DEF FreshInv, HostInv, NoStop, Deliver
  <1> QED
    BY <1>1, <1>2, <1>3, <1>4, <1>5, <1>6, <1>7, <1>8, <1>9, <1>10, <1>11, <1>12, <1>13,
       <1>14, <1>15, <1>16, <1>17, <1>18, <1>19, <1>20, <1>21, <1>22, <1>23, <1>24,
       <1>25, <1>26, <1>27, <1>28, <1>29, <1>30, <1>31, <1>32, <1>33, <1>34, <1>35 DEF
       Next, Environment, Builder

(* Every step that ends the child, or relies on its end, has told it to go. *)
LEMMA HostStep ==
  ASSUME Inv, Next
  PROVE  HostInv'
  <1> USE DEF Inv, processVars, peerVars, hostVars, journalVars, noteVars, waitVars,
          stopVars, ownVars, runVars
  <1>1. CASE \E r \in Requests, how \in Answers : ChildAnswers(r, how)
    BY <1>1 DEF HostInv, FreshInv, Told, Stops, NoStop, ChildAnswers, Settled, ClosePeer
  <1>2. CASE \E n \in Notes : ChildNotifies(n)
    BY <1>2 DEF HostInv, FreshInv, Told, Stops, NoStop, ChildNotifies
  <1>3. CASE ChildBabbles \/ ChildExits \/ PeerSeesEnd
    BY <1>3 DEF HostInv, FreshInv, Told, Stops, NoStop, ChildBabbles, ChildExits,
       PeerSeesEnd, ClosePeer
  <1>4. CASE StartRun
    BY <1>4 DEF HostInv, FreshInv, Told, Stops, NoStop, StartRun
  <1>5. CASE Cancel
    <2>1. "cancelled" \in StopClasses
      BY DEF StopClasses
    <2>2. CASE registered /\ pc \in {"prompt", "settle", "await", "shutdown", "stopping"}
      BY <1>5, <2>1, <2>2, StopFacts DEF HostInv, Told, Cancel
    <2>3. CASE ~(registered /\ pc \in {"prompt", "settle", "await", "shutdown", "stopping"})
      BY <1>5, <2>3 DEF HostInv, Told, Cancel
    <2> QED
      BY <2>2, <2>3
  <1>6. CASE Dispose
    <2>1. "cancelled" \in StopClasses
      BY DEF StopClasses
    <2>2. CASE registered
      BY <1>6, <2>1, <2>2, StopFacts DEF HostInv, FreshInv, Told, Dispose
    <2>3. CASE ~registered
      BY <1>6, <2>3 DEF HostInv, Told, Dispose
    <2> QED
      BY <2>2, <2>3
  <1>7. CASE \E r \in Requests : RequestTimesOut(r)
    BY <1>7 DEF HostInv, FreshInv, Told, Stops, NoStop, RequestTimesOut
  <1>8. CASE HostSeesExit
    BY <1>8 DEF HostInv, FreshInv, Told, Stops, NoStop, HostSeesExit, ClosePeer
  <1>9. CASE HandleNote
    BY <1>9 DEF HostInv, FreshInv, Told, Stops, NoStop, HandleNote, Record, Reject,
       Accepts, Settle
  <1>10. CASE RejectFailsRun
    BY <1>10 DEF HostInv, FreshInv, Told, Stops, NoStop, RejectFailsRun, FailRun,
       Refused, Settle
  <1>11. CASE RejectStopsHost
    BY <1>11, Forced DEF HostInv, Told, RejectStopsHost
  <1>12. CASE RejectForced \/ RejectClosesPeer
    BY <1>12 DEF HostInv, FreshInv, Told, Stops, NoStop, RejectForced, RejectClosesPeer,
       ForceEnds, ClosePeer
  <1>13. CASE LaunchHost
    BY <1>13 DEF HostInv, FreshInv, Told, Stops, NoStop, LaunchHost, Ask
  <1>14. CASE HostStarted
    BY <1>14 DEF HostInv, FreshInv, Told, Stops, NoStop, HostStarted, Taken
  <1>15. CASE HostFailsToStart \/ StartForced
    BY <1>15, Forced DEF HostInv, Told, HostFailsToStart, StartForced, ForceEnds
  <1>16. CASE FailStart
    <2>1. "runtime" \in StopClasses
      BY DEF StopClasses
    <2> QED
      BY <1>16, <2>1, StopFacts DEF HostInv, Told, FailStart
  <1>17. CASE Begin
    BY <1>17, AskFacts DEF HostInv, Told, Begin
  <1>18. CASE PromptAccepted
    BY <1>18 DEF HostInv, FreshInv, Told, Stops, NoStop, PromptAccepted, Taken, Waiting
  <1>19. CASE PromptFails
    <2>1. /\ answer["prompt"] \in {"error", "closed"} /\ UNCHANGED <<child, host, ladder, exited, pc, stop>>
          /\ \/ closed /\ closed' = TRUE /\ pending' = {} /\ forcing' = forcing \cup {"prompt"}
                /\ doomed' = (doomed \/ child = "up")
             \/ ~closed /\ UNCHANGED <<pending, closed, forcing, doomed>>
      BY <1>19 DEF PromptFails
    <2>2. Told' \/ ~closed
      BY <2>1 DEF Told
    <2>3. doomed' \in BOOLEAN
      BY <2>1 DEF HostInv
    <2> QED
      BY <2>1, <2>2, <2>3 DEF HostInv, Told
  <1>20. CASE PromptForced
    BY <1>20 DEF HostInv, FreshInv, Told, Stops, NoStop, PromptForced, ForceEnds, Finish
  <1>21. CASE TurnSettles
    BY <1>21 DEF HostInv, FreshInv, Told, Stops, NoStop, TurnSettles, WaitEnds, Waiting
  <1>22. CASE ProcessTerminated \/ IdleFires \/ LimitFires
    BY <1>22 DEF HostInv, FreshInv, Told, Stops, NoStop, ProcessTerminated, IdleFires,
       LimitFires, WaitEnds, Waiting
  <1>23. CASE Recover
    BY <1>23, AskFacts DEF HostInv, Told, Recover, PrepareRepair, Judging
  <1>24. CASE StopRun
    <2>1. Failure \in StopClasses
      BY DEF Failure, StopClasses
    <2> QED
      BY <1>24, <2>1, StopFacts DEF HostInv, Told, StopRun, Judging
  <1>25. CASE AwaitReconciliation
    BY <1>25 DEF HostInv, FreshInv, Told, Stops, NoStop, AwaitReconciliation, Judging
  <1>26. CASE StopForced
    BY <1>26 DEF HostInv, FreshInv, Told, Stops, NoStop, StopForced, ForceEnds
  <1>27. CASE StopJournal
    BY <1>27 DEF HostInv, FreshInv, Told, Stops, NoStop, StopJournal, FailRun, Refused,
       Settle
  <1>28. CASE Stopped
    BY <1>28 DEF HostInv, FreshInv, Told, Stops, NoStop, Stopped
  <1>29. CASE Repair
    BY <1>29, AskFacts DEF HostInv, Told, Repair, PrepareRepair
  <1>30. CASE ServiceFails
    <2>1. "cancelled" \in StopClasses
      BY DEF StopClasses
    <2> QED
      BY <1>30, <2>1, StopFacts DEF HostInv, Told, ServiceFails
  <1>31. CASE Shutdown
    BY <1>31 DEF HostInv, FreshInv, Told, Stops, NoStop, Shutdown, Ask
  <1>32. CASE ShutdownAnswered \/ ExitAwaited
    BY <1>32 DEF HostInv, FreshInv, Told, Stops, NoStop, ShutdownAnswered, ExitAwaited,
       Taken
  <1>33. CASE GraceEnds \/ ShutdownForced
    <2>1. CASE GraceEnds /\ ladder = "wait"
      <3>1. /\ doomed' = (doomed \/ child = "up") /\ ladder' = "eof"
            /\ UNCHANGED <<child, pending, closed, forcing, host, exited, stop, pc>>
        BY <2>1 DEF GraceEnds
      <3>2. doomed' \in BOOLEAN /\ (Told => Told')
        BY <3>1 DEF HostInv, Told
      <3> QED
        BY <2>1, <3>1, <3>2 DEF HostInv, Told
    <2>2. CASE GraceEnds /\ ladder = "eof"
      BY <2>2, Forced DEF HostInv, Told, GraceEnds
    <2>3. CASE ShutdownForced
      BY <2>3 DEF HostInv, Told, ShutdownForced, ForceEnds
    <2> QED
      BY <1>33, <2>1, <2>2, <2>3 DEF GraceEnds
  <1>34. CASE CompleteRun
    BY <1>34 DEF HostInv, FreshInv, Told, Stops, NoStop, CompleteRun
  <1>35. CASE Deliver
    BY <1>35 DEF HostInv, FreshInv, Told, Stops, NoStop, Deliver
  <1> QED
    BY <1>1, <1>2, <1>3, <1>4, <1>5, <1>6, <1>7, <1>8, <1>9, <1>10, <1>11, <1>12, <1>13,
       <1>14, <1>15, <1>16, <1>17, <1>18, <1>19, <1>20, <1>21, <1>22, <1>23, <1>24,
       <1>25, <1>26, <1>27, <1>28, <1>29, <1>30, <1>31, <1>32, <1>33, <1>34, <1>35 DEF
       Next, Environment, Builder

(* Every step that writes the journal finds it open, and closes it once. *)
LEMMA JournalStep ==
  ASSUME Inv, Next
  PROVE  JournalInv'
  <1> USE DEF Inv, processVars, peerVars, hostVars, journalVars, noteVars, waitVars,
          stopVars, ownVars, runVars
  <1>1. CASE \E r \in Requests, how \in Answers : ChildAnswers(r, how)
    BY <1>1 DEF JournalInv, HostInv, FreshInv, OutcomeMatchesJournal, NoStop,
       ChildAnswers, Settled, ClosePeer
  <1>2. CASE \E n \in Notes : ChildNotifies(n)
    BY <1>2 DEF JournalInv, HostInv, FreshInv, OutcomeMatchesJournal, NoStop,
       ChildNotifies
  <1>3. CASE ChildBabbles \/ ChildExits \/ PeerSeesEnd
    BY <1>3 DEF JournalInv, HostInv, FreshInv, OutcomeMatchesJournal, NoStop,
       ChildBabbles, ChildExits, PeerSeesEnd, ClosePeer
  <1>4. CASE StartRun
    BY <1>4 DEF JournalInv, HostInv, FreshInv, OutcomeMatchesJournal, NoStop, StartRun
  <1>5. CASE Cancel
    BY <1>5 DEF JournalInv, HostInv, FreshInv, OutcomeMatchesJournal, NoStop, Cancel,
       StopWith, ForceClose, ClosePeer
  <1>6. CASE Dispose
    BY <1>6 DEF JournalInv, HostInv, FreshInv, OutcomeMatchesJournal, NoStop, Dispose,
       StopWith, ForceClose, ClosePeer
  <1>7. CASE \E r \in Requests : RequestTimesOut(r)
    BY <1>7 DEF JournalInv, HostInv, FreshInv, OutcomeMatchesJournal, NoStop,
       RequestTimesOut
  <1>8. CASE HostSeesExit
    BY <1>8 DEF JournalInv, HostInv, FreshInv, OutcomeMatchesJournal, NoStop,
       HostSeesExit, ClosePeer
  <1>9. CASE HandleNote
    <2> DEFINE n == Head(notes)
               ok == ~sealed /\ ~cancelled /\ Accepts(n)
    <2>1. UNCHANGED <<pc, result, stop, cancelled>> /\ (IF ok THEN Record(n) ELSE Reject)
      BY <1>9 DEF HandleNote
    <2> HIDE DEF n
    <2>2. CASE ~ok
      <3>1. UNCHANGED <<turn, tool, wrote, sealed, terminal>>
        BY <2>1, <2>2 DEF Reject
      <3> QED
        BY <2>1, <3>1 DEF JournalInv, OutcomeMatchesJournal
    <2>3. CASE ok
      <3>1. turn # "unborn" /\ terminal = <<>> /\ ~sealed /\ Record(n)
        BY <2>1, <2>3 DEF Accepts, JournalInv
      <3>2. /\ turn' # "unborn"
            /\ \/ terminal' = <<>> /\ ~sealed'
               \/ terminal' \in {<<"failed">>, <<"cancelled">>} /\ sealed'
        <4>1. CASE n \notin TurnEnds
          BY <3>1, <4>1 DEF Record
        <4>2. CASE n = "completed"
          <5>1. turn' = "settled" /\ sealed' = FALSE /\ terminal' = terminal
            BY <3>1, <4>2 DEF Record, TurnEnds
          <5> QED
            BY <3>1, <5>1
        <4>3. CASE n \in {"aborted", "error"}
          <5>1. /\ turn' = "settled" /\ sealed' = TRUE
                /\ terminal' = Append(terminal, IF n = "error" THEN "failed" ELSE "cancelled")
            BY <3>1, <4>3 DEF Record, TurnEnds
          <5> QED
            BY <3>1, <5>1
        <4> QED
          BY <4>1, <4>2, <4>3 DEF TurnEnds
      <3> QED
        BY <2>1, <3>1, <3>2 DEF JournalInv, OutcomeMatchesJournal
    <2> QED
      BY <2>2, <2>3
  <1>10. CASE RejectFailsRun
    <2>1. UNCHANGED <<pc, result, stop, cancelled>> /\ FailRun("invalid")
      BY <1>10 DEF RejectFailsRun
    <2>2. JournalIsKept \/ JournalCloses
      BY <2>1, RunFailed
    <2> QED
      BY <2>1, <2>2 DEF JournalInv, OutcomeMatchesJournal, JournalIsKept, JournalCloses
  <1>11. CASE RejectStopsHost
    BY <1>11 DEF JournalInv, HostInv, FreshInv, OutcomeMatchesJournal, NoStop,
       RejectStopsHost, ForceClose, ClosePeer
  <1>12. CASE RejectForced \/ RejectClosesPeer
    BY <1>12 DEF JournalInv, HostInv, FreshInv, OutcomeMatchesJournal, NoStop,
       RejectForced, RejectClosesPeer, ForceEnds, ClosePeer
  <1>13. CASE LaunchHost
    BY <1>13 DEF JournalInv, HostInv, FreshInv, OutcomeMatchesJournal, NoStop,
       LaunchHost, Ask
  <1>14. CASE HostStarted
    BY <1>14 DEF JournalInv, HostInv, FreshInv, OutcomeMatchesJournal, NoStop,
       HostStarted, Taken
  <1>15. CASE HostFailsToStart \/ StartForced
    BY <1>15 DEF JournalInv, HostInv, FreshInv, OutcomeMatchesJournal, NoStop,
       HostFailsToStart, StartForced, ForceClose, ForceEnds, ClosePeer
  <1>16. CASE FailStart
    BY <1>16 DEF JournalInv, HostInv, FreshInv, OutcomeMatchesJournal, NoStop,
       FailStart, StopWith, ForceClose, ClosePeer
  <1>17. CASE Begin
    BY <1>17 DEF JournalInv, HostInv, FreshInv, OutcomeMatchesJournal, NoStop, Begin,
       AskPrompt, Ask, ForceClose, ClosePeer
  <1>18. CASE PromptAccepted
    BY <1>18 DEF JournalInv, HostInv, FreshInv, OutcomeMatchesJournal, NoStop,
       PromptAccepted, Taken, Waiting
  <1>19. CASE PromptFails
    BY <1>19 DEF JournalInv, HostInv, FreshInv, OutcomeMatchesJournal, NoStop,
       PromptFails, Taken, Finish
  <1>20. CASE PromptForced
    BY <1>20 DEF JournalInv, HostInv, FreshInv, OutcomeMatchesJournal, NoStop,
       PromptForced, ForceEnds, Finish
  <1>21. CASE TurnSettles
    BY <1>21 DEF JournalInv, HostInv, FreshInv, OutcomeMatchesJournal, NoStop,
       TurnSettles, WaitEnds, Waiting
  <1>22. CASE ProcessTerminated \/ IdleFires \/ LimitFires
    BY <1>22 DEF JournalInv, HostInv, FreshInv, OutcomeMatchesJournal, NoStop,
       ProcessTerminated, IdleFires, LimitFires, WaitEnds, Waiting
  <1>23. CASE Recover
    BY <1>23 DEF JournalInv, HostInv, FreshInv, OutcomeMatchesJournal, NoStop, Recover,
       PrepareRepair, MayPrepare, Judging, AskPrompt, Ask, ForceClose, ClosePeer
  <1>24. CASE StopRun
    BY <1>24 DEF JournalInv, HostInv, FreshInv, OutcomeMatchesJournal, NoStop, StopRun,
       Judging, StopWith, ForceClose, ClosePeer
  <1>25. CASE AwaitReconciliation
    BY <1>25 DEF JournalInv, HostInv, FreshInv, OutcomeMatchesJournal, NoStop,
       AwaitReconciliation, Judging
  <1>26. CASE StopForced
    BY <1>26 DEF JournalInv, HostInv, FreshInv, OutcomeMatchesJournal, NoStop,
       StopForced, ForceEnds
  <1>27. CASE StopJournal
    <2>1. UNCHANGED <<pc, result, cancelled>> /\ FailRun(stop.class)
      BY <1>27 DEF StopJournal
    <2>2. sealed' \/ cancelled
      BY <2>1 DEF FailRun, Refused
    <2>3. JournalIsKept \/ JournalCloses
      BY <2>1, RunFailed
    <2> QED
      BY <2>1, <2>2, <2>3 DEF JournalInv, OutcomeMatchesJournal, JournalIsKept, JournalCloses
  <1>28. CASE Stopped
    BY <1>28 DEF JournalInv, HostInv, FreshInv, OutcomeMatchesJournal, NoStop, Stopped
  <1>29. CASE Repair
    BY <1>29 DEF JournalInv, HostInv, FreshInv, OutcomeMatchesJournal, NoStop, Repair,
       PrepareRepair, MayPrepare, AskPrompt, Ask, ForceClose, ClosePeer
  <1>30. CASE ServiceFails
    BY <1>30 DEF JournalInv, HostInv, FreshInv, OutcomeMatchesJournal, NoStop,
       ServiceFails, StopWith, ForceClose, ClosePeer
  <1>31. CASE Shutdown
    BY <1>31 DEF JournalInv, HostInv, FreshInv, OutcomeMatchesJournal, NoStop, Shutdown,
       Ask
  <1>32. CASE ShutdownAnswered \/ ExitAwaited
    BY <1>32 DEF JournalInv, HostInv, FreshInv, OutcomeMatchesJournal, NoStop,
       ShutdownAnswered, ExitAwaited, Taken
  <1>33. CASE GraceEnds \/ ShutdownForced
    BY <1>33 DEF JournalInv, HostInv, FreshInv, OutcomeMatchesJournal, NoStop,
       GraceEnds, ShutdownForced, ForceClose, ForceEnds, ClosePeer
  <1>34. CASE CompleteRun
    <2>1. CASE sealed \/ cancelled
      BY <1>34, <2>1 DEF JournalInv, HostInv, OutcomeMatchesJournal, CompleteRun
    <2>2. CASE ~(sealed \/ cancelled)
      <3>1. /\ pc = "shutdown" /\ pc' = "deliver" /\ sealed' = TRUE /\ terminal' = <<"completed">>
            /\ UNCHANGED <<turn, tool, wrote, result, cancelled, stop>>
        BY <1>34, <2>2 DEF CompleteRun, JournalInv
      <3> QED
        BY <3>1 DEF JournalInv, OutcomeMatchesJournal
    <2> QED
      BY <2>1, <2>2
  <1>35. CASE Deliver
    BY <1>35 DEF JournalInv, HostInv, FreshInv, OutcomeMatchesJournal, NoStop, Deliver
  <1> QED
    BY <1>1, <1>2, <1>3, <1>4, <1>5, <1>6, <1>7, <1>8, <1>9, <1>10, <1>11, <1>12, <1>13,
       <1>14, <1>15, <1>16, <1>17, <1>18, <1>19, <1>20, <1>21, <1>22, <1>23, <1>24,
       <1>25, <1>26, <1>27, <1>28, <1>29, <1>30, <1>31, <1>32, <1>33, <1>34, <1>35 DEF
       Next, Environment, Builder

(* A program that starts has no run yet. *)
LEMMA InvInit == Init => Inv
  <1> SUFFICES ASSUME Init PROVE Inv
    OBVIOUS
  <1>1. FreshInv
    BY DEF Init, FreshInv, NoStop
  <1>2. HostInv
    BY DEF Init, HostInv, Stops, NoStop
  <1>3. JournalInv
    BY DEF Init, JournalInv, OutcomeMatchesJournal, NoStop
  <1> QED
    BY <1>1, <1>2, <1>3 DEF Inv

(* Every step keeps the invariant. *)
LEMMA InvStep == Inv /\ [Next]_vars => Inv'
  <1> SUFFICES ASSUME Inv, [Next]_vars PROVE Inv'
    OBVIOUS
  <1>1. CASE Next
    BY <1>1, FreshStep, HostStep, JournalStep DEF Inv
  <1>2. CASE UNCHANGED vars
    <2> USE <1>2 DEF Inv, vars, processVars, peerVars, hostVars, journalVars, runVars,
            noteVars, waitVars, stopVars, ownVars
    <2>1. FreshInv'
      BY DEF FreshInv
    <2>2. HostInv'
      BY DEF HostInv, Told
    <2>3. JournalInv'
      BY DEF JournalInv, OutcomeMatchesJournal
    <2> QED
      BY <2>1, <2>2, <2>3
  <1> QED
    BY <1>1, <1>2

-----------------------------------------------------------------------------
(* In every state of a run: nothing exists before the launch, whatever ends *)
(* the child has told it to go before anybody relies on it, and a journal   *)
(* that is closed says how.                                                 *)
THEOREM InvCorrect == Spec => []Inv
  <1> QED
    BY InvInit, InvStep, PTL DEF Spec

(* A run's outcome is its journal's: it finished only if the journal        *)
(* completed, and a recovered candidate's journal was closed without.       *)
THEOREM OutcomeCorrect == Spec => []OutcomeMatchesJournal
  <1>1. Inv => OutcomeMatchesJournal
    BY DEF Inv, JournalInv
  <1> QED
    BY <1>1, InvCorrect, PTL

(* However a run ended, its process is gone or was told to go, and nobody   *)
(* waits for an answer of it.                                               *)
THEOREM NoChildCorrect == Spec => []EndedLeavesNoChild
  <1>1. Inv => EndedLeavesNoChild
    BY DEF Inv, HostInv, Told, EndedLeavesNoChild
  <1> QED
    BY <1>1, InvCorrect, PTL

(* After its terminal event a journal records nothing, whoever was writing: *)
(* the handler, the stop, the repair or the reconciliation.                 *)
THEOREM JournalEndsCorrect == Spec => JournalEndsOnce
  <1>1. Inv /\ [Next]_vars => [terminal # <<>> => UNCHANGED <<turn, tool, wrote, terminal>>]_vars
    <2> SUFFICES ASSUME Inv, Next, terminal # <<>>
                 PROVE  UNCHANGED <<turn, tool, wrote, terminal>>
      OBVIOUS
    <2>1. sealed
      BY DEF Inv, JournalInv
    <2>2. CASE HandleNote
      BY <2>1, <2>2 DEF HandleNote, Reject
    <2>3. CASE RejectFailsRun \/ StopJournal
      BY <2>1, <2>3 DEF RejectFailsRun, StopJournal, FailRun, journalVars
    <2>4. CASE Begin \/ Recover \/ Repair
      BY <2>1, <2>4 DEF Begin, Recover, Repair, MayPrepare
    <2>5. CASE CompleteRun
      BY <2>1, <2>5 DEF CompleteRun, journalVars
    <2>6. CASE Environment
      BY <2>6 DEF Environment, ChildAnswers, ChildNotifies, ChildBabbles, ChildExits, StartRun,
         Cancel, Dispose, journalVars
    <2>7. CASE UNCHANGED journalVars
      BY <2>7 DEF journalVars
    <2>8. Environment \/ HandleNote \/ RejectFailsRun \/ StopJournal \/ Begin \/ Recover
          \/ Repair \/ CompleteRun \/ UNCHANGED journalVars
      BY DEF Next, Builder, PeerSeesEnd, RequestTimesOut, HostSeesExit, RejectStopsHost,
         RejectForced, RejectClosesPeer, LaunchHost, HostStarted, HostFailsToStart,
         StartForced, FailStart, PromptAccepted, PromptFails, PromptForced, TurnSettles,
         ProcessTerminated, IdleFires, LimitFires, WaitEnds, StopRun, AwaitReconciliation,
         StopForced, Stopped, ServiceFails, Shutdown, ShutdownAnswered, ExitAwaited,
         GraceEnds, ShutdownForced, Deliver, ForceEnds
    <2> QED
      BY <2>2, <2>3, <2>4, <2>5, <2>6, <2>7, <2>8
  <1> QED
    BY <1>1, InvCorrect, PTL DEF Spec, JournalEndsOnce

-----------------------------------------------------------------------------
(* What each part of the state may hold. *)
ProcessType ==
    /\ child \in {"none", "up", "gone"} /\ doomed \in BOOLEAN
    /\ work \in {"idle", "asked", "turn", "tool"} /\ asked \subseteq Requests
    /\ turns \in 0 .. MaxTurns /\ tools \in 0 .. MaxTools /\ faults \in 0 .. MaxFaults

PeerType ==
    /\ pending \subseteq Requests /\ closed \in BOOLEAN /\ notes \in Seq(Notes)
    /\ answer \in [Requests -> {"none", "result", "error", "closed", "timeout"}]

HostType ==
    /\ host \in {"idle", "starting", "ready", "closing", "closed"}
    /\ ladder \in {"off", "ask", "wait", "eof", "force", "over"}
    /\ forcing \subseteq {"start", "prompt", "stop", "handler", "shutdown"}
    /\ exited \in BOOLEAN /\ ended \in BOOLEAN

JournalType ==
    /\ turn \in {"unborn", "none", "active", "settled", "between"}
    /\ tool \in BOOLEAN /\ wrote \in BOOLEAN /\ sealed \in BOOLEAN
    /\ terminal \in Seq({"completed", "failed", "cancelled"})
    /\ settlement \in {"open", "completed", "aborted", "failed"}

Flags ==
    /\ rejected \in BOOLEAN /\ armed \in BOOLEAN /\ registered \in BOOLEAN
    /\ cancelled \in BOOLEAN /\ disposed \in BOOLEAN

RunType ==
    /\ Flags
    /\ handler \in {"free", "reject", "stop", "throw"}
    /\ status \in {"none", "starting", "running", "awaiting", "repairing",
                   "stopping", "completed", "failed", "cancelled"}
    /\ attempt \in 1 .. 3 /\ repairs \in 0 .. MaxRepairs
    /\ verdict \in {"none", "completed", "aborted", "failed", "idle", "limit", "host"}
    /\ stop \in Stops
    /\ pc \in {"idle", "resolving", "initialize", "closing", "unstarted", "begin",
               "prompt", "settle", "await", "shutdown", "deliver", "stopping", "ended"}
    /\ result \in {"none", "completed", "recovered", "failed", "cancelled"}

Types == ProcessType /\ PeerType /\ HostType /\ JournalType /\ RunType

(* The parts are the type invariant. *)
LEMMA TypesAre == Types => HTypeOK
  BY DEF Types, HTypeOK, ProcessType, PeerType, HostType, JournalType, RunType, Flags, Stops

(* A request adds itself to those that wait. *)
LEMMA AskType ==
  ASSUME PeerType, NEW r \in Requests, Ask(r)
  PROVE  PeerType'
  BY DEF PeerType, Ask

(* A closed peer has settled every request. *)
LEMMA CloseType ==
  ASSUME PeerType, ClosePeer
  PROVE  PeerType'
  BY DEF PeerType, ClosePeer

(* Failing a run closes its journal with one of its terminal events. *)
LEMMA FailType ==
  ASSUME JournalType, NEW class, FailRun(class)
  PROVE  JournalType'
  <1>1. CASE UNCHANGED journalVars
    BY <1>1 DEF JournalType, journalVars
  <1>2. CASE ~UNCHANGED journalVars
    <2>1. /\ sealed' = TRUE /\ tool' = FALSE /\ wrote' = wrote /\ turn' \in {turn, "settled"}
          /\ terminal' \in {terminal, Append(terminal, IF class = "cancelled" THEN class ELSE "failed")}
          /\ settlement' \in {settlement, "failed"}
      BY <1>2 DEF FailRun, Settle
    <2>2. terminal' \in Seq({"completed", "failed", "cancelled"})
      BY <2>1 DEF JournalType
    <2> QED
      BY <2>1, <2>2 DEF JournalType
  <1> QED
    BY <1>1, <1>2

(* A stop has one of its classes, and the entry is stopping. *)
LEMMA StopType ==
  ASSUME stop \in Stops, NEW class \in StopClasses, StopWith(class)
  PROVE  stop' \in Stops /\ status' \in {status, "stopping"}
  BY DEF StopWith, Stops, stopVars

(* Each part is kept by every step: the child's, with its bounds, ... *)
LEMMA ProcessTypeStep ==
  ASSUME Types, Next
  PROVE  ProcessType'
  <1> USE DEF Types, processVars, peerVars, hostVars, journalVars, noteVars, waitVars,
          stopVars, ownVars, runVars
  <1>1. CASE \E r \in Requests, how \in Answers : ChildAnswers(r, how)
    BY <1>1, HarnessAssumption DEF ProcessType, ChildAnswers, Settled, ClosePeer
  <1>2. CASE \E n \in Notes : ChildNotifies(n)
    BY <1>2, HarnessAssumption DEF ProcessType, ChildNotifies
  <1>3. CASE ChildBabbles \/ ChildExits \/ PeerSeesEnd
    BY <1>3, HarnessAssumption DEF ProcessType, ChildBabbles, ChildExits, PeerSeesEnd,
       ClosePeer
  <1>4. CASE StartRun
    BY <1>4, HarnessAssumption DEF ProcessType, StartRun
  <1>5. CASE Cancel
    BY <1>5, HarnessAssumption DEF ProcessType, Cancel, StopWith, ForceClose, ClosePeer
  <1>6. CASE Dispose
    BY <1>6, HarnessAssumption DEF ProcessType, Dispose, StopWith, ForceClose, ClosePeer
  <1>7. CASE \E r \in Requests : RequestTimesOut(r)
    BY <1>7, HarnessAssumption DEF ProcessType, RequestTimesOut
  <1>8. CASE HostSeesExit
    BY <1>8, HarnessAssumption DEF ProcessType, HostSeesExit, ClosePeer
  <1>9. CASE HandleNote
    BY <1>9, HarnessAssumption DEF ProcessType, HandleNote, Record, Reject, Accepts,
       Settle
  <1>10. CASE RejectFailsRun
    BY <1>10, HarnessAssumption DEF ProcessType, RejectFailsRun, FailRun, Refused,
       Settle
  <1>11. CASE RejectStopsHost
    BY <1>11, HarnessAssumption DEF ProcessType, RejectStopsHost, ForceClose, ClosePeer
  <1>12. CASE RejectForced \/ RejectClosesPeer
    BY <1>12, HarnessAssumption DEF ProcessType, RejectForced, RejectClosesPeer,
       ForceEnds, ClosePeer
  <1>13. CASE LaunchHost
    BY <1>13 DEF ProcessType, Requests, LaunchHost, Ask
  <1>14. CASE HostStarted
    BY <1>14, HarnessAssumption DEF ProcessType, HostStarted, Taken
  <1>15. CASE HostFailsToStart \/ StartForced
    BY <1>15, HarnessAssumption DEF ProcessType, HostFailsToStart, StartForced,
       ForceClose, ForceEnds, ClosePeer
  <1>16. CASE FailStart
    BY <1>16, HarnessAssumption DEF ProcessType, FailStart, StopWith, ForceClose,
       ClosePeer
  <1>17. CASE Begin
    BY <1>17 DEF ProcessType, Requests, Begin, AskPrompt, ForceClose, ClosePeer, Ask
  <1>18. CASE PromptAccepted
    BY <1>18, HarnessAssumption DEF ProcessType, PromptAccepted, Taken, Waiting
  <1>19. CASE PromptFails
    BY <1>19, HarnessAssumption DEF ProcessType, PromptFails, Taken, Finish
  <1>20. CASE PromptForced
    BY <1>20, HarnessAssumption DEF ProcessType, PromptForced, ForceEnds, Finish
  <1>21. CASE TurnSettles
    BY <1>21, HarnessAssumption DEF ProcessType, TurnSettles, WaitEnds, Waiting
  <1>22. CASE ProcessTerminated \/ IdleFires \/ LimitFires
    BY <1>22, HarnessAssumption DEF ProcessType, ProcessTerminated, IdleFires,
       LimitFires, WaitEnds, Waiting
  <1>23. CASE Recover
    BY <1>23 DEF ProcessType, Requests, Recover, AskPrompt, ForceClose, ClosePeer, Ask
  <1>24. CASE StopRun
    BY <1>24, HarnessAssumption DEF ProcessType, StopRun, Judging, StopWith, ForceClose,
       ClosePeer
  <1>25. CASE AwaitReconciliation
    BY <1>25, HarnessAssumption DEF ProcessType, AwaitReconciliation, Judging
  <1>26. CASE StopForced
    BY <1>26, HarnessAssumption DEF ProcessType, StopForced, ForceEnds
  <1>27. CASE StopJournal
    BY <1>27, HarnessAssumption DEF ProcessType, StopJournal, FailRun, Refused, Settle
  <1>28. CASE Stopped
    BY <1>28, HarnessAssumption DEF ProcessType, Stopped
  <1>29. CASE Repair
    BY <1>29 DEF ProcessType, Requests, Repair, AskPrompt, ForceClose, ClosePeer, Ask
  <1>30. CASE ServiceFails
    BY <1>30, HarnessAssumption DEF ProcessType, ServiceFails, StopWith, ForceClose,
       ClosePeer
  <1>31. CASE Shutdown
    BY <1>31 DEF ProcessType, Requests, Shutdown, Ask
  <1>32. CASE ShutdownAnswered \/ ExitAwaited
    BY <1>32, HarnessAssumption DEF ProcessType, ShutdownAnswered, ExitAwaited, Taken
  <1>33. CASE GraceEnds \/ ShutdownForced
    BY <1>33, HarnessAssumption DEF ProcessType, GraceEnds, ShutdownForced, ForceClose,
       ForceEnds, ClosePeer
  <1>34. CASE CompleteRun
    BY <1>34, HarnessAssumption DEF ProcessType, CompleteRun
  <1>35. CASE Deliver
    BY <1>35, HarnessAssumption DEF ProcessType, Deliver
  <1> QED
    BY <1>1, <1>2, <1>3, <1>4, <1>5, <1>6, <1>7, <1>8, <1>9, <1>10, <1>11, <1>12, <1>13,
       <1>14, <1>15, <1>16, <1>17, <1>18, <1>19, <1>20, <1>21, <1>22, <1>23, <1>24,
       <1>25, <1>26, <1>27, <1>28, <1>29, <1>30, <1>31, <1>32, <1>33, <1>34, <1>35 DEF
       Next, Environment, Builder

(* ... the peer's requests and answers, ... *)
LEMMA PeerTypeStep ==
  ASSUME Types, Next
  PROVE  PeerType'
  <1> USE DEF Types, processVars, peerVars, hostVars, journalVars, noteVars, waitVars,
          stopVars, ownVars, runVars
  <1>1. CASE \E r \in Requests, how \in Answers : ChildAnswers(r, how)
    <2>1. PICK r \in Requests, how \in Answers : Settled(r, how)
      BY <1>1 DEF ChildAnswers
    <2>2. CASE ClosePeer
      BY <2>2, CloseType
    <2>3. CASE ~ClosePeer /\ how = "badError"
      BY <2>1, <2>3 DEF Settled, PeerType
    <2>4. CASE ~ClosePeer /\ how # "badError"
      BY <2>1, <2>4 DEF Settled, PeerType, Answers
    <2> QED
      BY <2>2, <2>3, <2>4
  <1>2. CASE \E n \in Notes : ChildNotifies(n)
    BY <1>2 DEF PeerType, ChildNotifies
  <1>3. CASE ChildBabbles \/ ChildExits \/ PeerSeesEnd
    BY <1>3 DEF PeerType, ChildBabbles, ChildExits, PeerSeesEnd,
       ClosePeer
  <1>4. CASE StartRun
    BY <1>4 DEF PeerType, StartRun
  <1>5. CASE Cancel
    BY <1>5 DEF PeerType, Cancel, StopWith, ForceClose, ClosePeer
  <1>6. CASE Dispose
    BY <1>6 DEF PeerType, Dispose, StopWith, ForceClose, ClosePeer
  <1>7. CASE \E r \in Requests : RequestTimesOut(r)
    BY <1>7 DEF PeerType, RequestTimesOut
  <1>8. CASE HostSeesExit
    BY <1>8 DEF PeerType, HostSeesExit, ClosePeer
  <1>9. CASE HandleNote
    BY <1>9 DEF PeerType, HandleNote, Record, Reject, Accepts, Settle
  <1>10. CASE RejectFailsRun
    BY <1>10 DEF PeerType, RejectFailsRun, FailRun, Refused, Settle
  <1>11. CASE RejectStopsHost
    BY <1>11 DEF PeerType, RejectStopsHost, ForceClose, ClosePeer
  <1>12. CASE RejectForced \/ RejectClosesPeer
    BY <1>12 DEF PeerType, RejectForced, RejectClosesPeer, ForceEnds,
       ClosePeer
  <1>13. CASE LaunchHost
    <2>1. UNCHANGED peerVars \/ Ask("initialize")
      BY <1>13 DEF LaunchHost
    <2>2. "initialize" \in Requests
      BY DEF Requests
    <2> QED
      BY <2>1, <2>2, AskType DEF PeerType
  <1>14. CASE HostStarted
    BY <1>14 DEF PeerType, HostStarted, Taken
  <1>15. CASE HostFailsToStart \/ StartForced
    BY <1>15 DEF PeerType, HostFailsToStart, StartForced, ForceClose,
       ForceEnds, ClosePeer
  <1>16. CASE FailStart
    BY <1>16 DEF PeerType, FailStart, StopWith, ForceClose, ClosePeer
  <1>17. CASE Begin
    <2>1. UNCHANGED peerVars \/ ClosePeer \/ Ask("prompt")
      BY <1>17 DEF Begin, AskPrompt, ForceClose
    <2>2. "prompt" \in Requests
      BY DEF Requests
    <2> QED
      BY <2>1, <2>2, AskType, CloseType DEF PeerType
  <1>18. CASE PromptAccepted
    BY <1>18 DEF PeerType, PromptAccepted, Taken, Waiting
  <1>19. CASE PromptFails
    BY <1>19 DEF PeerType, PromptFails, Taken, Finish
  <1>20. CASE PromptForced
    BY <1>20 DEF PeerType, PromptForced, ForceEnds, Finish
  <1>21. CASE TurnSettles
    BY <1>21 DEF PeerType, TurnSettles, WaitEnds, Waiting
  <1>22. CASE ProcessTerminated \/ IdleFires \/ LimitFires
    BY <1>22 DEF PeerType, ProcessTerminated, IdleFires, LimitFires,
       WaitEnds, Waiting
  <1>23. CASE Recover
    <2>1. UNCHANGED peerVars \/ ClosePeer \/ Ask("prompt")
      BY <1>23 DEF Recover, AskPrompt, ForceClose
    <2>2. "prompt" \in Requests
      BY DEF Requests
    <2> QED
      BY <2>1, <2>2, AskType, CloseType DEF PeerType
  <1>24. CASE StopRun
    BY <1>24 DEF PeerType, StopRun, Judging, StopWith, ForceClose,
       ClosePeer
  <1>25. CASE AwaitReconciliation
    BY <1>25 DEF PeerType, AwaitReconciliation, Judging
  <1>26. CASE StopForced
    BY <1>26 DEF PeerType, StopForced, ForceEnds
  <1>27. CASE StopJournal
    BY <1>27 DEF PeerType, StopJournal, FailRun, Refused, Settle
  <1>28. CASE Stopped
    BY <1>28 DEF PeerType, Stopped
  <1>29. CASE Repair
    <2>1. UNCHANGED peerVars \/ ClosePeer \/ Ask("prompt")
      BY <1>29 DEF Repair, AskPrompt, ForceClose
    <2>2. "prompt" \in Requests
      BY DEF Requests
    <2> QED
      BY <2>1, <2>2, AskType, CloseType DEF PeerType
  <1>30. CASE ServiceFails
    BY <1>30 DEF PeerType, ServiceFails, StopWith, ForceClose,
       ClosePeer
  <1>31. CASE Shutdown
    <2>1. UNCHANGED peerVars \/ Ask("shutdown")
      BY <1>31 DEF Shutdown
    <2>2. "shutdown" \in Requests
      BY DEF Requests
    <2> QED
      BY <2>1, <2>2, AskType DEF PeerType
  <1>32. CASE ShutdownAnswered \/ ExitAwaited
    BY <1>32 DEF PeerType, ShutdownAnswered, ExitAwaited, Taken
  <1>33. CASE GraceEnds \/ ShutdownForced
    BY <1>33 DEF PeerType, GraceEnds, ShutdownForced, ForceClose,
       ForceEnds, ClosePeer
  <1>34. CASE CompleteRun
    BY <1>34 DEF PeerType, CompleteRun
  <1>35. CASE Deliver
    BY <1>35 DEF PeerType, Deliver
  <1> QED
    BY <1>1, <1>2, <1>3, <1>4, <1>5, <1>6, <1>7, <1>8, <1>9, <1>10, <1>11, <1>12, <1>13,
       <1>14, <1>15, <1>16, <1>17, <1>18, <1>19, <1>20, <1>21, <1>22, <1>23, <1>24,
       <1>25, <1>26, <1>27, <1>28, <1>29, <1>30, <1>31, <1>32, <1>33, <1>34, <1>35 DEF
       Next, Environment, Builder

(* ... the host's shutdown, ... *)
LEMMA HostTypeStep ==
  ASSUME Types, Next
  PROVE  HostType'
  <1> USE DEF Types, processVars, peerVars, hostVars, journalVars, noteVars, waitVars,
          stopVars, ownVars, runVars
  <1>1. CASE \E r \in Requests, how \in Answers : ChildAnswers(r, how)
    BY <1>1 DEF HostType, ChildAnswers, Settled, ClosePeer
  <1>2. CASE \E n \in Notes : ChildNotifies(n)
    BY <1>2 DEF HostType, ChildNotifies
  <1>3. CASE ChildBabbles \/ ChildExits \/ PeerSeesEnd
    BY <1>3 DEF HostType, ChildBabbles, ChildExits, PeerSeesEnd,
       ClosePeer
  <1>4. CASE StartRun
    BY <1>4 DEF HostType, StartRun
  <1>5. CASE Cancel
    BY <1>5 DEF HostType, Cancel, StopWith, ForceClose, ClosePeer
  <1>6. CASE Dispose
    BY <1>6 DEF HostType, Dispose, StopWith, ForceClose, ClosePeer
  <1>7. CASE \E r \in Requests : RequestTimesOut(r)
    BY <1>7 DEF HostType, RequestTimesOut
  <1>8. CASE HostSeesExit
    BY <1>8 DEF HostType, HostSeesExit, ClosePeer
  <1>9. CASE HandleNote
    BY <1>9 DEF HostType, HandleNote, Record, Reject, Accepts, Settle
  <1>10. CASE RejectFailsRun
    BY <1>10 DEF HostType, RejectFailsRun, FailRun, Refused, Settle
  <1>11. CASE RejectStopsHost
    BY <1>11 DEF HostType, RejectStopsHost, ForceClose, ClosePeer
  <1>12. CASE RejectForced \/ RejectClosesPeer
    BY <1>12 DEF HostType, RejectForced, RejectClosesPeer, ForceEnds,
       ClosePeer
  <1>13. CASE LaunchHost
    BY <1>13 DEF HostType, LaunchHost, Ask
  <1>14. CASE HostStarted
    BY <1>14 DEF HostType, HostStarted, Taken
  <1>15. CASE HostFailsToStart \/ StartForced
    BY <1>15 DEF HostType, HostFailsToStart, StartForced, ForceClose,
       ForceEnds, ClosePeer
  <1>16. CASE FailStart
    BY <1>16 DEF HostType, FailStart, StopWith, ForceClose, ClosePeer
  <1>17. CASE Begin
    BY <1>17 DEF HostType, Begin, AskPrompt, Ask, ForceClose,
       ClosePeer
  <1>18. CASE PromptAccepted
    BY <1>18 DEF HostType, PromptAccepted, Taken, Waiting
  <1>19. CASE PromptFails
    BY <1>19 DEF HostType, PromptFails, Taken, Finish
  <1>20. CASE PromptForced
    BY <1>20 DEF HostType, PromptForced, ForceEnds, Finish
  <1>21. CASE TurnSettles
    BY <1>21 DEF HostType, TurnSettles, WaitEnds, Waiting
  <1>22. CASE ProcessTerminated \/ IdleFires \/ LimitFires
    BY <1>22 DEF HostType, ProcessTerminated, IdleFires, LimitFires,
       WaitEnds, Waiting
  <1>23. CASE Recover
    BY <1>23 DEF HostType, Recover, PrepareRepair, MayPrepare,
       Judging, AskPrompt, Ask, ForceClose, ClosePeer
  <1>24. CASE StopRun
    BY <1>24 DEF HostType, StopRun, Judging, StopWith, ForceClose,
       ClosePeer
  <1>25. CASE AwaitReconciliation
    BY <1>25 DEF HostType, AwaitReconciliation, Judging
  <1>26. CASE StopForced
    BY <1>26 DEF HostType, StopForced, ForceEnds
  <1>27. CASE StopJournal
    BY <1>27 DEF HostType, StopJournal, FailRun, Refused, Settle
  <1>28. CASE Stopped
    BY <1>28 DEF HostType, Stopped
  <1>29. CASE Repair
    BY <1>29 DEF HostType, Repair, PrepareRepair, MayPrepare,
       AskPrompt, Ask, ForceClose, ClosePeer
  <1>30. CASE ServiceFails
    BY <1>30 DEF HostType, ServiceFails, StopWith, ForceClose,
       ClosePeer
  <1>31. CASE Shutdown
    BY <1>31 DEF HostType, Shutdown, Ask
  <1>32. CASE ShutdownAnswered \/ ExitAwaited
    BY <1>32 DEF HostType, ShutdownAnswered, ExitAwaited, Taken
  <1>33. CASE GraceEnds \/ ShutdownForced
    BY <1>33 DEF HostType, GraceEnds, ShutdownForced, ForceClose,
       ForceEnds, ClosePeer
  <1>34. CASE CompleteRun
    BY <1>34 DEF HostType, CompleteRun
  <1>35. CASE Deliver
    BY <1>35 DEF HostType, Deliver
  <1> QED
    BY <1>1, <1>2, <1>3, <1>4, <1>5, <1>6, <1>7, <1>8, <1>9, <1>10, <1>11, <1>12, <1>13,
       <1>14, <1>15, <1>16, <1>17, <1>18, <1>19, <1>20, <1>21, <1>22, <1>23, <1>24,
       <1>25, <1>26, <1>27, <1>28, <1>29, <1>30, <1>31, <1>32, <1>33, <1>34, <1>35 DEF
       Next, Environment, Builder

(* ... the journal's, ... *)
LEMMA JournalTypeStep ==
  ASSUME Types, Next
  PROVE  JournalType'
  <1> USE DEF Types, processVars, peerVars, hostVars, journalVars, noteVars, waitVars,
          stopVars, ownVars, runVars
  <1>1. CASE \E r \in Requests, how \in Answers : ChildAnswers(r, how)
    BY <1>1 DEF JournalType, ChildAnswers, Settled, ClosePeer
  <1>2. CASE \E n \in Notes : ChildNotifies(n)
    BY <1>2 DEF JournalType, ChildNotifies
  <1>3. CASE ChildBabbles \/ ChildExits \/ PeerSeesEnd
    BY <1>3 DEF JournalType, ChildBabbles, ChildExits, PeerSeesEnd,
       ClosePeer
  <1>4. CASE StartRun
    BY <1>4 DEF JournalType, StartRun
  <1>5. CASE Cancel
    BY <1>5 DEF JournalType, Cancel, StopWith, ForceClose, ClosePeer
  <1>6. CASE Dispose
    BY <1>6 DEF JournalType, Dispose, StopWith, ForceClose, ClosePeer
  <1>7. CASE \E r \in Requests : RequestTimesOut(r)
    BY <1>7 DEF JournalType, RequestTimesOut
  <1>8. CASE HostSeesExit
    BY <1>8 DEF JournalType, HostSeesExit, ClosePeer
  <1>9. CASE HandleNote
    <2>1. PICK n \in {Head(notes)} : Record(n) \/ Reject
      BY <1>9 DEF HandleNote
    <2>2. CASE Reject
      BY <2>2 DEF Reject, JournalType
    <2>3. CASE Record(n) /\ n \in TurnEnds
      <3>1. /\ turn' = "settled" /\ sealed' = (n # "completed") /\ tool' = tool /\ wrote' = wrote
            /\ terminal' = IF n = "completed" THEN terminal
                           ELSE Append(terminal, IF n = "error" THEN "failed" ELSE "cancelled")
            /\ settlement' \in {settlement, "completed", "aborted", "failed"}
        BY <2>3 DEF Record, Settle, TurnEnds
      <3>2. terminal' \in Seq({"completed", "failed", "cancelled"})
        BY <3>1 DEF JournalType
      <3> QED
        BY <3>1, <3>2 DEF JournalType
    <2>4. CASE Record(n) /\ n \notin TurnEnds
      BY <2>4 DEF Record, JournalType
    <2> QED
      BY <2>1, <2>2, <2>3, <2>4
  <1>10. CASE RejectFailsRun
    BY <1>10, FailType DEF RejectFailsRun
  <1>11. CASE RejectStopsHost
    BY <1>11 DEF JournalType, RejectStopsHost, ForceClose, ClosePeer
  <1>12. CASE RejectForced \/ RejectClosesPeer
    BY <1>12 DEF JournalType, RejectForced, RejectClosesPeer,
       ForceEnds, ClosePeer
  <1>13. CASE LaunchHost
    BY <1>13 DEF JournalType, LaunchHost, Ask
  <1>14. CASE HostStarted
    BY <1>14 DEF JournalType, HostStarted, Taken
  <1>15. CASE HostFailsToStart \/ StartForced
    BY <1>15 DEF JournalType, HostFailsToStart, StartForced,
       ForceClose, ForceEnds, ClosePeer
  <1>16. CASE FailStart
    BY <1>16 DEF JournalType, FailStart, StopWith, ForceClose,
       ClosePeer
  <1>17. CASE Begin
    BY <1>17 DEF JournalType, Begin, AskPrompt, Ask, ForceClose,
       ClosePeer
  <1>18. CASE PromptAccepted
    BY <1>18 DEF JournalType, PromptAccepted, Taken, Waiting
  <1>19. CASE PromptFails
    BY <1>19 DEF JournalType, PromptFails, Taken, Finish
  <1>20. CASE PromptForced
    BY <1>20 DEF JournalType, PromptForced, ForceEnds, Finish
  <1>21. CASE TurnSettles
    BY <1>21 DEF JournalType, TurnSettles, WaitEnds, Waiting
  <1>22. CASE ProcessTerminated \/ IdleFires \/ LimitFires
    BY <1>22 DEF JournalType, ProcessTerminated, IdleFires,
       LimitFires, WaitEnds, Waiting
  <1>23. CASE Recover
    BY <1>23 DEF JournalType, Recover, PrepareRepair, MayPrepare,
       Judging, AskPrompt, Ask, ForceClose, ClosePeer
  <1>24. CASE StopRun
    BY <1>24 DEF JournalType, StopRun, Judging, StopWith, ForceClose,
       ClosePeer
  <1>25. CASE AwaitReconciliation
    BY <1>25 DEF JournalType, AwaitReconciliation, Judging
  <1>26. CASE StopForced
    BY <1>26 DEF JournalType, StopForced, ForceEnds
  <1>27. CASE StopJournal
    BY <1>27, FailType DEF StopJournal
  <1>28. CASE Stopped
    BY <1>28 DEF JournalType, Stopped
  <1>29. CASE Repair
    BY <1>29 DEF JournalType, Repair, PrepareRepair, MayPrepare,
       AskPrompt, Ask, ForceClose, ClosePeer
  <1>30. CASE ServiceFails
    BY <1>30 DEF JournalType, ServiceFails, StopWith, ForceClose,
       ClosePeer
  <1>31. CASE Shutdown
    BY <1>31 DEF JournalType, Shutdown, Ask
  <1>32. CASE ShutdownAnswered \/ ExitAwaited
    BY <1>32 DEF JournalType, ShutdownAnswered, ExitAwaited, Taken
  <1>33. CASE GraceEnds \/ ShutdownForced
    BY <1>33 DEF JournalType, GraceEnds, ShutdownForced, ForceClose,
       ForceEnds, ClosePeer
  <1>34. CASE CompleteRun
    <2>1. CASE UNCHANGED journalVars
      BY <2>1 DEF JournalType
    <2>2. CASE ~UNCHANGED journalVars
      <3>1. /\ UNCHANGED <<turn, tool, wrote, settlement>> /\ sealed' = TRUE
            /\ terminal' = Append(terminal, "completed")
        BY <1>34, <2>2 DEF CompleteRun
      <3>2. terminal' \in Seq({"completed", "failed", "cancelled"})
        BY <3>1 DEF JournalType
      <3> QED
        BY <3>1, <3>2 DEF JournalType
    <2> QED
      BY <2>1, <2>2
  <1>35. CASE Deliver
    BY <1>35 DEF JournalType, Deliver
  <1> QED
    BY <1>1, <1>2, <1>3, <1>4, <1>5, <1>6, <1>7, <1>8, <1>9, <1>10, <1>11, <1>12, <1>13,
       <1>14, <1>15, <1>16, <1>17, <1>18, <1>19, <1>20, <1>21, <1>22, <1>23, <1>24,
       <1>25, <1>26, <1>27, <1>28, <1>29, <1>30, <1>31, <1>32, <1>33, <1>34, <1>35 DEF
       Next, Environment, Builder

(* ... and the run's, its handler's and its stop's. *)
LEMMA RunTypeStep ==
  ASSUME Types, Next
  PROVE  RunType'
  <1> USE DEF Types, processVars, peerVars, hostVars, journalVars, noteVars, waitVars,
          stopVars, ownVars, runVars
  <1>1. CASE \E r \in Requests, how \in Answers : ChildAnswers(r, how)
    BY <1>1 DEF RunType, Flags, ChildAnswers, Settled, ClosePeer
  <1>2. CASE \E n \in Notes : ChildNotifies(n)
    BY <1>2 DEF RunType, Flags, ChildNotifies
  <1>3. CASE ChildBabbles \/ ChildExits \/ PeerSeesEnd
    BY <1>3 DEF RunType, Flags, ChildBabbles, ChildExits, PeerSeesEnd,
       ClosePeer
  <1>4. CASE StartRun
    BY <1>4 DEF RunType, Flags, StartRun
  <1>5. CASE Cancel
    <2>1. "cancelled" \in StopClasses
      BY DEF StopClasses
    <2>2. stop' \in Stops /\ status' \in {status, "stopping"}
      BY <1>5, <2>1, StopType DEF Cancel, RunType
    <2> QED
      BY <1>5, <2>2 DEF Cancel, RunType, Flags
  <1>6. CASE Dispose
    <2>1. "cancelled" \in StopClasses
      BY DEF StopClasses
    <2>2. stop' \in Stops /\ status' \in {status, "stopping"}
      BY <1>6, <2>1, StopType DEF Dispose, RunType
    <2>3. /\ registered' = FALSE /\ disposed' = TRUE
          /\ UNCHANGED <<noteVars, waitVars, cancelled, pc, result>>
      BY <1>6 DEF Dispose
    <2>4. Flags'
      BY <2>3 DEF Flags, RunType
    <2> QED
      BY <2>2, <2>3, <2>4 DEF RunType
  <1>7. CASE \E r \in Requests : RequestTimesOut(r)
    BY <1>7 DEF RunType, Flags, RequestTimesOut
  <1>8. CASE HostSeesExit
    BY <1>8 DEF RunType, Flags, HostSeesExit, ClosePeer
  <1>9. CASE HandleNote
    <2>1. /\ handler' \in {"free", "reject"} /\ UNCHANGED <<attempt, verdict, repairs, stopVars,
             ownVars, pc, result>>
      BY <1>9 DEF HandleNote
    <2>2. tool' \in BOOLEAN
      BY JournalTypeStep DEF JournalType
    <2>3. rejected' \in BOOLEAN /\ armed' \in BOOLEAN
      BY <1>9, <2>2 DEF HandleNote, RunType, Flags
    <2>4. Flags'
      BY <2>1, <2>3 DEF Flags, RunType
    <2> QED
      BY <2>1, <2>4 DEF RunType
  <1>10. CASE RejectFailsRun
    BY <1>10 DEF RunType, Flags, RejectFailsRun, FailRun, Refused, Settle
  <1>11. CASE RejectStopsHost
    BY <1>11 DEF RunType, Flags, RejectStopsHost, ForceClose, ClosePeer
  <1>12. CASE RejectForced \/ RejectClosesPeer
    BY <1>12 DEF RunType, Flags, RejectForced, RejectClosesPeer, ForceEnds,
       ClosePeer
  <1>13. CASE LaunchHost
    BY <1>13 DEF RunType, Flags, LaunchHost, Ask
  <1>14. CASE HostStarted
    BY <1>14 DEF RunType, Flags, HostStarted, Taken
  <1>15. CASE HostFailsToStart \/ StartForced
    BY <1>15 DEF RunType, Flags, HostFailsToStart, StartForced, ForceClose,
       ForceEnds, ClosePeer
  <1>16. CASE FailStart
    <2>1. "runtime" \in StopClasses
      BY DEF StopClasses
    <2>2. stop' \in Stops /\ status' \in {status, "stopping"}
      BY <1>16, <2>1, StopType DEF FailStart, RunType, Flags
    <2> QED
      BY <1>16, <2>2 DEF FailStart, RunType, Flags
  <1>17. CASE Begin
    BY <1>17 DEF RunType, Flags, Begin, AskPrompt, Ask, ForceClose,
       ClosePeer
  <1>18. CASE PromptAccepted
    BY <1>18 DEF RunType, Flags, PromptAccepted, Taken, Waiting
  <1>19. CASE PromptFails
    <2>1. /\ UNCHANGED <<noteVars, attempt, repairs, stopVars, ownVars, pc, result>>
          /\ verdict' \in {verdict, "host"} /\ armed' \in {armed, armed /\ ~Waiting}
      BY <1>19 DEF PromptFails, Finish
    <2>2. armed' \in BOOLEAN
      BY <2>1 DEF Flags, RunType
    <2>3. Flags'
      BY <2>1, <2>2 DEF Flags, RunType
    <2> QED
      BY <2>1, <2>3 DEF RunType
  <1>20. CASE PromptForced
    BY <1>20 DEF RunType, Flags, PromptForced, ForceEnds, Finish
  <1>21. CASE TurnSettles
    <2>1. /\ UNCHANGED <<noteVars, attempt, repairs, stopVars, ownVars, pc, result>>
          /\ verdict' = settlement /\ settlement # "open" /\ armed' = FALSE
      BY <1>21 DEF TurnSettles, WaitEnds
    <2>2. Flags'
      BY <2>1 DEF Flags, RunType
    <2> QED
      BY <2>1, <2>2 DEF RunType, JournalType
  <1>22. CASE ProcessTerminated \/ IdleFires \/ LimitFires
    <2>1. /\ UNCHANGED <<noteVars, attempt, repairs, stopVars, ownVars, pc, result>>
          /\ verdict' \in {"host", "idle", "limit"} /\ armed' = FALSE
      BY <1>22 DEF ProcessTerminated, IdleFires, LimitFires, WaitEnds
    <2>2. Flags'
      BY <2>1 DEF Flags, RunType
    <2> QED
      BY <2>1, <2>2 DEF RunType
  <1>23. CASE Recover
    BY <1>23, HarnessAssumption DEF RunType, Flags, Recover, PrepareRepair, MayPrepare,
       Judging, AskPrompt, Ask, ForceClose, ClosePeer
  <1>24. CASE StopRun
    <2>1. Failure \in StopClasses
      BY DEF Failure, StopClasses
    <2>2. stop' \in Stops /\ status' \in {status, "stopping"}
      BY <1>24, <2>1, StopType DEF StopRun, RunType
    <2>3. /\ pc' = "stopping" /\ verdict' = "none"
          /\ UNCHANGED <<noteVars, attempt, armed, repairs, ownVars, result>>
      BY <1>24 DEF StopRun
    <2>4. Flags'
      BY <2>3 DEF Flags, RunType
    <2> QED
      BY <2>2, <2>3, <2>4 DEF RunType
  <1>25. CASE AwaitReconciliation
    BY <1>25 DEF RunType, Flags, AwaitReconciliation, Judging
  <1>26. CASE StopForced
    <2>1. /\ stop' = [stop EXCEPT !.step = "journal"]
          /\ UNCHANGED <<noteVars, waitVars, status, ownVars, pc, result>>
      BY <1>26 DEF StopForced
    <2>2. stop' \in Stops
      BY <2>1 DEF RunType, Stops
    <2> QED
      BY <2>1, <2>2 DEF RunType, Flags
  <1>27. CASE StopJournal
    <2>1. /\ stop' = [stop EXCEPT !.step = "done"] /\ status' \in {"cancelled", "failed"}
          /\ UNCHANGED <<noteVars, waitVars, ownVars, pc, result>>
      BY <1>27 DEF StopJournal
    <2>2. stop' \in Stops
      BY <2>1 DEF RunType, Stops
    <2> QED
      BY <2>1, <2>2 DEF RunType, Flags
  <1>28. CASE Stopped
    <2>1. /\ pc' = "ended" /\ registered' = FALSE /\ result' \in {"cancelled", "recovered", "failed"}
          /\ UNCHANGED <<noteVars, waitVars, stopVars, cancelled, disposed>>
      BY <1>28 DEF Stopped
    <2>2. Flags'
      BY <2>1 DEF Flags, RunType
    <2> QED
      BY <2>1, <2>2 DEF RunType
  <1>29. CASE Repair
    BY <1>29, HarnessAssumption DEF RunType, Flags, Repair, PrepareRepair, MayPrepare,
       AskPrompt, Ask, ForceClose, ClosePeer
  <1>30. CASE ServiceFails
    <2>1. "cancelled" \in StopClasses
      BY DEF StopClasses
    <2>2. stop' \in Stops /\ status' \in {status, "stopping"}
      BY <1>30, <2>1, StopType DEF ServiceFails, RunType, Flags
    <2> QED
      BY <1>30, <2>2 DEF ServiceFails, RunType, Flags
  <1>31. CASE Shutdown
    BY <1>31 DEF RunType, Flags, Shutdown, Ask
  <1>32. CASE ShutdownAnswered \/ ExitAwaited
    BY <1>32 DEF RunType, Flags, ShutdownAnswered, ExitAwaited, Taken
  <1>33. CASE GraceEnds \/ ShutdownForced
    BY <1>33 DEF RunType, Flags, GraceEnds, ShutdownForced, ForceClose,
       ForceEnds, ClosePeer
  <1>34. CASE CompleteRun
    <2>1. /\ pc' \in {"ended", "stopping", "deliver"} /\ result' \in {result, "failed"}
          /\ status' \in {status, "completed"} /\ registered' = FALSE
          /\ UNCHANGED <<noteVars, waitVars, stop, cancelled, disposed>>
      BY <1>34 DEF CompleteRun
    <2>2. Flags'
      BY <2>1 DEF Flags, RunType
    <2> QED
      BY <2>1, <2>2 DEF RunType
  <1>35. CASE Deliver
    BY <1>35 DEF RunType, Flags, Deliver
  <1> QED
    BY <1>1, <1>2, <1>3, <1>4, <1>5, <1>6, <1>7, <1>8, <1>9, <1>10, <1>11, <1>12, <1>13,
       <1>14, <1>15, <1>16, <1>17, <1>18, <1>19, <1>20, <1>21, <1>22, <1>23, <1>24,
       <1>25, <1>26, <1>27, <1>28, <1>29, <1>30, <1>31, <1>32, <1>33, <1>34, <1>35 DEF
       Next, Environment, Builder

(* The parts of the type invariant are inductive. *)
LEMMA TypesCorrect == Spec => []Types
  <1>1. Init => Types
    <2> SUFFICES ASSUME Init PROVE Types
      OBVIOUS
    <2>1. ProcessType
      <3>1. MaxTurns \in Nat /\ MaxTools \in Nat /\ MaxFaults \in Nat
        BY HarnessAssumption DEF HarnessAssumption
      <3>2. turns \in 0 .. MaxTurns /\ tools \in 0 .. MaxTools /\ faults \in 0 .. MaxFaults
        BY <3>1 DEF Init
      <3>3. asked \subseteq Requests
        BY DEF Init
      <3> QED
        BY <3>2, <3>3 DEF Init, ProcessType
    <2>2. <<>> \in Seq(Notes) /\ <<>> \in Seq({"completed", "failed", "cancelled"})
      OBVIOUS
    <2>3. PeerType
      BY <2>2 DEF Init, PeerType
    <2>4. HostType
      BY DEF Init, HostType
    <2>5. JournalType
      BY <2>2 DEF Init, JournalType
    <2>6. Flags /\ stop \in Stops
      BY DEF Init, Flags, NoStop, Stops
    <2>7. RunType
      BY <2>6, HarnessAssumption DEF Init, RunType
    <2> QED
      BY <2>1, <2>3, <2>4, <2>5, <2>7 DEF Types
  <1>2. Types /\ [Next]_vars => Types'
    <2> SUFFICES ASSUME Types, [Next]_vars PROVE Types'
      OBVIOUS
    <2>1. CASE Next
      BY <2>1, ProcessTypeStep, PeerTypeStep, HostTypeStep, JournalTypeStep, RunTypeStep
         DEF Types
    <2>2. CASE UNCHANGED vars
      <3> USE <2>2 DEF Types, vars
      <3>1. ProcessType'
        BY DEF ProcessType, processVars
      <3>2. PeerType'
        BY DEF PeerType, peerVars
      <3>3. HostType'
        BY DEF HostType, hostVars
      <3>4. JournalType'
        BY DEF JournalType, journalVars
      <3>5. Flags'
        BY DEF Flags, RunType, runVars, noteVars, waitVars, ownVars
      <3>6. RunType'
        BY <3>5 DEF RunType, runVars, noteVars, waitVars, stopVars
      <3> QED
        BY <3>1, <3>2, <3>3, <3>4, <3>6
    <2> QED
      BY <2>1, <2>2
  <1> QED
    BY <1>1, <1>2, PTL DEF Spec

(* Every variable keeps its type, whatever the child sends and the user does, *)
(* and the bounds on what the child does are kept.                            *)
THEOREM TypeCorrect == Spec => []HTypeOK
  <1> QED
    BY TypesCorrect, TypesAre, PTL

-----------------------------------------------------------------------------
(* What a run waits for is still to come.  A request that was sent waits   *)
(* for its answer or has one, unless the child may send an error without a *)
(* code, which settles nothing.                                            *)
Answered(r) == "badError" \in Faults \/ r \in pending \/ answer[r] # "none"

AnswerInv ==
    /\ pc = "initialize" => Answered("initialize")
    /\ ladder = "ask" => Answered("shutdown")

(* Who waits for the end of the process tree is among those that are told. *)
ForceInv ==
    /\ pc = "closing" => "start" \in forcing
    /\ ladder = "force" => "shutdown" \in forcing
    /\ stop.step = "host" => "stop" \in forcing
    /\ pc = "shutdown" => ladder # "off"
    /\ pc = "stopping" => stop.class # "none"

ServeInv == AnswerInv /\ ForceInv

(* A closed peer has answered everything it was asked. *)
LEMMA CloseAnswers ==
  ASSUME PeerType, NEW r \in Requests, Answered(r), ClosePeer
  PROVE  Answered(r)'
  BY DEF PeerType, Answered, ClosePeer

(* Asking and taking the answer to another request leave this one's alone. *)
LEMMA OthersAnswered ==
  ASSUME PeerType, NEW r \in Requests, NEW q \in Requests, Answered(r), r # q \/ Ask(q),
         Ask(q) \/ (pending' = pending /\ Taken(q))
  PROVE  Answered(r)'
  BY DEF PeerType, Answered, Ask, Taken

(* Every answer but a malformed one settles its request. *)
LEMMA SettledAnswers ==
  ASSUME PeerType, NEW r \in Requests, NEW q \in Requests, NEW how \in Answers, Answered(r),
         Settled(q, how), how = "badError" => "badError" \in Faults
  PROVE  Answered(r)'
  <1>1. CASE q \notin pending
    BY <1>1, CloseAnswers DEF Settled
  <1>2. CASE q \in pending /\ how = "badError"
    BY <1>2 DEF Answered
  <1>3. CASE q \in pending /\ how # "badError"
    <2>1. how # "none"
      BY DEF Answers
    <2> QED
      BY <1>3, <2>1 DEF Settled, PeerType, Answered
  <1> QED
    BY <1>1, <1>2, <1>3

Kept == \A r \in {"initialize", "shutdown"} : Answered(r) => Answered(r)'

(* Stopping answers what is open, and registers who waits. *)
LEMMA StopServes ==
  ASSUME Types, ForceInv, NEW class \in StopClasses, StopWith(class)
  PROVE  /\ Kept /\ ladder' = ladder /\ forcing \subseteq forcing'
         /\ stop'.class # "none"
         /\ stop'.step = "host" => "stop" \in forcing'
  <1>1. class # "none"
    BY DEF StopClasses
  <1>2. CASE stop.class # "none"
    BY <1>2 DEF StopWith, ForceInv, Kept, Answered, stopVars, peerVars, hostVars
  <1>3. CASE stop.class = "none" /\ host \in {"idle", "closed"}
    BY <1>1, <1>3 DEF StopWith, Kept, Answered, peerVars, hostVars
  <1>4. CASE stop.class = "none" /\ host \notin {"idle", "closed"}
    <2>1. /\ stop' = [class |-> class, step |-> "host"] /\ ladder' = ladder
          /\ ForceClose("stop")
      BY <1>4 DEF StopWith
    <2>2. ClosePeer /\ forcing' = forcing \cup {"stop"}
      BY <2>1 DEF ForceClose
    <2>3. Kept
      BY <2>2, CloseAnswers DEF Kept, Types, Requests
    <2> QED
      BY <1>1, <2>1, <2>2, <2>3
  <1> QED
    BY <1>2, <1>3, <1>4

(* A prompt leaves the other requests and those who wait for an end alone. *)
LEMMA PromptServes ==
  ASSUME Types, AskPrompt
  PROVE  Kept /\ ladder' = ladder /\ forcing \subseteq forcing' /\ pc' = "prompt"
  <1>1. CASE Ask("prompt") /\ UNCHANGED hostVars
    BY <1>1, OthersAnswered DEF Kept, Types, Requests, AskPrompt, hostVars
  <1>2. CASE ForceClose("prompt") /\ UNCHANGED ladder
    <2>1. ClosePeer /\ forcing \subseteq forcing'
      BY <1>2 DEF ForceClose
    <2> QED
      BY <1>2, <2>1, CloseAnswers DEF Kept, Types, Requests, AskPrompt
  <1>3. CASE UNCHANGED <<peerVars, hostVars>>
    BY <1>3 DEF Kept, Answered, AskPrompt, peerVars, hostVars
  <1> QED
    BY <1>1, <1>2, <1>3 DEF AskPrompt

(* Every step keeps it: who takes an answer or an end goes on with it. *)
LEMMA ServeStep ==
  ASSUME Types, Inv, ServeInv, Next
  PROVE  ServeInv'
  <1> USE DEF ServeInv, AnswerInv, ForceInv, Types, Requests
  <1>1. CASE \E r \in Requests, how \in Answers : ChildAnswers(r, how)
    <2>1. UNCHANGED <<hostVars, runVars>>
      BY <1>1 DEF ChildAnswers
    <2>2. Kept
      BY <1>1, SettledAnswers DEF ChildAnswers, Kept
    <2> QED
      BY <2>1, <2>2 DEF Kept, hostVars, runVars, stopVars
  <1>2. CASE \E n \in Notes : ChildNotifies(n)
    BY <1>2 DEF ChildNotifies, Answered, hostVars, runVars, stopVars
  <1>3. CASE ChildBabbles \/ PeerSeesEnd \/ HostSeesExit \/ RejectClosesPeer
    <2>1. UNCHANGED <<ladder, forcing, stop, pc>>
      BY <1>3 DEF ChildBabbles, PeerSeesEnd, HostSeesExit, RejectClosesPeer, hostVars,
         runVars, stopVars
    <2>2. ClosePeer \/ UNCHANGED peerVars
      BY <1>3 DEF ChildBabbles, PeerSeesEnd, HostSeesExit, RejectClosesPeer
    <2>3. Kept
      BY <2>2, CloseAnswers DEF Kept, Answered, peerVars
    <2> QED
      BY <2>1, <2>3 DEF Kept
  <1>4. CASE ChildExits \/ HandleNote \/ RejectFailsRun \/ StartRun
    BY <1>4 DEF ChildExits, HandleNote, RejectFailsRun, StartRun, Answered, peerVars,
       hostVars, runVars, stopVars
  <1>5. CASE \E r \in Requests : RequestTimesOut(r)
    <2>1. UNCHANGED <<hostVars, runVars>>
      BY <1>5 DEF RequestTimesOut
    <2>2. Kept
      BY <1>5 DEF RequestTimesOut, Kept, Answered, PeerType
    <2> QED
      BY <2>1, <2>2 DEF Kept, hostVars, runVars, stopVars
  <1>6. CASE RejectStopsHost
    <2>1. /\ UNCHANGED <<ladder, stop, pc>> /\ forcing \subseteq forcing'
          /\ ClosePeer \/ UNCHANGED peerVars
      BY <1>6 DEF RejectStopsHost, ForceClose, hostVars, stopVars
    <2>2. Kept
      BY <2>1, CloseAnswers DEF Kept, Answered, peerVars
    <2> QED
      BY <2>1, <2>2 DEF Kept
  <1>7. CASE RejectForced \/ StartForced \/ PromptForced \/ StopForced \/ ShutdownForced
    BY <1>7 DEF RejectForced, StartForced, PromptForced, StopForced, ShutdownForced,
       ForceEnds, Answered, peerVars, stopVars, runVars, RunType, Stops
  <1>8. CASE LaunchHost
    BY <1>8, OthersAnswered DEF LaunchHost, Ask, Answered, Inv, FreshInv, stopVars
  <1>9. CASE HostStarted \/ PromptAccepted
    BY <1>9, OthersAnswered DEF HostStarted, PromptAccepted, Taken, Answered, PeerType,
       hostVars, stopVars, Waiting
  <1>10. CASE HostFailsToStart
    <2>1. /\ UNCHANGED <<ladder, stop>> /\ pc' = "closing"
          /\ ClosePeer /\ forcing' = forcing \cup {"start"}
      BY <1>10 DEF HostFailsToStart, ForceClose, stopVars
    <2>2. Kept
      BY <2>1, CloseAnswers DEF Kept
    <2> QED
      BY <2>1, <2>2 DEF Kept
  <1>11. CASE FailStart \/ StopRun \/ ServiceFails
    <2>1. PICK class \in StopClasses : StopWith(class)
      BY <1>11 DEF FailStart, StopRun, ServiceFails, Failure, StopClasses
    <2>2. pc' = "stopping"
      BY <1>11 DEF FailStart, StopRun, ServiceFails
    <2> QED
      BY <2>1, <2>2, StopServes DEF Kept
  <1>12. CASE Cancel \/ Dispose
    <2>1. UNCHANGED pc /\ (StopWith("cancelled") \/ UNCHANGED <<stop, peerVars, hostVars>>)
      BY <1>12 DEF Cancel, Dispose, stopVars
    <2>2. CASE StopWith("cancelled")
      BY <2>1, <2>2, StopServes DEF Kept, StopClasses
    <2>3. CASE UNCHANGED <<stop, peerVars, hostVars>>
      BY <2>1, <2>3 DEF Answered, peerVars, hostVars
    <2> QED
      BY <2>1, <2>2, <2>3
  <1>13. CASE Begin \/ Recover \/ Repair
    <2>1. AskPrompt /\ UNCHANGED stop
      BY <1>13 DEF Begin, Recover, Repair, stopVars
    <2> QED
      BY <2>1, PromptServes DEF Kept
  <1>14. CASE PromptFails
    <2>1. /\ UNCHANGED <<ladder, stop, pc>> /\ forcing \subseteq forcing'
          /\ \A r \in {"initialize", "shutdown"} : answer'[r] = answer[r]
          /\ pending' = pending \/ closed
      BY <1>14 DEF PromptFails, Taken, PeerType, stopVars
    <2>2. closed => pending = {}
      BY DEF Inv, HostInv
    <2> QED
      BY <2>1, <2>2 DEF Answered
  <1>15. CASE TurnSettles \/ ProcessTerminated \/ IdleFires \/ LimitFires
    BY <1>15 DEF TurnSettles, ProcessTerminated, IdleFires, LimitFires, WaitEnds, Answered,
       peerVars, hostVars, stopVars
  <1>16. CASE AwaitReconciliation \/ Stopped \/ StopJournal \/ Deliver
    BY <1>16 DEF AwaitReconciliation, Stopped, StopJournal, Deliver, Answered, peerVars,
       hostVars, stopVars, RunType, Stops
  <1>17. CASE Shutdown
    BY <1>17 DEF Shutdown, Ask, Answered, peerVars, stopVars
  <1>18. CASE ShutdownAnswered
    BY <1>18 DEF ShutdownAnswered, Taken, Answered, PeerType, runVars, stopVars
  <1>19. CASE ExitAwaited
    BY <1>19 DEF ExitAwaited, Answered, peerVars, runVars, stopVars
  <1>20. CASE GraceEnds
    <2>1. /\ UNCHANGED <<stop, pc>> /\ ladder' \in {"eof", "force"}
          /\ forcing \subseteq forcing' /\ (ladder' = "force" => "shutdown" \in forcing')
          /\ ClosePeer \/ UNCHANGED peerVars
      BY <1>20 DEF GraceEnds, ForceClose, runVars, stopVars
    <2>2. Kept
      BY <2>1, CloseAnswers DEF Kept, Answered, peerVars
    <2>3. AnswerInv'
      BY <2>1, <2>2 DEF Kept
    <2>4. ForceInv'
      BY <2>1
    <2> QED
      BY <2>3, <2>4
  <1>21. CASE CompleteRun
    BY <1>21 DEF CompleteRun, Answered, peerVars, hostVars, stopVars
  <1> QED
    BY <1>1, <1>2, <1>3, <1>4, <1>5, <1>6, <1>7, <1>8, <1>9, <1>10, <1>11, <1>12, <1>13,
       <1>14, <1>15, <1>16, <1>17, <1>18, <1>19, <1>20, <1>21 DEF Next, Environment, Builder

(* A run that has begun and not ended is never left waiting: for an answer  *)
(* that is open or given, an end of the process tree that is asked for, the *)
(* end of its stopping, or a step of the shutdown, each of which leads on.  *)
(* Elsewhere it waits for nothing, or for a timer.                          *)
RunIsServed ==
    /\ pc = "initialize" => Answered("initialize")
    /\ pc = "closing" => "start" \in forcing
    /\ pc = "shutdown" =>
          \/ ladder \in {"wait", "eof", "over"}
          \/ ladder = "ask" /\ Answered("shutdown")
          \/ ladder = "force" /\ "shutdown" \in forcing
    /\ pc = "stopping" =>
          \/ stop.step \in {"journal", "done"}
          \/ stop.step = "host" /\ "stop" \in forcing

(* A run that was launched is never left waiting for what cannot come, for  *)
(* any faults of the child but an error without a code: the part of RunEnds *)
(* that is a safety property.                                               *)
THEOREM ServedCorrect == Spec => []RunIsServed
  <1>1. Init => ServeInv
    BY DEF Init, ServeInv, AnswerInv, ForceInv, NoStop
  <1>2. Types /\ Inv /\ ServeInv /\ [Next]_vars => ServeInv'
    <2> SUFFICES ASSUME Types, Inv, ServeInv, [Next]_vars PROVE ServeInv'
      OBVIOUS
    <2>1. CASE Next
      BY <2>1, ServeStep
    <2>2. CASE UNCHANGED vars
      BY <2>2 DEF vars, ServeInv, AnswerInv, ForceInv, Answered, peerVars, hostVars, runVars,
         stopVars
    <2> QED
      BY <2>1, <2>2
  <1>3. Types /\ Inv /\ ServeInv => RunIsServed
    BY DEF Types, HostType, RunType, Stops, Inv, HostInv, ServeInv, AnswerInv, ForceInv,
       RunIsServed
  <1> QED
    BY <1>1, <1>2, <1>3, TypesCorrect, InvCorrect, PTL DEF Spec

=============================================================================
