----------------------------- MODULE Dictation -----------------------------
(***************************************************************************)
(* One dictation turn of kilix-voiced, from its worker's first step to the *)
(* release of the microphone.  Four kinds of actor share the turn:         *)
(*                                                                         *)
(*   worker   Daemon._run_dictation and what it calls, on its own thread   *)
(*   stop     the accept loop, answering stop-dictation and the owned ops  *)
(*   watcher  the thread that watches the receiver's socket                *)
(*   world    the deadline, the receiver's death, shutdown, lease expiry   *)
(*                                                                         *)
(* They meet under three locks, which are read off the program counters:   *)
(* the turn's settle lock (one terminal outcome), its progress lock (feed  *)
(* and partial against a stop) and its capture lock (start against         *)
(* request_stop).  Audio, words and texts are abstracted away; every       *)
(* check, early return and error path of the turn is kept.                 *)
(***************************************************************************)
EXTENDS Naturals, Sequences

CONSTANTS
  Owned,       \* TRUE for an owned-dictate turn, FALSE for a dictate turn
  MaxStops     \* how many stop-dictation requests name this turn

ASSUME DictationAssumption ==
  /\ Owned \in BOOLEAN
  /\ MaxStops \in Nat

VARIABLES
  pc,          \* where the worker is
  raised,      \* the exception unwinding the worker, by its terminal outcome
  outcome,     \* turn.outcome, "none" until settled
  sent,        \* the terminal datagrams handed to _send, in order
  abort,       \* turn.abort
  stopAt,      \* turn.stop: "never" set, or first set "before"/"after" expiry
  expired,     \* the caller's deadline has passed
  receiver,    \* the peer's socket: "alive" or "gone"
  watch,       \* where the watcher is
  stopPc,      \* where the accept loop is in _op_stop_dictation
  stopMode,    \* the mode of the stop being answered
  stops,       \* how many stops were received
  mic,         \* the recorder: "shut", "open", "killed" or "unproven"
  capRef,      \* turn.capture is set
  closing,     \* request_close was called on the recorder
  ownedFinish, \* turn.owned_finish
  stopping,    \* daemon._stopping
  held,        \* daemon._dictation is this turn
  listening,   \* the arbiter's listening is this turn
  ack,         \* the strongest stop acknowledged with stopped: true
  quiet        \* a stop was acknowledged with quiesced: true

turnVars  == <<raised, outcome, sent>>
stopVars  == <<abort, stopAt>>
askVars   == <<stopPc, stopMode, stops, ack, quiet>>
micVars   == <<mic, capRef, closing>>
worldVars == <<expired, receiver, stopping, ownedFinish>>
claimVars == <<held, listening>>
vars == <<pc, turnVars, stopVars, askVars, micVars, worldVars, claimVars, watch>>

Outcomes == {"completed", "cancelled", "deadline", "failed"}
Modes == {"finish", "abort"}

WorkerPcs ==
  {"start", "prepare", "register", "ownedCheck", "ownedOpen", "construct",
   "preStart", "openCheck", "openStart", "read", "feedLock", "feeding",
   "sendPartial", "lostPartial", "recorded", "closeMic", "closed", "decode",
   "decoded", "encode", "finalLock", "settleFinal", "sendFinal", "unwind",
   "closeAll", "terminal", "settleError", "sendError", "finish", "release",
   "endListen", "done"}

TypeOK ==
  /\ pc \in WorkerPcs
  /\ raised \in Outcomes \cup {"none"}
  /\ outcome \in Outcomes \cup {"none"}
  /\ sent \in Seq(Outcomes)
  /\ abort \in BOOLEAN
  /\ stopAt \in {"never", "before", "after"}
  /\ expired \in BOOLEAN
  /\ receiver \in {"alive", "gone"}
  /\ watch \in {"off", "watching", "abort", "signal", "done"}
  /\ stopPc \in {"idle", "await", "quiesced", "unquiesced"}
  /\ stopMode \in Modes
  /\ stops \in 0..MaxStops
  /\ mic \in {"shut", "open", "killed", "unproven"}
  /\ capRef \in BOOLEAN
  /\ closing \in BOOLEAN
  /\ ownedFinish \in BOOLEAN
  /\ stopping \in BOOLEAN
  /\ held \in BOOLEAN
  /\ listening \in BOOLEAN
  /\ ack \in {"none", "finish", "abortInTime", "abortLate"}
  /\ quiet \in BOOLEAN

-----------------------------------------------------------------------------
(* The turn's token, its locks and its delivery check.                     *)

\* Cancellation.set: only the first explicit stop is timed.
StopSet == IF stopAt # "never" THEN stopAt
           ELSE IF expired THEN "after" ELSE "before"

\* Cancellation.done: stopped or out of budget.
StopDone == stopAt # "never" \/ expired

\* Mutant: a spent budget always outranks a stop.
ReasonDeadlineFirst ==
  IF stopAt = "after" \/ expired THEN "deadline"
  ELSE IF stopAt = "before" THEN "cancelled" ELSE "none"

\* Cancellation.reason: whichever cause came first.
Reason == IF stopAt = "before" THEN "cancelled"
          ELSE IF stopAt = "after" \/ expired THEN "deadline" ELSE "none"

\* turn._settle_lock is held across the worker's check and its assignment.
SettleLockFree == pc \notin {"settleFinal", "settleError"}

\* Mutant: the feed is not made under the progress lock.
ProgressLockIgnoresFeed == stopPc # "quiesced"

\* turn.progress_lock is the worker's around a feed and its partial, and
\* the accept loop's while it decides a stop it waited for.
ProgressLockFree ==
  /\ pc \notin {"feeding", "sendPartial", "lostPartial"}
  /\ stopPc # "quiesced"

\* turn.capture_lock is the worker's between its last check and the start.
CaptureLockFree == pc # "openStart"

\* receiver_alive: only a receiver that is gone can be reported gone, and a
\* probe that fails for another reason still reports it alive.
ReceiverAlive == IF receiver = "gone" THEN BOOLEAN ELSE {TRUE}

\* _check_delivery: the set of its possible results, "none" when it returns.
CheckDelivery ==
  IF abort /\ Reason = "cancelled" THEN {"cancelled"}
  ELSE IF expired THEN {"deadline"}
  ELSE {IF alive THEN "none" ELSE "cancelled" : alive \in ReceiverAlive}

-----------------------------------------------------------------------------
Init ==
  /\ pc = "start"
  /\ raised = "none" /\ outcome = "none" /\ sent = <<>>
  /\ abort = FALSE /\ stopAt = "never"
  /\ expired = FALSE /\ receiver = "alive"
  /\ watch = "off"
  /\ stopPc = "idle" /\ stopMode = "finish" /\ stops = 0
  /\ mic = "shut" /\ capRef = FALSE /\ closing = FALSE
  /\ ownedFinish = FALSE /\ stopping = FALSE
  /\ held = TRUE /\ listening = TRUE
  /\ ack = "none" /\ quiet = FALSE

(***************************************************************************)
(* The worker.                                                             *)
(***************************************************************************)

Goto(next) == pc' = next /\ UNCHANGED turnVars

\* An exception leaves _record_turn through its `finally` ("unwind"), and
\* _dictate's own part through _run_dictation's arms ("terminal").
Raise(cause, next) ==
  /\ raised' = cause
  /\ pc' = next
  /\ UNCHANGED <<outcome, sent>>

\* `except Exception: self._check_delivery(...)`: an ordinary failure gives
\* way to a stop or an expiry that has already happened.
RaiseFailed == \E why \in CheckDelivery :
  Raise(IF why = "none" THEN "failed" ELSE why, "unwind")

\* `self._check_delivery(...)` at a boundary: go on, or raise its cause.
CheckedGoto(next) == \E why \in CheckDelivery :
  IF why = "none" THEN Goto(next) ELSE Raise(why, "unwind")

\* `turn.stop.check()`: go on, or raise what stopped the turn.
StopChecked(next, handler) ==
  IF Reason = "none" THEN Goto(next) ELSE Raise(Reason, handler)

others == <<stopVars, askVars, worldVars, claimVars>>

\* A step of the worker that touches nothing but its own turn, and one that
\* also touches the recorder.
At(here) == pc = here /\ UNCHANGED <<others, watch, micVars>>
AtMic(here) == pc = here /\ UNCHANGED <<others, watch, closing>>

\* The watcher is started before _dictate; a thread the system refuses is an
\* unexpected failure of the turn.
StartWatcher ==
  /\ pc = "start"
  /\ \/ watch' = "watching" /\ Goto("prepare")
     \/ UNCHANGED watch /\ Raise("failed", "terminal")
  /\ UNCHANGED <<others, micVars>>

\* Consent, the payload's digest and the accelerator, each between checks.
Prepare ==
  At("prepare") /\ (StopChecked("register", "terminal") \/ Raise("failed", "terminal"))

\* The recorder is owned by the cleanup registry before it is started; one
\* registered during shutdown is told to close at once.
RegisterCapture ==
  /\ pc = "register"
  /\ closing' = stopping
  /\ Goto(IF Owned THEN "ownedCheck" ELSE "construct")
  /\ UNCHANGED <<others, watch, mic, capRef>>

OwnedCheck == At("ownedCheck") /\ StopChecked("ownedOpen", "unwind")

\* capture.start and turn.capture: a recorder told to close refuses.
StartCapture(next) ==
  \/ ~closing /\ mic' = "open" /\ capRef' = TRUE /\ Goto(next)
  \/ RaiseFailed /\ UNCHANGED <<mic, capRef>>

\* An owned turn opens the microphone before its recogniser is built, unless
\* the owner has already finished: then the final is empty.
OwnedOpen ==
  /\ AtMic("ownedOpen")
  /\ IF ownedFinish THEN Goto("encode") /\ UNCHANGED <<mic, capRef>>
                    ELSE StartCapture("construct")

Construct == At("construct") /\ (Goto("preStart") \/ RaiseFailed)

\* The last boundary before the device is opened, then once more with the
\* capture lock held for the start itself.
PreStart ==
  At("preStart") /\ StopChecked(IF Owned THEN "read" ELSE "openCheck", "unwind")

\* Mutant: the device is opened without that last look at the stop.
OpenUnchecked == At("openCheck") /\ Goto("openStart")

OpenCheck == At("openCheck") /\ StopChecked("openStart", "unwind")

OpenStart == AtMic("openStart") /\ StartCapture("read")

-----------------------------------------------------------------------------
(* The recording loop, _record.                                            *)

LoopEnds == StopDone \/ stopping

\* The loop's own condition, the recording ceiling, or a stream that stays
\* silent too long.
ReadEnds == At("read") /\ Goto("recorded")

\* A recorder or a recogniser that failed, or more bytes than a turn may have.
ReadFails == At("read") /\ RaiseFailed

\* A frame arrived, read outside every lock.
ReadFrame == At("read") /\ ~LoopEnds /\ ~ownedFinish /\ Goto("feedLock")

\* An owner that finished: the recorder is stopped, then what it had already
\* delivered is fed, and the turn ends when nothing is left.
ReadFinishing ==
  /\ AtMic("read") /\ UNCHANGED capRef
  /\ ~LoopEnds /\ ownedFinish
  /\ \/ mic' = "shut" /\ (Goto("feedLock") \/ Goto("recorded"))
     \/ mic' = "unproven" /\ RaiseFailed

\* The stop check and the feed are one step under the progress lock.
FeedLock ==
  At("feedLock") /\ ProgressLockFree /\ Goto(IF LoopEnds THEN "recorded" ELSE "feeding")

\* The recogniser's answer.  A stop that gave up waiting landed during this
\* feed: its partial is not delivered.
FeedReturns ==
  /\ At("feeding")
  /\ \/ Goto(IF StopDone THEN "recorded" ELSE "sendPartial")
     \/ ~StopDone /\ (Goto("read") \/ Goto("recorded"))
     \/ RaiseFailed

\* A droppable datagram: only a receiver that is gone makes the send fail.
SendPartial ==
  /\ At("sendPartial")
  /\ IF receiver = "gone" THEN Goto("lostPartial") ELSE Goto("read") \/ Goto("recorded")

\* request_stop kills the recorder's group; its handles stay for stop().
Killed == IF capRef /\ mic = "open" THEN "killed" ELSE mic

\* _abort_lost_receiver, called by the worker itself.
LostPartial ==
  /\ pc = "lostPartial"
  /\ abort' = TRUE
  /\ stopAt' = StopSet
  /\ mic' = Killed
  /\ Goto("recorded")
  /\ UNCHANGED <<askVars, worldVars, claimVars, watch, capRef, closing>>

-----------------------------------------------------------------------------
(* The end of recording and the delivery of the words.                     *)

Recorded == At("recorded") /\ CheckedGoto("closeMic")

\* What one call of the recorder's stop() can leave behind: proof that the
\* recorder is gone, or nothing proven.  An unopened recorder has nothing to
\* prove.
CloseProven == mic' = "shut"
CloseUnproven == mic' = IF mic = "shut" THEN "shut" ELSE "unproven"

\* The microphone closes before anything is recognised or delivered.
CloseMic ==
  /\ AtMic("closeMic") /\ UNCHANGED capRef
  /\ \/ CloseProven /\ Goto("closed")
     \/ CloseUnproven /\ RaiseFailed

\* The budget and the abort again, then the refusal of audio that was lost.
Closed == At("closed") /\ (CheckedGoto("decode") \/ RaiseFailed)

Decode == At("decode") /\ (Goto("decoded") \/ RaiseFailed)

\* The delivery boundary, then the refusal of a turn that heard nothing.
Decoded == At("decoded") /\ (CheckedGoto("encode") \/ RaiseFailed)

\* A final too large to send is refused before anything is settled.
Encode == At("encode") /\ (Goto("finalLock") \/ RaiseFailed)

\* settle(): take the lock, let the first outcome stick, then refuse a final
\* that an abort or the deadline has overtaken.
FinalLock ==
  /\ At("finalLock")
  /\ IF outcome # "none" THEN Goto("unwind") ELSE CheckedGoto("settleFinal")

rest == <<raised, others, micVars, watch>>

Settle(here, o, next) ==
  pc = here /\ outcome' = o /\ pc' = next /\ UNCHANGED <<rest, sent>>

Send(here, next) ==
  pc = here /\ sent' = Append(sent, outcome) /\ pc' = next /\ UNCHANGED <<rest, outcome>>

SettleFinal == Settle("settleFinal", "completed", "sendFinal")
SendFinal == Send("sendFinal", "unwind")

-----------------------------------------------------------------------------
(* The end of the turn.                                                    *)

\* The `finally` of _record_turn, first half: nobody may signal the recorder
\* through the turn any more.
Unwind == AtMic("unwind") /\ capRef' = FALSE /\ Goto("closeAll") /\ UNCHANGED mic

\* Second half: both resources are closed; a stop that came meanwhile owns
\* the terminal of an unsettled turn; a teardown that failed is only raised
\* when nothing else was.
Resolve(closeError) ==
  LET recheck == outcome = "none" /\ raised \notin {"cancelled", "deadline"}
  IN  \E why \in (IF recheck THEN CheckDelivery ELSE {"none"}) :
        LET cause == IF why # "none" THEN why
                     ELSE IF raised = "none" THEN closeError ELSE raised
        IN  Raise(cause, IF cause = "none" THEN "finish" ELSE "terminal")

CloseAll ==
  /\ AtMic("closeAll") /\ UNCHANGED capRef
  /\ \/ CloseProven /\ \E error \in {"none", "failed"} : Resolve(error)
     \/ CloseUnproven /\ Resolve("failed")

\* decide(): the error is coded by the stop that has happened, if one has.
Decide == \E why \in CheckDelivery :
  Raise(IF why = "none" THEN raised ELSE why, "settleError")

\* Mutant: the second terminal is not suppressed.
TerminalAgain == At("terminal") /\ (Decide \/ (outcome = "none" /\ Goto("finish")))

\* _deliver_terminal with an error: a second terminal is suppressed, and a
\* delivery that itself raises settles nothing here.
Terminal == At("terminal") /\ ((outcome = "none" /\ Decide) \/ Goto("finish"))

SettleError == Settle("settleError", raised, "sendError")
SendError == Send("sendError", "finish")

\* _run_dictation's `finally`: a job that ended without a terminal is
\* recorded failed, and nothing is sent.
Finish == Settle("finish", IF outcome = "none" THEN "failed" ELSE outcome, "release")

\* One bounded pass over retained teardown, then the turn is no longer the
\* daemon's, and then no longer the arbiter's.
Release ==
  /\ pc = "release"
  /\ mic' \in {mic, IF mic = "unproven" THEN "shut" ELSE mic}
  /\ held' = FALSE
  /\ Goto("endListen")
  /\ UNCHANGED <<stopVars, askVars, worldVars, watch, listening, capRef, closing>>

EndListen ==
  /\ pc = "endListen"
  /\ listening' = FALSE
  /\ Goto("done")
  /\ UNCHANGED <<stopVars, askVars, worldVars, watch, held, micVars>>

(***************************************************************************)
(* stop-dictation, on the accept loop.                                     *)
(***************************************************************************)

restOfStop == <<pc, turnVars, worldVars, claimVars, watch>>

\* The turn is read under the daemon's lock; a turn that is gone, or one that
\* delivers to another socket, is answered stopped: false at once.
StopRequest ==
  /\ stopPc = "idle"
  /\ stops < MaxStops
  /\ stops' = stops + 1
  /\ \E mode \in Modes :
       /\ stopMode' = mode
       /\ stopPc' \in {"idle", IF held THEN "await" ELSE "idle"}
  /\ UNCHANGED <<restOfStop, stopVars, micVars, ack, quiet>>

\* Mutant: the wait for a feed has no bound.
StopAwaitUnbounded ==
  /\ stopPc = "await"
  /\ ProgressLockFree
  /\ stopPc' = "quiesced"
  /\ UNCHANGED <<restOfStop, stopVars, micVars, stops, stopMode, ack, quiet>>

\* The bounded wait for a feed already in progress.
StopAwait ==
  /\ stopPc = "await"
  /\ stopPc' = IF ProgressLockFree THEN "quiesced" ELSE "unquiesced"
  /\ UNCHANGED <<restOfStop, stopVars, micVars, stops, stopMode, ack, quiet>>

\* What the caller has been told, strongest answer kept.
Acknowledge ==
  ack' = IF stopMode = "finish" \/ ack \in {"abortInTime", "abortLate"}
         THEN IF ack = "none" THEN "finish" ELSE ack
         ELSE IF expired THEN "abortLate" ELSE "abortInTime"

\* Decided once, under the settle lock: an outcome already set makes the
\* stop a no-op, otherwise the abort goes in before the stop.
StopDecide ==
  /\ stopPc \in {"quiesced", "unquiesced"}
  /\ SettleLockFree
  /\ stopPc' = "idle"
  /\ IF outcome # "none"
     THEN UNCHANGED <<stopVars, ack, quiet>>
     ELSE /\ abort' = (abort \/ stopMode = "abort")
          /\ stopAt' = StopSet
          /\ quiet' = (quiet \/ stopPc = "quiesced")
          /\ Acknowledge
  /\ UNCHANGED <<restOfStop, micVars, stops, stopMode>>

(***************************************************************************)
(* The receiver's watcher.                                                 *)
(***************************************************************************)

restOfWatch == <<pc, turnVars, askVars, worldVars, claimVars>>

\* The poll that sees the receiver gone.  watch_done is set from "release" on.
WatchSeesLoss ==
  /\ watch = "watching"
  /\ receiver = "gone"
  /\ pc \notin {"release", "endListen", "done"}
  /\ watch' = "abort"
  /\ UNCHANGED <<restOfWatch, stopVars, micVars>>

WatchEnds ==
  /\ watch = "watching"
  /\ pc \in {"release", "endListen", "done"}
  /\ watch' = "done"
  /\ UNCHANGED <<restOfWatch, stopVars, micVars>>

\* Mutant: the loss is marked as an abort and nothing is stopped.
WatchMarksOnly ==
  /\ watch = "abort"
  /\ SettleLockFree
  /\ IF outcome # "none"
     THEN watch' = "done" /\ UNCHANGED stopVars
     ELSE watch' = "signal" /\ abort' = TRUE /\ UNCHANGED stopAt
  /\ UNCHANGED <<restOfWatch, micVars>>

\* _abort_lost_receiver under the settle lock; a settled turn is left alone.
WatchAborts ==
  /\ watch = "abort"
  /\ SettleLockFree
  /\ IF outcome # "none"
     THEN watch' = "done" /\ UNCHANGED stopVars
     ELSE watch' = "signal" /\ abort' = TRUE /\ stopAt' = StopSet
  /\ UNCHANGED <<restOfWatch, micVars>>

\* ... and then under the capture lock.
WatchSignals ==
  /\ watch = "signal"
  /\ CaptureLockFree
  /\ mic' = Killed
  /\ watch' = "done"
  /\ UNCHANGED <<restOfWatch, stopVars, capRef, closing>>

(***************************************************************************)
(* The world around the turn.                                              *)
(***************************************************************************)

restOfWorld == <<pc, turnVars, askVars, claimVars, watch>>

Expire ==
  /\ ~expired
  /\ expired' = TRUE
  /\ UNCHANGED <<restOfWorld, stopVars, micVars, receiver, stopping, ownedFinish>>

ReceiverDies ==
  /\ receiver = "alive"
  /\ receiver' = "gone"
  /\ UNCHANGED <<restOfWorld, stopVars, micVars, expired, stopping, ownedFinish>>

\* _owned_expire writes the abort and the stop without the settle lock.
OwnedLeaseExpires ==
  /\ Owned /\ held
  /\ ~(abort /\ stopAt # "never")
  /\ abort' = TRUE
  /\ stopAt' = StopSet
  /\ UNCHANGED <<restOfWorld, micVars, worldVars>>

\* owned-dictation-stop: finish the words, under the capture lock.
OwnedStop ==
  /\ Owned /\ held /\ ~ownedFinish
  /\ CaptureLockFree
  /\ ownedFinish' = TRUE
  /\ mic' = Killed
  /\ UNCHANGED <<restOfWorld, stopVars, capRef, closing, expired, receiver, stopping>>

\* _shutdown, first the flags and then request_close on what is registered.
Shutdown ==
  /\ ~stopping
  /\ stopping' = TRUE
  /\ stopAt' = IF held THEN StopSet ELSE stopAt
  /\ UNCHANGED <<restOfWorld, abort, micVars, expired, receiver, ownedFinish>>

ShutdownCloses ==
  /\ stopping /\ ~closing
  /\ pc \notin {"start", "prepare", "register", "done"}
  /\ closing' = TRUE
  /\ UNCHANGED <<restOfWorld, stopVars, worldVars, mic, capRef>>

\* A cleanup thread of the registry closes the recorder under the worker.
ShutdownCleanup ==
  /\ closing
  /\ mic \notin {"shut"}
  /\ mic' = "shut"
  /\ UNCHANGED <<restOfWorld, stopVars, worldVars, capRef, closing>>

-----------------------------------------------------------------------------
WorkerStep ==
  \/ StartWatcher \/ Prepare \/ RegisterCapture \/ OwnedCheck \/ OwnedOpen
  \/ Construct \/ PreStart \/ OpenCheck \/ OpenStart
  \/ ReadEnds \/ ReadFails \/ ReadFrame \/ ReadFinishing
  \/ FeedLock \/ FeedReturns \/ SendPartial \/ LostPartial
  \/ Recorded \/ CloseMic \/ Closed \/ Decode \/ Decoded \/ Encode
  \/ FinalLock \/ SettleFinal \/ SendFinal \/ Unwind \/ CloseAll
  \/ Terminal \/ SettleError \/ SendError \/ Finish \/ Release \/ EndListen

StopStep == StopRequest \/ StopAwait \/ StopDecide

WatchStep == WatchSeesLoss \/ WatchEnds \/ WatchAborts \/ WatchSignals

WorldStep ==
  \/ Expire \/ ReceiverDies \/ OwnedLeaseExpires \/ OwnedStop
  \/ Shutdown \/ ShutdownCloses \/ ShutdownCleanup

Next == WorkerStep \/ StopStep \/ WatchStep \/ WorldStep

Spec == Init /\ [][Next]_vars

(***************************************************************************)
(* Fairness.  Every thread runs, the accept loop serves, and a call of the *)
(* recogniser returns: its child is bounded by timeouts.  Nothing in the   *)
(* world has to happen, the recording never has to end by itself, and only *)
(* finitely many stops arrive (MaxStops).                                  *)
(***************************************************************************)
Fairness ==
  /\ WF_vars(WorkerStep)
  /\ WF_vars(StopAwait) /\ WF_vars(StopDecide)
  /\ WF_vars(WatchStep)
  /\ WF_vars(ShutdownCloses)

FairSpec == Spec /\ Fairness

-----------------------------------------------------------------------------
(* Properties.                                                             *)

AbortAcked == ack \in {"abortInTime", "abortLate"}

\* An abort answered `stopped: true` always keeps the words from being
\* delivered, wherever the worker was when it was accepted: _deliver_terminal
\* settles a final under the lock _op_stop_dictation decides under.
AbortDiscardsWords == AbortAcked => outcome # "completed"

\* A turn is one job of the contract: one terminal, the recorded outcome,
\* never the words after an acknowledged abort.
Job == INSTANCE JobContract WITH aborted <- AbortAcked
ImplementsContract == Job!Spec

\* An abort accepted before the budget ran out is reported as cancelled,
\* however late the worker comes to say so: reason() keeps the first cause.
AbortInTimeIsCancelled ==
  ack = "abortInTime" => sent \in {<<>>, <<"cancelled">>}

\* Once a stop was answered `quiesced: true`, no feed and no partial of the
\* turn is in progress, and none begins.
QuiescedStop == quiet => pc \notin {"feeding", "sendPartial", "lostPartial"}

\* Click-to-talk: the words are only settled once the recorder is gone.
MicShutBeforeFinal == outcome = "completed" => mic = "shut"

\* When the watcher has finished with a receiver it saw go, the recorder of
\* an ordinary turn is not running unasked: it was never opened, or it was
\* told to stop, on either side of the worker's last check, or the worker is
\* closing it now.
LossShutsMic ==
  (~Owned /\ watch = "done" /\ abort) => mic # "open" \/ pc = "closeAll"

\* The arbiter is never idle while a recorder runs: whatever way the turn
\* ends, the recorder is closed, or retained as unproven, before it lets go.
MicIsClaimed == mic \in {"open", "killed"} => held /\ listening

\* The microphone is never open for nobody: not for a lost receiver, and not
\* behind the arbiter's back.
MicIsAccounted == LossShutsMic /\ MicIsClaimed

\* A stop, a spent budget and a shutdown each end the turn and give the
\* microphone back, even if audio never stops arriving.
StopEndsTurn == (stopAt # "never" \/ expired \/ stopping) ~> (pc = "done" /\ ~listening)

\* So does the loss of the receiver, with nobody left to stop the turn.
LossEndsTurn == receiver = "gone" ~> pc = "done"

\* The two together: whatever ends a turn, it is over.
TurnsEnd == StopEndsTurn /\ LossEndsTurn

\* stop-dictation is answered even while the recogniser hangs in a feed.
StopAnswered == stopPc # "idle" ~> stopPc = "idle"

\* _check_delivery's own words: "An abort pressed after the budget had already
\* run out is still the deadline."
LateAbortIsDeadline ==
  ack = "abortLate" => sent \in {<<>>, <<"deadline">>}

\* DESIGN.md of a stop that did not quiesce: a feed "was still running, and
\* its partial is suppressed".  No partial leaves after the reply.
UnquiescedPartialSuppressed ==
  [][ack # "none" /\ pc = "sendPartial" => pc' = "sendPartial"]_vars
=============================================================================
