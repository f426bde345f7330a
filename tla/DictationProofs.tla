-------------------------- MODULE DictationProofs --------------------------
(***************************************************************************)
(* What holds of a dictation turn for every value of Owned and MaxStops.   *)
(***************************************************************************)
EXTENDS Dictation, TLAPS

-----------------------------------------------------------------------------
(* The inductive invariant, in named parts.                                *)

\* An acknowledged abort is in the token, and a late stop is an expired one.
StopInv ==
  /\ AbortAcked => abort /\ stopAt # "never"
  /\ stopAt = "after" => expired

\* The settle lock is only held for an unsettled turn, and for a final only
\* while no abort was acknowledged.
SettleInv ==
  /\ pc \in {"settleFinal", "settleError"} => outcome = "none"
  /\ pc = "settleFinal" => ~AbortAcked
  /\ outcome = "completed" => ~AbortAcked

\* An error terminal has a cause, which is never that the turn completed.
RaiseInv ==
  /\ raised # "completed"
  /\ pc \in {"terminal", "settleError"} => raised # "none"

\* What was sent is what was settled, once.
SentInv ==
  /\ pc \in {"sendFinal", "sendError"} => outcome # "none" /\ sent = <<>>
  /\ outcome = "none" => sent = <<>>
  /\ sent # <<>> => sent = <<outcome>>

\* A stop that waited for the progress lock holds it, and one that said so
\* has set the token no later feed gets past.
QuietInv ==
  /\ stopPc = "quiesced" => pc \notin {"feeding", "sendPartial", "lostPartial"}
  /\ quiet => stopAt # "never"
  /\ QuiescedStop

\* Where the recorder has not been opened yet, and where it is gone for good.
Unopened == {"start", "prepare", "register", "ownedCheck", "ownedOpen"}
Delivering == {"closed", "decode", "decoded", "encode", "finalLock",
               "settleFinal", "sendFinal"}
Ending == {"unwind", "closeAll", "terminal", "finish", "release",
           "endListen", "done"}

MicInv ==
  /\ pc \in Unopened \cup Delivering => mic = "shut"
  /\ outcome = "completed" => mic = "shut" /\ pc \in Ending \cup {"sendFinal"}

IInv ==
  /\ TypeOK
  /\ StopInv /\ SettleInv /\ RaiseInv /\ SentInv /\ QuietInv /\ MicInv

-----------------------------------------------------------------------------
\* The causes a worker is unwound by.
Causes == {"failed", "cancelled", "deadline"}

LEMMA InitInv == Init => IInv
<1> SUFFICES ASSUME Init PROVE IInv
  OBVIOUS
<1>1. TypeOK
  <2>1. /\ abort \in BOOLEAN /\ expired \in BOOLEAN /\ capRef \in BOOLEAN
        /\ closing \in BOOLEAN /\ ownedFinish \in BOOLEAN /\ stopping \in BOOLEAN
        /\ held \in BOOLEAN /\ listening \in BOOLEAN /\ quiet \in BOOLEAN
    BY Zenon DEF Init
  <2>2. QED
    BY <2>1, DictationAssumption DEF Init, TypeOK, Outcomes, Modes, WorkerPcs
<1>2. StopInv /\ SettleInv /\ RaiseInv /\ SentInv
  BY DEF Init, StopInv, SettleInv, RaiseInv, SentInv, AbortAcked
<1>3. QuietInv /\ MicInv
  BY DEF Init, QuietInv, QuiescedStop, MicInv, Delivering
<1>4. QED
  BY <1>1, <1>2, <1>3 DEF IInv

\* The delivery check returns, or raises one of two causes, and it never
\* returns once an abort was acknowledged.
LEMMA CheckResult ==
  ASSUME IInv, NEW why \in CheckDelivery
  PROVE  why \in {"none", "cancelled", "deadline"} /\ (AbortAcked => why # "none")
BY DEF CheckDelivery, ReceiverAlive, Reason, IInv, StopInv, TypeOK

LEMMA RaiseFailedEffect ==
  ASSUME IInv, RaiseFailed
  PROVE  pc' = "unwind" /\ raised' \in Causes /\ UNCHANGED <<outcome, sent>>
<1>1. PICK why \in CheckDelivery :
        Raise(IF why = "none" THEN "failed" ELSE why, "unwind")
  BY DEF RaiseFailed
<1>2. QED
  BY <1>1, CheckResult DEF Raise, Causes

LEMMA CheckedEffect ==
  ASSUME IInv, NEW next, CheckedGoto(next)
  PROVE  /\ UNCHANGED <<outcome, sent>>
         /\ \/ pc' = next /\ ~AbortAcked /\ UNCHANGED raised
            \/ pc' = "unwind" /\ raised' \in Causes
<1>1. PICK why \in CheckDelivery :
        IF why = "none" THEN Goto(next) ELSE Raise(why, "unwind")
  BY DEF CheckedGoto
<1>2. QED
  BY <1>1, CheckResult DEF Raise, Goto, Causes, turnVars

LEMMA ResolveEffect ==
  ASSUME IInv, NEW error \in {"none", "failed"}, Resolve(error)
  PROVE  /\ UNCHANGED <<outcome, sent>>
         /\ \/ pc' = "finish" /\ raised' = "none"
            \/ pc' = "terminal" /\ raised' \in Causes
<1> DEFINE recheck == outcome = "none" /\ raised \notin {"cancelled", "deadline"}
           cause(why) == IF why # "none" THEN why
                         ELSE IF raised = "none" THEN error ELSE raised
<1>1. PICK why \in (IF recheck THEN CheckDelivery ELSE {"none"}) :
        Raise(cause(why), IF cause(why) = "none" THEN "finish" ELSE "terminal")
  BY DEF Resolve
<1>2. why \in {"none", "cancelled", "deadline"}
  BY <1>1, CheckResult
<1>3. cause(why) \in Causes \cup {"none"}
  BY <1>2 DEF IInv, TypeOK, RaiseInv, Outcomes, Causes
<1>4. QED
  BY <1>1, <1>3 DEF Raise, Causes

LEMMA DecideEffect ==
  ASSUME IInv, pc = "terminal", Decide
  PROVE  pc' = "settleError" /\ raised' \in Causes /\ UNCHANGED <<outcome, sent>>
<1>1. PICK why \in CheckDelivery :
        Raise(IF why = "none" THEN raised ELSE why, "settleError")
  BY DEF Decide
<1>2. QED
  BY <1>1, CheckResult DEF Raise, Causes, IInv, RaiseInv, TypeOK, Outcomes

LEMMA StepInv == IInv /\ [Next]_vars => IInv'
<1> SUFFICES ASSUME IInv, [Next]_vars PROVE IInv'
  OBVIOUS
<1> USE DictationAssumption
    DEF IInv, TypeOK, Outcomes, Modes, WorkerPcs, StopInv, SettleInv, RaiseInv,
        SentInv, QuietInv, QuiescedStop, MicInv, AbortAcked, Unopened,
        Delivering, Ending, Causes, turnVars, stopVars, askVars, micVars,
        worldVars, claimVars, vars, others, At, AtMic, Goto, Raise
<1>1. CASE StartWatcher
  BY <1>1 DEF StartWatcher
<1>2. CASE Prepare
  BY <1>2 DEF Prepare, StopChecked, Reason
<1>3. CASE RegisterCapture
  BY <1>3 DEF RegisterCapture
<1>4. CASE OwnedCheck
  BY <1>4 DEF OwnedCheck, StopChecked, Reason
<1>5. CASE OwnedOpen
  <2>1. capRef' \in BOOLEAN
    BY <1>5, Zenon DEF OwnedOpen, StartCapture
  <2>2. QED
    BY <1>5, <2>1, RaiseFailedEffect DEF OwnedOpen, StartCapture
<1>6. CASE Construct
  BY <1>6, RaiseFailedEffect DEF Construct
<1>7. CASE PreStart
  BY <1>7 DEF PreStart, StopChecked, Reason
<1>8. CASE OpenCheck
  BY <1>8 DEF OpenCheck, StopChecked, Reason
<1>9. CASE OpenStart
  <2>1. capRef' \in BOOLEAN
    BY <1>9, Zenon DEF OpenStart, StartCapture
  <2>2. QED
    BY <1>9, <2>1, RaiseFailedEffect DEF OpenStart, StartCapture
<1>10. CASE ReadEnds
  BY <1>10 DEF ReadEnds
<1>11. CASE ReadFails
  BY <1>11, RaiseFailedEffect DEF ReadFails
<1>12. CASE ReadFrame
  BY <1>12 DEF ReadFrame, LoopEnds
<1>13. CASE ReadFinishing
  BY <1>13, RaiseFailedEffect DEF ReadFinishing, LoopEnds
<1>14. CASE FeedLock
  BY <1>14 DEF FeedLock, ProgressLockFree, LoopEnds, StopDone
<1>15. CASE FeedReturns
  BY <1>15, RaiseFailedEffect DEF FeedReturns, StopDone
<1>16. CASE SendPartial
  BY <1>16 DEF SendPartial
<1>17. CASE LostPartial
  BY <1>17 DEF LostPartial, StopSet, Killed
<1>18. CASE Recorded
  BY <1>18, CheckedEffect, RaiseFailedEffect DEF Recorded
<1>19. CASE CloseMic
  BY <1>19, CheckedEffect, RaiseFailedEffect DEF CloseMic, CloseProven, CloseUnproven
<1>20. CASE Closed
  BY <1>20, CheckedEffect, RaiseFailedEffect DEF Closed
<1>21. CASE Decode
  BY <1>21, CheckedEffect, RaiseFailedEffect DEF Decode
<1>22. CASE Decoded
  BY <1>22, CheckedEffect, RaiseFailedEffect DEF Decoded
<1>23. CASE Encode
  BY <1>23, CheckedEffect, RaiseFailedEffect DEF Encode
<1>24. CASE FinalLock
  BY <1>24, CheckedEffect, RaiseFailedEffect DEF FinalLock
<1>25. CASE SettleFinal
  BY <1>25 DEF SettleFinal, Settle, rest
<1>26. CASE SendFinal
  BY <1>26 DEF SendFinal, Send, rest
<1>27. CASE Unwind
  <2>1. capRef' \in BOOLEAN
    BY <1>27, Zenon DEF Unwind
  <2>2. QED
    BY <1>27, <2>1 DEF Unwind
<1>28. CASE CloseAll
  BY <1>28, ResolveEffect DEF CloseAll, CloseProven, CloseUnproven
<1>29. CASE Terminal
  BY <1>29, DecideEffect DEF Terminal
<1>30. CASE SettleError
  BY <1>30 DEF SettleError, Settle, rest
<1>31. CASE SendError
  BY <1>31 DEF SendError, Send, rest
<1>32. CASE Finish
  BY <1>32 DEF Finish, Settle, rest
<1>33. CASE Release
  <2>1. held' \in BOOLEAN
    BY <1>33, Zenon DEF Release
  <2>2. QED
    BY <1>33, <2>1 DEF Release
<1>34. CASE EndListen
  <2>1. listening' \in BOOLEAN
    BY <1>34, Zenon DEF EndListen
  <2>2. QED
    BY <1>34, <2>1 DEF EndListen
<1>35. CASE StopRequest
  BY <1>35 DEF StopRequest, restOfStop
<1>36. CASE StopAwait
  BY <1>36 DEF StopAwait, restOfStop, ProgressLockFree
<1>37. CASE StopDecide
  <2>1. abort' \in BOOLEAN /\ quiet' \in BOOLEAN
    BY <1>37, Zenon DEF StopDecide
  <2>2. QED
    BY <1>37, <2>1 DEF StopDecide, restOfStop, SettleLockFree, StopSet, Acknowledge
<1>38. CASE WatchSeesLoss
  BY <1>38 DEF WatchSeesLoss, restOfWatch
<1>39. CASE WatchEnds
  BY <1>39 DEF WatchEnds, restOfWatch
<1>40. CASE WatchAborts
  <2>1. abort' \in BOOLEAN
    BY <1>40, Zenon DEF WatchAborts
  <2>2. QED
    BY <1>40, <2>1 DEF WatchAborts, restOfWatch, SettleLockFree, StopSet
<1>41. CASE WatchSignals
  BY <1>41 DEF WatchSignals, restOfWatch, CaptureLockFree, Killed
<1>42. CASE Expire
  BY <1>42 DEF Expire, restOfWorld
<1>43. CASE ReceiverDies
  BY <1>43 DEF ReceiverDies, restOfWorld
<1>44. CASE OwnedLeaseExpires
  BY <1>44 DEF OwnedLeaseExpires, restOfWorld, StopSet
<1>45. CASE OwnedStop
  BY <1>45 DEF OwnedStop, restOfWorld, CaptureLockFree, Killed
<1>46. CASE Shutdown
  BY <1>46 DEF Shutdown, restOfWorld, StopSet
<1>47. CASE ShutdownCloses
  BY <1>47 DEF ShutdownCloses, restOfWorld
<1>48. CASE ShutdownCleanup
  BY <1>48 DEF ShutdownCleanup, restOfWorld
<1>49. CASE UNCHANGED vars
  BY <1>49
<1>50. QED
  BY <1>1, <1>2, <1>3, <1>4, <1>5, <1>6, <1>7, <1>8, <1>9, <1>10, <1>11, <1>12, <1>13, <1>14, <1>15, <1>16, <1>17, <1>18, <1>19, <1>20, <1>21, <1>22, <1>23, <1>24, <1>25, <1>26, <1>27, <1>28, <1>29, <1>30, <1>31, <1>32, <1>33, <1>34, <1>35, <1>36, <1>37, <1>38, <1>39, <1>40, <1>41, <1>42, <1>43, <1>44, <1>45, <1>46, <1>47, <1>48, <1>49
     DEF Next, WorkerStep, StopStep, WatchStep, WorldStep

-----------------------------------------------------------------------------
(* The theorems.                                                           *)

\* The invariant holds of every behaviour of a turn: of each actor's steps
\* in every order with the others' (kilix-voiced, _run_dictation to
\* _clear_dictation, against _op_stop_dictation and the watcher).
THEOREM Invariance == Spec => []IInv
BY InitInv, StepInv, PTL DEF Spec

\* Every variable of the turn keeps its type.
THEOREM TypeCorrect == Spec => []TypeOK
<1>1. IInv => TypeOK
  BY DEF IInv
<1>2. QED
  BY Invariance, <1>1, PTL

\* An abort answered `stopped: true` never lets the words be delivered.
THEOREM AbortSafe == Spec => []AbortDiscardsWords
<1>1. IInv => AbortDiscardsWords
  BY DEF IInv, SettleInv, AbortDiscardsWords
<1>2. QED
  BY Invariance, <1>1, PTL

\* A stop answered `quiesced: true` ends feeding and partials.
THEOREM QuiescedSafe == Spec => []QuiescedStop
<1>1. IInv => QuiescedStop
  BY DEF IInv, QuietInv
<1>2. QED
  BY Invariance, <1>1, PTL

\* The words are only settled after the recorder is gone.
THEOREM MicSafe == Spec => []MicShutBeforeFinal
<1>1. IInv => MicShutBeforeFinal
  BY DEF IInv, MicInv, MicShutBeforeFinal
<1>2. QED
  BY Invariance, <1>1, PTL

\* What the contract sees of a step: an acknowledged abort of an unsettled
\* job, its settlement, the sending of its terminal, or nothing.
LEMMA StepContract == IInv /\ [Next]_vars => [Job!Next]_(Job!vars)
<1> SUFFICES ASSUME IInv, [Next]_vars PROVE [Job!Next]_(Job!vars)
  OBVIOUS
<1> DEFINE Unseen == UNCHANGED <<outcome, sent, ack>>
<1>1. ASSUME Unseen PROVE UNCHANGED Job!vars
  BY <1>1 DEF Job!vars, AbortAcked
<1>2. CASE SettleFinal \/ SettleError \/ Finish
  <2>1. UNCHANGED <<sent, ack>>
    BY <1>2 DEF SettleFinal, SettleError, Finish, Settle, rest, others, askVars
  <2>2. CASE UNCHANGED outcome
    BY <1>1, <2>1, <2>2
  <2>3. CASE outcome' # outcome
    <3>1. outcome = "none" /\ outcome' \in Outcomes /\ (outcome' = "completed" => ~AbortAcked)
      BY <1>2, <2>3 DEF SettleFinal, SettleError, Finish, Settle, IInv, TypeOK,
         SettleInv, RaiseInv, Outcomes
    <3>2. \E o \in Job!Outcomes : Job!Settle(o)
      BY <2>1, <3>1 DEF Job!Settle, Job!Outcomes, Outcomes, AbortAcked
    <3>3. QED
      BY <3>2 DEF Job!Next
  <2>4. QED
    BY <2>2, <2>3
<1>3. CASE SendFinal \/ SendError
  <2>1. /\ outcome # "none" /\ sent = <<>>
        /\ sent' = Append(sent, outcome) /\ UNCHANGED <<outcome, ack>>
    BY <1>3 DEF SendFinal, SendError, Send, rest, others, askVars, IInv, SentInv
  <2>2. sent' = <<outcome>>
    BY <2>1
  <2>3. Job!Send
    BY <2>1, <2>2 DEF Job!Send, AbortAcked
  <2>4. QED
    BY <2>3 DEF Job!Next
<1>4. CASE StopDecide
  <2>1. UNCHANGED <<outcome, sent>>
    BY <1>4 DEF StopDecide, restOfStop, turnVars
  <2>2. CASE UNCHANGED ack
    BY <1>1, <2>1, <2>2
  <2>3. CASE ack' # ack
    <3>1. outcome = "none" /\ Acknowledge
      BY <1>4, <2>3 DEF StopDecide
    <3>2. AbortAcked => AbortAcked'
      BY <3>1 DEF Acknowledge, AbortAcked
    <3>3. CASE AbortAcked'
      BY <2>1, <3>1, <3>3 DEF Job!Next, Job!AcceptAbort
    <3>4. CASE ~AbortAcked'
      BY <2>1, <3>2, <3>4 DEF Job!vars, AbortAcked
    <3>5. QED
      BY <3>3, <3>4
  <2>4. QED
    BY <2>2, <2>3
<1>5. CASE StartWatcher \/ Prepare \/ RegisterCapture \/ OwnedCheck \/
           PreStart \/ OpenCheck \/ ReadEnds \/ ReadFrame \/ FeedLock \/
           SendPartial \/ LostPartial \/ Unwind \/ Release \/ EndListen
  <2>1. Unseen
    BY <1>5
    DEF StartWatcher, Prepare, RegisterCapture, OwnedCheck, PreStart, OpenCheck,
         ReadEnds, ReadFrame, FeedLock, SendPartial, LostPartial, Unwind,
         Release, EndListen, StopChecked, At, AtMic, Goto, Raise, others,
         turnVars, askVars
  <2>2. QED
    BY <1>1, <2>1
<1>6. CASE OwnedOpen \/ Construct \/ OpenStart \/ ReadFails \/
           ReadFinishing \/ FeedReturns \/ CloseMic \/ Decode \/ Encode
           \/ Recorded \/ Closed \/ Decoded \/ FinalLock
  <2>1. UNCHANGED <<outcome, sent>>
    BY <1>6, RaiseFailedEffect, CheckedEffect
    DEF OwnedOpen, Construct, OpenStart, ReadFails, ReadFinishing, FeedReturns,
         CloseMic, Decode, Encode, Recorded, Closed, Decoded, FinalLock,
         StartCapture, Goto, turnVars
  <2>2. UNCHANGED ack
    BY <1>6
    DEF OwnedOpen, Construct, OpenStart, ReadFails, ReadFinishing, FeedReturns,
         CloseMic, Decode, Encode, Recorded, Closed, Decoded, FinalLock,
         At, AtMic, others, askVars
  <2>3. QED
    BY <1>1, <2>1, <2>2
<1>7. CASE CloseAll \/ Terminal
  <2>1. UNCHANGED <<outcome, sent>>
    BY <1>7, ResolveEffect, DecideEffect DEF CloseAll, Terminal, At, Goto, turnVars
  <2>2. UNCHANGED ack
    BY <1>7 DEF CloseAll, Terminal, At, AtMic, others, askVars
  <2>3. QED
    BY <1>1, <2>1, <2>2
<1>8. CASE StopRequest \/ StopAwait
  <2>1. Unseen
    BY <1>8 DEF StopRequest, StopAwait, restOfStop, turnVars
  <2>2. QED
    BY <1>1, <2>1
<1>9. CASE WatchStep
  <2>1. Unseen
    BY <1>9 DEF WatchStep, WatchSeesLoss, WatchEnds, WatchAborts, WatchSignals,
       restOfWatch, turnVars, askVars
  <2>2. QED
    BY <1>1, <2>1
<1>10. CASE WorldStep
  <2>1. Unseen
    BY <1>10 DEF WorldStep, Expire, ReceiverDies, OwnedLeaseExpires, OwnedStop,
       Shutdown, ShutdownCloses, ShutdownCleanup, restOfWorld, turnVars, askVars
  <2>2. QED
    BY <1>1, <2>1
<1>11. CASE UNCHANGED vars
  <2>1. Unseen
    BY <1>11 DEF vars, turnVars, askVars
  <2>2. QED
    BY <1>1, <2>1
<1>12. QED
  BY <1>2, <1>3, <1>4, <1>5, <1>6, <1>7, <1>8, <1>9, <1>10, <1>11
     DEF Next, WorkerStep, StopStep

\* A dictation turn implements the contract of a job.
THEOREM Refinement == Spec => ImplementsContract
<1>1. Init => Job!Init
  BY DEF Init, Job!Init, AbortAcked
<1>2. QED
  BY Invariance, StepContract, <1>1, PTL DEF Spec, ImplementsContract, Job!Spec

-----------------------------------------------------------------------------
(* The word an abort in time gets.                                         *)

\* An abort acknowledged in time stays the turn's first cause, so that every
\* later look at the delivery says cancelled; a turn that ends without having
\* settled sends nothing.
TimeInv ==
  ack = "abortInTime" =>
    /\ abort /\ stopAt = "before"
    /\ pc = "settleError" => raised = "cancelled"
    /\ \/ outcome \in {"none", "cancelled"}
       \/ outcome = "failed" /\ sent = <<>> /\ pc \in {"release", "endListen", "done"}

LEMMA TimeStep == IInv /\ TimeInv /\ [Next]_vars => TimeInv'
<1> SUFFICES ASSUME IInv, TimeInv, [Next]_vars PROVE TimeInv'
  OBVIOUS
<1>1. CASE SettleFinal \/ SettleError \/ Finish
  <2>1. UNCHANGED <<raised, sent, abort, stopAt, ack>>
    BY <1>1 DEF SettleFinal, SettleError, Finish, Settle, rest, others, stopVars, askVars
  <2>2. CASE SettleFinal
    BY <2>1, <2>2 DEF SettleFinal, Settle, TimeInv, IInv, SettleInv, AbortAcked
  <2>3. CASE SettleError
    BY <2>1, <2>3 DEF SettleError, Settle, TimeInv
  <2>4. CASE Finish
    BY <2>1, <2>4 DEF Finish, Settle, TimeInv, IInv, SentInv
  <2>5. QED
    BY <1>1, <2>2, <2>3, <2>4
<1>2. CASE SendFinal \/ SendError
  BY <1>2 DEF SendFinal, SendError, Send, rest, others, stopVars, askVars, TimeInv
<1>3. CASE StopDecide
  <2>1. UNCHANGED <<pc, raised, outcome, sent>> /\ pc # "settleError"
    BY <1>3 DEF StopDecide, restOfStop, turnVars, SettleLockFree
  <2>2. CASE outcome # "none"
    <3>1. UNCHANGED <<abort, stopAt, ack>>
      BY <1>3, <2>2 DEF StopDecide, stopVars
    <3>2. QED
      BY <2>1, <3>1 DEF TimeInv
  <2>3. CASE outcome = "none"
    <3>1. /\ abort' = (abort \/ stopMode = "abort")
          /\ stopAt' = StopSet /\ Acknowledge
      BY <1>3, <2>3, Zenon DEF StopDecide
    <3>2. CASE ack = "abortInTime"
      <4>1. stopAt' = "before"
        BY <3>1, <3>2 DEF StopSet, TimeInv
      <4>2. abort'
        BY <3>1, <3>2, Zenon DEF TimeInv
      <4>3. QED
        BY <2>1, <2>3, <4>1, <4>2 DEF TimeInv
    <3>3. CASE ack # "abortInTime" /\ ack' = "abortInTime"
      <4>1. stopMode # "finish" /\ ~expired
        BY <3>1, <3>3 DEF Acknowledge
      <4>2. stopMode = "abort"
        BY <4>1 DEF IInv, TypeOK, Modes
      <4>3. stopAt' = "before"
        BY <3>1, <4>1 DEF StopSet, IInv, TypeOK, StopInv
      <4>4. abort'
        BY <3>1, <4>2, Zenon
      <4>5. QED
        BY <2>1, <2>3, <4>3, <4>4 DEF TimeInv
    <3>4. QED
      BY <3>2, <3>3 DEF TimeInv
  <2>4. QED
    BY <2>2, <2>3
<1>4. CASE StartWatcher \/ Prepare \/ RegisterCapture \/ OwnedCheck \/
           PreStart \/ OpenCheck \/ ReadEnds \/ ReadFrame \/ FeedLock \/
           SendPartial \/ Unwind \/ Release \/ EndListen
  <2>1. /\ UNCHANGED <<abort, stopAt, ack, outcome, sent>>
        /\ pc' # "settleError"
        /\ pc \in {"release", "endListen", "done"} => pc' \in {"endListen", "done"}
    BY <1>4
    DEF StartWatcher, Prepare, RegisterCapture, OwnedCheck, PreStart, OpenCheck,
         ReadEnds, ReadFrame, FeedLock, SendPartial, Unwind, Release, EndListen,
         StopChecked, At, AtMic, Goto, Raise, others, turnVars, stopVars, askVars
  <2>2. QED
    BY <2>1 DEF TimeInv
<1>5. CASE OwnedOpen \/ Construct \/ OpenStart \/ ReadFails \/
           ReadFinishing \/ FeedReturns \/ CloseMic \/ Decode \/ Encode
           \/ Recorded \/ Closed \/ Decoded \/ FinalLock
  <2>1. UNCHANGED <<outcome, sent>> /\ pc' # "settleError"
    BY <1>5, RaiseFailedEffect, CheckedEffect
    DEF OwnedOpen, Construct, OpenStart, ReadFails, ReadFinishing, FeedReturns,
         CloseMic, Decode, Encode, Recorded, Closed, Decoded, FinalLock,
         StartCapture, Goto, turnVars
  <2>2. UNCHANGED <<ack, abort, stopAt>> /\ pc \notin {"release", "endListen", "done"}
    BY <1>5
    DEF OwnedOpen, Construct, OpenStart, ReadFails, ReadFinishing, FeedReturns,
         CloseMic, Decode, Encode, Recorded, Closed, Decoded, FinalLock,
         At, AtMic, others, askVars, stopVars
  <2>3. QED
    BY <2>1, <2>2 DEF TimeInv
<1>6. CASE CloseAll
  <2>1. /\ UNCHANGED <<outcome, sent, ack, abort, stopAt>>
        /\ pc = "closeAll" /\ pc' # "settleError"
    BY <1>6, ResolveEffect DEF CloseAll, AtMic, others, askVars, stopVars
  <2>2. QED
    BY <2>1 DEF TimeInv
<1>7. CASE Terminal
  <2>1. UNCHANGED <<ack, abort, stopAt>> /\ pc = "terminal"
    BY <1>7 DEF Terminal, At, others, askVars, stopVars
  <2>2. CASE Goto("finish")
    BY <2>1, <2>2 DEF Goto, turnVars, TimeInv
  <2>3. CASE Decide
    <3>1. PICK why \in CheckDelivery :
            Raise(IF why = "none" THEN raised ELSE why, "settleError")
      BY <2>3 DEF Decide
    <3>2. ack = "abortInTime" => why = "cancelled"
      BY <3>1 DEF CheckDelivery, Reason, TimeInv
    <3>3. QED
      BY <2>1, <3>1, <3>2 DEF Raise, TimeInv
  <2>4. QED
    BY <1>7, <2>2, <2>3 DEF Terminal
<1>8. CASE LostPartial \/ WatchStep
  <2>1. /\ UNCHANGED <<outcome, sent, ack, raised>>
        /\ stopAt # "never" => UNCHANGED stopAt
        /\ abort => abort'
        /\ UNCHANGED pc \/ (pc = "lostPartial" /\ pc' = "recorded")
    BY <1>8 DEF LostPartial, WatchStep, WatchSeesLoss, WatchEnds, WatchAborts,
       WatchSignals, restOfWatch, turnVars, askVars, stopVars, StopSet, Goto
  <2>2. QED
    BY <2>1 DEF TimeInv
<1>9. CASE StopRequest \/ StopAwait
  BY <1>9 DEF StopRequest, StopAwait, restOfStop, turnVars, stopVars, TimeInv
<1>10. CASE WorldStep
  <2>1. /\ UNCHANGED <<outcome, sent, ack, raised, pc>>
        /\ stopAt # "never" => UNCHANGED stopAt
        /\ abort => abort'
    BY <1>10 DEF WorldStep, Expire, ReceiverDies, OwnedLeaseExpires, OwnedStop,
       Shutdown, ShutdownCloses, ShutdownCleanup, restOfWorld, turnVars, askVars,
       stopVars, StopSet
  <2>2. QED
    BY <2>1 DEF TimeInv
<1>11. CASE UNCHANGED vars
  BY <1>11 DEF vars, turnVars, askVars, stopVars, TimeInv
<1>12. QED
  BY <1>1, <1>2, <1>3, <1>4, <1>5, <1>6, <1>7, <1>8, <1>9, <1>10, <1>11
     DEF Next, WorkerStep, StopStep

\* An abort that was answered in time is never reported as anything else: the
\* token keeps the first cause (Cancellation.reason), and the error is decided
\* under the lock the stop was decided under.
THEOREM InTimeSafe == Spec => []AbortInTimeIsCancelled
<1>1. Init => TimeInv
  BY DEF Init, TimeInv
<1>2. IInv /\ TimeInv => AbortInTimeIsCancelled
  BY DEF IInv, SentInv, TimeInv, AbortInTimeIsCancelled
<1>3. QED
  BY Invariance, TimeStep, <1>1, <1>2, PTL DEF Spec

-----------------------------------------------------------------------------
(* The microphone is accounted for.                                        *)

\* Where the turn is over but for its terminal and its claims, and where it is
\* on its way there.
Over == {"terminal", "settleError", "sendError", "finish", "release", "endListen", "done"}
Late == Over \cup {"sendFinal", "unwind", "closeAll"}

\* The recorder is closed before the worker leaves closeAll, and only then are
\* the claims returned.
ClaimInv ==
  /\ pc \in Over => mic \notin {"open", "killed"}
  /\ pc \notin {"endListen", "done"} => held
  /\ pc # "done" => listening

\* A recorder that runs can be reached through the turn until it is closed; the
\* watcher either stops a turn before its worker's last look, or kills the
\* recorder that was opened after it.
LossInv ==
  /\ outcome # "none" => pc \in Late /\ mic # "open"
  /\ mic = "open" => capRef \/ pc = "closeAll"
  /\ watch \in {"signal", "done"} => stopAt # "never" \/ pc \in Late
  /\ watch = "done" => pc # "openStart"
  /\ ~Owned => pc \notin {"ownedCheck", "ownedOpen"}
  /\ ~Owned /\ watch = "done" => mic # "open" \/ pc = "closeAll"

AccountInv == ClaimInv /\ LossInv

LEMMA AccountStep == IInv /\ AccountInv /\ [Next]_vars => AccountInv'
<1> SUFFICES ASSUME IInv, AccountInv, [Next]_vars PROVE AccountInv'
  OBVIOUS
<1> USE DEF AccountInv, ClaimInv, LossInv, Over, Late, IInv, TypeOK, Outcomes, MicInv,
        Unopened, Delivering, turnVars, stopVars, askVars, micVars, worldVars, claimVars,
        others, At, AtMic, Goto, Raise
<1>1. CASE StartWatcher
  BY <1>1 DEF StartWatcher
<1>2. CASE Prepare
  BY <1>2 DEF Prepare, StopChecked
<1>3. CASE RegisterCapture
  BY <1>3 DEF RegisterCapture
<1>4. CASE OwnedCheck
  BY <1>4 DEF OwnedCheck, StopChecked
<1>5. CASE OwnedOpen
  BY <1>5, RaiseFailedEffect DEF OwnedOpen, StartCapture
<1>6. CASE Construct
  BY <1>6, RaiseFailedEffect DEF Construct
<1>7. CASE PreStart
  BY <1>7 DEF PreStart, StopChecked
<1>8. CASE OpenCheck
  BY <1>8 DEF OpenCheck, StopChecked, Reason
<1>9. CASE OpenStart
  BY <1>9, RaiseFailedEffect DEF OpenStart, StartCapture
<1>10. CASE ReadEnds \/ ReadFrame \/ FeedLock \/ SendPartial
  BY <1>10 DEF ReadEnds, ReadFrame, FeedLock, SendPartial
<1>11. CASE ReadFails \/ FeedReturns \/ Decode \/ Encode
  BY <1>11, RaiseFailedEffect DEF ReadFails, FeedReturns, Decode, Encode
<1>12. CASE ReadFinishing
  BY <1>12, RaiseFailedEffect DEF ReadFinishing
<1>13. CASE LostPartial
  BY <1>13 DEF LostPartial, StopSet, Killed
<1>14. CASE Recorded \/ Closed \/ Decoded \/ FinalLock
  BY <1>14, CheckedEffect, RaiseFailedEffect DEF Recorded, Closed, Decoded, FinalLock
<1>15. CASE CloseMic
  BY <1>15, RaiseFailedEffect DEF CloseMic, CloseProven, CloseUnproven
<1>16. CASE SettleFinal \/ SettleError \/ Finish
  BY <1>16 DEF SettleFinal, SettleError, Finish, Settle, rest
<1>17. CASE SendFinal \/ SendError
  BY <1>17 DEF SendFinal, SendError, Send, rest
<1>18. CASE Unwind
  BY <1>18 DEF Unwind
<1>19. CASE CloseAll
  BY <1>19, ResolveEffect DEF CloseAll, CloseProven, CloseUnproven
<1>20. CASE Terminal
  BY <1>20, DecideEffect DEF Terminal
<1>21. CASE Release
  BY <1>21 DEF Release
<1>22. CASE EndListen
  BY <1>22 DEF EndListen
<1>23. CASE StopRequest \/ StopAwait
  BY <1>23 DEF StopRequest, StopAwait, restOfStop
<1>24. CASE StopDecide
  BY <1>24 DEF StopDecide, restOfStop, StopSet
<1>25. CASE WatchSeesLoss \/ WatchEnds
  BY <1>25 DEF WatchSeesLoss, WatchEnds, restOfWatch
<1>26. CASE WatchAborts
  BY <1>26 DEF WatchAborts, restOfWatch, StopSet
<1>27. CASE WatchSignals
  BY <1>27 DEF WatchSignals, restOfWatch, CaptureLockFree, Killed
<1>28. CASE OwnedStop
  BY <1>28 DEF OwnedStop, restOfWorld, Killed
<1>29. CASE Expire \/ ReceiverDies \/ ShutdownCloses \/ ShutdownCleanup
  BY <1>29 DEF Expire, ReceiverDies, ShutdownCloses, ShutdownCleanup, restOfWorld
<1>30. CASE OwnedLeaseExpires \/ Shutdown
  BY <1>30 DEF OwnedLeaseExpires, Shutdown, restOfWorld, StopSet
<1>31. CASE UNCHANGED vars
  BY <1>31 DEF vars
<1>32. QED
  BY <1>1, <1>2, <1>3, <1>4, <1>5, <1>6, <1>7, <1>8, <1>9, <1>10, <1>11, <1>12,
     <1>13, <1>14, <1>15, <1>16, <1>17, <1>18, <1>19, <1>20, <1>21, <1>22, <1>23, <1>24,
     <1>25, <1>26, <1>27, <1>28, <1>29, <1>30, <1>31
     DEF Next, WorkerStep, StopStep, WatchStep, WorldStep

\* The microphone is never open for nobody, for any number of stops: not for a
\* receiver whose loss _abort_lost_receiver has dealt with, and not once the
\* arbiter was told that listening is over.
THEOREM MicAccountSafe == Spec => []MicIsAccounted
<1>1. Init => AccountInv
  BY DEF Init, AccountInv, ClaimInv, LossInv, Over, Late
<1>2. IInv /\ AccountInv => MicIsAccounted
  BY DEF AccountInv, ClaimInv, LossInv, MicIsAccounted, LossShutsMic, MicIsClaimed, Over
<1>3. QED
  BY Invariance, AccountStep, <1>1, <1>2, PTL DEF Spec

=============================================================================
