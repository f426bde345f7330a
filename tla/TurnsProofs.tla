----------------------------- MODULE TurnsProofs -----------------------------
(***************************************************************************)
(* Both kinds of dictation turn: what DictationProofs proves of a turn is  *)
(* proved for any value of Owned and MaxStops, so that it holds of the     *)
(* ordinary turn as it is, and of the owned one as an instance.            *)
(***************************************************************************)
EXTENDS MCDictation, DictationProofs

Named == INSTANCE DictationProofs WITH Owned <- TRUE, MaxStops <- OwnedStops

\* The owned turn of the composition is the one DictationProofs is about.
LEMMA NamedStart == OwnedTurn!Init => Named!Init
BY DEF OwnedTurn!Init, Named!Init

\* So are its steps.
LEMMA NamedStep == OwnedTurn!Next => Named!Next
BY DEF OwnedTurn!Next, Named!Next, OwnedTurn!WorkerStep, Named!WorkerStep,
       OwnedTurn!StartWatcher, Named!StartWatcher, OwnedTurn!Goto, Named!Goto,
       OwnedTurn!turnVars, Named!turnVars, OwnedTurn!Raise, Named!Raise, OwnedTurn!others,
       Named!others, OwnedTurn!stopVars, Named!stopVars, OwnedTurn!askVars, Named!askVars,
       OwnedTurn!worldVars, Named!worldVars, OwnedTurn!claimVars, Named!claimVars,
       OwnedTurn!micVars, Named!micVars, OwnedTurn!Prepare, Named!Prepare, OwnedTurn!At,
       Named!At, OwnedTurn!StopChecked, Named!StopChecked, OwnedTurn!Reason, Named!Reason,
       OwnedTurn!RegisterCapture, Named!RegisterCapture, OwnedTurn!OwnedCheck, Named!OwnedCheck,
       OwnedTurn!OwnedOpen, Named!OwnedOpen, OwnedTurn!AtMic, Named!AtMic,
       OwnedTurn!StartCapture, Named!StartCapture, OwnedTurn!RaiseFailed, Named!RaiseFailed,
       OwnedTurn!CheckDelivery, Named!CheckDelivery, OwnedTurn!ReceiverAlive,
       Named!ReceiverAlive, OwnedTurn!Construct, Named!Construct, OwnedTurn!PreStart,
       Named!PreStart, OwnedTurn!OpenCheck, Named!OpenCheck, OwnedTurn!OpenStart,
       Named!OpenStart, OwnedTurn!ReadEnds, Named!ReadEnds, OwnedTurn!ReadFails,
       Named!ReadFails, OwnedTurn!ReadFrame, Named!ReadFrame, OwnedTurn!LoopEnds,
       Named!LoopEnds, OwnedTurn!StopDone, Named!StopDone, OwnedTurn!ReadFinishing,
       Named!ReadFinishing, OwnedTurn!FeedLock, Named!FeedLock, OwnedTurn!ProgressLockFree,
       Named!ProgressLockFree, OwnedTurn!FeedReturns, Named!FeedReturns, OwnedTurn!SendPartial,
       Named!SendPartial, OwnedTurn!LostPartial, Named!LostPartial, OwnedTurn!StopSet,
       Named!StopSet, OwnedTurn!Killed, Named!Killed, OwnedTurn!Recorded, Named!Recorded,
       OwnedTurn!CheckedGoto, Named!CheckedGoto, OwnedTurn!CloseMic, Named!CloseMic,
       OwnedTurn!CloseProven, Named!CloseProven, OwnedTurn!CloseUnproven, Named!CloseUnproven,
       OwnedTurn!Closed, Named!Closed, OwnedTurn!Decode, Named!Decode, OwnedTurn!Decoded,
       Named!Decoded, OwnedTurn!Encode, Named!Encode, OwnedTurn!FinalLock, Named!FinalLock,
       OwnedTurn!SettleFinal, Named!SettleFinal, OwnedTurn!Settle, Named!Settle, OwnedTurn!rest,
       Named!rest, OwnedTurn!SendFinal, Named!SendFinal, OwnedTurn!Send, Named!Send,
       OwnedTurn!Unwind, Named!Unwind, OwnedTurn!CloseAll, Named!CloseAll, OwnedTurn!Resolve,
       Named!Resolve, OwnedTurn!Terminal, Named!Terminal, OwnedTurn!Decide, Named!Decide,
       OwnedTurn!SettleError, Named!SettleError, OwnedTurn!SendError, Named!SendError,
       OwnedTurn!Finish, Named!Finish, OwnedTurn!Release, Named!Release, OwnedTurn!EndListen,
       Named!EndListen, OwnedTurn!StopStep, Named!StopStep, OwnedTurn!StopRequest,
       Named!StopRequest, OwnedTurn!Modes, Named!Modes, OwnedTurn!restOfStop, Named!restOfStop,
       OwnedTurn!StopAwait, Named!StopAwait, OwnedTurn!StopDecide, Named!StopDecide,
       OwnedTurn!SettleLockFree, Named!SettleLockFree, OwnedTurn!Acknowledge, Named!Acknowledge,
       OwnedTurn!WatchStep, Named!WatchStep, OwnedTurn!WatchSeesLoss, Named!WatchSeesLoss,
       OwnedTurn!restOfWatch, Named!restOfWatch, OwnedTurn!WatchEnds, Named!WatchEnds,
       OwnedTurn!WatchAborts, Named!WatchAborts, OwnedTurn!WatchSignals, Named!WatchSignals,
       OwnedTurn!CaptureLockFree, Named!CaptureLockFree, OwnedTurn!WorldStep, Named!WorldStep,
       OwnedTurn!Expire, Named!Expire, OwnedTurn!restOfWorld, Named!restOfWorld,
       OwnedTurn!ReceiverDies, Named!ReceiverDies, OwnedTurn!OwnedLeaseExpires,
       Named!OwnedLeaseExpires, OwnedTurn!OwnedStop, Named!OwnedStop, OwnedTurn!Shutdown,
       Named!Shutdown, OwnedTurn!ShutdownCloses, Named!ShutdownCloses,
       OwnedTurn!ShutdownCleanup, Named!ShutdownCleanup

\* A turn stays of its kind, and takes only the steps of that kind.
LEMMA OneKind ==
  MCSpec => \/ [](kind = "ordinary") /\ Spec
            \/ [](kind = "owned") /\ Named!Spec
<1>1. MCInit => (kind = "ordinary" /\ Init) \/ (kind = "owned" /\ Named!Init)
  BY NamedStart DEF MCInit
<1>2. kind = "ordinary" /\ [MCNext]_<<vars, kind>> => (kind = "ordinary")' /\ [Next]_vars
  BY DEF MCNext
<1>3. kind = "owned" /\ [MCNext]_<<vars, kind>> => (kind = "owned")' /\ [Named!Next]_(Named!vars)
  BY NamedStep
     DEF MCNext, vars, turnVars, stopVars, askVars, micVars, worldVars, claimVars, Named!vars,
         Named!turnVars, Named!stopVars, Named!askVars, Named!micVars, Named!worldVars,
         Named!claimVars
<1>4. MCSpec => MCInit /\ [][MCNext]_<<vars, kind>>
  BY PTL DEF MCSpec
<1> QED BY <1>1, <1>2, <1>3, <1>4, PTL DEF Spec, Named!Spec

\* The microphone is never open for nobody, in a turn of either kind and for any
\* number of stops: not for a receiver whose loss _abort_lost_receiver has dealt
\* with, not once the arbiter was told that listening is over, and not when the
\* recogniser of an owned turn hangs (_run_dictation).
THEOREM MicAlwaysSafe == MCSpec => []MicIsAlwaysAccounted
<1>1. Named!Spec => [](Named!MicIsAccounted)
  BY MCDictationAssumption, Named!MicAccountSafe
<1>2. kind = "ordinary" /\ MicIsAccounted => MicIsAlwaysAccounted
  BY DEF MicIsAlwaysAccounted
<1>3. kind = "owned" /\ Named!MicIsAccounted => MicIsAlwaysAccounted
  BY DEF MicIsAlwaysAccounted, OwnedTurn!MicIsAccounted, Named!MicIsAccounted,
         OwnedTurn!LossShutsMic, Named!LossShutsMic, OwnedTurn!MicIsClaimed, Named!MicIsClaimed
<1> QED BY <1>1, <1>2, <1>3, OneKind, MicAccountSafe, PTL
=============================================================================
