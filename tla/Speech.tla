------------------------------- MODULE Speech -------------------------------
(***************************************************************************)
(* Read-aloud: speak, stop-speech and the barge-in of a dictation on the   *)
(* daemon's accept loop, and one worker per turn (Daemon._op_speak,        *)
(* _prepare_speech, _cancel_speech, _run_speech; Arbiter.begin_speech,     *)
(* begin_listen).  The daemon's lock is held by the accept loop from the   *)
(* cancellation of what was in flight to the admission of what is new;     *)
(* each locked section of a worker is one step.                            *)
(*                                                                         *)
(* A player is named after the turn whose worker made it.  Resources that  *)
(* are pending get closed some time, or never (CleanupRegistry); a player  *)
(* that is not closed sounds until its clip ends (Player).                 *)
(***************************************************************************)
EXTENDS Naturals, Sequences, Filter

CONSTANTS
  N,           \* read-aloud turns, in the order they are asked for
  Clips,       \* bound: clips of the first turn; the others have one
  Dictations,  \* bound: dictation turns
  SinksFail,   \* a sink may exit with an error
  Subscribed,  \* turns whose chunks somebody receives
  None

ASSUME SpeechAssumption ==
  /\ N \in Nat /\ Clips \in Nat \ {0} /\ Dictations \in Nat
  /\ SinksFail \in BOOLEAN /\ Subscribed \subseteq 1 .. N
  /\ None \notin 1 .. N

Turns == 1 .. N
ClipsOf(t) == IF t = 1 THEN Clips ELSE 1

VARIABLES
  op,        \* what the accept loop is doing, and for which turn
  reply,     \* how each speak was answered: "none" as long as it was not
  stopped,   \* turns a stop-speech was answered `stopped: true` for
  current,   \* Daemon._speech
  speaking,  \* Arbiter._speaking
  listening, \* Arbiter._listening is set
  mic,       \* the dictation's recorder is open
  dictated,  \* dictation turns so far
  player,    \* Daemon._player
  status,    \* each player: "none", "open", "pending" or "closed"
  sound,     \* the turn whose clip each player plays, or None
  sinkError, \* Player.error is set
  engine,    \* each turn's synthesiser, as status
  pc,        \* where each turn's worker is
  mine,      \* the player a worker got, or None
  clips,     \* clips a worker has synthesised
  played,    \* clips a worker has handed to its player
  cause,     \* Cancellation.reason of each turn
  failure,   \* _SpeechTurn.failure: "none", "synthesis", "deadline", "internal"
  owns,      \* the worker found that its turn was current when it ended
  deaf,      \* turns that lost their subscriber, or have none
  sent,      \* what the turn's subscriber was sent
  outcome    \* the settled outcome

acceptVars == <<op, reply, stopped, dictated>>
arbiterVars == <<current, speaking, listening, mic>>
playerVars == <<player, status, sound, sinkError>>
workerVars == <<pc, mine, clips, played, failure, owns, deaf, sent, outcome>>
vars == <<acceptVars, arbiterVars, playerVars, workerVars, engine, cause>>

Outcomes == {"completed", "cancelled", "deadline", "failed"}

TypeOK ==
  /\ op \in ({"idle", "dictate"} \X {None}) \cup ({"prepare", "admit"} \X Turns)
  /\ reply \in [Turns -> {"none", "ok", "cleanup", "listening", "inFlight", "failed"}]
  /\ stopped \subseteq Turns
  /\ current \in Turns \cup {None}
  /\ speaking \in Turns \cup {None}
  /\ listening \in BOOLEAN /\ mic \in BOOLEAN
  /\ dictated \in 0 .. Dictations
  /\ player \in Turns \cup {None}
  /\ status \in [Turns -> {"none", "open", "pending", "closed"}]
  /\ sound \in [Turns -> Turns \cup {None}]
  /\ sinkError \in [Turns -> BOOLEAN]
  /\ engine \in [Turns -> {"none", "open", "pending", "closed"}]
  /\ pc \in [Turns -> {"unborn", "start", "next", "synth", "play", "await", "report", "close",
                       "detach", "silence", "settle", "tell", "free", "done"}]
  /\ mine \in [Turns -> Turns \cup {None}]
  /\ clips \in [Turns -> 0 .. Clips]
  /\ played \in [Turns -> 0 .. Clips]
  /\ cause \in [Turns -> {"none", "cancelled", "deadline"}]
  /\ failure \in [Turns -> {"none", "synthesis", "deadline", "internal"}]
  /\ owns \subseteq Turns /\ deaf \subseteq Turns
  /\ sent \in [Turns -> Seq({"chunk"} \cup Outcomes)]
  /\ outcome \in [Turns -> Outcomes \cup {"none"}]

Init ==
  /\ op = <<"idle", None>>
  /\ reply = [t \in Turns |-> "none"]
  /\ stopped = {}
  /\ dictated = 0
  /\ current = None /\ speaking = None
  /\ listening = FALSE /\ mic = FALSE
  /\ player = None
  /\ status = [t \in Turns |-> "none"]
  /\ sound = [t \in Turns |-> None]
  /\ sinkError = [t \in Turns |-> FALSE]
  /\ engine = [t \in Turns |-> "none"]
  /\ pc = [t \in Turns |-> "unborn"]
  /\ mine = [t \in Turns |-> None]
  /\ clips = [t \in Turns |-> 0]
  /\ played = [t \in Turns |-> 0]
  /\ cause = [t \in Turns |-> "none"]
  /\ failure = [t \in Turns |-> "none"]
  /\ owns = {} /\ deaf = Turns \ Subscribed
  /\ sent = [t \in Turns |-> <<>>]
  /\ outcome = [t \in Turns |-> "none"]

\* The accept loop holds the daemon's lock.
Locked == op[1] \in {"admit", "dictate"}
Retained == \E t \in Turns : engine[t] = "pending" \/ status[t] = "pending"
\* Also what was closed before is registered again, and closed again.
Pend(s, t) == IF t \in Turns THEN [s EXCEPT ![t] = "pending"] ELSE s
Goto(t, next) == pc' = [pc EXCEPT ![t] = next]

-----------------------------------------------------------------------------
(* The accept loop.                                                        *)

\* Mutant: the player goes on with what it was given.
CancelTurnOnly ==
  /\ cause' = IF current # None /\ cause[current] = "none"
              THEN [cause EXCEPT ![current] = "cancelled"] ELSE cause
  /\ engine' = Pend(engine, current)
  /\ speaking' = IF speaking = current THEN None ELSE speaking
  /\ current' = None
  /\ UNCHANGED status

\* _cancel_speech: the turn is detached and stopped, its synthesiser and the
\* player are to be closed.
Cancel ==
  /\ cause' = IF current # None /\ cause[current] = "none"
              THEN [cause EXCEPT ![current] = "cancelled"] ELSE cause
  /\ engine' = Pend(engine, current)
  /\ status' = Pend(status, player)
  /\ speaking' = IF speaking = current THEN None ELSE speaking
  /\ current' = None

\* speak is refused while cleanup is unproven; else its engine is made and
\* registered, and checked.
SpeakBegin(t) ==
  /\ op = <<"idle", None>>
  /\ reply[t] = "none" /\ \A u \in 1 .. t - 1 : reply[u] # "none"
  /\ IF Retained
     THEN reply' = [reply EXCEPT ![t] = "cleanup"] /\ UNCHANGED <<op, engine>>
     ELSE op' = <<"prepare", t>> /\ engine' = [engine EXCEPT ![t] = "open"] /\ UNCHANGED reply
  /\ UNCHANGED <<stopped, dictated, arbiterVars, playerVars, workerVars, cause>>

Refuse(t, why, engines) ==
  /\ op' = <<"idle", None>>
  /\ reply' = [reply EXCEPT ![t] = why]
  /\ engine' = Pend(engines, t)

\* The provider is missing, the text too long, the budget spent.
SpeakFails(t) ==
  /\ op = <<"prepare", t>>
  /\ Refuse(t, "failed", engine)
  /\ UNCHANGED <<stopped, dictated, arbiterVars, playerVars, workerVars, cause>>

\* "A new read replaces the old one."
SpeakReplaces(t) ==
  /\ op = <<"prepare", t>>
  /\ op' = <<"admit", t>>
  /\ Cancel
  /\ UNCHANGED <<reply, stopped, dictated, listening, mic, player, sound, sinkError, workerVars>>

\* Mutant: what is retained is not looked at again under the lock.
SpeakAdmitAny(t) ==
  /\ op = <<"admit", t>>
  /\ IF listening
     THEN Refuse(t, "listening", engine) /\ UNCHANGED <<current, speaking, pc>>
     ELSE /\ op' = <<"idle", None>> /\ reply' = [reply EXCEPT ![t] = "ok"]
          /\ current' = t /\ speaking' = t /\ Goto(t, "start")
          /\ UNCHANGED engine
  /\ UNCHANGED <<stopped, dictated, listening, mic, playerVars, mine, clips, played, failure,
                 owns, deaf, sent, outcome, cause>>

\* Still under the lock: refused while cleanup is unproven, while dictation
\* listens, and while another turn has not given the speakers back.  A worker
\* the system refuses to start gives the claim back.
SpeakAdmit(t) ==
  /\ op = <<"admit", t>>
  /\ \/ Retained /\ Refuse(t, "cleanup", engine) /\ UNCHANGED <<current, speaking, pc>>
     \/ ~Retained /\ listening /\ Refuse(t, "listening", engine)
        /\ UNCHANGED <<current, speaking, pc>>
     \/ ~Retained /\ ~listening /\ speaking # None /\ Refuse(t, "inFlight", engine)
        /\ UNCHANGED <<current, speaking, pc>>
     \/ /\ ~Retained /\ ~listening /\ speaking = None
        /\ \/ /\ op' = <<"idle", None>> /\ reply' = [reply EXCEPT ![t] = "ok"]
              /\ current' = t /\ speaking' = t /\ Goto(t, "start")
              /\ UNCHANGED engine
           \/ /\ Refuse(t, "failed", engine)
              /\ UNCHANGED <<current, speaking, pc>>
  /\ UNCHANGED <<stopped, dictated, listening, mic, playerVars, mine, clips, played, failure,
                 owns, deaf, sent, outcome, cause>>

StopSpeech ==
  /\ op = <<"idle", None>>
  /\ stopped' = IF current = None THEN stopped ELSE stopped \cup {current}
  /\ Cancel
  /\ UNCHANGED <<op, reply, dictated, listening, mic, player, sound, sinkError, workerVars>>

\* dictate: refused while it is listening or while cleanup is unproven ...
DictateBegin ==
  /\ op = <<"idle", None>> /\ dictated < Dictations
  /\ ~listening /\ ~Retained
  /\ op' = <<"dictate", None>>
  /\ dictated' = dictated + 1
  /\ Cancel
  /\ UNCHANGED <<reply, stopped, listening, mic, player, sound, sinkError, workerVars>>

\* ... also after it cancelled what was in flight.  Barge-in takes the
\* speakers from a turn that has not given them back yet.
DictateAdmit ==
  /\ op = <<"dictate", None>>
  /\ op' = <<"idle", None>>
  /\ IF Retained THEN UNCHANGED <<listening, speaking>> ELSE listening' = TRUE /\ speaking' = None
  /\ UNCHANGED <<reply, stopped, dictated, current, mic, playerVars, workerVars, engine, cause>>

-----------------------------------------------------------------------------
(* The dictation turn (Dictation), the players and the cleanup attempts.   *)

OpenMic ==
  /\ listening /\ ~mic
  /\ mic' = TRUE
  /\ UNCHANGED <<acceptVars, current, speaking, listening, playerVars, workerVars, engine, cause>>

EndListen ==
  /\ listening
  /\ mic' = FALSE /\ listening' = FALSE
  /\ UNCHANGED <<acceptVars, current, speaking, playerVars, workerVars, engine, cause>>

ClipEnds(p) ==
  /\ sound[p] # None
  /\ sound' = [sound EXCEPT ![p] = None]
  /\ \/ UNCHANGED sinkError
     \/ SinksFail /\ sinkError' = [sinkError EXCEPT ![p] = TRUE]
  /\ UNCHANGED <<acceptVars, arbiterVars, player, status, workerVars, engine, cause>>

ClosePlayer(p) ==
  /\ status[p] = "pending"
  /\ status' = [status EXCEPT ![p] = "closed"]
  /\ sound' = [sound EXCEPT ![p] = None]
  /\ player' = IF player = p THEN None ELSE player
  /\ UNCHANGED <<acceptVars, arbiterVars, sinkError, workerVars, engine, cause>>

CloseEngine(t) ==
  /\ engine[t] = "pending"
  /\ engine' = [engine EXCEPT ![t] = "closed"]
  /\ UNCHANGED <<acceptVars, arbiterVars, playerVars, workerVars, cause>>

\* The budget is spent.  Nobody asks once the turn is settled.
Expire(t) ==
  /\ cause[t] = "none" /\ pc[t] \notin {"unborn", "tell", "free", "done"}
  /\ cause' = [cause EXCEPT ![t] = "deadline"]
  /\ UNCHANGED <<acceptVars, arbiterVars, playerVars, workerVars, engine>>

-----------------------------------------------------------------------------
(* The worker.                                                             *)

workerRest == <<acceptVars, arbiterVars, engine, cause>>

\* _get_player.  The cleanup that takes a closed player away holds another
\* lock, and can do so between the two looks at it.
GetPlayer(t) ==
  /\ pc[t] = "start" /\ ~Locked
  /\ Goto(t, "next")
  /\ \/ /\ player = None
        /\ player' = t /\ status' = [status EXCEPT ![t] = "open"]
        /\ mine' = [mine EXCEPT ![t] = t]
        /\ UNCHANGED sound
     \/ /\ player # None
        /\ mine' = [mine EXCEPT ![t] = player]
        /\ UNCHANGED <<player, status, sound>>
     \/ /\ player # None /\ status[player] = "pending"
        /\ player' = None /\ status' = [status EXCEPT ![player] = "closed"]
        /\ sound' = [sound EXCEPT ![player] = None]
        /\ UNCHANGED mine
  /\ UNCHANGED <<workerRest, sinkError, clips, played, failure, owns, deaf, sent, outcome>>

\* The next clip, unless the turn is over.
NextClip(t) ==
  /\ pc[t] = "next"
  /\ \/ cause[t] = "none" /\ Goto(t, "synth")
     \/ cause[t] # "none" /\ Goto(t, IF played[t] = 0 THEN "report" ELSE "await")
  /\ UNCHANGED <<workerRest, playerVars, mine, clips, played, failure, owns, deaf, sent, outcome>>

\* _synth: an engine that was closed gives an empty clip, any other may fail
\* or run out of the budget, whether or not the turn is over by then.
Synth(t) ==
  /\ pc[t] = "synth"
  /\ \/ /\ clips' = [clips EXCEPT ![t] = @ + 1]
        /\ Goto(t, IF played[t] = 0 THEN "play" ELSE "await")
        /\ UNCHANGED failure
     \/ /\ engine[t] # "closed"
        /\ \E f \in {"synthesis", "deadline"} : failure' = [failure EXCEPT ![t] = f]
        /\ Goto(t, "report")
        /\ UNCHANGED clips
  /\ UNCHANGED <<workerRest, playerVars, mine, played, owns, deaf, sent, outcome>>

\* _publish_chunk: the clip's descriptor is sent, or is malformed and skipped,
\* or cannot be delivered, which is the end of the subscription.
Publish(t) ==
  \/ t \notin deaf /\ sent' = [sent EXCEPT ![t] = Append(@, "chunk")] /\ UNCHANGED deaf
  \/ t \notin deaf /\ deaf' = deaf \cup {t} /\ UNCHANGED sent
  \/ UNCHANGED <<deaf, sent>>

\* Mutant: the turn is looked at before the lock is taken.
PlayUnchecked(t) ==
  /\ pc[t] = "play" /\ ~Locked /\ mine[t] # None
  /\ sound' = [sound EXCEPT ![mine[t]] = t]
  /\ sinkError' = [sinkError EXCEPT ![mine[t]] = FALSE]
  /\ played' = [played EXCEPT ![t] = @ + 1]
  /\ Publish(t)
  /\ Goto(t, IF clips[t] < ClipsOf(t) THEN "next" ELSE "await")
  /\ UNCHANGED <<workerRest, player, status, mine, clips, failure, owns, outcome>>

\* _play_if_current: a stopped, replaced or expired turn plays and publishes
\* nothing.  The clip clears the player's error; the next one is synthesised
\* while it plays.
PlayIfCurrent(t) ==
  /\ pc[t] = "play" /\ ~Locked
  /\ IF cause[t] # "none" \/ current # t
     THEN Goto(t, "report") /\ UNCHANGED <<sound, sinkError, played, deaf, sent>>
     ELSE /\ sound' = [sound EXCEPT ![mine[t]] = t]
          /\ sinkError' = [sinkError EXCEPT ![mine[t]] = FALSE]
          /\ played' = [played EXCEPT ![t] = @ + 1]
          /\ Publish(t)
          /\ Goto(t, IF clips[t] < ClipsOf(t) THEN "next" ELSE "await")
  /\ UNCHANGED <<workerRest, player, status, mine, clips, failure, owns, outcome>>

\* _await_clip, then the next clip if there is one.
Await(t) ==
  /\ pc[t] = "await"
  /\ \/ cause[t] # "none" /\ Goto(t, "report")
     \/ cause[t] = "none" /\ sound[mine[t]] = None
        /\ Goto(t, IF played[t] < clips[t] THEN "play" ELSE "report")
  /\ UNCHANGED <<workerRest, playerVars, mine, clips, played, failure, owns, deaf, sent, outcome>>

\* The end of the loop, or what ended it early.  A worker that got no player
\* finds out when it asks it for its error.  What status shows of it is left
\* out.
Report(t) ==
  /\ pc[t] = "report" /\ ~Locked
  /\ Goto(t, "close")
  /\ failure' = IF failure[t] = "none" /\ mine[t] = None /\ cause[t] # "deadline"
                THEN [failure EXCEPT ![t] = "internal"] ELSE failure
  /\ UNCHANGED <<workerRest, playerVars, mine, clips, played, owns, deaf, sent, outcome>>

\* The worker's own attempt to close its synthesiser: pending before it can
\* block, closed if it is proven.
CloseOwn(t) ==
  /\ pc[t] = "close"
  /\ Goto(t, "detach")
  /\ engine' \in {Pend(engine, t), [engine EXCEPT ![t] = "closed"]}
  /\ UNCHANGED <<acceptVars, arbiterVars, playerVars, mine, clips, played, failure, owns, deaf,
                 sent, outcome, cause>>

Detach(t) ==
  /\ pc[t] = "detach" /\ ~Locked
  /\ Goto(t, "silence")
  /\ owns' = IF current = t THEN owns \cup {t} ELSE owns
  /\ current' = IF current = t THEN None ELSE current
  /\ UNCHANGED <<acceptVars, speaking, listening, mic, playerVars, mine, clips, played, failure,
                 deaf, sent, outcome, engine, cause>>

\* A turn that expired while it was current takes the player down with it.
SilenceOwn(t) ==
  /\ pc[t] = "silence"
  /\ Goto(t, "settle")
  /\ status' = IF t \in owns /\ cause[t] # "none" THEN Pend(status, mine[t]) ELSE status
  /\ owns' = owns \ {t}
  /\ UNCHANGED <<workerRest, player, sound, sinkError, mine, clips, played, failure, deaf, sent,
                 outcome>>

\* The first cause first.
Outcome(t) ==
  IF failure[t] = "deadline" THEN "deadline"
  ELSE IF failure[t] # "none" THEN "failed"
  ELSE IF cause[t] # "none" THEN cause[t]
  ELSE IF mine[t] # None /\ sinkError[mine[t]] THEN "failed"
  ELSE "completed"

Settle(t) ==
  /\ pc[t] = "settle"
  /\ Goto(t, "tell")
  /\ outcome' = [outcome EXCEPT ![t] = Outcome(t)]
  /\ UNCHANGED <<workerRest, playerVars, mine, clips, played, failure, owns, deaf, sent>>

\* The terminal ends the stream of a subscriber that is still there.
Tell(t) ==
  /\ pc[t] = "tell"
  /\ Goto(t, "free")
  /\ sent' = IF t \in deaf THEN sent ELSE [sent EXCEPT ![t] = Append(@, outcome[t])]
  /\ UNCHANGED <<workerRest, playerVars, mine, clips, played, failure, owns, deaf, outcome>>

\* Mutant: a worker keeps the speakers.
FreeNothing(t) ==
  /\ pc[t] = "free"
  /\ Goto(t, "done")
  /\ UNCHANGED <<acceptVars, arbiterVars, playerVars, mine, clips, played, failure,
                 owns, deaf, sent, outcome, engine, cause>>

\* The last thing a worker does is to give the speakers back.
Free(t) ==
  /\ pc[t] = "free"
  /\ Goto(t, "done")
  /\ speaking' = IF speaking = t THEN None ELSE speaking
  /\ UNCHANGED <<acceptVars, current, listening, mic, playerVars, mine, clips, played, failure,
                 owns, deaf, sent, outcome, engine, cause>>

-----------------------------------------------------------------------------
Accept ==
  \/ \E t \in Turns : SpeakBegin(t) \/ SpeakFails(t) \/ SpeakReplaces(t) \/ SpeakAdmit(t)
  \/ StopSpeech \/ DictateBegin \/ DictateAdmit

Worker(t) ==
  \/ GetPlayer(t) \/ NextClip(t) \/ Synth(t) \/ PlayIfCurrent(t) \/ Await(t) \/ Report(t)
  \/ CloseOwn(t) \/ Detach(t) \/ SilenceOwn(t) \/ Settle(t) \/ Tell(t) \/ Free(t)

Next ==
  \/ Accept
  \/ \E t \in Turns : Worker(t) \/ ClipEnds(t) \/ ClosePlayer(t) \/ CloseEngine(t) \/ Expire(t)
  \/ OpenMic \/ EndListen

Spec == Init /\ [][Next]_vars

\* Synthesis is bounded, and a clip that is awaited ends or the turn is
\* stopped; the accept loop finishes the request it is on.
Fairness ==
  /\ \A t \in Turns : WF_vars(Worker(t)) /\ WF_vars(ClipEnds(t))
  /\ WF_vars(op[1] # "idle" /\ Accept)

FairSpec == Spec /\ Fairness

-----------------------------------------------------------------------------
(* Properties.                                                             *)

\* The microphone never hears the speakers: no player has a clip while the
\* recorder is open (Arbiter: "half-duplex").
HalfDuplex == mic => \A p \in Turns : sound[p] = None

\* A new read replaces the old one: while a turn is the current one, no clip
\* of another turn is heard, on whatever player.
OnlyTheCurrentSounds ==
  current # None => \A p \in Turns : sound[p] \in {None, current}

\* The two records of who speaks agree, the daemon's current turn and the
\* arbiter's claim, and a claim has a worker that will give it back, or the
\* session would be speaking for ever (_start: "giving the claim back").
ClaimIsLive ==
  /\ current # None => speaking = current
  /\ speaking # None => pc[speaking] \notin {"unborn", "done"}

\* After stop-speech answered that a turn was stopped, the turn hands no clip
\* to a player and no chunk to its subscriber.
NothingAfterStop ==
  [][\A t \in stopped :
       played'[t] = played[t] /\ (Len(sent'[t]) > Len(sent[t]) => pc[t] = "tell")]_vars

\* The speakers have one user, who will return them, and never together with
\* the microphone.
SpeakersAreClaimed == HalfDuplex /\ ClaimIsLive

\* A turn's terminal messages.
Terminals(t) == Only(sent[t], Outcomes)
Job(t) == INSTANCE JobContract WITH sent <- Terminals(t), outcome <- outcome[t],
                                    aborted <- t \in stopped

\* Each turn is a job as its subscriber was promised it: one outcome, one
\* terminal that says so, and never "completed" once the stop was answered.
ImplementsJob ==
  /\ \A t \in Turns : Job(t)!Init
  /\ [][\A t \in Turns : Job(t)!Next \/ UNCHANGED Job(t)!vars]_vars

\* A job keeps its contract and a stop its word.
StopIsHonoured == ImplementsJob /\ NothingAfterStop

\* Every turn that was admitted ends, settled, and without the speakers.
EveryTurnEnds ==
  \A t \in Turns : reply[t] = "ok" ~> (pc[t] = "done" /\ outcome[t] # "none" /\ speaking # t)

\* _prepare_speech: "a new read replaces the old one".  Does a speak ever meet
\* a turn in flight?
NewReadIsAdmitted == \A t \in Turns : reply[t] # "inFlight"

\* A turn that was stopped is settled as cancelled, or by what had ended it
\* before, and not as a fault of the daemon.
StopIsNoFault == \A t \in stopped : failure[t] # "internal"
=============================================================================
