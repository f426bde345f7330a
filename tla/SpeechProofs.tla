---------------------------- MODULE SpeechProofs ----------------------------
(***************************************************************************)
(* The speakers have one user, never together with the microphone, and a   *)
(* turn keeps the contract of a job: proved for any number of read-aloud   *)
(* turns and of dictations.                                                *)
(***************************************************************************)
EXTENDS Speech, FilterProofs

Places == {"unborn", "start", "next", "synth", "play", "await", "report", "close", "detach",
           "silence", "settle", "tell", "free", "done"}
Running == {"start", "next", "synth", "play", "await", "report", "close", "detach"}
Unsettled == Running \cup {"unborn", "silence", "settle"}
Ops == ({"idle", "dictate"} \X {None}) \cup ({"prepare", "admit"} \X Turns)

TypeInv ==
  /\ op \in Ops
  /\ reply \in [Turns -> {"none", "ok", "cleanup", "listening", "inFlight", "failed"}]
  /\ stopped \subseteq Turns
  /\ current \in Turns \cup {None} /\ speaking \in Turns \cup {None}
  /\ listening \in BOOLEAN /\ mic \in BOOLEAN
  /\ player \in Turns \cup {None}
  /\ status \in [Turns -> {"none", "open", "pending", "closed"}]
  /\ sound \in [Turns -> Turns \cup {None}]
  /\ pc \in [Turns -> Places]
  /\ mine \in [Turns -> Turns \cup {None}]
  /\ cause \in [Turns -> {"none", "cancelled", "deadline"}]
  /\ failure \in [Turns -> {"none", "synthesis", "deadline", "internal"}]
  /\ owns \subseteq Turns
  /\ played \in [Turns -> Nat]
  /\ sent \in [Turns -> Seq({"chunk"} \cup Outcomes)]
  /\ outcome \in [Turns -> Outcomes \cup {"none"}]

\* A turn has a worker once it was admitted; the one that is current is being
\* run, and claims the speakers.
TurnInv ==
  /\ \A t \in Turns : pc[t] # "unborn" <=> reply[t] = "ok"
  /\ op[1] \in {"prepare", "admit"} => reply[op[2]] = "none"
  /\ current # None => pc[current] \in Running /\ speaking = current
  /\ speaking # None => pc[speaking] \notin {"unborn", "done"}

\* A player is named after a turn whose worker has one.
NameInv ==
  \A t \in Turns :
    /\ pc[t] \in {"unborn", "start"} => status[t] = "none" /\ mine[t] = None
    /\ mine[t] # None => status[mine[t]] # "none"

\* The daemon's player is the one that is not closed, and only such a one sounds.
PlayerInv ==
  /\ player # None => status[player] \in {"open", "pending"}
  /\ \A p \in Turns : status[p] = "open" => player = p
  /\ \A p \in Turns : sound[p] # None => status[p] \in {"open", "pending"}

\* While a turn is current its player stays open: none that was current before
\* it takes that player down when it ends.
OpenInv ==
  /\ current # None /\ player # None => status[player] = "open"
  /\ current # None /\ mine[current] # None => mine[current] = player
  /\ \A t \in owns : /\ pc[t] = "silence"
                     /\ current # None /\ mine[t] # None => mine[t] # player

\* From the cancellation to the admission nothing plays on: the accept loop has
\* the lock, no turn is current, and the player is to be closed.
LockInv ==
  Locked => current = None /\ (player # None => status[player] = "pending")

\* Whoever listens does so in silence.
ListenInv ==
  /\ mic => listening
  /\ listening => current = None /\ \A p \in Turns : sound[p] = None

HeardInv == OnlyTheCurrentSounds

\* A turn that is not settled has no outcome, one that is has the one it tells.
SettledInv ==
  \A t \in Turns :
    /\ pc[t] \in Unsettled => outcome[t] = "none"
    /\ pc[t] \in {"tell", "free", "done"} => outcome[t] \in Outcomes

SpeechInv ==
  /\ TypeInv /\ TurnInv /\ NameInv /\ PlayerInv /\ OpenInv /\ LockInv /\ ListenInv
  /\ HeardInv /\ SettledInv

\* A turn that was stopped carries the cause, before it is settled ...
StoppedInv == \A t \in stopped : cause[t] # "none"

\* ... and its terminal is told once, after that.
ToldInv == \A t \in Turns : pc[t] \in Unsettled \cup {"tell"} => Terminals(t) = <<>>

\* An admission that is refused only answers; one that is not makes the turn the
\* current one, and the speakers were free.
LEMMA AdmitCases ==
  ASSUME NEW t \in Turns, SpeakAdmit(t)
  PROVE  /\ op = <<"admit", t>> /\ op' = <<"idle", None>>
         /\ UNCHANGED <<stopped, listening, mic, playerVars, mine, clips, played, failure, owns,
                        sent, outcome, cause>>
         /\ \/ /\ \E why \in {"cleanup", "listening", "inFlight", "failed"} :
                    reply' = [reply EXCEPT ![t] = why]
               /\ UNCHANGED <<current, speaking, pc>>
            \/ /\ ~Retained /\ ~listening /\ speaking = None
               /\ reply' = [reply EXCEPT ![t] = "ok"]
               /\ current' = t /\ speaking' = t /\ pc' = [pc EXCEPT ![t] = "start"]
<1>1. op = <<"admit", t>> /\ op' = <<"idle", None>>
  BY DEF SpeakAdmit, Refuse
<1>2. UNCHANGED <<stopped, listening, mic, playerVars, mine, clips, played, failure, owns, sent,
                  outcome, cause>>
  BY DEF SpeakAdmit
<1>3. \/ /\ \E why \in {"cleanup", "listening", "inFlight", "failed"} :
             reply' = [reply EXCEPT ![t] = why]
         /\ UNCHANGED <<current, speaking, pc>>
      \/ /\ ~Retained /\ ~listening /\ speaking = None
         /\ reply' = [reply EXCEPT ![t] = "ok"]
         /\ current' = t /\ speaking' = t /\ pc' = [pc EXCEPT ![t] = "start"]
  BY DEF SpeakAdmit, Refuse, Goto
<1> QED BY <1>1, <1>2, <1>3

\* A worker makes a player when there is none; else it takes the one there is, or
\* finds that it was taken away.
LEMMA PlayerCases ==
  ASSUME NEW t \in Turns, GetPlayer(t)
  PROVE  /\ pc[t] = "start" /\ ~Locked /\ pc' = [pc EXCEPT ![t] = "next"]
         /\ UNCHANGED <<acceptVars, arbiterVars, cause, played, failure, owns, sent, outcome>>
         /\ \/ /\ player = None /\ player' = t /\ status' = [status EXCEPT ![t] = "open"]
               /\ mine' = [mine EXCEPT ![t] = t] /\ UNCHANGED sound
            \/ /\ player # None /\ mine' = [mine EXCEPT ![t] = player]
               /\ UNCHANGED <<player, status, sound>>
            \/ /\ player # None /\ status[player] = "pending" /\ player' = None
               /\ status' = [status EXCEPT ![player] = "closed"]
               /\ sound' = [sound EXCEPT ![player] = None] /\ UNCHANGED mine
  BY DEF GetPlayer, Goto, workerRest

\* Each step keeps the types.
LEMMA TypeStep ==
  ASSUME TypeInv, SettledInv, [Next]_vars
  PROVE  TypeInv'
<1>1. ASSUME NEW t \in Turns, SpeakBegin(t) PROVE TypeInv'
  <2>1. op' \in Ops
    BY <1>1 DEF SpeakBegin, Ops, TypeInv
  <2> QED BY <1>1, <2>1 DEF SpeakBegin, arbiterVars, playerVars, workerVars, TypeInv
<1>2. ASSUME NEW t \in Turns, SpeakFails(t) PROVE TypeInv'
  BY <1>2, SpeechAssumption DEF SpeakFails, Refuse, arbiterVars, playerVars, workerVars, TypeInv,
       Ops, Turns, Places
<1>3. ASSUME NEW t \in Turns, SpeakReplaces(t) PROVE TypeInv'
  BY <1>3, SpeechAssumption DEF SpeakReplaces, Cancel, Pend, workerVars, TypeInv, Ops, Turns,
       Places
<1>4. ASSUME NEW t \in Turns, SpeakAdmit(t) PROVE TypeInv'
  <2>1. op' \in Ops
    BY <1>4, AdmitCases DEF Ops
  <2>2. reply' \in [Turns -> {"none", "ok", "cleanup", "listening", "inFlight", "failed"}]
    BY <1>4, AdmitCases DEF TypeInv
  <2>3. /\ current' \in Turns \cup {None} /\ speaking' \in Turns \cup {None}
        /\ pc' \in [Turns -> Places]
    BY <1>4, AdmitCases DEF TypeInv, Places
  <2> QED BY <1>4, AdmitCases, <2>1, <2>2, <2>3 DEF playerVars, TypeInv
<1>5. CASE StopSpeech
  BY <1>5, SpeechAssumption DEF StopSpeech, Cancel, Pend, workerVars, TypeInv, Ops, Turns, Places
<1>6. CASE DictateBegin
  BY <1>6, SpeechAssumption DEF DictateBegin, Cancel, Pend, workerVars, TypeInv, Ops, Turns,
       Places
<1>7. CASE DictateAdmit
  BY <1>7, SpeechAssumption DEF DictateAdmit, playerVars, workerVars, TypeInv, Ops, Turns, Places
<1>8. CASE OpenMic
  BY <1>8, SpeechAssumption DEF OpenMic, acceptVars, playerVars, workerVars, TypeInv, Ops, Turns,
       Places
<1>9. CASE EndListen
  BY <1>9, SpeechAssumption DEF EndListen, acceptVars, playerVars, workerVars, TypeInv, Ops,
       Turns, Places
<1>10. ASSUME NEW t \in Turns, ClipEnds(t) PROVE TypeInv'
  BY <1>10, SpeechAssumption DEF ClipEnds, acceptVars, arbiterVars, workerVars, TypeInv, Ops,
       Turns, Places
<1>11. ASSUME NEW t \in Turns, ClosePlayer(t) PROVE TypeInv'
  BY <1>11, SpeechAssumption DEF ClosePlayer, acceptVars, arbiterVars, workerVars, TypeInv, Ops,
       Turns, Places
<1>12. ASSUME NEW t \in Turns, CloseEngine(t) PROVE TypeInv'
  BY <1>12, SpeechAssumption DEF CloseEngine, acceptVars, arbiterVars, playerVars, workerVars,
       TypeInv, Ops, Turns, Places
<1>13. ASSUME NEW t \in Turns, Expire(t) PROVE TypeInv'
  BY <1>13, SpeechAssumption DEF Expire, acceptVars, arbiterVars, playerVars, workerVars, TypeInv,
       Ops, Turns, Places
<1>14. ASSUME NEW t \in Turns, GetPlayer(t) PROVE TypeInv'
  <2>1. player' \in Turns \cup {None}
    BY <1>14, PlayerCases DEF TypeInv
  <2>4. mine' \in [Turns -> Turns \cup {None}]
    <3>1. \E p \in Turns \cup {None} : mine' = [mine EXCEPT ![t] = p] \/ UNCHANGED mine
      BY <1>14, PlayerCases DEF TypeInv
    <3> QED BY <3>1 DEF TypeInv
  <2>2. status' \in [Turns -> {"none", "open", "pending", "closed"}]
    <3>1. \/ UNCHANGED status
          \/ \E p \in Turns, what \in {"open", "closed"} : status' = [status EXCEPT ![p] = what]
      BY <1>14, PlayerCases DEF TypeInv
    <3> QED BY <3>1 DEF TypeInv
  <2>3. sound' \in [Turns -> Turns \cup {None}] /\ pc' \in [Turns -> Places]
    BY <1>14, PlayerCases DEF TypeInv, Places
  <2> QED BY <1>14, PlayerCases, <2>1, <2>2, <2>3, <2>4 DEF acceptVars, arbiterVars, TypeInv
<1>15. ASSUME NEW t \in Turns, NextClip(t) PROVE TypeInv'
  <2>1. PICK p \in {"synth", "report", "await"} : pc' = [pc EXCEPT ![t] = p]
    BY <1>15 DEF NextClip, Goto
  <2> QED BY <1>15, <2>1 DEF NextClip, workerRest, acceptVars, arbiterVars, playerVars, TypeInv,
               Places
<1>16. ASSUME NEW t \in Turns, Synth(t) PROVE TypeInv'
  <2>1. pc' \in [Turns -> Places]
    <3>1. \E p \in Places : pc' = [pc EXCEPT ![t] = p]
      BY <1>16 DEF Synth, Goto, Places
    <3> QED BY <3>1 DEF TypeInv
  <2>2. failure' \in [Turns -> {"none", "synthesis", "deadline", "internal"}]
    BY <1>16 DEF Synth, TypeInv
  <2> QED BY <1>16, <2>1, <2>2 DEF Synth, workerRest, acceptVars, arbiterVars, playerVars, TypeInv
<1>17. ASSUME NEW t \in Turns, PlayIfCurrent(t) PROVE TypeInv'
  <2>1. pc' \in [Turns -> Places]
    <3>1. \E p \in Places : pc' = [pc EXCEPT ![t] = p]
      BY <1>17 DEF PlayIfCurrent, Goto, Places
    <3> QED BY <3>1 DEF TypeInv
  <2>2. sound' \in [Turns -> Turns \cup {None}]
    BY <1>17 DEF PlayIfCurrent, TypeInv
  <2>4. played' \in [Turns -> Nat]
    <3>1. played[t] + 1 \in Nat
      BY DEF TypeInv
    <3>2. played' = [played EXCEPT ![t] = @ + 1] \/ UNCHANGED played
      BY <1>17 DEF PlayIfCurrent
    <3> QED BY <3>1, <3>2 DEF TypeInv
  <2>3. sent' \in [Turns -> Seq({"chunk"} \cup Outcomes)]
    <3>1. Append(sent[t], "chunk") \in Seq({"chunk"} \cup Outcomes)
      BY DEF TypeInv
    <3>2. sent' = [sent EXCEPT ![t] = Append(@, "chunk")] \/ sent' = sent
      BY <1>17 DEF PlayIfCurrent, Publish
    <3> QED BY <3>1, <3>2 DEF TypeInv
  <2> QED BY <1>17, <2>1, <2>2, <2>3, <2>4
          DEF PlayIfCurrent, workerRest, acceptVars, arbiterVars, TypeInv
<1>18. ASSUME NEW t \in Turns, Await(t) PROVE TypeInv'
  <2>1. pc' \in [Turns -> Places]
    <3>1. \E p \in Places : pc' = [pc EXCEPT ![t] = p]
      BY <1>18 DEF Await, Goto, Places
    <3> QED BY <3>1 DEF TypeInv
  <2> QED BY <1>18, <2>1 DEF Await, workerRest, acceptVars, arbiterVars, playerVars, TypeInv
<1>19. ASSUME NEW t \in Turns, Report(t) PROVE TypeInv'
  BY <1>19, SpeechAssumption DEF Report, Goto, workerRest, acceptVars, arbiterVars, playerVars,
       TypeInv, Ops, Turns, Places
<1>20. ASSUME NEW t \in Turns, CloseOwn(t) PROVE TypeInv'
  BY <1>20, SpeechAssumption DEF CloseOwn, Goto, acceptVars, arbiterVars, playerVars, TypeInv,
       Ops, Turns, Places
<1>21. ASSUME NEW t \in Turns, Detach(t) PROVE TypeInv'
  BY <1>21, SpeechAssumption DEF Detach, Goto, Locked, acceptVars, playerVars, TypeInv, Ops,
       Turns, Places
<1>22. ASSUME NEW t \in Turns, SilenceOwn(t) PROVE TypeInv'
  BY <1>22, SpeechAssumption DEF SilenceOwn, Goto, Pend, workerRest, acceptVars, arbiterVars,
       TypeInv, Ops, Turns, Places
<1>23. ASSUME NEW t \in Turns, Settle(t) PROVE TypeInv'
  BY <1>23, SpeechAssumption DEF Settle, Goto, Outcome, Outcomes, workerRest, acceptVars,
       arbiterVars, playerVars, TypeInv, Ops, Turns, Places
<1>24. ASSUME NEW t \in Turns, Tell(t) PROVE TypeInv'
  <2>1. pc' \in [Turns -> Places]
    BY <1>24 DEF Tell, Goto, TypeInv, Places
  <2>2. sent' \in [Turns -> Seq({"chunk"} \cup Outcomes)]
    <3>1. CASE UNCHANGED sent
      BY <3>1 DEF TypeInv
    <3>2. CASE sent' = [sent EXCEPT ![t] = Append(@, outcome[t])]
      <4>1. sent[t] \in Seq({"chunk"} \cup Outcomes) /\ outcome[t] \in Outcomes
        BY <1>24 DEF Tell, SettledInv, TypeInv
      <4>2. Append(sent[t], outcome[t]) \in Seq({"chunk"} \cup Outcomes)
        BY <4>1
      <4> QED BY <3>2, <4>2 DEF TypeInv
    <3> QED BY <1>24, <3>1, <3>2 DEF Tell
  <2> QED BY <1>24, <2>1, <2>2 DEF Tell, workerRest, acceptVars, arbiterVars, playerVars, TypeInv
<1>25. ASSUME NEW t \in Turns, Free(t) PROVE TypeInv'
  BY <1>25, SpeechAssumption DEF Free, Goto, acceptVars, playerVars, TypeInv, Ops, Turns, Places
<1>26. CASE UNCHANGED vars
  BY <1>26 DEF vars, acceptVars, arbiterVars, playerVars, workerVars, TypeInv, Ops, Turns, Places
<1> QED BY <1>1, <1>2, <1>3, <1>4, <1>5, <1>6, <1>7, <1>8, <1>9, <1>10, <1>11, <1>12, <1>13,
       <1>14, <1>15, <1>16, <1>17, <1>18, <1>19, <1>20, <1>21, <1>22, <1>23, <1>24, <1>25,
       <1>26 DEF Next, Accept, Worker

\* ... and who speaks,
LEMMA TurnStep ==
  ASSUME TypeInv, TurnInv, LockInv, [Next]_vars
  PROVE  TurnInv'
<1>1. ASSUME NEW t \in Turns, SpeakBegin(t) PROVE TurnInv'
  <2>1. op' \in Ops /\ (op'[1] \in {"prepare", "admit"} => op' = <<"prepare", t>> /\ reply' = reply)
    BY <1>1 DEF SpeakBegin, TypeInv, Ops
  <2>2. \A u \in Turns : reply'[u] = "ok" <=> reply[u] = "ok"
    BY <1>1 DEF SpeakBegin, TypeInv
  <2>3. reply[t] = "none" /\ UNCHANGED <<pc, current, speaking>>
    BY <1>1 DEF SpeakBegin, workerVars, arbiterVars
  <2> QED BY <2>1, <2>2, <2>3 DEF TurnInv
<1>2. ASSUME NEW t \in Turns, SpeakFails(t) PROVE TurnInv'
  BY <1>2, SpeechAssumption DEF SpeakFails, Refuse, arbiterVars, playerVars, workerVars, TurnInv,
       Running, TypeInv, Ops, Turns, Places
<1>3. ASSUME NEW t \in Turns, SpeakReplaces(t) PROVE TurnInv'
  BY <1>3, SpeechAssumption DEF SpeakReplaces, Cancel, Pend, workerVars, TurnInv, Running,
       TypeInv, Ops, Turns, Places
<1>4. ASSUME NEW t \in Turns, SpeakAdmit(t) PROVE TurnInv'
  <2>1. op'[1] = "idle" /\ reply[t] = "none" /\ pc[t] = "unborn"
    BY <1>4, AdmitCases DEF TurnInv, TypeInv
  <2>2. CASE /\ \E why \in {"cleanup", "listening", "inFlight", "failed"} :
                  reply' = [reply EXCEPT ![t] = why]
             /\ UNCHANGED <<current, speaking, pc>>
    <3>1. \A u \in Turns : reply'[u] = "ok" <=> reply[u] = "ok"
      BY <2>1, <2>2 DEF TypeInv
    <3> QED BY <2>1, <2>2, <3>1 DEF TurnInv
  <2>3. CASE current' = t /\ speaking' = t /\ pc' = [pc EXCEPT ![t] = "start"]
             /\ reply' = [reply EXCEPT ![t] = "ok"]
    BY <2>1, <2>3 DEF TurnInv, TypeInv, Running, Places
  <2> QED BY <1>4, AdmitCases, <2>2, <2>3
<1>5. CASE StopSpeech
  BY <1>5, SpeechAssumption DEF StopSpeech, Cancel, Pend, workerVars, TurnInv, Running, TypeInv,
       Ops, Turns, Places
<1>6. CASE DictateBegin
  BY <1>6, SpeechAssumption DEF DictateBegin, Cancel, Pend, workerVars, TurnInv, Running, TypeInv,
       Ops, Turns, Places
<1>7. CASE DictateAdmit
  BY <1>7, SpeechAssumption DEF DictateAdmit, playerVars, workerVars, TurnInv, Running, TypeInv,
       Ops, Turns, Places, LockInv, Locked
<1>8. ASSUME NEW t \in Turns, GetPlayer(t) PROVE TurnInv'
  BY <1>8, SpeechAssumption DEF GetPlayer, Goto, Locked, workerRest, acceptVars, arbiterVars,
       TurnInv, Running, TypeInv, Ops, Turns, Places
<1>9. ASSUME NEW t \in Turns, NextClip(t) PROVE TurnInv'
  <2>1. PICK p \in {"synth", "report", "await"} : pc' = [pc EXCEPT ![t] = p]
    BY <1>9 DEF NextClip, Goto
  <2>2. pc[t] = "next" /\ UNCHANGED <<op, reply, current, speaking>>
    BY <1>9 DEF NextClip, workerRest, acceptVars, arbiterVars
  <2> QED BY <2>1, <2>2 DEF TurnInv, Running, TypeInv
<1>10. ASSUME NEW t \in Turns, Synth(t) PROVE TurnInv'
  <2>1. PICK p \in {"play", "await", "report"} : pc' = [pc EXCEPT ![t] = p]
    BY <1>10 DEF Synth, Goto
  <2> QED BY <1>10, <2>1 DEF Synth, workerRest, acceptVars, arbiterVars, TurnInv, Running, TypeInv
<1>11. ASSUME NEW t \in Turns, PlayIfCurrent(t) PROVE TurnInv'
  <2>1. PICK p \in {"next", "await", "report"} : pc' = [pc EXCEPT ![t] = p]
    BY <1>11 DEF PlayIfCurrent, Goto
  <2>2. pc[t] = "play" /\ UNCHANGED <<op, reply, current, speaking>>
    BY <1>11 DEF PlayIfCurrent, workerRest, acceptVars, arbiterVars
  <2> QED BY <2>1, <2>2 DEF TurnInv, Running, TypeInv
<1>12. ASSUME NEW t \in Turns, Await(t) PROVE TurnInv'
  <2>1. PICK p \in {"play", "report"} : pc' = [pc EXCEPT ![t] = p]
    BY <1>12 DEF Await, Goto
  <2>2. pc[t] = "await" /\ UNCHANGED <<op, reply, current, speaking>>
    BY <1>12 DEF Await, workerRest, acceptVars, arbiterVars
  <2> QED BY <2>1, <2>2 DEF TurnInv, Running, TypeInv
<1>13. ASSUME NEW t \in Turns, Report(t) PROVE TurnInv'
  BY <1>13, SpeechAssumption DEF Report, Goto, workerRest, acceptVars, arbiterVars, playerVars,
       TurnInv, Running, TypeInv, Ops, Turns, Places
<1>14. ASSUME NEW t \in Turns, CloseOwn(t) PROVE TurnInv'
  BY <1>14, SpeechAssumption DEF CloseOwn, Goto, acceptVars, arbiterVars, playerVars, TurnInv,
       Running, TypeInv, Ops, Turns, Places
<1>15. ASSUME NEW t \in Turns, Detach(t) PROVE TurnInv'
  BY <1>15, SpeechAssumption DEF Detach, Goto, Locked, acceptVars, playerVars, TurnInv, Running,
       TypeInv, Ops, Turns, Places
<1>16. ASSUME NEW t \in Turns, SilenceOwn(t) PROVE TurnInv'
  BY <1>16, SpeechAssumption DEF SilenceOwn, Goto, Pend, workerRest, acceptVars, arbiterVars,
       TurnInv, Running, TypeInv, Ops, Turns, Places
<1>17. ASSUME NEW t \in Turns, Settle(t) PROVE TurnInv'
  BY <1>17, SpeechAssumption DEF Settle, Goto, Outcome, Outcomes, workerRest, acceptVars,
       arbiterVars, playerVars, TurnInv, Running, TypeInv, Ops, Turns, Places
<1>18. ASSUME NEW t \in Turns, Tell(t) PROVE TurnInv'
  BY <1>18, SpeechAssumption DEF Tell, Goto, workerRest, acceptVars, arbiterVars, playerVars,
       TurnInv, Running, TypeInv, Ops, Turns, Places
<1>19. ASSUME NEW t \in Turns, Free(t) PROVE TurnInv'
  BY <1>19, SpeechAssumption DEF Free, Goto, acceptVars, playerVars, TurnInv, Running, TypeInv,
       Ops, Turns, Places
<1>20. CASE OpenMic \/ EndListen
  <2>1. UNCHANGED <<op, reply, current, speaking, pc>>
    BY <1>20 DEF OpenMic, EndListen, acceptVars, playerVars, workerVars
  <2> QED BY <2>1 DEF TurnInv, Running, TypeInv, Ops, Turns, Places
<1>21. ASSUME NEW t \in Turns, ClipEnds(t) \/ ClosePlayer(t) \/ CloseEngine(t) \/ Expire(t)
     PROVE  TurnInv'
  <2>1. UNCHANGED <<op, reply, current, speaking, pc>>
    BY <1>21 DEF ClipEnds, ClosePlayer, CloseEngine, Expire, acceptVars, arbiterVars, workerVars,
         playerVars
  <2> QED BY <2>1 DEF TurnInv, Running, TypeInv, Ops, Turns, Places
<1>22. CASE UNCHANGED vars
  BY <1>22 DEF vars, acceptVars, arbiterVars, playerVars, workerVars, TurnInv, Running, TypeInv,
       Ops, Turns, Places
<1> QED BY <1>1, <1>2, <1>3, <1>4, <1>5, <1>6, <1>7, <1>8, <1>9, <1>10, <1>11, <1>12, <1>13,
       <1>14, <1>15, <1>16, <1>17, <1>18, <1>19, <1>20, <1>21, <1>22 DEF Next, Accept, Worker

\* ... whose the players are,
LEMMA NameStep ==
  ASSUME TypeInv, NameInv, TurnInv, PlayerInv, [Next]_vars
  PROVE  NameInv'
<1>1. ASSUME NEW t \in Turns, SpeakReplaces(t) PROVE NameInv'
  BY <1>1, SpeechAssumption DEF SpeakReplaces, Cancel, Pend, workerVars, NameInv, TypeInv, Turns,
       Places, PlayerInv
<1>2. ASSUME NEW t \in Turns, SpeakAdmit(t) PROVE NameInv'
  <2>1. UNCHANGED <<status, mine>> /\ (UNCHANGED pc \/ pc' = [pc EXCEPT ![t] = "start"])
    BY <1>2 DEF SpeakAdmit, Goto, playerVars
  <2>2. pc[t] = "unborn"
    BY <1>2 DEF SpeakAdmit, TurnInv
  <2> QED BY <2>1, <2>2 DEF NameInv, TypeInv
<1>3. CASE StopSpeech
  BY <1>3, SpeechAssumption DEF StopSpeech, Cancel, Pend, workerVars, NameInv, TypeInv, Turns,
       Places, PlayerInv
<1>4. CASE DictateBegin
  BY <1>4, SpeechAssumption DEF DictateBegin, Cancel, Pend, workerVars, NameInv, TypeInv, Turns,
       Places, PlayerInv
<1>5. ASSUME NEW t \in Turns, ClosePlayer(t) PROVE NameInv'
  BY <1>5, SpeechAssumption DEF ClosePlayer, acceptVars, arbiterVars, workerVars, NameInv,
       TypeInv, Turns, Places
<1>6. ASSUME NEW t \in Turns, GetPlayer(t) PROVE NameInv'
  <2>1. \A u \in Turns : pc'[u] \in {"unborn", "start"} => pc[u] \in {"unborn", "start"} /\ u # t
    BY <1>6, PlayerCases DEF TypeInv
  <2>2. CASE player = None /\ status' = [status EXCEPT ![t] = "open"]
             /\ mine' = [mine EXCEPT ![t] = t]
    BY <2>1, <2>2 DEF NameInv, TypeInv
  <2>3. CASE player # None /\ mine' = [mine EXCEPT ![t] = player] /\ UNCHANGED status
    BY <2>1, <2>3 DEF NameInv, TypeInv, PlayerInv
  <2>4. CASE player # None /\ status' = [status EXCEPT ![player] = "closed"] /\ UNCHANGED mine
    BY <2>1, <2>4 DEF NameInv, TypeInv, PlayerInv
  <2> QED BY <1>6, PlayerCases, <2>2, <2>3, <2>4
<1>7. ASSUME NEW t \in Turns, SilenceOwn(t) PROVE NameInv'
  BY <1>7, SpeechAssumption DEF SilenceOwn, Goto, Pend, workerRest, acceptVars, arbiterVars,
       NameInv, TypeInv, Turns, Places
<1>8. CASE DictateAdmit \/ OpenMic \/ EndListen
  <2>1. UNCHANGED <<status, mine>>
    BY <1>8 DEF DictateAdmit, OpenMic, EndListen, playerVars, workerVars, acceptVars
  <2>2. \A u \in Turns : pc'[u] = pc[u] \/ pc'[u] \notin {"unborn", "start"}
    BY <1>8 DEF DictateAdmit, OpenMic, EndListen, playerVars, workerVars, acceptVars, TypeInv,
         Places
  <2> QED BY <2>1, <2>2 DEF NameInv, TypeInv, Turns, Places
<1>9. ASSUME NEW t \in Turns, SpeakBegin(t) \/ SpeakFails(t) \/ ClipEnds(t) \/ CloseEngine(t) \/
            Expire(t) \/ NextClip(t) \/ Synth(t) \/ PlayIfCurrent(t) \/ Await(t) \/ Report(t) \/
            CloseOwn(t) \/ Detach(t) \/ Settle(t) \/ Tell(t) \/ Free(t)
     PROVE  NameInv'
  <2>1. UNCHANGED <<status, mine>>
    BY <1>9 DEF SpeakBegin, SpeakFails, ClipEnds, CloseEngine, Expire, NextClip, Synth,
         PlayIfCurrent, Await, Report, CloseOwn, Detach, Settle, Tell, Free, Refuse, Goto,
         Publish, Locked, Outcome, Outcomes, arbiterVars, playerVars, workerVars, acceptVars,
         workerRest
  <2>2. \A u \in Turns : pc'[u] = pc[u] \/ pc'[u] \notin {"unborn", "start"}
    BY <1>9 DEF SpeakBegin, SpeakFails, ClipEnds, CloseEngine, Expire, NextClip, Synth,
         PlayIfCurrent, Await, Report, CloseOwn, Detach, Settle, Tell, Free, Refuse, Goto,
         Publish, Locked, Outcome, Outcomes, arbiterVars, playerVars, workerVars, acceptVars,
         workerRest, TypeInv, Places
  <2> QED BY <2>1, <2>2 DEF NameInv, TypeInv, Turns, Places
<1>10. CASE UNCHANGED vars
  BY <1>10 DEF vars, acceptVars, arbiterVars, playerVars, workerVars, NameInv, TypeInv, Turns,
       Places
<1> QED BY <1>1, <1>2, <1>3, <1>4, <1>5, <1>6, <1>7, <1>8, <1>9, <1>10 DEF Next, Accept, Worker

\* ... which of them sounds,
LEMMA PlayerStep ==
  ASSUME TypeInv, PlayerInv, NameInv, OpenInv, TurnInv, [Next]_vars
  PROVE  PlayerInv'
<1>1. ASSUME NEW t \in Turns, SpeakReplaces(t) PROVE PlayerInv'
  BY <1>1, SpeechAssumption DEF SpeakReplaces, Cancel, Pend, workerVars, PlayerInv, TypeInv, Turns
<1>2. CASE StopSpeech
  BY <1>2, SpeechAssumption DEF StopSpeech, Cancel, Pend, workerVars, PlayerInv, TypeInv, Turns
<1>3. CASE DictateBegin
  BY <1>3, SpeechAssumption DEF DictateBegin, Cancel, Pend, workerVars, PlayerInv, TypeInv, Turns
<1>4. ASSUME NEW t \in Turns, ClipEnds(t) PROVE PlayerInv'
  BY <1>4, SpeechAssumption DEF ClipEnds, acceptVars, arbiterVars, workerVars, PlayerInv, TypeInv,
       Turns
<1>5. ASSUME NEW t \in Turns, ClosePlayer(t) PROVE PlayerInv'
  BY <1>5, SpeechAssumption DEF ClosePlayer, acceptVars, arbiterVars, workerVars, PlayerInv,
       TypeInv, Turns
<1>6. ASSUME NEW t \in Turns, GetPlayer(t) PROVE PlayerInv'
  <2>1. CASE player = None /\ player' = t /\ status' = [status EXCEPT ![t] = "open"]
             /\ UNCHANGED sound
    BY <2>1, SpeechAssumption DEF PlayerInv, TypeInv, Turns
  <2>2. CASE UNCHANGED <<player, status, sound>>
    BY <2>2 DEF PlayerInv
  <2>3. CASE /\ player # None /\ status[player] = "pending" /\ player' = None
             /\ status' = [status EXCEPT ![player] = "closed"]
             /\ sound' = [sound EXCEPT ![player] = None]
    BY <2>3 DEF PlayerInv, TypeInv
  <2> QED BY <1>6, PlayerCases, <2>1, <2>2, <2>3
<1>7. ASSUME NEW t \in Turns, PlayIfCurrent(t) PROVE PlayerInv'
  BY <1>7, SpeechAssumption DEF PlayIfCurrent, Publish, Goto, Locked, workerRest, acceptVars,
       arbiterVars, PlayerInv, TypeInv, Turns, OpenInv
<1>8. ASSUME NEW t \in Turns, SilenceOwn(t) PROVE PlayerInv'
  BY <1>8, SpeechAssumption DEF SilenceOwn, Goto, Pend, workerRest, acceptVars, arbiterVars,
       PlayerInv, TypeInv, Turns, OpenInv
<1>9. CASE DictateAdmit \/ OpenMic \/ EndListen
  <2>1. UNCHANGED <<player, status, sound>>
    BY <1>9 DEF DictateAdmit, OpenMic, EndListen, playerVars, workerVars, acceptVars
  <2> QED BY <2>1 DEF PlayerInv, TypeInv, Turns
<1>10. ASSUME NEW t \in Turns, SpeakBegin(t) \/ SpeakFails(t) \/ SpeakAdmit(t) \/ CloseEngine(t)
            \/ Expire(t) \/ NextClip(t) \/ Synth(t) \/ Await(t) \/ Report(t) \/ CloseOwn(t) \/
            Detach(t) \/ Settle(t) \/ Tell(t) \/ Free(t)
     PROVE  PlayerInv'
  <2>1. UNCHANGED <<player, status, sound>>
    BY <1>10 DEF SpeakBegin, SpeakFails, SpeakAdmit, CloseEngine, Expire, NextClip, Synth, Await,
         Report, CloseOwn, Detach, Settle, Tell, Free, Refuse, Goto, Locked, Outcome, Outcomes,
         arbiterVars, playerVars, workerVars, acceptVars, workerRest
  <2> QED BY <2>1 DEF PlayerInv, TypeInv, Turns
<1>11. CASE UNCHANGED vars
  BY <1>11 DEF vars, acceptVars, arbiterVars, playerVars, workerVars, PlayerInv, TypeInv, Turns
<1> QED BY <1>1, <1>2, <1>3, <1>4, <1>5, <1>6, <1>7, <1>8, <1>9, <1>10, <1>11 DEF Next, Accept,
       Worker

\* ... which one stays open,
LEMMA OpenStep ==
  ASSUME TypeInv, OpenInv, PlayerInv, NameInv, TurnInv, LockInv, [Next]_vars
  PROVE  OpenInv'
<1>1. ASSUME NEW t \in Turns, SpeakReplaces(t) PROVE OpenInv'
  BY <1>1, SpeechAssumption DEF SpeakReplaces, Cancel, Pend, workerVars, OpenInv, TypeInv, Turns
<1>2. ASSUME NEW t \in Turns, SpeakAdmit(t) PROVE OpenInv'
  <2>1. UNCHANGED <<player, status, mine, owns>>
    BY <1>2, AdmitCases DEF playerVars
  <2>2. \A u \in Turns : pc[u] = "silence" => pc'[u] = "silence"
    <3>1. pc[t] = "unborn"
      BY <1>2, AdmitCases DEF TurnInv, TypeInv
    <3> QED BY <1>2, AdmitCases, <3>1 DEF TypeInv
  <2>3. CASE current' = current
    BY <2>1, <2>2, <2>3 DEF OpenInv, TypeInv
  <2>4. CASE ~Retained /\ current' = t
    <3>1. player = None
      BY <1>2, <2>4, AdmitCases DEF LockInv, Locked, Retained, TypeInv
    <3>2. mine[t] = None
      BY <1>2, AdmitCases DEF NameInv, TurnInv, TypeInv
    <3> QED BY <2>1, <2>2, <2>4, <3>1, <3>2 DEF OpenInv, TypeInv
  <2> QED BY <1>2, AdmitCases, <2>3, <2>4
<1>3. CASE StopSpeech
  BY <1>3, SpeechAssumption DEF StopSpeech, Cancel, Pend, workerVars, OpenInv, TypeInv, Turns
<1>4. CASE DictateBegin
  BY <1>4, SpeechAssumption DEF DictateBegin, Cancel, Pend, workerVars, OpenInv, TypeInv, Turns
<1>5. ASSUME NEW t \in Turns, ClosePlayer(t) PROVE OpenInv'
  BY <1>5, SpeechAssumption DEF ClosePlayer, acceptVars, arbiterVars, workerVars, OpenInv,
       TypeInv, Turns
<1>6. ASSUME NEW t \in Turns, GetPlayer(t) PROVE OpenInv'
  <2>1. UNCHANGED <<current, owns>> /\ \A u \in Turns : pc[u] = "silence" => pc'[u] = "silence"
    BY <1>6, PlayerCases DEF arbiterVars, TypeInv
  <2>2. mine[t] = None /\ status[t] = "none" /\ t \notin owns
    BY <1>6, PlayerCases DEF NameInv, OpenInv
  <2>3. CASE player = None /\ player' = t /\ status' = [status EXCEPT ![t] = "open"]
             /\ mine' = [mine EXCEPT ![t] = t]
    BY <2>1, <2>2, <2>3 DEF OpenInv, NameInv, TypeInv
  <2>4. CASE mine' = [mine EXCEPT ![t] = player] /\ UNCHANGED <<player, status>>
    BY <2>1, <2>2, <2>4 DEF OpenInv, TypeInv
  <2>5. CASE /\ player # None /\ status[player] = "pending" /\ player' = None
             /\ status' = [status EXCEPT ![player] = "closed"] /\ UNCHANGED mine
    BY <2>1, <2>5 DEF OpenInv, TypeInv
  <2> QED BY <1>6, PlayerCases, <2>3, <2>4, <2>5
<1>7. ASSUME NEW t \in Turns, Detach(t) PROVE OpenInv'
  BY <1>7, SpeechAssumption DEF Detach, Goto, Locked, acceptVars, playerVars, OpenInv, TypeInv,
       Turns, TurnInv
<1>8. ASSUME NEW t \in Turns, SilenceOwn(t) PROVE OpenInv'
  BY <1>8, SpeechAssumption DEF SilenceOwn, Goto, Pend, workerRest, acceptVars, arbiterVars,
       OpenInv, TypeInv, Turns, TurnInv
<1>9. CASE DictateAdmit \/ OpenMic \/ EndListen
  <2>1. UNCHANGED <<current, player, status, mine, owns>>
    BY <1>9 DEF DictateAdmit, OpenMic, EndListen, playerVars, workerVars, acceptVars
  <2>2. \A u \in Turns : pc[u] = "silence" => pc'[u] = "silence"
    BY <1>9 DEF DictateAdmit, OpenMic, EndListen, playerVars, workerVars, acceptVars, TypeInv,
         Places
  <2> QED BY <2>1, <2>2 DEF OpenInv, TypeInv, Turns
<1>10. ASSUME NEW t \in Turns, SpeakBegin(t) \/ SpeakFails(t) \/ ClipEnds(t) \/ CloseEngine(t) \/
            Expire(t) \/ NextClip(t) \/ Synth(t) \/ PlayIfCurrent(t) \/ Await(t) \/ Report(t) \/
            CloseOwn(t) \/ Settle(t) \/ Tell(t) \/ Free(t)
     PROVE  OpenInv'
  <2>1. UNCHANGED <<current, player, status, mine, owns>>
    BY <1>10 DEF SpeakBegin, SpeakFails, ClipEnds, CloseEngine, Expire, NextClip, Synth,
         PlayIfCurrent, Await, Report, CloseOwn, Settle, Tell, Free, Refuse, Goto, Publish,
         Locked, Outcome, Outcomes, arbiterVars, playerVars, workerVars, acceptVars, workerRest
  <2>2. \A u \in Turns : pc[u] = "silence" => pc'[u] = "silence"
    BY <1>10 DEF SpeakBegin, SpeakFails, ClipEnds, CloseEngine, Expire, NextClip, Synth,
         PlayIfCurrent, Await, Report, CloseOwn, Settle, Tell, Free, Refuse, Goto, Publish,
         Locked, Outcome, Outcomes, arbiterVars, playerVars, workerVars, acceptVars, workerRest,
         TypeInv, Places
  <2> QED BY <2>1, <2>2 DEF OpenInv, TypeInv, Turns
<1>11. CASE UNCHANGED vars
  BY <1>11 DEF vars, acceptVars, arbiterVars, playerVars, workerVars, OpenInv, TypeInv, Turns
<1> QED BY <1>1, <1>2, <1>3, <1>4, <1>5, <1>6, <1>7, <1>8, <1>9, <1>10, <1>11 DEF Next, Accept,
       Worker

\* ... what the accept loop has under its lock,
LEMMA LockStep ==
  ASSUME TypeInv, LockInv, PlayerInv, NameInv, TurnInv, OpenInv, [Next]_vars
  PROVE  LockInv'
<1>1. ASSUME NEW t \in Turns, SpeakBegin(t) PROVE LockInv'
  BY <1>1, SpeechAssumption DEF SpeakBegin, arbiterVars, playerVars, workerVars, LockInv, Locked,
       TypeInv, Ops, Turns
<1>2. ASSUME NEW t \in Turns, SpeakFails(t) PROVE LockInv'
  BY <1>2, SpeechAssumption DEF SpeakFails, Refuse, arbiterVars, playerVars, workerVars, LockInv,
       Locked, TypeInv, Ops, Turns
<1>3. ASSUME NEW t \in Turns, SpeakReplaces(t) PROVE LockInv'
  BY <1>3, SpeechAssumption DEF SpeakReplaces, Cancel, Pend, workerVars, LockInv, Locked, TypeInv,
       Ops, Turns
<1>4. ASSUME NEW t \in Turns, SpeakAdmit(t) PROVE LockInv'
  BY <1>4, SpeechAssumption DEF SpeakAdmit, Refuse, Goto, playerVars, LockInv, Locked, TypeInv,
       Ops, Turns
<1>5. CASE StopSpeech
  BY <1>5, SpeechAssumption DEF StopSpeech, Cancel, Pend, workerVars, LockInv, Locked, TypeInv,
       Ops, Turns
<1>6. CASE DictateBegin
  BY <1>6, SpeechAssumption DEF DictateBegin, Cancel, Pend, workerVars, LockInv, Locked, TypeInv,
       Ops, Turns
<1>7. CASE DictateAdmit
  BY <1>7, SpeechAssumption DEF DictateAdmit, playerVars, workerVars, LockInv, Locked, TypeInv,
       Ops, Turns
<1>8. ASSUME NEW t \in Turns, ClosePlayer(t) PROVE LockInv'
  BY <1>8, SpeechAssumption DEF ClosePlayer, acceptVars, arbiterVars, workerVars, LockInv, Locked,
       TypeInv, Ops, Turns
<1>9. ASSUME NEW t \in Turns, GetPlayer(t) PROVE LockInv'
  BY <1>9, SpeechAssumption DEF GetPlayer, Goto, workerRest, acceptVars, arbiterVars, LockInv,
       Locked, TypeInv, Ops, Turns
<1>10. ASSUME NEW t \in Turns, Detach(t) PROVE LockInv'
  BY <1>10, SpeechAssumption DEF Detach, Goto, acceptVars, playerVars, LockInv, Locked, TypeInv,
       Ops, Turns
<1>11. ASSUME NEW t \in Turns, SilenceOwn(t) PROVE LockInv'
  BY <1>11, SpeechAssumption DEF SilenceOwn, Goto, Pend, workerRest, acceptVars, arbiterVars,
       LockInv, Locked, TypeInv, Ops, Turns
<1>12. CASE OpenMic \/ EndListen
  <2>1. UNCHANGED <<op, current, player, status>>
    BY <1>12 DEF OpenMic, EndListen, acceptVars, playerVars, workerVars
  <2> QED BY <2>1 DEF LockInv, Locked, TypeInv, Ops, Turns
<1>13. ASSUME NEW t \in Turns, ClipEnds(t) \/ CloseEngine(t) \/ Expire(t) \/ NextClip(t) \/
            Synth(t) \/ PlayIfCurrent(t) \/ Await(t) \/ Report(t) \/ CloseOwn(t) \/ Settle(t) \/
            Tell(t) \/ Free(t)
     PROVE  LockInv'
  <2>1. UNCHANGED <<op, current, player, status>>
    BY <1>13 DEF ClipEnds, CloseEngine, Expire, NextClip, Synth, PlayIfCurrent, Await, Report,
         CloseOwn, Settle, Tell, Free, Goto, Publish, Locked, Outcome, Outcomes, acceptVars,
         arbiterVars, workerVars, playerVars, workerRest
  <2> QED BY <2>1 DEF LockInv, Locked, TypeInv, Ops, Turns
<1>14. CASE UNCHANGED vars
  BY <1>14 DEF vars, acceptVars, arbiterVars, playerVars, workerVars, LockInv, Locked, TypeInv,
       Ops, Turns
<1> QED BY <1>1, <1>2, <1>3, <1>4, <1>5, <1>6, <1>7, <1>8, <1>9, <1>10, <1>11, <1>12, <1>13,
       <1>14 DEF Next, Accept, Worker

\* ... that who listens does so in silence,
LEMMA ListenStep ==
  ASSUME TypeInv, ListenInv, LockInv, PlayerInv, TurnInv, [Next]_vars
  PROVE  ListenInv'
<1>1. ASSUME NEW t \in Turns, SpeakReplaces(t) PROVE ListenInv'
  BY <1>1, SpeechAssumption DEF SpeakReplaces, Cancel, Pend, workerVars, ListenInv, TypeInv, Turns
<1>2. ASSUME NEW t \in Turns, SpeakAdmit(t) PROVE ListenInv'
  BY <1>2, SpeechAssumption DEF SpeakAdmit, Refuse, Goto, playerVars, ListenInv, TypeInv, Turns
<1>3. CASE StopSpeech
  BY <1>3, SpeechAssumption DEF StopSpeech, Cancel, Pend, workerVars, ListenInv, TypeInv, Turns
<1>4. CASE DictateBegin
  BY <1>4, SpeechAssumption DEF DictateBegin, Cancel, Pend, workerVars, ListenInv, TypeInv, Turns
<1>5. CASE DictateAdmit
  <2>1. UNCHANGED <<mic, current, sound>> /\ (listening' = listening \/ (listening' = TRUE /\ ~Retained))
    BY <1>5 DEF DictateAdmit, playerVars
  <2>2. ~Retained /\ listening' => current = None /\ \A p \in Turns : sound[p] = None
    <3>1. Locked
      BY <1>5 DEF DictateAdmit, Locked
    <3>2. ~Retained => current = None /\ \A p \in Turns : sound[p] = None
      BY <3>1, SpeechAssumption DEF LockInv, PlayerInv, Retained, Turns
    <3>3. ~Retained /\ ~listening' => FALSE
      BY <1>5 DEF DictateAdmit
    <3> QED BY <3>2
  <2> QED BY <2>1, <2>2 DEF ListenInv
<1>6. CASE OpenMic
  BY <1>6, SpeechAssumption DEF OpenMic, acceptVars, playerVars, workerVars, ListenInv, TypeInv,
       Turns
<1>7. CASE EndListen
  BY <1>7, SpeechAssumption DEF EndListen, acceptVars, playerVars, workerVars, ListenInv, TypeInv,
       Turns
<1>8. ASSUME NEW t \in Turns, ClipEnds(t) PROVE ListenInv'
  BY <1>8, SpeechAssumption DEF ClipEnds, acceptVars, arbiterVars, workerVars, ListenInv, TypeInv,
       Turns
<1>9. ASSUME NEW t \in Turns, ClosePlayer(t) PROVE ListenInv'
  BY <1>9, SpeechAssumption DEF ClosePlayer, acceptVars, arbiterVars, workerVars, ListenInv,
       TypeInv, Turns
<1>10. ASSUME NEW t \in Turns, GetPlayer(t) PROVE ListenInv'
  BY <1>10, SpeechAssumption DEF GetPlayer, Goto, Locked, workerRest, acceptVars, arbiterVars,
       ListenInv, TypeInv, Turns
<1>11. ASSUME NEW t \in Turns, PlayIfCurrent(t) PROVE ListenInv'
  BY <1>11, SpeechAssumption DEF PlayIfCurrent, Publish, Goto, Locked, workerRest, acceptVars,
       arbiterVars, ListenInv, TypeInv, Turns
<1>12. ASSUME NEW t \in Turns, Detach(t) PROVE ListenInv'
  BY <1>12, SpeechAssumption DEF Detach, Goto, Locked, acceptVars, playerVars, ListenInv, TypeInv,
       Turns
<1>13. ASSUME NEW t \in Turns, SpeakBegin(t) \/ SpeakFails(t) \/ CloseEngine(t) \/ Expire(t) \/
            NextClip(t) \/ Synth(t) \/ Await(t) \/ Report(t) \/ CloseOwn(t) \/ SilenceOwn(t) \/
            Settle(t) \/ Tell(t) \/ Free(t)
     PROVE  ListenInv'
  <2>1. UNCHANGED <<listening, mic, current, sound>>
    BY <1>13 DEF SpeakBegin, SpeakFails, CloseEngine, Expire, NextClip, Synth, Await, Report,
         CloseOwn, SilenceOwn, Settle, Tell, Free, Refuse, Goto, Pend, Outcome, Outcomes,
         arbiterVars, playerVars, workerVars, acceptVars, workerRest
  <2> QED BY <2>1 DEF ListenInv, TypeInv, Turns
<1>14. CASE UNCHANGED vars
  BY <1>14 DEF vars, acceptVars, arbiterVars, playerVars, workerVars, ListenInv, TypeInv, Turns
<1> QED BY <1>1, <1>2, <1>3, <1>4, <1>5, <1>6, <1>7, <1>8, <1>9, <1>10, <1>11, <1>12, <1>13,
       <1>14 DEF Next, Accept, Worker

\* ... that only the current turn sounds,
LEMMA HeardStep ==
  ASSUME TypeInv, HeardInv, LockInv, PlayerInv, TurnInv, [Next]_vars
  PROVE  HeardInv'
<1>1. ASSUME NEW t \in Turns, SpeakReplaces(t) PROVE HeardInv'
  BY <1>1, SpeechAssumption DEF SpeakReplaces, Cancel, Pend, workerVars, HeardInv,
       OnlyTheCurrentSounds, TypeInv, Turns
<1>2. ASSUME NEW t \in Turns, SpeakAdmit(t) PROVE HeardInv'
  <2>1. UNCHANGED sound /\ (UNCHANGED current \/ (~Retained /\ current' = t))
    BY <1>2 DEF SpeakAdmit, playerVars
  <2>2. CASE UNCHANGED current
    BY <2>1, <2>2 DEF HeardInv, OnlyTheCurrentSounds
  <2>3. CASE ~Retained
    <3>1. \A p \in Turns : sound[p] = None
      <4>1. Locked
        BY <1>2 DEF SpeakAdmit, Locked
      <4> QED BY <2>3, <4>1, SpeechAssumption DEF LockInv, PlayerInv, Retained, Turns
    <3> QED BY <2>1, <3>1 DEF HeardInv, OnlyTheCurrentSounds
  <2> QED BY <2>1, <2>2, <2>3
<1>3. CASE StopSpeech
  BY <1>3, SpeechAssumption DEF StopSpeech, Cancel, Pend, workerVars, HeardInv,
       OnlyTheCurrentSounds, TypeInv, Turns
<1>4. CASE DictateBegin
  BY <1>4, SpeechAssumption DEF DictateBegin, Cancel, Pend, workerVars, HeardInv,
       OnlyTheCurrentSounds, TypeInv, Turns
<1>5. ASSUME NEW t \in Turns, ClipEnds(t) PROVE HeardInv'
  BY <1>5, SpeechAssumption DEF ClipEnds, acceptVars, arbiterVars, workerVars, HeardInv,
       OnlyTheCurrentSounds, TypeInv, Turns
<1>6. ASSUME NEW t \in Turns, ClosePlayer(t) PROVE HeardInv'
  BY <1>6, SpeechAssumption DEF ClosePlayer, acceptVars, arbiterVars, workerVars, HeardInv,
       OnlyTheCurrentSounds, TypeInv, Turns
<1>7. ASSUME NEW t \in Turns, GetPlayer(t) PROVE HeardInv'
  BY <1>7, SpeechAssumption DEF GetPlayer, Goto, Locked, workerRest, acceptVars, arbiterVars,
       HeardInv, OnlyTheCurrentSounds, TypeInv, Turns
<1>8. ASSUME NEW t \in Turns, PlayIfCurrent(t) PROVE HeardInv'
  BY <1>8, SpeechAssumption DEF PlayIfCurrent, Publish, Goto, Locked, workerRest, acceptVars,
       arbiterVars, HeardInv, OnlyTheCurrentSounds, TypeInv, Turns
<1>9. ASSUME NEW t \in Turns, Detach(t) PROVE HeardInv'
  BY <1>9, SpeechAssumption DEF Detach, Goto, Locked, acceptVars, playerVars, HeardInv,
       OnlyTheCurrentSounds, TypeInv, Turns
<1>10. CASE DictateAdmit \/ OpenMic \/ EndListen
  <2>1. UNCHANGED <<current, sound>>
    BY <1>10 DEF DictateAdmit, OpenMic, EndListen, playerVars, workerVars, acceptVars
  <2> QED BY <2>1 DEF HeardInv, OnlyTheCurrentSounds, TypeInv, Turns
<1>11. ASSUME NEW t \in Turns, SpeakBegin(t) \/ SpeakFails(t) \/ CloseEngine(t) \/ Expire(t) \/
            NextClip(t) \/ Synth(t) \/ Await(t) \/ Report(t) \/ CloseOwn(t) \/ SilenceOwn(t) \/
            Settle(t) \/ Tell(t) \/ Free(t)
     PROVE  HeardInv'
  <2>1. UNCHANGED <<current, sound>>
    BY <1>11 DEF SpeakBegin, SpeakFails, CloseEngine, Expire, NextClip, Synth, Await, Report,
         CloseOwn, SilenceOwn, Settle, Tell, Free, Refuse, Goto, Pend, Outcome, Outcomes,
         arbiterVars, playerVars, workerVars, acceptVars, workerRest
  <2> QED BY <2>1 DEF HeardInv, OnlyTheCurrentSounds, TypeInv, Turns
<1>12. CASE UNCHANGED vars
  BY <1>12 DEF vars, acceptVars, arbiterVars, playerVars, workerVars, HeardInv,
       OnlyTheCurrentSounds, TypeInv, Turns
<1> QED BY <1>1, <1>2, <1>3, <1>4, <1>5, <1>6, <1>7, <1>8, <1>9, <1>10, <1>11, <1>12 DEF Next,
       Accept, Worker

\* ... and what is settled.
LEMMA SettledStep ==
  ASSUME TypeInv, SettledInv, TurnInv, [Next]_vars
  PROVE  SettledInv'
<1>1. ASSUME NEW t \in Turns, SpeakAdmit(t) PROVE SettledInv'
  <2>1. UNCHANGED outcome /\ pc[t] = "unborn"
    BY <1>1, AdmitCases DEF TurnInv, TypeInv
  <2> QED BY <1>1, AdmitCases, <2>1 DEF SettledInv, TypeInv, Unsettled, Running
<1>2. ASSUME NEW t \in Turns, GetPlayer(t) PROVE SettledInv'
  BY <1>2, SpeechAssumption DEF GetPlayer, Goto, Locked, workerRest, acceptVars, arbiterVars,
       SettledInv, Unsettled, Running, TypeInv
<1>3. ASSUME NEW t \in Turns, NextClip(t) PROVE SettledInv'
  BY <1>3, SpeechAssumption DEF NextClip, Goto, workerRest, acceptVars, arbiterVars, playerVars,
       SettledInv, Unsettled, Running, TypeInv
<1>4. ASSUME NEW t \in Turns, Synth(t) PROVE SettledInv'
  <2>1. PICK p \in {"play", "await", "report"} : pc' = [pc EXCEPT ![t] = p]
    BY <1>4 DEF Synth, Goto
  <2> QED BY <1>4, <2>1 DEF Synth, SettledInv, TypeInv, Unsettled, Running
<1>5. ASSUME NEW t \in Turns, PlayIfCurrent(t) PROVE SettledInv'
  BY <1>5, SpeechAssumption DEF PlayIfCurrent, Publish, Goto, Locked, workerRest, acceptVars,
       arbiterVars, SettledInv, Unsettled, Running, TypeInv
<1>6. ASSUME NEW t \in Turns, Await(t) PROVE SettledInv'
  BY <1>6, SpeechAssumption DEF Await, Goto, workerRest, acceptVars, arbiterVars, playerVars,
       SettledInv, Unsettled, Running, TypeInv
<1>7. ASSUME NEW t \in Turns, Report(t) PROVE SettledInv'
  BY <1>7, SpeechAssumption DEF Report, Goto, workerRest, acceptVars, arbiterVars, playerVars,
       SettledInv, Unsettled, Running, TypeInv
<1>8. ASSUME NEW t \in Turns, CloseOwn(t) PROVE SettledInv'
  BY <1>8, SpeechAssumption DEF CloseOwn, Goto, acceptVars, arbiterVars, playerVars, SettledInv,
       Unsettled, Running, TypeInv
<1>9. ASSUME NEW t \in Turns, Detach(t) PROVE SettledInv'
  BY <1>9, SpeechAssumption DEF Detach, Goto, Locked, acceptVars, playerVars, SettledInv,
       Unsettled, Running, TypeInv
<1>10. ASSUME NEW t \in Turns, SilenceOwn(t) PROVE SettledInv'
  BY <1>10, SpeechAssumption DEF SilenceOwn, Goto, Pend, workerRest, acceptVars, arbiterVars,
       SettledInv, Unsettled, Running, TypeInv
<1>11. ASSUME NEW t \in Turns, Settle(t) PROVE SettledInv'
  <2>1. Outcome(t) \in Outcomes
    BY DEF Outcome, Outcomes, TypeInv
  <2>2. "none" \notin Outcomes
    BY DEF Outcomes
  <2> QED BY <1>11, <2>1, <2>2 DEF Settle, Goto, SettledInv, TypeInv, Unsettled, Running
<1>12. ASSUME NEW t \in Turns, Tell(t) PROVE SettledInv'
  BY <1>12, SpeechAssumption DEF Tell, Goto, workerRest, acceptVars, arbiterVars, playerVars,
       SettledInv, Unsettled, Running, TypeInv
<1>13. ASSUME NEW t \in Turns, Free(t) PROVE SettledInv'
  BY <1>13, SpeechAssumption DEF Free, Goto, acceptVars, playerVars, SettledInv, Unsettled,
       Running, TypeInv
<1>14. CASE StopSpeech \/ DictateBegin \/ DictateAdmit \/ OpenMic \/ EndListen
  <2>1. UNCHANGED <<outcome, pc>>
    BY <1>14 DEF StopSpeech, DictateBegin, DictateAdmit, OpenMic, EndListen, Cancel, Pend,
         workerVars, playerVars, acceptVars
  <2> QED BY <2>1 DEF SettledInv, Unsettled, Running, TypeInv
<1>15. ASSUME NEW t \in Turns, SpeakBegin(t) \/ SpeakFails(t) \/ SpeakReplaces(t) \/ ClipEnds(t)
            \/ ClosePlayer(t) \/ CloseEngine(t) \/ Expire(t)
     PROVE  SettledInv'
  <2>1. UNCHANGED <<outcome, pc>>
    BY <1>15 DEF SpeakBegin, SpeakFails, SpeakReplaces, ClipEnds, ClosePlayer, CloseEngine,
         Expire, Refuse, Cancel, Pend, arbiterVars, playerVars, workerVars, acceptVars
  <2> QED BY <2>1 DEF SettledInv, Unsettled, Running, TypeInv
<1>16. CASE UNCHANGED vars
  BY <1>16 DEF vars, acceptVars, arbiterVars, playerVars, workerVars, SettledInv, Unsettled,
       Running, TypeInv
<1> QED BY <1>1, <1>2, <1>3, <1>4, <1>5, <1>6, <1>7, <1>8, <1>9, <1>10, <1>11, <1>12, <1>13,
       <1>14, <1>15, <1>16 DEF Next, Accept, Worker

\* The invariant holds at the start.
LEMMA InitInv == Init => SpeechInv
<1> SUFFICES ASSUME Init PROVE SpeechInv
  OBVIOUS
<1>1. TypeInv
  <2>1. op \in Ops
    BY DEF Init, Ops
  <2>2. sent \in [Turns -> Seq({"chunk"} \cup Outcomes)]
    BY DEF Init
  <2> QED BY <2>1, <2>2 DEF Init, TypeInv, Places
<1>2. TurnInv /\ NameInv /\ PlayerInv
  BY DEF Init, TurnInv, NameInv, PlayerInv
<1>3. OpenInv /\ LockInv /\ ListenInv
  BY DEF Init, OpenInv, LockInv, Locked, ListenInv
<1>4. HeardInv /\ SettledInv
  BY DEF Init, HeardInv, OnlyTheCurrentSounds, SettledInv
<1> QED BY <1>1, <1>2, <1>3, <1>4 DEF SpeechInv

\* Every step keeps it, the worker of a turn as well as every request.
LEMMA NextInv == SpeechInv /\ [Next]_vars => SpeechInv'
<1> SUFFICES ASSUME SpeechInv, [Next]_vars PROVE SpeechInv'
  OBVIOUS
<1>1. /\ TypeInv /\ TurnInv /\ NameInv /\ PlayerInv /\ OpenInv /\ LockInv /\ ListenInv
      /\ HeardInv /\ SettledInv
  BY DEF SpeechInv
<1>2. TypeInv' /\ TurnInv' /\ NameInv' /\ PlayerInv' /\ OpenInv'
  BY <1>1, TypeStep, TurnStep, NameStep, PlayerStep, OpenStep
<1>3. LockInv' /\ ListenInv' /\ HeardInv' /\ SettledInv'
  BY <1>1, LockStep, ListenStep, HeardStep, SettledStep
<1> QED BY <1>2, <1>3 DEF SpeechInv

\* The inductive invariant: where each worker is, what its turn has then been
\* given, who holds the speakers and the microphone, and who may sound.
THEOREM SpeechInvariant == Spec => []SpeechInv
  BY InitInv, NextInv, PTL DEF Spec

\* The speakers have one user, who will return them, and never together with the
\* microphone (Arbiter).
THEOREM SpeakersClaimed == Spec => []SpeakersAreClaimed
<1>1. SpeechInv => SpeakersAreClaimed
  BY DEF SpeechInv, SpeakersAreClaimed, HalfDuplex, ClaimIsLive, TurnInv, ListenInv
<1> QED BY <1>1, SpeechInvariant, PTL

\* While a turn is the current one, no clip of another turn is heard, on whatever
\* player (_play_if_current, _cancel_speech).
THEOREM CurrentSounds == Spec => []OnlyTheCurrentSounds
<1>1. SpeechInv => OnlyTheCurrentSounds
  BY DEF SpeechInv, HeardInv
<1> QED BY <1>1, SpeechInvariant, PTL

-----------------------------------------------------------------------------
(* A stop keeps its word.                                                  *)

\* No step takes the cause away, or stops a turn without one.
LEMMA StoppedStep ==
  ASSUME TypeInv, StoppedInv, [Next]_vars
  PROVE  StoppedInv'
<1>1. CASE StopSpeech
  BY <1>1 DEF StopSpeech, Cancel, StoppedInv, TypeInv
<1>2. CASE UNCHANGED stopped /\ \A t \in Turns : cause[t] # "none" => cause'[t] = cause[t]
  BY <1>2 DEF StoppedInv, TypeInv
<1>3. CASE DictateBegin \/ DictateAdmit \/ OpenMic \/ EndListen
  BY <1>2, <1>3 DEF DictateBegin, DictateAdmit, Cancel, OpenMic, EndListen, acceptVars, TypeInv
<1>4. ASSUME NEW t \in Turns, SpeakBegin(t) \/ SpeakFails(t) \/ SpeakReplaces(t) \/ SpeakAdmit(t)
      PROVE  StoppedInv'
  BY <1>2, <1>4 DEF SpeakBegin, SpeakFails, SpeakReplaces, SpeakAdmit, Cancel, TypeInv
<1>5. ASSUME NEW t \in Turns, Worker(t) \/ ClipEnds(t) \/ ClosePlayer(t) \/ CloseEngine(t)
      PROVE  StoppedInv'
  <2>1. UNCHANGED <<stopped, cause>>
    BY <1>5 DEF Worker, GetPlayer, NextClip, Synth, PlayIfCurrent, Await, Report, CloseOwn, Detach,
         SilenceOwn, Settle, Tell, Free, ClipEnds, ClosePlayer, CloseEngine, workerRest, acceptVars
  <2> QED BY <1>2, <2>1
<1>6. ASSUME NEW t \in Turns, Expire(t) PROVE StoppedInv'
  BY <1>2, <1>6 DEF Expire, acceptVars, TypeInv
<1>7. CASE UNCHANGED vars
  BY <1>2, <1>7 DEF vars, acceptVars
<1> QED BY <1>1, <1>3, <1>4, <1>5, <1>6, <1>7 DEF Next, Accept

\* A turn that was stopped carries the cause.
THEOREM StoppedInvariant == Spec => []StoppedInv
<1>1. Init => StoppedInv
  BY DEF Init, StoppedInv
<1>2. SpeechInv /\ StoppedInv /\ [Next]_vars => StoppedInv'
  BY StoppedStep DEF SpeechInv
<1> QED BY <1>1, <1>2, SpeechInvariant, PTL DEF Spec

\* After stop-speech answered that a turn was stopped, the turn hands no clip to a
\* player and no chunk to its subscriber: _play_if_current looks at the cause
\* under the lock that the stop had.
THEOREM SilentAfterStop == Spec => NothingAfterStop
<1> DEFINE Silent(t) == played'[t] = played[t] /\ (Len(sent'[t]) > Len(sent[t]) => pc[t] = "tell")
<1>1. ASSUME TypeInv, StoppedInv, [Next]_vars, NEW t \in stopped
      PROVE  Silent(t)
  <2>1. t \in Turns /\ cause[t] # "none" /\ Len(sent[t]) \in Nat
    BY <1>1 DEF StoppedInv, TypeInv
  <2>2. CASE UNCHANGED <<played, sent>>
    BY <2>1, <2>2
  <2>3. ASSUME NEW u \in Turns, PlayIfCurrent(u) PROVE Silent(t)
    <3>1. u # t => played'[t] = played[t] /\ sent'[t] = sent[t]
      BY <1>1, <2>1, <2>3 DEF PlayIfCurrent, Publish, TypeInv
    <3>2. u = t => UNCHANGED <<played, sent>>
      BY <2>1, <2>3 DEF PlayIfCurrent
    <3> QED BY <2>1, <3>1, <3>2
  <2>4. ASSUME NEW u \in Turns, Tell(u) PROVE Silent(t)
    <3>1. UNCHANGED played /\ pc[u] = "tell" /\ (u # t => sent'[t] = sent[t])
      BY <1>1, <2>1, <2>4 DEF Tell, TypeInv
    <3> QED BY <2>1, <3>1
  <2>5. CASE StopSpeech \/ DictateBegin \/ DictateAdmit \/ OpenMic \/ EndListen
    BY <2>2, <2>5 DEF StopSpeech, DictateBegin, DictateAdmit, OpenMic, EndListen, workerVars
  <2>6. ASSUME NEW u \in Turns,
               \/ SpeakBegin(u) \/ SpeakFails(u) \/ SpeakReplaces(u) \/ SpeakAdmit(u)
               \/ ClipEnds(u) \/ ClosePlayer(u) \/ CloseEngine(u) \/ Expire(u)
        PROVE  Silent(t)
    BY <2>2, <2>6 DEF SpeakBegin, SpeakFails, SpeakReplaces, SpeakAdmit, ClipEnds, ClosePlayer,
         CloseEngine, Expire, workerVars
  <2>7. ASSUME NEW u \in Turns,
               \/ GetPlayer(u) \/ NextClip(u) \/ Synth(u) \/ Await(u) \/ Report(u)
               \/ CloseOwn(u) \/ Detach(u) \/ SilenceOwn(u) \/ Settle(u) \/ Free(u)
        PROVE  Silent(t)
    BY <2>2, <2>7 DEF GetPlayer, NextClip, Synth, Await, Report, CloseOwn, Detach, SilenceOwn,
         Settle, Free
  <2>8. CASE UNCHANGED vars
    BY <2>2, <2>8 DEF vars, workerVars
  <2> QED BY <1>1, <2>3, <2>4, <2>5, <2>6, <2>7, <2>8 DEF Next, Accept, Worker
<1>2. SpeechInv /\ StoppedInv /\ [Next]_vars
        => [\A t \in stopped : Silent(t)]_vars
  BY <1>1 DEF SpeechInv
<1> QED BY <1>2, SpeechInvariant, StoppedInvariant, PTL DEF Spec, NothingAfterStop

-----------------------------------------------------------------------------
(* A turn keeps the contract of a job.                                     *)

\* What is appended to a turn's messages is a terminal or leaves them as they were.
LEMMA TerminalsStep ==
  ASSUME TypeInv, NEW t \in Turns, NEW x \in {"chunk"} \cup Outcomes,
         sent' = [sent EXCEPT ![t] = Append(@, x)]
  PROVE  /\ \A u \in Turns \ {t} : Terminals(u)' = Terminals(u)
         /\ x = "chunk" => Terminals(t)' = Terminals(t)
         /\ x # "chunk" => Terminals(t)' = Append(Terminals(t), x)
<1>1. \A u \in Turns \ {t} : Terminals(u)' = Terminals(u)
  BY DEF Terminals, TypeInv
<1>2. Terminals(t)' = IF x \in Outcomes THEN Append(Terminals(t), x) ELSE Terminals(t)
  <2>1. sent[t] \in Seq({"chunk"} \cup Outcomes) /\ sent'[t] = Append(sent[t], x)
    BY DEF TypeInv
  <2> DEFINE S == {"chunk"} \cup Outcomes
             s == sent[t]
  <2>2. s \in Seq(S) /\ x \in S
    BY <2>1
  <2> HIDE DEF S, s
  <2>3. Only(Append(s, x), Outcomes)
          = IF x \in Outcomes THEN Append(Only(s, Outcomes), x) ELSE Only(s, Outcomes)
    BY <2>2, OnlyOfAppend
  <2> QED BY <2>1, <2>3 DEF Terminals, s
<1>3. "chunk" \notin Outcomes
  BY DEF Outcomes
<1> QED BY <1>1, <1>2, <1>3

\* The worker's moves: who sends what.
LEMMA SentCases ==
  ASSUME TypeInv, SettledInv, [Next]_vars
  PROVE  \/ UNCHANGED sent
         \/ \E t \in Turns : PlayIfCurrent(t) /\ sent' = [sent EXCEPT ![t] = Append(@, "chunk")]
         \/ \E t \in Turns : /\ Tell(t) /\ outcome[t] \in Outcomes
                            /\ sent' = [sent EXCEPT ![t] = Append(@, outcome[t])]
<1>1. ASSUME NEW t \in Turns, PlayIfCurrent(t)
      PROVE  UNCHANGED sent \/ sent' = [sent EXCEPT ![t] = Append(@, "chunk")]
  BY <1>1 DEF PlayIfCurrent, Publish
<1>2. ASSUME NEW t \in Turns, Tell(t)
      PROVE  \/ UNCHANGED sent
             \/ outcome[t] \in Outcomes /\ sent' = [sent EXCEPT ![t] = Append(@, outcome[t])]
  BY <1>2 DEF Tell, SettledInv
<1>3. CASE StopSpeech \/ DictateBegin \/ DictateAdmit \/ OpenMic \/ EndListen
  BY <1>3 DEF StopSpeech, DictateBegin, DictateAdmit, OpenMic, EndListen, workerVars
<1>4. ASSUME NEW t \in Turns,
             \/ SpeakBegin(t) \/ SpeakFails(t) \/ SpeakReplaces(t) \/ SpeakAdmit(t)
             \/ ClipEnds(t) \/ ClosePlayer(t) \/ CloseEngine(t) \/ Expire(t)
      PROVE  UNCHANGED sent
  BY <1>4 DEF SpeakBegin, SpeakFails, SpeakReplaces, SpeakAdmit, ClipEnds, ClosePlayer,
       CloseEngine, Expire, workerVars
<1>5. ASSUME NEW t \in Turns,
             \/ GetPlayer(t) \/ NextClip(t) \/ Synth(t) \/ Await(t) \/ Report(t)
             \/ CloseOwn(t) \/ Detach(t) \/ SilenceOwn(t) \/ Settle(t) \/ Free(t)
      PROVE  UNCHANGED sent
  BY <1>5 DEF GetPlayer, NextClip, Synth, Await, Report, CloseOwn, Detach, SilenceOwn, Settle, Free
<1>6. CASE UNCHANGED vars
  BY <1>6 DEF vars, workerVars
<1> QED BY <1>1, <1>2, <1>3, <1>4, <1>5, <1>6 DEF Next, Accept, Worker

\* A worker only moves forward, and only from "tell" to what follows it.
LEMMA UntoldStep ==
  ASSUME TypeInv, TurnInv, [Next]_vars, NEW t \in Turns, pc'[t] \in Unsettled \cup {"tell"}
  PROVE  pc[t] \in Unsettled \cup {"tell"} /\ ~Tell(t)
<1> DEFINE Early(p) == p \in Unsettled \cup {"tell"}
<1>1. CASE pc'[t] = pc[t]
  BY <1>1 DEF Tell, Goto, TypeInv
<1>2. ASSUME NEW u \in Turns, SpeakAdmit(u) PROVE Early(pc[t]) /\ ~Tell(t)
  <2>1. pc[u] = "unborn"
    BY <1>2, AdmitCases DEF TurnInv, TypeInv
  <2> QED BY <1>1, <1>2, <2>1, AdmitCases DEF Unsettled, Running, Tell, TypeInv
<1>3. ASSUME NEW u \in Turns,
             \/ GetPlayer(u) \/ NextClip(u) \/ Synth(u) \/ PlayIfCurrent(u) \/ Await(u)
             \/ Report(u) \/ CloseOwn(u) \/ Detach(u) \/ SilenceOwn(u) \/ Settle(u)
      PROVE  Early(pc[t]) /\ ~Tell(t)
  <2>1. Early(pc[u]) /\ pc[u] # "tell"
    BY <1>3 DEF GetPlayer, NextClip, Synth, PlayIfCurrent, Await, Report, CloseOwn, Detach,
         SilenceOwn, Settle, Unsettled, Running
  <2>2. \E p : pc' = [pc EXCEPT ![u] = p]
    BY <1>3 DEF GetPlayer, NextClip, Synth, PlayIfCurrent, Await, Report, CloseOwn, Detach,
         SilenceOwn, Settle, Goto
  <2>3. CASE u = t
    BY <2>1, <2>3 DEF Tell
  <2>4. CASE u # t
    BY <1>1, <2>2, <2>4 DEF TypeInv
  <2> QED BY <2>3, <2>4
<1>4. ASSUME NEW u \in Turns, Tell(u) \/ Free(u) PROVE Early(pc[t]) /\ ~Tell(t)
  <2>1. pc' = [pc EXCEPT ![u] = "free"] \/ pc' = [pc EXCEPT ![u] = "done"]
    BY <1>4 DEF Tell, Free, Goto
  <2> QED BY <1>1, <2>1 DEF Unsettled, Running, TypeInv
<1>5. CASE StopSpeech \/ DictateBegin \/ DictateAdmit \/ OpenMic \/ EndListen
  BY <1>1, <1>5 DEF StopSpeech, DictateBegin, DictateAdmit, OpenMic, EndListen, workerVars
<1>6. ASSUME NEW u \in Turns,
             \/ SpeakBegin(u) \/ SpeakFails(u) \/ SpeakReplaces(u)
             \/ ClipEnds(u) \/ ClosePlayer(u) \/ CloseEngine(u) \/ Expire(u)
      PROVE  Early(pc[t]) /\ ~Tell(t)
  BY <1>1, <1>6 DEF SpeakBegin, SpeakFails, SpeakReplaces, ClipEnds, ClosePlayer, CloseEngine,
       Expire, workerVars
<1>7. CASE UNCHANGED vars
  BY <1>1, <1>7 DEF vars, workerVars
<1> QED BY <1>2, <1>3, <1>4, <1>5, <1>6, <1>7 DEF Next, Accept, Worker

\* Every step but the telling keeps it.
LEMMA ToldStep ==
  ASSUME TypeInv, TurnInv, SettledInv, ToldInv, [Next]_vars
  PROVE  ToldInv'
<1> SUFFICES ASSUME NEW t \in Turns, pc'[t] \in Unsettled \cup {"tell"}
             PROVE  Terminals(t)' = <<>>
  BY DEF ToldInv
<1>1. Terminals(t) = <<>> /\ ~Tell(t)
  BY UntoldStep DEF ToldInv
<1>2. CASE UNCHANGED sent
  BY <1>1, <1>2 DEF Terminals
<1>3. ASSUME NEW u \in Turns, sent' = [sent EXCEPT ![u] = Append(@, "chunk")]
      PROVE  Terminals(t)' = <<>>
  BY <1>1, <1>3, TerminalsStep
<1>4. ASSUME NEW u \in Turns, Tell(u), outcome[u] \in Outcomes,
             sent' = [sent EXCEPT ![u] = Append(@, outcome[u])]
      PROVE  Terminals(t)' = <<>>
  <2>1. u # t
    BY <1>1, <1>4
  <2> QED BY <1>1, <1>4, <2>1, TerminalsStep
<1> QED BY <1>2, <1>3, <1>4, SentCases

\* No terminal is told before its turn is settled.
THEOREM ToldInvariant == Spec => []ToldInv
<1>1. Init => ToldInv
  BY OnlyOfNone DEF Init, ToldInv, Terminals
<1>2. SpeechInv /\ ToldInv /\ [Next]_vars => ToldInv'
  BY ToldStep DEF SpeechInv
<1> QED BY <1>1, <1>2, SpeechInvariant, PTL DEF Spec

\* Who settles what, and which turn a stop is accepted for.
LEMMA OutcomeCases ==
  ASSUME TypeInv, TurnInv, SettledInv, StoppedInv, [Next]_vars
  PROVE  \/ UNCHANGED <<outcome, stopped>>
         \/ \E t \in Turns : /\ outcome[t] = "none" /\ stopped' = stopped \cup {t}
                            /\ UNCHANGED <<outcome, sent>>
         \/ \E t \in Turns : \E o \in Outcomes :
              /\ outcome[t] = "none" /\ outcome' = [outcome EXCEPT ![t] = o]
              /\ o = "completed" => t \notin stopped
              /\ UNCHANGED <<stopped, sent>>
<1>1. CASE StopSpeech
  <2>1. CASE current = None
    BY <1>1, <2>1 DEF StopSpeech, workerVars
  <2>2. CASE current # None
    <3>1. current \in Turns /\ outcome[current] = "none"
      BY <2>2 DEF TypeInv, TurnInv, SettledInv, Unsettled
    <3>2. stopped' = stopped \cup {current} /\ UNCHANGED <<outcome, sent>>
      BY <1>1, <2>2 DEF StopSpeech, workerVars
    <3> QED BY <3>1, <3>2
  <2> QED BY <2>1, <2>2
<1>2. ASSUME NEW t \in Turns, Settle(t)
      PROVE  \E o \in Outcomes :
               /\ outcome[t] = "none" /\ outcome' = [outcome EXCEPT ![t] = o]
               /\ o = "completed" => t \notin stopped
               /\ UNCHANGED <<stopped, sent>>
  <2>1. outcome[t] = "none"
    BY <1>2 DEF Settle, SettledInv, Unsettled
  <2>2. Outcome(t) \in Outcomes /\ (Outcome(t) = "completed" => cause[t] = "none")
    BY DEF Outcome, Outcomes, TypeInv
  <2> QED BY <1>2, <2>1, <2>2 DEF Settle, workerRest, acceptVars, StoppedInv
<1>3. CASE DictateBegin \/ DictateAdmit \/ OpenMic \/ EndListen
  BY <1>3 DEF DictateBegin, DictateAdmit, OpenMic, EndListen, acceptVars, workerVars
<1>4. ASSUME NEW t \in Turns,
             \/ SpeakBegin(t) \/ SpeakFails(t) \/ SpeakReplaces(t) \/ SpeakAdmit(t)
             \/ ClipEnds(t) \/ ClosePlayer(t) \/ CloseEngine(t) \/ Expire(t)
      PROVE  UNCHANGED <<outcome, stopped>>
  BY <1>4 DEF SpeakBegin, SpeakFails, SpeakReplaces, SpeakAdmit, ClipEnds, ClosePlayer,
       CloseEngine, Expire, acceptVars, workerVars
<1>5. ASSUME NEW t \in Turns,
             \/ GetPlayer(t) \/ NextClip(t) \/ Synth(t) \/ PlayIfCurrent(t) \/ Await(t) \/ Report(t)
             \/ CloseOwn(t) \/ Detach(t) \/ SilenceOwn(t) \/ Tell(t) \/ Free(t)
      PROVE  UNCHANGED <<outcome, stopped>>
  BY <1>5 DEF GetPlayer, NextClip, Synth, PlayIfCurrent, Await, Report, CloseOwn, Detach,
       SilenceOwn, Tell, Free, workerRest, acceptVars
<1>6. CASE UNCHANGED vars
  BY <1>6 DEF vars, acceptVars, workerVars
<1> QED BY <1>1, <1>2, <1>3, <1>4, <1>5, <1>6 DEF Next, Accept, Worker

\* Every step of a turn is one of the contract, or none.
LEMMA JobStep ==
  ASSUME SpeechInv, StoppedInv, ToldInv, [Next]_vars, NEW t \in Turns
  PROVE  Job(t)!Next \/ UNCHANGED Job(t)!vars
<1>1. TypeInv /\ TurnInv /\ SettledInv
  BY DEF SpeechInv
<1>2. ASSUME NEW u \in Turns, outcome[u] = "none", stopped' = stopped \cup {u},
             UNCHANGED <<outcome, sent>>
      PROVE  Job(t)!AcceptAbort \/ UNCHANGED Job(t)!vars
  BY <1>1, <1>2 DEF Job!AcceptAbort, Job!vars, Terminals
<1>3. ASSUME NEW u \in Turns, NEW o \in Outcomes, outcome[u] = "none",
             outcome' = [outcome EXCEPT ![u] = o], o = "completed" => u \notin stopped,
             UNCHANGED <<stopped, sent>>
      PROVE  Job(t)!Next \/ UNCHANGED Job(t)!vars
  <2>1. u = t => Job(t)!Settle(o)
    BY <1>1, <1>3 DEF Job!Settle, Terminals, TypeInv
  <2>2. u # t => UNCHANGED Job(t)!vars
    BY <1>1, <1>3 DEF Job!vars, Terminals, TypeInv
  <2> QED BY <2>1, <2>2 DEF Job!Next, Job!Outcomes, Outcomes
<1>4. ASSUME NEW u \in Turns, PlayIfCurrent(u), sent' = [sent EXCEPT ![u] = Append(@, "chunk")]
      PROVE  UNCHANGED Job(t)!vars
  <2>1. Terminals(t)' = Terminals(t)
    BY <1>1, <1>4, TerminalsStep
  <2> QED BY <1>4, <2>1 DEF PlayIfCurrent, workerRest, acceptVars, Job!vars
<1>5. ASSUME NEW u \in Turns, Tell(u), outcome[u] \in Outcomes,
             sent' = [sent EXCEPT ![u] = Append(@, outcome[u])]
      PROVE  Job(t)!Send \/ UNCHANGED Job(t)!vars
  <2>1. UNCHANGED <<outcome, stopped>> /\ pc[u] = "tell"
    BY <1>5 DEF Tell, workerRest, acceptVars
  <2>2. CASE u = t
    <3>1. Terminals(t) = <<>> /\ outcome[t] # "chunk" /\ outcome[t] # "none"
      BY <1>5, <2>1, <2>2 DEF ToldInv, Outcomes
    <3>2. Terminals(t)' = Append(Terminals(t), outcome[t])
      <4> DEFINE x == outcome[t]
      <4>1. x \in Outcomes /\ x # "chunk" /\ sent' = [sent EXCEPT ![t] = Append(@, x)]
        BY <1>5, <2>2, <3>1
      <4> HIDE DEF x
      <4>2. Terminals(t)' = Append(Terminals(t), x)
        BY <1>1, <4>1, TerminalsStep
      <4> QED BY <4>2 DEF x
    <3>3. Terminals(t)' = <<outcome[t]>>
      BY <3>1, <3>2
    <3> QED BY <2>1, <3>1, <3>3 DEF Job!Send
  <2>3. CASE u # t
    <3>1. Terminals(t)' = Terminals(t)
      BY <1>1, <1>5, <2>3, TerminalsStep
    <3> QED BY <2>1, <3>1 DEF Job!vars
  <2> QED BY <2>2, <2>3
<1>6. CASE UNCHANGED <<outcome, stopped, sent>>
  BY <1>6 DEF Job!vars, Terminals
<1>7. CASE UNCHANGED sent
  BY <1>1, <1>2, <1>3, <1>6, <1>7, OutcomeCases DEF Job!Next
<1> QED BY <1>1, <1>4, <1>5, <1>7, SentCases DEF Job!Next

\* Each turn is a job as its subscriber was promised it, and a stop keeps its word
\* (_run_speech, jobs.JobLedger; _op_stop_speech).
THEOREM StopHonoured == Spec => StopIsHonoured
<1>1. Init => \A t \in Turns : Job(t)!Init
  BY OnlyOfNone DEF Init, Terminals, Job!Init
<1>2. SpeechInv /\ StoppedInv /\ ToldInv /\ [Next]_vars
        => [\A t \in Turns : Job(t)!Next \/ UNCHANGED Job(t)!vars]_vars
  BY JobStep
<1> QED BY <1>1, <1>2, SpeechInvariant, StoppedInvariant, ToldInvariant, SilentAfterStop, PTL
       DEF Spec, StopIsHonoured, ImplementsJob
=============================================================================
