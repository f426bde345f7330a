----------------------------- MODULE Recogniser -----------------------------
(***************************************************************************)
(* The recognisers that transcribe a whole utterance (stt.py): a turn's    *)
(* audio is buffered, and decoded by a child process under a deadline.     *)
(* Whisper and Whistle keep one child and talk to it over pipes; VibeVoice *)
(* runs one for each decode.  The worker thread calls the engine; another  *)
(* thread cancels or closes it at any step.  Audio is a sequence of        *)
(* frames, words or noise; a transcript is the words of the audio decoded. *)
(***************************************************************************)
EXTENDS Naturals, Sequences, Filter

CONSTANTS
  Words,       \* frames that hold a word
  MaxFrames,   \* frames fed in a turn
  MaxTurns

VARIABLES
  kept,        \* a child kept for all decodes, or one for each
  open, pcm, provisional, \* the turn: _open, _pcm, _provisional
  fed,         \* every frame of the turn
  turns,       \* turns begun
  pc, after,   \* where the worker is in a decode; the call that decodes
  sent,        \* the audio being decoded
  proc,        \* the child: "none", "loading", "serving", "dead"
  ready,       \* _ready
  input, output, \* the pipes: audio to decode; replies not read
  closed,      \* _closed
  disposed,    \* close has run to its end
  result       \* what the last call returned or raised

turn == <<open, pcm, provisional, fed, turns>>
decode == <<pc, after, sent>>
child == <<proc, input, output>>
vars == <<kept, turn, decode, child, ready, closed, disposed, result>>

None == "none"
Noise == "noise"
Nothing == [kind |-> None]
NoCache == [length |-> 0, text |-> <<>>]
Text(audio) == Only(audio, Words)

Init ==
  /\ kept \in BOOLEAN
  /\ open = FALSE /\ pcm = <<>> /\ provisional = NoCache /\ fed = <<>> /\ turns = 0
  /\ pc = "idle" /\ after = None /\ sent = <<>>
  /\ proc = IF kept THEN "loading" ELSE "none"
  /\ input = <<>> /\ output = <<>> /\ ready = FALSE
  /\ closed = FALSE /\ disposed = FALSE /\ result = Nothing

-----------------------------------------------------------------------------
(* Calls of the worker.  A closed engine refuses them (_require_live).     *)

Live == pc = "idle" /\ ~closed

StartUtterance ==
  /\ Live /\ turns < MaxTurns
  /\ turns' = turns + 1
  /\ open' = TRUE /\ pcm' = <<>> /\ provisional' = NoCache /\ fed' = <<>>
  /\ result' = Nothing
  /\ UNCHANGED <<kept, decode, child, ready, closed, disposed>>

Feed ==
  /\ Live /\ open /\ Len(fed) < MaxFrames
  /\ \E f \in Words \cup {Noise} : pcm' = Append(pcm, f) /\ fed' = Append(fed, f)
  /\ result' = Nothing
  /\ UNCHANGED <<kept, open, provisional, turns, decode, child, ready, closed, disposed>>

\* check_health: a kept child that is gone fails the turn while it is fed.
CheckHealth ==
  /\ Live /\ kept /\ proc \in {"none", "dead"}
  /\ result' = [kind |-> "error"]
  /\ UNCHANGED <<kept, turn, decode, child, ready, closed, disposed>>

Provisional ==
  /\ Live /\ open /\ pcm # <<>>
  /\ pc' = "begin" /\ after' = "provisional" /\ sent' = pcm /\ result' = Nothing
  /\ UNCHANGED <<kept, turn, child, ready, closed, disposed>>

\* An equal length is the same audio, as feeding only appends.
CacheAnswers == provisional.length > 0 /\ provisional.length = Len(pcm)

EndUtterance ==
  /\ Live /\ open
  /\ open' = FALSE /\ pcm' = <<>> /\ provisional' = NoCache
  /\ IF pcm = <<>> \/ CacheAnswers
     THEN result' = [kind |-> "text", text |-> provisional.text] /\ UNCHANGED decode
     ELSE /\ pc' = "begin" /\ after' = "end" /\ sent' = pcm /\ result' = Nothing
  /\ UNCHANGED <<kept, fed, turns, child, ready, closed, disposed>>

-----------------------------------------------------------------------------
(* A decode.                                                               *)

\* What the call does with the text.
Return(text) ==
  /\ pc' = "idle" /\ after' = None /\ sent' = <<>>
  /\ result' = [kind |-> IF after = "end" THEN "text" ELSE "so far", text |-> text]
  /\ IF after = "end" THEN UNCHANGED <<open, pcm, provisional>>
     ELSE /\ provisional' = IF text # <<>> THEN [length |-> Len(sent), text |-> text]
                            ELSE NoCache
          /\ pcm' = IF text = <<>> THEN <<>> ELSE pcm
          /\ open' = open
  /\ UNCHANGED <<fed, turns>>

Raise ==
  /\ pc' = "idle" /\ after' = None /\ sent' = <<>>
  /\ result' = [kind |-> "error"]
  /\ UNCHANGED turn

NoChild == proc' = "none" /\ input' = <<>> /\ output' = <<>>

\* A decode of a closed engine is the empty text; a kept child that was
\* stopped by an earlier failure is not started again.
Begin ==
  /\ pc = "begin"
  /\ \/ closed /\ Return(<<>>) /\ UNCHANGED child
     \/ /\ ~closed /\ ~kept
        /\ proc' = "serving" /\ input' = <<sent>> /\ output' = <<>>
        /\ pc' = "reply" /\ UNCHANGED <<turn, after, sent, result>>
     \/ /\ ~closed /\ kept /\ proc # "none"
        /\ pc' = IF ready THEN "write" ELSE "ready"
        /\ UNCHANGED <<turn, child, after, sent, result>>
     \/ ~closed /\ kept /\ proc = "none" /\ Raise /\ UNCHANGED child
  /\ UNCHANGED <<kept, ready, closed, disposed>>

\* Mutant: the child is left running after a failure, for the next decode.
StopChildNot == UNCHANGED child

\* _stop_child: killed and reaped with its pipes.
StopChild == NoChild

\* A deadline, a lost pipe, an error reply or a changed model: the child is
\* stopped; if the engine was closed meanwhile the text is empty instead.
Fail ==
  /\ IF closed THEN Return(<<>>) /\ NoChild ELSE Raise /\ StopChild
  /\ UNCHANGED <<kept, ready, closed, disposed>>

\* The run of a single decode is late: an error even when the engine was closed.
TimedOut ==
  /\ pc \in {"ready", "write", "reply"}
  /\ IF closed /\ ~kept
     THEN Raise /\ NoChild /\ UNCHANGED <<kept, ready, closed, disposed>>
     ELSE Fail

ReadReady ==
  /\ pc = "ready" /\ output # <<>>
  /\ \/ /\ Head(output).kind = "ready"
        /\ ready' = TRUE /\ output' = Tail(output) /\ pc' = "write"
        /\ UNCHANGED <<kept, turn, after, sent, proc, input, closed, disposed, result>>
     \/ Head(output).kind # "ready" /\ Fail

Write ==
  /\ pc = "write" /\ proc # "dead"
  /\ input' = Append(input, sent) /\ pc' = "reply"
  /\ UNCHANGED <<kept, turn, after, sent, proc, output, ready, closed, disposed, result>>

\* The reply, and what follows it: the child of a single decode is always
\* killed and reaped, and so is a kept one when the engine was closed.
ReadReply ==
  /\ pc = "reply" /\ output # <<>>
  /\ \/ /\ Head(output).kind = "text" /\ closed /\ ~kept
        /\ Return(<<>>) /\ NoChild /\ UNCHANGED <<kept, ready, closed, disposed>>
     \/ /\ Head(output).kind = "text" /\ (closed => kept)
        /\ Return(Head(output).text)
        /\ IF kept /\ ~closed THEN output' = Tail(output) /\ UNCHANGED <<proc, input>>
           ELSE NoChild
        /\ UNCHANGED <<kept, ready, closed, disposed>>
     \/ Head(output).kind = "error" /\ Fail

LostPipe ==
  /\ pc \in {"ready", "write", "reply"} /\ proc = "dead" /\ (pc = "write" \/ output = <<>>)
  /\ Fail

-----------------------------------------------------------------------------
(* The child (whistle_provider.py's serve, and its like).                  *)

ChildLoads ==
  /\ proc = "loading"
  /\ \E ok \in BOOLEAN :
       /\ output' = Append(output, IF ok THEN [kind |-> "ready"] ELSE [kind |-> "error"])
       /\ proc' = IF ok THEN "serving" ELSE "dead"
  /\ UNCHANGED <<kept, turn, decode, input, ready, closed, disposed, result>>

ChildReplies ==
  /\ proc = "serving" /\ input # <<>>
  /\ \E ok \in BOOLEAN :
       output' = Append(output, IF ok THEN [kind |-> "text", text |-> Text(Head(input))]
                                ELSE [kind |-> "error"])
  /\ input' = Tail(input)
  /\ UNCHANGED <<kept, turn, decode, proc, ready, closed, disposed, result>>

\* It dies; so it does when cancel or a close request kills its group.
ChildDies ==
  /\ proc \in {"loading", "serving"} /\ proc' = "dead"
  /\ UNCHANGED <<kept, turn, decode, input, output, ready, closed, disposed, result>>

-----------------------------------------------------------------------------
(* The other thread.                                                       *)

\* _on_close_requested: at once, whoever is in a decode; its child is killed.
CloseRequest ==
  /\ ~closed /\ closed' = TRUE
  /\ proc' = IF pc # "idle" /\ proc # "none" THEN "dead" ELSE proc
  /\ UNCHANGED <<kept, turn, decode, input, output, ready, disposed, result>>

\* close itself, when no call is in the engine.
Dispose ==
  /\ closed /\ ~disposed /\ pc = "idle"
  /\ disposed' = TRUE /\ open' = FALSE /\ pcm' = <<>> /\ NoChild
  /\ UNCHANGED <<kept, provisional, fed, turns, decode, ready, closed, result>>

-----------------------------------------------------------------------------
Worker == Begin \/ ReadReady \/ Write \/ ReadReply \/ LostPipe
Calls == StartUtterance \/ Feed \/ CheckHealth \/ Provisional \/ EndUtterance
Next == \/ Calls \/ Worker \/ TimedOut
        \/ ChildLoads \/ ChildReplies \/ ChildDies
        \/ CloseRequest \/ Dispose

\* The worker runs, each wait of an engine that is not closed has a deadline,
\* and a closer that asked goes on.  The deadline of a closed engine's decode
\* is left out: a close has to end the wait by killing the child.
Fairness == WF_vars(Worker) /\ WF_vars(TimedOut /\ ~closed) /\ WF_vars(Dispose)
Spec == Init /\ [][Next]_vars
FairSpec == Spec /\ Fairness

-----------------------------------------------------------------------------
(* Properties.                                                             *)

\* The text of a turn is the words that were fed to it, all of them and no
\* other's: not a late reply to an earlier decode, not the words kept before
\* more was said, and none lost with the noise that was dropped.
TextIsTheTurns ==
  result.kind = "text" /\ ~closed => result.text = Text(fed)

\* Every call returns, whatever the child does; a close ends it by itself,
\* without the deadline.
CallsReturn == pc # "idle" ~> pc = "idle"
=============================================================================
