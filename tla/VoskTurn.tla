------------------------------ MODULE VoskTurn ------------------------------
(***************************************************************************)
(* The streaming recogniser (stt.py's VoskStt): segments the library has   *)
(* closed, the partial of the one that is open, and the audio the library  *)
(* holds since its last final result.  libvosk is external: it closes a    *)
(* segment when it likes, rejects any frame, and hears a word per frame.   *)
(* An engine serves one turn after another, some of them abandoned.        *)
(***************************************************************************)
EXTENDS Naturals, Sequences, Filter

CONSTANTS Words, MaxFrames, MaxTurns

VARIABLES
  lib,                      \* what the library holds: its frames
  open, dirty,              \* _open, _dirty
  segments, partial, last,  \* _segments, _partial, _last
  fed, turns,               \* the frames of this turn; turns begun
  shown                     \* what the last call returned

vars == <<lib, open, dirty, segments, partial, last, fed, turns, shown>>

Quiet == "quiet"
Text(audio) == Only(audio, Words)
NoText == [kind |-> "none", text |-> <<>>]

Init ==
  /\ lib = <<>> /\ open = FALSE /\ dirty = FALSE
  /\ segments = <<>> /\ partial = <<>> /\ last = <<>>
  /\ fed = <<>> /\ turns = 0 /\ shown = NoText

\* A final result is also the library's reset: its text is thrown away.
Drain == lib' = IF dirty THEN <<>> ELSE lib

StartUtterance ==
  /\ turns < MaxTurns /\ turns' = turns + 1
  /\ Drain /\ dirty' = FALSE
  /\ segments' = <<>> /\ partial' = <<>> /\ last' = <<>>
  /\ open' = TRUE /\ fed' = <<>> /\ shown' = NoText

\* What a frame leaves in segments and partial.
Heard(audio, endpoint) ==
  IF endpoint THEN segments' = segments \o Text(audio) /\ partial' = <<>> /\ lib' = <<>>
  ELSE segments' = segments /\ partial' = Text(audio) /\ lib' = audio

\* feed: the turn's text when it changed.
Feed ==
  /\ open /\ Len(fed) < MaxFrames
  /\ \E f \in Words \cup {Quiet}, endpoint \in BOOLEAN :
       fed' = Append(fed, f) /\ Heard(Append(lib, f), endpoint)
  /\ dirty' = TRUE
  /\ last' = segments' \o partial'
  /\ shown' = IF last' = last THEN NoText ELSE [kind |-> "partial", text |-> last']
  /\ UNCHANGED <<open, turns>>

\* A frame the library rejects, having taken it or not: the turn fails, and
\* its caller abandons it or feeds on.
FeedRejected ==
  /\ open /\ Len(fed) < MaxFrames
  /\ \E taken \in BOOLEAN, f \in Words :
       /\ lib' = IF taken THEN Append(lib, f) ELSE lib
       /\ fed' = IF taken THEN Append(fed, f) ELSE fed
  /\ dirty' = TRUE
  /\ shown' = [kind |-> "error", text |-> <<>>]
  /\ UNCHANGED <<open, segments, partial, last, turns>>

\* end_utterance: the library's last segment closes the turn.
EndUtterance ==
  /\ open /\ open' = FALSE
  /\ shown' = [kind |-> "text", text |-> segments \o Text(lib)]
  /\ lib' = <<>> /\ dirty' = FALSE
  /\ segments' = <<>> /\ partial' = <<>> /\ last' = <<>>
  /\ UNCHANGED <<fed, turns>>

Next == StartUtterance \/ Feed \/ FeedRejected \/ EndUtterance
Spec == Init /\ [][Next]_vars

-----------------------------------------------------------------------------
\* What a turn shows, as a partial or as its text, is every word the library
\* took of that turn, once, in order, and nothing of a turn before it.
ShownIsTheTurn == shown.kind \in {"partial", "text"} => shown.text = Text(fed)
=============================================================================
