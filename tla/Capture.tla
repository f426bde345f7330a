------------------------------ MODULE Capture ------------------------------
(***************************************************************************)
(* audio.MicCapture: a recorder, a reader thread that cuts what comes      *)
(* through its pipe into whole frames, a bounded queue that loses the      *)
(* oldest, and a consumer that reads frames until the end of the stream.   *)
(* The end is a sentinel in the same queue: the reader puts it, so do      *)
(* whoever asks for a close and whoever stops, and the consumer puts it    *)
(* back.  A putter that finds the queue full takes one item out and tries  *)
(* again, and the others run in between.                                   *)
(***************************************************************************)
EXTENDS Naturals, Sequences, FiniteSets

CONSTANTS
  Want,      \* frame_bytes
  QueueSize, \* _QUEUE_FRAMES
  MaxBytes   \* bound: bytes recorded

VARIABLES
  recorder, \* "off", "running" or "ended"
  pipe,     \* bytes in the pipe
  recorded, \* bytes recorded
  reader,   \* "none", "reading", "cutting", "ending", "last" or "over"
  buffer,   \* bytes of the reader's buffer
  frames,   \* frames cut
  queue,    \* frame numbers and Eof
  putting,  \* per thread, the item its _put holds and how that goes
  overruns,
  dropped,  \* the items _put took out
  consumer, \* "ready", "waiting" or "ended"
  heard,    \* the frames the consumer got
  stopping, requested, stopped \* _stopping, a close asked for, and stop over

vars == <<recorder, pipe, recorded, reader, buffer, frames, queue, putting, overruns, dropped,
          consumer, heard, stopping, requested, stopped>>
stream == <<recorder, pipe, recorded>>
cut == <<reader, buffer, frames>>
queued == <<queue, putting, overruns, dropped>>
closing == <<stopping, requested, stopped>>

Eof == 0
Callers == {"reader", "consumer", "closer", "stopper"}
Idle == [item |-> Eof, how |-> "none"]

Init ==
  /\ recorder = "off" /\ pipe = 0 /\ recorded = 0
  /\ reader = "none" /\ buffer = 0 /\ frames = 0
  /\ queue = <<>> /\ putting = [t \in Callers |-> Idle] /\ overruns = 0 /\ dropped = {}
  /\ consumer = "ready" /\ heard = <<>>
  /\ stopping = FALSE /\ requested = FALSE /\ stopped = FALSE

-----------------------------------------------------------------------------
(* The recorder, and what ends it.                                         *)

Start ==
  /\ recorder = "off" /\ ~requested
  /\ recorder' = "running" /\ reader' = "reading"
  /\ UNCHANGED <<pipe, recorded, buffer, frames, queued, consumer, heard, closing>>

Record ==
  /\ recorder = "running" /\ recorded < MaxBytes
  /\ recorded' = recorded + 1 /\ pipe' = pipe + 1
  /\ UNCHANGED <<recorder, cut, queued, consumer, heard, closing>>

RecorderEnds ==
  /\ recorder = "running"
  /\ recorder' = "ended"
  /\ UNCHANGED <<pipe, recorded, cut, queued, consumer, heard, closing>>

\* kill_group; what is in the pipe stays there to be read.
KilledRecorder == IF recorder = "running" THEN "ended" ELSE recorder

RequestStop ==
  /\ ~stopping /\ recorder # "off"
  /\ stopping' = TRUE /\ recorder' = KilledRecorder
  /\ UNCHANGED <<pipe, recorded, cut, queued, consumer, heard, requested, stopped>>

-----------------------------------------------------------------------------
(* _put, by any thread.                                                    *)

Puts(t, item) == putting' = [putting EXCEPT ![t] = [item |-> item, how |-> "try"]]
Free(t) == putting[t].how = "none"

TryPut(t) ==
  /\ putting[t].how = "try"
  /\ IF Len(queue) < QueueSize
     THEN queue' = Append(queue, putting[t].item) /\ putting' = [putting EXCEPT ![t] = Idle]
     ELSE putting' = [putting EXCEPT ![t].how = "evict"] /\ UNCHANGED queue
  /\ UNCHANGED <<stream, cut, overruns, dropped, consumer, heard, closing>>

Evicts(t, counted) ==
  /\ putting[t].how = "evict"
  /\ putting' = [putting EXCEPT ![t].how = "try"]
  /\ IF queue = <<>> THEN UNCHANGED <<queue, overruns, dropped>>
     ELSE /\ queue' = Tail(queue)
          /\ dropped' = dropped \cup ({Head(queue)} \ {Eof})
          /\ overruns' = overruns + counted
  /\ UNCHANGED <<stream, cut, consumer, heard, closing>>

\* Mutant: a dropped frame is not counted.
EvictUncounted(t) == Evicts(t, 0)

\* The oldest goes, if the consumer has not taken it; an Eof counts as well.
Evict(t) == Evicts(t, 1)

-----------------------------------------------------------------------------
(* The reader thread.                                                      *)

ReadsPipe(ends) ==
  /\ reader = "reading"
  /\ \/ \E n \in 1..pipe :
          /\ pipe' = pipe - n /\ buffer' = buffer + n /\ reader' = "cutting"
     \/ ends /\ reader' = "ending" /\ UNCHANGED <<pipe, buffer>>
  /\ UNCHANGED <<recorder, recorded, frames, queued, consumer, heard, closing>>

\* Mutant: the stream ends with the recorder, whatever is left in the pipe.
ReadPipeEager == ReadsPipe(recorder = "ended")

\* read1 gives what there is, and nothing once the recorder is gone and the
\* pipe is empty.
ReadPipe == ReadsPipe(recorder = "ended" /\ pipe = 0)

\* Whole frames, one put at a time; what is left waits for more bytes.
CutFrame ==
  /\ reader = "cutting" /\ Free("reader")
  /\ IF buffer >= Want
     THEN /\ buffer' = buffer - Want /\ frames' = frames + 1
          /\ Puts("reader", frames + 1) /\ UNCHANGED reader
     ELSE reader' = "reading" /\ UNCHANGED <<buffer, frames, putting>>
  /\ UNCHANGED <<stream, queue, overruns, dropped, consumer, heard, closing>>

\* The partial frame is dropped, and the end is put.
EndStream ==
  /\ reader = "ending"
  /\ reader' = "last" /\ buffer' = 0 /\ Puts("reader", Eof)
  /\ UNCHANGED <<stream, frames, queue, overruns, dropped, consumer, heard, closing>>

ReaderOver ==
  /\ reader = "last" /\ Free("reader")
  /\ reader' = "over"
  /\ UNCHANGED <<stream, buffer, frames, queued, consumer, heard, closing>>

-----------------------------------------------------------------------------
(* The consumer: read() without a timeout, and again after it was told so.  *)

Read ==
  /\ consumer # "waiting" /\ recorder # "off"
  /\ consumer' = "waiting"
  /\ UNCHANGED <<stream, cut, queued, heard, closing>>

Gets(putBack) ==
  /\ consumer = "waiting" /\ queue # <<>> /\ Free("consumer")
  /\ queue' = Tail(queue)
  /\ IF Head(queue) = Eof
     THEN putBack /\ consumer' = "ended" /\ UNCHANGED heard
     ELSE heard' = Append(heard, Head(queue)) /\ consumer' = "ready" /\ UNCHANGED putting
  /\ UNCHANGED <<stream, cut, overruns, dropped, closing>>

\* An Eof is put back, for every later read.
Get == Gets(Puts("consumer", Eof))

-----------------------------------------------------------------------------
(* Closing.                                                                *)

\* _on_close_requested: the recorder is killed only while somebody uses it.
RequestClose ==
  /\ ~requested
  /\ requested' = TRUE /\ stopping' = TRUE
  /\ Puts("closer", Eof)
  /\ recorder' = IF consumer = "waiting" THEN KilledRecorder ELSE recorder
  /\ UNCHANGED <<pipe, recorded, cut, queue, overruns, dropped, consumer, heard, stopped>>

StopKills ==
  /\ requested /\ ~stopped /\ recorder = "running"
  /\ recorder' = "ended"
  /\ UNCHANGED <<pipe, recorded, cut, queued, consumer, heard, closing>>

\* stop: the group is dead and the reader joined before anything is let go.
Stop ==
  /\ requested /\ ~stopped /\ recorder # "running" /\ reader \in {"none", "over"}
  /\ stopped' = TRUE
  /\ Puts("stopper", Eof)
  /\ UNCHANGED <<stream, cut, queue, overruns, dropped, consumer, heard, stopping, requested>>

Next ==
  \/ Start \/ Record \/ RecorderEnds \/ RequestStop \/ ReadPipe \/ CutFrame \/ EndStream
  \/ ReaderOver \/ Read \/ Get \/ RequestClose \/ StopKills \/ Stop
  \/ \E t \in Callers : TryPut(t) \/ Evict(t)

Fairness ==
  /\ WF_vars(ReadPipe) /\ WF_vars(CutFrame) /\ WF_vars(EndStream) /\ WF_vars(ReaderOver)
  /\ WF_vars(Get) /\ WF_vars(StopKills) /\ WF_vars(Stop)
  /\ \A t \in Callers : WF_vars(TryPut(t)) /\ WF_vars(Evict(t))

Spec == Init /\ [][Next]_vars /\ Fairness

-----------------------------------------------------------------------------
(* Properties.                                                             *)

Elements(s) == {s[i] : i \in DOMAIN s}
InHand == {putting["reader"].item} \ {Eof}

\* Frames reach the consumer whole, once and in order, and each one cut is
\* heard, on its way, or was dropped; what was dropped is in overruns.
LossIsCounted ==
  /\ \A i \in 2..Len(heard) : heard[i - 1] < heard[i]
  /\ 1..frames = Elements(heard) \cup (Elements(queue) \ {Eof}) \cup InHand \cup dropped
  /\ Cardinality(dropped) <= overruns

\* A consumer that is told the stream ended has been given, or has lost to
\* the bound, all that was recorded, unless a close was asked for.
EndIsTheEnd ==
  [][consumer = "waiting" /\ consumer' = "ended" /\ ~requested =>
       frames * Want + (recorded % Want) = recorded /\ Elements(queue) \subseteq {Eof}]_vars

\* Once the recorder is gone or a close is asked for, a read that blocks
\* returns, however full the queue is and whoever takes the sentinel out.
ReadReturns == consumer = "waiting" /\ (recorder = "ended" \/ requested) ~> consumer # "waiting"
=============================================================================
