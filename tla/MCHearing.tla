----------------------------- MODULE MCHearing -----------------------------
(***************************************************************************)
(* Listening, from the microphone to the text: the lifecycle every resource*)
(* of it obeys, the capture queue, managed capture, the voice activity     *)
(* detector, the streaming recogniser, those that transcribe a whole       *)
(* utterance, and the record of consent they depend on.  The machines share*)
(* no state, so a run takes one of them and leaves the others where they   *)
(* begin.                                                                  *)
(***************************************************************************)
EXTENDS ResourceLifecycle, Sequences

CONSTANTS
  Want, QueueSize, MaxBytes,                                  \* Capture
  Levels, MinRms, Margin, StartFrames, SuppressedFrames, EndFrames, Window, \* Vad
  Words, MaxFrames, MaxTurns,                                 \* the recognisers
  Writers, Subjects, Digests, MaxOps                          \* ConsentRecord

ASSUME HearingAssumption ==
  /\ {Want, QueueSize, StartFrames, SuppressedFrames, EndFrames, Window} \subseteq Nat \ {0}
  /\ {MaxBytes, MinRms, Margin, MaxFrames, MaxTurns, MaxOps} \cup Levels \subseteq Nat

VARIABLES
  part,
  recorder, pipe, recorded, reader, buffer, frames, queue, putting, overruns, dropped, consumer,
  captured, stopping, hangup, stopped,
  lease, phase, client, at, stop, writer, sender, sup, alive, marker, daemon,
  window, floor, suppressed, judged, run, quiet, event, heard, room,
  lib, open, dirty, segments, partial, last, fed, turns, shown,
  kept, utterance, pcm, provisional, said, utterances, decoding, after, sent, proc, ready, input,
  output, closed, disposed, result,
  file, lock, step, op, mine, strays, asked

captureVars == <<recorder, pipe, recorded, reader, buffer, frames, queue, putting, overruns,
                 dropped, consumer, captured, stopping, hangup, stopped>>
microphoneVars == <<lease, phase, client, at, stop, writer, sender, sup, alive, marker, daemon>>
vadVars == <<window, floor, suppressed, judged, run, quiet, event, heard, room>>
voskVars == <<lib, open, dirty, segments, partial, last, fed, turns, shown>>
recogniserVars == <<kept, utterance, pcm, provisional, said, utterances, decoding, after, sent, proc,
                    ready, input, output, closed, disposed, result>>
consentVars == <<file, lock, step, op, mine, strays, asked>>
hearingVars == <<part, vars, captureVars, microphoneVars, vadVars, voskVars, recogniserVars, consentVars>>

Queue == INSTANCE Capture WITH heard <- captured, requested <- hangup
Managed == INSTANCE Microphone
Detector == INSTANCE Vad WITH state <- judged
Streaming == INSTANCE VoskTurn
Whole == INSTANCE Recogniser WITH open <- utterance, fed <- said, turns <- utterances,
                                  pc <- decoding
Consent == INSTANCE ConsentRecord WITH pc <- step

HearingInit ==
  /\ Init
  /\ part \in {"resource", "queue", "managed", "detector", "streaming", "whole", "consent"}
  /\ Queue!Init /\ Managed!Init /\ Detector!Init /\ Streaming!Init /\ Whole!Init /\ Consent!Init
  /\ part # "whole" => ~kept
  /\ part # "consent" => file = Consent!NoGrants

HearingNext ==
  \/ /\ part = "resource" /\ Next
     /\ UNCHANGED <<part, captureVars, microphoneVars, vadVars, voskVars, recogniserVars, consentVars>>
  \/ /\ part = "queue" /\ Queue!Next
     /\ UNCHANGED <<part, vars, microphoneVars, vadVars, voskVars, recogniserVars, consentVars>>
  \/ /\ part = "managed" /\ Managed!Next
     /\ UNCHANGED <<part, vars, captureVars, vadVars, voskVars, recogniserVars, consentVars>>
  \/ /\ part = "detector" /\ Detector!Next
     /\ UNCHANGED <<part, vars, captureVars, microphoneVars, voskVars, recogniserVars, consentVars>>
  \/ /\ part = "streaming" /\ Streaming!Next
     /\ UNCHANGED <<part, vars, captureVars, microphoneVars, vadVars, recogniserVars, consentVars>>
  \/ /\ part = "whole" /\ Whole!Next
     /\ UNCHANGED <<part, vars, captureVars, microphoneVars, vadVars, voskVars, consentVars>>
  \/ /\ part = "consent" /\ Consent!Next
     /\ UNCHANGED <<part, vars, captureVars, microphoneVars, vadVars, voskVars, recogniserVars>>

\* No fair action of a machine is enabled where it begins.
HearingSpec == /\ HearingInit /\ [][HearingNext]_hearingVars
               /\ Fairness
               /\ Queue!Fairness /\ Managed!Fairness /\ Whole!Fairness /\ Consent!Fairness

-----------------------------------------------------------------------------
(* Properties.  ClosedIsProven and LateChildDies are the resource's own.    *)

\* Of the capture queue: every frame cut is heard in order, on its way, or
\* counted among the lost.
LossIsCounted == Queue!LossIsCounted

\* A call into listening returns, and with the truth.  Of the capture queue: a
\* read that blocks returns once the recorder is gone or a close is asked for,
\* and says that the stream ended only after all that was recorded; of the
\* whole-utterance recognisers: calls return, and a close ends one; of a
\* resource: a close never waits for a user that does not leave.
CallsReturn == Queue!EndIsTheEnd /\ Queue!ReadReturns /\ Whole!CallsReturn /\ CloseReturns

\* Of managed capture: a capture that is stopped gives the device back or
\* quarantines it, whatever its supervisor does; the device is given back, and
\* the indicator goes off, only when nothing of the capture lives.
CaptureEnds == Managed!CaptureEnds /\ [](part = "managed" => Managed!ReleasedIsSilent)

\* Of the detector: a voice does not push the noise floor up.
FloorIsTheRooms == Detector!FloorIsTheRooms

\* Of the recognisers: the text is the turn's; what the streaming one shows has
\* every word of it once, and no other turn's.
TextIsTheTurns == Streaming!ShownIsTheTurn /\ Whole!TextIsTheTurns

\* Of the record of consent: a writer changes only the subject it was asked
\* about, and no agreement is dated anew.
OthersAreKept == Consent!OthersAreKept
=============================================================================
