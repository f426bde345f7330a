----------------------------- MODULE MCReading -----------------------------
(***************************************************************************)
(* Reading aloud, from what a pane or a document shows to what is heard:   *)
(* the text, the engine and its child, the player, the document reader,    *)
(* the turns that clients own, and the desktop's own voice.  The machines  *)
(* share no state, so a run takes one of them and leaves the others where  *)
(* they begin.                                                             *)
(***************************************************************************)
EXTENDS Integers, Sequences

CONSTANTS
  MaxRaw, MaxChars, MaxChunk, BoxRun,                              \* SpeechText
  Budgets, Unbounded, Cap, IOWait, ReapWait, MaxClips, MaxProbes,  \* Synthesis
  MaxPlays, MaxStops, MayDie,                                      \* Player
  Passages, MaxCommands,                                           \* Reader
  Owners, Utterances, Signatures, Adjustable, Kept, Lease, MaxTurns, MaxRestarts, \* OwnedTurns
  MaxSignals                                                       \* SystemVoice

ASSUME ReadingAssumption ==
  /\ {MaxRaw, MaxChars, MaxClips, MaxProbes, MaxPlays, MaxStops, MaxCommands,
      Lease, MaxTurns, MaxRestarts, MaxSignals} \subseteq Nat
  /\ {MaxChunk, BoxRun, Passages, Kept} \subseteq Nat \ {0}
  /\ Budgets \cup {Unbounded, Cap, IOWait, ReapWait} \subseteq Nat
  /\ \A b \in Budgets : b < Unbounded
  /\ MayDie \in BOOLEAN /\ Adjustable \subseteq Signatures

VARIABLES
  part,
  raw, phase, spoken, rest, buffer, clips,
  tier, mbrolaOk, call, io, process, maker, cancelled, requested, heard, calls,
  queue, pending, worker, at, clip, sink, lock, closing, closer, flagged, client, plays, stops,
  index, state, active, playing, job, left, sounding, failed, commands,
  instance, number, entries, turn, speech, lease, speaking, listening, op, given,
  greeter, menu, watch, fd, refused, asked, shutting, bus, recent, logind

textVars == <<raw, phase, spoken, rest, buffer, clips>>
synthesisVars == <<tier, mbrolaOk, call, io, process, maker, cancelled, requested, heard, calls>>
playerVars == <<queue, pending, worker, at, clip, sink, lock, closing, closer, flagged, client,
                plays, stops>>
readerVars == <<index, state, active, playing, job, left, sounding, failed, commands>>
ownedVars == <<instance, number, entries, turn, speech, lease, speaking, listening, op, given>>
greeterVars == <<greeter, menu, watch, fd, refused, asked, shutting, bus, recent, logind>>
vars == <<part, textVars, synthesisVars, playerVars, readerVars, ownedVars, greeterVars>>

Text == INSTANCE SpeechText
Engine == INSTANCE Synthesis
Clips == INSTANCE Player WITH process <- sink, requested <- closing
Document == INSTANCE Reader
Owned == INSTANCE OwnedTurns WITH left <- lease
Desktop == INSTANCE SystemVoice WITH at <- greeter, requested <- asked

Init ==
  /\ part \in {"text", "engine", "player", "document", "owned", "desktop"}
  /\ Text!Init /\ Engine!Init /\ Clips!Init /\ Document!Init /\ Owned!Init /\ Desktop!Init
  /\ part # "engine" => tier = "espeak"

Next ==
  \/ /\ part = "text" /\ Text!Next
     /\ UNCHANGED <<part, synthesisVars, playerVars, readerVars, ownedVars, greeterVars>>
  \/ /\ part = "engine" /\ Engine!Next
     /\ UNCHANGED <<part, textVars, playerVars, readerVars, ownedVars, greeterVars>>
  \/ /\ part = "player" /\ Clips!Next
     /\ UNCHANGED <<part, textVars, synthesisVars, readerVars, ownedVars, greeterVars>>
  \/ /\ part = "document" /\ Document!Next
     /\ UNCHANGED <<part, textVars, synthesisVars, playerVars, ownedVars, greeterVars>>
  \/ /\ part = "owned" /\ Owned!Next
     /\ UNCHANGED <<part, textVars, synthesisVars, playerVars, readerVars, greeterVars>>
  \/ /\ part = "desktop" /\ Desktop!Next
     /\ UNCHANGED <<part, textVars, synthesisVars, playerVars, readerVars, ownedVars>>

\* No fair action of a machine is enabled where it begins.
Spec == /\ Init /\ [][Next]_vars
        /\ Engine!Fairness /\ Clips!Fairness /\ Document!Fairness
        /\ Owned!Fairness /\ Desktop!Fairness

-----------------------------------------------------------------------------
\* Of condition_text and SentenceChunker: what is spoken is the text of the
\* pane, without its controls, every word in one clip of bounded length.
SpokenIsTheText == Text!SpokenIsClean /\ Text!ClipsAreTheText /\ Text!ClipsAreBounded

\* Of the engines: a clip is labelled with the voice that made it, and is not
\* handed over once cancelled.
ClipsAreLabelled == Engine!ClipsAreLabelled

\* Of the engines: a call ends, however its child behaves, and it is over once
\* its budget is, but for two named waits.
CallsEnd == Engine!CallsEnd /\ [](part = "engine" => Engine!CallInBudget)

\* Of the player: after a stop no sink of an older clip sounds, what it says is
\* pending is what waits and what it plays, and closed it has nothing left.
PlayerIsTrue == Clips!SilentAfterStop /\ Clips!PendingIsExact /\ Clips!ClosedIsSilent

\* Of the document reader: only the passage shown is heard, and only while the
\* reader is told to read.
HeardIsShown == Document!HeardIsShown

\* Reading goes on.  Of the player: every clip is played or dropped, unless the
\* worker died, and a close that was asked for gets there; of the document
\* reader: it goes on through the passages to the end, to an error it reports,
\* or to a command that halts it.
ReadsOn == Clips!ClipsEnd /\ Clips!CloseEnds /\ Document!ReadsOn

\* Of owned turns: an utterance is one request however often it is asked for
\* while its result is kept, the result stays as it was, and a stop silences only
\* what it was given for, also across a restart of the daemon.  A retry of a kept
\* utterance changes nothing, with its own signature or with another one, so the
\* refusal of a token that is used again for another text is a reply and no step.
RetriesAreHarmless ==
  [](part = "owned" => Owned!OneTurnEach) /\ Owned!ResultsStay /\ Owned!StopHitsItsOwn

\* Of owned turns: an owner is told what ended its turn, and a turn whose owner
\* is lost does end.
OwnersAreTold == [](part = "owned" => Owned!ToldWhy) /\ Owned!OwnerLossEnds

\* Of the desktop's voice: a shutdown is delayed for a goodbye and no longer,
\* and one that was cancelled leaves the next covered.
DelayIsReturned ==
  [](part = "desktop" => Desktop!NextIsCovered) /\ Desktop!GoodbyeFirst /\ Desktop!DelayEnds
=============================================================================
