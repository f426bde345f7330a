-------------------------------- MODULE Vad --------------------------------
(***************************************************************************)
(* The voice activity detector (vad.py): a state machine clocked by the    *)
(* frames it is fed.  Levels are small integers; the noise floor moves     *)
(* towards the quietest frame of a window by any part of the way, which    *)
(* stands for the two rates.  The turn may suppress the detector while the *)
(* machine speaks, and reset it between turns.                             *)
(***************************************************************************)
EXTENDS Naturals, Sequences, FiniteSetsExt

CONSTANTS
  Levels,                      \* RMS levels a frame may have
  MinRms, Margin,              \* vad.min_rms, vad.margin
  StartFrames, SuppressedFrames, EndFrames, Window

VARIABLES
  window, floor, suppressed, state, run, quiet,
  event,     \* what the last feed returned
  heard,     \* whether each of the last frames was loud, the newest last
  room       \* the highest quietest frame a full window has had

vars == <<window, floor, suppressed, state, run, quiet, event, heard, room>>

Threshold == Max({MinRms, floor * Margin})
Last(s, n) == IF Len(s) <= n THEN s ELSE SubSeq(s, Len(s) - n + 1, Len(s))
Quietest(w) == Min({w[i] : i \in DOMAIN w})
Longest == Max({StartFrames, SuppressedFrames, EndFrames})

Init ==
  /\ window = <<>> /\ floor = MinRms /\ suppressed = FALSE
  /\ state = "silence" /\ run = 0 /\ quiet = 0
  /\ event = "none" /\ heard = <<>> /\ room = MinRms

\* Mutant: the floor climbs from the first frame of a turn.
ClimbsAtOnce(w) == TRUE
\* The minimum of a window that is not full is not yet a minimum.
Climbs(w) == Len(w) = Window

\* _adapt_floor, with the frame in the window.
AdaptFloor(level) ==
  LET w == Last(Append(window, level), Window)
      target == Quietest(w)
  IN /\ window' = w
     /\ floor' \in IF target < floor THEN target..floor
                   ELSE IF Climbs(w) THEN floor..target ELSE {floor}
     /\ room' = IF Len(w) = Window THEN Max({room, target}) ELSE room

\* Inside speech: a pause between words is part of it.
InSpeech(loud) ==
  IF loud THEN /\ quiet' = 0 /\ event' = "speech" /\ UNCHANGED <<state, run>>
  ELSE IF quiet + 1 >= EndFrames
  THEN state' = "silence" /\ run' = 0 /\ quiet' = 0 /\ event' = "end"
  ELSE quiet' = quiet + 1 /\ event' = "speech" /\ UNCHANGED <<state, run>>

Need == IF suppressed THEN SuppressedFrames ELSE StartFrames

\* Outside it: a burst shorter than the sustain falls back to silence.
OutOfSpeech(loud) ==
  IF ~loud THEN state' = "silence" /\ run' = 0 /\ event' = "silence" /\ UNCHANGED quiet
  ELSE IF run + 1 >= Need
  THEN state' = "speech" /\ run' = 0 /\ quiet' = 0 /\ event' = "start"
  ELSE state' = "maybe" /\ run' = run + 1 /\ event' = "maybe" /\ UNCHANGED quiet

\* A frame is judged by the floor before it is learned from.
Feed ==
  /\ \E level \in Levels :
       LET loud == level > Threshold
       IN /\ AdaptFloor(level)
          /\ IF state = "speech" THEN InSpeech(loud) ELSE OutOfSpeech(loud)
          /\ heard' = Last(Append(heard, loud), Longest)
  /\ UNCHANGED suppressed

SetSuppressed == suppressed' = ~suppressed
                 /\ UNCHANGED <<window, floor, state, run, quiet, event, heard, room>>

\* Between turns: the floor that was learned is kept.
Reset ==
  /\ state' = "silence" /\ run' = 0 /\ quiet' = 0 /\ event' = "none" /\ heard' = <<>>
  /\ UNCHANGED <<window, floor, suppressed, room>>

Next == Feed \/ SetSuppressed \/ Reset
Spec == Init /\ [][Next]_vars

-----------------------------------------------------------------------------
(* Properties.                                                             *)

Ended(n, b) == Len(heard) >= n /\ \A i \in 1..n : heard[Len(heard) + 1 - i] = b

\* Speech cannot push the floor up: it is never above the quietest frame that
\* some full window had, so a voice with gaps in it stays above the floor.
FloorIsTheRooms == floor <= room
=============================================================================
