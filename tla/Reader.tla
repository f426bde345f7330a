------------------------------- MODULE Reader -------------------------------
(***************************************************************************)
(* The document reader (document_reader.py): one passage is synthesised at *)
(* a time by a thread of its own, and played by a Player; commands arrive  *)
(* between the ticks of one loop.  The player is the Player of audio.py,   *)
(* here only what it is doing; the engine is whatever the settings choose. *)
(***************************************************************************)
EXTENDS Naturals

CONSTANTS Passages, MaxCommands

VARIABLES
  index, state, active, playing, \* the Reader's own fields
  job,       \* the passage being made and how far it is, or NoJob
  left,      \* synthesis threads no Reader field knows of
  sounding,  \* the passage the player plays, or 0
  failed,    \* the player's error
  commands   \* commands taken

vars == <<index, state, active, playing, job, left, sounding, failed, commands>>

NoJob == [of |-> 0, at |-> "none", cancelled |-> FALSE, ok |-> FALSE]

Init ==
  /\ index = 1 /\ state = "ready" /\ active = FALSE /\ playing = FALSE
  /\ job = NoJob /\ left = 0 /\ sounding = 0 /\ failed = FALSE /\ commands = 0

-----------------------------------------------------------------------------
(* The loop.                                                               *)

Play ==
  /\ commands < MaxCommands /\ commands' = commands + 1
  /\ ~active
  /\ active' = TRUE /\ state' = "loading"
  /\ UNCHANGED <<index, playing, job, left, sounding, failed>>

\* pause, stop, next and back: nothing is made or played from here on.
Halt ==
  /\ commands < MaxCommands /\ commands' = commands + 1
  /\ active' = FALSE /\ playing' = FALSE
  /\ job' = [job EXCEPT !.cancelled = job # NoJob]
  /\ sounding' = 0
  /\ \/ index' = index /\ state' = "paused"
     \/ index' \in {1, IF index < Passages THEN index + 1 ELSE Passages,
                    IF index > 1 THEN index - 1 ELSE 1} /\ state' = "ready"
  /\ UNCHANGED <<left, failed>>

\* Mutant: what is done is played, though it was cancelled meanwhile.
WantedAnyway == active
\* A clip is played only if it is still wanted.
Wanted == active /\ ~job.cancelled

\* tick has three parts, in this order; each is a part of one step.
JobDone == job.at = "done"

Now == [job |-> job, active |-> active, playing |-> playing, state |-> state,
        sounding |-> sounding, failed |-> failed, index |-> index]

TakeJob ==
  IF ~JobDone THEN Now
  ELSE IF ~Wanted THEN [Now EXCEPT !.job = NoJob]
  ELSE IF ~job.ok THEN [Now EXCEPT !.job = NoJob, !.active = FALSE, !.state = "error"]
  ELSE [Now EXCEPT !.job = NoJob, !.playing = TRUE, !.state = "playing",
                   !.sounding = job.of, !.failed = FALSE]

\* Mutant: behind the last passage comes the first, as after a stop.
TakeSilenceAgain(r) ==
  IF ~r.playing \/ r.sounding # 0 THEN r
  ELSE IF r.failed THEN [r EXCEPT !.playing = FALSE, !.active = FALSE, !.state = "error"]
  ELSE [r EXCEPT !.playing = FALSE, !.index = IF index = Passages THEN 1 ELSE @ + 1]

\* The player fell silent: its error, the end, or the next passage.
TakeSilence(r) ==
  IF ~r.playing \/ r.sounding # 0 THEN r
  ELSE IF r.failed THEN [r EXCEPT !.playing = FALSE, !.active = FALSE, !.state = "error"]
  ELSE IF index = Passages
  THEN [r EXCEPT !.playing = FALSE, !.active = FALSE, !.state = "finished", !.index = 1]
  ELSE [r EXCEPT !.playing = FALSE, !.index = @ + 1]

Idle(r) == r.active /\ ~r.playing /\ r.job = NoJob

\* The next passage is asked for when nothing is made and nothing is played.
Begin(r) ==
  IF Idle(r)
  THEN [r EXCEPT !.state = "loading",
                 !.job = [of |-> r.index, at |-> "engine", cancelled |-> FALSE, ok |-> FALSE]]
  ELSE r

Tick ==
  LET r == Begin(TakeSilence(TakeJob))
  IN /\ job' = r.job /\ active' = r.active /\ playing' = r.playing /\ state' = r.state
     /\ sounding' = r.sounding /\ failed' = r.failed /\ index' = r.index
     /\ left' = left + (IF job.at \notin {"none", "done"} /\ r.job # job THEN 1 ELSE 0)
     /\ UNCHANGED commands

-----------------------------------------------------------------------------
(* The synthesis thread: the engine is made, and then the clip unless it   *)
(* was cancelled; cancel reaches an engine that is there.                  *)

Engine ==
  /\ job.at = "engine"
  /\ \/ job' = [job EXCEPT !.at = IF job.cancelled THEN "done" ELSE "synth"]
     \/ job' = [job EXCEPT !.at = "done"]
  /\ UNCHANGED <<index, state, active, playing, left, sounding, failed, commands>>

Synth ==
  /\ job.at = "synth"
  /\ \E ok \in {FALSE, ~job.cancelled} : job' = [job EXCEPT !.at = "done", !.ok = ok]
  /\ UNCHANGED <<index, state, active, playing, left, sounding, failed, commands>>

\* The player comes to the end of its clip, or fails on it.
Ends ==
  /\ sounding # 0 /\ sounding' = 0 /\ failed' \in BOOLEAN
  /\ UNCHANGED <<index, state, active, playing, job, left, commands>>

Next == Play \/ Halt \/ Tick \/ Engine \/ Synth \/ Ends

\* The loop ticks, a synthesis has a budget, and a clip comes to its end.
Fairness == WF_vars(Tick) /\ WF_vars(Engine) /\ WF_vars(Synth) /\ WF_vars(Ends)
Spec == Init /\ [][Next]_vars
FairSpec == Spec /\ Fairness

-----------------------------------------------------------------------------
(* Properties.                                                             *)

\* What is heard is the passage that is shown, and it is heard only while the
\* reader was told to read: a clip made before a command is never played after
\* it, and there is never a second passage in the making.
HeardIsShown ==
  /\ sounding # 0 => active /\ sounding = index
  /\ left = 0

\* A reader that was told to read goes on, from one passage to the next, until
\* it comes to the end, to an error it reports, or is halted by a command: it is
\* not left loading or playing, nor does it begin again by itself.
ReadsOn == active ~> ~active /\ state \in {"finished", "error", "paused", "ready"}
=============================================================================
