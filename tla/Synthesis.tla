----------------------------- MODULE Synthesis -----------------------------
(***************************************************************************)
(* One speech engine and the child process behind it: tts.EspeakTts (alone *)
(* or with the mbrola tier on top), tts.PiperTts, qwen_provider, and the   *)
(* processes.SynthesisOwner they share.  A worker synthesises clip after   *)
(* clip, another thread may probe the provider through the same owner, and *)
(* anyone may cancel or close.                                             *)
(*                                                                         *)
(* Time is counted in ticks, down from a caller's budget; a step takes no  *)
(* time.  Time passes while every caller waits within the limit of its     *)
(* wait.                                                                   *)
(***************************************************************************)
EXTENDS Integers, FiniteSets

CONSTANTS
  Budgets,    \* what a caller may have left, in ticks; 0 is spent
  Unbounded,  \* a budget of None, longer than any run
  Cap,        \* an engine's own ceiling on one run
  IOWait,     \* how long the owner's IO lock is waited for
  ReapWait,   \* how long a killed child is waited for
  MaxClips, MaxProbes \* bounds: calls of either caller

Callers == {"synth", "probe"}
Tiers == {"espeak", "mbrola", "exact", "piper", "qwen"}

VARIABLES
  tier,     \* the engine; "mbrola" falls back to espeak, "exact" does not
  mbrolaOk, \* EspeakTts._mbrola_ok
  call,     \* per caller, the call in progress
  io,       \* who holds _io_lock, or "free"
  process,  \* _process: "none", "running", "ended" or "stuck"
  maker,    \* the voice the published child speaks with
  cancelled, requested, \* the owner's cancel flag, and a close asked for
  heard,    \* last_provenance
  calls     \* calls made, per caller

ownerVars == <<io, process, maker, cancelled, requested>>
vars == <<tier, mbrolaOk, call, ownerVars, heard, calls>>

\* A call: where it is, what it was given and has left, the bound of the
\* attempt and whether that is the caller's, what is left of the current
\* wait, the voice it runs, its result, and whether its child was let go of.
Idle == [at |-> "idle", budget |-> 0, left |-> 0, bound |-> 0, cut |-> FALSE, wait |-> 0,
         voice |-> "none", result |-> "none", torn |-> TRUE]

At(c, place) == call[c].at = place
Set(c, r) == call' = [call EXCEPT ![c] = r]
Users == {c \in Callers : call[c].at \in {"lock", "launch", "spawn", "run", "reap", "leave"}}

Init ==
  /\ tier \in Tiers
  /\ mbrolaOk = (tier \in {"mbrola", "exact"})
  /\ call = [c \in Callers |-> Idle]
  /\ io = "free" /\ process = "none" /\ maker = "none"
  /\ cancelled = FALSE /\ requested = FALSE
  /\ heard = "none" /\ calls = [c \in Callers |-> 0]

-----------------------------------------------------------------------------
(* One call.                                                               *)

FirstVoice == IF mbrolaOk THEN "mbrola" ELSE IF tier \in {"mbrola", "exact"} THEN "espeak" ELSE tier

\* synth with some text, or a probe of the provider.
Begin(c, b) ==
  /\ At(c, "idle")
  /\ calls[c] < (IF c = "synth" THEN MaxClips ELSE MaxProbes)
  /\ c = "probe" => tier \in {"piper", "qwen"}
  /\ calls' = [calls EXCEPT ![c] = @ + 1]
  /\ Set(c, [Idle EXCEPT !.at = "bound", !.budget = b, !.left = b,
                         !.voice = IF c = "synth" THEN FirstVoice ELSE "status"])
  /\ UNCHANGED <<tier, mbrolaOk, io, process, maker, cancelled, requested, heard>>

End(c, outcome) == Set(c, [call[c] EXCEPT !.at = "idle", !.result = outcome])

Shorter(a, b) == IF a < b THEN a ELSE b

Attempt(c, left, cut) ==
  /\ At(c, "bound")
  /\ IF left <= 0 THEN End(c, "deadline")
     ELSE Set(c, [call[c] EXCEPT !.at = "enter", !.bound = Shorter(left, Cap), !.cut = cut])
  /\ UNCHANGED <<tier, mbrolaOk, ownerVars, heard, calls>>

\* _bounded and _budget_cut: whichever is shorter, and which it was.
Bounded(c) == Attempt(c, call[c].left, call[c].left <= Cap)

\* _running_process enters the lifecycle: a closing owner runs nothing, and
\* the caller hears a cancelled clip.
Enter(c) ==
  /\ At(c, "enter")
  /\ IF requested THEN End(c, "empty")
     ELSE Set(c, [call[c] EXCEPT !.at = "lock", !.wait = IOWait])
  /\ UNCHANGED <<tier, mbrolaOk, io, process, maker, cancelled, requested, heard, calls>>

Lock(c) ==
  /\ At(c, "lock") /\ io = "free"
  /\ io' = c
  /\ Set(c, [call[c] EXCEPT !.at = "launch"])
  /\ UNCHANGED <<tier, mbrolaOk, process, maker, cancelled, requested, heard, calls>>

\* "synthesis IO is still in use"
LockTimesOut(c) ==
  /\ At(c, "lock") /\ io # "free" /\ call[c].wait = 0
  /\ Set(c, [call[c] EXCEPT !.at = "leave", !.result = "error"])
  /\ UNCHANGED <<tier, mbrolaOk, io, process, maker, cancelled, requested, heard, calls>>

\* Under _process_lock: nothing is launched once cancelled, nor while an
\* earlier child was not seen to end; the launch itself may fail.
Launch(c) ==
  /\ At(c, "launch")
  /\ \/ cancelled /\ Set(c, [call[c] EXCEPT !.at = "leave", !.result = "empty"])
     \/ ~cancelled /\ Set(c, [call[c] EXCEPT !.at = "leave", !.result = "error"])
     \/ ~cancelled /\ process = "none" /\ Set(c, [call[c] EXCEPT !.at = "spawn"])
  /\ UNCHANGED <<tier, mbrolaOk, io, process, maker, cancelled, requested, heard, calls>>

\* _publish: the child is the owner's before anything is asked again; a close
\* that came meanwhile kills it and leaves it to the close.  Only the qwen
\* client counts from when it was bounded.
Publish(c) ==
  /\ At(c, "spawn")
  /\ maker' = call[c].voice
  /\ IF requested
     THEN process' = "ended" /\ Set(c, [call[c] EXCEPT !.at = "leave", !.result = "empty"])
     ELSE /\ process' = "running"
          /\ Set(c, [call[c] EXCEPT !.at = "run", !.wait = call[c].bound])
  /\ UNCHANGED <<tier, mbrolaOk, io, cancelled, requested, heard, calls>>

\* The child speaks, or fails, in its own time.
ChildEnds ==
  /\ process = "running"
  /\ process' = "ended"
  /\ UNCHANGED <<tier, mbrolaOk, call, io, maker, cancelled, requested, heard, calls>>

\* Mutant: the run has no bound of its own.
CommunicateForever(c) ==
  /\ At(c, "run") /\ process # "running"
  /\ \E r \in {"clip", "bad"} :
       Set(c, [call[c] EXCEPT !.at = "reap", !.result = r, !.wait = ReapWait])
  /\ UNCHANGED <<tier, mbrolaOk, ownerVars, heard, calls>>

\* communicate: what the child wrote, if anything, or its bound.
Communicate(c) ==
  /\ At(c, "run")
  /\ \E r \in {"clip", "bad", "late"} :
       /\ IF r = "late" THEN call[c].wait <= 0 ELSE process # "running"
       /\ Set(c, [call[c] EXCEPT !.at = "reap", !.result = r, !.wait = ReapWait])
  /\ UNCHANGED <<tier, mbrolaOk, ownerVars, heard, calls>>

\* _finish_process: killed, waited for and let go of.  A wait that fails
\* keeps the child published, and raises in place of the result: the same
\* TimeoutExpired as a run that took too long.
Finish(c) ==
  /\ At(c, "reap")
  /\ \/ process' = "none" /\ Set(c, [call[c] EXCEPT !.at = "leave"])
     \/ /\ call[c].wait = 0
        /\ process' = "stuck"
        /\ Set(c, [call[c] EXCEPT !.at = "leave", !.result = "late", !.torn = FALSE])
  /\ UNCHANGED <<tier, mbrolaOk, io, maker, cancelled, requested, heard, calls>>

\* A quality tier that is not there never loses a read; a budget that ran out
\* says nothing about it.
FallsBack(c, outcome) ==
  call[c].voice = "mbrola" /\ tier = "mbrola" /\ outcome = "error"

\* What the run amounts to once the child is gone.
Outcome(c) ==
  LET r == call[c].result IN
  CASE r = "late" -> IF call[c].cut THEN "deadline" ELSE "error"
    [] r \in {"clip", "bad"} /\ cancelled -> "empty"
    [] r = "bad" /\ ~cancelled -> "error"
    [] OTHER -> r

\* Mutant: the provenance of a clip is that of the engine it was asked of.
LeaveUnattributed(c) ==
  /\ At(c, "leave")
  /\ io' = IF io = c THEN "free" ELSE io
  /\ LET outcome == Outcome(c) IN
     IF FallsBack(c, outcome)
     THEN /\ mbrolaOk' = FALSE
          /\ Set(c, [call[c] EXCEPT !.at = "bound", !.voice = "espeak", !.result = "none"])
          /\ UNCHANGED heard
     ELSE /\ End(c, outcome)
          /\ heard' = IF outcome = "clip" /\ c = "synth" THEN tier ELSE heard
          /\ UNCHANGED mbrolaOk
  /\ UNCHANGED <<tier, process, maker, cancelled, requested, calls>>

\* The locks are given back, and the clip is labelled with what made it.
Leave(c) ==
  /\ At(c, "leave")
  /\ io' = IF io = c THEN "free" ELSE io
  /\ LET outcome == Outcome(c) IN
     IF FallsBack(c, outcome)
     THEN /\ mbrolaOk' = FALSE
          /\ Set(c, [call[c] EXCEPT !.at = "bound", !.voice = "espeak", !.result = "none"])
          /\ UNCHANGED heard
     ELSE /\ End(c, outcome)
          /\ heard' = IF outcome = "clip" /\ c = "synth" THEN call[c].voice ELSE heard
          /\ UNCHANGED mbrolaOk
  /\ UNCHANGED <<tier, process, maker, cancelled, requested, calls>>

-----------------------------------------------------------------------------
(* Everyone else.                                                          *)

Killed == IF process = "running" THEN "ended" ELSE process

\* cancel waits for a launch in progress (_process_lock); it is for good.
Cancel ==
  /\ ~cancelled /\ \A c \in Callers : ~At(c, "spawn")
  /\ cancelled' = TRUE
  /\ process' = Killed
  /\ UNCHANGED <<tier, mbrolaOk, call, io, maker, requested, heard, calls>>

\* _on_close_requested waits for nothing, and kills the child of a user.
RequestClose ==
  /\ ~requested
  /\ requested' = TRUE /\ cancelled' = TRUE
  /\ process' = IF Users # {} THEN Killed ELSE process
  /\ UNCHANGED <<tier, mbrolaOk, call, io, maker, heard, calls>>

\* close, when nobody uses the owner: what is still published is finished.
Dispose ==
  /\ requested /\ Users = {} /\ process # "none"
  /\ process' = "none"
  /\ UNCHANGED <<tier, mbrolaOk, call, io, maker, cancelled, requested, heard, calls>>

Waits(c) ==
  \/ At(c, "idle")
  \/ At(c, "lock") /\ io # "free" /\ call[c].wait > 0
  \/ At(c, "run") /\ process = "running" /\ call[c].wait > 0
  \/ At(c, "reap") /\ call[c].wait > 0

\* Only the qwen client's bound runs from when it was set.
Older(r) ==
  IF r.at = "idle" THEN r
  ELSE [r EXCEPT !.left = IF r.budget = Unbounded THEN @ ELSE @ - 1,
                 !.wait = IF @ = 0 THEN 0 ELSE @ - 1,
                 !.bound = IF tier = "qwen" /\ @ > 0 THEN @ - 1 ELSE @]

Tick ==
  /\ \A c \in Callers : Waits(c)
  /\ \E c \in Callers : ~At(c, "idle")
  /\ call' = [c \in Callers |-> Older(call[c])]
  /\ UNCHANGED <<tier, mbrolaOk, ownerVars, heard, calls>>

Step(c) ==
  \/ Bounded(c) \/ Enter(c) \/ Lock(c) \/ LockTimesOut(c) \/ Launch(c) \/ Publish(c)
  \/ Communicate(c) \/ Finish(c) \/ Leave(c)

Next ==
  \/ \E c \in Callers : Step(c) \/ \E b \in Budgets \cup {Unbounded} : Begin(c, b)
  \/ ChildEnds \/ Cancel \/ RequestClose \/ Dispose \/ Tick

Spec == Init /\ [][Next]_vars

\* A caller goes on and the clock does; a child need never end.
Fairness == WF_vars(Tick) /\ \A c \in Callers : WF_vars(Step(c))

FairSpec == Spec /\ Fairness

-----------------------------------------------------------------------------
(* Properties.                                                             *)

\* "Two full budgets would let one request take twice as long as it asked
\* for": attempts, fallback and all, a call is over once its budget is, but
\* for one wait for the IO lock and one for the child to be reaped.
CallInBudget ==
  \A c \in Callers : call[c].budget # Unbounded => call[c].left >= -(IOWait + ReapWait)

\* What a clip says made it is the process that made it, whatever fell back
\* or was probed meanwhile, and a clip is not handed over once cancelled.
ClipsAreLabelled ==
  [][\A c \in Callers :
       ~At(c, "idle") /\ call'[c].at = "idle" /\ call'[c].result = "clip" =>
         ~cancelled /\ (c = "synth" => heard' = maker)]_vars

\* A call ends, however its child behaves.
CallsEnd == \A c \in Callers : ~At(c, "idle") ~> At(c, "idle")
=============================================================================
