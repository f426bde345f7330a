--------------------------- MODULE ReadingProofs ---------------------------
(***************************************************************************)
(* Reading aloud, one machine after the other: the document reader, the    *)
(* engines, the player, the turns that clients own, and the text.  What is *)
(* safe needs no fairness, and what is proved of a machine holds of the    *)
(* composition.                                                            *)
(***************************************************************************)
EXTENDS MCReading, FilterProofs, FiniteSetTheorems, SequenceTheorems

\* The composition's steps, whatever is fair about them.
LEMMA ReadingSteps == Spec => Init /\ [][Next]_vars
BY DEF Spec

-----------------------------------------------------------------------------
(* The document reader (Reader).                                           *)

Jobs == [of : Nat, at : {"none", "engine", "synth", "done"}, cancelled : BOOLEAN, ok : BOOLEAN]
States == {"ready", "loading", "playing", "paused", "finished", "error"}

\* The reader's fields, as one tick reads and writes them.
Fields == [job : Jobs, active : BOOLEAN, playing : BOOLEAN, state : States,
           sounding : Nat, failed : BOOLEAN, index : Nat]

\* What is made or played was asked for, and is the passage that is shown.
Shown(r) ==
  /\ r.job.at = "none" <=> r.job = Document!NoJob
  /\ r.job # Document!NoJob /\ ~r.job.cancelled => r.active /\ ~r.playing /\ r.job.of = r.index
  /\ r.playing => r.active /\ r.job = Document!NoJob
  /\ r.sounding # 0 => r.playing /\ r.sounding = r.index

ReaderInv == Document!Now \in Fields /\ Shown(Document!Now) /\ left = 0

\* The reader begins with it.
LEMMA ReaderStart == Document!Init => ReaderInv
<1> SUFFICES ASSUME Document!Init PROVE ReaderInv
  OBVIOUS
<1>1. job \in Jobs /\ job.at = "none"
  BY DEF Document!Init, Document!NoJob, Jobs
<1>2. QED
  BY <1>1 DEF Document!Init, ReaderInv, Fields, Shown, States, Document!Now

\* A clip that is done is played, or it is let go of.
LEMMA TakeJobKeeps ==
  ASSUME ReaderInv
  PROVE  /\ Document!TakeJob \in Fields /\ Shown(Document!TakeJob)
         /\ job.at # "done" => Document!TakeJob.job = job
<1> DEFINE r == Document!TakeJob
<1>1. /\ job \in Jobs /\ active \in BOOLEAN /\ playing \in BOOLEAN /\ state \in States
      /\ sounding \in Nat /\ failed \in BOOLEAN /\ index \in Nat
  BY DEF ReaderInv, Fields, Document!Now
<1>2. /\ job.at = "none" <=> job = Document!NoJob
      /\ job # Document!NoJob /\ ~job.cancelled => active /\ ~playing /\ job.of = index
      /\ playing => active /\ job = Document!NoJob
      /\ sounding # 0 => playing /\ sounding = index
  BY DEF ReaderInv, Shown, Document!Now
<1>3. Document!NoJob \in Jobs /\ Document!NoJob.at = "none"
  BY DEF Document!NoJob, Jobs
<1>4. CASE ~Document!JobDone
  BY <1>4 DEF ReaderInv, Document!TakeJob, Document!JobDone, Document!Now
<1>5. CASE Document!JobDone
  <2> DEFINE n == Document!NoJob
  <2>1. job # n /\ ~playing /\ sounding = 0 /\ job.at = "done"
    BY <1>1, <1>2, <1>3, <1>5 DEF Document!JobDone
  <2>2. CASE ~Document!Wanted
    <3>1. r = [job |-> n, active |-> active, playing |-> playing, state |-> state,
               sounding |-> sounding, failed |-> failed, index |-> index]
      BY <1>5, <2>2 DEF Document!TakeJob, Document!Now
    <3> HIDE DEF n, r
    <3>2. QED
      BY <1>1, <1>3, <2>1, <3>1 DEF Fields, Shown, n, r
  <2>3. CASE Document!Wanted /\ ~job.ok
    <3>1. r = [job |-> n, active |-> FALSE, playing |-> playing, state |-> "error",
               sounding |-> sounding, failed |-> failed, index |-> index]
      BY <1>5, <2>3 DEF Document!TakeJob, Document!Now
    <3> HIDE DEF n, r
    <3>2. QED
      BY <1>1, <1>3, <2>1, <3>1 DEF Fields, Shown, States, n, r
  <2>4. CASE Document!Wanted /\ job.ok
    <3>1. r = [job |-> n, active |-> active, playing |-> TRUE, state |-> "playing",
               sounding |-> job.of, failed |-> FALSE, index |-> index]
      BY <1>5, <2>4 DEF Document!TakeJob, Document!Now
    <3>2. active /\ job.of = index
      BY <1>2, <2>1, <2>4 DEF Document!Wanted
    <3> HIDE DEF n, r
    <3>3. QED
      BY <1>1, <1>3, <2>1, <3>1, <3>2 DEF Fields, Shown, States, n, r
  <2>5. QED
    BY <2>2, <2>3, <2>4
<1>6. QED
  BY <1>4, <1>5

\* Silence ends the passage, and the one after it is shown from then on.
LEMMA TakeSilenceKeeps ==
  ASSUME NEW r \in Fields, Shown(r)
  PROVE  /\ Document!TakeSilence(r) \in Fields /\ Shown(Document!TakeSilence(r))
         /\ Document!TakeSilence(r).job = r.job
<1> DEFINE q == Document!TakeSilence(r)
<1> SUFFICES q \in Fields /\ Shown(q) /\ q.job = r.job
  OBVIOUS
<1>a. /\ r.job \in Jobs /\ r.active \in BOOLEAN /\ r.state \in States /\ r.sounding \in Nat
      /\ r.failed \in BOOLEAN /\ r.index \in Nat
  BY DEF Fields
<1>1. CASE ~r.playing \/ r.sounding # 0
  BY <1>1 DEF Document!TakeSilence
<1>2. CASE r.playing /\ r.sounding = 0
  <2>1. r.active /\ r.job = Document!NoJob /\ Document!NoJob.at = "none"
    BY <1>2 DEF Shown, Document!NoJob
  <2>2. CASE r.failed
    <3>1. q = [r EXCEPT !.playing = FALSE, !.active = FALSE, !.state = "error"]
      BY <1>2, <2>2 DEF Document!TakeSilence
    <3>2. QED
      BY <1>2, <2>1, <3>1 DEF Fields, Shown, States
  <2>3. CASE ~r.failed /\ index = Passages
    <3>1. q = [job |-> r.job, active |-> FALSE, playing |-> FALSE, state |-> "finished",
               sounding |-> r.sounding, failed |-> r.failed, index |-> 1]
      BY <1>2, <2>3 DEF Document!TakeSilence, Fields
    <3>2. q \in Fields
      BY <1>a, <3>1 DEF Fields, States
    <3>3. /\ q.job = r.job /\ q.active = FALSE /\ q.playing = FALSE /\ q.sounding = r.sounding
      BY <3>1
    <3> HIDE DEF q
    <3>4. QED
      BY <1>2, <2>1, <3>2, <3>3 DEF Shown
  <2>4. CASE ~r.failed /\ index # Passages
    <3>1. q = [job |-> r.job, active |-> r.active, playing |-> FALSE, state |-> r.state,
               sounding |-> r.sounding, failed |-> r.failed, index |-> r.index + 1]
      BY <1>2, <2>4 DEF Document!TakeSilence, Fields
    <3>2. q \in Fields
      BY <1>a, <3>1 DEF Fields, States
    <3>3. /\ q.job = r.job /\ q.active = r.active /\ q.playing = FALSE
          /\ q.sounding = r.sounding
      BY <3>1
    <3> HIDE DEF q
    <3>4. QED
      BY <1>2, <2>1, <3>2, <3>3 DEF Shown
  <2>5. QED
    BY <2>2, <2>3, <2>4
<1>3. QED
  BY <1>1, <1>2 DEF Fields

\* What is asked for next is the passage shown, with nothing made or played.
LEMMA BeginKeeps ==
  ASSUME NEW r \in Fields, Shown(r)
  PROVE  /\ Document!Begin(r) \in Fields /\ Shown(Document!Begin(r))
         /\ r.job # Document!NoJob => Document!Begin(r).job = r.job
<1>1. CASE ~Document!Idle(r)
  BY <1>1 DEF Document!Begin
<1>2. CASE Document!Idle(r)
  <2> DEFINE j == [of |-> r.index, at |-> "engine", cancelled |-> FALSE, ok |-> FALSE]
  <2>1. /\ r.active /\ ~r.playing /\ r.job = Document!NoJob
        /\ Document!Begin(r) = [r EXCEPT !.state = "loading", !.job = j]
    BY <1>2 DEF Document!Begin, Document!Idle
  <2>2. j \in Jobs /\ j.at = "engine" /\ j.of = r.index /\ j # Document!NoJob
    BY DEF Jobs, Fields, Document!NoJob
  <2> HIDE DEF j
  <2>3. QED
    BY <2>1, <2>2 DEF Fields, Shown, States
<1>3. QED
  BY <1>1, <1>2

\* Every step of the reader keeps it.
LEMMA ReaderStep == ReaderInv /\ [Document!Next]_(Document!vars) => ReaderInv'
<1> SUFFICES ASSUME ReaderInv, [Document!Next]_(Document!vars) PROVE ReaderInv'
  OBVIOUS
<1>1. /\ job \in Jobs /\ active \in BOOLEAN /\ playing \in BOOLEAN /\ state \in States
      /\ sounding \in Nat /\ failed \in BOOLEAN /\ index \in Nat /\ left = 0
  BY DEF ReaderInv, Fields, Document!Now
<1>2. /\ job.at = "none" <=> job = Document!NoJob
      /\ job # Document!NoJob /\ ~job.cancelled => active /\ ~playing /\ job.of = index
      /\ playing => active /\ job = Document!NoJob
      /\ sounding # 0 => playing /\ sounding = index
  BY DEF ReaderInv, Shown, Document!Now
<1> DEFINE Typed == /\ job' \in Jobs /\ active' \in BOOLEAN /\ playing' \in BOOLEAN
                    /\ state' \in States /\ sounding' \in Nat /\ failed' \in BOOLEAN
                    /\ index' \in Nat /\ left' = 0
           True == /\ job'.at = "none" <=> job' = Document!NoJob
                   /\ job' # Document!NoJob /\ ~job'.cancelled =>
                        active' /\ ~playing' /\ job'.of = index'
                   /\ playing' => active' /\ job' = Document!NoJob
                   /\ sounding' # 0 => playing' /\ sounding' = index'
<1>3. SUFFICES Typed /\ True
  BY DEF ReaderInv, Shown, Document!Now, Fields
<1>4. CASE Document!Play
  BY <1>1, <1>2, <1>4 DEF Document!Play, States
<1>5. CASE Document!Halt
  <2>1. index' \in Nat /\ state' \in States
    BY <1>1, <1>5, ReadingAssumption DEF Document!Halt, States
  <2>2. job' \in Jobs /\ (job'.at = "none" <=> job' = Document!NoJob)
        /\ (job' # Document!NoJob => job'.cancelled)
    <3>1. CASE job = Document!NoJob
      <4>1. job' = [job EXCEPT !.cancelled = FALSE]
        BY <1>5, <3>1, Zenon DEF Document!Halt
      <4>2. QED
        BY <1>1, <3>1, <4>1 DEF Document!NoJob, Jobs
    <3>2. CASE job # Document!NoJob
      <4>1. job' = [job EXCEPT !.cancelled = TRUE]
        BY <1>5, <3>2, Zenon DEF Document!Halt
      <4>2. QED
        BY <1>1, <1>2, <3>2, <4>1 DEF Document!NoJob, Jobs
    <3>3. QED
      BY <3>1, <3>2
  <2>3. QED
    BY <1>1, <1>5, <2>1, <2>2 DEF Document!Halt
<1>6. CASE Document!Tick
  <2> DEFINE a == Document!TakeJob
             b == Document!TakeSilence(a)
             c == Document!Begin(b)
  <2>1. a \in Fields /\ Shown(a) /\ (job.at # "done" => a.job = job)
    BY TakeJobKeeps
  <2> HIDE DEF a
  <2>2. b \in Fields /\ Shown(b) /\ b.job = a.job
    BY <2>1, TakeSilenceKeeps
  <2> HIDE DEF b
  <2>3. c \in Fields /\ Shown(c) /\ (b.job # Document!NoJob => c.job = b.job)
    BY <2>2, BeginKeeps
  <2>4. /\ job' = c.job /\ active' = c.active /\ playing' = c.playing /\ state' = c.state
        /\ sounding' = c.sounding /\ failed' = c.failed /\ index' = c.index
        /\ left' = left + (IF job.at \notin {"none", "done"} /\ c.job # job THEN 1 ELSE 0)
    BY <1>6 DEF Document!Tick, a, b
  <2> HIDE DEF c
  <2>5. left' = 0
    BY <1>1, <1>2, <2>1, <2>2, <2>3, <2>4
  <2>6. QED
    BY <2>3, <2>4, <2>5 DEF Fields, Shown
<1>7. CASE Document!Engine
  BY <1>1, <1>2, <1>7 DEF Document!Engine, Document!NoJob, Jobs
<1>8. CASE Document!Synth
  <2>1. PICK ok \in BOOLEAN : job' = [job EXCEPT !.at = "done", !.ok = ok]
    BY <1>8, Zenon DEF Document!Synth
  <2>2. QED
    BY <1>1, <1>2, <1>8, <2>1 DEF Document!Synth, Document!NoJob, Jobs
<1>9. CASE Document!Ends
  BY <1>1, <1>2, <1>9 DEF Document!Ends
<1>10. CASE UNCHANGED Document!vars
  BY <1>1, <1>2, <1>10 DEF Document!vars
<1>11. QED
  BY <1>4, <1>5, <1>6, <1>7, <1>8, <1>9, <1>10 DEF Document!Next

\* What is heard is the passage that is shown, and only while the reader was told
\* to read: no clip is played that was made before a command, and there is one
\* passage in the making at most, for any document and any commands.
THEOREM ShownSafe == Spec => []HeardIsShown
<1>1. Init => ReaderInv
  BY ReaderStart DEF Init
<1>2. ReaderInv /\ [Next]_vars => ReaderInv'
  <2> SUFFICES ASSUME ReaderInv, [Next]_vars PROVE ReaderInv'
    OBVIOUS
  <2>1. CASE Document!Next
    BY <2>1, ReaderStep
  <2>2. CASE UNCHANGED readerVars
    BY <2>2, ReaderStep DEF readerVars, Document!vars
  <2>3. QED
    BY <2>1, <2>2 DEF Next, vars
<1>3. ReaderInv => HeardIsShown
  BY DEF ReaderInv, Shown, Document!Now, HeardIsShown, Document!HeardIsShown
<1>4. QED
  BY <1>1, <1>2, <1>3, ReadingSteps, PTL

-----------------------------------------------------------------------------
(* The engines (Synthesis).                                                *)

Callers == {"synth", "probe"}
Voices == {"none", "espeak", "mbrola", "exact", "piper", "qwen", "status"}
Results == {"none", "clip", "bad", "late", "empty", "error", "deadline"}
CallRecords ==
  [at : {"idle", "bound", "enter", "lock", "launch", "spawn", "run", "reap", "leave"},
   budget : Nat, left : Int, bound : Nat, cut : BOOLEAN, wait : Nat,
   voice : Voices, result : Results, torn : BOOLEAN]

\* Who runs a child holds the IO lock, to the end of a call that has a clip, and
\* no other voice is published meanwhile.
Voiced(c, r, holder, made) ==
  /\ r.at \in {"launch", "spawn", "run", "reap"} => holder = c
  /\ r.at = "leave" /\ r.result = "clip" => holder = c /\ made = r.voice
  /\ r.at \in {"run", "reap"} => made = r.voice

\* What the budget has left, at each place of a call: it is overdrawn by what was
\* waited for the lock, and at last for the child.
InTime(r) ==
  r.budget # Unbounded =>
    /\ r.at = "enter" => r.left >= r.bound
    /\ r.at = "lock" => r.left >= r.bound - IOWait + r.wait
    /\ r.at \in {"launch", "spawn"} => r.left >= r.bound - IOWait
    /\ r.at = "run" => r.left >= r.wait - IOWait
    /\ r.at = "reap" => r.left >= r.wait - IOWait - ReapWait
    /\ r.left >= -(IOWait + ReapWait)

EngineInv ==
  /\ call \in [Callers -> CallRecords]
  /\ tier \in {"espeak", "mbrola", "exact", "piper", "qwen"}
  /\ \A c \in Callers : Voiced(c, call[c], io, maker) /\ InTime(call[c])

\* An engine begins with it.
LEMMA EngineStart == Engine!Init => EngineInv
<1> SUFFICES ASSUME Engine!Init PROVE EngineInv
  OBVIOUS
<1>1. Engine!Idle \in CallRecords
  BY DEF Engine!Idle, CallRecords, Voices, Results
<1>2. \A c \in Callers : call[c] = Engine!Idle
  BY DEF Engine!Init, Engine!Callers, Callers
<1>3. Voiced("synth", Engine!Idle, io, maker) /\ Voiced("probe", Engine!Idle, io, maker)
  BY DEF Voiced, Engine!Idle
<1>4. InTime(Engine!Idle)
  BY ReadingAssumption DEF InTime, Engine!Idle
<1>5. QED
  BY <1>1, <1>2, <1>3, <1>4 DEF EngineInv, Engine!Init, Engine!Callers, Engine!Tiers, Callers

\* One caller's step leaves the other in what it holds.
LEMMA OneCaller ==
  ASSUME EngineInv, NEW c \in Callers, NEW r \in CallRecords,
         call' = [call EXCEPT ![c] = r], tier' = tier, InTime(r), Voiced(c, r, io', maker'),
         io' = io \/ io \in {c, "free"}, maker' = maker \/ io = c
  PROVE  EngineInv'
<1>1. call' \in [Callers -> CallRecords] /\ call'[c] = r
      /\ \A d \in Callers : d # c => call'[d] = call[d]
  BY DEF EngineInv
<1>2. ASSUME NEW d \in Callers PROVE Voiced(d, call'[d], io', maker') /\ InTime(call'[d])
  <2>1. CASE d = c
    BY <1>1, <2>1
  <2>2. CASE d # c
    <3>1. /\ call'[d] = call[d] /\ Voiced(d, call[d], io, maker) /\ InTime(call[d])
          /\ d # "free"
      BY <1>1, <2>2 DEF EngineInv, Callers
    <3>2. io = d => io' = io /\ maker' = maker
      BY <2>2, <3>1
    <3>3. Voiced(d, call[d], io', maker')
      BY <3>1, <3>2 DEF Voiced
    <3>4. QED
      BY <3>1, <3>3
  <2>3. QED
    BY <2>1, <2>2
<1>3. QED
  BY <1>1, <1>2 DEF EngineInv

\* A call that goes on to another place, with what came of it and what it waits for.
Sent(r, place, result, wait) ==
  [at |-> place, budget |-> r.budget, left |-> r.left, bound |-> r.bound, cut |-> r.cut,
   wait |-> wait, voice |-> r.voice, result |-> result, torn |-> r.torn]

LEMMA SentType ==
  ASSUME NEW r \in CallRecords, NEW result \in Results, NEW wait \in Nat,
         NEW place \in {"idle", "lock", "launch", "spawn", "run", "reap", "leave"}
  PROVE  Sent(r, place, result, wait) \in CallRecords
<1>1. /\ r.budget \in Nat /\ r.left \in Int /\ r.bound \in Nat /\ r.cut \in BOOLEAN
      /\ r.voice \in Voices /\ r.torn \in BOOLEAN
  BY DEF CallRecords
<1>2. QED
  BY <1>1 DEF Sent, CallRecords

\* Every step of a caller keeps it.
LEMMA CallerStep ==
  ASSUME EngineInv, NEW c \in Callers, Engine!Step(c)
  PROVE  EngineInv'
<1>0. PICK r : r = call[c]
  OBVIOUS
<1>a. r \in CallRecords
  BY <1>0 DEF EngineInv
<1>1. Voiced(c, r, io, maker) /\ InTime(r)
  BY <1>0 DEF EngineInv
<1>2. /\ r.budget \in Nat /\ r.left \in Int /\ r.bound \in Nat /\ r.cut \in BOOLEAN
      /\ r.wait \in Nat /\ r.voice \in Voices /\ r.result \in Results /\ r.torn \in BOOLEAN
  BY <1>a DEF CallRecords
<1>3. Cap \in Nat /\ IOWait \in Nat /\ ReapWait \in Nat
  BY ReadingAssumption
<1> USE DEF Engine!At, Engine!Set, Engine!ownerVars
<1>4. ASSUME Engine!Bounded(c) PROVE EngineInv'
  <2>1. tier' = tier /\ io' = io /\ maker' = maker /\ r.at = "bound"
    BY <1>0, <1>4 DEF Engine!Bounded, Engine!Attempt
  <2>2. CASE r.left <= 0
    <3>1. call' = [call EXCEPT ![c] = [r EXCEPT !.at = "idle", !.result = "deadline"]]
      BY <1>0, <1>4, <2>2 DEF Engine!Bounded, Engine!Attempt, Engine!End
    <3>2. PICK s : s = [r EXCEPT !.at = "idle", !.result = "deadline"]
      OBVIOUS
    <3>3. s = Sent(r, "idle", "deadline", r.wait) /\ s \in CallRecords
      <4>1. s = Sent(r, "idle", "deadline", r.wait)
        BY <1>a, <3>2 DEF Sent, CallRecords
      <4>2. QED
        BY <1>a, <1>2, <1>3, <4>1, SentType DEF Results
    <3>4. InTime(s) /\ Voiced(c, s, io', maker')
      BY <1>1, <3>3 DEF InTime, Voiced, Sent
    <3>5. QED
      BY <2>1, <3>1, <3>2, <3>3, <3>4, OneCaller
  <2>3. CASE r.left > 0
    <3> DEFINE bound == Engine!Shorter(r.left, Cap)
               cut == r.left <= Cap
    <3>1. bound \in Nat /\ bound <= r.left /\ cut \in BOOLEAN
      BY <1>0, <1>2, <1>3, <2>3 DEF Engine!Shorter
    <3>2. PICK s : s = [r EXCEPT !.at = "enter", !.bound = bound, !.cut = cut]
      OBVIOUS
    <3>3. call' = [call EXCEPT ![c] = s]
      BY <1>0, <1>2, <1>4, <2>3, <3>2 DEF Engine!Bounded, Engine!Attempt
    <3> HIDE DEF bound, cut
    <3>4. s = [at |-> "enter", budget |-> r.budget, left |-> r.left, bound |-> bound,
               cut |-> cut, wait |-> r.wait, voice |-> r.voice, result |-> r.result,
               torn |-> r.torn]
      BY <1>a, <3>2 DEF CallRecords
    <3>5. s \in CallRecords
      BY <1>2, <3>1, <3>4 DEF CallRecords
    <3>6. InTime(s) /\ Voiced(c, s, io', maker')
      BY <1>1, <1>2, <3>1, <3>4 DEF InTime, Voiced
    <3>7. QED
      BY <2>1, <3>3, <3>5, <3>6, OneCaller
  <2>4. QED
    BY <1>2, <2>2, <2>3
<1>5. ASSUME Engine!Enter(c) PROVE EngineInv'
  <2>1. CASE requested
    <3>1. call' = [call EXCEPT ![c] = [r EXCEPT !.at = "idle", !.result = "empty"]]
      BY <1>0, <1>5, <2>1 DEF Engine!Enter, Engine!End
    <3>2. PICK s : s = [r EXCEPT !.at = "idle", !.result = "empty"]
      OBVIOUS
    <3>3. s = Sent(r, "idle", "empty", r.wait) /\ s \in CallRecords
      <4>1. s = Sent(r, "idle", "empty", r.wait)
        BY <1>a, <3>2 DEF Sent, CallRecords
      <4>2. QED
        BY <1>a, <1>2, <1>3, <4>1, SentType DEF Results
    <3>4. InTime(s) /\ Voiced(c, s, io', maker')
      BY <1>1, <3>3 DEF InTime, Voiced, Sent
    <3>5. QED
      BY <1>0, <1>5, <3>1, <3>2, <3>3, <3>4, OneCaller DEF Engine!Enter
  <2>2. CASE ~requested
    <3>1. PICK s : s = [r EXCEPT !.at = "lock", !.wait = IOWait]
      OBVIOUS
    <3>3. s = Sent(r, "lock", r.result, IOWait) /\ s \in CallRecords
      <4>1. s = Sent(r, "lock", r.result, IOWait)
        BY <1>a, <3>1 DEF Sent, CallRecords
      <4>2. QED
        BY <1>a, <1>2, <1>3, <4>1, SentType DEF Results
    <3>4. InTime(s) /\ Voiced(c, s, io', maker')
      BY <1>0, <1>1, <1>2, <1>3, <1>5, <3>3 DEF InTime, Voiced, Sent, Engine!Enter
    <3>5. call' = [call EXCEPT ![c] = s]
      BY <1>0, <1>5, <2>2, <3>1 DEF Engine!Enter
    <3>6. QED
      BY <1>0, <1>5, <3>3, <3>4, <3>5, OneCaller DEF Engine!Enter
  <2>3. QED
    BY <2>1, <2>2
<1>6. ASSUME Engine!Lock(c) PROVE EngineInv'
  <2>1. PICK s : s = [r EXCEPT !.at = "launch"]
    OBVIOUS
  <2>3. s = Sent(r, "launch", r.result, r.wait) /\ s \in CallRecords
    <3>1. s = Sent(r, "launch", r.result, r.wait)
      BY <1>a, <2>1 DEF Sent, CallRecords
    <3>2. QED
      BY <1>a, <1>2, <1>3, <3>1, SentType DEF Results
  <2>4. InTime(s) /\ Voiced(c, s, io', maker')
    BY <1>0, <1>1, <1>2, <1>3, <1>6, <2>3 DEF InTime, Voiced, Sent, Engine!Lock
  <2>5. call' = [call EXCEPT ![c] = s]
    BY <1>0, <1>6, <2>1 DEF Engine!Lock
  <2>6. tier' = tier /\ io = "free" /\ maker' = maker
    BY <1>0, <1>6 DEF Engine!Lock
  <2>7. QED
    BY <2>3, <2>4, <2>5, <2>6, OneCaller
<1>7. ASSUME Engine!LockTimesOut(c) PROVE EngineInv'
  <2>1. PICK s : s = [r EXCEPT !.at = "leave", !.result = "error"]
    OBVIOUS
  <2>2. s = Sent(r, "leave", "error", r.wait) /\ s \in CallRecords
    <3>1. s = Sent(r, "leave", "error", r.wait)
      BY <1>a, <2>1 DEF Sent, CallRecords
    <3>2. QED
      BY <1>a, <1>2, <1>3, <3>1, SentType DEF Results
  <2>3. InTime(s) /\ Voiced(c, s, io', maker')
    BY <1>1, <2>2 DEF InTime, Voiced, Sent
  <2>4. call' = [call EXCEPT ![c] = s] /\ tier' = tier /\ io' = io /\ maker' = maker
    BY <1>0, <1>7, <2>1 DEF Engine!LockTimesOut
  <2>5. QED
    BY <2>2, <2>3, <2>4, OneCaller
<1>8. ASSUME Engine!Launch(c) PROVE EngineInv'
  <2>1. tier' = tier /\ io' = io /\ maker' = maker /\ r.at = "launch"
    BY <1>0, <1>8 DEF Engine!Launch
  <2>2. \/ call' = [call EXCEPT ![c] = [r EXCEPT !.at = "leave", !.result = "empty"]]
        \/ call' = [call EXCEPT ![c] = [r EXCEPT !.at = "leave", !.result = "error"]]
        \/ call' = [call EXCEPT ![c] = [r EXCEPT !.at = "spawn"]]
    BY <1>0, <1>8 DEF Engine!Launch
  <2>3. ASSUME NEW result \in {"empty", "error"},
               call' = [call EXCEPT ![c] = [r EXCEPT !.at = "leave", !.result = result]]
        PROVE  EngineInv'
    <3>1. PICK s : s = [r EXCEPT !.at = "leave", !.result = result]
      OBVIOUS
    <3>2. s = Sent(r, "leave", result, r.wait) /\ s \in CallRecords
      <4>1. s = Sent(r, "leave", result, r.wait)
        BY <1>a, <3>1 DEF Sent, CallRecords
      <4>2. QED
        BY <1>a, <1>2, <1>3, <4>1, SentType DEF Results
    <3>3. InTime(s) /\ Voiced(c, s, io', maker')
      BY <1>1, <3>2 DEF InTime, Voiced, Sent
    <3>4. QED
      BY <2>1, <2>3, <3>1, <3>2, <3>3, OneCaller
  <2>4. ASSUME call' = [call EXCEPT ![c] = [r EXCEPT !.at = "spawn"]]
        PROVE  EngineInv'
    <3>1. PICK s : s = [r EXCEPT !.at = "spawn"]
      OBVIOUS
    <3>3. s = Sent(r, "spawn", r.result, r.wait) /\ s \in CallRecords
      <4>1. s = Sent(r, "spawn", r.result, r.wait)
        BY <1>a, <3>1 DEF Sent, CallRecords
      <4>2. QED
        BY <1>a, <1>2, <1>3, <4>1, SentType DEF Results
    <3>4. InTime(s) /\ Voiced(c, s, io', maker')
      BY <1>1, <2>1, <3>3 DEF InTime, Voiced, Sent
    <3>5. QED
      BY <2>1, <2>4, <3>1, <3>3, <3>4, OneCaller
  <2>5. QED
    BY <2>2, <2>3, <2>4
<1>9. ASSUME Engine!Publish(c) PROVE EngineInv'
  <2>1. tier' = tier /\ io' = io /\ maker' = r.voice /\ r.at = "spawn" /\ io = c
    BY <1>0, <1>1, <1>9 DEF Engine!Publish, Voiced
  <2>2. CASE requested
    <3>1. PICK s : s = [r EXCEPT !.at = "leave", !.result = "empty"]
      OBVIOUS
    <3>2. s = Sent(r, "leave", "empty", r.wait) /\ s \in CallRecords
      <4>1. s = Sent(r, "leave", "empty", r.wait)
        BY <1>a, <3>1 DEF Sent, CallRecords
      <4>2. QED
        BY <1>a, <1>2, <1>3, <4>1, SentType DEF Results
    <3>3. InTime(s) /\ Voiced(c, s, io', maker')
      BY <1>1, <3>2 DEF InTime, Voiced, Sent
    <3>4. call' = [call EXCEPT ![c] = s]
      BY <1>0, <1>9, <2>2, <3>1 DEF Engine!Publish
    <3>5. QED
      BY <2>1, <3>2, <3>3, <3>4, OneCaller
  <2>3. CASE ~requested
    <3>1. PICK s : s = [r EXCEPT !.at = "run", !.wait = r.bound]
      OBVIOUS
    <3>3. s = Sent(r, "run", r.result, r.bound) /\ s \in CallRecords
      <4>1. s = Sent(r, "run", r.result, r.bound)
        BY <1>a, <3>1 DEF Sent, CallRecords
      <4>2. QED
        BY <1>a, <1>2, <1>3, <4>1, SentType DEF Results
    <3>4. InTime(s)
      BY <1>1, <2>1, <3>3 DEF InTime, Sent
    <3>5. Voiced(c, s, io', maker')
      BY <2>1, <3>3 DEF Voiced, Sent
    <3>6. call' = [call EXCEPT ![c] = s]
      BY <1>0, <1>9, <2>3, <3>1 DEF Engine!Publish
    <3>7. QED
      BY <2>1, <3>3, <3>4, <3>5, <3>6, OneCaller
  <2>4. QED
    BY <2>2, <2>3
<1>10. ASSUME Engine!Communicate(c) PROVE EngineInv'
  <2>1. PICK result \in {"clip", "bad", "late"} :
          call' = [call EXCEPT ![c] = [r EXCEPT !.at = "reap", !.result = result,
                                                !.wait = ReapWait]]
    BY <1>0, <1>10 DEF Engine!Communicate
  <2>2. tier' = tier /\ io' = io /\ maker' = maker /\ r.at = "run"
    BY <1>0, <1>10 DEF Engine!Communicate
  <2>3. PICK s : s = [r EXCEPT !.at = "reap", !.result = result, !.wait = ReapWait]
    OBVIOUS
  <2>4. s = Sent(r, "reap", result, ReapWait) /\ s \in CallRecords
    <3>1. s = Sent(r, "reap", result, ReapWait)
      BY <1>a, <2>3 DEF Sent, CallRecords
    <3>2. QED
      BY <1>a, <1>2, <1>3, <3>1, SentType DEF Results
  <2>5. InTime(s)
    BY <1>1, <1>2, <1>3, <2>2, <2>4 DEF InTime, Sent
  <2>6. Voiced(c, s, io', maker')
    BY <1>1, <2>2, <2>4 DEF Voiced, Sent
  <2>7. QED
    BY <2>1, <2>2, <2>3, <2>4, <2>5, <2>6, OneCaller
<1>11. ASSUME Engine!Finish(c) PROVE EngineInv'
  <2>1. tier' = tier /\ io' = io /\ maker' = maker /\ r.at = "reap"
    BY <1>0, <1>11 DEF Engine!Finish
  <2>2. \/ call' = [call EXCEPT ![c] = [r EXCEPT !.at = "leave"]]
        \/ call' = [call EXCEPT ![c] = [r EXCEPT !.at = "leave", !.result = "late",
                                                !.torn = FALSE]]
    BY <1>0, <1>11 DEF Engine!Finish
  <2>3. CASE call' = [call EXCEPT ![c] = [r EXCEPT !.at = "leave"]]
    <3>1. PICK s : s = [r EXCEPT !.at = "leave"]
      OBVIOUS
    <3>3. s = Sent(r, "leave", r.result, r.wait) /\ s \in CallRecords
      <4>1. s = Sent(r, "leave", r.result, r.wait)
        BY <1>a, <3>1 DEF Sent, CallRecords
      <4>2. QED
        BY <1>a, <1>2, <1>3, <4>1, SentType DEF Results
    <3>4. InTime(s) /\ Voiced(c, s, io', maker')
      BY <1>1, <2>1, <3>3 DEF InTime, Voiced, Sent
    <3>5. QED
      BY <2>1, <2>3, <3>1, <3>3, <3>4, OneCaller
  <2>4. CASE call' = [call EXCEPT ![c] = [r EXCEPT !.at = "leave", !.result = "late",
                                                  !.torn = FALSE]]
    <3>1. PICK s : s = [r EXCEPT !.at = "leave", !.result = "late", !.torn = FALSE]
      OBVIOUS
    <3>2. s = [at |-> "leave", budget |-> r.budget, left |-> r.left, bound |-> r.bound,
               cut |-> r.cut, wait |-> r.wait, voice |-> r.voice, result |-> "late",
               torn |-> FALSE]
      BY <1>a, <3>1 DEF CallRecords
    <3>3. s \in CallRecords
      BY <1>2, <3>2 DEF CallRecords, Results
    <3>4. InTime(s) /\ Voiced(c, s, io', maker')
      BY <1>1, <3>2 DEF InTime, Voiced
    <3>5. QED
      BY <2>1, <2>4, <3>1, <3>3, <3>4, OneCaller
  <2>5. QED
    BY <2>2, <2>3, <2>4
<1>12. ASSUME Engine!Leave(c) PROVE EngineInv'
  <2> DEFINE outcome == Engine!Outcome(c)
  <2>1. /\ tier' = tier /\ maker' = maker
        /\ io' = io \/ io = c
    BY <1>0, <1>12 DEF Engine!Leave
  <2>2. CASE Engine!FallsBack(c, outcome)
    <3>1. PICK s : s = [r EXCEPT !.at = "bound", !.voice = "espeak", !.result = "none"]
      OBVIOUS
    <3>2. s = [at |-> "bound", budget |-> r.budget, left |-> r.left, bound |-> r.bound,
               cut |-> r.cut, wait |-> r.wait, voice |-> "espeak", result |-> "none",
               torn |-> r.torn]
      BY <1>a, <3>1 DEF CallRecords
    <3>3. s \in CallRecords
      BY <1>2, <3>2 DEF CallRecords, Results, Voices
    <3>4. InTime(s) /\ Voiced(c, s, io', maker')
      BY <1>1, <3>2 DEF InTime, Voiced
    <3>5. call' = [call EXCEPT ![c] = s]
      BY <1>0, <1>12, <2>2, <3>1 DEF Engine!Leave
    <3>6. QED
      BY <2>1, <3>3, <3>4, <3>5, OneCaller
  <2>3. CASE ~Engine!FallsBack(c, outcome)
    <3>1. outcome \in Results
      BY <1>0, <1>2 DEF Engine!Outcome, Results
    <3>2. call' = [call EXCEPT ![c] = [r EXCEPT !.at = "idle", !.result = outcome]]
      BY <1>0, <1>12, <2>3 DEF Engine!Leave, Engine!End
    <3> HIDE DEF outcome
    <3>3. PICK s : s = [r EXCEPT !.at = "idle", !.result = outcome]
      OBVIOUS
    <3>4. s = Sent(r, "idle", outcome, r.wait) /\ s \in CallRecords
      <4>1. s = Sent(r, "idle", outcome, r.wait)
        BY <1>a, <3>3 DEF Sent, CallRecords
      <4>2. QED
        BY <1>a, <1>2, <3>1, <4>1, SentType
    <3>5. InTime(s) /\ Voiced(c, s, io', maker')
      BY <1>1, <3>4 DEF InTime, Voiced, Sent
    <3>6. QED
      BY <2>1, <3>2, <3>3, <3>4, <3>5, OneCaller
  <2>4. QED
    BY <2>2, <2>3
<1>13. QED
  BY <1>0, <1>4, <1>5, <1>6, <1>7, <1>8, <1>9, <1>10, <1>11, <1>12 DEF Engine!Step

\* A call begins with all of its budget.
LEMMA BeginStep ==
  ASSUME EngineInv, NEW c \in Callers, NEW b \in Budgets \cup {Unbounded}, Engine!Begin(c, b)
  PROVE  EngineInv'
<1>1. PICK voice :
        /\ voice \in Voices
        /\ call' = [call EXCEPT ![c] = [Engine!Idle EXCEPT !.at = "bound", !.budget = b,
                                                          !.left = b, !.voice = voice]]
        /\ tier' = tier /\ io' = io /\ maker' = maker
  <2>1. (IF c = "synth" THEN Engine!FirstVoice ELSE "status") \in Voices
    BY DEF Engine!FirstVoice, EngineInv, Voices
  <2>2. QED
    BY <2>1 DEF Engine!Begin, Engine!Set
<1>2. b \in Nat /\ IOWait \in Nat /\ ReapWait \in Nat
  BY ReadingAssumption
<1>3. PICK s : s = [Engine!Idle EXCEPT !.at = "bound", !.budget = b, !.left = b, !.voice = voice]
  OBVIOUS
<1>4. s = [at |-> "bound", budget |-> b, left |-> b, bound |-> 0, cut |-> FALSE, wait |-> 0,
           voice |-> voice, result |-> "none", torn |-> TRUE]
  BY <1>3 DEF Engine!Idle
<1>5. s \in CallRecords
  BY <1>1, <1>2, <1>4 DEF CallRecords, Results
<1>6. InTime(s) /\ Voiced(c, s, io', maker')
  BY <1>2, <1>4 DEF InTime, Voiced
<1>7. QED
  BY <1>1, <1>3, <1>5, <1>6, OneCaller

\* While every caller waits within its limit, time takes what InTime allows.
LEMMA TickStep ==
  ASSUME EngineInv, Engine!Tick
  PROVE  EngineInv'
<1>1. tier' = tier /\ io' = io /\ maker' = maker /\ Engine!Callers = Callers
  BY DEF Engine!Tick, Engine!ownerVars, Engine!Callers, Callers
<1>2. ASSUME NEW c \in Callers
      PROVE  call'[c] \in CallRecords /\ Voiced(c, call'[c], io, maker) /\ InTime(call'[c])
  <2>1. PICK r : r = call[c]
    OBVIOUS
  <2>2. r \in CallRecords /\ Voiced(c, r, io, maker) /\ InTime(r)
    BY <2>1 DEF EngineInv
  <2>3. PICK q : q = Engine!Older(r)
    OBVIOUS
  <2>4. call'[c] = q
    BY <1>1, <2>1, <2>3 DEF Engine!Tick
  <2>5. CASE r.at = "idle"
    BY <2>2, <2>3, <2>4, <2>5 DEF Engine!Older
  <2>6. CASE r.at # "idle"
    <3>1. /\ r.budget \in Nat /\ r.left \in Int /\ r.bound \in Nat /\ r.cut \in BOOLEAN
          /\ r.wait \in Nat /\ r.voice \in Voices /\ r.result \in Results /\ r.torn \in BOOLEAN
          /\ r.at \in {"bound", "enter", "lock", "launch", "spawn", "run", "reap", "leave"}
      BY <2>2, <2>6 DEF CallRecords
    <3>2. r.at \in {"lock", "run", "reap"} /\ r.wait > 0
      BY <1>1, <2>1, <2>6 DEF Engine!Tick, Engine!Waits, Engine!At
    <3> DEFINE now == IF r.budget = Unbounded THEN r.left ELSE r.left - 1
               bound == IF tier = "qwen" /\ r.bound > 0 THEN r.bound - 1 ELSE r.bound
               wait == IF r.wait = 0 THEN 0 ELSE r.wait - 1
    <3>3. q = [r EXCEPT !.left = now, !.wait = wait, !.bound = bound]
      BY <2>3, <2>6, Zenon DEF Engine!Older
    <3>4. /\ now \in Int /\ bound \in Nat /\ wait \in Nat /\ bound <= r.bound
          /\ r.budget # Unbounded => now = r.left - 1
          /\ IOWait \in Nat /\ ReapWait \in Nat
      BY <3>1, <3>2, ReadingAssumption
    <3>5. wait = r.wait - 1
      BY <3>1, <3>2
    <3> HIDE DEF now, bound, wait
    <3>6. q = [at |-> r.at, budget |-> r.budget, left |-> now, bound |-> bound, cut |-> r.cut,
               wait |-> wait, voice |-> r.voice, result |-> r.result, torn |-> r.torn]
      BY <2>2, <3>3 DEF CallRecords
    <3>7. q \in CallRecords
      BY <3>1, <3>4, <3>6 DEF CallRecords
    <3>8. Voiced(c, q, io, maker)
      BY <2>2, <3>6 DEF Voiced
    <3>9. InTime(q)
      BY <2>2, <3>1, <3>2, <3>4, <3>5, <3>6 DEF InTime
    <3>10. QED
      BY <2>4, <3>7, <3>8, <3>9
  <2>7. QED
    BY <2>5, <2>6
<1>3. call' = [c \in Callers |-> Engine!Older(call[c])]
  BY <1>1 DEF Engine!Tick
<1>4. call' \in [Callers -> CallRecords]
  BY <1>2, <1>3
<1>5. QED
  BY <1>1, <1>2, <1>4 DEF EngineInv

\* Every step of an engine keeps it.
LEMMA EngineStep == EngineInv /\ [Engine!Next]_(Engine!vars) => EngineInv'
<1> SUFFICES ASSUME EngineInv, [Engine!Next]_(Engine!vars) PROVE EngineInv'
  OBVIOUS
<1>1. CASE \E c \in Engine!Callers : Engine!Step(c)
  BY <1>1, CallerStep DEF Engine!Callers, Callers
<1>2. CASE \E c \in Engine!Callers : \E b \in Budgets \cup {Unbounded} : Engine!Begin(c, b)
  BY <1>2, BeginStep DEF Engine!Callers, Callers
<1>3. CASE Engine!Tick
  BY <1>3, TickStep
<1>4. ASSUME UNCHANGED <<call, tier, io, maker>> PROVE EngineInv'
  BY <1>4 DEF EngineInv
<1>5. CASE Engine!ChildEnds \/ Engine!Cancel \/ Engine!RequestClose \/ Engine!Dispose
  BY <1>4, <1>5 DEF Engine!ChildEnds, Engine!Cancel, Engine!RequestClose, Engine!Dispose
<1>6. CASE UNCHANGED Engine!vars
  BY <1>4, <1>6 DEF Engine!vars, Engine!ownerVars
<1>7. QED
  BY <1>1, <1>2, <1>3, <1>5, <1>6 DEF Engine!Next

\* It holds of every engine, always.
LEMMA EngineAlways == Spec => []EngineInv
<1>1. Init => EngineInv
  BY EngineStart DEF Init
<1>2. EngineInv /\ [Next]_vars => EngineInv'
  <2> SUFFICES ASSUME EngineInv, [Next]_vars PROVE EngineInv'
    OBVIOUS
  <2>1. CASE Engine!Next
    BY <2>1, EngineStep
  <2>2. CASE UNCHANGED synthesisVars
    BY <2>2, EngineStep DEF synthesisVars, Engine!vars, Engine!ownerVars
  <2>3. QED
    BY <2>1, <2>2 DEF Next, vars
<1>3. QED
  BY <1>1, <1>2, ReadingSteps, PTL

\* What a call spends beyond its budget is one wait for the IO lock and one for the
\* child to be reaped, attempts and fallback and all, for every engine.
THEOREM BudgetSafe == Spec => []Engine!CallInBudget
<1>1. EngineInv => Engine!CallInBudget
  BY DEF EngineInv, InTime, Engine!CallInBudget, Engine!Callers, Callers
<1>2. QED
  BY <1>1, EngineAlways, PTL

\* A call of either caller ends with a clip only by leaving, ...
LEMMA OnlyByLeaving ==
  ASSUME EngineInv, Engine!Next, NEW c \in Callers, call[c].at # "idle",
         call'[c].at = "idle", call'[c].result = "clip"
  PROVE  Engine!Leave(c)
<1>1. /\ call \in [Callers -> CallRecords] /\ Engine!Callers = Callers /\ call'[c] # call[c]
  BY DEF EngineInv, Engine!Callers, Callers
<1>2. ASSUME NEW d \in Callers, NEW s, call' = [call EXCEPT ![d] = s],
             s.at = "idle" => s.result # "clip"
      PROVE  FALSE
  BY <1>1, <1>2
<1> USE DEF Engine!At, Engine!Set
<1>3. ASSUME NEW d \in Callers, Engine!Step(d) PROVE Engine!Leave(c)
  <2>1. PICK r : r = call[d]
    OBVIOUS
  <2>2. r \in CallRecords
    BY <1>1, <2>1
  <2>3. ~Engine!Bounded(d)
    <3>1. SUFFICES ASSUME Engine!Bounded(d) PROVE FALSE
      OBVIOUS
    <3>2. PICK s : /\ call' = [call EXCEPT ![d] = s]
                   /\ \/ s = [r EXCEPT !.at = "idle", !.result = "deadline"]
                      \/ s = [r EXCEPT !.at = "enter",
                                       !.bound = Engine!Shorter(r.left, Cap),
                                       !.cut = (r.left <= Cap)]
      BY <2>1, <3>1, Zenon DEF Engine!Bounded, Engine!Attempt, Engine!End
    <3>3. s.at = "idle" => s.result # "clip"
      BY <2>2, <3>2 DEF CallRecords
    <3>4. QED
      BY <1>2, <3>2, <3>3
  <2>4. ~Engine!Enter(d)
    <3>1. SUFFICES ASSUME Engine!Enter(d) PROVE FALSE
      OBVIOUS
    <3>2. PICK s : /\ call' = [call EXCEPT ![d] = s]
                   /\ \/ s = [r EXCEPT !.at = "idle", !.result = "empty"]
                      \/ s = [r EXCEPT !.at = "lock", !.wait = IOWait]
      BY <2>1, <3>1 DEF Engine!Enter, Engine!End
    <3>3. s.at = "idle" => s.result # "clip"
      BY <2>2, <3>2 DEF CallRecords
    <3>4. QED
      BY <1>2, <3>2, <3>3
  <2>5. ASSUME NEW s, call' = [call EXCEPT ![d] = s],
               \/ s = [r EXCEPT !.at = "launch"]
               \/ \E result : s = [r EXCEPT !.at = "leave", !.result = result]
               \/ s = [r EXCEPT !.at = "spawn"]
               \/ s = [r EXCEPT !.at = "run", !.wait = r.bound]
               \/ \E result : s = [r EXCEPT !.at = "reap", !.result = result, !.wait = ReapWait]
               \/ s = [r EXCEPT !.at = "leave"]
               \/ s = [r EXCEPT !.at = "leave", !.result = "late", !.torn = FALSE]
        PROVE  FALSE
    <3>1. s.at # "idle"
      BY <2>2, <2>5 DEF CallRecords
    <3>2. QED
      BY <1>2, <2>5, <3>1
  <2>6. ~Engine!Lock(d) /\ ~Engine!LockTimesOut(d) /\ ~Engine!Launch(d)
    BY <2>1, <2>5 DEF Engine!Lock, Engine!LockTimesOut, Engine!Launch
  <2>7. ~Engine!Publish(d)
    BY <2>1, <2>5 DEF Engine!Publish
  <2>8. ~Engine!Communicate(d) /\ ~Engine!Finish(d)
    BY <2>1, <2>5 DEF Engine!Communicate, Engine!Finish
  <2>9. Engine!Leave(d)
    BY <1>3, <2>3, <2>4, <2>6, <2>7, <2>8 DEF Engine!Step
  <2>10. d = c
    <3>1. PICK s : call' = [call EXCEPT ![d] = s]
      BY <2>9 DEF Engine!Leave, Engine!End
    <3>2. QED
      BY <1>1, <3>1
  <2>11. QED
    BY <2>9, <2>10
<1>4. ASSUME NEW d \in Callers, NEW b, Engine!Begin(d, b) PROVE FALSE
  <2>1. PICK s : call' = [call EXCEPT ![d] = s] /\ s.at = "bound"
    BY <1>4 DEF Engine!Begin, Engine!Idle
  <2>2. QED
    BY <1>2, <2>1
<1>5. ~Engine!Tick
  <2>1. SUFFICES ASSUME Engine!Tick PROVE FALSE
    OBVIOUS
  <2>2. call[c] \in CallRecords /\ call'[c] = Engine!Older(call[c])
    BY <1>1, <2>1 DEF Engine!Tick
  <2>3. call'[c].at = call[c].at
    BY <2>2 DEF Engine!Older, CallRecords
  <2>4. QED
    BY <2>3
<1>6. ~(Engine!ChildEnds \/ Engine!Cancel \/ Engine!RequestClose \/ Engine!Dispose)
  BY <1>1 DEF Engine!ChildEnds, Engine!Cancel, Engine!RequestClose, Engine!Dispose
<1>7. QED
  BY <1>1, <1>3, <1>4, <1>5, <1>6 DEF Engine!Next

\* ... and labels it with the voice that it holds.
LEMMA LeaveLabels ==
  ASSUME EngineInv, NEW c \in Callers, Engine!Leave(c),
         call'[c].at = "idle", call'[c].result = "clip"
  PROVE  ~cancelled /\ (c = "synth" => heard' = maker)
<1>1. call \in [Callers -> CallRecords] /\ Voiced(c, call[c], io, maker)
  BY DEF EngineInv
<1>2. PICK r : r = call[c]
  OBVIOUS
<1>3. r \in CallRecords /\ Voiced(c, r, io, maker) /\ r.at = "leave"
  BY <1>1, <1>2 DEF Engine!Leave, Engine!At
<1> DEFINE outcome == Engine!Outcome(c)
<1>4. CASE Engine!FallsBack(c, outcome)
  <2>1. PICK s : /\ call' = [call EXCEPT ![c] = s]
                 /\ s = [r EXCEPT !.at = "bound", !.voice = "espeak", !.result = "none"]
    BY <1>2, <1>4 DEF Engine!Leave, Engine!Set
  <2>2. s.at = "bound"
    BY <1>3, <2>1 DEF CallRecords
  <2>3. QED
    BY <1>1, <2>1, <2>2
<1>5. CASE ~Engine!FallsBack(c, outcome)
  <2>1. PICK s : /\ call' = [call EXCEPT ![c] = s]
                 /\ s = [r EXCEPT !.at = "idle", !.result = outcome]
    BY <1>2, <1>5 DEF Engine!Leave, Engine!End, Engine!Set
  <2>2. s.result = outcome
    BY <1>3, <2>1 DEF CallRecords
  <2>3. outcome = "clip"
    BY <1>1, <2>1, <2>2
  <2>4. r.result = "clip" /\ ~cancelled
    BY <1>2, <2>3 DEF Engine!Outcome
  <2>5. c = "synth" => heard' = r.voice
    BY <1>2, <1>5, <2>3 DEF Engine!Leave
  <2>6. QED
    BY <1>3, <2>4, <2>5 DEF Voiced
<1>6. QED
  BY <1>4, <1>5

\* What a clip says made it is the process that made it, whatever fell back or was
\* probed meanwhile, and no clip is handed over once cancelled.
THEOREM LabelsSafe == Spec => ClipsAreLabelled
<1>1. ASSUME EngineInv, [Next]_vars, NEW c \in Engine!Callers, ~Engine!At(c, "idle"),
             call'[c].at = "idle", call'[c].result = "clip"
      PROVE  ~cancelled /\ (c = "synth" => heard' = maker)
  <2>1. call'[c] # call[c] /\ c \in Callers /\ call[c].at # "idle"
    BY <1>1 DEF Engine!At, Engine!Callers, Callers
  <2>2. Engine!Next
    BY <1>1, <2>1 DEF Next, vars, synthesisVars
  <2>3. QED
    BY <1>1, <2>1, <2>2, OnlyByLeaving, LeaveLabels
<1> DEFINE Labelled == \A c \in Engine!Callers :
             ~Engine!At(c, "idle") /\ call'[c].at = "idle" /\ call'[c].result = "clip" =>
               ~cancelled /\ (c = "synth" => heard' = maker)
<1>2. EngineInv /\ [Next]_vars => [Labelled]_(Engine!vars)
  BY <1>1
<1>3. QED
  BY <1>2, EngineAlways, ReadingSteps, PTL DEF ClipsAreLabelled, Engine!ClipsAreLabelled

-----------------------------------------------------------------------------
(* The player (Player).                                                    *)

Kinds == {"new", "old"}
Items == {"new", "old", "eof"}

PlayerType ==
  /\ queue \in Seq(Items) /\ pending \in Int /\ stops \in Nat
  /\ worker \in {"none", "created", "running", "ended"}
  /\ at \in {"get", "enter", "done", "dying", "check", "launched", "sounding", "reap"}
  /\ clip \in {"none", "new", "old"}
  /\ sink \in {"none", "running", "dead"}
  /\ lock \in {"free", "client", "worker"}
  /\ client \in {"idle", "entered", "publishing"}
  /\ closing \in BOOLEAN /\ flagged \in BOOLEAN
  /\ closer \in {"idle", "drain", "body", "join", "closed"}

\* The worker has a clip exactly while it is on one, and a sink that sounds is on a
\* clip no stop outdated; whoever launches or publishes holds the lock.
WorkerInv ==
  /\ clip = "none" <=> at = "get"
  /\ at # "get" => worker = "running"
  /\ sink # "none" => at \in {"launched", "sounding", "reap"}
  /\ sink = "running" => clip = "new"
  /\ lock = "worker" <=> at = "launched"
  /\ lock = "client" <=> client = "publishing"
  /\ client = "publishing" => worker = "created"

\* Nobody is in play() once a close got past the users, so that the sentinel is the
\* last there is in the queue, and after the body there is no clip.
CloserInv ==
  /\ closer # "idle" \/ flagged => closing
  /\ closer \in {"body", "join", "closed"} \/ flagged => client = "idle"
  /\ closer \in {"join", "closed"} => flagged /\ \A i \in 1..Len(queue) : queue[i] = "eof"
  /\ closer = "closed" => worker = "none"
  /\ \A i \in 1..Len(queue) : queue[i] = "eof" => i = Len(queue) /\ flagged

PendingInv == pending = Len(Only(queue, Kinds)) + (IF clip # "none" THEN 1 ELSE 0)

PlayerInv == PlayerType /\ WorkerInv /\ CloserInv /\ PendingInv

\* A player begins with it.
LEMMA PlayerStart == Clips!Init => PlayerInv
<1> SUFFICES ASSUME Clips!Init PROVE PlayerInv
  OBVIOUS
<1>1. Only(queue, Kinds) = <<>>
  BY OnlyOfNone DEF Clips!Init
<1>2. queue \in Seq(Items) /\ Len(queue) = 0 /\ Len(<<>>) = 0
  BY DEF Clips!Init
<1>3. PendingInv
  BY <1>1, <1>2 DEF Clips!Init, PendingInv
<1>4. closing \in BOOLEAN /\ flagged \in BOOLEAN
  BY Zenon DEF Clips!Init
<1>5. PlayerType
  BY <1>2, <1>4 DEF Clips!Init, PlayerType
<1>6. QED
  BY <1>2, <1>3, <1>4, <1>5 DEF Clips!Init, PlayerInv, WorkerInv, CloserInv

\* What waits in the queue is all of it, but for a sentinel at its end.
LEMMA WaitingOfAppend ==
  ASSUME NEW q \in Seq(Items), NEW item \in Items
  PROVE  /\ Append(q, item) \in Seq(Items)
         /\ Len(Only(Append(q, item), Kinds)) =
              Len(Only(q, Kinds)) + (IF item = "eof" THEN 0 ELSE 1)
<1>1. Only(q, Kinds) \in Seq(Items)
  BY PickedPlaces DEF Only
<1>2. item \in Kinds <=> item # "eof"
  BY DEF Items, Kinds
<1>3. QED
  BY <1>1, <1>2, OnlyOfAppend

LEMMA WaitingOfHead ==
  ASSUME NEW q \in Seq(Items), q # <<>>
  PROVE  /\ Tail(q) \in Seq(Items) /\ Head(q) \in Items
         /\ Len(Only(q, Kinds)) =
              Len(Only(Tail(q), Kinds)) + (IF Head(q) = "eof" THEN 0 ELSE 1)
<1> DEFINE h == Head(q)
           one == <<h>>
           later == Tail(q)
<1>1. h \in Items /\ later \in Seq(Items) /\ one \in Seq(Items) /\ q = one \o later
  OBVIOUS
<1>2. Only(one, Kinds) = IF h \in Kinds THEN one ELSE <<>>
  <2>1. Only(Append(<<>>, h), Kinds) =
          IF h \in Kinds THEN Append(Only(<<>>, Kinds), h) ELSE Only(<<>>, Kinds)
    <3>1. <<>> \in Seq(Items)
      OBVIOUS
    <3> HIDE DEF h
    <3>2. QED
      BY <1>1, <3>1, OnlyOfAppend
  <2>2. Append(<<>>, h) = one
    OBVIOUS
  <2>3. QED
    BY <2>1, <2>2, OnlyOfNone
<1>3. h \in Kinds <=> h # "eof"
  BY <1>1 DEF Items, Kinds
<1> HIDE DEF later, one
<1>4. Only(q, Kinds) = Only(one, Kinds) \o Only(later, Kinds)
  BY <1>1, OnlyOfConcat
<1>5. Only(later, Kinds) \in Seq(Items) /\ Len(one) = 1
  BY <1>1, PickedPlaces DEF Only, one
<1>6. Len(Only(q, Kinds)) = Len(Only(later, Kinds)) + (IF h = "eof" THEN 0 ELSE 1)
  <2>1. CASE h = "eof"
    <3>1. <<>> \o Only(later, Kinds) = Only(later, Kinds) /\ Len(Only(later, Kinds)) \in Nat
      BY <1>5
    <3>2. QED
      BY <1>2, <1>3, <1>4, <2>1, <3>1
  <2>2. CASE h # "eof"
    <3>1. Len(one \o Only(later, Kinds)) = 1 + Len(Only(later, Kinds))
      BY <1>1, <1>5, ConcatProperties
    <3>2. QED
      BY <1>2, <1>3, <1>4, <1>5, <2>2, <3>1
  <2>3. QED
    BY <2>1, <2>2
<1>7. QED
  BY <1>1, <1>6 DEF later

\* A stop takes all the clips there are: the sentinel is the last of the queue.
LEMMA Silenced ==
  ASSUME NEW q \in Seq(Items), \A i \in 1..Len(q) : q[i] = "eof" => i = Len(q)
  PROVE  /\ Clips!Ahead(q) = Len(Only(q, Kinds))
         /\ Clips!Left(q) = IF \E i \in 1..Len(q) : q[i] = "eof" THEN <<"eof">> ELSE <<>>
<1> DEFINE n == Len(q)
<1>1. n \in Nat
  OBVIOUS
<1>2. CASE \A i \in 1..n : q[i] # "eof"
  <2>1. ~Clips!Contains(q, "eof")
    BY <1>2 DEF Clips!Contains
  <2>2. Clips!Ahead(q) = n
    BY <2>1 DEF Clips!Ahead
  <2>3. \A i \in 1..n : q[i] \in Kinds
    BY <1>2 DEF Items, Kinds
  <2>4. Only(q, Kinds) = q
    <3> DEFINE kept == {i \in 1..Len(q) : q[i] \in Kinds}
    <3>1. \A i \in 1..Len(q) : i \in kept
      BY <2>3
    <3> HIDE DEF kept
    <3>2. Picked(q, kept) = q
      BY <3>1, PickedOfKept
    <3>3. QED
      BY <3>2 DEF kept, Only
  <2>5. SubSeq(q, n + 1, n) = <<>>
    BY <1>1
  <2>6. Clips!Left(q) = <<>>
    BY <2>2, <2>5 DEF Clips!Left
  <2>7. QED
    BY <1>2, <2>2, <2>4, <2>6
<1>3. CASE \E i \in 1..n : q[i] = "eof"
  <2> DEFINE a == SubSeq(q, 1, n - 1)
             b == <<"eof">>
  <2>1. n \in 1..n /\ q[n] = "eof" /\ \A i \in 1..n : q[i] = "eof" => i = n
    BY <1>1, <1>3
  <2>2. Clips!Contains(q, "eof")
    BY <2>1 DEF Clips!Contains
  <2>3. Clips!SelectInSeq(q, LAMBDA c : c = "eof") = n
    BY <2>1 DEF Clips!SelectInSeq, Clips!Min
  <2>4. Clips!Ahead(q) = n - 1
    BY <2>2, <2>3 DEF Clips!Ahead
  <2>5. SubSeq(q, (n - 1) + 1, n) = b
    <3>1. SubSeq(q, n, n) = <<q[n]>>
      <4>1. n \in 1..(Len(q) + 1) /\ n \in (n - 1)..Len(q)
        BY <1>1, <2>1
      <4>2. /\ SubSeq(q, n, n) \in Seq(Items) /\ Len(SubSeq(q, n, n)) = 1
            /\ SubSeq(q, n, n)[1] = q[n]
        BY <1>1, <2>1
      <4> DEFINE t == SubSeq(q, n, n)
      <4>3. t = [i \in 1..1 |-> t[i]]
        BY <1>1, <2>1
      <4>4. <<q[n]>> = [i \in 1..1 |-> q[n]]
        OBVIOUS
      <4>5. QED
        BY <4>2, <4>3, <4>4
    <3>2. (n - 1) + 1 = n
      BY <1>1
    <3>3. QED
      BY <2>1, <3>1, <3>2
  <2>6. Clips!Left(q) = b
    <3>1. Clips!Left(q) = Append([i \in DOMAIN Tail(b) |-> Clips!Outdated(Tail(b)[i])], "eof")
      <4>1. b # <<>>
        OBVIOUS
      <4> HIDE DEF b
      <4>2. SubSeq(q, Clips!Ahead(q) + 1, Len(q)) = b
        BY <2>4, <2>5
      <4>3. QED
        BY <4>1, <4>2, Zenon DEF Clips!Left
    <3>2. Tail(b) = <<>> /\ DOMAIN Tail(b) = {}
      OBVIOUS
    <3>3. [i \in DOMAIN Tail(b) |-> Clips!Outdated(Tail(b)[i])] = <<>>
      BY <3>2
    <3>4. Append(<<>>, "eof") = b
      OBVIOUS
    <3>5. QED
      BY <3>1, <3>3, <3>4
  <2>7. /\ a \in Seq(Items) /\ b \in Seq(Items) /\ q = a \o b /\ Len(a) = n - 1
        /\ \A i \in 1..Len(a) : a[i] \in Kinds
    <3>1. a \in Seq(Items) /\ Len(a) = n - 1 /\ \A i \in 1..(n - 1) : a[i] = q[i]
      <4>1. n - 1 \in 0..n /\ \A i \in 1..(n - 1) : i \in 1..n
        BY <1>1, <2>1
      <4>2. \A i \in 1..(n - 1) : q[i] \in Items
        BY <4>1
      <4>3. a = [i \in 1..(n - 1) |-> q[i]]
        BY <1>1, <4>1
      <4> HIDE DEF a
      <4>4. QED
        BY <1>1, <4>1, <4>2, <4>3
    <3>2. b \in Seq(Items)
      BY DEF Items
    <3>3. \A i \in 1..(n - 1) : q[i] \in Kinds
      BY <1>1, <2>1 DEF Items, Kinds
    <3>4. q = a \o b
      BY <1>1, <2>1, <3>1
    <3>5. QED
      BY <3>1, <3>2, <3>3, <3>4
  <2> HIDE DEF a
  <2>8. Only(a, Kinds) = a
    <3> DEFINE kept == {i \in 1..Len(a) : a[i] \in Kinds}
    <3>1. \A i \in 1..Len(a) : i \in kept
      BY <2>7
    <3> HIDE DEF kept
    <3>2. Picked(a, kept) = a
      BY <2>7, <3>1, PickedOfKept
    <3>3. QED
      BY <3>2 DEF kept, Only
  <2>9. Only(b, Kinds) = <<>>
    <3>1. \A i \in 1..Len(b) : b[i] \notin Kinds
      BY DEF Kinds
    <3>2. b \in Seq(Items)
      BY <2>7
    <3> HIDE DEF b
    <3>3. QED
      BY <3>1, <3>2, OnlyOfGone
  <2>10. Only(q, Kinds) = a
    <3>1. \A s \in Seq(Items) : s \o <<>> = s
      OBVIOUS
    <3> HIDE DEF b
    <3>2. Only(a \o b, Kinds) = Only(a, Kinds) \o Only(b, Kinds)
      BY <2>7, OnlyOfConcat
    <3>3. a \o <<>> = a
      BY <2>7, <3>1
    <3>4. QED
      BY <2>7, <2>8, <2>9, <3>2, <3>3
  <2>11. QED
    BY <1>3, <2>4, <2>6, <2>7, <2>10
<1>4. QED
  BY <1>2, <1>3

\* At most the sentinel, in a queue without clips.
LEMMA NoClips ==
  ASSUME NEW q, q = <<>> \/ q = <<"eof">>
  PROVE  q \in Seq(Items) /\ \A i \in 1..Len(q) : q[i] = "eof" /\ i = Len(q)
<1>1. CASE q = <<>>
  BY <1>1
<1>2. CASE q = <<"eof">>
  <2>1. q \in Seq(Items) /\ Len(q) = 1 /\ q[1] = "eof"
    BY <1>2 DEF Items
  <2>2. QED
    BY <2>1
<1>3. QED
  BY <1>1, <1>2

\* A clip more in the queue, from a play() that no close has waited for.
LEMMA EnqueueStep ==
  ASSUME PlayerInv, Clips!Enqueue, client # "idle"
  PROVE  /\ queue' \in Seq(Items) /\ pending' \in Int
         /\ \A i \in 1..Len(queue') : queue'[i] # "eof"
         /\ pending' = Len(Only(queue', Kinds)) + (IF clip # "none" THEN 1 ELSE 0)
<1>1. queue' = Append(queue, "new") /\ pending' = pending + 1
  BY DEF Clips!Enqueue
<1>2. queue \in Seq(Items) /\ pending \in Int
  BY DEF PlayerInv, PlayerType
<1>3. \A i \in 1..Len(queue) : queue[i] # "eof"
  BY DEF PlayerInv, CloserInv
<1>4. /\ queue' \in Seq(Items)
      /\ Len(Only(queue', Kinds)) = Len(Only(queue, Kinds)) + 1
  <2>1. "new" \in Items
    BY DEF Items
  <2>2. QED
    BY <1>1, <1>2, <2>1, WaitingOfAppend
<1>5. Only(queue, Kinds) \in Seq(Items)
  BY <1>2, PickedPlaces DEF Only
<1>6. \A i \in 1..Len(queue') : queue'[i] # "eof"
  <2>1. Len(queue') = Len(queue) + 1 /\ Len(queue) \in Nat
    BY <1>1, <1>2
  <2>2. ASSUME NEW i \in 1..Len(queue') PROVE queue'[i] # "eof"
    <3>1. CASE i = Len(queue) + 1
      BY <1>1, <1>2, <3>1
    <3>2. CASE i \in 1..Len(queue)
      BY <1>1, <1>2, <1>3, <3>2
    <3>3. QED
      BY <2>1, <3>1, <3>2
  <2>3. QED
    BY <2>2
<1>7. pending = Len(Only(queue, Kinds)) + (IF clip # "none" THEN 1 ELSE 0)
  BY DEF PlayerInv, PendingInv
<1>8. QED
  BY <1>1, <1>2, <1>4, <1>5, <1>6, <1>7

\* A stop leaves no clip in the queue, and no sink of the clip it was on.
LEMMA SilenceStep ==
  ASSUME PlayerInv, NEW after \in Seq(Items), Clips!Silence(after),
         \A i \in 1..Len(after) : after[i] = "eof"
  PROVE  /\ queue' = after /\ pending' \in Int
         /\ pending' = Len(Only(queue', Kinds)) + (IF clip' # "none" THEN 1 ELSE 0)
         /\ clip' \in {"none", "new", "old"} /\ (clip' = "none" <=> clip = "none")
         /\ sink' \in {"none", "dead"} /\ (sink' = "none" <=> sink = "none")
<1>1. /\ pending' = pending - Clips!Ahead(queue) /\ queue' = after
      /\ clip' = Clips!Outdated(clip)
      /\ sink' = IF sink = "running" THEN "dead" ELSE sink
  BY DEF Clips!Silence, Clips!Kill
<1>2. queue \in Seq(Items) /\ pending \in Int /\ clip \in {"none", "new", "old"}
      /\ sink \in {"none", "running", "dead"}
  BY DEF PlayerInv, PlayerType
<1>3. \A i \in 1..Len(queue) : queue[i] = "eof" => i = Len(queue)
  BY DEF PlayerInv, CloserInv
<1>4. Clips!Ahead(queue) = Len(Only(queue, Kinds))
  BY <1>2, <1>3, Silenced
<1>5. Only(queue, Kinds) \in Seq(Items)
  BY <1>2, PickedPlaces DEF Only
<1>6. Only(after, Kinds) = <<>>
  <2>1. \A i \in 1..Len(after) : after[i] \notin Kinds
    BY DEF Kinds
  <2>2. QED
    BY <2>1, OnlyOfGone
<1>7. pending = Len(Only(queue, Kinds)) + (IF clip # "none" THEN 1 ELSE 0)
  BY DEF PlayerInv, PendingInv
<1>8. clip' # "none" <=> clip # "none"
  BY <1>1, <1>2 DEF Clips!Outdated
<1>9. pending' = (IF clip' # "none" THEN 1 ELSE 0)
  <2>1. Len(Only(queue, Kinds)) \in Int
    BY <1>5
  <2> HIDE DEF Kinds
  <2>2. QED
    BY <1>1, <1>4, <1>7, <1>8, <2>1
<1>10. Len(Only(queue', Kinds)) = 0
  BY <1>1, <1>6
<1>11. QED
  BY <1>1, <1>2, <1>8, <1>9, <1>10 DEF Clips!Outdated

\* Every step of the player keeps it.
LEMMA PlayerStep == PlayerInv /\ [Clips!Next]_(Clips!vars) => PlayerInv'
<1> SUFFICES ASSUME PlayerInv, [Clips!Next]_(Clips!vars) PROVE PlayerInv'
  OBVIOUS
<1> USE DEF Clips!clientVars, Clips!workerVars
<1>a. PlayerType /\ WorkerInv /\ CloserInv /\ PendingInv
  BY DEF PlayerInv
<1>b. ASSUME queue' = queue, pending' = pending, clip' = clip
      PROVE  PendingInv' /\ queue' \in Seq(Items) /\ pending' \in Int
  BY <1>a, <1>b DEF PendingInv, PlayerType
<1>c. ASSUME PlayerType', WorkerInv', CloserInv', PendingInv' PROVE PlayerInv'
  BY <1>c DEF PlayerInv
<1>1. CASE Clips!Play
  <2>1. PendingInv'
    BY <1>1, <1>b DEF Clips!Play
  <2>2. PlayerType' /\ WorkerInv' /\ CloserInv'
    BY <1>1, <1>a DEF Clips!Play, PlayerType, WorkerInv, CloserInv
  <2>3. QED
    BY <1>c, <2>1, <2>2
<1>2. CASE Clips!PlayLocked
  <2>0. /\ client = "entered" /\ lock = "free"
        /\ UNCHANGED <<at, clip, sink, closing, closer, flagged, plays, stops>>
    BY <1>2 DEF Clips!PlayLocked
  <2>1. CASE worker # "none" /\ Clips!Enqueue /\ UNCHANGED <<lock, worker>>
    <3>1. /\ queue' \in Seq(Items) /\ pending' \in Int /\ client' = "idle"
          /\ \A i \in 1..Len(queue') : queue'[i] # "eof"
          /\ PendingInv'
      BY <2>0, <2>1, EnqueueStep DEF PendingInv, Clips!Enqueue
    <3>2. PlayerType' /\ WorkerInv' /\ CloserInv'
      BY <1>a, <2>0, <2>1, <3>1 DEF PlayerType, WorkerInv, CloserInv
    <3>3. QED
      BY <1>c, <3>1, <3>2
  <2>2. CASE worker = "none" /\ client' = "idle" /\ UNCHANGED <<queue, pending, lock, worker>>
    <3>1. PlayerType' /\ WorkerInv' /\ CloserInv'
      BY <1>a, <2>0, <2>2 DEF PlayerType, WorkerInv, CloserInv
    <3>2. QED
      BY <1>b, <1>c, <2>0, <2>2, <3>1
  <2>3. CASE /\ worker = "none" /\ ~closing
             /\ client' = "publishing" /\ lock' = "client" /\ worker' = "created"
             /\ UNCHANGED <<queue, pending>>
    <3>1. PlayerType' /\ WorkerInv' /\ CloserInv'
      BY <1>a, <2>0, <2>3 DEF PlayerType, WorkerInv, CloserInv
    <3>2. QED
      BY <1>b, <1>c, <2>0, <2>3, <3>1
  <2>4. QED
    BY <1>2, <2>1, <2>2, <2>3 DEF Clips!PlayLocked
<1>3. CASE Clips!StartWorker
  <2>0. /\ client = "publishing" /\ lock' = "free"
        /\ UNCHANGED <<at, clip, sink, closing, closer, flagged, plays, stops>>
    BY <1>3 DEF Clips!StartWorker
  <2>1. CASE ~closing /\ worker' = "running" /\ Clips!Enqueue
    <3>1. /\ queue' \in Seq(Items) /\ pending' \in Int /\ client' = "idle"
          /\ \A i \in 1..Len(queue') : queue'[i] # "eof"
          /\ PendingInv'
      BY <2>0, <2>1, EnqueueStep DEF PendingInv, Clips!Enqueue
    <3>2. PlayerType' /\ WorkerInv' /\ CloserInv'
      BY <1>a, <2>0, <2>1, <3>1 DEF PlayerType, WorkerInv, CloserInv
    <3>3. QED
      BY <1>c, <3>1, <3>2
  <2>2. CASE client' = "idle" /\ UNCHANGED <<queue, pending, worker>>
    <3>1. PlayerType' /\ WorkerInv' /\ CloserInv'
      BY <1>a, <2>0, <2>2 DEF PlayerType, WorkerInv, CloserInv
    <3>2. QED
      BY <1>b, <1>c, <2>0, <2>2, <3>1
  <2>3. QED
    BY <1>3, <2>1, <2>2 DEF Clips!StartWorker
<1>4. CASE Clips!Stop
  <2>1. /\ lock = "free" /\ Clips!Silence(Clips!Left(queue)) /\ stops' = stops + 1
        /\ UNCHANGED <<worker, at, lock, closing, closer, flagged, client, plays>>
    BY <1>4 DEF Clips!Stop
  <2>2. /\ Clips!Left(queue) \in Seq(Items)
        /\ \A i \in 1..Len(Clips!Left(queue)) :
             Clips!Left(queue)[i] = "eof" /\ i = Len(Clips!Left(queue))
        /\ Len(Clips!Left(queue)) > 0 => flagged
    <3>1. Clips!Left(queue) = IF \E i \in 1..Len(queue) : queue[i] = "eof" THEN <<"eof">> ELSE <<>>
      BY <1>a, Silenced DEF PlayerType, CloserInv
    <3> DEFINE left1 == Clips!Left(queue)
    <3>2. CASE \E i \in 1..Len(queue) : queue[i] = "eof"
      <4>1. flagged /\ left1 = <<"eof">>
        BY <1>a, <3>1, <3>2 DEF CloserInv
      <4> HIDE DEF left1
      <4>2. left1 \in Seq(Items) /\ \A i \in 1..Len(left1) : left1[i] = "eof" /\ i = Len(left1)
        BY <4>1, NoClips
      <4>3. QED
        BY <4>1, <4>2 DEF left1
    <3>3. CASE ~\E i \in 1..Len(queue) : queue[i] = "eof"
      BY <3>1, <3>3
    <3>4. QED
      BY <3>2, <3>3
  <2>3. /\ queue' = Clips!Left(queue) /\ pending' \in Int /\ PendingInv'
        /\ clip' \in {"none", "new", "old"} /\ (clip' = "none" <=> clip = "none")
        /\ sink' \in {"none", "dead"} /\ (sink' = "none" <=> sink = "none")
    BY <2>1, <2>2, SilenceStep DEF PendingInv
  <2>4. PlayerType' /\ WorkerInv' /\ CloserInv'
    BY <1>a, <2>1, <2>2, <2>3 DEF PlayerType, WorkerInv, CloserInv
  <2>5. QED
    BY <1>c, <2>3, <2>4
<1>5. CASE Clips!Get
  <2>0. /\ queue \in Seq(Items) /\ queue # <<>> /\ worker = "running" /\ at = "get"
        /\ queue' = Tail(queue) /\ clip = "none" /\ sink = "none" /\ lock # "worker"
        /\ UNCHANGED <<pending, sink, lock, closing, closer, flagged, client, plays, stops>>
    BY <1>5, <1>a DEF Clips!Get, PlayerType, WorkerInv
  <2>1. /\ queue' \in Seq(Items) /\ Head(queue) \in Items
        /\ Len(Only(queue, Kinds)) =
              Len(Only(queue', Kinds)) + (IF Head(queue) = "eof" THEN 0 ELSE 1)
    BY <2>0, WaitingOfHead
  <2>2. Only(queue', Kinds) \in Seq(Items)
    BY <2>1, PickedPlaces DEF Only
  <2>3. \A i \in 1..Len(queue') : queue'[i] = queue[i + 1] /\ i + 1 \in 1..Len(queue)
                                   /\ Len(queue) = Len(queue') + 1
    BY <2>0
  <2>4. \A i \in 1..Len(queue') : queue'[i] = "eof" => i = Len(queue') /\ flagged
    BY <1>a, <2>1, <2>3 DEF CloserInv
  <2>5. closer \in {"join", "closed"} => \A i \in 1..Len(queue') : queue'[i] = "eof"
    BY <1>a, <2>3 DEF CloserInv
  <2>6. CASE Head(queue) = "eof"
    <3>1. worker' = "ended" /\ at' = at /\ clip' = clip
      BY <1>5, <2>6 DEF Clips!Get
    <3>2. PendingInv'
      BY <1>a, <2>0, <2>1, <2>2, <2>6, <3>1 DEF PendingInv
    <3>3. PlayerType' /\ WorkerInv'
      BY <1>a, <2>0, <2>1, <3>1 DEF PlayerType, WorkerInv
    <3>4. CloserInv'
      BY <1>a, <2>0, <2>4, <2>5, <3>1 DEF CloserInv
    <3>5. QED
      BY <1>c, <3>2, <3>3, <3>4
  <2>7. CASE Head(queue) # "eof"
    <3>1. worker' = worker /\ at' = "enter" /\ clip' = Head(queue) /\ clip' \in {"new", "old"}
      BY <1>5, <2>1, <2>7 DEF Clips!Get, Items
    <3>2. PendingInv'
      BY <1>a, <2>0, <2>1, <2>2, <2>7, <3>1 DEF PendingInv
    <3>3. PlayerType' /\ WorkerInv'
      BY <1>a, <2>0, <2>1, <3>1 DEF PlayerType, WorkerInv
    <3>4. CloserInv'
      BY <1>a, <2>0, <2>4, <2>5, <3>1 DEF CloserInv
    <3>5. QED
      BY <1>c, <3>2, <3>3, <3>4
  <2>8. QED
    BY <2>6, <2>7
<1>6. CASE Clips!EnterClip \/ Clips!Launch \/ Clips!Published \/ Clips!SinkEnds \/ Clips!Reap
  <2>1. queue' = queue /\ pending' = pending /\ clip' = clip
    BY <1>6 DEF Clips!EnterClip, Clips!Launch, Clips!Published, Clips!SinkEnds, Clips!Reap
  <2>2. /\ UNCHANGED <<worker, closing, closer, flagged, client, plays, stops>>
        /\ at # "get"
    BY <1>6 DEF Clips!EnterClip, Clips!Launch, Clips!Published, Clips!SinkEnds, Clips!Reap
  <2>3. CloserInv'
    BY <1>a, <2>1, <2>2 DEF CloserInv
  <2>4. PlayerType' /\ WorkerInv'
    <3>1. CASE Clips!EnterClip
      BY <1>a, <2>1, <2>2, <3>1 DEF Clips!EnterClip, PlayerType, WorkerInv
    <3>2. CASE Clips!Launch
      BY <1>a, <2>1, <2>2, <3>2 DEF Clips!Launch, Clips!Outcomes, PlayerType, WorkerInv
    <3>3. CASE Clips!Published
      BY <1>a, <2>1, <2>2, <3>3 DEF Clips!Published, Clips!Kill, PlayerType, WorkerInv
    <3>4. CASE Clips!SinkEnds
      BY <1>a, <2>1, <2>2, <3>4 DEF Clips!SinkEnds, PlayerType, WorkerInv
    <3>5. CASE Clips!Reap
      BY <1>a, <2>1, <2>2, <3>5 DEF Clips!Reap, Clips!Outcomes, PlayerType, WorkerInv
    <3>6. QED
      BY <1>6, <3>1, <3>2, <3>3, <3>4, <3>5
  <2>5. QED
    BY <1>b, <1>c, <2>1, <2>3, <2>4
<1>7. CASE Clips!ClipDone
  <2>1. /\ at \in {"done", "dying"} /\ lock = "free" /\ clip' = "none" /\ at' = "get"
        /\ pending' = pending - 1 /\ queue' = queue
        /\ worker' = IF at = "dying" THEN "ended" ELSE worker
        /\ UNCHANGED <<sink, lock, closing, closer, flagged, client, plays, stops>>
    BY <1>7 DEF Clips!ClipDone
  <2>2. Only(queue, Kinds) \in Seq(Items)
    BY <1>a, PickedPlaces DEF Only, PlayerType
  <2>3. PendingInv'
    BY <1>a, <2>1, <2>2 DEF PendingInv, PlayerType, WorkerInv
  <2>4. PlayerType' /\ WorkerInv' /\ CloserInv'
    BY <1>a, <2>1 DEF PlayerType, WorkerInv, CloserInv
  <2>5. QED
    BY <1>c, <2>3, <2>4
<1>8. CASE Clips!CloseRequest
  <2>1. PlayerType' /\ WorkerInv' /\ CloserInv'
    BY <1>a, <1>8 DEF Clips!CloseRequest, Clips!Kill, PlayerType, WorkerInv, CloserInv
  <2>2. QED
    BY <1>8, <1>b, <1>c, <2>1 DEF Clips!CloseRequest
<1>9. CASE Clips!Drain
  <2>1. PlayerType' /\ WorkerInv' /\ CloserInv'
    BY <1>a, <1>9 DEF Clips!Drain, Clips!Users, PlayerType, WorkerInv, CloserInv
  <2>2. QED
    BY <1>9, <1>b, <1>c, <2>1 DEF Clips!Drain
<1>10. CASE Clips!CloseBody
  <2> DEFINE left1 == Clips!Left(queue)
             after == IF worker \in {"running", "ended"} /\ ~flagged
                      THEN Append(left1, "eof") ELSE left1
  <2>1. /\ closer = "body" /\ lock = "free" /\ flagged' = TRUE /\ closer' = "join"
        /\ Clips!Silence(after) /\ UNCHANGED <<worker, at, lock, closing, client, plays, stops>>
    BY <1>10 DEF Clips!CloseBody
  <2>2. after = <<>> \/ after = <<"eof">>
    <3>1. left1 = IF \E i \in 1..Len(queue) : queue[i] = "eof" THEN <<"eof">> ELSE <<>>
      BY <1>a, Silenced DEF PlayerType, CloserInv
    <3>2. ~flagged => left1 = <<>>
      BY <1>a, <3>1 DEF CloserInv
    <3> HIDE DEF left1
    <3>3. Append(<<>>, "eof") = <<"eof">>
      OBVIOUS
    <3>4. QED
      BY <3>1, <3>2, <3>3
  <2> HIDE DEF after
  <2>3. /\ after \in Seq(Items)
        /\ \A i \in 1..Len(after) : after[i] = "eof" /\ i = Len(after)
    BY <2>2, NoClips
  <2>4. /\ queue' = after /\ pending' \in Int /\ PendingInv'
        /\ clip' \in {"none", "new", "old"} /\ (clip' = "none" <=> clip = "none")
        /\ sink' \in {"none", "dead"} /\ (sink' = "none" <=> sink = "none")
    BY <2>1, <2>3, SilenceStep DEF PendingInv
  <2>5. PlayerType' /\ WorkerInv' /\ CloserInv'
    BY <1>a, <2>1, <2>3, <2>4 DEF PlayerType, WorkerInv, CloserInv
  <2>6. QED
    BY <1>c, <2>4, <2>5
<1>11. CASE Clips!Join
  <2>1. PlayerType' /\ WorkerInv' /\ CloserInv'
    BY <1>a, <1>11 DEF Clips!Join, PlayerType, WorkerInv, CloserInv
  <2>2. QED
    BY <1>11, <1>b, <1>c, <2>1 DEF Clips!Join
<1>12. CASE UNCHANGED Clips!vars
  <2>1. PlayerType' /\ WorkerInv' /\ CloserInv'
    BY <1>a, <1>12 DEF Clips!vars, PlayerType, WorkerInv, CloserInv
  <2>2. QED
    BY <1>12, <1>b, <1>c, <2>1 DEF Clips!vars
<1>13. QED
  BY <1>1, <1>2, <1>3, <1>4, <1>5, <1>6, <1>7, <1>8, <1>9, <1>10, <1>11, <1>12
     DEF Clips!Next, Clips!Worker, Clips!Closing

\* After a stop no sink of an older clip sounds, what the player says is pending is
\* what waits and what it plays, and closed it has nothing left, however many clips
\* are played and stopped, by whatever threads.
THEOREM PlayerSafe == Spec => []PlayerIsTrue
<1>1. Init => PlayerInv
  BY PlayerStart DEF Init
<1>2. PlayerInv /\ [Next]_vars => PlayerInv'
  <2> SUFFICES ASSUME PlayerInv, [Next]_vars PROVE PlayerInv'
    OBVIOUS
  <2>1. CASE Clips!Next
    BY <2>1, PlayerStep
  <2>2. CASE UNCHANGED playerVars
    BY <2>2, PlayerStep DEF playerVars, Clips!vars, Clips!clientVars, Clips!workerVars
  <2>3. QED
    BY <2>1, <2>2 DEF Next, vars
<1>3. PlayerInv => PlayerIsTrue
  <2> SUFFICES ASSUME PlayerInv PROVE PlayerIsTrue
    OBVIOUS
  <2>1. Clips!SilentAfterStop
    BY DEF PlayerInv, WorkerInv, Clips!SilentAfterStop
  <2>2. Clips!Clips(queue) = Only(queue, Kinds)
    BY DEF Clips!Clips, Clips!Only, Clips!Picked, Only, Picked, Kinds
  <2>3. Clips!PendingIsExact
    BY <2>2 DEF PlayerInv, PendingInv, Clips!PendingIsExact
  <2>4. closer = "closed" => Only(queue, Kinds) = <<>>
    <3>1. SUFFICES ASSUME closer = "closed" PROVE Only(queue, Kinds) = <<>>
      OBVIOUS
    <3>2. queue \in Seq(Items) /\ \A i \in 1..Len(queue) : queue[i] \notin Kinds
      BY <3>1 DEF PlayerInv, PlayerType, CloserInv, Kinds
    <3>3. QED
      BY <3>2, OnlyOfGone
  <2>5. closer = "closed" => worker = "none" /\ sink = "none"
    BY DEF PlayerInv, PlayerType, WorkerInv, CloserInv
  <2>6. QED
    BY <2>1, <2>2, <2>3, <2>4, <2>5 DEF PlayerIsTrue, Clips!ClosedIsSilent
<1>4. QED
  BY <1>1, <1>2, <1>3, ReadingSteps, PTL

-----------------------------------------------------------------------------
(* Owned turns (OwnedTurns).                                               *)

Entries == [key : Owned!Keys, sig : Signatures, turn : 0..MaxTurns]
TurnRecords ==
  [owner : Owners \cup {Owned!Legacy}, key : Owned!Keys \cup {<<>>}, volume : BOOLEAN,
   pc : {"none", "run", "left", "settled", "done"}, end : {Owned!NoEnd, "superseded", "expired"},
   why : {"none", "cancelled", "deadline"},
   ended : {"none", "stop", "replaced", "silence", "deadline"},
   outcome : {"none", "completed", "cancelled", "deadline", "failed"}]
Preparing == [stage : {"prepare"}, key : Owned!Keys, sig : Signatures, turn : Owned!Turns]

OwnedType ==
  /\ instance \in Nat /\ number \in Nat
  /\ entries \in Seq(Entries)
  /\ turn \in [Owned!Turns -> TurnRecords]
  /\ speech \in 0..MaxTurns
  /\ op = Owned!NoOp \/ op \in Preparing

\* A result is the only one of its utterance.
OnceEach == \A i, j \in 1..Len(entries) : entries[i].key = entries[j].key => i = j

\* While an engine is prepared nobody speaks, its utterance has no result, and its
\* turn is as it was before it was numbered; so is every turn not yet numbered.
FreshInv ==
  /\ \A t \in Owned!Turns : t > number => turn[t] = Owned!NoSuchTurn
  /\ op # Owned!NoOp =>
       /\ speech = 0 /\ op.turn <= number /\ turn[op.turn] = Owned!NoSuchTurn
       /\ \A i \in 1..Len(entries) : entries[i].key # op.key

\* The turn that is current has a result, and a token is of the turn it names.
OwnersInv ==
  /\ speech # 0 /\ turn[speech].owner # Owned!Legacy =>
       \E i \in 1..Len(entries) : entries[i].turn = speech /\ entries[i].key = turn[speech].key
  /\ \A g \in given :
       /\ g \in [key : Owned!Keys, token : Nat \X Owned!Turns]
       /\ g.token[1] <= instance
       /\ g.token[1] = instance => turn[g.token[2]].key = g.key

OwnedInv == OwnedType /\ OnceEach /\ FreshInv /\ OwnersInv

\* A turn that there is not has a record.
LEMMA NoSuchTurnType == Owned!NoSuchTurn \in TurnRecords
BY DEF Owned!NoSuchTurn, TurnRecords

\* No utterance goes by the name of a turn that there is not.
LEMMA NoKey ==
  ASSUME NEW key \in Owned!Keys
  PROVE  key # Owned!NoSuchTurn.key
<1>1. PICK owner \in Owners, utterance \in Utterances : key = <<owner, utterance>>
  BY DEF Owned!Keys
<1>2. Len(key) = 2
  BY <1>1
<1> DEFINE none == <<>>
<1>3. Len(none) = 0
  OBVIOUS
<1>4. Owned!NoSuchTurn.key = none
  BY DEF Owned!NoSuchTurn
<1> HIDE DEF none
<1>5. QED
  BY <1>2, <1>3, <1>4

\* The parts of the record of a turn that there is not.
LEMMA NoSuchParts ==
  /\ Owned!NoSuchTurn.owner = Owned!Legacy /\ Owned!NoSuchTurn.end = Owned!NoEnd
  /\ Owned!NoSuchTurn.pc = "none"
BY DEF Owned!NoSuchTurn

\* The record of a legacy turn as its worker starts.
LEMMA RunningType ==
  LET r == [Owned!NoSuchTurn EXCEPT !.pc = "run"]
  IN  r \in TurnRecords /\ r.owner = Owned!Legacy /\ r.key = Owned!NoSuchTurn.key
<1>0. PICK r : r = [Owned!NoSuchTurn EXCEPT !.pc = "run"]
  OBVIOUS
<1>1. PICK b : b = Owned!NoSuchTurn
  OBVIOUS
<1>2. b \in TurnRecords
  BY <1>1, NoSuchTurnType
<1>3. r = [owner |-> b.owner, key |-> b.key, volume |-> b.volume, pc |-> "run", end |-> b.end,
           why |-> b.why, ended |-> b.ended, outcome |-> b.outcome]
  BY <1>0, <1>1, <1>2 DEF TurnRecords
<1>4. /\ b.owner \in Owners \cup {Owned!Legacy} /\ b.key \in Owned!Keys \cup {<<>>}
      /\ b.volume \in BOOLEAN /\ b.end \in {Owned!NoEnd, "superseded", "expired"}
      /\ b.why \in {"none", "cancelled", "deadline"}
      /\ b.ended \in {"none", "stop", "replaced", "silence", "deadline"}
      /\ b.outcome \in {"none", "completed", "cancelled", "deadline", "failed"}
  BY <1>2 DEF TurnRecords
<1>5. r \in TurnRecords
  BY <1>3, <1>4 DEF TurnRecords
<1>6. QED
  BY <1>0, <1>1, <1>3, <1>5, NoSuchParts

\* A daemon begins with it.
LEMMA OwnedStart == Owned!Init => OwnedInv
<1> SUFFICES ASSUME Owned!Init PROVE OwnedInv
  OBVIOUS
<1>1. entries \in Seq(Entries) /\ Len(entries) = 0
  BY DEF Owned!Init
<1>2. MaxTurns \in Nat
  BY ReadingAssumption
<1>3. QED
  BY <1>1, <1>2, NoSuchTurnType
     DEF Owned!Init, OwnedInv, OwnedType, OnceEach, FreshInv, OwnersInv, Owned!NoTurn

\* What is kept of the results, with one more: the newest ones, in order.
LEMMA KeepKeeps ==
  ASSUME entries \in Seq(Entries), NEW e \in Entries, OnceEach,
         \A i \in 1..Len(entries) : entries[i].key # e.key,
         NEW q, q = Owned!Keep(e)
  PROVE  /\ q \in Seq(Entries) /\ Len(q) > 0 /\ q[Len(q)] = e
         /\ \A i, j \in 1..Len(q) : q[i].key = q[j].key => i = j
         /\ \A i \in 1..Len(q) : q[i] = e \/ \E j \in 1..Len(entries) : q[i] = entries[j]
<1> DEFINE all == Append(entries, e)
           first == IF Len(all) > Kept THEN Len(all) - Kept + 1 ELSE 1
<1>1. /\ all \in Seq(Entries) /\ Len(all) \in Nat /\ Len(all) = Len(entries) + 1
      /\ all[Len(all)] = e /\ \A i \in 1..Len(entries) : all[i] = entries[i]
      /\ Len(entries) \in Nat
  OBVIOUS
<1>2. first \in 1..Len(all)
  <2>1. Kept \in Nat /\ Kept > 0
    BY ReadingAssumption
  <2>2. Len(all) \in Nat /\ Len(all) > 0
    BY <1>1
  <2> HIDE DEF all
  <2>3. QED
    BY <2>1, <2>2
<1>3. q = SubSeq(all, first, Len(all))
  BY DEF Owned!Keep
<1> HIDE DEF all, first
<1>4. /\ q \in Seq(Entries) /\ Len(q) = Len(all) - first + 1 /\ Len(q) \in Nat
      /\ \A i \in 1..Len(q) : q[i] = all[first + i - 1]
  BY <1>1, <1>2, <1>3
<1>5. \A i \in 1..Len(q) : first + i - 1 \in 1..Len(all)
  BY <1>1, <1>2, <1>4
<1>6. \A i, j \in 1..Len(all) : all[i].key = all[j].key => i = j
  BY <1>1 DEF OnceEach
<1>7. \A i, j \in 1..Len(q) : q[i].key = q[j].key => i = j
  <2>1. SUFFICES ASSUME NEW i \in 1..Len(q), NEW j \in 1..Len(q), q[i].key = q[j].key
                 PROVE  i = j
    OBVIOUS
  <2>2. first + i - 1 = first + j - 1
    BY <1>4, <1>5, <1>6, <2>1
  <2>3. QED
    BY <1>2, <1>4, <2>2
<1>8. Len(q) > 0 /\ q[Len(q)] = e
  <2>1. Len(q) \in 1..Len(q) /\ first + Len(q) - 1 = Len(all)
    BY <1>1, <1>2, <1>4
  <2>2. QED
    BY <1>1, <1>4, <2>1
<1>9. \A i \in 1..Len(q) : q[i] = e \/ \E j \in 1..Len(entries) : q[i] = entries[j]
  <2>1. \A k \in 1..Len(all) : k \in 1..Len(entries) \/ k = Len(all)
    BY <1>1
  <2>2. QED
    BY <1>1, <1>4, <1>5, <2>1
<1>10. QED
  BY <1>4, <1>7, <1>8, <1>9

\* An utterance that has no entry was not asked for before.
LEMMA NoEntry ==
  ASSUME entries \in Seq(Entries), NEW key, Owned!Entry(key) = <<>>
  PROVE  \A i \in 1..Len(entries) : entries[i].key # key
<1> DEFINE kept == {i \in DOMAIN entries : entries[i].key = key}
<1>1. DOMAIN entries = 1..Len(entries)
  OBVIOUS
<1>2. Picked(entries, kept) = <<>>
  BY DEF Owned!Entry, Owned!Picked, Picked
<1>3. \E m : ComesFrom(Picked(entries, kept), entries, kept, Len(entries), m)
  BY PickedPlaces
<1> DEFINE none == <<>>
<1>4. 1..Len(none) = {}
  OBVIOUS
<1> HIDE DEF none, kept
<1>5. PICK m : ComesFrom(none, entries, kept, Len(entries), m)
  BY <1>2, <1>3 DEF none
<1>6. \A i \in kept \cap (1..Len(entries)) : FALSE
  BY <1>4, <1>5 DEF ComesFrom
<1>7. QED
  BY <1>1, <1>6 DEF kept

\* Stopping a turn changes neither whose it is nor what it speaks.
LEMMA StoppedKeeps ==
  ASSUME NEW r \in TurnRecords, NEW cause \in {"stop", "replaced", "silence"},
         NEW end \in {Owned!NoEnd, "superseded", "expired"}
  PROVE  /\ Owned!Stopped(r, cause) \in TurnRecords
         /\ Owned!Stopped(r, cause).owner = r.owner /\ Owned!Stopped(r, cause).key = r.key
         /\ Owned!Marked(r, end) \in TurnRecords
         /\ Owned!Marked(r, end).owner = r.owner /\ Owned!Marked(r, end).key = r.key
         /\ r.owner = Owned!Legacy => Owned!Stopped(r, cause) = r /\ Owned!Marked(r, end) = r
<1>1. PICK s : s = Owned!Stopped(r, cause)
  OBVIOUS
<1>2. PICK m : m = Owned!Marked(r, end)
  OBVIOUS
<1>3. /\ r.owner \in Owners \cup {Owned!Legacy} /\ r.key \in Owned!Keys \cup {<<>>} /\ r.volume \in BOOLEAN
      /\ r.pc \in {"none", "run", "left", "settled", "done"}
      /\ r.end \in {Owned!NoEnd, "superseded", "expired"}
      /\ r.why \in {"none", "cancelled", "deadline"}
      /\ r.ended \in {"none", "stop", "replaced", "silence", "deadline"}
      /\ r.outcome \in {"none", "completed", "cancelled", "deadline", "failed"}
  BY DEF TurnRecords
<1>4. CASE r.owner = Owned!Legacy
  BY <1>4 DEF Owned!Stopped, Owned!Marked
<1>5. CASE r.owner # Owned!Legacy
  <2> DEFINE why == IF r.why = "none" THEN "cancelled" ELSE r.why
             ended == IF r.ended = "none" THEN cause ELSE r.ended
  <2>1. why \in {"none", "cancelled", "deadline"}
        /\ ended \in {"none", "stop", "replaced", "silence", "deadline"}
    BY <1>3
  <2>2. s = [r EXCEPT !.why = why, !.ended = ended]
    BY <1>1, <1>5 DEF Owned!Stopped
  <2> HIDE DEF why, ended
  <2>3. s = [owner |-> r.owner, key |-> r.key, volume |-> r.volume, pc |-> r.pc, end |-> r.end,
             why |-> why, ended |-> ended, outcome |-> r.outcome]
    BY <2>2 DEF TurnRecords
  <2>4. s \in TurnRecords /\ s.owner = r.owner /\ s.key = r.key
    <3>1. s.owner = r.owner /\ s.key = r.key
      BY <2>3
    <3> DEFINE whys == {"none", "cancelled", "deadline"}
               ends == {"none", "stop", "replaced", "silence", "deadline"}
    <3>a. why \in whys /\ ended \in ends
      BY <2>1
    <3> HIDE DEF whys, ends
    <3>b. s \in [owner : Owners \cup {Owned!Legacy}, key : Owned!Keys \cup {<<>>}, volume : BOOLEAN,
                pc : {"none", "run", "left", "settled", "done"},
                end : {Owned!NoEnd, "superseded", "expired"}, why : whys, ended : ends,
                outcome : {"none", "completed", "cancelled", "deadline", "failed"}]
      BY <1>3, <2>3, <3>a
    <3>2. s \in TurnRecords
      BY <3>b DEF TurnRecords, whys, ends
    <3>3. QED
      BY <3>1, <3>2
  <2>5. m = r \/ m = [r EXCEPT !.end = end]
    BY <1>2 DEF Owned!Marked
  <2>6. m = [r EXCEPT !.end = end] =>
          m = [owner |-> r.owner, key |-> r.key, volume |-> r.volume, pc |-> r.pc, end |-> end,
               why |-> r.why, ended |-> r.ended, outcome |-> r.outcome]
    BY DEF TurnRecords
  <2>7. m \in TurnRecords /\ m.owner = r.owner /\ m.key = r.key
    BY <1>3, <2>5, <2>6 DEF TurnRecords
  <2>8. QED
    BY <1>1, <1>2, <1>5, <2>4, <2>7
<1>6. QED
  BY <1>4, <1>5

\* The record of an owned turn as it claims, whichever way that goes.
LEMMA ClaimedType ==
  ASSUME NEW key \in Owned!Keys, NEW volume \in BOOLEAN,
         NEW how \in {"starts", "cleanup", "thread"}
  PROVE  LET claimed == [Owned!NoSuchTurn EXCEPT !.owner = key[1], !.key = key,
                                                 !.volume = volume]
             r == CASE how = "starts"  -> [claimed EXCEPT !.pc = "run"]
                    [] how = "cleanup" -> claimed
                    [] how = "thread"  -> Owned!Stopped(claimed, "stop")
         IN  r \in TurnRecords /\ r.key = key
<1>1. PICK b : b = Owned!NoSuchTurn
  OBVIOUS
<1>2. b \in TurnRecords
  BY <1>1, NoSuchTurnType
<1>3. PICK claimed : claimed = [b EXCEPT !.owner = key[1], !.key = key, !.volume = volume]
  OBVIOUS
<1>4. PICK running : running = [claimed EXCEPT !.pc = "run"]
  OBVIOUS
<1>5. key[1] \in Owners
  BY DEF Owned!Keys
<1>6. /\ b.pc \in {"none", "run", "left", "settled", "done"}
      /\ b.end \in {Owned!NoEnd, "superseded", "expired"}
      /\ b.why \in {"none", "cancelled", "deadline"}
      /\ b.ended \in {"none", "stop", "replaced", "silence", "deadline"}
      /\ b.outcome \in {"none", "completed", "cancelled", "deadline", "failed"}
  BY <1>2 DEF TurnRecords
<1>7. claimed = [owner |-> key[1], key |-> key, volume |-> volume, pc |-> b.pc, end |-> b.end,
                 why |-> b.why, ended |-> b.ended, outcome |-> b.outcome]
  BY <1>2, <1>3 DEF TurnRecords
<1>8. claimed \in TurnRecords /\ claimed.key = key
  BY <1>5, <1>6, <1>7 DEF TurnRecords
<1>9. running = [owner |-> key[1], key |-> key, volume |-> volume, pc |-> "run", end |-> b.end,
                 why |-> b.why, ended |-> b.ended, outcome |-> b.outcome]
  BY <1>4, <1>7
<1>10. running \in TurnRecords /\ running.key = key
  BY <1>5, <1>6, <1>9 DEF TurnRecords
<1>11. PICK stopped : stopped = Owned!Stopped(claimed, "stop")
  OBVIOUS
<1>12. stopped \in TurnRecords /\ stopped.key = key
  BY <1>8, <1>11, StoppedKeeps
<1>13. claimed = [Owned!NoSuchTurn EXCEPT !.owner = key[1], !.key = key, !.volume = volume]
  BY <1>1, <1>3
<1>14. QED
  BY <1>4, <1>8, <1>10, <1>11, <1>12, <1>13, Zenon

\* What a step may make of the turns there are: whose they are stays, and so does
\* one that nobody has.
SameTurns(turns) ==
  /\ turns \in [Owned!Turns -> TurnRecords]
  /\ \A t \in Owned!Turns :
       /\ turns[t].owner = turn[t].owner /\ turns[t].key = turn[t].key
       /\ turn[t] = Owned!NoSuchTurn => turns[t] = Owned!NoSuchTurn

\* The current turn is cancelled.
LEMMA CancelledKeeps ==
  ASSUME OwnedInv, NEW cause \in {"stop", "replaced", "silence"},
         NEW end \in {Owned!NoEnd, "superseded", "expired"}
  PROVE  SameTurns(Owned!Cancelled(turn, cause, end))
<1>1. turn \in [Owned!Turns -> TurnRecords] /\ speech \in 0..MaxTurns /\ MaxTurns \in Nat
  BY ReadingAssumption DEF OwnedInv, OwnedType
<1>2. CASE speech = 0
  BY <1>1, <1>2 DEF Owned!Cancelled, Owned!NoTurn, SameTurns
<1>3. CASE speech # 0
  <2>1. speech \in Owned!Turns
    <3>1. ASSUME NEW n \in Nat, NEW t \in 0..n, t # 0 PROVE t \in 1..n
      BY <3>1
    <3>2. QED
      BY <1>1, <1>3, <3>1, Zenon DEF Owned!Turns
  <2>2. PICK m : m = Owned!Marked(turn[speech], end)
    OBVIOUS
  <2>3. PICK s : s = Owned!Stopped(m, cause)
    OBVIOUS
  <2>4. /\ m \in TurnRecords /\ m.owner = turn[speech].owner /\ m.key = turn[speech].key
        /\ turn[speech].owner = Owned!Legacy => m = turn[speech]
    BY <1>1, <2>1, <2>2, StoppedKeeps
  <2>5. /\ s \in TurnRecords /\ s.owner = m.owner /\ s.key = m.key
        /\ m.owner = Owned!Legacy => s = m
    BY <2>3, <2>4, StoppedKeeps
  <2>6. Owned!Cancelled(turn, cause, end) = [turn EXCEPT ![speech] = s]
    BY <1>3, <2>2, <2>3 DEF Owned!Cancelled, Owned!NoTurn
  <2>7. Owned!NoSuchTurn.owner = Owned!Legacy
    BY DEF Owned!NoSuchTurn
  <2>8. QED
    BY <1>1, <2>1, <2>4, <2>5, <2>6, <2>7 DEF SameTurns
<1>4. QED
  BY <1>2, <1>3

\* A step that leaves the results and the tokens alone.
LEMMA TurnsKept ==
  ASSUME OwnedInv, SameTurns(turn'), number' = number, entries' = entries, given' = given,
         instance' = instance, speech' = speech \/ speech' = 0, op' = op \/ op' = Owned!NoOp
  PROVE  OwnedInv'
<1>1. OwnedType /\ OnceEach /\ FreshInv /\ OwnersInv
  BY DEF OwnedInv
<1>2. /\ turn' \in [Owned!Turns -> TurnRecords]
      /\ \A t \in Owned!Turns :
           /\ turn'[t].owner = turn[t].owner /\ turn'[t].key = turn[t].key
           /\ turn[t] = Owned!NoSuchTurn => turn'[t] = Owned!NoSuchTurn
  BY DEF SameTurns
<1>3. MaxTurns \in Nat
  BY ReadingAssumption
<1>4. OwnedType' /\ OnceEach'
  BY <1>1, <1>2, <1>3 DEF OwnedType, OnceEach
<1>5. FreshInv'
  <2>1. op # Owned!NoOp => op.turn \in Owned!Turns
    BY <1>1 DEF OwnedType, Preparing
  <2>2. QED
    BY <1>1, <1>2, <2>1 DEF FreshInv
<1>6. OwnersInv'
  <2>1. speech' # 0 => speech' = speech /\ speech \in Owned!Turns
    BY <1>1, <1>3 DEF OwnedType, Owned!Turns
  <2>2. ASSUME NEW g \in given
        PROVE  g.token[2] \in Owned!Turns
    BY <1>1, <2>2 DEF OwnersInv
  <2>3. QED
    BY <1>1, <1>2, <2>1, <2>2 DEF OwnersInv
<1>7. QED
  BY <1>4, <1>5, <1>6 DEF OwnedInv

\* A turn's own worker, or its deadline.
LEMMA WorkerKeeps ==
  ASSUME OwnedInv, NEW t \in Owned!Turns,
         \/ Owned!Deadline(t) \/ Owned!Leave(t) \/ Owned!Return(t)
         \/ \E failure \in {"none", "failed", "deadline"} : Owned!Settle(t, failure)
  PROVE  SameTurns(turn')
<1>1. turn \in [Owned!Turns -> TurnRecords]
  BY DEF OwnedInv, OwnedType
<1>2. PICK r : r = turn[t]
  OBVIOUS
<1>3. r \in TurnRecords
  BY <1>1, <1>2
<1>4. /\ r.owner \in Owners \cup {Owned!Legacy} /\ r.key \in Owned!Keys \cup {<<>>} /\ r.volume \in BOOLEAN
      /\ r.pc \in {"none", "run", "left", "settled", "done"}
      /\ r.end \in {Owned!NoEnd, "superseded", "expired"}
      /\ r.why \in {"none", "cancelled", "deadline"}
      /\ r.ended \in {"none", "stop", "replaced", "silence", "deadline"}
      /\ r.outcome \in {"none", "completed", "cancelled", "deadline", "failed"}
  BY <1>3 DEF TurnRecords
<1>5. Owned!NoSuchTurn.pc = "none"
  BY DEF Owned!NoSuchTurn
<1>6. ASSUME NEW s \in TurnRecords, s.owner = r.owner, s.key = r.key, r.pc # "none",
             turn' = [turn EXCEPT ![t] = s]
      PROVE  SameTurns(turn')
  BY <1>1, <1>2, <1>5, <1>6 DEF SameTurns
<1>7. CASE Owned!Deadline(t)
  <2>1. PICK s : s = [r EXCEPT !.why = "deadline", !.ended = "deadline"]
    OBVIOUS
  <2>2. s = [owner |-> r.owner, key |-> r.key, volume |-> r.volume, pc |-> r.pc, end |-> r.end,
             why |-> "deadline", ended |-> "deadline", outcome |-> r.outcome]
    BY <1>3, <2>1 DEF TurnRecords
  <2>3. s \in TurnRecords /\ s.owner = r.owner /\ s.key = r.key
    BY <1>4, <2>2 DEF TurnRecords
  <2>4. turn' = [turn EXCEPT ![t] = s] /\ r.pc # "none"
    BY <1>1, <1>2, <1>7, <2>1 DEF Owned!Deadline
  <2>5. QED
    BY <1>6, <2>3, <2>4
<1>8. ASSUME NEW pc \in {"left", "done"}, r.pc # "none", turn' = [turn EXCEPT ![t].pc = pc]
      PROVE  SameTurns(turn')
  <2>1. PICK s : s = [r EXCEPT !.pc = pc]
    OBVIOUS
  <2>2. s = [owner |-> r.owner, key |-> r.key, volume |-> r.volume, pc |-> pc, end |-> r.end,
             why |-> r.why, ended |-> r.ended, outcome |-> r.outcome]
    BY <1>3, <2>1 DEF TurnRecords
  <2>3. s \in TurnRecords /\ s.owner = r.owner /\ s.key = r.key
    BY <1>4, <2>2 DEF TurnRecords
  <2>4. turn' = [turn EXCEPT ![t] = s]
    BY <1>1, <1>2, <1>8, <2>1
  <2>5. QED
    BY <1>6, <1>8, <2>3, <2>4
<1>9. CASE Owned!Leave(t) \/ Owned!Return(t)
  BY <1>2, <1>8, <1>9 DEF Owned!Leave, Owned!Return
<1>10. CASE \E failure \in {"none", "failed", "deadline"} : Owned!Settle(t, failure)
  <2>1. PICK failure \in {"none", "failed", "deadline"} : Owned!Settle(t, failure)
    BY <1>10
  <2> DEFINE outcome == IF failure # "none" THEN failure
                        ELSE IF turn[t].why = "none" THEN "completed" ELSE turn[t].why
  <2>2. outcome \in {"none", "completed", "cancelled", "deadline", "failed"}
    BY <1>2, <1>4, <2>1
  <2>3. turn' = [turn EXCEPT ![t].pc = "settled", ![t].outcome = outcome] /\ r.pc # "none"
    BY <1>2, <2>1 DEF Owned!Settle
  <2> HIDE DEF outcome
  <2>4. PICK s : s = [r EXCEPT !.pc = "settled", !.outcome = outcome]
    OBVIOUS
  <2>5. s = [owner |-> r.owner, key |-> r.key, volume |-> r.volume, pc |-> "settled",
             end |-> r.end, why |-> r.why, ended |-> r.ended, outcome |-> outcome]
    BY <1>3, <2>4 DEF TurnRecords
  <2>6. s \in TurnRecords /\ s.owner = r.owner /\ s.key = r.key
    BY <1>4, <2>2, <2>5 DEF TurnRecords
  <2>7. turn' = [turn EXCEPT ![t] = s]
    BY <1>1, <1>2, <2>3, <2>4
  <2>8. QED
    BY <1>6, <2>3, <2>6, <2>7
<1>11. QED
  BY <1>7, <1>9, <1>10

\* Every step of the daemon and of its clients keeps it.
LEMMA OwnedStep == OwnedInv /\ [Owned!Next]_(Owned!vars) => OwnedInv'
<1> SUFFICES ASSUME OwnedInv, [Owned!Next]_(Owned!vars) PROVE OwnedInv'
  OBVIOUS
<1>a. OwnedType /\ OnceEach /\ FreshInv /\ OwnersInv
  BY DEF OwnedInv
<1>b. MaxTurns \in Nat
  BY ReadingAssumption
<1>c. \A n \in Nat : n < MaxTurns => n + 1 \in Owned!Turns
  BY <1>b DEF Owned!Turns
<1>d. SameTurns(turn)
  BY <1>a DEF SameTurns, OwnedType
<1>1. ASSUME NEW key \in Owned!Keys, NEW sig \in Signatures, Owned!Ask(key, sig)
      PROVE  OwnedInv'
  <2>1. /\ op = Owned!NoOp /\ speech = 0 /\ number < MaxTurns /\ number' = number + 1
        /\ op' = [stage |-> "prepare", key |-> key, sig |-> sig, turn |-> number + 1]
        /\ Owned!Entry(key) = <<>>
        /\ UNCHANGED <<instance, entries, turn, speech, given>>
    BY <1>1 DEF Owned!Ask, Owned!Idle, Owned!Busy, Owned!NoTurn
  <2>2. number + 1 \in Owned!Turns
    BY <1>a, <1>c, <2>1 DEF OwnedType
  <2>3. \A i \in 1..Len(entries) : entries[i].key # key
    BY <1>a, <2>1, NoEntry DEF OwnedType
  <2>4. op' \in Preparing
    BY <2>1, <2>2 DEF Preparing
  <2>5. OwnedType' /\ OnceEach'
    BY <1>a, <2>1, <2>4 DEF OwnedType, OnceEach
  <2>6. FreshInv'
    <3>1. \A t \in Owned!Turns : t > number' => turn'[t] = Owned!NoSuchTurn
      BY <1>a, <1>b, <2>1 DEF OwnedType, FreshInv, Owned!Turns
    <3>2. turn[number + 1] = Owned!NoSuchTurn
      BY <1>a, <2>2 DEF OwnedType, FreshInv
    <3>3. op'.turn = number + 1 /\ op'.key = key /\ op'.turn <= number'
      BY <1>a, <2>1 DEF OwnedType
    <3>4. QED
      BY <2>1, <2>3, <3>1, <3>2, <3>3 DEF FreshInv
  <2>7. OwnersInv'
    BY <1>a, <2>1 DEF OwnersInv
  <2>8. QED
    BY <2>5, <2>6, <2>7 DEF OwnedInv
<1>2. CASE Owned!PrepareFails
  BY <1>2, <1>d, TurnsKept DEF Owned!PrepareFails
<1>3. CASE Owned!NothingToSay
  <2> DEFINE e == [key |-> op.key, sig |-> op.sig, turn |-> 0]
  <2>1. /\ op # Owned!NoOp /\ number' = number + 1 /\ op' = Owned!NoOp
        /\ entries' = Owned!Keep(e)
        /\ UNCHANGED <<instance, turn, speech, given>>
    BY <1>3 DEF Owned!NothingToSay, Owned!Idle, Owned!NoTurn
  <2>2. op \in Preparing /\ speech = 0 /\ \A i \in 1..Len(entries) : entries[i].key # op.key
    BY <1>a, <2>1 DEF OwnedType, FreshInv
  <2>3. e \in Entries /\ e.key = op.key
    BY <1>b, <2>2 DEF Preparing, Entries
  <2> HIDE DEF e
  <2>4. /\ entries' \in Seq(Entries)
        /\ \A i, j \in 1..Len(entries') : entries'[i].key = entries'[j].key => i = j
    BY <1>a, <2>1, <2>2, <2>3, KeepKeeps DEF OwnedType
  <2>5. OwnedType' /\ OnceEach'
    BY <1>a, <2>1, <2>4 DEF OwnedType, OnceEach
  <2>6. FreshInv'
    BY <1>a, <1>b, <2>1 DEF OwnedType, FreshInv, Owned!Turns
  <2>7. OwnersInv'
    BY <1>a, <2>1, <2>2 DEF OwnersInv
  <2>8. QED
    BY <2>5, <2>6, <2>7 DEF OwnedInv
<1>4. ASSUME NEW how \in {"starts", "cleanup", "thread"}, Owned!Admit(how)
      PROVE  OwnedInv'
  <2> DEFINE e == [key |-> op.key, sig |-> op.sig, turn |-> op.turn]
             volume == op.sig \in Adjustable
             claimed == [Owned!NoSuchTurn EXCEPT !.owner = op.key[1], !.key = op.key,
                                                 !.volume = volume]
             r == CASE how = "starts"  -> [claimed EXCEPT !.pc = "run"]
                    [] how = "cleanup" -> claimed
                    [] how = "thread"  -> Owned!Stopped(claimed, "stop")
  <2>1. /\ op # Owned!NoOp /\ op' = Owned!NoOp /\ entries' = Owned!Keep(e)
        /\ UNCHANGED <<instance, number>>
    BY <1>4 DEF Owned!Admit, Owned!Idle
  <2>2. turn' = [turn EXCEPT ![op.turn] = r]
    BY <1>4, Zenon DEF Owned!Admit
  <2>3. \/ UNCHANGED <<speech, given>>
        \/ speech' = op.turn
           /\ given' = given \cup {[key |-> op.key, token |-> <<instance, op.turn>>]}
    BY <1>4 DEF Owned!Admit, Owned!Token
  <2>4. /\ op \in Preparing /\ speech = 0 /\ op.turn <= number
        /\ turn[op.turn] = Owned!NoSuchTurn
        /\ \A i \in 1..Len(entries) : entries[i].key # op.key
    BY <1>a, <2>1 DEF OwnedType, FreshInv
  <2>5. op.key \in Owned!Keys /\ op.sig \in Signatures /\ op.turn \in Owned!Turns
    BY <2>4 DEF Preparing
  <2>6. r \in TurnRecords /\ r.key = op.key
    <3>1. volume \in BOOLEAN
      OBVIOUS
    <3> HIDE DEF volume
    <3>2. QED
      BY <2>5, <3>1, ClaimedType, Zenon
  <2>7. e \in Entries /\ e.key = op.key /\ e.turn = op.turn
    BY <1>b, <2>5 DEF Entries, Owned!Turns
  <2> HIDE DEF e, claimed, r
  <2>8. /\ entries' \in Seq(Entries) /\ Len(entries') > 0 /\ entries'[Len(entries')] = e
        /\ \A i, j \in 1..Len(entries') : entries'[i].key = entries'[j].key => i = j
    BY <1>a, <2>1, <2>4, <2>7, KeepKeeps DEF OwnedType
  <2>9. /\ turn' \in [Owned!Turns -> TurnRecords] /\ turn'[op.turn] = r
        /\ \A t \in Owned!Turns : t # op.turn => turn'[t] = turn[t]
    BY <1>a, <2>2, <2>5, <2>6 DEF OwnedType
  <2>10. OwnedType' /\ OnceEach'
    <3>1. op.turn \in 0..MaxTurns
      BY <1>b, <2>5 DEF Owned!Turns
    <3>2. QED
      BY <1>a, <2>1, <2>3, <2>8, <2>9, <3>1 DEF OwnedType, OnceEach
  <2>11. FreshInv'
    <3>1. \A t \in Owned!Turns : t > number => t # op.turn
      BY <1>a, <1>b, <2>4, <2>5 DEF OwnedType, Owned!Turns
    <3>2. QED
      BY <1>a, <2>1, <2>9, <3>1 DEF FreshInv
  <2>12. OwnersInv'
    <3>1. speech' # 0 => \E i \in 1..Len(entries') :
            entries'[i].turn = speech' /\ entries'[i].key = turn'[speech'].key
      <4>1. Len(entries') \in 1..Len(entries')
        BY <2>8
      <4>2. QED
        BY <2>3, <2>4, <2>6, <2>7, <2>8, <2>9, <4>1
    <3>2. ASSUME NEW g \in given
          PROVE  /\ g \in [key : Owned!Keys, token : Nat \X Owned!Turns]
                 /\ g.token[1] <= instance'
                 /\ g.token[1] = instance' => turn'[g.token[2]].key = g.key
      <4>1. /\ g \in [key : Owned!Keys, token : Nat \X Owned!Turns]
            /\ g.token[1] <= instance
            /\ g.token[1] = instance => turn[g.token[2]].key = g.key
        BY <1>a, <3>2 DEF OwnersInv
      <4>2. g.token[2] \in Owned!Turns /\ g.key # Owned!NoSuchTurn.key
        BY <4>1, NoKey
      <4>3. QED
        BY <2>1, <2>4, <2>9, <4>1, <4>2
    <3>3. ASSUME NEW g, g = [key |-> op.key, token |-> <<instance, op.turn>>]
          PROVE  /\ g \in [key : Owned!Keys, token : Nat \X Owned!Turns]
                 /\ g.token[1] <= instance'
                 /\ g.token[1] = instance' => turn'[g.token[2]].key = g.key
      BY <1>a, <2>1, <2>5, <2>6, <2>9, <3>3 DEF OwnedType
    <3>4. QED
      BY <2>3, <3>1, <3>2, <3>3 DEF OwnersInv
  <2>13. QED
    BY <2>10, <2>11, <2>12 DEF OwnedInv
<1>5. ASSUME NEW key, Owned!OwnedStatus(key) PROVE OwnedInv'
  BY <1>5, <1>d, TurnsKept DEF Owned!OwnedStatus
<1>6. ASSUME NEW owner, NEW token, Owned!OwnedVolume(owner, token) PROVE OwnedInv'
  BY <1>6, <1>d, TurnsKept DEF Owned!OwnedVolume
<1>7. ASSUME NEW cause \in {"stop", "replaced", "silence"}, NEW end \in {Owned!NoEnd, "expired"},
             Owned!Cancel(cause, end), UNCHANGED <<instance, number, entries, op, given>>
      PROVE  OwnedInv'
  BY <1>7, CancelledKeeps, TurnsKept DEF Owned!Cancel, Owned!NoTurn
<1>8. ASSUME NEW owner, NEW token, Owned!OwnedStop(owner, token) PROVE OwnedInv'
  BY <1>7, <1>8 DEF Owned!OwnedStop
<1>9. CASE Owned!StopSpeech \/ Owned!Expire
  BY <1>7, <1>9 DEF Owned!StopSpeech, Owned!Expire
<1>10. ASSUME NEW starts \in BOOLEAN, Owned!LegacySpeak(starts)
       PROVE  OwnedInv'
  <2>1. PICK before : before = Owned!Cancelled(turn, "replaced", "superseded")
    OBVIOUS
  <2>2. SameTurns(before)
    BY <2>1, CancelledKeeps
  <2>3. /\ op = Owned!NoOp /\ number < MaxTurns /\ number' = number + 1
        /\ UNCHANGED <<instance, entries, op, given>>
    BY <1>10 DEF Owned!LegacySpeak, Owned!Idle
  <2>4. \/ starts /\ turn' = [before EXCEPT ![number + 1].pc = "run"] /\ speech' = number + 1
        \/ turn' = before /\ speech' = 0
    BY <1>10, <2>1 DEF Owned!LegacySpeak, Owned!NoTurn
  <2>5. number + 1 \in Owned!Turns
    BY <1>a, <1>c, <2>3 DEF OwnedType
  <2>6. turn[number + 1] = Owned!NoSuchTurn /\ before[number + 1] = Owned!NoSuchTurn
    BY <1>a, <2>2, <2>5 DEF OwnedType, FreshInv, SameTurns
  <2>7. PICK r : r = [Owned!NoSuchTurn EXCEPT !.pc = "run"]
    OBVIOUS
  <2>8. r \in TurnRecords /\ r.owner = Owned!Legacy /\ r.key = Owned!NoSuchTurn.key
    BY <2>7, RunningType
  <2>9. \/ turn' = [before EXCEPT ![number + 1] = r] /\ speech' = number + 1
        \/ turn' = before /\ speech' = 0
    BY <2>2, <2>4, <2>5, <2>6, <2>7 DEF SameTurns
  <2>10. /\ before \in [Owned!Turns -> TurnRecords]
         /\ \A t \in Owned!Turns :
              before[t].key = turn[t].key /\ (turn[t] = Owned!NoSuchTurn => before[t] = turn[t])
    BY <2>2 DEF SameTurns
  <2>11. /\ turn' \in [Owned!Turns -> TurnRecords]
         /\ \A t \in Owned!Turns : turn'[t].key = turn[t].key
         /\ \A t \in Owned!Turns :
              t # number + 1 /\ turn[t] = Owned!NoSuchTurn => turn'[t] = Owned!NoSuchTurn
         /\ speech' # 0 => speech' = number + 1 /\ turn'[speech'].owner = Owned!Legacy
    BY <2>5, <2>6, <2>8, <2>9, <2>10
  <2>12. OwnedType' /\ OnceEach'
    <3>1. number + 1 \in 0..MaxTurns /\ 0 \in 0..MaxTurns
      BY <1>b, <2>5 DEF Owned!Turns
    <3>2. speech' = number + 1 \/ speech' = 0
      BY <2>4
    <3>3. QED
      BY <1>a, <2>3, <2>11, <3>1, <3>2 DEF OwnedType, OnceEach
  <2>13. FreshInv'
    <3>1. \A t \in Owned!Turns : t > number' => t > number /\ t # number + 1
      BY <1>a, <1>b, <2>3 DEF OwnedType, Owned!Turns
    <3>2. QED
      BY <1>a, <2>3, <2>11, <3>1 DEF FreshInv
  <2>14. OwnersInv'
    <3>1. \A g \in given : g.token[2] \in Owned!Turns
      BY <1>a DEF OwnersInv
    <3>2. QED
      BY <1>a, <2>3, <2>11, <3>1 DEF OwnersInv
  <2>15. QED
    BY <2>12, <2>13, <2>14 DEF OwnedInv
<1>11. ASSUME NEW owned, Owned!Dictate(owned) PROVE OwnedInv'
  BY <1>11, CancelledKeeps, TurnsKept DEF Owned!Dictate, Owned!NoTurn
<1>12. CASE Owned!DictationEnds \/ Owned!Tick
  BY <1>12, <1>d, TurnsKept DEF Owned!DictationEnds, Owned!Tick
<1>13. CASE Owned!Restart
  <2>1. /\ instance' = instance + 1 /\ number' = 0 /\ entries' = <<>> /\ speech' = 0
        /\ turn' = [t \in Owned!Turns |-> Owned!NoSuchTurn]
        /\ op' = Owned!NoOp /\ given' = given
    BY <1>13 DEF Owned!Restart, Owned!NoTurn
  <2>2. entries' \in Seq(Entries) /\ Len(entries') = 0
    BY <2>1
  <2>3. turn' \in [Owned!Turns -> TurnRecords] /\ speech' \in 0..MaxTurns
    BY <1>b, <2>1, NoSuchTurnType
  <2>4. OwnedType' /\ OnceEach'
    BY <1>a, <2>1, <2>2, <2>3 DEF OwnedType, OnceEach
  <2>5. FreshInv'
    BY <2>1 DEF FreshInv
  <2>6. OwnersInv'
    <3>1. \A g \in given : g.token[1] \in Nat /\ g.token[1] <= instance
      BY <1>a DEF OwnersInv
    <3>2. QED
      BY <1>a, <2>1, <3>1 DEF OwnedType, OwnersInv
  <2>7. QED
    BY <2>4, <2>5, <2>6 DEF OwnedInv
<1>14. ASSUME NEW t \in Owned!Turns, Owned!Deadline(t) PROVE OwnedInv'
  BY <1>14, WorkerKeeps, TurnsKept DEF Owned!Deadline
<1>15. ASSUME NEW t \in Owned!Turns, Owned!Leave(t) PROVE OwnedInv'
  BY <1>15, WorkerKeeps, TurnsKept DEF Owned!Leave, Owned!NoTurn
<1>16. ASSUME NEW t \in Owned!Turns, Owned!Return(t) PROVE OwnedInv'
  BY <1>16, WorkerKeeps, TurnsKept DEF Owned!Return
<1>17. ASSUME NEW t \in Owned!Turns, NEW failure \in {"none", "failed", "deadline"},
              Owned!Settle(t, failure)
       PROVE  OwnedInv'
  BY <1>17, WorkerKeeps, TurnsKept DEF Owned!Settle
<1>18. CASE UNCHANGED Owned!vars
  BY <1>18, <1>d, TurnsKept DEF Owned!vars
<1>19. QED
  BY <1>1, <1>2, <1>3, <1>4, <1>5, <1>6, <1>8, <1>9, <1>10, <1>11, <1>12, <1>13, <1>14, <1>15,
     <1>16, <1>17, <1>18 DEF Owned!Next

\* It holds of every daemon, always.
LEMMA OwnedAlways == Spec => []OwnedInv
<1>1. Init => OwnedInv
  BY OwnedStart DEF Init
<1>2. OwnedInv /\ [Next]_vars => OwnedInv'
  <2> SUFFICES ASSUME OwnedInv, [Next]_vars PROVE OwnedInv'
    OBVIOUS
  <2>1. CASE Owned!Next
    BY <2>1, OwnedStep
  <2>2. CASE UNCHANGED ownedVars
    BY <2>2, OwnedStep DEF ownedVars, Owned!vars
  <2>3. QED
    BY <2>1, <2>2 DEF Next, vars
<1>3. QED
  BY <1>1, <1>2, ReadingSteps, PTL

\* While a daemon lives, the results it keeps are as they were: one is new only
\* for an utterance that had none.
LEMMA ResultsStep ==
  ASSUME OwnedInv, Owned!Next, instance' = instance
  PROVE  \/ entries' = entries
         \/ \A j \in 1..Len(entries') :
              \/ \E i \in 1..Len(entries) : entries'[j] = entries[i]
              \/ \A i \in 1..Len(entries) : entries[i].key # entries'[j].key
<1>a. OwnedType /\ OnceEach /\ FreshInv /\ MaxTurns \in Nat
  BY ReadingAssumption DEF OwnedInv
<1>1. ASSUME NEW t \in 0..MaxTurns, op # Owned!NoOp,
             entries' = Owned!Keep([key |-> op.key, sig |-> op.sig, turn |-> t])
      PROVE  \A j \in 1..Len(entries') :
               \/ \E i \in 1..Len(entries) : entries'[j] = entries[i]
               \/ \A i \in 1..Len(entries) : entries[i].key # entries'[j].key
  <2> DEFINE e == [key |-> op.key, sig |-> op.sig, turn |-> t]
  <2>1. op \in Preparing /\ \A i \in 1..Len(entries) : entries[i].key # op.key
    BY <1>a, <1>1 DEF OwnedType, FreshInv
  <2>2. e \in Entries /\ e.key = op.key
    BY <2>1 DEF Preparing, Entries
  <2>3. entries' = Owned!Keep(e)
    BY <1>1
  <2> HIDE DEF e
  <2>4. \A j \in 1..Len(entries') : entries'[j] = e \/ \E i \in 1..Len(entries) : entries'[j] = entries[i]
    BY <1>a, <2>1, <2>2, <2>3, KeepKeeps DEF OwnedType
  <2>5. QED
    BY <2>1, <2>2, <2>4
<1>2. CASE Owned!NothingToSay
  BY <1>1, <1>2, <1>a DEF Owned!NothingToSay, Owned!Idle, Owned!NoTurn
<1>3. ASSUME NEW how, Owned!Admit(how)
      PROVE  \/ entries' = entries
             \/ \A j \in 1..Len(entries') :
                  \/ \E i \in 1..Len(entries) : entries'[j] = entries[i]
                  \/ \A i \in 1..Len(entries) : entries[i].key # entries'[j].key
  <2>1. op # Owned!NoOp /\ entries' = Owned!Keep([key |-> op.key, sig |-> op.sig, turn |-> op.turn])
    BY <1>3 DEF Owned!Admit, Owned!Idle
  <2>2. op.turn \in 0..MaxTurns
    BY <1>a, <2>1 DEF OwnedType, Preparing, Owned!Turns
  <2>3. QED
    BY <1>1, <2>1, <2>2
<1>4. CASE Owned!Restart
  BY <1>4, <1>a DEF Owned!Restart, OwnedType
<1>5. ASSUME NEW key, NEW sig, Owned!Ask(key, sig) PROVE entries' = entries
  BY <1>5 DEF Owned!Ask
<1>6. ASSUME NEW owner, NEW token, Owned!OwnedStop(owner, token) \/ Owned!OwnedVolume(owner, token)
      PROVE  entries' = entries
  BY <1>6 DEF Owned!OwnedStop, Owned!OwnedVolume
<1>7. ASSUME NEW t, Owned!Deadline(t) \/ Owned!Leave(t) \/ Owned!Return(t)
      PROVE  entries' = entries
  BY <1>7 DEF Owned!Deadline, Owned!Leave, Owned!Return
<1>8. QED
  BY <1>1, <1>2, <1>3, <1>4, <1>5, <1>6, <1>7
     DEF Owned!Next, Owned!PrepareFails, Owned!OwnedStatus, Owned!LegacySpeak, Owned!Dictate,
         Owned!StopSpeech, Owned!DictationEnds, Owned!Tick, Owned!Expire, Owned!Settle

\* An utterance is one request while its result is kept, which does not change,
\* and a stop silences only what its token was given for: of _owned_entry,
\* _owned_keep and _owned_stop, across retries, replacements and restarts.
THEOREM RetriesSafe == Spec => RetriesAreHarmless
<1>1. OwnedInv => Owned!OneTurnEach
  <2> SUFFICES ASSUME OwnedInv PROVE Owned!OneTurnEach
    OBVIOUS
  <2>1. DOMAIN entries = 1..Len(entries)
    BY DEF OwnedInv, OwnedType
  <2>2. \A i, j \in DOMAIN entries : entries[i].key = entries[j].key => i = j
    BY <2>1 DEF OwnedInv, OnceEach
  <2>3. speech # 0 /\ turn[speech].owner # Owned!Legacy =>
          \E e \in Owned!ToSet(entries) : e.turn = speech /\ e.key = turn[speech].key
    BY <2>1 DEF OwnedInv, OwnersInv, Owned!ToSet
  <2>4. QED
    BY <2>2, <2>3 DEF Owned!OneTurnEach, Owned!NoTurn
<1> DEFINE Stay == instance' = instance =>
             \A e \in Owned!ToSet(entries), f \in Owned!ToSet(entries') : e.key = f.key => e = f
           Hits == \A g \in given : Owned!OwnedStop(g.key[1], g.token) => g.key = turn[speech].key
<1>2. ASSUME OwnedInv, OwnedInv', Owned!Next PROVE Stay
  <2> SUFFICES ASSUME instance' = instance,
                      NEW e \in Owned!ToSet(entries), NEW f \in Owned!ToSet(entries'), e.key = f.key
               PROVE  e = f
    OBVIOUS
  <2>1. PICK i \in 1..Len(entries) : e = entries[i]
    BY <1>2 DEF OwnedInv, OwnedType, Owned!ToSet
  <2>2. PICK j \in 1..Len(entries') : f = entries'[j]
    BY <1>2 DEF OwnedInv, OwnedType, Owned!ToSet
  <2>3. QED
    BY <1>2, <2>1, <2>2, ResultsStep DEF OwnedInv, OnceEach
<1>3. ASSUME OwnedInv PROVE Hits
  <2> SUFFICES ASSUME NEW g \in given, Owned!OwnedStop(g.key[1], g.token)
               PROVE  g.key = turn[speech].key
    OBVIOUS
  <2>1. g.token = <<instance, speech>>
    BY DEF Owned!OwnedStop, Owned!Current, Owned!Token
  <2>2. QED
    BY <1>3, <2>1 DEF OwnedInv, OwnersInv
<1>4. ASSUME OwnedInv, OwnedInv', [Next]_vars PROVE [Stay]_(Owned!vars)
  <2>1. Owned!Next \/ UNCHANGED Owned!vars
    BY <1>4 DEF Next, vars, ownedVars, Owned!vars
  <2>2. QED
    BY <1>2, <1>4, <2>1
<1>5. OwnedInv /\ OwnedInv' /\ [Next]_vars => [Stay]_(Owned!vars)
  BY <1>4
<1>6. OwnedInv /\ [Next]_vars => [Hits]_(Owned!vars)
  BY <1>3
<1>7. Spec => Owned!ResultsStay
  BY <1>5, OwnedAlways, ReadingSteps, PTL DEF Owned!ResultsStay
<1>8. Spec => Owned!StopHitsItsOwn
  BY <1>6, OwnedAlways, ReadingSteps, PTL DEF Owned!StopHitsItsOwn
<1>9. Spec => [](part = "owned" => Owned!OneTurnEach)
  BY <1>1, OwnedAlways, PTL
<1>10. QED
  BY <1>7, <1>8, <1>9 DEF RetriesAreHarmless

-----------------------------------------------------------------------------
(* What an owner is told (OwnedTurns).                                     *)

\* What ended a turn is what it was marked with, and its result says so.
EndedBy(why, ended, end) ==
  /\ why = "none" <=> ended = "none"
  /\ why = "none" => end = Owned!NoEnd
  /\ why = "cancelled" => \/ ended = "stop" /\ end = Owned!NoEnd
                          \/ ended = "replaced" /\ end = "superseded"
                          \/ ended = "silence" /\ end = "expired"

Truthful(r) ==
  /\ EndedBy(r.why, r.ended, r.end)
  /\ r.outcome # "none" => r.pc \in {"settled", "done"}
  /\ r.outcome = "completed" => r.ended = "none"
  /\ r.outcome = "cancelled" => r.why = "cancelled"

\* The current turn was not cancelled, and its worker is at it.
Live(r) == r.pc = "run" /\ r.why # "cancelled" /\ r.end = Owned!NoEnd

ToldInv ==
  /\ \A t \in Owned!Turns : Truthful(turn[t])
  /\ speech # 0 => Live(turn[speech])

\* A mark is none that was left out.
LEMMA Marks == Owned!NoEnd # "superseded" /\ Owned!NoEnd # "expired"
BY DEF Owned!NoEnd

\* A turn that there is not.
LEMMA NoSuchTruthful ==
  /\ Truthful(Owned!NoSuchTurn)
  /\ Owned!NoSuchTurn.outcome = "none" /\ Owned!NoSuchTurn.why = "none"
  /\ Owned!NoSuchTurn.ended = "none" /\ Owned!NoSuchTurn.end = Owned!NoEnd
BY DEF Truthful, EndedBy, Owned!NoSuchTurn

\* What is current is a turn.
LEMMA CurrentIsTurn == ASSUME OwnedInv, speech # 0 PROVE speech \in Owned!Turns
<1>1. speech \in 0..MaxTurns /\ MaxTurns \in Nat
  BY ReadingAssumption DEF OwnedInv, OwnedType
<1> QED BY <1>1 DEF Owned!Turns

\* Turns that stay as they are and one that is told the truth of.
LEMMA ToldByOne ==
  ASSUME OwnedInv, ToldInv, NEW t \in Owned!Turns, NEW s, Truthful(s), turn' = [turn EXCEPT ![t] = s],
         speech' = 0 \/ (speech' = t /\ Live(s)) \/ (speech' = speech /\ speech # t)
  PROVE  ToldInv'
<1>1. turn \in [Owned!Turns -> TurnRecords] /\ (speech # 0 => speech \in Owned!Turns)
  BY CurrentIsTurn DEF OwnedInv, OwnedType
<1>2. turn'[t] = s /\ \A u \in Owned!Turns : u # t => turn'[u] = turn[u]
  BY <1>1
<1> HIDE DEF TurnRecords
<1>3. \A u \in Owned!Turns : Truthful(turn'[u])
  BY <1>2 DEF ToldInv
<1>4. speech' # 0 => Live(turn'[speech'])
  BY <1>1, <1>2 DEF ToldInv
<1> QED BY <1>3, <1>4 DEF ToldInv

\* Turns that stay as they are.
LEMMA ToldStays ==
  ASSUME OwnedInv, ToldInv, turn' = turn, speech' = 0 \/ speech' = speech
  PROVE  ToldInv'
BY DEF ToldInv

\* A turn that runs, by what its fields become.
LEMMA StoppedTruthful ==
  ASSUME NEW r \in TurnRecords, Truthful(r), r.outcome = "none", r.why # "cancelled", r.end = Owned!NoEnd,
         NEW cause, NEW end,
         \/ cause = "stop" /\ end = Owned!NoEnd
         \/ cause = "replaced" /\ end = "superseded"
         \/ cause = "silence" /\ end = "expired"
  PROVE  Truthful(Owned!Stopped(Owned!Marked(r, end), cause))
<1>1. PICK m : m = Owned!Marked(r, end)
  OBVIOUS
<1>2. PICK s : s = Owned!Stopped(m, cause)
  OBVIOUS
<1>3. CASE r.owner = Owned!Legacy
  <2>1. m = r /\ s = r
    BY <1>1, <1>2, <1>3 DEF Owned!Stopped, Owned!Marked
  <2> QED BY <1>1, <1>2, <2>1
<1>4. CASE r.owner # Owned!Legacy
  <2> DEFINE why == IF r.why = "none" THEN "cancelled" ELSE r.why
             ended == IF r.ended = "none" THEN cause ELSE r.ended
  <2>1. /\ m.owner = r.owner /\ m.pc = r.pc /\ m.why = r.why /\ m.ended = r.ended
        /\ m.outcome = r.outcome /\ m.end = end
        /\ m \in [owner : {r.owner}, key : {r.key}, volume : {r.volume}, pc : {r.pc}, end : {end},
                  why : {r.why}, ended : {r.ended}, outcome : {r.outcome}]
    <3>1. CASE end = Owned!NoEnd
      <4>1. m = r
        BY <1>1, <3>1 DEF Owned!Marked
      <4> QED BY <3>1, <4>1 DEF TurnRecords
    <3>2. CASE end # Owned!NoEnd
      <4>1. m = [r EXCEPT !.end = end]
        BY <1>1, <1>4, <3>2 DEF Owned!Marked
      <4>2. m = [owner |-> r.owner, key |-> r.key, volume |-> r.volume, pc |-> r.pc, end |-> end,
                 why |-> r.why, ended |-> r.ended, outcome |-> r.outcome]
        BY <4>1 DEF TurnRecords
      <4> QED BY <4>2
    <3> QED BY <3>1, <3>2
  <2>2. s = [m EXCEPT !.why = IF @ = "none" THEN "cancelled" ELSE @,
                      !.ended = IF @ = "none" THEN cause ELSE @]
    BY <1>2, <1>4, <2>1 DEF Owned!Stopped
  <2>3. s.why = why /\ s.ended = ended /\ s.end = end /\ s.outcome = "none"
    BY <2>1, <2>2
  <2>4. EndedBy(why, ended, end)
    BY DEF EndedBy, Truthful, TurnRecords
  <2> HIDE DEF why, ended
  <2>5. Truthful(s)
    BY <2>3, <2>4 DEF Truthful
  <2> QED BY <1>1, <1>2, <2>5
<1> QED BY <1>3, <1>4

\* The current turn is cancelled.
LEMMA CancelTold ==
  ASSUME OwnedInv, ToldInv, NEW cause, NEW end,
         \/ cause = "stop" /\ end = Owned!NoEnd
         \/ cause = "replaced" /\ end = "superseded"
         \/ cause = "silence" /\ end = "expired"
  PROVE  \A t \in Owned!Turns : Truthful(Owned!Cancelled(turn, cause, end)[t])
<1>1. turn \in [Owned!Turns -> TurnRecords]
  BY DEF OwnedInv, OwnedType
<1>2. CASE speech = 0
  BY <1>2 DEF ToldInv, Owned!Cancelled, Owned!NoTurn
<1>3. CASE speech # 0
  <2>1. speech \in Owned!Turns
    BY <1>3, CurrentIsTurn
  <2>2. PICK r : r = turn[speech]
    OBVIOUS
  <2>3. r \in TurnRecords /\ Truthful(r) /\ Live(r)
    BY <1>1, <1>3, <2>1, <2>2 DEF ToldInv
  <2>4. r.outcome = "none" /\ r.why # "cancelled" /\ r.end = Owned!NoEnd
    BY <2>3 DEF Truthful, Live
  <2>5. PICK s : s = Owned!Stopped(Owned!Marked(r, end), cause)
    OBVIOUS
  <2>6. Truthful(s)
    BY <2>3, <2>4, <2>5, StoppedTruthful
  <2>7. Owned!Cancelled(turn, cause, end) = [turn EXCEPT ![speech] = s]
    BY <1>3, <2>2, <2>5 DEF Owned!Cancelled, Owned!NoTurn
  <2> HIDE DEF TurnRecords
  <2> QED BY <1>1, <2>1, <2>6, <2>7 DEF ToldInv
<1> QED BY <1>2, <1>3

\* A cancelled turn is over.
LEMMA CancelKeepsTold ==
  ASSUME OwnedInv, ToldInv, NEW cause, NEW end, Owned!Cancel(cause, end),
         \/ cause = "stop" /\ end = Owned!NoEnd
         \/ cause = "replaced" /\ end = "superseded"
         \/ cause = "silence" /\ end = "expired"
  PROVE  ToldInv'
<1>1. turn' = Owned!Cancelled(turn, cause, end) /\ speech' = 0
  BY DEF Owned!Cancel, Owned!NoTurn
<1> QED BY <1>1, CancelTold DEF ToldInv

\* The fields of a record of which one or two are set.
LEMMA FieldsSet ==
  ASSUME NEW r \in TurnRecords, NEW x, NEW y
  PROVE  /\ LET s == [r EXCEPT !.pc = x]
            IN /\ s.pc = x /\ s.end = r.end /\ s.why = r.why /\ s.ended = r.ended
               /\ s.outcome = r.outcome /\ s.owner = r.owner
         /\ LET s == [r EXCEPT !.pc = x, !.outcome = y]
            IN /\ s.pc = x /\ s.end = r.end /\ s.why = r.why /\ s.ended = r.ended
               /\ s.outcome = y /\ s.owner = r.owner
         /\ LET s == [r EXCEPT !.why = x, !.ended = y]
            IN /\ s.pc = r.pc /\ s.end = r.end /\ s.why = x /\ s.ended = y
               /\ s.outcome = r.outcome /\ s.owner = r.owner
<1>1. PICK s : s = [r EXCEPT !.pc = x]
  OBVIOUS
<1>2. s = [owner |-> r.owner, key |-> r.key, volume |-> r.volume, pc |-> x, end |-> r.end,
           why |-> r.why, ended |-> r.ended, outcome |-> r.outcome]
  BY <1>1 DEF TurnRecords
<1>3. PICK u : u = [r EXCEPT !.pc = x, !.outcome = y]
  OBVIOUS
<1>4. u = [owner |-> r.owner, key |-> r.key, volume |-> r.volume, pc |-> x, end |-> r.end,
           why |-> r.why, ended |-> r.ended, outcome |-> y]
  BY <1>3 DEF TurnRecords
<1>5. PICK v : v = [r EXCEPT !.why = x, !.ended = y]
  OBVIOUS
<1>6. v = [owner |-> r.owner, key |-> r.key, volume |-> r.volume, pc |-> r.pc, end |-> r.end,
           why |-> x, ended |-> y, outcome |-> r.outcome]
  BY <1>5 DEF TurnRecords
<1>7. /\ s.pc = x /\ s.end = r.end /\ s.why = r.why /\ s.ended = r.ended
      /\ s.outcome = r.outcome /\ s.owner = r.owner
  BY <1>2
<1>8. /\ u.pc = x /\ u.end = r.end /\ u.why = r.why /\ u.ended = r.ended
      /\ u.outcome = y /\ u.owner = r.owner
  BY <1>4
<1>9. /\ v.pc = r.pc /\ v.end = r.end /\ v.why = x /\ v.ended = y
      /\ v.outcome = r.outcome /\ v.owner = r.owner
  BY <1>6
<1> QED BY <1>1, <1>3, <1>5, <1>7, <1>8, <1>9

\* A worker, and the deadline of its request.
LEMMA WorkerTold ==
  ASSUME OwnedInv, ToldInv, NEW t \in Owned!Turns,
         \/ Owned!Deadline(t) \/ Owned!Leave(t) \/ Owned!Return(t)
         \/ \E failure \in {"none", "failed", "deadline"} : Owned!Settle(t, failure)
  PROVE  ToldInv'
<1>1. PICK r : r = turn[t]
  OBVIOUS
<1>2. turn \in [Owned!Turns -> TurnRecords] /\ r \in TurnRecords /\ Truthful(r)
  BY <1>1 DEF OwnedInv, OwnedType, ToldInv
<1>3. speech = t => Live(r)
  <2>1. t # 0
    BY DEF Owned!Turns
  <2> QED BY <1>1, <2>1 DEF ToldInv
<1>4. CASE Owned!Deadline(t)
  <2>1. PICK s : s = [r EXCEPT !.why = "deadline", !.ended = "deadline"]
    OBVIOUS
  <2>2. /\ turn' = [turn EXCEPT ![t] = s] /\ speech' = speech
        /\ r.pc \in {"run", "left"} /\ r.why = "none"
    BY <1>1, <1>2, <1>4, <2>1 DEF Owned!Deadline
  <2>3. /\ s.pc = r.pc /\ s.end = r.end /\ s.why = "deadline" /\ s.ended = "deadline"
        /\ s.outcome = r.outcome
    BY <1>2, <2>1, FieldsSet
  <2>4. Truthful(s)
    BY <1>2, <2>2, <2>3 DEF Truthful, EndedBy
  <2>5. speech = t => Live(s)
    BY <1>3, <2>3 DEF Live
  <2> QED BY <2>2, <2>4, <2>5, ToldByOne
<1>5. CASE Owned!Leave(t)
  <2>1. PICK s : s = [r EXCEPT !.pc = "left"]
    OBVIOUS
  <2>2. /\ turn' = [turn EXCEPT ![t] = s] /\ speech' = IF speech = t THEN 0 ELSE speech
        /\ r.pc = "run"
    BY <1>1, <1>2, <1>5, <2>1 DEF Owned!Leave, Owned!NoTurn
  <2>3. s.pc = "left" /\ s.end = r.end /\ s.why = r.why /\ s.ended = r.ended /\ s.outcome = r.outcome
    BY <1>2, <2>1, FieldsSet
  <2>4. Truthful(s)
    BY <1>2, <2>2, <2>3 DEF Truthful, EndedBy
  <2> QED BY <2>2, <2>4, ToldByOne
<1>6. CASE Owned!Return(t)
  <2>1. PICK s : s = [r EXCEPT !.pc = "done"]
    OBVIOUS
  <2>2. turn' = [turn EXCEPT ![t] = s] /\ speech' = speech /\ r.pc = "settled"
    BY <1>1, <1>2, <1>6, <2>1 DEF Owned!Return
  <2>3. s.pc = "done" /\ s.end = r.end /\ s.why = r.why /\ s.ended = r.ended /\ s.outcome = r.outcome
    BY <1>2, <2>1, FieldsSet
  <2>4. Truthful(s)
    BY <1>2, <2>2, <2>3 DEF Truthful, EndedBy
  <2>5. speech # t
    BY <1>3, <2>2 DEF Live
  <2> QED BY <2>2, <2>4, <2>5, ToldByOne
<1>7. ASSUME NEW failure \in {"none", "failed", "deadline"}, Owned!Settle(t, failure)
      PROVE  ToldInv'
  <2> DEFINE outcome == IF failure # "none" THEN failure
                        ELSE IF r.why = "none" THEN "completed" ELSE r.why
  <2>1. PICK s : s = [r EXCEPT !.pc = "settled", !.outcome = outcome]
    OBVIOUS
  <2>2. turn' = [turn EXCEPT ![t] = s] /\ speech' = speech /\ r.pc = "left"
    BY <1>1, <1>2, <1>7, <2>1 DEF Owned!Settle
  <2>3. /\ outcome = "completed" => r.why = "none"
        /\ outcome = "cancelled" => r.why = "cancelled"
    BY <1>2 DEF TurnRecords
  <2> HIDE DEF outcome
  <2>4. s.pc = "settled" /\ s.end = r.end /\ s.why = r.why /\ s.ended = r.ended /\ s.outcome = outcome
    BY <1>2, <2>1, FieldsSet
  <2>5. Truthful(s)
    BY <1>2, <2>3, <2>4 DEF Truthful, EndedBy
  <2>6. speech # t
    BY <1>3, <2>2 DEF Live
  <2> QED BY <2>2, <2>5, <2>6, ToldByOne
<1> QED BY <1>4, <1>5, <1>6, <1>7

\* The record of an owned turn as it claims, whichever way that goes.
LEMMA ClaimedTold ==
  ASSUME NEW key \in Owned!Keys, NEW volume \in BOOLEAN,
         NEW how \in {"starts", "cleanup", "thread"}
  PROVE  LET claimed == [Owned!NoSuchTurn EXCEPT !.owner = key[1], !.key = key,
                                                 !.volume = volume]
             r == CASE how = "starts"  -> [claimed EXCEPT !.pc = "run"]
                    [] how = "cleanup" -> claimed
                    [] how = "thread"  -> Owned!Stopped(claimed, "stop")
         IN  Truthful(r) /\ (how = "starts" => Live(r))
<1>1. PICK b : b = Owned!NoSuchTurn
  OBVIOUS
<1>2. b \in TurnRecords /\ b.outcome = "none" /\ b.why = "none" /\ b.ended = "none" /\ b.end = Owned!NoEnd
  BY <1>1, NoSuchTurnType, NoSuchTruthful
<1>3. PICK claimed : claimed = [b EXCEPT !.owner = key[1], !.key = key, !.volume = volume]
  OBVIOUS
<1>4. key[1] \in Owners
  BY DEF Owned!Keys
<1>5. /\ b.pc \in {"none", "run", "left", "settled", "done"}
      /\ b.end \in {Owned!NoEnd, "superseded", "expired"}
      /\ b.why \in {"none", "cancelled", "deadline"}
      /\ b.ended \in {"none", "stop", "replaced", "silence", "deadline"}
      /\ b.outcome \in {"none", "completed", "cancelled", "deadline", "failed"}
  BY <1>2 DEF TurnRecords
<1>6. claimed = [owner |-> key[1], key |-> key, volume |-> volume, pc |-> b.pc, end |-> b.end,
                 why |-> b.why, ended |-> b.ended, outcome |-> b.outcome]
  BY <1>2, <1>3 DEF TurnRecords
<1>7. claimed \in TurnRecords
  BY <1>4, <1>5, <1>6 DEF TurnRecords
<1>8. /\ claimed.outcome = "none" /\ claimed.why = "none" /\ claimed.ended = "none"
      /\ claimed.end = Owned!NoEnd
  BY <1>2, <1>6
<1>9. Truthful(claimed)
  BY <1>8 DEF Truthful, EndedBy
<1>10. PICK running : running = [claimed EXCEPT !.pc = "run"]
  OBVIOUS
<1>11. /\ running.pc = "run" /\ running.outcome = "none" /\ running.why = "none"
       /\ running.ended = "none" /\ running.end = Owned!NoEnd
  BY <1>7, <1>8, <1>10, FieldsSet
<1>12. Truthful(running) /\ Live(running)
  BY <1>11 DEF Truthful, EndedBy, Live
<1>13. PICK stopped : stopped = Owned!Stopped(claimed, "stop")
  OBVIOUS
<1>14. Owned!Marked(claimed, Owned!NoEnd) = claimed
  BY DEF Owned!Marked
<1>15. Truthful(Owned!Stopped(Owned!Marked(claimed, Owned!NoEnd), "stop"))
  BY <1>7, <1>8, <1>9, StoppedTruthful
<1>16. Truthful(stopped)
  BY <1>13, <1>14, <1>15
<1>17. claimed = [Owned!NoSuchTurn EXCEPT !.owner = key[1], !.key = key, !.volume = volume]
  BY <1>1, <1>3
<1> QED BY <1>9, <1>10, <1>12, <1>13, <1>16, <1>17, Zenon

\* An owned turn that claims.
LEMMA AdmitTold ==
  ASSUME OwnedInv, ToldInv, NEW how \in {"starts", "cleanup", "thread"}, Owned!Admit(how)
  PROVE  ToldInv'
<1> DEFINE volume == op.sig \in Adjustable
           claimed == [Owned!NoSuchTurn EXCEPT !.owner = op.key[1], !.key = op.key,
                                               !.volume = volume]
           r == CASE how = "starts"  -> [claimed EXCEPT !.pc = "run"]
                  [] how = "cleanup" -> claimed
                  [] how = "thread"  -> Owned!Stopped(claimed, "stop")
<1>1. op # Owned!NoOp /\ (IF how = "starts" THEN speech' = op.turn ELSE speech' = speech)
  BY DEF Owned!Admit, Owned!Idle
<1>2. turn' = [turn EXCEPT ![op.turn] = r]
  BY Zenon DEF Owned!Admit
<1>3. op \in Preparing /\ speech = 0
  BY <1>1 DEF OwnedInv, OwnedType, FreshInv
<1>4. op.key \in Owned!Keys /\ op.turn \in Owned!Turns
  BY <1>3 DEF Preparing
<1>5. Truthful(r) /\ (how = "starts" => Live(r))
  <2>1. volume \in BOOLEAN
    OBVIOUS
  <2> HIDE DEF volume
  <2> QED BY <1>4, <2>1, ClaimedTold, Zenon
<1> HIDE DEF claimed, r
<1>6. speech' = 0 \/ (speech' = op.turn /\ Live(r))
  BY <1>1, <1>3, <1>5
<1> QED BY <1>2, <1>4, <1>5, <1>6, ToldByOne

\* A legacy turn begins: nothing ended it.
LEMMA RunningTold ==
  LET r == [Owned!NoSuchTurn EXCEPT !.pc = "run"] IN Truthful(r) /\ Live(r)
<1>1. PICK b : b = Owned!NoSuchTurn
  OBVIOUS
<1>2. b \in TurnRecords /\ b.outcome = "none" /\ b.why = "none" /\ b.ended = "none" /\ b.end = Owned!NoEnd
  BY <1>1, NoSuchTurnType, NoSuchTruthful
<1>3. PICK r : r = [b EXCEPT !.pc = "run"]
  OBVIOUS
<1>4. r.pc = "run" /\ r.outcome = "none" /\ r.why = "none" /\ r.ended = "none" /\ r.end = Owned!NoEnd
  BY <1>2, <1>3, FieldsSet
<1>5. Truthful(r) /\ Live(r)
  BY <1>4 DEF Truthful, EndedBy, Live
<1> QED BY <1>1, <1>3, <1>5

\* A legacy speak, which replaces the current turn.
LEMMA LegacyTold ==
  ASSUME OwnedInv, ToldInv, NEW starts \in BOOLEAN, Owned!LegacySpeak(starts)
  PROVE  ToldInv'
<1>1. PICK before : before = Owned!Cancelled(turn, "replaced", "superseded")
  OBVIOUS
<1>2. SameTurns(before)
  BY <1>1, CancelledKeeps
<1>3. \A t \in Owned!Turns : Truthful(before[t])
  BY <1>1, CancelTold
<1>4. \/ turn' = [before EXCEPT ![number + 1].pc = "run"] /\ speech' = number + 1
      \/ turn' = before /\ speech' = 0
  BY <1>1 DEF Owned!LegacySpeak, Owned!NoTurn
<1>5. number + 1 \in Owned!Turns
  <2>1. number \in Nat /\ MaxTurns \in Nat /\ number < MaxTurns
    BY ReadingAssumption DEF OwnedInv, OwnedType, Owned!LegacySpeak
  <2> QED BY <2>1 DEF Owned!Turns
<1>6. before[number + 1] = Owned!NoSuchTurn
  <2>1. number \in Nat /\ number + 1 > number
    BY DEF OwnedInv, OwnedType
  <2>2. turn[number + 1] = Owned!NoSuchTurn
    BY <1>5, <2>1 DEF OwnedInv, FreshInv
  <2> QED BY <1>2, <1>5, <2>2 DEF SameTurns
<1>7. PICK r : r = [Owned!NoSuchTurn EXCEPT !.pc = "run"]
  OBVIOUS
<1>8. Truthful(r) /\ Live(r)
  BY <1>7, RunningTold
<1>9. CASE turn' = before /\ speech' = 0
  BY <1>3, <1>9 DEF ToldInv
<1>10. CASE turn' = [before EXCEPT ![number + 1].pc = "run"] /\ speech' = number + 1
  <2>1. turn' = [before EXCEPT ![number + 1] = r]
    BY <1>6, <1>7, <1>10
  <2>2. before \in [Owned!Turns -> TurnRecords]
    BY <1>2 DEF SameTurns
  <2> HIDE DEF TurnRecords
  <2>3. turn'[number + 1] = r /\ \A t \in Owned!Turns : t # number + 1 => turn'[t] = before[t]
    BY <1>5, <2>1, <2>2
  <2>4. \A t \in Owned!Turns : Truthful(turn'[t])
    BY <1>3, <1>8, <2>3
  <2> QED BY <1>8, <1>10, <2>3, <2>4 DEF ToldInv
<1> QED BY <1>4, <1>9, <1>10

\* Every step of the daemon and of its clients keeps it.
LEMMA AnsweredStep == OwnedInv /\ ToldInv /\ [Owned!Next]_(Owned!vars) => ToldInv'
<1> SUFFICES ASSUME OwnedInv, ToldInv, [Owned!Next]_(Owned!vars) PROVE ToldInv'
  OBVIOUS
<1>1. ASSUME NEW key, NEW sig, Owned!Ask(key, sig) PROVE ToldInv'
  BY <1>1, ToldStays DEF Owned!Ask
<1>2. CASE Owned!PrepareFails \/ Owned!NothingToSay
  BY <1>2, ToldStays DEF Owned!PrepareFails, Owned!NothingToSay
<1>3. ASSUME NEW how \in {"starts", "cleanup", "thread"}, Owned!Admit(how) PROVE ToldInv'
  BY <1>3, AdmitTold
<1>4. ASSUME NEW key, Owned!OwnedStatus(key) PROVE ToldInv'
  BY <1>4, ToldStays DEF Owned!OwnedStatus
<1>5. ASSUME NEW owner, NEW token, Owned!OwnedVolume(owner, token) PROVE ToldInv'
  BY <1>5, ToldStays DEF Owned!OwnedVolume
<1>6. ASSUME NEW owner, NEW token, Owned!OwnedStop(owner, token) PROVE ToldInv'
  BY <1>6, CancelKeepsTold DEF Owned!OwnedStop
<1>7. CASE Owned!StopSpeech
  BY <1>7, CancelKeepsTold DEF Owned!StopSpeech
<1>8. CASE Owned!Expire
  BY <1>8, CancelKeepsTold DEF Owned!Expire
<1>9. ASSUME NEW starts \in BOOLEAN, Owned!LegacySpeak(starts) PROVE ToldInv'
  BY <1>9, LegacyTold
<1>10. ASSUME NEW owned, Owned!Dictate(owned) PROVE ToldInv'
  <2>1. turn' = Owned!Cancelled(turn, "stop", Owned!NoEnd) /\ speech' = 0
    BY <1>10 DEF Owned!Dictate, Owned!NoTurn
  <2> QED BY <2>1, CancelTold DEF ToldInv
<1>11. CASE Owned!DictationEnds \/ Owned!Tick
  BY <1>11, ToldStays DEF Owned!DictationEnds, Owned!Tick
<1>12. CASE Owned!Restart
  <2>1. turn' = [t \in Owned!Turns |-> Owned!NoSuchTurn] /\ speech' = 0
    BY <1>12 DEF Owned!Restart, Owned!NoTurn
  <2> QED BY <2>1, NoSuchTruthful DEF ToldInv
<1>13. ASSUME NEW t \in Owned!Turns, Owned!Deadline(t) \/ Owned!Leave(t) \/ Owned!Return(t)
       PROVE  ToldInv'
  BY <1>13, WorkerTold
<1>14. ASSUME NEW t \in Owned!Turns, NEW failure \in {"none", "failed", "deadline"},
              Owned!Settle(t, failure)
       PROVE  ToldInv'
  BY <1>14, WorkerTold
<1>15. CASE UNCHANGED Owned!vars
  BY <1>15, ToldStays DEF Owned!vars
<1> QED BY <1>1, <1>2, <1>3, <1>4, <1>5, <1>6, <1>7, <1>8, <1>9, <1>10, <1>11, <1>12, <1>13,
           <1>14, <1>15 DEF Owned!Next

\* What an owner is told of a turn, by what ended it.
LEMMA ToldOfTurn ==
  ASSUME OwnedInv, ToldInv PROVE Owned!ToldWhy
<1> SUFFICES ASSUME NEW e \in Owned!ToSet(entries), e.turn # 0
             PROVE  LET t == turn[e.turn]
                    IN CASE Owned!Reported(e) = "superseded" -> t.ended = "replaced"
                         [] Owned!Reported(e) = "expired" -> t.ended = "silence" \/ t.outcome = "deadline"
                         [] Owned!Reported(e) = "cancelled" -> t.ended = "stop"
                         [] Owned!Reported(e) = "completed" -> t.ended = "none"
                         [] OTHER -> TRUE
  BY Zenon DEF Owned!ToldWhy, Owned!NoTurn
<1>1. e.turn \in Owned!Turns
  <2>1. PICK i \in 1..Len(entries) : e = entries[i]
    BY DEF OwnedInv, OwnedType, Owned!ToSet
  <2>2. entries \in Seq(Entries) /\ MaxTurns \in Nat
    BY ReadingAssumption DEF OwnedInv, OwnedType
  <2>3. e \in Entries
    BY <2>1, <2>2
  <2>4. e.turn \in 0..MaxTurns
    BY <2>3 DEF Entries
  <2> QED BY <2>2, <2>4 DEF Owned!Turns
<1>2. PICK t : t = turn[e.turn]
  OBVIOUS
<1>3. t \in TurnRecords /\ Truthful(t)
  BY <1>1, <1>2 DEF OwnedInv, OwnedType, ToldInv
<1>4. PICK told : told = Owned!Reported(e)
  OBVIOUS
<1>5. told = CASE t.outcome = "none" -> "active"
               [] t.outcome = "deadline" -> "expired"
               [] t.outcome = "cancelled" /\ t.end # Owned!NoEnd -> t.end
               [] OTHER -> t.outcome
  BY <1>2, <1>4 DEF Owned!Reported, Owned!NoTurn
<1>6. t.outcome \in {"none", "completed", "cancelled", "deadline", "failed"}
  BY <1>3 DEF TurnRecords
<1>7. t.outcome = "completed" => told = "completed" /\ t.ended = "none"
  BY <1>3, <1>5 DEF Truthful
<1>8. t.outcome = "cancelled" => \/ told = "cancelled" /\ t.ended = "stop"
                                 \/ told = "superseded" /\ t.ended = "replaced"
                                 \/ told = "expired" /\ t.ended = "silence"
  BY <1>3, <1>5, Marks DEF Truthful, EndedBy
<1>9. /\ t.outcome = "none" => told = "active"
      /\ t.outcome = "deadline" => told = "expired"
      /\ t.outcome = "failed" => told = "failed"
  BY <1>5
<1> QED BY <1>2, <1>4, <1>6, <1>7, <1>8, <1>9

\* What an owner is told of its turn is what came of it, whatever ended the turn
\* first and whatever came later: of _owned_payload and the marks that _op_speak
\* and _check_idle leave.
THEOREM ToldSafe == Spec => [](part = "owned" => Owned!ToldWhy)
<1>1. Init => ToldInv
  BY NoSuchTruthful DEF Init, Owned!Init, Owned!NoTurn, ToldInv
<1>2. OwnedInv /\ ToldInv /\ [Next]_vars => ToldInv'
  <2> SUFFICES ASSUME OwnedInv, ToldInv, [Next]_vars PROVE ToldInv'
    OBVIOUS
  <2>1. CASE Owned!Next
    BY <2>1, AnsweredStep
  <2>2. CASE UNCHANGED ownedVars
    BY <2>2, AnsweredStep DEF ownedVars, Owned!vars
  <2> QED BY <2>1, <2>2 DEF Next, vars
<1>3. OwnedInv /\ ToldInv => Owned!ToldWhy
  BY ToldOfTurn
<1> QED BY <1>1, <1>2, <1>3, OwnedAlways, ReadingSteps, PTL
-----------------------------------------------------------------------------
(* The desktop's voice (SystemVoice).                                      *)

\* A signal that waits tells of a cancelled shutdown.
CancelWaits == \E i \in 1..Len(bus) : bus[i] = FALSE

\* Only a watch is told anything, and what it was told last is what logind does; what
\* was requested is taken at each poll.
BusInv ==
  /\ bus \in Seq(BOOLEAN) /\ asked = FALSE
  /\ {fd, watch, refused, shutting, recent} \subseteq BOOLEAN
  /\ greeter = "start" => ~watch
  /\ ~watch => bus = <<>> /\ ~fd
  /\ Len(bus) # 0 /\ logind = "up" => bus[Len(bus)] = FALSE

\* A delay that is given up, or about to be, is one that logind asked about, unless a
\* cancellation waits that takes the inhibitor again; what is given up follows a
\* goodbye.
DelayInv ==
  /\ watch /\ logind = "up" /\ ~CancelWaits =>
       /\ fd \/ refused
       /\ greeter \in {"goodbye", "release", "failing"} => ~shutting
  /\ greeter = "release" => recent

DesktopInv == BusInv /\ DelayInv

\* Nothing was started.
LEMMA DesktopStart == Desktop!Init => DesktopInv
<1> SUFFICES ASSUME Desktop!Init PROVE DesktopInv
  OBVIOUS
<1>1. bus \in Seq(BOOLEAN) /\ bus = <<>> /\ Len(bus) = 0
  BY DEF Desktop!Init
<1> QED BY <1>1 DEF Desktop!Init, DesktopInv, BusInv, DelayInv

\* Whether a cancellation waits.
LEMMA Waits == ASSUME bus \in Seq(BOOLEAN) PROVE Desktop!Contains(bus, FALSE) <=> CancelWaits
BY DEF Desktop!Contains, CancelWaits

\* No signal, no cancellation; one more signal is the last.
LEMMA OneSignalMore ==
  ASSUME NEW s \in Seq(BOOLEAN), NEW b \in BOOLEAN
  PROVE  /\ Append(s, b) \in Seq(BOOLEAN) /\ Len(Append(s, b)) = Len(s) + 1
         /\ Append(s, b)[Len(s) + 1] = b /\ Len(s) \in Nat
         /\ \A i \in 1..Len(s) : Append(s, b)[i] = s[i]
OBVIOUS

\* Each step of the desktop's voice and of logind keeps it.
LEMMA DesktopStep == ASSUME DesktopInv, Desktop!Next \/ UNCHANGED Desktop!vars PROVE DesktopInv'
<1>1. /\ bus \in Seq(BOOLEAN) /\ asked = FALSE /\ {fd, watch, refused, shutting, recent} \subseteq BOOLEAN
      /\ greeter = "start" => ~watch
      /\ ~watch => bus = <<>> /\ ~fd
      /\ Len(bus) # 0 /\ logind = "up" => bus[Len(bus)] = FALSE
      /\ Len(bus) \in Nat
  BY DEF DesktopInv, BusInv
<1>2. /\ watch /\ logind = "up" /\ ~CancelWaits =>
           /\ fd \/ refused
           /\ greeter \in {"goodbye", "release", "failing"} => ~shutting
      /\ greeter = "release" => recent
  BY DEF DesktopInv, DelayInv
<1>3. ASSUME bus' = bus PROVE CancelWaits' <=> CancelWaits
  BY <1>3 DEF CancelWaits
<1>4. ASSUME bus' = <<>> PROVE bus' \in Seq(BOOLEAN) /\ Len(bus') = 0 /\ ~CancelWaits'
  BY <1>4 DEF CancelWaits
<1>5. ASSUME NEW how \in {"watch", "no watch", "fails"}, Desktop!Start(how) PROVE DesktopInv'
  BY <1>1, <1>2, <1>3, <1>5 DEF Desktop!Start, DesktopInv, BusInv, DelayInv
<1>6. ASSUME NEW event, Desktop!Wait(event) PROVE DesktopInv'
  BY <1>1, <1>2, <1>3, <1>6 DEF Desktop!Wait, DesktopInv, BusInv, DelayInv
<1>7. ASSUME NEW granted \in BOOLEAN, Desktop!Poll(granted) PROVE DesktopInv'
  <2>1. /\ greeter = "poll" /\ bus' = <<>> /\ asked' = FALSE
        /\ watch' = watch /\ recent' = recent /\ logind' = logind
        /\ greeter' = IF menu \/ shutting' THEN "goodbye" ELSE "chores"
    BY <1>7 DEF Desktop!Poll, Desktop!Prepared
  <2>2. /\ fd' = (fd \/ (granted /\ CancelWaits))
        /\ refused' = IF CancelWaits THEN ~fd' ELSE refused
    BY <1>1, <1>7, Waits DEF Desktop!Poll, Desktop!Prepared
  <2>3. shutting' \in BOOLEAN /\ (shutting' => Len(bus) # 0 /\ logind # "up")
    <3>1. CASE bus = <<>>
      BY <1>1, <1>7, <3>1 DEF Desktop!Poll, Desktop!Asked
    <3>2. CASE bus # <<>>
      <4>1. Len(bus) # 0 /\ bus[Len(bus)] \in BOOLEAN
        BY <1>1, <3>2
      <4>2. shutting' = bus[Len(bus)]
        BY <1>7, <3>2 DEF Desktop!Poll, Desktop!Asked, Desktop!Last
      <4> QED BY <1>1, <4>1, <4>2
    <3> QED BY <3>1, <3>2
  <2>a. CancelWaits => watch
    BY <1>1 DEF CancelWaits
  <2>4. BusInv'
    BY <1>1, <2>a, <1>4, <2>1, <2>2, <2>3 DEF BusInv
  <2>5. DelayInv'
    BY <1>1, <1>2, <1>4, <2>1, <2>2, <2>3 DEF DelayInv
  <2> QED BY <2>4, <2>5 DEF DesktopInv
<1>8. ASSUME NEW said \in BOOLEAN, Desktop!Goodbye(said) PROVE DesktopInv'
  BY <1>1, <1>2, <1>3, <1>8 DEF Desktop!Goodbye, DesktopInv, BusInv, DelayInv
<1>9. CASE Desktop!Release
  BY <1>1, <1>2, <1>3, <1>9 DEF Desktop!Release, DesktopInv, BusInv, DelayInv
<1>10. ASSUME NEW ok, Desktop!Chores(ok) PROVE DesktopInv'
  BY <1>1, <1>2, <1>3, <1>10 DEF Desktop!Chores, DesktopInv, BusInv, DelayInv
<1>11. CASE Desktop!Terminate
  BY <1>1, <1>2, <1>3, <1>11 DEF Desktop!Terminate, DesktopInv, BusInv, DelayInv
<1>12. CASE Desktop!Close
  BY <1>1, <1>2, <1>4, <1>12 DEF Desktop!Close, DesktopInv, BusInv, DelayInv
<1>13. CASE Desktop!Later
  BY <1>1, <1>2, <1>3, <1>13 DEF Desktop!Later, DesktopInv, BusInv, DelayInv
<1>14. CASE Desktop!ShutsDown
  BY <1>1, <1>2, <1>3, <1>14 DEF Desktop!ShutsDown, DesktopInv, BusInv, DelayInv
<1>15. ASSUME NEW down \in BOOLEAN, Desktop!Signals(down) PROVE DesktopInv'
  <2>1. /\ logind' = IF down THEN "delayed" ELSE "up"
        /\ bus' = IF watch THEN Append(bus, down) ELSE bus
        /\ greeter' = greeter /\ watch' = watch /\ fd' = fd /\ refused' = refused
        /\ asked' = asked /\ shutting' = shutting /\ recent' = recent
    BY <1>15 DEF Desktop!Signals
  <2>2. CASE ~watch
    BY <1>1, <1>2, <1>3, <2>1, <2>2 DEF DesktopInv, BusInv, DelayInv
  <2>3. CASE watch
    <3>1. bus' = Append(bus, down)
      BY <2>1, <2>3
    <3>2. /\ bus' \in Seq(BOOLEAN) /\ Len(bus') = Len(bus) + 1 /\ bus'[Len(bus')] = down
          /\ Len(bus') \in 1..Len(bus')
      BY <1>1, <3>1, OneSignalMore
    <3>3. ~down => CancelWaits'
      BY <3>2 DEF CancelWaits
    <3> QED BY <1>1, <1>2, <2>1, <2>3, <3>2, <3>3 DEF DesktopInv, BusInv, DelayInv
  <2> QED BY <2>2, <2>3
<1>16. CASE UNCHANGED Desktop!vars
  BY <1>1, <1>2, <1>3, <1>16 DEF Desktop!vars, DesktopInv, BusInv, DelayInv
<1> QED
  BY <1>5, <1>6, <1>7, <1>8, <1>9, <1>10, <1>11, <1>12, <1>13, <1>14, <1>15, <1>16 DEF Desktop!Next

\* A goodbye comes before the delay is given up by a loop that goes on.
LEMMA GoodbyeStep ==
  ASSUME DesktopInv, Desktop!Next, fd, ~fd', greeter' = "wait" PROVE recent
<1>1. greeter = "release" => recent
  BY DEF DesktopInv, DelayInv
<1>2. CASE Desktop!Release
  BY <1>1, <1>2 DEF Desktop!Release
<1>3. ASSUME NEW granted, Desktop!Poll(granted) PROVE FALSE
  BY <1>3 DEF Desktop!Poll, Desktop!Prepared
<1>4. ASSUME NEW how, Desktop!Start(how) PROVE recent
  BY <1>4 DEF Desktop!Start, DesktopInv, BusInv
<1> QED BY <1>2, <1>3, <1>4
  DEF Desktop!Next, Desktop!Wait, Desktop!Goodbye, Desktop!Chores, Desktop!Signals, Desktop!Terminate,
      Desktop!Close, Desktop!Later, Desktop!ShutsDown

\* A cancelled shutdown leaves the next one covered, unless logind refuses, and a delay
\* is only given up after a goodbye by a loop that goes on: of run and ShutdownWatch,
\* for any signals.
THEOREM DelaySafe == Spec => [](part = "desktop" => Desktop!NextIsCovered) /\ Desktop!GoodbyeFirst
<1>1. Init => DesktopInv
  BY DesktopStart DEF Init
<1>2. DesktopInv /\ [Next]_vars => DesktopInv'
  <2> SUFFICES ASSUME DesktopInv, [Next]_vars PROVE DesktopInv'
    OBVIOUS
  <2>1. CASE Desktop!Next
    BY <2>1, DesktopStep
  <2>2. CASE UNCHANGED greeterVars
    BY <2>2, DesktopStep DEF greeterVars, Desktop!vars
  <2> QED BY <2>1, <2>2 DEF Next, vars
<1>3. DesktopInv => (part = "desktop" => Desktop!NextIsCovered)
  <2> SUFFICES ASSUME DesktopInv, greeter = "wait", watch, bus = <<>>, logind = "up", ~refused PROVE fd
    BY DEF Desktop!NextIsCovered
  <2>1. ~CancelWaits
    BY DEF CancelWaits
  <2> QED BY <2>1 DEF DesktopInv, DelayInv
<1>4. DesktopInv /\ [Next]_vars => [fd /\ ~fd' /\ greeter' = "wait" => recent]_(Desktop!vars)
  <2> SUFFICES ASSUME DesktopInv, [Next]_vars, fd, ~fd', greeter' = "wait" PROVE recent
    OBVIOUS
  <2>1. CASE Desktop!Next
    BY <2>1, GoodbyeStep
  <2>2. CASE UNCHANGED greeterVars
    BY <2>2 DEF greeterVars
  <2> QED BY <2>1, <2>2 DEF Next, vars
<1>5. Spec => []DesktopInv
  BY <1>1, <1>2, ReadingSteps, PTL
<1> QED BY <1>3, <1>4, <1>5, ReadingSteps, PTL DEF Desktop!GoodbyeFirst
-----------------------------------------------------------------------------
(* The text (SpeechText): the smallest and the greatest of some places,    *)
(* functions that are defined by the value before, and parts of sequences. *)

\* The text's filter is the one the lemmas are about.
LEMMA TextFilter ==
  /\ \A s, kept : Text!Picked(s, kept) = Picked(s, kept)
  /\ \A s, Kept1 : Text!Only(s, Kept1) = Only(s, Kept1)
BY DEF Text!Picked, Picked, Text!Only, Only

\* The text's bounds.
LEMMA TextBounds == MaxChars \in Nat /\ MaxChunk \in Nat \ {0} /\ BoxRun \in Nat \ {0}
BY ReadingAssumption

\* Places have a first and a last.
LEMMA Extremes ==
  ASSUME NEW n \in Nat, NEW S, S \subseteq 1..n, S # {}
  PROVE  /\ Text!Min(S) \in S /\ \A x \in S : Text!Min(S) <= x
         /\ Text!Max(S) \in S /\ \A x \in S : x <= Text!Max(S)
<1>1. S \subseteq Nat
  OBVIOUS
<1>2. \E x \in S : \A y \in S : x <= y
  BY <1>1, Least
<1>3. \E x \in S : \A y \in S : x >= y
  <2>1. PICK x \in S : \A y \in S : y <= x
    BY Greatest
  <2>2. \A y \in S : x >= y
    BY <1>1, <2>1
  <2> QED BY <2>2
<1>4. Text!Min(S) \in S /\ \A x \in S : Text!Min(S) <= x
  BY <1>2 DEF Text!Min
<1>5. Text!Max(S) \in S /\ \A x \in S : Text!Max(S) >= x
  BY <1>3 DEF Text!Max
<1>6. \A x \in S : x <= Text!Max(S)
  BY <1>1, <1>5
<1> QED BY <1>4, <1>5, <1>6

\* There is one of each.
LEMMA FirstIs ==
  ASSUME NEW n \in Nat, NEW S, S \subseteq 1..n, NEW m \in S, \A x \in S : m <= x
  PROVE  Text!Min(S) = m
<1>1. Text!Min(S) \in S /\ Text!Min(S) <= m /\ m <= Text!Min(S)
  BY Extremes
<1>2. PICK k : k = Text!Min(S)
  OBVIOUS
<1>a. k \in S /\ k <= m /\ m <= k
  BY <1>1, <1>2
<1>3. k \in Nat /\ m \in Nat /\ k <= m /\ m <= k
  BY <1>a
<1>4. k = m
  BY <1>3
<1> QED BY <1>2, <1>4

\* One that is greatest is the greatest.
LEMMA LastIs ==
  ASSUME NEW n \in Nat, NEW S, S \subseteq 1..n, NEW m \in S, \A x \in S : x <= m
  PROVE  Text!Max(S) = m
<1>1. Text!Max(S) \in S /\ Text!Max(S) <= m /\ m <= Text!Max(S)
  BY Extremes
<1>2. PICK k : k = Text!Max(S)
  OBVIOUS
<1>a. k \in S /\ k <= m /\ m <= k
  BY <1>1, <1>2
<1>3. k \in Nat /\ m \in Nat /\ k <= m /\ m <= k
  BY <1>a
<1>4. k = m
  BY <1>3
<1> QED BY <1>2, <1>4

\* The next value of a function, by its place and the value before.
Follows(g, v, F, k) == g[0] = v /\ \A n \in 1..k : g[n] = F[<<n, g[n - 1]>>]

\* There is such a function.
LEMMA Recursion ==
  ASSUME NEW V, NEW v \in V, NEW F, \A n \in Nat, x \in V : F[<<n, x>>] \in V, NEW k \in Nat
  PROVE  \E g \in [0..k -> V] : Follows(g, v, F, k)
<1> DEFINE Bad == {n \in Nat : ~\E g \in [0..n -> V] : Follows(g, v, F, n)}
<1>1. SUFFICES ASSUME Bad # {} PROVE FALSE
  OBVIOUS
<1>2. PICK m \in Bad : \A n \in Bad : m <= n
  BY <1>1, Least
<1>3. m # 0
  <2> SUFFICES ASSUME m = 0 PROVE FALSE
    OBVIOUS
  <2> DEFINE g == [n \in 0..0 |-> v]
  <2>1. g \in [0..0 -> V] /\ g[0] = v
    OBVIOUS
  <2>2. Follows(g, v, F, 0)
    BY <2>1 DEF Follows
  <2> QED BY <1>2, <2>1, <2>2
<1>4. m \in Nat /\ m - 1 \in Nat /\ m - 1 \notin Bad
  BY <1>2, <1>3
<1>5. PICK h \in [0..(m - 1) -> V] : Follows(h, v, F, m - 1)
  BY <1>4
<1> DEFINE g == [n \in 0..m |-> IF n = m THEN F[<<m, h[m - 1]>>] ELSE h[n]]
<1>6. F[<<m, h[m - 1]>>] \in V
  BY <1>4
<1>7. g \in [0..m -> V]
  BY <1>4, <1>6
<1>8. g[m] = F[<<m, h[m - 1]>>] /\ \A n \in 0..(m - 1) : g[n] = h[n]
  BY <1>4
<1> HIDE DEF g
<1>9. ASSUME NEW n \in 1..m PROVE g[n] = F[<<n, g[n - 1]>>]
  <2>1. n - 1 \in 0..(m - 1)
    BY <1>4
  <2>2. CASE n = m
    BY <1>8, <2>1, <2>2
  <2>3. CASE n # m
    <3>1. n \in 1..(m - 1) /\ n \in 0..(m - 1)
      BY <1>4, <2>3
    <3> QED BY <1>5, <1>8, <2>1, <3>1 DEF Follows
  <2> QED BY <2>2, <2>3
<1>10. g[0] = v
  BY <1>4, <1>5, <1>8 DEF Follows
<1> QED BY <1>2, <1>7, <1>9, <1>10 DEF Follows

\* A part of a sequence.
LEMMA PartIs ==
  ASSUME NEW S, NEW s \in Seq(S), NEW a \in Nat \ {0}, NEW b \in 0..Len(s), a <= b + 1
  PROVE  /\ SubSeq(s, a, b) \in Seq(S) /\ Len(SubSeq(s, a, b)) = b - a + 1
         /\ \A i \in 1..(b - a + 1) : SubSeq(s, a, b)[i] = s[a + i - 1]
<1>1. \A i \in a..b : s[i] \in S
  OBVIOUS
<1>2. a \in Int /\ b \in Int /\ Len(s) \in Nat
  OBVIOUS
<1>3. /\ SubSeq(s, a, b) \in Seq(S)
      /\ Len(SubSeq(s, a, b)) = IF a <= b THEN b - a + 1 ELSE 0
      /\ \A i \in 1..(b - a + 1) : SubSeq(s, a, b)[i] = s[a + i - 1]
  BY <1>1, <1>2, SubSeqProperties
<1>4. ~(a <= b) => b - a + 1 = 0
  BY <1>2
<1> QED BY <1>3, <1>4

-----------------------------------------------------------------------------
(* What is left of a text when the separators at its ends are taken away.  *)

\* From the first ink to the last.
LEMMA StripIs ==
  ASSUME NEW S, NEW s \in Seq(S)
  PROVE  \/ Text!Ink(s) = {} /\ Text!Strip(s) = <<>> /\ Text!StripRight(s) = <<>>
         \/ \E a, b \in 1..Len(s) :
              /\ a <= b /\ s[a] \notin Text!Spaces /\ s[b] \notin Text!Spaces
              /\ \A i \in 1..Len(s) : s[i] \notin Text!Spaces => a <= i /\ i <= b
              /\ Text!Strip(s) = SubSeq(s, a, b) /\ Text!StripRight(s) = SubSeq(s, 1, b)
<1>1. CASE Text!Ink(s) = {}
  BY <1>1 DEF Text!Strip, Text!StripRight
<1>2. CASE Text!Ink(s) # {}
  <2> DEFINE a == Text!Min(Text!Ink(s))
             b == Text!Max(Text!Ink(s))
  <2>1. Text!Ink(s) \subseteq 1..Len(s) /\ Len(s) \in Nat
    BY DEF Text!Ink
  <2>2. /\ a \in Text!Ink(s) /\ \A i \in Text!Ink(s) : a <= i
        /\ b \in Text!Ink(s) /\ \A i \in Text!Ink(s) : i <= b
    BY <1>2, <2>1, Extremes
  <2>3. Text!Strip(s) = SubSeq(s, a, b) /\ Text!StripRight(s) = SubSeq(s, 1, b)
    BY <1>2 DEF Text!Strip, Text!StripRight
  <2> HIDE DEF a, b
  <2>4. a \in 1..Len(s) /\ b \in 1..Len(s) /\ a <= b
    BY <2>1, <2>2
  <2>5. s[a] \notin Text!Spaces /\ s[b] \notin Text!Spaces
    BY <2>2 DEF Text!Ink
  <2>6. \A i \in 1..Len(s) : s[i] \notin Text!Spaces => a <= i /\ i <= b
    BY <2>2 DEF Text!Ink
  <2> QED BY <2>3, <2>4, <2>5, <2>6
<1> QED BY <1>1, <1>2

\* It is a sequence of the same values, and no longer.
LEMMA StripType ==
  ASSUME NEW S, NEW s \in Seq(S)
  PROVE  /\ Text!Strip(s) \in Seq(S) /\ Len(Text!Strip(s)) <= Len(s)
         /\ Text!StripRight(s) \in Seq(S) /\ Len(Text!StripRight(s)) <= Len(s)
<1>1. CASE Text!Ink(s) = {} /\ Text!Strip(s) = <<>> /\ Text!StripRight(s) = <<>>
  BY <1>1
<1>2. ASSUME NEW a \in 1..Len(s), NEW b \in 1..Len(s), a <= b,
             Text!Strip(s) = SubSeq(s, a, b), Text!StripRight(s) = SubSeq(s, 1, b)
      PROVE  /\ Text!Strip(s) \in Seq(S) /\ Len(Text!Strip(s)) <= Len(s)
             /\ Text!StripRight(s) \in Seq(S) /\ Len(Text!StripRight(s)) <= Len(s)
  <2>1. b \in 0..Len(s) /\ Len(s) \in Nat /\ a \in Nat \ {0} /\ a <= b + 1 /\ 1 <= b + 1
    BY <1>2
  <2>2. SubSeq(s, a, b) \in Seq(S) /\ Len(SubSeq(s, a, b)) = b - a + 1
    BY <2>1, PartIs
  <2>3. SubSeq(s, 1, b) \in Seq(S) /\ Len(SubSeq(s, 1, b)) = b - 1 + 1
    BY <2>1, PartIs
  <2>4. b - a + 1 <= Len(s) /\ b - 1 + 1 <= Len(s)
    BY <1>2, <2>1
  <2> QED BY <1>2, <2>2, <2>3, <2>4
<1> QED BY <1>1, <1>2, StripIs

-----------------------------------------------------------------------------
(* Conditioning.                                                           *)

\* No two separators in a row.
Single(s) ==
  \A i \in 1..Len(s) : i + 1 \in 1..Len(s) => ~(s[i] \in Text!Spaces /\ s[i + 1] \in Text!Spaces)

\* Nor in a part of the text.
LEMMA SinglePart ==
  ASSUME NEW S, NEW s \in Seq(S), Single(s), NEW a \in 1..Len(s), NEW b \in 1..Len(s), a <= b
  PROVE  Single(SubSeq(s, a, b))
<1> DEFINE t == SubSeq(s, a, b)
<1>1. b \in 0..Len(s) /\ Len(s) \in Nat /\ a \in Nat \ {0} /\ a <= b + 1
  OBVIOUS
<1>2. Len(t) = b - a + 1 /\ \A i \in 1..(b - a + 1) : t[i] = s[a + i - 1]
  BY <1>1, PartIs
<1> HIDE DEF t
<1>3. ASSUME NEW i \in 1..Len(t), i + 1 \in 1..Len(t)
      PROVE  ~(t[i] \in Text!Spaces /\ t[i + 1] \in Text!Spaces)
  <2>1. t[i] = s[a + i - 1] /\ t[i + 1] = s[a + (i + 1) - 1]
    BY <1>2, <1>3
  <2>2. a + i - 1 \in 1..Len(s) /\ (a + i - 1) + 1 \in 1..Len(s) /\ a + (i + 1) - 1 = (a + i - 1) + 1
    BY <1>1, <1>2, <1>3
  <2> QED BY <2>1, <2>2 DEF Single
<1> QED BY <1>3 DEF Single, t

\* An opener goes with what it opened.
LEMMA EscapesGo ==
  ASSUME NEW S, NEW s \in Seq(S)
  PROVE  Text!StripEscapes(s) \in Seq(S \ {"open"})
<1> DEFINE F == [p \in Nat \X BOOLEAN |-> IF p[2] THEN s[p[1]] # "term" ELSE s[p[1]] = "open"]
           Is(g) == g = [n \in 0..Len(s) |->
                           n > 0 /\ IF g[n - 1] THEN s[n] # "term" ELSE s[n] = "open"]
           f == CHOOSE g : Is(g)
           kept == {n \in 1..Len(s) : ~f[n - 1] /\ ~f[n]}
           t == Text!StripEscapes(s)
<1>1. Len(s) \in Nat
  OBVIOUS
<1>2. \E g : Is(g)
  <2>1. \A n \in Nat, x \in BOOLEAN : F[<<n, x>>] \in BOOLEAN
    OBVIOUS
  <2>a. \A n \in Nat, x \in BOOLEAN :
          F[<<n, x>>] = IF x THEN s[n] # "term" ELSE s[n] = "open"
    OBVIOUS
  <2> HIDE DEF F
  <2>2. PICK g \in [0..Len(s) -> BOOLEAN] : Follows(g, FALSE, F, Len(s))
    BY <1>1, <2>1, Recursion
  <2>3. ASSUME NEW n \in 0..Len(s)
        PROVE  g[n] = (n > 0 /\ IF g[n - 1] THEN s[n] # "term" ELSE s[n] = "open")
    <3>1. CASE n = 0
      BY <2>2, <3>1 DEF Follows
    <3>2. CASE n # 0
      <4>1. n \in 1..Len(s) /\ n - 1 \in 0..Len(s) /\ n \in Nat /\ n > 0
        BY <1>1, <3>2
      <4>2. g[n] = F[<<n, g[n - 1]>>] /\ g[n - 1] \in BOOLEAN
        BY <2>2, <4>1 DEF Follows
      <4>3. g[n] = IF g[n - 1] THEN s[n] # "term" ELSE s[n] = "open"
        BY <2>a, <4>1, <4>2
      <4> QED BY <4>1, <4>3
    <3> QED BY <3>1, <3>2
  <2> QED BY <2>2, <2>3
<1>3. Is(f)
  BY <1>2
<1>4. t = Picked(s, kept)
  BY TextFilter DEF Text!StripEscapes
<1>5. \A n \in kept : n \in 1..Len(s) /\ s[n] # "open"
  <2> SUFFICES ASSUME NEW n \in kept PROVE s[n] # "open"
    OBVIOUS
  <2>1. n \in 1..Len(s) /\ n \in 0..Len(s) /\ n > 0 /\ ~f[n - 1] /\ ~f[n]
    BY <1>1
  <2> HIDE DEF f, kept
  <2>2. f[n] = (n > 0 /\ IF f[n - 1] THEN s[n] # "term" ELSE s[n] = "open")
    BY <1>3, <2>1
  <2> QED BY <2>1, <2>2
<1> HIDE DEF kept, t, f
<1>6. t \in Seq(S) /\ \E m : ComesFrom(t, s, kept, Len(s), m)
  BY <1>4, PickedPlaces
<1>7. \A j \in 1..Len(t) : t[j] \in S \ {"open"}
  BY <1>5, <1>6 DEF ComesFrom
<1>8. t \in Seq(S \ {"open"})
  BY <1>6, <1>7
<1> QED BY <1>8 DEF t

\* The text without controls, and what a border leaves, are of the same values.
LEMMA BordersGo ==
  ASSUME NEW S, NEW s \in Seq(S) PROVE Text!DropBoxRuns(s) \in Seq(S)
<1>1. \E kept : Text!DropBoxRuns(s) = Picked(s, kept)
  BY TextFilter DEF Text!DropBoxRuns
<1> QED BY <1>1, PickedPlaces

\* One separator between two words.
LEMMA RunsCollapse ==
  ASSUME NEW S, "line" \in S, NEW s \in Seq(S)
  PROVE  Text!Collapse(s) \in Seq(S) /\ Single(Text!Collapse(s))
<1> DEFINE BreaksLine(i) ==
             \E j \in i..Len(s) : s[j] = "line" /\ \A k \in i..j : s[k] \in Text!Spaces
           joined == [i \in 1..Len(s) |-> IF BreaksLine(i) THEN "line" ELSE s[i]]
           kept == {i \in 1..Len(s) : s[i] \in Text!Spaces => i = 1 \/ s[i - 1] \notin Text!Spaces}
           t == Text!Collapse(s)
<1>1. t = Picked(joined, kept)
  BY TextFilter DEF Text!Collapse
<1>2. Len(s) \in Nat /\ \A i \in 1..Len(s) : s[i] \in S
  OBVIOUS
<1>3. \A i \in 1..Len(s) : joined[i] \in Text!Spaces <=> s[i] \in Text!Spaces
  <2> SUFFICES ASSUME NEW i \in 1..Len(s), BreaksLine(i) PROVE s[i] \in Text!Spaces
    BY DEF Text!Spaces
  <2>1. PICK j \in i..Len(s) : \A k \in i..j : s[k] \in Text!Spaces
    OBVIOUS
  <2>2. i \in i..j
    BY <2>1
  <2> QED BY <2>1, <2>2
<1>4. joined \in Seq(S) /\ Len(joined) = Len(s)
  <2>1. \A i \in 1..Len(s) : (IF BreaksLine(i) THEN "line" ELSE s[i]) \in S
    BY <1>2
  <2> HIDE DEF BreaksLine
  <2>2. joined \in [1..Len(s) -> S]
    BY <2>1
  <2> QED BY <1>2, <2>2
<1>5. \A i \in 1..Len(s) :
        i \in kept <=> (s[i] \in Text!Spaces => i = 1 \/ s[i - 1] \notin Text!Spaces)
  OBVIOUS
<1> HIDE DEF joined, kept, t
<1>6. t \in Seq(S) /\ \E m : ComesFrom(t, joined, kept, Len(joined), m)
  BY <1>1, <1>4, PickedPlaces
<1>7. PICK m : ComesFrom(t, joined, kept, Len(s), m)
  BY <1>4, <1>6
<1>8. ASSUME NEW i \in 1..Len(t), i + 1 \in 1..Len(t),
             t[i] \in Text!Spaces, t[i + 1] \in Text!Spaces
      PROVE  FALSE
  <2> DEFINE p == m[i]
             q == m[i + 1]
  <2>1. p \in kept \cap (1..Len(s)) /\ q \in kept \cap (1..Len(s)) /\ p < q
    <3>1. i < i + 1
      OBVIOUS
    <3> QED BY <1>7, <1>8, <3>1 DEF ComesFrom
  <2>2. s[p] \in Text!Spaces /\ s[q] \in Text!Spaces
    <3>1. t[i] = joined[p] /\ t[i + 1] = joined[q]
      BY <1>7, <1>8 DEF ComesFrom
    <3> QED BY <1>3, <1>8, <2>1, <3>1
  <2> HIDE DEF p, q
  <2>3. q # 1 /\ s[q - 1] \notin Text!Spaces /\ q - 1 \in 1..Len(s)
    BY <1>2, <1>5, <2>1, <2>2
  <2>4. q - 1 \in kept \cap (1..Len(s))
    BY <1>5, <2>3
  <2>5. PICK j \in 1..Len(t) : m[j] = q - 1
    BY <1>7, <2>4 DEF ComesFrom
  <2>6. p < q - 1
    BY <2>1, <2>2, <2>3
  <2>7. ~(j < i) /\ ~(j = i)
    <3>1. j < i => m[j] < m[i]
      BY <1>7, <1>8, <2>5 DEF ComesFrom
    <3> QED BY <1>2, <2>1, <2>3, <2>5, <2>6, <3>1 DEF p
  <2>8. ~(j > i + 1) /\ ~(j = i + 1)
    <3>1. i + 1 < j => m[i + 1] < m[j]
      BY <1>7, <1>8, <2>5 DEF ComesFrom
    <3> QED BY <1>2, <2>1, <2>3, <2>5, <3>1 DEF q
  <2> QED BY <2>5, <2>7, <2>8
<1>9. Single(t)
  BY <1>8 DEF Single
<1> QED BY <1>6, <1>9 DEF t

\* What may be spoken.
Spoken == Text!Tokens \ {"term", "open"}

\* condition_text.
LEMMA Conditioned ==
  ASSUME NEW s \in Seq(Text!Tokens)
  PROVE  Text!ConditionText(s) \in Seq(Spoken) /\ Single(Text!ConditionText(s))
<1> DEFINE a == Text!StripEscapes(s)
           b == Text!DropControls(a)
           c == Text!DropBoxRuns(b)
           d == Text!Collapse(c)
<1>1. a \in Seq(Text!Tokens \ {"open"})
  BY EscapesGo
<1>2. b \in Seq(Spoken)
  <2> HIDE DEF a
  <2>1. b = Only(a, Text!Tokens \ {"term"})
    BY TextFilter DEF Text!DropControls
  <2>2. b \in Seq((Text!Tokens \ {"open"}) \cap (Text!Tokens \ {"term"}))
    BY <1>1, <2>1, OnlyType
  <2>3. (Text!Tokens \ {"open"}) \cap (Text!Tokens \ {"term"}) = Spoken
    BY DEF Spoken
  <2> QED BY <2>2, <2>3
<1> HIDE DEF b
<1>3. c \in Seq(Spoken)
  BY <1>2, BordersGo
<1> HIDE DEF c
<1>4. d \in Seq(Spoken) /\ Single(d)
  <2>1. "line" \in Spoken
    BY DEF Spoken, Text!Tokens
  <2> QED BY <1>3, <2>1, RunsCollapse
<1>5. Text!ConditionText(s) = Text!Strip(d)
  BY DEF Text!ConditionText, b, c
<1> HIDE DEF d
<1>6. Single(Text!Strip(d))
  <2>1. CASE Text!Strip(d) = <<>>
    BY <2>1 DEF Single
  <2>2. ASSUME NEW i \in 1..Len(d), NEW j \in 1..Len(d), i <= j, Text!Strip(d) = SubSeq(d, i, j)
        PROVE  Single(Text!Strip(d))
    BY <1>4, <2>2, SinglePart
  <2> QED BY <1>4, <2>1, <2>2, StripIs
<1> QED BY <1>4, <1>5, <1>6, StripType

\* The budget of the caller: cut at its end, and said so.
LEMMA WithinBudget ==
  ASSUME NEW s \in Seq(Spoken), Single(s)
  PROVE  /\ Text!Budgeted(s) \in Seq(Spoken) /\ Single(Text!Budgeted(s))
         /\ Len(Text!Budgeted(s)) <= MaxChars + 2
<1>1. MaxChars \in Nat /\ Len(s) \in Nat
  BY TextBounds
<1>2. CASE Len(s) <= MaxChars
  BY <1>1, <1>2 DEF Text!Budgeted
<1>3. CASE ~(Len(s) <= MaxChars) /\ MaxChars = 0
  <2>1. Text!Budgeted(s) = <<>>
    BY <1>3 DEF Text!Budgeted
  <2> QED BY <1>1, <2>1 DEF Single
<1>4. CASE ~(Len(s) <= MaxChars) /\ MaxChars # 0
  <2> DEFINE a == SubSeq(s, 1, MaxChars)
             b == Text!StripRight(a)
             note == <<"blank", "word">>
             t == b \o note
  <2>1. Text!Budgeted(s) = t
    BY <1>4 DEF Text!Budgeted
  <2>2. MaxChars \in 1..Len(s) /\ 1 \in 1..Len(s) /\ MaxChars \in 0..Len(s) /\ 1 <= MaxChars
        /\ 1 <= MaxChars + 1
    BY <1>1, <1>4
  <2>3. a \in Seq(Spoken) /\ Len(a) = MaxChars
    BY <1>1, <2>2, PartIs
  <2>4. Single(a)
    BY <2>2, SinglePart
  <2>5. note \in Seq(Spoken) /\ Len(note) = 2 /\ note[1] = "blank" /\ note[2] = "word"
    BY DEF Spoken, Text!Tokens
  <2> HIDE DEF a, note
  <2>6. b \in Seq(Spoken) /\ Len(b) <= MaxChars
    BY <2>3, StripType
  <2>7. Single(b) /\ (Len(b) # 0 => b[Len(b)] \notin Text!Spaces)
    <3>1. CASE b = <<>>
      BY <3>1 DEF Single
    <3>2. ASSUME NEW j \in 1..Len(a), a[j] \notin Text!Spaces, b = SubSeq(a, 1, j)
          PROVE  Single(b) /\ b[Len(b)] \notin Text!Spaces
      <4>1. 1 \in 1..Len(a) /\ 1 <= j /\ j \in 0..Len(a) /\ 1 <= j + 1 /\ j \in Nat
        BY <2>3, <3>2
      <4>2. Single(b)
        BY <2>3, <2>4, <3>2, <4>1, SinglePart
      <4>3. Len(b) = j - 1 + 1 /\ \A i \in 1..(j - 1 + 1) : b[i] = a[1 + i - 1]
        BY <2>3, <3>2, <4>1, PartIs
      <4>4. Len(b) = j /\ b[j] = a[j]
        BY <4>1, <4>3
      <4> QED BY <3>2, <4>2, <4>4
    <3> QED BY <2>3, <3>1, <3>2, StripIs
  <2> HIDE DEF b
  <2>8. /\ t \in Seq(Spoken) /\ Len(t) = Len(b) + 2 /\ Len(b) \in Nat
        /\ \A i \in 1..(Len(b) + 2) : t[i] = IF i <= Len(b) THEN b[i] ELSE note[i - Len(b)]
    <3>1. /\ b \o note \in Seq(Spoken) /\ Len(b \o note) = Len(b) + Len(note)
          /\ \A i \in 1..(Len(b) + Len(note)) :
               (b \o note)[i] = IF i <= Len(b) THEN b[i] ELSE note[i - Len(b)]
      BY <2>5, <2>6, ConcatProperties
    <3>2. Len(b) \in Nat
      BY <2>6
    <3> QED BY <2>5, <3>1, <3>2
  <2> HIDE DEF t
  <2>9. ASSUME NEW i \in 1..Len(t), i + 1 \in 1..Len(t)
        PROVE  ~(t[i] \in Text!Spaces /\ t[i + 1] \in Text!Spaces)
    <3>1. CASE i + 1 <= Len(b)
      <4>1. i \in 1..Len(b) /\ i + 1 \in 1..Len(b) /\ t[i] = b[i] /\ t[i + 1] = b[i + 1]
        BY <2>8, <2>9, <3>1
      <4> QED BY <2>7, <4>1 DEF Single
    <3>2. CASE i = Len(b)
      <4>1. t[i] = b[Len(b)] /\ Len(b) # 0
        BY <2>8, <2>9, <3>2
      <4> QED BY <2>7, <4>1
    <3>3. CASE i = Len(b) + 1
      <4>1. t[i + 1] = note[i + 1 - Len(b)] /\ i + 1 - Len(b) = 2
        BY <2>8, <2>9, <3>3
      <4> QED BY <2>5, <4>1 DEF Text!Spaces
    <3> QED BY <2>8, <2>9, <3>1, <3>2, <3>3
  <2>10. Single(t)
    BY <2>9 DEF Single
  <2>11. Len(t) <= MaxChars + 2
    BY <1>1, <2>6, <2>8
  <2> QED BY <2>1, <2>8, <2>10, <2>11
<1> QED BY <1>2, <1>3, <1>4

-----------------------------------------------------------------------------
(* Where the chunker cuts.                                                 *)

\* Where a scan that stopped cuts, case by case.
LEMMA CutAtIs ==
  ASSUME NEW s, NEW from \in Nat, NEW i \in Nat
  PROVE  /\ i - from >= MaxChunk => Text!CutAt(s, from, i) = Text!ForceCut(s, from, i)
         /\ i - from < MaxChunk /\ s[i] = "line" => Text!CutAt(s, from, i) = i + 1
         /\ i - from < MaxChunk /\ s[i] # "line" =>
              Text!CutAt(s, from, i) = IF Text!Decided(s, i) THEN Text!After(s, i) ELSE 0
<1>1. MaxChunk \in Nat
  BY TextBounds
<1>2. CASE i - from >= MaxChunk
  <2>1. ~(i - from < MaxChunk)
    BY <1>1, <1>2
  <2> QED BY <1>2, <2>1 DEF Text!CutAt
<1>3. CASE i - from < MaxChunk
  <2>1. ~(i - from >= MaxChunk)
    BY <1>1, <1>3
  <2> QED BY <1>3, <2>1 DEF Text!CutAt
<1> QED BY <1>1, <1>2, <1>3

\* Behind a full stop and its closing brackets.
LEMMA AfterIs ==
  ASSUME NEW S, NEW s \in Seq(S), NEW i \in 1..Len(s)
  PROVE  /\ Text!After(s, i) \in (i + 1)..(Len(s) + 1)
         /\ \A j \in (i + 1)..(Text!After(s, i) - 1) : s[j] = ")"
         /\ Text!After(s, i) <= Len(s) => s[Text!After(s, i)] # ")"
         /\ Text!Decided(s, i) <=> Text!After(s, i) <= Len(s)
<1> DEFINE others == {j \in (i + 1)..Len(s) : s[j] # ")"} \cup {Len(s) + 1}
           a == Text!After(s, i)
<1>1. Len(s) \in Nat /\ Len(s) + 1 \in Nat /\ i \in Nat
  OBVIOUS
<1>2. others \subseteq 1..(Len(s) + 1) /\ others # {}
  BY <1>1
<1>3. a = Text!Min(others)
  BY DEF Text!After
<1>4. \A j \in others : j \in (i + 1)..(Len(s) + 1) /\ (j <= Len(s) => s[j] # ")")
  BY <1>1
<1>5. \A j \in (i + 1)..Len(s) : s[j] # ")" => j \in others
  OBVIOUS
<1> HIDE DEF others, a
<1>6. a \in others /\ \A x \in others : a <= x
  BY <1>1, <1>2, <1>3, Extremes
<1>7. \A j \in (i + 1)..(a - 1) : s[j] = ")"
  <2> SUFFICES ASSUME NEW j \in (i + 1)..(a - 1), s[j] # ")" PROVE FALSE
    OBVIOUS
  <2>1. a \in (i + 1)..(Len(s) + 1)
    BY <1>4, <1>6
  <2>2. j \in (i + 1)..Len(s) /\ j < a
    BY <1>1, <2>1
  <2>3. a <= j
    BY <1>5, <1>6, <2>2
  <2> QED BY <1>1, <2>1, <2>2, <2>3
<1>8. a \in (i + 1)..(Len(s) + 1) /\ (a <= Len(s) => s[a] # ")")
  BY <1>4, <1>6
<1> QED BY <1>7, <1>8 DEF a, Text!Decided

\* A cut by force is after a blank, or right where the piece is full.
LEMMA ForceCutIs ==
  ASSUME NEW s, NEW from \in Nat \ {0}, NEW i \in Nat, from < i
  PROVE  Text!ForceCut(s, from, i) \in (from + 1)..i
<1> DEFINE blanks == {j \in (from + 1)..(i - 1) : s[j] = "blank"}
<1>1. blanks \subseteq 1..i
  OBVIOUS
<1>2. \A j \in blanks : j \in (from + 1)..(i - 1)
  OBVIOUS
<1>3. Text!ForceCut(s, from, i) = IF blanks = {} THEN i ELSE Text!Max(blanks) + 1
  BY DEF Text!ForceCut
<1> HIDE DEF blanks
<1>4. CASE blanks = {}
  BY <1>3, <1>4
<1>5. CASE blanks # {}
  <2>1. Text!Max(blanks) \in blanks
    BY <1>1, <1>5, Extremes
  <2>2. Text!Max(blanks) \in (from + 1)..(i - 1)
    BY <1>2, <2>1
  <2>3. Text!Max(blanks) + 1 \in (from + 1)..i
    BY <2>2
  <2> QED BY <1>3, <1>5, <2>3
<1> QED BY <1>4, <1>5

\* Where the scan of a piece stops first.
FirstStop(s, from, i) ==
  /\ i \in from..Len(s) /\ Text!Stops(s, from, i)
  /\ \A j \in from..Len(s) : Text!Stops(s, from, j) => i <= j

\* A piece ends where its scan stopped first, if it did.
LEMMA CutIs ==
  ASSUME NEW S, NEW s \in Seq(S), NEW from \in 1..(Len(s) + 1)
  PROVE  \/ /\ Text!Cut(s, from) = 0
            /\ \A i \in from..Len(s) : ~Text!Stops(s, from, i)
         \/ \E i : FirstStop(s, from, i) /\ Text!Cut(s, from) = Text!CutAt(s, from, i)
<1> DEFINE stops1 == {i \in from..Len(s) : Text!Stops(s, from, i)}
<1>1. Text!Cut(s, from) = IF stops1 = {} THEN 0 ELSE Text!CutAt(s, from, Text!Min(stops1))
  BY DEF Text!Cut
<1>2. stops1 \subseteq 1..Len(s) /\ Len(s) \in Nat
  OBVIOUS
<1>3. CASE stops1 = {}
  BY <1>1, <1>3
<1>4. CASE stops1 # {}
  <2>1. \A i \in from..Len(s) : Text!Stops(s, from, i) <=> i \in stops1
    OBVIOUS
  <2>a. stops1 \subseteq from..Len(s)
    OBVIOUS
  <2> HIDE DEF stops1
  <2>2. Text!Min(stops1) \in stops1 /\ \A i \in stops1 : Text!Min(stops1) <= i
    BY <1>2, <1>4, Extremes
  <2>3. FirstStop(s, from, Text!Min(stops1))
    BY <2>1, <2>a, <2>2 DEF FirstStop
  <2> QED BY <1>1, <1>4, <2>3
<1> QED BY <1>3, <1>4

\* The cut is where the scan that stopped first cuts.
LEMMA CutIsFirst ==
  ASSUME NEW S, NEW s \in Seq(S), NEW from \in 1..(Len(s) + 1), NEW i, FirstStop(s, from, i)
  PROVE  Text!Cut(s, from) = Text!CutAt(s, from, i)
<1> DEFINE stops1 == {j \in from..Len(s) : Text!Stops(s, from, j)}
<1>1. Text!Cut(s, from) = IF stops1 = {} THEN 0 ELSE Text!CutAt(s, from, Text!Min(stops1))
  BY DEF Text!Cut
<1>2. stops1 \subseteq 1..Len(s) /\ Len(s) \in Nat
  OBVIOUS
<1>3. i \in stops1 /\ \A x \in stops1 : i <= x
  BY DEF FirstStop
<1> HIDE DEF stops1
<1>4. Text!Min(stops1) = i
  BY <1>2, <1>3, FirstIs
<1> QED BY <1>1, <1>3, <1>4

\* From a place on no further than a piece may be, but for closing brackets.
Within(s, from, to) == \A k \in from..to : k - from >= MaxChunk => s[k] = ")"
Bounded(x) == \A k \in (MaxChunk + 1)..Len(x) : x[k] = ")"

\* A cut goes on, and what is before it is of bounded length; so is the tail.
LEMMA CutPlaces ==
  ASSUME NEW S, NEW s \in Seq(S), NEW from \in 1..(Len(s) + 1), NEW c, c = Text!Cut(s, from)
  PROVE  \/ c = 0 /\ Within(s, from, Len(s))
         \/ c \in (from + 1)..(Len(s) + 1) /\ Within(s, from, c - 1)
<1>1. Len(s) \in Nat /\ MaxChunk \in Nat \ {0} /\ from \in Nat \ {0}
  <2>1. Len(s) \in Nat /\ from \in Nat \ {0}
    OBVIOUS
  <2> QED BY <2>1, TextBounds
<1>2. CASE c = 0 /\ \A i \in from..Len(s) : ~Text!Stops(s, from, i)
  <2>1. \A i \in from..Len(s) : ~(i - from >= MaxChunk)
    BY <1>2 DEF Text!Stops
  <2> QED BY <1>2, <2>1 DEF Within
<1>3. ASSUME NEW i, FirstStop(s, from, i), c = Text!CutAt(s, from, i)
      PROVE  \/ c = 0 /\ Within(s, from, Len(s))
             \/ c \in (from + 1)..(Len(s) + 1) /\ Within(s, from, c - 1)
  <2>1. i \in from..Len(s) /\ i \in Nat
    BY <1>1, <1>3 DEF FirstStop
  <2>2. ASSUME NEW k \in from..Len(s), k < i PROVE ~(k - from >= MaxChunk)
    <3>1. ~Text!Stops(s, from, k)
      BY <1>3, <2>1, <2>2 DEF FirstStop
    <3> QED BY <3>1 DEF Text!Stops
  <2>3. CASE i - from >= MaxChunk
    <3>1. from < i
      BY <1>1, <2>1, <2>3
    <3>2. c \in (from + 1)..i
      BY <1>1, <1>3, <2>1, <2>3, <3>1, CutAtIs, ForceCutIs
    <3>3. \A k \in from..(c - 1) : k \in from..Len(s) /\ k < i
      BY <1>1, <2>1, <3>2
    <3>4. c \in (from + 1)..(Len(s) + 1)
      BY <1>1, <2>1, <3>2
    <3> QED BY <2>2, <3>3, <3>4 DEF Within
  <2>4. CASE i - from < MaxChunk /\ s[i] = "line"
    <3>1. c = i + 1
      BY <1>1, <1>3, <2>1, <2>4, CutAtIs
    <3>2. ASSUME NEW k \in from..(c - 1) PROVE ~(k - from >= MaxChunk)
      <4>1. k \in from..Len(s) /\ (k < i \/ k = i)
        BY <1>1, <2>1, <3>1
      <4> QED BY <1>1, <2>1, <2>2, <2>4, <4>1
    <3>3. c \in (from + 1)..(Len(s) + 1)
      BY <1>1, <2>1, <3>1
    <3> QED BY <3>2, <3>3 DEF Within
  <2>5. CASE i - from < MaxChunk /\ s[i] # "line"
    <3> DEFINE a == Text!After(s, i)
    <3>1. i \in 1..Len(s)
      BY <1>1, <2>1
    <3>2. /\ a \in (i + 1)..(Len(s) + 1)
          /\ \A j \in (i + 1)..(a - 1) : s[j] = ")"
          /\ Text!Decided(s, i) <=> a <= Len(s)
      BY <3>1, AfterIs
    <3>3. c = IF Text!Decided(s, i) THEN a ELSE 0
      BY <1>1, <1>3, <2>1, <2>5, CutAtIs
    <3> HIDE DEF a
    <3>4. ASSUME NEW k \in from..(a - 1), k - from >= MaxChunk PROVE s[k] = ")"
      <4>1. k \in from..Len(s) /\ k \in Nat
        BY <1>1, <2>1, <3>2
      <4>2. ~(k < i) /\ k # i
        BY <1>1, <2>1, <2>2, <2>5, <3>4, <4>1
      <4>3. k \in (i + 1)..(a - 1)
        BY <2>1, <4>1, <4>2
      <4> QED BY <3>2, <4>3
    <3>5. a \in (from + 1)..(Len(s) + 1)
      BY <1>1, <2>1, <3>2
    <3>6. CASE Text!Decided(s, i)
      BY <3>3, <3>4, <3>5, <3>6 DEF Within
    <3>7. CASE ~Text!Decided(s, i)
      <4>1. a = Len(s) + 1 /\ a - 1 = Len(s)
        BY <1>1, <3>2, <3>7
      <4> QED BY <3>3, <3>4, <3>7, <4>1 DEF Within
    <3> QED BY <3>6, <3>7
  <2> QED BY <1>1, <2>1, <2>3, <2>4, <2>5
<1> QED BY <1>2, <1>3, CutIs

\* Stripped it is a clip of bounded length.
LEMMA PieceBounded ==
  ASSUME NEW S, NEW s \in Seq(S), NEW from \in Nat \ {0}, NEW to \in 0..Len(s), from <= to + 1,
         Within(s, from, to)
  PROVE  Bounded(Text!Strip(SubSeq(s, from, to)))
<1> DEFINE t == SubSeq(s, from, to)
           x == Text!Strip(t)
<1>1. /\ t \in Seq(S) /\ Len(t) = to - from + 1
      /\ \A i \in 1..(to - from + 1) : t[i] = s[from + i - 1]
  BY PartIs
<1>2. MaxChunk \in Nat /\ Len(t) \in Nat /\ to \in Nat
  BY <1>1, TextBounds
<1> HIDE DEF t
<1>3. CASE x = <<>>
  <2>1. Len(x) = 0
    BY <1>3
  <2> HIDE DEF x
  <2>2. (MaxChunk + 1)..Len(x) = {}
    BY <1>2, <2>1
  <2> QED BY <2>2 DEF Bounded, t, x
<1>4. ASSUME NEW a \in 1..Len(t), NEW b \in 1..Len(t), a <= b, x = SubSeq(t, a, b)
      PROVE  Bounded(x)
  <2>1. b \in 0..Len(t) /\ a \in Nat \ {0} /\ a <= b + 1
    BY <1>2, <1>4
  <2>2. Len(x) = b - a + 1 /\ \A i \in 1..(b - a + 1) : x[i] = t[a + i - 1]
    BY <1>1, <1>4, <2>1, PartIs
  <2> HIDE DEF x
  <2>3. ASSUME NEW k \in (MaxChunk + 1)..Len(x) PROVE x[k] = ")"
    <3>0. /\ a \in Nat /\ b \in Nat /\ k \in Nat /\ 1 <= a /\ b <= Len(t) /\ Len(t) = to - from + 1
          /\ MaxChunk + 1 <= k /\ k <= b - a + 1
      BY <1>1, <1>2, <1>4, <2>2
    <3>1. k \in 1..(b - a + 1) /\ a + k - 1 \in 1..(to - from + 1)
      BY <1>2, <3>0
    <3>2. x[k] = s[from + (a + k - 1) - 1]
      BY <1>1, <2>2, <3>1
    <3>3. /\ from + (a + k - 1) - 1 \in from..to
          /\ (from + (a + k - 1) - 1) - from >= MaxChunk
      BY <1>2, <2>1, <3>1
    <3> QED BY <3>2, <3>3 DEF Within
  <2> QED BY <2>3 DEF Bounded
<1>5. Bounded(x)
  BY <1>1, <1>3, <1>4, StripIs DEF t
<1> QED BY <1>5 DEF t, x

-----------------------------------------------------------------------------
(* What a cut depends on: the piece, and what decides its full stop.       *)

\* Behind the first p tokens, s begins like a.
Alike(a, s, p) ==
  /\ p + Len(a) <= Len(s)
  /\ \A i \in 1..Len(a) : s[p + i] = a[i]

\* What follows a full stop is found again, as far as it is there.
LEMMA AfterAlike ==
  ASSUME NEW S, NEW a \in Seq(S), NEW s \in Seq(S), NEW p \in Nat, Alike(a, s, p),
         NEW i \in 1..Len(a), Text!Decided(a, i) \/ Len(s) = p + Len(a)
  PROVE  /\ Text!After(s, p + i) = p + Text!After(a, i)
         /\ Text!Decided(s, p + i) <=> Text!Decided(a, i)
<1> DEFINE x == Text!After(a, i)
           y == Text!After(s, p + i)
<1>1. Len(a) \in Nat /\ Len(s) \in Nat /\ p + Len(a) <= Len(s) /\ p + i \in 1..Len(s) /\ i \in Nat
  BY DEF Alike
<1>2. /\ x \in (i + 1)..(Len(a) + 1) /\ \A j \in (i + 1)..(x - 1) : a[j] = ")"
      /\ x <= Len(a) => a[x] # ")"
      /\ Text!Decided(a, i) <=> x <= Len(a)
  BY AfterIs
<1>3. /\ y \in (p + i + 1)..(Len(s) + 1) /\ \A j \in (p + i + 1)..(y - 1) : s[j] = ")"
      /\ y <= Len(s) => s[y] # ")"
      /\ Text!Decided(s, p + i) <=> y <= Len(s)
  BY <1>1, AfterIs
<1> HIDE DEF x, y
<1>4. x \in Nat /\ y \in Nat
  BY <1>1, <1>2, <1>3
<1>5. ~(y < p + x)
  <2> SUFFICES ASSUME y < p + x PROVE FALSE
    OBVIOUS
  <2>1. y - p \in (i + 1)..(x - 1) /\ y - p \in 1..Len(a) /\ p + (y - p) = y /\ y <= Len(s)
    BY <1>1, <1>2, <1>3, <1>4
  <2>2. s[y] = a[y - p]
    BY <2>1 DEF Alike
  <2> QED BY <1>2, <1>3, <2>1, <2>2
<1>6. ~(p + x < y)
  <2> SUFFICES ASSUME p + x < y PROVE FALSE
    OBVIOUS
  <2>1. CASE x <= Len(a)
    <3>1. p + x \in (p + i + 1)..(y - 1) /\ x \in 1..Len(a)
      BY <1>1, <1>2, <1>3, <1>4, <2>1
    <3>2. s[p + x] = a[x]
      BY <3>1 DEF Alike
    <3> QED BY <1>2, <1>3, <2>1, <3>1, <3>2
  <2>2. CASE ~(x <= Len(a))
    <3>1. Len(s) = p + Len(a)
      BY <1>2, <2>2
    <3> QED BY <1>1, <1>3, <1>4, <2>2, <3>1
  <2> QED BY <2>1, <2>2
<1>7. y = p + x
  BY <1>1, <1>4, <1>5, <1>6
<1>8. Text!Decided(s, p + i) <=> Text!Decided(a, i)
  BY <1>1, <1>2, <1>3, <1>4, <1>7
<1> QED BY <1>7, <1>8 DEF x, y

\* So is the piece.
LEMMA PartAlike ==
  ASSUME NEW S, NEW a \in Seq(S), NEW s \in Seq(S), NEW p \in Nat, Alike(a, s, p),
         NEW from \in Nat \ {0}, NEW to \in 0..Len(a), from <= to + 1
  PROVE  SubSeq(s, p + from, p + to) = SubSeq(a, from, to)
<1> DEFINE x == SubSeq(a, from, to)
           y == SubSeq(s, p + from, p + to)
<1>1. Len(a) \in Nat /\ Len(s) \in Nat /\ p + Len(a) <= Len(s)
  BY DEF Alike
<1>2. x \in Seq(S) /\ Len(x) = to - from + 1 /\ \A i \in 1..(to - from + 1) : x[i] = a[from + i - 1]
  BY PartIs
<1>3. p + from \in Nat \ {0} /\ p + to \in 0..Len(s) /\ p + from <= (p + to) + 1
  BY <1>1
<1>4. /\ y \in Seq(S) /\ Len(y) = (p + to) - (p + from) + 1
      /\ \A i \in 1..((p + to) - (p + from) + 1) : y[i] = s[(p + from) + i - 1]
  BY <1>3, PartIs
<1> HIDE DEF x, y
<1>5. (p + to) - (p + from) + 1 = to - from + 1
  OBVIOUS
<1>6. ASSUME NEW i \in 1..(to - from + 1) PROVE x[i] = y[i]
  <2>1. from + i - 1 \in 1..Len(a) /\ (p + from) + i - 1 = p + (from + i - 1)
    BY <1>1
  <2>2. s[p + (from + i - 1)] = a[from + i - 1]
    BY <2>1 DEF Alike
  <2> QED BY <1>2, <1>4, <1>5, <2>1, <2>2
<1>7. x = y
  BY <1>2, <1>4, <1>5, <1>6, SeqEqual
<1> QED BY <1>7 DEF x, y

\* The part of a from one place to another is in s behind the first p tokens.
SamePart(a, s, p, from, to) == SubSeq(s, p + from, p + to) = SubSeq(a, from, to)

\* Every part of a is.
LEMMA PartsAlike ==
  ASSUME NEW S, NEW a \in Seq(S), NEW s \in Seq(S), NEW p \in Nat, Alike(a, s, p)
  PROVE  \A from \in Nat \ {0} : \A to \in 0..Len(a) :
           from <= to + 1 => SamePart(a, s, p, from, to)
<1> TAKE from \in Nat \ {0}
<1> TAKE to \in 0..Len(a)
<1> HAVE from <= to + 1
<1>1. SubSeq(s, p + from, p + to) = SubSeq(a, from, to)
  BY PartAlike
<1> QED BY <1>1 DEF SamePart

\* The scan goes on where it went on, and stops where it stopped unless that was
\* at a full stop about which nothing had been said.
LEMMA StopsAlike ==
  ASSUME NEW S, NEW a \in Seq(S), NEW s \in Seq(S), NEW p \in Nat, Alike(a, s, p),
         NEW from \in Nat \ {0}, NEW i \in from..Len(a)
  PROVE  /\ Text!Stops(s, p + from, p + i) => Text!Stops(a, from, i)
         /\ Text!Stops(a, from, i) =>
              \/ Text!Stops(s, p + from, p + i)
              \/ /\ i - from < MaxChunk /\ a[i] # "line" /\ ~Text!Decided(a, i)
                 /\ Len(s) # p + Len(a)
<1>1. Len(a) \in Nat /\ Len(s) \in Nat /\ i \in 1..Len(a) /\ MaxChunk \in Nat /\ i \in Nat
  <2>1. Len(a) \in Nat /\ Len(s) \in Nat /\ i \in 1..Len(a) /\ i \in Nat
    OBVIOUS
  <2> QED BY <2>1, TextBounds
<1>2. s[p + i] = a[i] /\ (p + i) - (p + from) = i - from
  BY <1>1 DEF Alike
<1>3. SubSeq(s, p + from, (p + i) - 1) = SubSeq(a, from, i - 1)
  <2>1. PICK to : to = i - 1
    OBVIOUS
  <2>2. to \in 0..Len(a) /\ from <= to + 1 /\ (p + i) - 1 = p + to
    BY <1>1, <2>1
  <2>3. SamePart(a, s, p, from, to)
    BY <2>2, PartsAlike
  <2> QED BY <2>1, <2>2, <2>3 DEF SamePart
<1>4. CASE Text!Decided(a, i) \/ Len(s) = p + Len(a)
  <2>1. /\ Text!After(s, p + i) = p + Text!After(a, i)
        /\ Text!Decided(s, p + i) <=> Text!Decided(a, i)
    BY <1>1, <1>4, AfterAlike
  <2>2. Text!Decided(a, i) => s[Text!After(s, p + i)] = a[Text!After(a, i)]
    <3>1. /\ Text!After(a, i) \in (i + 1)..(Len(a) + 1)
          /\ Text!Decided(a, i) <=> Text!After(a, i) <= Len(a)
      BY <1>1, AfterIs
    <3>2. Text!Decided(a, i) => Text!After(a, i) \in 1..Len(a)
      BY <1>1, <3>1
    <3> QED BY <2>1, <3>2 DEF Alike
  <2>3. Text!Stops(s, p + from, p + i) <=> Text!Stops(a, from, i)
    BY <1>2, <1>3, <2>1, <2>2 DEF Text!Stops
  <2> QED BY <2>3
<1>5. CASE ~Text!Decided(a, i) /\ Len(s) # p + Len(a)
  <2>1. Text!Stops(s, p + from, p + i) => Text!Stops(a, from, i)
    BY <1>2, <1>5 DEF Text!Stops
  <2>2. Text!Stops(a, from, i) /\ ~(i - from < MaxChunk /\ a[i] # "line") =>
          Text!Stops(s, p + from, p + i)
    BY <1>1, <1>2 DEF Text!Stops
  <2> QED BY <1>5, <2>1, <2>2
<1> QED BY <1>4, <1>5

\* A cut by force is where it was.
LEMMA ForceAlike ==
  ASSUME NEW S, NEW a \in Seq(S), NEW s \in Seq(S), NEW p \in Nat, Alike(a, s, p),
         NEW from \in Nat \ {0}, NEW i \in from..Len(a)
  PROVE  Text!ForceCut(s, p + from, p + i) = p + Text!ForceCut(a, from, i)
<1> DEFINE x == {j \in (from + 1)..(i - 1) : a[j] = "blank"}
           y == {j \in ((p + from) + 1)..((p + i) - 1) : s[j] = "blank"}
<1>1. Len(a) \in Nat /\ Len(s) \in Nat /\ i \in 1..Len(a) /\ i \in Nat
  OBVIOUS
<1>2. x \subseteq 1..i /\ y \subseteq 1..(p + i) /\ p + i \in Nat
  BY <1>1
<1>3. \A j \in x : p + j \in y
  <2> SUFFICES ASSUME NEW j \in x PROVE p + j \in y
    OBVIOUS
  <2>1. j \in (from + 1)..(i - 1) /\ a[j] = "blank"
    OBVIOUS
  <2>2. j \in 1..Len(a) /\ p + j \in ((p + from) + 1)..((p + i) - 1)
    BY <1>1, <2>1
  <2>3. s[p + j] = "blank"
    BY <2>1, <2>2 DEF Alike
  <2> QED BY <2>2, <2>3
<1>4. \A j \in y : j - p \in x
  <2> SUFFICES ASSUME NEW j \in y PROVE j - p \in x
    OBVIOUS
  <2>1. j \in ((p + from) + 1)..((p + i) - 1) /\ s[j] = "blank"
    OBVIOUS
  <2>2. j - p \in 1..Len(a) /\ j - p \in (from + 1)..(i - 1) /\ p + (j - p) = j
    BY <1>1, <2>1
  <2>3. a[j - p] = "blank"
    BY <2>1, <2>2 DEF Alike
  <2> QED BY <2>2, <2>3
<1>5. /\ Text!ForceCut(a, from, i) = IF x = {} THEN i ELSE Text!Max(x) + 1
      /\ Text!ForceCut(s, p + from, p + i) = IF y = {} THEN p + i ELSE Text!Max(y) + 1
  BY DEF Text!ForceCut
<1> HIDE DEF x, y
<1>6. CASE x = {}
  <2>1. y = {}
    BY <1>4, <1>6
  <2> QED BY <1>5, <1>6, <2>1
<1>7. CASE x # {}
  <2> DEFINE m == Text!Max(x)
  <2>1. m \in x /\ \A j \in x : j <= m
    BY <1>1, <1>2, <1>7, Extremes
  <2> HIDE DEF m
  <2>2. m \in Nat /\ p + m \in y
    BY <1>2, <1>3, <2>1
  <2>3. \A j \in y : j <= p + m
    <3> SUFFICES ASSUME NEW j \in y PROVE j <= p + m
      OBVIOUS
    <3>1. j - p <= m /\ j \in Nat
      BY <1>2, <1>4, <2>1
    <3> QED BY <2>2, <3>1
  <2>4. Text!Max(y) = p + m
    BY <1>2, <2>2, <2>3, LastIs
  <2>5. y # {} /\ (p + m) + 1 = p + (m + 1)
    BY <2>2
  <2> QED BY <1>5, <1>7, <2>4, <2>5 DEF m
<1> QED BY <1>6, <1>7

\* A cut is where it was, and where nothing follows there is none either.
LEMMA CutAlike ==
  ASSUME NEW S, NEW a \in Seq(S), NEW s \in Seq(S), NEW p \in Nat, Alike(a, s, p),
         NEW from \in 1..(Len(a) + 1)
  PROVE  /\ Text!Cut(a, from) # 0 => Text!Cut(s, p + from) = p + Text!Cut(a, from)
         /\ Text!Cut(a, from) = 0 /\ Len(s) = p + Len(a) => Text!Cut(s, p + from) = 0
<1>a. Len(a) \in Nat /\ Len(s) \in Nat /\ p + Len(a) <= Len(s) /\ from \in Nat \ {0}
  BY DEF Alike
<1>b. MaxChunk \in Nat \ {0}
  BY TextBounds
<1>1. /\ Len(a) \in Nat /\ Len(s) \in Nat /\ p + Len(a) <= Len(s) /\ from \in Nat \ {0}
      /\ p + from \in 1..(Len(s) + 1) /\ MaxChunk \in Nat \ {0} /\ p + from \in Nat \ {0}
  BY <1>a, <1>b
<1>2. CASE Text!Cut(a, from) = 0 /\ \A i \in from..Len(a) : ~Text!Stops(a, from, i)
  <2> SUFFICES ASSUME Len(s) = p + Len(a) PROVE Text!Cut(s, p + from) = 0
    BY <1>2
  <2>1. ASSUME NEW k \in (p + from)..Len(s) PROVE ~Text!Stops(s, p + from, k)
    <3>1. k - p \in from..Len(a) /\ p + (k - p) = k
      BY <1>1
    <3>2. Text!Stops(s, p + from, p + (k - p)) => Text!Stops(a, from, k - p)
      BY <1>1, <3>1, StopsAlike
    <3> QED BY <1>2, <3>1, <3>2
  <2> QED BY <1>1, <2>1, CutIs DEF FirstStop
<1>3. ASSUME NEW i, FirstStop(a, from, i), Text!Cut(a, from) = Text!CutAt(a, from, i)
      PROVE  /\ Text!Cut(a, from) # 0 => Text!Cut(s, p + from) = p + Text!Cut(a, from)
             /\ Text!Cut(a, from) = 0 /\ Len(s) = p + Len(a) => Text!Cut(s, p + from) = 0
  <2>1. i \in from..Len(a) /\ i \in Nat /\ i \in 1..Len(a) /\ Text!Stops(a, from, i) /\ p + i \in Nat
    BY <1>1, <1>3 DEF FirstStop
  <2>2. /\ i - from >= MaxChunk => Text!CutAt(a, from, i) = Text!ForceCut(a, from, i)
        /\ i - from < MaxChunk /\ a[i] = "line" => Text!CutAt(a, from, i) = i + 1
        /\ i - from < MaxChunk /\ a[i] # "line" =>
             Text!CutAt(a, from, i) = IF Text!Decided(a, i) THEN Text!After(a, i) ELSE 0
    BY <1>1, <2>1, CutAtIs
  <2>3. CASE /\ i - from < MaxChunk /\ a[i] # "line" /\ ~Text!Decided(a, i)
             /\ Len(s) # p + Len(a)
    BY <1>3, <2>2, <2>3
  <2>4. CASE ~(/\ i - from < MaxChunk /\ a[i] # "line" /\ ~Text!Decided(a, i)
               /\ Len(s) # p + Len(a))
    <3>1. Text!Stops(s, p + from, p + i)
      BY <1>1, <2>1, <2>4, StopsAlike
    <3>2. FirstStop(s, p + from, p + i)
      <4>1. p + i \in (p + from)..Len(s)
        BY <1>1, <2>1
      <4>2. ASSUME NEW j \in (p + from)..Len(s), Text!Stops(s, p + from, j) PROVE p + i <= j
        <5> SUFFICES ASSUME j < p + i PROVE FALSE
          BY <2>1, <4>1
        <5>1. j - p \in from..Len(a) /\ p + (j - p) = j
          BY <1>1, <2>1
        <5>2. Text!Stops(s, p + from, p + (j - p)) => Text!Stops(a, from, j - p)
          BY <1>1, <5>1, StopsAlike
        <5>3. i <= j - p
          BY <1>3, <4>2, <5>1, <5>2 DEF FirstStop
        <5> QED BY <1>1, <2>1, <5>1, <5>3
      <4> QED BY <3>1, <4>1, <4>2 DEF FirstStop
    <3>3. Text!Cut(s, p + from) = Text!CutAt(s, p + from, p + i)
      BY <1>1, <3>2, CutIsFirst
    <3>4. /\ (p + i) - (p + from) >= MaxChunk =>
               Text!CutAt(s, p + from, p + i) = Text!ForceCut(s, p + from, p + i)
          /\ (p + i) - (p + from) < MaxChunk /\ s[p + i] = "line" =>
               Text!CutAt(s, p + from, p + i) = (p + i) + 1
          /\ (p + i) - (p + from) < MaxChunk /\ s[p + i] # "line" =>
               Text!CutAt(s, p + from, p + i) =
                 IF Text!Decided(s, p + i) THEN Text!After(s, p + i) ELSE 0
      BY <1>1, <2>1, CutAtIs
    <3>5. s[p + i] = a[i] /\ (p + i) - (p + from) = i - from
      BY <1>1, <2>1 DEF Alike
    <3>6. CASE i - from >= MaxChunk
      <4>1. Text!ForceCut(s, p + from, p + i) = p + Text!ForceCut(a, from, i)
        BY <1>1, <2>1, ForceAlike
      <4>2. Text!ForceCut(a, from, i) # 0
        <5>1. from < i
          BY <1>1, <2>1, <3>6
        <5>2. Text!ForceCut(a, from, i) \in (from + 1)..i
          BY <1>1, <2>1, <5>1, ForceCutIs
        <5> QED BY <1>1, <2>1, <5>2
      <4> QED BY <1>3, <2>2, <3>3, <3>4, <3>5, <3>6, <4>1, <4>2
    <3>7. CASE i - from < MaxChunk /\ a[i] = "line"
      <4>1. Text!Cut(a, from) = i + 1 /\ Text!Cut(s, p + from) = (p + i) + 1
        BY <1>3, <2>2, <3>3, <3>4, <3>5, <3>7
      <4>2. (p + i) + 1 = p + (i + 1) /\ i + 1 # 0
        BY <2>1
      <4> QED BY <4>1, <4>2
    <3>8. CASE i - from < MaxChunk /\ a[i] # "line"
      <4>1. /\ Text!After(s, p + i) = p + Text!After(a, i)
            /\ Text!Decided(s, p + i) <=> Text!Decided(a, i)
        BY <2>1, <2>4, <3>8, AfterAlike
      <4>2. Text!After(a, i) \in (i + 1)..(Len(a) + 1)
        BY <2>1, AfterIs
      <4>3. Text!After(a, i) # 0
        BY <2>1, <4>2
      <4>4. Text!Cut(a, from) = IF Text!Decided(a, i) THEN Text!After(a, i) ELSE 0
        BY <1>3, <2>2, <3>8
      <4>5. Text!Cut(s, p + from) =
              IF Text!Decided(a, i) THEN p + Text!After(a, i) ELSE 0
        BY <3>3, <3>4, <3>5, <3>8, <4>1
      <4> QED BY <4>3, <4>4, <4>5
    <3> QED BY <1>1, <2>1, <3>6, <3>7, <3>8
  <2> QED BY <2>3, <2>4
<1> QED BY <1>2, <1>3, CutIs

-----------------------------------------------------------------------------
(* Clips one after the other.                                              *)

\* Each value of such a function is the one before and a sequence more.
IsFlat(s, g, k) == \A i \in 1..k : g[i] = IF i = 1 THEN s[i] ELSE g[i - 1] \o s[i]

\* There is such a function: the fold of FlattenSeq.
LEMMA FlatIs ==
  ASSUME NEW S, NEW s \in Seq(Seq(S)), Len(s) # 0
  PROVE  \E g : /\ IsFlat(s, g, Len(s)) /\ Text!FlattenSeq(s) = g[Len(s)]
                /\ \A i \in 1..Len(s) : g[i] \in Seq(S)
<1> DEFINE n == Len(s)
           V == Seq(S)
           F == [p \in Nat \X V |->
                  IF p[1] \in 1..n THEN IF p[1] = 1 THEN s[p[1]] ELSE p[2] \o s[p[1]] ELSE <<>>]
           Is(g) == g = [i \in 1..n |-> IF i = 1 THEN s[i] ELSE g[i - 1] \o s[i]]
           f == CHOOSE g : Is(g)
<1>1. n \in Nat /\ \A i \in 1..n : s[i] \in V
  OBVIOUS
<1>2. <<>> \in V
  BY EmptySeq
<1>3. \A i \in Nat, x \in V :
        F[<<i, x>>] = IF i \in 1..n THEN IF i = 1 THEN s[i] ELSE x \o s[i] ELSE <<>>
  OBVIOUS
<1>4. \A i \in Nat, x \in V : F[<<i, x>>] \in V
  BY <1>1, <1>2, <1>3, ConcatProperties
<1>a. Text!FlattenSeq(s) = f[n]
  BY DEF Text!FlattenSeq
<1> HIDE DEF F, n, V
<1>5. PICK h \in [0..n -> V] : Follows(h, <<>>, F, n)
  BY <1>1, <1>2, <1>4, Recursion
<1> DEFINE g == [i \in 1..n |-> h[i]]
<1>6. \A i \in 1..n : g[i] = IF i = 1 THEN s[i] ELSE g[i - 1] \o s[i]
  <2> SUFFICES ASSUME NEW i \in 1..n PROVE h[i] = IF i = 1 THEN s[i] ELSE g[i - 1] \o s[i]
    OBVIOUS
  <2>1. i \in Nat /\ i - 1 \in 0..n /\ (i # 1 => i - 1 \in 1..n)
    BY <1>1
  <2>2. h[i] = F[<<i, h[i - 1]>>] /\ h[i - 1] \in V
    BY <1>5, <2>1 DEF Follows
  <2> QED BY <1>3, <2>1, <2>2
<1>7. Is(g)
  BY <1>6
<1>8. Is(f)
  BY <1>7
<1> HIDE DEF f
<1>9. \A i \in 1..n : f[i] = IF i = 1 THEN s[i] ELSE f[i - 1] \o s[i]
  BY <1>8
<1> DEFINE Bad == {i \in 1..n : f[i] \notin V}
<1>10. Bad = {}
  <2> SUFFICES ASSUME Bad # {} PROVE FALSE
    OBVIOUS
  <2>1. PICK m \in Bad : \A i \in Bad : m <= i
    <3>1. Bad \subseteq Nat
      BY <1>1
    <3> QED BY <3>1, Least
  <2>2. m \in 1..n /\ f[m] \notin V /\ m \in Nat
    BY <1>1
  <2>3. CASE m = 1
    BY <1>1, <1>9, <2>2, <2>3
  <2>4. CASE m # 1
    <3>1. m - 1 \in 1..n /\ m - 1 < m
      BY <1>1, <2>2, <2>4
    <3>2. f[m - 1] \in V
      BY <2>1, <2>2, <3>1
    <3>3. f[m] = f[m - 1] \o s[m] /\ s[m] \in V
      BY <1>1, <1>9, <2>2, <2>4
    <3>4. f[m - 1] \o s[m] \in V
      BY <3>2, <3>3, ConcatProperties DEF V
    <3> QED BY <2>2, <3>3, <3>4
  <2> QED BY <2>3, <2>4
<1>11. IsFlat(s, f, n)
  BY <1>9 DEF IsFlat
<1> QED BY <1>a, <1>10, <1>11 DEF n, V

\* No clip, and one clip more.
LEMMA FlatOfAppend ==
  ASSUME NEW S, NEW s \in Seq(Seq(S)), NEW x \in Seq(S)
  PROVE  /\ Text!FlattenSeq(s) \in Seq(S)
         /\ Text!FlattenSeq(Append(s, x)) = Text!FlattenSeq(s) \o x
         /\ Len(s) = 0 => Text!FlattenSeq(s) = <<>>
<1> DEFINE n == Len(s)
           u == Append(s, x)
<1>1. n \in Nat /\ u \in Seq(Seq(S)) /\ Len(u) = n + 1 /\ u[n + 1] = x
      /\ \A i \in 1..n : u[i] = s[i]
  OBVIOUS
<1>2. Len(u) # 0
  BY <1>1
<1> HIDE DEF u
<1>3. PICK h : IsFlat(u, h, n + 1) /\ Text!FlattenSeq(u) = h[n + 1]
  BY <1>1, <1>2, FlatIs
<1>4. CASE n = 0
  <2>1. s = <<>>
    BY <1>4
  <2>2. Text!FlattenSeq(s) = <<>>
    BY <1>4, <2>1 DEF Text!FlattenSeq
  <2>3. 1 \in 1..(n + 1) /\ n + 1 = 1
    BY <1>4
  <2>4. h[1] = x
    BY <1>1, <1>3, <2>3 DEF IsFlat
  <2>5. <<>> \o x = x /\ <<>> \in Seq(S)
    BY ConcatEmptySeq, EmptySeq
  <2> QED BY <1>3, <2>2, <2>3, <2>4, <2>5 DEF u
<1>5. CASE n # 0
  <2>1. PICK g : /\ IsFlat(s, g, n) /\ Text!FlattenSeq(s) = g[n]
                 /\ \A i \in 1..n : g[i] \in Seq(S)
    BY <1>5, FlatIs
  <2> DEFINE Bad == {i \in 1..n : g[i] # h[i]}
  <2>2. Bad = {}
    <3> SUFFICES ASSUME Bad # {} PROVE FALSE
      OBVIOUS
    <3>1. PICK m \in Bad : \A i \in Bad : m <= i
      <4>1. Bad \subseteq Nat
        BY <1>1
      <4> QED BY <4>1, Least
    <3>2. m \in 1..n /\ g[m] # h[m] /\ m \in Nat /\ m \in 1..(n + 1)
      BY <1>1
    <3> HIDE DEF n
    <3>3. /\ g[m] = IF m = 1 THEN s[m] ELSE g[m - 1] \o s[m]
          /\ h[m] = IF m = 1 THEN s[m] ELSE h[m - 1] \o s[m]
      BY <1>1, <1>3, <2>1, <3>2 DEF IsFlat
    <3>4. m # 1
      BY <3>2, <3>3
    <3>5. m - 1 \in 1..n /\ m - 1 < m
      BY <1>1, <3>2, <3>4
    <3>6. g[m - 1] = h[m - 1]
      BY <3>1, <3>2, <3>5
    <3> QED BY <3>2, <3>3, <3>6
  <2>3. n \in 1..n /\ n + 1 \in 1..(n + 1) /\ n + 1 # 1 /\ (n + 1) - 1 = n
    BY <1>1, <1>5
  <2> HIDE DEF n
  <2>4. h[n + 1] = h[n] \o x /\ h[n] = g[n] /\ g[n] \in Seq(S)
    BY <1>1, <1>3, <2>1, <2>2, <2>3 DEF IsFlat
  <2> QED BY <1>3, <1>5, <2>1, <2>4 DEF n, u
<1> QED BY <1>4, <1>5

\* Those of two calls, when the second has one clip more.
LEMMA FlatOfMore ==
  ASSUME NEW S, NEW s \in Seq(Seq(S)), NEW r \in Seq(Seq(S)), NEW x \in Seq(S),
         Text!FlattenSeq(s \o r) = Text!FlattenSeq(s) \o Text!FlattenSeq(r)
  PROVE  Text!FlattenSeq(s \o Append(r, x)) = Text!FlattenSeq(s) \o Text!FlattenSeq(Append(r, x))
<1>1. s \o Append(r, x) = Append(s \o r, x) /\ s \o r \in Seq(Seq(S))
  BY ConcatAppend, ConcatProperties
<1>2. Text!FlattenSeq(Append(s \o r, x)) = Text!FlattenSeq(s \o r) \o x
  BY <1>1, FlatOfAppend
<1>3. Text!FlattenSeq(Append(r, x)) = Text!FlattenSeq(r) \o x
  BY FlatOfAppend
<1>4. Text!FlattenSeq(s) \in Seq(S) /\ Text!FlattenSeq(r) \in Seq(S)
  <2>1. <<>> \in Seq(S)
    BY EmptySeq
  <2> QED BY <2>1, FlatOfAppend
<1>5. (Text!FlattenSeq(s) \o Text!FlattenSeq(r)) \o x = Text!FlattenSeq(s) \o (Text!FlattenSeq(r) \o x)
  BY <1>4, ConcatAssociative
<1> QED BY <1>1, <1>2, <1>3, <1>5

\* Clips of two calls.
LEMMA FlatOfConcat ==
  ASSUME NEW S, NEW s \in Seq(Seq(S)), NEW t \in Seq(Seq(S))
  PROVE  /\ Text!FlattenSeq(s \o t) = Text!FlattenSeq(s) \o Text!FlattenSeq(t)
         /\ Text!FlattenSeq(s) \in Seq(S) /\ Text!FlattenSeq(t) \in Seq(S)
<1> DEFINE V == Seq(S)
           Part(k) == SubSeq(t, 1, k)
           Good(k) == Text!FlattenSeq(s \o Part(k)) = Text!FlattenSeq(s) \o Text!FlattenSeq(Part(k))
           Bad == {k \in 0..Len(t) : ~Good(k)}
<1>1. Len(t) \in Nat /\ \A k \in 1..Len(t) : t[k] \in V
  OBVIOUS
<1>2. \A k \in 0..Len(t) : Part(k) \in Seq(V)
  <2> SUFFICES ASSUME NEW k \in 0..Len(t) PROVE Part(k) \in Seq(V)
    OBVIOUS
  <2>1. 1 <= k + 1 /\ 1 \in Nat \ {0}
    OBVIOUS
  <2> QED BY <2>1, PartIs
<1>3. \A r \in Seq(V) : Text!FlattenSeq(r) \in V
  <2>1. <<>> \in V
    BY EmptySeq
  <2> QED BY <2>1, FlatOfAppend
<1>4. Bad = {}
  <2> SUFFICES ASSUME Bad # {} PROVE FALSE
    OBVIOUS
  <2>1. PICK m \in Bad : \A k \in Bad : m <= k
    <3>1. Bad \subseteq Nat
      BY <1>1
    <3> QED BY <3>1, Least
  <2>2. m \in 0..Len(t) /\ ~Good(m) /\ m \in Nat
    BY <1>1
  <2>3. CASE m = 0
    <3>1. Part(m) = <<>>
      BY <2>3, SubSeqEmpty
    <3>2. s \o <<>> = s
      BY ConcatEmptySeq
    <3>3. Text!FlattenSeq(<<>>) = <<>>
      <4>1. <<>> \in Seq(V) /\ Len(<<>>) = 0 /\ <<>> \in Seq(S)
        BY EmptySeq
      <4> QED BY <4>1, FlatOfAppend
    <3>4. Text!FlattenSeq(s) \o <<>> = Text!FlattenSeq(s)
      BY <1>3, ConcatEmptySeq
    <3> QED BY <2>2, <3>1, <3>2, <3>3, <3>4
  <2>4. CASE m # 0
    <3> DEFINE r == Part(m - 1)
    <3>1. m \in 1..Len(t) /\ m - 1 \in 0..Len(t) /\ m - 1 < m
      BY <1>1, <2>2, <2>4
    <3>2. Part(m) = Append(r, t[m])
      <4>1. 1 \in 1..Len(t) /\ m \in 1..Len(t)
        BY <3>1
      <4>2. Part(m) = Part(m - 1) \o <<t[m]>>
        BY <4>1, SubSeqRecursiveSecond
      <4>3. Append(r, t[m]) = r \o <<t[m]>>
        BY <1>1, <1>2, <3>1, AppendIsConcat
      <4> QED BY <4>2, <4>3
    <3>3. Good(m - 1)
      <4> HIDE DEF Good, Part
      <4>1. m - 1 \notin Bad
        BY <2>1, <2>2, <3>1
      <4> QED BY <3>1, <4>1
    <3>4. r \in Seq(V) /\ t[m] \in V /\ s \in Seq(V)
      BY <1>1, <1>2, <3>1
    <3> HIDE DEF r
    <3>5. Text!FlattenSeq(s \o r) = Text!FlattenSeq(s) \o Text!FlattenSeq(r)
      BY <3>3 DEF r
    <3>6. Text!FlattenSeq(s \o Append(r, t[m]))
            = Text!FlattenSeq(s) \o Text!FlattenSeq(Append(r, t[m]))
      BY <3>4, <3>5, FlatOfMore
    <3> QED BY <2>2, <3>2, <3>6
  <2> QED BY <2>3, <2>4
<1>5. Len(t) \in 0..Len(t) /\ Part(Len(t)) = t
  BY <1>1, SubSeqFull
<1> QED BY <1>3, <1>4, <1>5

-----------------------------------------------------------------------------
(* The pieces of a text.                                                   *)

\* What the pieces from a place on are, by those from the cut on.
SplitStep(s, g, from) ==
  LET cut == Text!Cut(s, from)
  IN IF cut = 0 THEN <<<<>>, SubSeq(s, from, Len(s))>>
     ELSE LET piece == Text!Strip(SubSeq(s, from, cut - 1))
          IN <<IF piece = <<>> THEN g[cut][1] ELSE <<piece>> \o g[cut][1], g[cut][2]>>

IsSplit(s, g, first) == \A from \in first..(Len(s) + 1) : g[from] = SplitStep(s, g, from)

\* Only what is at the cut matters.
LEMMA SplitStepAgrees ==
  ASSUME NEW s, NEW g, NEW h, NEW from, Text!Cut(s, from) # 0 => g[Text!Cut(s, from)] = h[Text!Cut(s, from)]
  PROVE  SplitStep(s, g, from) = SplitStep(s, h, from)
<1> DEFINE c == Text!Cut(s, from)
<1>1. CASE c = 0
  BY <1>1 DEF SplitStep
<1>2. CASE c # 0
  <2>1. g[c] = h[c]
    BY <1>2
  <2> QED BY <1>2, <2>1 DEF SplitStep
<1> QED BY <1>1, <1>2

\* There is such a function, since a cut goes on.
LEMMA SplitIs ==
  ASSUME NEW S, NEW s \in Seq(S)
  PROVE  \E g : IsSplit(s, g, 1) /\ Text!Split(s) = g[1]
<1> DEFINE n == Len(s) + 1
           Bad == {k \in 1..n : ~\E g : IsSplit(s, g, k)}
           Is(g) == g = [from \in 1..n |-> SplitStep(s, g, from)]
           f == CHOOSE g : Is(g)
<1>1. n \in Nat /\ n = Len(s) + 1 /\ 1 \in 1..n
  OBVIOUS
<1>a. Text!Split(s) = f[1]
  BY DEF Text!Split, SplitStep
<1> HIDE DEF n, f
<1>2. Bad = {}
  <2> SUFFICES ASSUME Bad # {} PROVE FALSE
    OBVIOUS
  <2>1. PICK m \in Bad : \A k \in Bad : k <= m
    <3>1. Bad \subseteq 1..n
      OBVIOUS
    <3> QED BY <1>1, <3>1, Greatest
  <2>2. m \in 1..n /\ ~\E g : IsSplit(s, g, m)
    OBVIOUS
  <2>3. \E g : IsSplit(s, g, m + 1)
    <3>1. CASE m = n
      <4>1. (m + 1)..(Len(s) + 1) = {}
        BY <1>1, <2>2, <3>1
      <4> QED BY <4>1 DEF IsSplit
    <3>2. CASE m # n
      <4>1. m + 1 \in 1..n /\ ~(m + 1 <= m)
        BY <1>1, <2>2, <3>2
      <4>2. m + 1 \notin Bad
        BY <2>1, <4>1
      <4> QED BY <4>1, <4>2
    <3> QED BY <3>1, <3>2
  <2> HIDE DEF Bad
  <2>4. PICK g : IsSplit(s, g, m + 1)
    BY <2>3
  <2> DEFINE h == [x \in m..n |-> IF x = m THEN SplitStep(s, g, m) ELSE g[x]]
  <2>5. m \in m..n /\ m \in Nat
    BY <1>1, <2>2
  <2>6. h[m] = SplitStep(s, g, m) /\ \A x \in (m + 1)..n : h[x] = g[x]
    <3>1. \A x \in (m + 1)..n : x # m /\ x \in m..n
      BY <2>5
    <3> QED BY <2>5, <3>1
  <2> HIDE DEF h
  <2>7. ASSUME NEW x \in m..n PROVE h[x] = SplitStep(s, h, x)
    <3>1. x \in 1..(Len(s) + 1)
      BY <1>1, <2>2
    <3>2. PICK c : c = Text!Cut(s, x)
      OBVIOUS
    <3>3. c # 0 => c \in (x + 1)..(Len(s) + 1)
      BY <3>1, <3>2, CutPlaces
    <3>4. c # 0 => c \in (m + 1)..n
      BY <1>1, <2>5, <3>1, <3>3
    <3>5. Text!Cut(s, x) # 0 => g[Text!Cut(s, x)] = h[Text!Cut(s, x)]
      BY <2>6, <3>2, <3>4
    <3>6. SplitStep(s, g, x) = SplitStep(s, h, x)
      BY <3>5, SplitStepAgrees
    <3>7. h[x] = SplitStep(s, g, x)
      <4>1. CASE x = m
        BY <2>6, <4>1
      <4>2. CASE x # m
        <5>1. x \in (m + 1)..n
          BY <2>5, <4>2
        <5> QED BY <1>1, <2>4, <2>6, <5>1 DEF IsSplit
      <4> QED BY <4>1, <4>2
    <3> QED BY <3>6, <3>7
  <2> QED BY <1>1, <2>2, <2>7 DEF IsSplit
<1>3. PICK g : IsSplit(s, g, 1)
  BY <1>1, <1>2
<1> DEFINE h == [x \in 1..n |-> g[x]]
<1>4. \A x \in 1..n : h[x] = SplitStep(s, h, x)
  <2> SUFFICES ASSUME NEW x \in 1..n PROVE h[x] = SplitStep(s, h, x)
    OBVIOUS
  <2>1. x \in 1..(Len(s) + 1) /\ h[x] = g[x] /\ x \in Nat
    BY <1>1
  <2>a. \A y \in 1..n : h[y] = g[y]
    OBVIOUS
  <2> HIDE DEF h
  <2>2. PICK c : c = Text!Cut(s, x)
    OBVIOUS
  <2>3. c # 0 => c \in (x + 1)..(Len(s) + 1)
    BY <2>1, <2>2, CutPlaces
  <2>4. c # 0 => c \in 1..n
    BY <1>1, <2>1, <2>3
  <2>5. Text!Cut(s, x) # 0 => g[Text!Cut(s, x)] = h[Text!Cut(s, x)]
    BY <2>2, <2>4, <2>a
  <2>6. SplitStep(s, g, x) = SplitStep(s, h, x)
    BY <2>5, SplitStepAgrees
  <2> QED BY <1>1, <1>3, <2>1, <2>6 DEF IsSplit
<1>5. Is(h)
  <2>1. h = [x \in 1..n |-> h[x]]
    OBVIOUS
  <2> HIDE DEF h
  <2> QED BY <1>4, <2>1
<1>6. Is(f)
  BY <1>5 DEF f
<1>7. \A x \in 1..n : f[x] = SplitStep(s, f, x)
  BY <1>6
<1>8. IsSplit(s, f, 1)
  BY <1>1, <1>7 DEF IsSplit
<1> QED BY <1>a, <1>8

\* What holds where nothing is cut, and where it holds at the cut, holds at every
\* place.
LEMMA EveryPlace ==
  ASSUME NEW S, NEW s \in Seq(S), NEW G,
         \A from \in 1..(Len(s) + 1) :
           Text!Cut(s, from) = 0 \/ Text!Cut(s, from) \in G => from \in G
  PROVE  \A from \in 1..(Len(s) + 1) : from \in G
<1> DEFINE Bad == (1..(Len(s) + 1)) \ G
<1>1. SUFFICES ASSUME Bad # {} PROVE FALSE
  OBVIOUS
<1>2. Len(s) + 1 \in Nat /\ Bad \subseteq 1..(Len(s) + 1)
  OBVIOUS
<1>3. PICK m \in Bad : \A k \in Bad : k <= m
  BY <1>1, <1>2, Greatest
<1>4. PICK c : c = Text!Cut(s, m)
  OBVIOUS
<1>5. m \in 1..(Len(s) + 1) /\ m \in Nat
  BY <1>2
<1>6. c = 0 \/ c \in (m + 1)..(Len(s) + 1)
  BY <1>4, <1>5, CutPlaces
<1>7. c # 0 => c \in 1..(Len(s) + 1) /\ ~(c <= m)
  BY <1>5, <1>6
<1>8. c # 0 => c \in G
  BY <1>3, <1>7
<1> QED BY <1>4, <1>5, <1>8

-----------------------------------------------------------------------------
(* Every word is in one piece.                                             *)

\* The words of two parts.
LEMMA WordsOfConcat ==
  ASSUME NEW S, NEW a \in Seq(S), NEW b \in Seq(S)
  PROVE  Text!Words(a \o b) = Text!Words(a) \o Text!Words(b)
<1>1. PICK K : K = Text!Tokens \ Text!Spaces
  OBVIOUS
<1>2. \A x : Text!Words(x) = Only(x, K)
  BY <1>1, TextFilter DEF Text!Words
<1>3. Only(a \o b, K) = Only(a, K) \o Only(b, K)
  BY OnlyOfConcat
<1> QED BY <1>2, <1>3

\* Separators are none.
LEMMA WordsOfSpaces ==
  ASSUME NEW S, NEW s \in Seq(S), \A i \in 1..Len(s) : s[i] \in Text!Spaces
  PROVE  Text!Words(s) = <<>>
<1>1. PICK K : K = Text!Tokens \ Text!Spaces
  OBVIOUS
<1>2. \A x : Text!Words(x) = Only(x, K)
  BY <1>1, TextFilter DEF Text!Words
<1>3. \A i \in 1..Len(s) : s[i] \notin K
  BY <1>1
<1> QED BY <1>2, <1>3, OnlyOfGone

\* The words of a text are a text.
LEMMA WordsType ==
  ASSUME NEW S, NEW s \in Seq(S) PROVE Text!Words(s) \in Seq(S)
<1>1. PICK K : K = Text!Tokens \ Text!Spaces
  OBVIOUS
<1>2. Text!Words(s) = Only(s, K)
  BY <1>1, TextFilter DEF Text!Words
<1>3. Only(s, K) \in Seq(S \cap K)
  BY OnlyType
<1>4. Only(s, K) \in Seq(S)
  BY <1>3
<1> QED BY <1>2, <1>4

\* What is stripped is none.
LEMMA WordsOfStrip ==
  ASSUME NEW S, NEW s \in Seq(S)
  PROVE  Text!Words(Text!Strip(s)) = Text!Words(s)
<1>1. CASE Text!Ink(s) = {} /\ Text!Strip(s) = <<>>
  <2>1. \A i \in 1..Len(s) : s[i] \in Text!Spaces
    BY <1>1 DEF Text!Ink
  <2>2. Text!Words(s) = <<>>
    BY <2>1, WordsOfSpaces
  <2>3. Text!Words(<<>>) = <<>>
    <3>1. <<>> \in Seq(S) /\ \A i \in 1..Len(<<>>) : <<>>[i] \in Text!Spaces
      BY EmptySeq
    <3> QED BY <3>1, WordsOfSpaces
  <2> QED BY <1>1, <2>2, <2>3
<1>2. ASSUME NEW a \in 1..Len(s), NEW b \in 1..Len(s), a <= b,
             \A i \in 1..Len(s) : s[i] \notin Text!Spaces => a <= i /\ i <= b,
             Text!Strip(s) = SubSeq(s, a, b)
      PROVE  Text!Words(Text!Strip(s)) = Text!Words(s)
  <2> DEFINE x == SubSeq(s, 1, a - 1)
             y == SubSeq(s, a, b)
             z == SubSeq(s, b + 1, Len(s))
  <2>1. Len(s) \in Nat /\ a \in Nat /\ b \in Nat /\ 1 <= a /\ b <= Len(s)
    OBVIOUS
  <2>2. /\ x \in Seq(S) /\ Len(x) = (a - 1) - 1 + 1
        /\ \A i \in 1..((a - 1) - 1 + 1) : x[i] = s[1 + i - 1]
    <3>1. a - 1 \in 0..Len(s) /\ 1 <= (a - 1) + 1 /\ 1 \in Nat \ {0}
      BY <2>1
    <3> QED BY <3>1, PartIs
  <2>3. y \in Seq(S)
    <3>1. a \in Nat \ {0} /\ b \in 0..Len(s) /\ a <= b + 1
      BY <1>2, <2>1
    <3> QED BY <3>1, PartIs
  <2>4. /\ z \in Seq(S) /\ Len(z) = Len(s) - (b + 1) + 1
        /\ \A i \in 1..(Len(s) - (b + 1) + 1) : z[i] = s[(b + 1) + i - 1]
    <3>1. b + 1 \in Nat \ {0} /\ Len(s) \in 0..Len(s) /\ b + 1 <= Len(s) + 1
      BY <2>1
    <3> QED BY <3>1, PartIs
  <2>5. x \o SubSeq(s, a, Len(s)) = s
    <3>1. /\ 1 \in 1..(Len(s) + 1) /\ a - 1 \in (1 - 1)..Len(s)
          /\ Len(s) \in (a - 1)..Len(s) /\ (a - 1) + 1 = a
      BY <2>1
    <3>2. SubSeq(s, 1, a - 1) \o SubSeq(s, (a - 1) + 1, Len(s)) = SubSeq(s, 1, Len(s))
      BY <3>1, ConcatAdjacentSubSeq
    <3> QED BY <3>1, <3>2, SubSeqFull
  <2>6. y \o z = SubSeq(s, a, Len(s))
    <3>1. a \in 1..(Len(s) + 1) /\ b \in (a - 1)..Len(s) /\ Len(s) \in b..Len(s)
      BY <1>2, <2>1
    <3> QED BY <3>1, ConcatAdjacentSubSeq
  <2> HIDE DEF x, y, z
  <2>7. \A i \in 1..Len(x) : x[i] \in Text!Spaces
    <3> SUFFICES ASSUME NEW i \in 1..Len(x) PROVE x[i] \in Text!Spaces
      OBVIOUS
    <3>1. i \in 1..((a - 1) - 1 + 1) /\ i \in 1..Len(s) /\ ~(a <= i) /\ 1 + i - 1 = i
      BY <2>1, <2>2
    <3> QED BY <1>2, <2>2, <3>1
  <2>8. \A i \in 1..Len(z) : z[i] \in Text!Spaces
    <3> SUFFICES ASSUME NEW i \in 1..Len(z) PROVE z[i] \in Text!Spaces
      OBVIOUS
    <3>1. /\ i \in 1..(Len(s) - (b + 1) + 1) /\ (b + 1) + i - 1 \in 1..Len(s)
          /\ ~((b + 1) + i - 1 <= b)
      BY <2>1, <2>4
    <3> QED BY <1>2, <2>4, <3>1
  <2>9. Text!Words(x) = <<>> /\ Text!Words(z) = <<>>
    BY <2>2, <2>4, <2>7, <2>8, WordsOfSpaces
  <2>10. Text!Words(y \o z) = Text!Words(y) \o Text!Words(z) /\ y \o z \in Seq(S)
    BY <2>3, <2>4, WordsOfConcat, ConcatProperties
  <2>11. Text!Words(x \o (y \o z)) = Text!Words(x) \o Text!Words(y \o z)
    BY <2>2, <2>10, WordsOfConcat
  <2>12. Text!Words(y) \in Seq(S)
    BY <2>3, WordsType
  <2>13. Text!Words(y) \o <<>> = Text!Words(y) /\ <<>> \o Text!Words(y) = Text!Words(y)
    BY <2>12, ConcatEmptySeq
  <2> QED BY <1>2, <2>5, <2>6, <2>9, <2>10, <2>11, <2>13 DEF y
<1> QED BY <1>1, <1>2, StripIs

\* Clips: not empty and of bounded length.
Pieces(S) == {x \in Seq(S) : x # <<>> /\ Bounded(x)}

\* What the pieces from a place on are made of.
Told(S, s, from, r) ==
  /\ r = <<r[1], r[2]>>
  /\ r[1] \in Seq(Pieces(S)) /\ r[2] \in Seq(S) /\ Bounded(Text!Strip(r[2]))
  /\ Text!Words(Text!FlattenSeq(r[1]) \o r[2]) = Text!Words(SubSeq(s, from, Len(s)))

\* Clips are texts.
LEMMA PiecesAreSeqs ==
  ASSUME NEW S, NEW c \in Seq(Pieces(S)) PROVE c \in Seq(Seq(S))
<1>1. Pieces(S) \subseteq Seq(S)
  BY DEF Pieces
<1> HIDE DEF Pieces
<1> QED BY <1>1, SeqMonotonic

\* One clip more in front of the others.
InFront(p, c, b) ==
  Text!Words(Text!FlattenSeq(<<p>> \o c) \o b) = Text!Words(p) \o Text!Words(Text!FlattenSeq(c) \o b)

\* Its words come first.
LEMMA PieceInFront ==
  ASSUME NEW S, NEW p \in Seq(S), NEW c \in Seq(Seq(S)), NEW b \in Seq(S)
  PROVE  InFront(p, c, b)
<1>1. <<p>> \in Seq(Seq(S))
  OBVIOUS
<1>2. /\ Text!FlattenSeq(<<p>> \o c) = Text!FlattenSeq(<<p>>) \o Text!FlattenSeq(c)
      /\ Text!FlattenSeq(c) \in Seq(S)
  BY <1>1, FlatOfConcat
<1>3. Text!FlattenSeq(<<p>>) = p
  <2>1. <<>> \in Seq(Seq(S)) /\ Len(<<>>) = 0
    BY EmptySeq
  <2>2. Append(<<>>, p) = <<p>>
    OBVIOUS
  <2>3. Text!FlattenSeq(Append(<<>>, p)) = Text!FlattenSeq(<<>>) \o p /\ Text!FlattenSeq(<<>>) = <<>>
    BY <2>1, FlatOfAppend
  <2>4. <<>> \o p = p
    BY ConcatEmptySeq
  <2> QED BY <2>2, <2>3, <2>4
<1> DEFINE f == Text!FlattenSeq(c)
<1>4. (p \o f) \o b = p \o (f \o b) /\ f \o b \in Seq(S)
  BY <1>2, ConcatAssociative, ConcatProperties
<1>5. Text!Words(p \o (f \o b)) = Text!Words(p) \o Text!Words(f \o b)
  BY <1>4, WordsOfConcat
<1> QED BY <1>2, <1>3, <1>4, <1>5 DEF InFront

\* The pieces from a place on, if those from the cut on are.
LEMMA ToldStep ==
  ASSUME NEW S, NEW s \in Seq(S), NEW g, NEW from \in 1..(Len(s) + 1),
         Text!Cut(s, from) # 0 => Told(S, s, Text!Cut(s, from), g[Text!Cut(s, from)])
  PROVE  Told(S, s, from, SplitStep(s, g, from))
<1>1. PICK c : c = Text!Cut(s, from)
  OBVIOUS
<1>2. Len(s) \in Nat /\ from \in Nat \ {0}
  OBVIOUS
<1>3. CASE c = 0
  <2> DEFINE x == SubSeq(s, from, Len(s))
  <2>1. Len(s) \in 0..Len(s) /\ from <= Len(s) + 1
    BY <1>2
  <2>2. x \in Seq(S)
    BY <1>2, <2>1, PartIs
  <2>3. Bounded(Text!Strip(x))
    <3>1. Within(s, from, Len(s))
      <4>1. \/ c = 0 /\ Within(s, from, Len(s))
            \/ c \in (from + 1)..(Len(s) + 1) /\ Within(s, from, c - 1)
        BY <1>1, CutPlaces
      <4> QED BY <1>2, <1>3, <4>1
    <3> QED BY <1>2, <2>1, <3>1, PieceBounded
  <2>4. SplitStep(s, g, from) = <<<<>>, x>>
    BY <1>1, <1>3 DEF SplitStep
  <2> HIDE DEF x
  <2>5. <<>> \in Seq(Pieces(S)) /\ Text!FlattenSeq(<<>>) = <<>> /\ <<>> \o x = x
    <3>1. <<>> \in Seq(Seq(S)) /\ Len(<<>>) = 0 /\ <<>> \in Seq(Pieces(S)) /\ <<>> \in Seq(S)
      BY EmptySeq
    <3>2. Text!FlattenSeq(<<>>) = <<>>
      BY <3>1, FlatOfAppend
    <3>3. <<>> \o x = x
      BY <2>2, ConcatEmptySeq
    <3> QED BY <3>1, <3>2, <3>3
  <2> HIDE DEF Pieces
  <2>6. PICK q : q = SplitStep(s, g, from)
    OBVIOUS
  <2>7. q = <<q[1], q[2]>> /\ q[1] = <<>> /\ q[2] = x
    BY <2>4, <2>6
  <2>8. Text!Words(Text!FlattenSeq(q[1]) \o q[2]) = Text!Words(SubSeq(s, from, Len(s)))
    BY <2>5, <2>7 DEF x
  <2> QED BY <2>2, <2>3, <2>5, <2>6, <2>7, <2>8 DEF Told
<1>4. CASE c # 0
  <2> DEFINE x == SubSeq(s, from, c - 1)
             y == SubSeq(s, c, Len(s))
             piece == Text!Strip(x)
             r == g[c]
  <2>1. c \in (from + 1)..(Len(s) + 1) /\ Within(s, from, c - 1)
    BY <1>1, <1>4, CutPlaces
  <2>2. c \in Nat /\ c - 1 \in 0..Len(s) /\ from <= (c - 1) + 1 /\ c \in Nat \ {0}
    BY <1>2, <2>1
  <2>3. x \in Seq(S)
    BY <1>2, <2>2, PartIs
  <2>4. y \in Seq(S) /\ x \o y = SubSeq(s, from, Len(s))
    <3>1. /\ from \in 1..(Len(s) + 1) /\ c - 1 \in (from - 1)..Len(s)
          /\ Len(s) \in (c - 1)..Len(s) /\ (c - 1) + 1 = c
      BY <1>2, <2>1, <2>2
    <3>2. Len(s) \in 0..Len(s) /\ c <= Len(s) + 1
      BY <1>2, <2>1
    <3>3. y \in Seq(S)
      BY <2>2, <3>2, PartIs
    <3>4. SubSeq(s, from, c - 1) \o SubSeq(s, (c - 1) + 1, Len(s)) = SubSeq(s, from, Len(s))
      BY <3>1, ConcatAdjacentSubSeq
    <3> QED BY <3>1, <3>3, <3>4
  <2>5. Bounded(piece)
    BY <1>2, <2>1, <2>2, PieceBounded
  <2>6. piece \in Seq(S) /\ Text!Words(piece) = Text!Words(x)
    BY <2>3, StripType, WordsOfStrip
  <2>7. Told(S, s, c, r)
    BY <1>1, <1>4
  <2>8. SplitStep(s, g, from) = <<IF piece = <<>> THEN r[1] ELSE <<piece>> \o r[1], r[2]>>
    BY <1>1, <1>4 DEF SplitStep
  <2> HIDE DEF x, y, piece, r
  <2>9. /\ r[1] \in Seq(Pieces(S)) /\ r[2] \in Seq(S) /\ Bounded(Text!Strip(r[2]))
        /\ Text!Words(Text!FlattenSeq(r[1]) \o r[2]) = Text!Words(y)
    BY <2>7 DEF Told, y
  <2>10. r[1] \in Seq(Seq(S))
    BY <2>9, PiecesAreSeqs
  <2>11. Text!Words(SubSeq(s, from, Len(s))) = Text!Words(x) \o Text!Words(y)
    BY <2>3, <2>4, WordsOfConcat
  <2>12. Text!Words(y) \in Seq(S)
    BY <2>4, WordsType
  <2>13. CASE piece = <<>>
    <3>1. Text!Words(x) = <<>>
      <4>1. <<>> \in Seq(S) /\ \A i \in 1..Len(<<>>) : <<>>[i] \in Text!Spaces
        BY EmptySeq
      <4> QED BY <2>6, <2>13, <4>1, WordsOfSpaces
    <3>2. <<>> \o Text!Words(y) = Text!Words(y)
      BY <2>12, ConcatEmptySeq
    <3>3. SplitStep(s, g, from) = <<r[1], r[2]>>
      BY <2>8, <2>13
    <3> QED BY <2>9, <2>11, <3>1, <3>2, <3>3 DEF Told
  <2>14. CASE piece # <<>>
    <3>1. SplitStep(s, g, from) = <<<<piece>> \o r[1], r[2]>>
      BY <2>8, <2>14
    <3>2. piece \in Pieces(S)
      BY <2>5, <2>6, <2>14 DEF Pieces
    <3>3. <<piece>> \o r[1] \in Seq(Pieces(S))
      <4> HIDE DEF Pieces
      <4>1. <<piece>> \in Seq(Pieces(S))
        BY <3>2
      <4> QED BY <2>9, <4>1, ConcatProperties
    <3>4. Text!Words(Text!FlattenSeq(<<piece>> \o r[1]) \o r[2])
            = Text!Words(piece) \o Text!Words(Text!FlattenSeq(r[1]) \o r[2])
      <4>1. PICK e, b : e = r[1] /\ b = r[2]
        OBVIOUS
      <4>2. Text!Words(Text!FlattenSeq(<<piece>> \o e) \o b)
              = Text!Words(piece) \o Text!Words(Text!FlattenSeq(e) \o b)
        <5>1. piece \in Seq(S) /\ e \in Seq(Seq(S)) /\ b \in Seq(S)
          BY <2>6, <2>9, <2>10, <4>1
        <5>2. InFront(piece, e, b)
          BY <5>1, PieceInFront
        <5> QED BY <5>2 DEF InFront
      <4> QED BY <4>1, <4>2
    <3> HIDE DEF Pieces
    <3>5. PICK q : q = SplitStep(s, g, from)
      OBVIOUS
    <3>6. q = <<q[1], q[2]>> /\ q[1] = <<piece>> \o r[1] /\ q[2] = r[2]
      BY <3>1, <3>5
    <3>7. Text!Words(Text!FlattenSeq(q[1]) \o q[2]) = Text!Words(SubSeq(s, from, Len(s)))
      BY <2>6, <2>9, <2>11, <3>4, <3>6
    <3>8. q[1] \in Seq(Pieces(S)) /\ q[2] \in Seq(S) /\ Bounded(Text!Strip(q[2]))
      BY <2>9, <3>3, <3>6
    <3> QED BY <3>5, <3>6, <3>7, <3>8 DEF Told
  <2> QED BY <2>13, <2>14
<1> QED BY <1>3, <1>4

\* Clips that are not empty and of bounded length, and with the rest they are the
\* words of the text, from every place on.
LEMMA EveryTold ==
  ASSUME NEW S, NEW s \in Seq(S), NEW g, IsSplit(s, g, 1)
  PROVE  \A from \in 1..(Len(s) + 1) : Told(S, s, from, g[from])
<1> DEFINE G == {from \in 1..(Len(s) + 1) : Told(S, s, from, g[from])}
<1>1. ASSUME NEW from \in 1..(Len(s) + 1), Text!Cut(s, from) = 0 \/ Text!Cut(s, from) \in G
      PROVE  from \in G
  <2>1. Text!Cut(s, from) # 0 => Told(S, s, Text!Cut(s, from), g[Text!Cut(s, from)])
    BY <1>1
  <2>2. Told(S, s, from, SplitStep(s, g, from))
    BY <2>1, ToldStep
  <2>3. g[from] = SplitStep(s, g, from)
    BY DEF IsSplit
  <2> QED BY <2>2, <2>3
<1> HIDE DEF G
<1>2. \A from \in 1..(Len(s) + 1) : from \in G
  BY <1>1, EveryPlace
<1> QED BY <1>2 DEF G

\* _split_sentences.
LEMMA SplitTold ==
  ASSUME NEW S, NEW s \in Seq(S)
  PROVE  Told(S, s, 1, Text!Split(s))
<1>1. PICK g : IsSplit(s, g, 1) /\ Text!Split(s) = g[1]
  BY SplitIs
<1>2. 1 \in 1..(Len(s) + 1)
  OBVIOUS
<1> QED BY <1>1, <1>2, EveryTold

-----------------------------------------------------------------------------
(* The pieces do not depend on the portions a text comes in.               *)

\* What is cut at c is this piece.
IsPiece(s, g, from, c, piece) ==
  SplitStep(s, g, from) = <<IF piece = <<>> THEN g[c][1] ELSE <<piece>> \o g[c][1], g[c][2]>>

\* A piece that is cut is the same where s begins like a.
LEMMA StepAlike ==
  ASSUME NEW S, NEW a \in Seq(S), NEW s \in Seq(S), NEW p \in Nat, Alike(a, s, p),
         NEW from \in 1..(Len(a) + 1), NEW c, c = Text!Cut(a, from), c # 0, NEW g, NEW h
  PROVE  \E piece \in Seq(S) :
           IsPiece(a, g, from, c, piece) /\ IsPiece(s, h, p + from, p + c, piece)
<1> DEFINE x == SubSeq(a, from, c - 1)
           piece == Text!Strip(x)
<1>1. c \in (from + 1)..(Len(a) + 1)
  <2>1. c = 0 \/ c \in (from + 1)..(Len(a) + 1)
    BY CutPlaces
  <2> QED BY <2>1
<1>2. Len(a) \in Nat /\ c - 1 \in 0..Len(a) /\ from <= (c - 1) + 1 /\ from \in Nat \ {0} /\ c \in Nat
  BY <1>1
<1>3. x \in Seq(S) /\ SubSeq(s, p + from, p + (c - 1)) = x
  <2>1. PICK to : to = c - 1
    OBVIOUS
  <2>2. SubSeq(a, from, to) \in Seq(S)
    BY <1>2, <2>1, PartIs
  <2>3. to \in 0..Len(a) /\ from <= to + 1
    BY <1>2, <2>1
  <2> HIDE DEF x, piece
  <2>4. SamePart(a, s, p, from, to)
    BY <1>2, <2>3, PartsAlike
  <2> USE DEF x
  <2> QED BY <2>1, <2>2, <2>4 DEF SamePart
<1>4. Text!Cut(s, p + from) = p + c /\ p + c # 0 /\ (p + c) - 1 = p + (c - 1)
  <2>1. Text!Cut(s, p + from) = p + Text!Cut(a, from)
    BY CutAlike
  <2> QED BY <1>1, <1>2, <2>1
<1>5. SplitStep(a, g, from) = <<IF piece = <<>> THEN g[c][1] ELSE <<piece>> \o g[c][1], g[c][2]>>
  BY DEF SplitStep
<1>6. SplitStep(s, h, p + from) =
        <<IF piece = <<>> THEN h[p + c][1] ELSE <<piece>> \o h[p + c][1], h[p + c][2]>>
  <2>1. Text!Strip(SubSeq(s, p + from, (p + c) - 1)) = piece
    BY <1>3, <1>4
  <2>2. PICK d : d = p + c
    OBVIOUS
  <2> HIDE DEF piece
  <2>3. Text!Cut(s, p + from) = d /\ d # 0 /\ Text!Strip(SubSeq(s, p + from, d - 1)) = piece
    BY <1>4, <2>1, <2>2
  <2>4. SplitStep(s, h, p + from) =
          <<IF piece = <<>> THEN h[d][1] ELSE <<piece>> \o h[d][1], h[d][2]>>
    BY <2>3 DEF SplitStep
  <2> QED BY <2>2, <2>4
<1>7. piece \in Seq(S)
  BY <1>3, StripType
<1>8. IsPiece(a, g, from, c, piece) /\ IsPiece(s, h, p + from, p + c, piece)
  BY <1>5, <1>6 DEF IsPiece
<1> QED BY <1>7, <1>8

\* The pieces from i on are those behind the first p tokens.
SameRest(k, h, p, i) == k[i] = h[p + i]

\* They are if those from the cut on are.
LEMMA RestStep ==
  ASSUME NEW S, NEW t \in Seq(S), NEW s \in Seq(S), NEW p \in Nat, Alike(t, s, p), Len(s) = p + Len(t),
         NEW k, IsSplit(t, k, 1), NEW h, IsSplit(s, h, 1), NEW i \in 1..(Len(t) + 1),
         NEW c, c = Text!Cut(t, i), c # 0 => SameRest(k, h, p, c)
  PROVE  SameRest(k, h, p, i)
<1>1. Len(t) \in Nat /\ i \in Nat \ {0}
  OBVIOUS
<1>2. p + i \in 1..(Len(s) + 1)
  BY <1>1
<1>3. k[i] = SplitStep(t, k, i) /\ h[p + i] = SplitStep(s, h, p + i)
  BY <1>2 DEF IsSplit
<1>4. CASE c = 0
  <2>1. Text!Cut(s, p + i) = 0
    <3>1. Text!Cut(t, i) = 0
      BY <1>4
    <3> QED BY <3>1, CutAlike
  <2>2. Len(t) \in 0..Len(t) /\ i <= Len(t) + 1
    BY <1>1
  <2>3. SamePart(t, s, p, i, Len(t))
    BY <1>1, <2>2, PartsAlike
  <2>4. SubSeq(s, p + i, Len(s)) = SubSeq(t, i, Len(t))
    BY <2>3 DEF SamePart
  <2> QED BY <1>3, <1>4, <2>1, <2>4 DEF SplitStep, SameRest
<1>5. CASE c # 0
  <2>1. PICK piece \in Seq(S) : IsPiece(t, k, i, c, piece) /\ IsPiece(s, h, p + i, p + c, piece)
    BY <1>5, StepAlike
  <2>2. k[c] = h[p + c]
    BY <1>5 DEF SameRest
  <2> QED BY <1>3, <2>1, <2>2 DEF IsPiece, SameRest
<1> QED BY <1>4, <1>5

\* The pieces of the rest of a text are the rest of its pieces.
LEMMA SplitOfRest ==
  ASSUME NEW S, NEW s \in Seq(S), NEW h, IsSplit(s, h, 1), NEW first \in 1..(Len(s) + 1)
  PROVE  Text!Split(SubSeq(s, first, Len(s))) = h[first]
<1>1. PICK p : p = first - 1
  OBVIOUS
<1>2. Len(s) \in Nat /\ first \in Nat \ {0} /\ Len(s) \in 0..Len(s) /\ first <= Len(s) + 1
      /\ p \in Nat /\ p + 1 = first
  BY <1>1
<1>3. PICK t : t = SubSeq(s, first, Len(s))
  OBVIOUS
<1>4. /\ t \in Seq(S) /\ Len(t) = Len(s) - first + 1
      /\ \A i \in 1..(Len(s) - first + 1) : t[i] = s[first + i - 1]
  BY <1>2, <1>3, PartIs
<1>5. Len(t) \in Nat
  BY <1>4
<1>6. Len(s) = p + Len(t)
  BY <1>1, <1>2, <1>4, <1>5
<1>7. Alike(t, s, p)
  <2>1. \A i \in 1..Len(t) : first + i - 1 = p + i
    BY <1>2, <1>5
  <2>2. \A i \in 1..Len(t) : s[p + i] = t[i]
    <3>1. Len(s) - first + 1 = Len(t)
      BY <1>4
    <3> QED BY <1>4, <2>1, <3>1
  <2>3. p + Len(t) <= Len(s)
    BY <1>2, <1>5, <1>6
  <2> QED BY <2>2, <2>3 DEF Alike
<1>8. PICK k : IsSplit(t, k, 1) /\ Text!Split(t) = k[1]
  BY <1>4, SplitIs
<1> DEFINE G == {i \in 1..(Len(t) + 1) : SameRest(k, h, p, i)}
<1>9. ASSUME NEW i \in 1..(Len(t) + 1), Text!Cut(t, i) = 0 \/ Text!Cut(t, i) \in G
      PROVE  i \in G
  <2>1. PICK c : c = Text!Cut(t, i)
    OBVIOUS
  <2>2. c # 0 => SameRest(k, h, p, c)
    BY <1>9, <2>1
  <2> HIDE DEF G
  <2>3. SameRest(k, h, p, i)
    BY <1>2, <1>4, <1>6, <1>7, <1>8, <2>1, <2>2, RestStep
  <2> QED BY <2>3 DEF G
<1> HIDE DEF G
<1>10. \A i \in 1..(Len(t) + 1) : i \in G
  BY <1>4, <1>9, EveryPlace
<1>11. 1 \in 1..(Len(t) + 1)
  BY <1>5
<1>12. k[1] = h[p + 1]
  BY <1>10, <1>11 DEF G, SameRest
<1> QED BY <1>2, <1>3, <1>8, <1>12

\* The rest of a text and what comes after it.
LEMMA RestOfConcat ==
  ASSUME NEW S, NEW a \in Seq(S), NEW x \in Seq(S), NEW from \in 1..(Len(a) + 1)
  PROVE  SubSeq(a, from, Len(a)) \o x = SubSeq(a \o x, from, Len(a \o x))
<1> DEFINE s == a \o x
           r == SubSeq(a, from, Len(a))
           t == SubSeq(s, from, Len(s))
<1>1. /\ Len(a) \in Nat /\ Len(x) \in Nat /\ from \in Nat \ {0}
      /\ s \in Seq(S) /\ Len(s) = Len(a) + Len(x)
      /\ \A i \in 1..Len(a) : s[i] = a[i]
      /\ \A i \in 1..Len(x) : s[Len(a) + i] = x[i]
  OBVIOUS
<1> HIDE DEF s
<1>2. /\ r \in Seq(S) /\ Len(r) = Len(a) - from + 1
      /\ \A i \in 1..(Len(a) - from + 1) : r[i] = a[from + i - 1]
  BY <1>1, PartIs
<1>3. /\ t \in Seq(S) /\ Len(t) = Len(s) - from + 1
      /\ \A i \in 1..(Len(s) - from + 1) : t[i] = s[from + i - 1]
  BY <1>1, PartIs
<1> HIDE DEF r, t
<1> DEFINE u == r \o x
<1>4. /\ u \in Seq(S) /\ Len(u) = Len(r) + Len(x)
      /\ \A i \in 1..Len(r) : u[i] = r[i]
      /\ \A i \in 1..Len(x) : u[Len(r) + i] = x[i]
  <2>1. r \in Seq(S)
    BY <1>2
  <2> QED BY <2>1
<1> HIDE DEF u
<1>5. Len(u) = Len(t)
  BY <1>1, <1>2, <1>3, <1>4
<1>6. ASSUME NEW i \in 1..Len(u) PROVE u[i] = t[i]
  <2>1. t[i] = s[from + i - 1]
    BY <1>3, <1>5
  <2>2. CASE i <= Len(r)
    <3>1. i \in 1..Len(r) /\ from + i - 1 \in 1..Len(a)
      BY <1>1, <1>2, <2>2
    <3> QED BY <1>1, <1>2, <1>4, <2>1, <3>1
  <2>3. CASE ~(i <= Len(r))
    <3>1. PICK j : j = i - Len(r)
      OBVIOUS
    <3>2. j \in 1..Len(x) /\ i = Len(r) + j /\ from + i - 1 = Len(a) + j
      BY <1>1, <1>2, <1>4, <2>3, <3>1
    <3> QED BY <1>1, <1>4, <2>1, <3>2
  <2> QED BY <2>2, <2>3
<1>7. u = t
  BY <1>3, <1>4, <1>5, <1>6, SeqEqual
<1> QED BY <1>7 DEF u, r, t, s

\* What becomes of the pieces r of a portion when x comes next.
Carried(r, x, out) ==
  LET next == Text!Split(r[2] \o x) IN out = <<r[1] \o next[1], next[2]>>

\* Where nothing is cut, the rest is split again.
LEMMA CarriedRest ==
  ASSUME NEW S, NEW a \in Seq(S), NEW x \in Seq(S), NEW from \in 1..(Len(a) + 1), NEW g, NEW h,
         IsSplit(a \o x, h, 1), Text!Cut(a, from) = 0
  PROVE  Carried(SplitStep(a, g, from), x, h[from])
<1>1. PICK r : r = SubSeq(a, from, Len(a))
  OBVIOUS
<1>2. Len(a) \in Nat /\ from \in Nat \ {0} /\ Len(a) \in 0..Len(a) /\ from <= Len(a) + 1
  OBVIOUS
<1>3. r \in Seq(S)
  BY <1>1, <1>2, PartIs
<1>4. PICK s : s = a \o x
  OBVIOUS
<1>5. s \in Seq(S) /\ from \in 1..(Len(s) + 1)
  BY <1>4
<1>6. r \o x = SubSeq(s, from, Len(s))
  BY <1>1, <1>4, RestOfConcat
<1>7. Text!Split(r \o x) = h[from]
  <2>1. IsSplit(s, h, 1)
    BY <1>4
  <2>2. Text!Split(SubSeq(s, from, Len(s))) = h[from]
    BY <1>5, <2>1, SplitOfRest
  <2> QED BY <1>6, <2>2
<1>8. PICK q : q = Text!Split(r \o x)
  OBVIOUS
<1>9. q = <<q[1], q[2]>> /\ q[1] \in Seq(Pieces(S))
  <2>1. r \o x \in Seq(S)
    BY <1>3, ConcatProperties
  <2>2. Told(S, r \o x, 1, q)
    BY <1>8, <2>1, SplitTold
  <2> QED BY <2>2 DEF Told
<1>10. <<>> \o q[1] = q[1]
  BY <1>9, ConcatEmptySeq
<1>11. SplitStep(a, g, from) = <<<<>>, r>>
  BY <1>1 DEF SplitStep
<1>12. PICK w : w = SplitStep(a, g, from)
  OBVIOUS
<1>13. w[1] = <<>> /\ w[2] = r
  BY <1>11, <1>12
<1>14. Carried(w, x, h[from])
  BY <1>7, <1>8, <1>9, <1>10, <1>13 DEF Carried
<1> QED BY <1>12, <1>14

\* It does not matter which two of three are joined first.
JoinedAlike(a, b, c) == (a \o b) \o c = a \o (b \o c)

\* Of joining three.
LEMMA Joined ==
  ASSUME NEW S, NEW a \in Seq(S), NEW b \in Seq(S), NEW c \in Seq(S) PROVE JoinedAlike(a, b, c)
BY ConcatAssociative DEF JoinedAlike

\* A piece that is cut stays in front.
LEMMA CarriedPiece ==
  ASSUME NEW S, NEW piece \in Seq(S), NEW x \in Seq(S), NEW r, NEW out, Carried(r, x, out),
         r[1] \in Seq(Pieces(S)), r[2] \in Seq(S), NEW w, NEW v,
         w = <<IF piece = <<>> THEN r[1] ELSE <<piece>> \o r[1], r[2]>>,
         v = <<IF piece = <<>> THEN out[1] ELSE <<piece>> \o out[1], out[2]>>
  PROVE  Carried(w, x, v)
<1>1. PICK u : u = r[1]
  OBVIOUS
<1>2. PICK b : b = r[2]
  OBVIOUS
<1>3. PICK q : q = Text!Split(b \o x)
  OBVIOUS
<1>4. out = <<u \o q[1], q[2]>>
  BY <1>1, <1>2, <1>3 DEF Carried
<1>5. q[1] \in Seq(Seq(S)) /\ u \in Seq(Seq(S))
  <2>1. b \o x \in Seq(S)
    BY <1>2, ConcatProperties
  <2>2. Told(S, b \o x, 1, q)
    BY <1>3, <2>1, SplitTold
  <2>3. q[1] \in Seq(Pieces(S))
    BY <2>2 DEF Told
  <2> QED BY <1>1, <2>3, PiecesAreSeqs
<1>6. (<<piece>> \o u) \o q[1] = <<piece>> \o (u \o q[1])
  <2>1. PICK V : V = Seq(S)
    OBVIOUS
  <2>2. PICK one : one = <<piece>>
    OBVIOUS
  <2>3. one \in Seq(V) /\ u \in Seq(V) /\ q[1] \in Seq(V)
    BY <1>5, <2>1, <2>2
  <2>4. PICK y : y = q[1]
    OBVIOUS
  <2>5. (one \o u) \o y = one \o (u \o y)
    <3>1. y \in Seq(V)
      BY <2>3, <2>4
    <3>2. JoinedAlike(one, u, y)
      BY <2>3, <3>1, Joined
    <3> QED BY <3>2 DEF JoinedAlike
  <2> QED BY <2>2, <2>4, <2>5
<1>7. /\ w[1] = (IF piece = <<>> THEN u ELSE <<piece>> \o u) /\ w[2] = b
      /\ v = <<IF piece = <<>> THEN u \o q[1] ELSE <<piece>> \o (u \o q[1]), q[2]>>
  BY <1>1, <1>2, <1>4
<1>8. v = <<w[1] \o q[1], q[2]>>
  BY <1>6, <1>7
<1> QED BY <1>3, <1>7, <1>8 DEF Carried

\* The pieces do not depend on where a text is divided.
LEMMA SplitOfConcat ==
  ASSUME NEW S, NEW a \in Seq(S), NEW x \in Seq(S)
  PROVE  Carried(Text!Split(a), x, Text!Split(a \o x))
<1>1. PICK s : s = a \o x
  OBVIOUS
<1>2. PICK p : p = 0
  OBVIOUS
<1>3. s \in Seq(S) /\ p \in Nat /\ 1 \in 1..(Len(a) + 1)
  BY <1>1, <1>2
<1>4. Alike(a, s, p)
  BY <1>1, <1>2 DEF Alike
<1>5. PICK g : IsSplit(a, g, 1) /\ Text!Split(a) = g[1]
  BY SplitIs
<1>6. PICK h : IsSplit(s, h, 1) /\ Text!Split(s) = h[1]
  BY <1>3, SplitIs
<1> DEFINE G == {from \in 1..(Len(a) + 1) : Carried(g[from], x, h[from])}
<1>7. ASSUME NEW from \in 1..(Len(a) + 1), Text!Cut(a, from) = 0 \/ Text!Cut(a, from) \in G
      PROVE  from \in G
  <2>1. Len(a) + 1 <= Len(s) + 1 /\ from \in 1..(Len(s) + 1) /\ p + from = from
    BY <1>1, <1>2
  <2>2. g[from] = SplitStep(a, g, from) /\ h[from] = SplitStep(s, h, from)
    BY <1>5, <1>6, <2>1 DEF IsSplit
  <2>3. CASE Text!Cut(a, from) = 0
    <3>1. Carried(SplitStep(a, g, from), x, h[from])
      BY <1>1, <1>6, <2>3, CarriedRest
    <3> QED BY <2>2, <3>1
  <2>4. CASE Text!Cut(a, from) # 0
    <3>1. PICK c : c = Text!Cut(a, from)
      OBVIOUS
    <3>2. c \in 1..(Len(a) + 1) /\ Carried(g[c], x, h[c]) /\ p + c = c /\ c # 0
      BY <1>2, <1>7, <2>4, <3>1
    <3>3. Told(S, a, c, g[c])
      BY <1>5, <3>2, EveryTold
    <3> HIDE DEF G
    <3>4. PICK piece \in Seq(S) : IsPiece(a, g, from, c, piece) /\ IsPiece(s, h, p + from, p + c, piece)
      BY <1>3, <1>4, <3>1, <3>2, StepAlike
    <3>5. /\ g[from] = <<IF piece = <<>> THEN g[c][1] ELSE <<piece>> \o g[c][1], g[c][2]>>
          /\ h[from] = <<IF piece = <<>> THEN h[c][1] ELSE <<piece>> \o h[c][1], h[c][2]>>
      BY <2>1, <2>2, <3>2, <3>4 DEF IsPiece
    <3>6. PICK r : r = g[c]
      OBVIOUS
    <3>7. PICK out : out = h[c]
      OBVIOUS
    <3>8. r[1] \in Seq(Pieces(S)) /\ r[2] \in Seq(S) /\ Carried(r, x, out)
      BY <3>2, <3>3, <3>6, <3>7 DEF Told
    <3>9. Carried(g[from], x, h[from])
      BY <3>5, <3>6, <3>7, <3>8, CarriedPiece
    <3> QED BY <3>9 DEF G
  <2> QED BY <2>3, <2>4
<1> HIDE DEF G
<1>8. \A from \in 1..(Len(a) + 1) : from \in G
  BY <1>7, EveryPlace
<1>9. Carried(g[1], x, h[1])
  BY <1>3, <1>8 DEF G
<1> QED BY <1>1, <1>5, <1>6, <1>9

-----------------------------------------------------------------------------
(* The turn.                                                               *)

\* Two parts of a text, one after the other.
LEMMA TwoParts ==
  ASSUME NEW S, NEW s \in Seq(S), NEW n \in 0..Len(s)
  PROVE  /\ SubSeq(s, 1, n) \in Seq(S) /\ SubSeq(s, n + 1, Len(s)) \in Seq(S)
         /\ SubSeq(s, 1, n) \o SubSeq(s, n + 1, Len(s)) = s
<1>1. /\ 1 \in 1..(Len(s) + 1) /\ n \in (1 - 1)..Len(s) /\ Len(s) \in n..Len(s)
      /\ n + 1 \in Nat \ {0} /\ n + 1 <= Len(s) + 1 /\ 1 <= n + 1 /\ 1 \in Nat \ {0}
      /\ Len(s) \in 0..Len(s)
  OBVIOUS
<1>2. SubSeq(s, 1, n) \in Seq(S)
  BY <1>1, PartIs
<1>3. SubSeq(s, n + 1, Len(s)) \in Seq(S)
  BY <1>1, PartIs
<1>4. SubSeq(s, 1, n) \o SubSeq(s, n + 1, Len(s)) = SubSeq(s, 1, Len(s))
  BY <1>1, ConcatAdjacentSubSeq
<1> QED BY <1>2, <1>3, <1>4, SubSeqFull

\* The first of two joined parts.
LEMMA FirstPart ==
  ASSUME NEW S, NEW a \in Seq(S), NEW b \in Seq(S)
  PROVE  SubSeq(a \o b, 1, Len(a \o b) - Len(b)) = a
<1> DEFINE s == a \o b
           t == SubSeq(s, 1, Len(a))
<1>1. /\ s \in Seq(S) /\ Len(s) = Len(a) + Len(b) /\ Len(a) \in Nat /\ Len(b) \in Nat
      /\ \A i \in 1..Len(a) : s[i] = a[i]
  OBVIOUS
<1> HIDE DEF s
<1>2. Len(a) \in 0..Len(s) /\ 1 <= Len(a) + 1 /\ 1 \in Nat \ {0} /\ Len(s) - Len(b) = Len(a)
  BY <1>1
<1>3. t \in Seq(S) /\ Len(t) = Len(a) - 1 + 1 /\ \A i \in 1..(Len(a) - 1 + 1) : t[i] = s[1 + i - 1]
  BY <1>1, <1>2, PartIs
<1> HIDE DEF t
<1>4. ASSUME NEW i \in 1..Len(a) PROVE t[i] = a[i]
  <2>1. i \in 1..(Len(a) - 1 + 1) /\ 1 + i - 1 = i
    BY <1>1
  <2> QED BY <1>1, <1>3, <2>1
<1>5. t = a
  <2>1. Len(t) = Len(a)
    BY <1>1, <1>3
  <2> QED BY <1>3, <1>4, <2>1, SeqEqual
<1> QED BY <1>2, <1>5 DEF s, t

\* Clips f, r and what waits, q, and then y, have the words of clips f, what waited,
\* b, and then x and y.
SameWords(f, r, q, b, x, y) == Text!Words(((f \o r) \o q) \o y) = Text!Words((f \o b) \o (x \o y))

\* So it is when a portion is split.
LEMMA WordsOfFeed ==
  ASSUME NEW S, NEW f \in Seq(S), NEW r \in Seq(S), NEW q \in Seq(S),
         NEW b \in Seq(S), NEW x \in Seq(S), NEW y \in Seq(S),
         Text!Words(r \o q) = Text!Words(b \o x)
  PROVE  SameWords(f, r, q, b, x, y)
<1>1. ASSUME NEW c \in Seq(S), NEW d \in Seq(S)
      PROVE  /\ c \o d \in Seq(S) /\ f \o (c \o d) \in Seq(S) /\ (c \o d) \o y \in Seq(S)
             /\ Text!Words(f \o ((c \o d) \o y)) =
                  Text!Words(f) \o (Text!Words(c \o d) \o Text!Words(y))
  <2>1. PICK e : e = c \o d
    OBVIOUS
  <2>2. e \in Seq(S)
    BY <2>1, ConcatProperties
  <2>3. f \o e \in Seq(S) /\ e \o y \in Seq(S)
    BY <2>2, ConcatProperties
  <2>4. PICK w : w = e \o y
    OBVIOUS
  <2>5. Text!Words(f \o w) = Text!Words(f) \o Text!Words(w)
    BY <2>3, <2>4, WordsOfConcat
  <2>6. Text!Words(e \o y) = Text!Words(e) \o Text!Words(y)
    BY <2>2, WordsOfConcat
  <2> QED BY <2>1, <2>2, <2>3, <2>4, <2>5, <2>6
<1>2. ((f \o r) \o q) \o y = f \o ((r \o q) \o y)
  <2>1. PICK e : e = r \o q
    OBVIOUS
  <2>2. e \in Seq(S)
    BY <1>1, <2>1
  <2>3. JoinedAlike(f, r, q) /\ JoinedAlike(f, e, y)
    BY <2>2, Joined
  <2> QED BY <2>1, <2>3 DEF JoinedAlike
<1>3. (f \o b) \o (x \o y) = f \o ((b \o x) \o y)
  <2>1. PICK e : e = x \o y
    OBVIOUS
  <2>2. e \in Seq(S)
    BY <2>1, ConcatProperties
  <2>3. JoinedAlike(f, b, e) /\ JoinedAlike(b, x, y)
    BY <2>2, Joined
  <2> QED BY <2>1, <2>3 DEF JoinedAlike
<1>4. Text!Words(f \o ((r \o q) \o y)) = Text!Words(f) \o (Text!Words(r \o q) \o Text!Words(y))
  BY <1>1
<1>5. Text!Words(f \o ((b \o x) \o y)) = Text!Words(f) \o (Text!Words(b \o x) \o Text!Words(y))
  BY <1>1
<1> QED BY <1>2, <1>3, <1>4, <1>5 DEF SameWords

\* No clip, no text.
LEMMA Nothing ==
  /\ Text!FlattenSeq(<<>>) = <<>> /\ Text!Split(<<>>) = <<<<>>, <<>>>>
  /\ Single(<<>>) /\ Bounded(Text!Strip(<<>>))
<1>1. <<>> \in Seq(Seq(Spoken)) /\ <<>> \in Seq(Spoken) /\ Len(<<>>) = 0
  BY EmptySeq
<1>2. Text!FlattenSeq(<<>>) = <<>>
  BY <1>1, FlatOfAppend
<1>3. PICK s \in Seq(Spoken) : s = <<>>
  BY <1>1
<1>4. PICK g : IsSplit(s, g, 1) /\ Text!Split(s) = g[1]
  BY SplitIs
<1>5. Len(s) = 0 /\ 1 \in 1..(Len(s) + 1)
  BY <1>3
<1>6. Text!Cut(s, 1) = 0
  <2>1. Text!Cut(s, 1) = 0 \/ Text!Cut(s, 1) \in (1 + 1)..(Len(s) + 1)
    BY <1>5, CutPlaces
  <2> QED BY <1>5, <2>1
<1>7. SubSeq(s, 1, Len(s)) = <<>>
  BY <1>3, <1>5
<1>8. Text!Split(s) = <<<<>>, <<>>>>
  BY <1>4, <1>5, <1>6, <1>7 DEF IsSplit, SplitStep
<1>9. Single(s)
  BY <1>5 DEF Single
<1>10. Bounded(Text!Strip(s))
  <2>1. Len(Text!Strip(s)) <= 0 /\ Text!Strip(s) \in Seq(Spoken)
    BY <1>5, StripType
  <2>2. Len(Text!Strip(s)) \in Nat
    BY <2>1
  <2>3. MaxChunk \in Nat
    BY TextBounds
  <2> QED BY <2>1, <2>2, <2>3 DEF Bounded
<1> QED BY <1>2, <1>3, <1>8, <1>9, <1>10

\* Types, and the clips so far: not empty, of bounded length, and what waits for
\* its end will be.
TextTypes ==
  /\ raw \in Seq(Text!Tokens) /\ phase \in {"capture", "feed", "flushed"}
  /\ spoken \in Seq(Spoken) /\ rest \in Seq(Spoken) /\ buffer \in Seq(Spoken)
  /\ clips \in Seq(Pieces(Spoken)) /\ Bounded(Text!Strip(buffer))

\* What was fed is split as a whole.
FedAsOne == \E fed \in Seq(Spoken) : spoken = fed \o rest /\ Text!Split(fed) = <<clips, buffer>>

TextInv ==
  /\ TextTypes
  /\ Single(spoken) /\ Len(spoken) <= MaxChars + 2
  /\ phase = "capture" => spoken = <<>> /\ rest = <<>> /\ buffer = <<>> /\ clips = <<>>
  /\ phase = "feed" => FedAsOne
  /\ Text!Words(Text!FlattenSeq(clips) \o buffer \o rest) = Text!Words(spoken)

\* Nothing was shown.
LEMMA TextStart == Text!Init => TextInv
<1> SUFFICES ASSUME Text!Init PROVE TextInv
  OBVIOUS
<1>1. raw = <<>> /\ phase = "capture" /\ spoken = <<>> /\ rest = <<>> /\ buffer = <<>> /\ clips = <<>>
  BY DEF Text!Init
<1>2. MaxChars \in Nat
  BY TextBounds
<1>3. TextTypes
  BY <1>1, Nothing, EmptySeq DEF TextTypes
<1>4. Single(spoken) /\ Len(spoken) <= MaxChars + 2
  BY <1>1, <1>2, Nothing
<1>5. Text!FlattenSeq(clips) \o buffer \o rest = spoken
  <2>1. <<>> \o <<>> = <<>>
    OBVIOUS
  <2>2. Text!FlattenSeq(clips) = <<>>
    BY <1>1, Nothing
  <2> QED BY <1>1, <2>1, <2>2
<1> QED BY <1>1, <1>3, <1>4, <1>5 DEF TextInv

\* A turn is conditioned once.
LEMMA ConditionKeeps == ASSUME TextInv, Text!Condition PROVE TextInv'
<1>1. TextTypes /\ phase = "capture" /\ buffer = <<>> /\ clips = <<>>
  BY DEF TextInv, Text!Condition
<1>2. /\ spoken' = Text!Budgeted(Text!ConditionText(raw)) /\ rest' = spoken' /\ phase' = "feed"
      /\ raw' = <<>> /\ buffer' = <<>> /\ clips' = <<>>
  BY <1>1 DEF Text!Condition
<1>3. raw \in Seq(Text!Tokens)
  BY <1>1 DEF TextTypes
<1>4. spoken' \in Seq(Spoken) /\ Single(spoken') /\ Len(spoken') <= MaxChars + 2
  <2>1. PICK t : t = Text!ConditionText(raw)
    OBVIOUS
  <2>2. t \in Seq(Spoken) /\ Single(t)
    BY <1>3, <2>1, Conditioned
  <2>3. Text!Budgeted(t) \in Seq(Spoken) /\ Single(Text!Budgeted(t)) /\ Len(Text!Budgeted(t)) <= MaxChars + 2
    BY <2>2, WithinBudget
  <2> QED BY <1>2, <2>1, <2>3
<1>5. TextTypes'
  BY <1>2, <1>4, Nothing, EmptySeq DEF TextTypes
<1>6. <<>> \o spoken' = spoken' /\ <<>> \in Seq(Spoken)
  BY <1>4, ConcatEmptySeq, EmptySeq
<1>7. FedAsOne'
  BY <1>2, <1>6, Nothing DEF FedAsOne
<1>8. (Text!FlattenSeq(clips) \o buffer \o rest)' = spoken'
  <2>1. <<>> \o <<>> = <<>>
    OBVIOUS
  <2>2. Text!FlattenSeq(clips') = <<>>
    BY <1>2, Nothing
  <2> QED BY <1>2, <1>6, <2>1, <2>2
<1> QED BY <1>2, <1>4, <1>5, <1>7, <1>8 DEF TextInv

\* The chunker takes a portion.
LEMMA FeedKeeps == ASSUME TextInv, NEW n, Text!Feed(n) PROVE TextInv'
<1>1. /\ spoken \in Seq(Spoken) /\ rest \in Seq(Spoken) /\ buffer \in Seq(Spoken)
      /\ raw \in Seq(Text!Tokens) /\ clips \in Seq(Pieces(Spoken))
  BY DEF TextInv, TextTypes
<1>2. PICK x : x = SubSeq(rest, 1, n)
  OBVIOUS
<1>3. PICK q : q = Text!Split(buffer \o x)
  OBVIOUS
<1>4. /\ clips' = clips \o q[1] /\ buffer' = q[2] /\ rest' = SubSeq(rest, n + 1, Len(rest))
      /\ n \in 1..Len(rest) /\ raw' = raw /\ phase' = phase /\ spoken' = spoken /\ phase = "feed"
  BY <1>2, <1>3 DEF Text!Feed
<1>5. x \in Seq(Spoken) /\ rest' \in Seq(Spoken) /\ x \o rest' = rest
  <2>1. n \in 0..Len(rest)
    BY <1>1, <1>4
  <2> QED BY <1>1, <1>2, <1>4, <2>1, TwoParts
<1>6. buffer \o x \in Seq(Spoken)
  BY <1>1, <1>5, ConcatProperties
<1>7. /\ q[1] \in Seq(Pieces(Spoken)) /\ q[2] \in Seq(Spoken) /\ Bounded(Text!Strip(q[2]))
      /\ Text!Words(Text!FlattenSeq(q[1]) \o q[2]) = Text!Words(buffer \o x)
  <2>1. PICK t : t = buffer \o x
    OBVIOUS
  <2>2. t \in Seq(Spoken)
    BY <1>6, <2>1
  <2>3. Told(Spoken, t, 1, q)
    BY <1>3, <2>1, <2>2, SplitTold
  <2>4. SubSeq(t, 1, Len(t)) = t
    BY <2>2, SubSeqFull
  <2> QED BY <2>1, <2>3, <2>4 DEF Told
<1>8. TextTypes'
  <2>1. clips \o q[1] \in Seq(Pieces(Spoken))
    BY <1>1, <1>7, ConcatProperties
  <2> QED BY <1>1, <1>4, <1>5, <1>7, <2>1 DEF TextTypes
<1>9. FedAsOne'
  <2>1. PICK fed \in Seq(Spoken) : spoken = fed \o rest /\ Text!Split(fed) = <<clips, buffer>>
    BY <1>4 DEF TextInv, FedAsOne
  <2>2. Carried(Text!Split(fed), x, Text!Split(fed \o x))
    BY <1>5, <2>1, SplitOfConcat
  <2>3. Text!Split(fed \o x) = <<clips', buffer'>>
    BY <1>3, <1>4, <2>1, <2>2 DEF Carried
  <2>4. PICK more : more = fed \o x
    OBVIOUS
  <2>5. more \in Seq(Spoken)
    BY <1>5, <2>4, ConcatProperties
  <2>6. JoinedAlike(fed, x, rest')
    BY <1>5, Joined
  <2>7. spoken' = more \o rest'
    BY <1>4, <1>5, <2>1, <2>4, <2>6 DEF JoinedAlike
  <2> QED BY <2>3, <2>4, <2>5, <2>7 DEF FedAsOne
<1>10. Text!Words(Text!FlattenSeq(clips') \o buffer' \o rest') = Text!Words(spoken')
  <2>1. clips \in Seq(Seq(Spoken)) /\ q[1] \in Seq(Seq(Spoken))
    BY <1>1, <1>7, PiecesAreSeqs
  <2>2. PICK c : c = q[1]
    OBVIOUS
  <2>3. PICK f : f = Text!FlattenSeq(clips)
    OBVIOUS
  <2>4. PICK r : r = Text!FlattenSeq(c)
    OBVIOUS
  <2>5. c \in Seq(Seq(Spoken))
    BY <2>1, <2>2
  <2>6. Text!FlattenSeq(clips \o c) = f \o r /\ f \in Seq(Spoken) /\ r \in Seq(Spoken)
    BY <2>1, <2>3, <2>4, <2>5, FlatOfConcat
  <2>7. PICK y : y = rest'
    OBVIOUS
  <2>8. PICK b : b = q[2]
    OBVIOUS
  <2>9. y \in Seq(Spoken) /\ b \in Seq(Spoken) /\ Text!Words(r \o b) = Text!Words(buffer \o x)
    BY <1>5, <1>7, <2>2, <2>4, <2>7, <2>8
  <2>10. Text!Words(((f \o r) \o b) \o y) = Text!Words((f \o buffer) \o (x \o y))
    <3>1. SameWords(f, r, b, buffer, x, y)
      BY <1>1, <1>5, <2>6, <2>9, WordsOfFeed
    <3> QED BY <3>1 DEF SameWords
  <2>11. Text!Words((f \o buffer) \o rest) = Text!Words(spoken)
    BY <2>3 DEF TextInv
  <2> QED BY <1>4, <1>5, <2>2, <2>6, <2>7, <2>8, <2>10, <2>11
<1> QED BY <1>4, <1>8, <1>9, <1>10 DEF TextInv

\* The tail that never got its end is the last clip.
LEMMA FlushKeeps == ASSUME TextInv, Text!Flush PROVE TextInv'
<1>1. /\ spoken \in Seq(Spoken) /\ buffer \in Seq(Spoken) /\ raw \in Seq(Text!Tokens)
      /\ clips \in Seq(Pieces(Spoken)) /\ Bounded(Text!Strip(buffer))
  BY DEF TextInv, TextTypes
<1>2. PICK t : t = Text!Strip(buffer)
  OBVIOUS
<1>3. /\ rest = <<>> /\ rest' = <<>> /\ phase' = "flushed" /\ buffer' = <<>>
      /\ raw' = raw /\ spoken' = spoken
      /\ clips' = IF t = <<>> THEN clips ELSE Append(clips, t)
  BY <1>2 DEF Text!Flush
<1>4. t \in Seq(Spoken) /\ Text!Words(t) = Text!Words(buffer) /\ Bounded(t)
  BY <1>1, <1>2, StripType, WordsOfStrip
<1>5. TextTypes'
  <2>1. t # <<>> => t \in Pieces(Spoken)
    BY <1>4 DEF Pieces
  <2>2. clips' \in Seq(Pieces(Spoken))
    BY <1>1, <1>3, <2>1
  <2> QED BY <1>1, <1>3, <2>2, Nothing, EmptySeq DEF TextTypes
<1>6. PICK f : f = Text!FlattenSeq(clips)
  OBVIOUS
<1>7. clips \in Seq(Seq(Spoken))
  BY <1>1, PiecesAreSeqs
<1>8. f \in Seq(Spoken) /\ Text!FlattenSeq(Append(clips, t)) = f \o t
  BY <1>4, <1>6, <1>7, FlatOfAppend
<1>9. f \o t \in Seq(Spoken) /\ f \o buffer \in Seq(Spoken)
  BY <1>1, <1>4, <1>8, ConcatProperties
<1>10. Text!FlattenSeq(clips') = f \o t
  <2>1. f \o <<>> = f
    BY <1>8, ConcatEmptySeq
  <2> QED BY <1>3, <1>6, <1>8, <2>1
<1>11. Text!Words(f \o t) = Text!Words(f \o buffer)
  <2>1. Text!Words(f \o t) = Text!Words(f) \o Text!Words(t)
    BY <1>4, <1>8, WordsOfConcat
  <2>2. Text!Words(f \o buffer) = Text!Words(f) \o Text!Words(buffer)
    BY <1>1, <1>8, WordsOfConcat
  <2> QED BY <1>4, <2>1, <2>2
<1>12. (f \o t) \o <<>> = f \o t /\ (f \o buffer) \o <<>> = f \o buffer
  BY <1>9, ConcatEmptySeq
<1>13. Text!FlattenSeq(clips') \o buffer' \o rest' = f \o t
  BY <1>3, <1>10, <1>12
<1>14. Text!Words((f \o buffer) \o rest) = Text!Words(spoken)
  BY <1>6 DEF TextInv
<1>15. Text!Words(Text!FlattenSeq(clips') \o buffer' \o rest') = Text!Words(spoken')
  BY <1>3, <1>11, <1>12, <1>13, <1>14
<1> QED BY <1>3, <1>5, <1>15 DEF TextInv

\* Each step of the text keeps it.
LEMMA TextStep == ASSUME TextInv, Text!Next \/ UNCHANGED Text!vars PROVE TextInv'
<1>1. ASSUME NEW t \in Text!Tokens, Text!Show(t) PROVE TextInv'
  <2>1. /\ raw' = Append(raw, t) /\ phase' = phase /\ spoken' = spoken /\ rest' = rest
        /\ buffer' = buffer /\ clips' = clips
    BY <1>1 DEF Text!Show
  <2>2. TextTypes'
    BY <2>1 DEF TextInv, TextTypes
  <2> QED BY <2>1, <2>2 DEF TextInv, FedAsOne
<1>2. CASE UNCHANGED Text!vars
  <2>1. /\ raw' = raw /\ phase' = phase /\ spoken' = spoken /\ rest' = rest
        /\ buffer' = buffer /\ clips' = clips
    BY <1>2 DEF Text!vars
  <2> QED BY <2>1 DEF TextInv, TextTypes, FedAsOne
<1> QED BY <1>1, <1>2, ConditionKeeps, FeedKeeps, FlushKeeps DEF Text!Next

\* What a turn says is its text: no control and no part of an escape is spoken, no
\* pause is doubled and the budget is kept; every word is in one clip, in order,
\* whatever portions the chunker was fed; and a clip is not empty, and no longer
\* than MAX_CHUNK_CHARS but for closing brackets.  Of condition_text and
\* SentenceChunker, for texts, budgets and chunks of any length.
THEOREM TextSafe == Spec => []SpokenIsTheText
<1>1. Init => TextInv
  BY TextStart DEF Init
<1>2. TextInv /\ [Next]_vars => TextInv'
  <2> SUFFICES ASSUME TextInv, [Next]_vars PROVE TextInv'
    OBVIOUS
  <2>1. CASE Text!Next
    BY <2>1, TextStep
  <2>2. CASE UNCHANGED textVars
    BY <2>2, TextStep DEF textVars, Text!vars
  <2> QED BY <2>1, <2>2 DEF Next, vars
<1>3. TextInv => SpokenIsTheText
  <2> SUFFICES ASSUME TextInv PROVE SpokenIsTheText
    OBVIOUS
  <2>1. /\ spoken \in Seq(Spoken) /\ rest \in Seq(Spoken) /\ clips \in Seq(Pieces(Spoken))
        /\ Single(spoken) /\ Len(spoken) <= MaxChars + 2
    BY DEF TextInv, TextTypes
  <2>2. Text!SpokenIsClean
    <3>1. Text!Only(spoken, {"term", "open"}) = <<>>
      <4>1. \A i \in 1..Len(spoken) : spoken[i] \notin {"term", "open"}
        BY <2>1 DEF Spoken
      <4>2. Only(spoken, {"term", "open"}) = <<>>
        BY <2>1, <4>1, OnlyOfGone
      <4> QED BY <4>2, TextFilter
    <3>2. ASSUME NEW i \in 1..(Len(spoken) - 1)
          PROVE  ~(spoken[i] \in Text!Spaces /\ spoken[i + 1] \in Text!Spaces)
      <4>1. i \in 1..Len(spoken) /\ i + 1 \in 1..Len(spoken)
        BY <2>1
      <4> QED BY <2>1, <4>1 DEF Single
    <3> QED BY <2>1, <3>1, <3>2 DEF Text!SpokenIsClean
  <2>3. \A i \in DOMAIN clips : clips[i] # <<>> /\ Bounded(clips[i])
    BY <2>1 DEF Pieces
  <2>4. Text!ClipsAreBounded
    BY <2>3 DEF Text!ClipsAreBounded, Bounded
  <2>5. phase = "feed" => Text!Split(SubSeq(spoken, 1, Len(spoken) - Len(rest))) = <<clips, buffer>>
    <3> SUFFICES ASSUME phase = "feed"
                 PROVE  Text!Split(SubSeq(spoken, 1, Len(spoken) - Len(rest))) = <<clips, buffer>>
      OBVIOUS
    <3>1. PICK fed \in Seq(Spoken) : spoken = fed \o rest /\ Text!Split(fed) = <<clips, buffer>>
      BY DEF TextInv, FedAsOne
    <3>2. SubSeq(spoken, 1, Len(spoken) - Len(rest)) = fed
      BY <2>1, <3>1, FirstPart
    <3> QED BY <3>1, <3>2
  <2>6. Text!ClipsAreTheText
    BY <2>3, <2>5 DEF TextInv, Text!ClipsAreTheText
  <2> QED BY <2>2, <2>4, <2>6 DEF SpokenIsTheText
<1> QED BY <1>1, <1>2, <1>3, ReadingSteps, PTL
=============================================================================
