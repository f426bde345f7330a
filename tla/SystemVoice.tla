---------------------------- MODULE SystemVoice ----------------------------
(***************************************************************************)
(* The desktop's system voice (system_voice.py) under a logind delay       *)
(* inhibitor (shutdown.py).  It holds the inhibitor while it runs; when    *)
(* the machine shuts down it says goodbye and lets go, and when a shutdown *)
(* is cancelled it takes the inhibitor again.  logind's signals wait on    *)
(* the bus until the loop polls, and a clip or a warning keeps the loop    *)
(* for as long as it plays.  The cached clips, the health monitor and the  *)
(* provider's keepalive are one chore, which may fail.                     *)
(***************************************************************************)
EXTENDS Naturals, Sequences, SequencesExt

CONSTANT MaxSignals  \* bound: signals of logind that wait on the bus

VARIABLES
  at,         \* where the loop is
  menu,       \* wait_for_owner returned 'goodbye'
  watch,      \* whether shutdown.connect gave a ShutdownWatch
  fd,         \* ShutdownWatch.fd is an inhibitor's
  refused,    \* history: the last acquire of prepare failed
  requested,  \* ShutdownWatch.requested
  shutting,   \* shutting_down, what the last poll returned
  bus,        \* the PrepareForShutdown signals not yet dispatched
  recent,     \* less than ten seconds since a goodbye was played
  logind      \* "up", "delayed" by its inhibitors, "down"

vars == <<at, menu, watch, fd, refused, requested, shutting, bus, recent, logind>>

Init ==
  /\ at = "start"
  /\ menu = FALSE /\ watch = FALSE /\ fd = FALSE /\ refused = FALSE
  /\ requested = FALSE /\ shutting = FALSE
  /\ bus = <<>>
  /\ recent = FALSE
  /\ logind = "up"

Running == at \notin {"start", "close", "gone"}

\* run up to its loop: the greeting and the clips may fail, and a host without
\* logind, or whose logind refuses an inhibitor, has no watch.
Start(how) ==
  /\ at = "start"
  /\ how = "watch" => logind = "up"
  /\ at' = IF how = "fails" THEN "close" ELSE "wait"
  /\ watch' = (how = "watch") /\ fd' = (how = "watch")
  /\ UNCHANGED <<menu, refused, requested, shutting, bus, recent, logind>>

\* wait_for_owner: the desktop ends, asks for a goodbye, or is silent.
Wait(event) ==
  /\ at = "wait"
  /\ at' = IF event = "eof" THEN "close" ELSE "poll"
  /\ menu' = (event = "goodbye")
  /\ UNCHANGED <<watch, fd, refused, requested, shutting, bus, recent, logind>>

\* prepare for every waiting signal: the last one counts, and one that tells of
\* a cancelled shutdown takes the inhibitor again, if logind gives it: never
\* while it is already shutting down.
Prepared(granted) ==
  /\ granted => logind = "up"
  /\ fd' = (fd \/ (granted /\ Contains(bus, FALSE)))
  /\ refused' = IF Contains(bus, FALSE) THEN ~fd' ELSE refused
  /\ bus' = <<>>

Asked == IF bus = <<>> THEN requested ELSE Last(bus)

\* poll, which takes what was requested and clears it.
Poll(granted) ==
  /\ at = "poll"
  /\ Prepared(granted)
  /\ shutting' = Asked /\ requested' = FALSE
  /\ at' = IF menu \/ shutting' THEN "goodbye" ELSE "chores"
  /\ UNCHANGED <<menu, watch, recent, logind>>

\* Mutant: a signal that follows a goodbye just now is done with.
GoodbyeWasSaid(plays) ==
  /\ at = "goodbye"
  /\ recent => plays
  /\ recent' = (recent \/ plays)
  /\ at' = IF recent THEN "wait" ELSE IF plays THEN "release" ELSE "failing"
  /\ UNCHANGED <<menu, watch, fd, refused, requested, shutting, bus, logind>>

\* The goodbye, unless there was one just now; the player may fail, or never
\* end a clip within its minute.
Goodbye(plays) ==
  /\ at = "goodbye"
  /\ recent => plays
  /\ recent' = (recent \/ plays)
  /\ at' = IF plays THEN "release" ELSE "failing"
  /\ UNCHANGED <<menu, watch, fd, refused, requested, shutting, bus, logind>>

\* The `finally` of the goodbye: after it, or whatever became of it, a delay
\* that logind asked about is over.
Release ==
  /\ at \in {"release", "failing"}
  /\ fd' = (fd /\ ~shutting)
  /\ at' = IF at = "failing" THEN "close" ELSE "wait"
  /\ UNCHANGED <<menu, watch, refused, requested, shutting, bus, recent, logind>>

\* Warnings that are due and the provider's keepalive, either of which may fail.
Chores(ok) ==
  /\ at = "chores"
  /\ at' = IF ok THEN "wait" ELSE "close"
  /\ UNCHANGED <<menu, watch, fd, refused, requested, shutting, bus, recent, logind>>

\* SIGTERM, wherever the loop is.
Terminate ==
  /\ Running
  /\ at' = "close"
  /\ UNCHANGED <<menu, watch, fd, refused, requested, shutting, bus, recent, logind>>

\* The outer `finally`: ShutdownWatch.close.
Close ==
  /\ at = "close"
  /\ at' = "gone"
  /\ watch' = FALSE /\ fd' = FALSE /\ bus' = <<>>
  /\ UNCHANGED <<menu, refused, requested, shutting, recent, logind>>

\* Ten seconds pass while nothing plays.
Later ==
  /\ at = "wait" /\ recent
  /\ recent' = FALSE
  /\ UNCHANGED <<at, menu, watch, fd, refused, requested, shutting, bus, logind>>

\* logind sends PrepareForShutdown, to whoever listens, ...
Signals(active) ==
  /\ Len(bus) < MaxSignals
  /\ logind = IF active THEN "up" ELSE "delayed"
  /\ logind' = IF active THEN "delayed" ELSE "up"
  /\ bus' = IF watch THEN Append(bus, active) ELSE bus
  /\ UNCHANGED <<at, menu, watch, fd, refused, requested, shutting, recent>>

\* ... and goes on once nobody delays it, or its own limit is over.
ShutsDown ==
  /\ logind = "delayed"
  /\ logind' = "down"
  /\ UNCHANGED <<at, menu, watch, fd, refused, requested, shutting, bus, recent>>

Next ==
  \/ \E how \in {"watch", "no watch", "fails"} : Start(how)
  \/ \E event \in {"silence", "goodbye", "eof"} : Wait(event)
  \/ \E b \in BOOLEAN : Poll(b) \/ Goodbye(b) \/ Chores(b) \/ Signals(b)
  \/ Release \/ Terminate \/ Close \/ Later \/ ShutsDown

Spec == Init /\ [][Next]_vars

\* Once started the loop runs: wait has a timeout, a clip a minute, a provider
\* call ten seconds.  Nobody has to ask for anything.
Loop ==
  \/ \E event \in {"silence", "goodbye", "eof"} : Wait(event)
  \/ \E b \in BOOLEAN : Poll(b) \/ Goodbye(b) \/ Chores(b)
  \/ Release \/ Close

Fairness == WF_vars(Loop)

-----------------------------------------------------------------------------
(* Properties.                                                             *)

\* A cancelled shutdown leaves the next one covered: when the loop waits and
\* logind has nothing to tell it, it holds the inhibitor, unless it was refused.
NextIsCovered ==
  at = "wait" /\ watch /\ bus = <<>> /\ logind = "up" /\ ~refused => fd

\* A loop that goes on gives the delay up after a goodbye.
GoodbyeFirst == [][fd /\ ~fd' /\ at' = "wait" => recent]_vars

\* A shutdown is not held up for ever, whatever fails and however often it is
\* cancelled and asked for again.
DelayEnds == (logind = "delayed" /\ fd) ~> (logind # "delayed" \/ ~fd)
=============================================================================
