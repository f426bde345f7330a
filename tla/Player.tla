------------------------------- MODULE Player -------------------------------
(***************************************************************************)
(* Queued playback of clips through one sink process per clip              *)
(* (audio.Player).  A client plays and stops, a worker thread takes clips  *)
(* off the queue, and cleanup attempts close the player, one at a time     *)
(* (ResourceLifecycle).  The clips a stop outdated are called old: their   *)
(* generation is no longer the player's.                                   *)
(***************************************************************************)
EXTENDS Naturals, Sequences, SequencesExt, Filter

CONSTANTS
  MaxPlays,  \* bound: clips the client plays
  MaxStops,  \* bound: times the client stops the player
  MayDie     \* threads may fail to start, and the worker may die of an error

VARIABLES
  queue,     \* clips of this or an old generation, and close's sentinel
  pending,   \* _pending
  worker,    \* _worker: "none", "created" but not running, "running", "ended"
  at,        \* where the worker is
  clip,      \* the clip it has taken: "none", "new" or "old"
  process,   \* _process: "none", "running", or "dead" but not reaped
  lock,      \* who holds the player's lock across a step
  client,    \* where the client is in play()
  requested, \* lifecycle.requested
  closer,    \* where the current close is, "closed" when one was proven
  flagged,   \* _closed
  plays, stops

clientVars == <<client, plays, stops>>
workerVars == <<worker, at, clip, process>>
vars == <<queue, pending, lock, requested, closer, flagged, clientVars, workerVars>>

InClip == {"check", "launched", "sounding", "reap"}

TypeOK ==
  /\ queue \in Seq({"new", "old", "eof"})
  /\ pending \in 0 .. MaxPlays
  /\ worker \in {"none", "created", "running", "ended"}
  /\ at \in {"get", "enter", "done", "dying"} \cup InClip
  /\ clip \in {"none", "new", "old"}
  /\ process \in {"none", "running", "dead"}
  /\ lock \in {"free", "client", "worker"}
  /\ client \in {"idle", "entered", "publishing"}
  /\ requested \in BOOLEAN
  /\ closer \in {"idle", "drain", "body", "join", "closed"}
  /\ flagged \in BOOLEAN
  /\ plays \in 0 .. MaxPlays
  /\ stops \in 0 .. MaxStops

Init ==
  /\ queue = <<>>
  /\ pending = 0
  /\ worker = "none"
  /\ at = "get"
  /\ clip = "none"
  /\ process = "none"
  /\ lock = "free"
  /\ client = "idle"
  /\ requested = FALSE
  /\ closer = "idle"
  /\ flagged = FALSE
  /\ plays = 0
  /\ stops = 0

\* lifecycle.users and lifecycle.starting.
Users == client # "idle" \/ (worker = "running" /\ at \in InClip)

Kill == process' = IF process = "running" THEN "dead" ELSE process

-----------------------------------------------------------------------------
(* The client.                                                             *)

\* play(): a use of the player, refused once a close was requested.
Play ==
  /\ client = "idle" /\ plays < MaxPlays
  /\ ~requested
  /\ client' = "entered"
  /\ plays' = plays + 1
  /\ UNCHANGED <<queue, pending, lock, requested, closer, flagged, stops, workerVars>>

Enqueue ==
  /\ queue' = Append(queue, "new")
  /\ pending' = pending + 1
  /\ client' = "idle"

\* Under the lock: the first clip publishes the worker thread, which is an
\* allocation like any other; the rest go into the queue.
PlayLocked ==
  /\ client = "entered" /\ lock = "free"
  /\ \/ /\ worker # "none"
        /\ Enqueue
        /\ UNCHANGED <<lock, worker>>
     \/ /\ worker = "none" /\ requested
        /\ client' = "idle"
        /\ UNCHANGED <<queue, pending, lock, worker>>
     \/ /\ worker = "none" /\ ~requested
        /\ client' = "publishing" /\ lock' = "client" /\ worker' = "created"
        /\ UNCHANGED <<queue, pending>>
  /\ UNCHANGED <<at, clip, process, requested, closer, flagged, plays, stops>>

\* The thread runs, or a close came in between, or the system has none left.
StartWorker ==
  /\ client = "publishing"
  /\ lock' = "free"
  /\ \/ /\ ~requested
        /\ worker' = "running"
        /\ Enqueue
     \/ /\ requested \/ MayDie
        /\ client' = "idle"
        /\ UNCHANGED <<queue, pending, worker>>
  /\ UNCHANGED <<at, clip, process, requested, closer, flagged, plays, stops>>

Clips(q) == Only(q, {"new", "old"})
Ahead(q) == IF Contains(q, "eof") THEN SelectInSeq(q, LAMBDA c : c = "eof") - 1 ELSE Len(q)
Outdated(c) == IF c = "new" THEN "old" ELSE c

\* What stop() leaves of the queue: it takes the clips up to a sentinel,
\* which goes back to the end.
Left(q) ==
  LET rest == SubSeq(q, Ahead(q) + 1, Len(q))
  IN IF rest = <<>> THEN <<>> ELSE Append([i \in DOMAIN Tail(rest) |-> Outdated(Tail(rest)[i])], "eof")

\* stop(), all of it under the lock: a new generation, the clips in the queue
\* counted off, the sink killed.
Silence(after) ==
  /\ pending' = pending - Ahead(queue)
  /\ queue' = after
  /\ clip' = Outdated(clip)
  /\ Kill

Stop ==
  /\ lock = "free" /\ stops < MaxStops
  /\ Silence(Left(queue))
  /\ stops' = stops + 1
  /\ UNCHANGED <<worker, at, lock, requested, closer, flagged, client, plays>>

-----------------------------------------------------------------------------
(* The worker.                                                             *)

Get ==
  /\ worker = "running" /\ at = "get" /\ queue # <<>>
  /\ queue' = Tail(queue)
  /\ IF Head(queue) = "eof"
     THEN worker' = "ended" /\ UNCHANGED <<at, clip>>
     ELSE at' = "enter" /\ clip' = Head(queue) /\ UNCHANGED worker
  /\ UNCHANGED <<pending, process, lock, requested, closer, flagged, clientVars>>

\* _play_clip is a use of the player; without a sink command, or once a close
\* was requested, there is nothing to play.
EnterClip ==
  /\ worker = "running" /\ at = "enter"
  /\ \/ ~requested /\ at' = "check"
     \/ at' = "done"
  /\ UNCHANGED <<queue, pending, worker, clip, process, lock, requested, closer, flagged, clientVars>>

\* An error that is not an AudioError, such as a stderr file that cannot be
\* created or a sink that does not end in 300 s, is the end of the worker.
Outcomes == {"done"} \cup (IF MayDie THEN {"dying"} ELSE {})

\* Mutant: the generation is not looked at under the lock.
LaunchAny ==
  /\ worker = "running" /\ at = "check" /\ lock = "free"
  /\ IF requested
     THEN at' = "done" /\ UNCHANGED <<process, lock>>
     ELSE at' = "launched" /\ lock' = "worker" /\ process' = "running"
  /\ UNCHANGED <<queue, pending, worker, clip, requested, closer, flagged, clientVars>>

\* Under the lock: a clip that was stopped while it waited is not played;
\* the sink is started and published, or cannot be started.
Launch ==
  /\ worker = "running" /\ at = "check" /\ lock = "free"
  /\ \/ /\ clip = "new" /\ ~requested
        /\ at' = "launched" /\ lock' = "worker" /\ process' = "running"
     \/ at' \in Outcomes /\ UNCHANGED <<process, lock>>
  /\ UNCHANGED <<queue, pending, worker, clip, requested, closer, flagged, clientVars>>

\* A close that came during the launch makes the publisher signal the sink.
Published ==
  /\ at = "launched"
  /\ lock' = "free"
  /\ IF requested THEN at' = "reap" /\ Kill ELSE at' = "sounding" /\ UNCHANGED process
  /\ UNCHANGED <<queue, pending, worker, clip, requested, closer, flagged, clientVars>>

\* The samples are written and the sink is waited for.
SinkEnds ==
  /\ at = "sounding"
  /\ process' = "dead"
  /\ at' = "reap"
  /\ UNCHANGED <<queue, pending, worker, clip, lock, requested, closer, flagged, clientVars>>

Reap ==
  /\ at = "reap"
  /\ process' = "none"
  /\ at' \in Outcomes
  /\ UNCHANGED <<queue, pending, worker, clip, lock, requested, closer, flagged, clientVars>>

\* Mutant: a clip that a stop outdated is taken to have been counted off.
ClipDoneIfNew ==
  /\ at \in {"done", "dying"} /\ lock = "free"
  /\ clip' = "none"
  /\ pending' = IF clip = "new" THEN pending - 1 ELSE pending
  /\ at' = "get"
  /\ worker' = IF at = "dying" THEN "ended" ELSE worker
  /\ UNCHANGED <<queue, process, lock, requested, closer, flagged, clientVars>>

\* _clip_done, whatever ended the clip.
ClipDone ==
  /\ at \in {"done", "dying"} /\ lock = "free"
  /\ clip' = "none"
  /\ pending' = pending - 1
  /\ at' = "get"
  /\ worker' = IF at = "dying" THEN "ended" ELSE worker
  /\ UNCHANGED <<queue, process, lock, requested, closer, flagged, clientVars>>

-----------------------------------------------------------------------------
(* Closing.                                                                *)

\* The request, and _on_close_requested: a sink in use is signalled at once.
CloseRequest ==
  /\ closer = "idle"
  /\ requested' = TRUE
  /\ closer' = "drain"
  /\ IF Users THEN Kill ELSE UNCHANGED process
  /\ UNCHANGED <<queue, pending, worker, at, clip, lock, flagged, clientVars>>

\* Mutant: the body of close does not wait for the users.
DrainNothing ==
  /\ closer = "drain"
  /\ closer' = "body"
  /\ UNCHANGED <<queue, pending, lock, requested, flagged, clientVars, workerVars>>

\* The wait for the users, which gives up.
Drain ==
  /\ closer = "drain"
  /\ closer' = IF Users THEN "idle" ELSE "body"
  /\ UNCHANGED <<queue, pending, lock, requested, flagged, clientVars, workerVars>>

\* Stopped, and the worker told to end, once.
CloseBody ==
  /\ closer = "body" /\ lock = "free"
  /\ flagged' = TRUE
  /\ Silence(IF worker \in {"running", "ended"} /\ ~flagged
             THEN Append(Left(queue), "eof") ELSE Left(queue))
  /\ closer' = "join"
  /\ UNCHANGED <<worker, at, lock, requested, clientVars>>

\* The worker is joined for a bounded time; an attempt that gives up is
\* repeated by the registry.  Then the last sink is reaped.
Join ==
  /\ closer = "join"
  /\ IF worker = "running"
     THEN closer' = "idle" /\ UNCHANGED <<worker, process>>
     ELSE closer' = "closed" /\ worker' = "none" /\ process' = "none"
  /\ UNCHANGED <<queue, pending, at, clip, lock, requested, flagged, clientVars>>

-----------------------------------------------------------------------------
Worker == Get \/ EnterClip \/ Launch \/ Published \/ SinkEnds \/ Reap \/ ClipDone
Closing == Drain \/ CloseBody \/ Join

Next ==
  \/ Play \/ PlayLocked \/ StartWorker \/ Stop
  \/ Worker
  \/ CloseRequest \/ Closing

Spec == Init /\ [][Next]_vars

\* The worker runs while it can and sinks end; play() returns; a close goes
\* on, and the registry repeats one that was requested and not proven.
Fairness ==
  /\ WF_vars(PlayLocked \/ StartWorker)
  /\ WF_vars(Worker)
  /\ WF_vars(Closing)
  /\ WF_vars(requested /\ CloseRequest)

FairSpec == Spec /\ Fairness

-----------------------------------------------------------------------------
(* Properties.                                                             *)

\* wait() and playing tell the truth: the clips that are pending are those in
\* the queue and the one the worker has taken.
PendingIsExact ==
  pending = Len(Clips(queue)) + (IF clip # "none" THEN 1 ELSE 0)

\* "Opening the microphone must silence the machine": after a stop no sink of
\* an older clip sounds, however the stop met its launch.
SilentAfterStop == process = "running" => clip = "new"

\* A closed player has no worker, no sink and no clip that waits.
ClosedIsSilent ==
  closer = "closed" => worker = "none" /\ process = "none" /\ Clips(queue) = <<>>

\* "True while a clip is playing or waiting behind one": there is a worker
\* that will get to the clips that are pending.
PlayingMeansPlaying == pending > 0 => worker = "running"

\* Every clip is played or dropped, unless the worker is dead or never ran.
ClipsEnd == pending > 0 ~> (pending = 0 \/ worker # "running")

\* A close that was requested gets the worker to end, however many attempts
\* it takes.
CloseEnds == requested ~> closer = "closed"
=============================================================================
