----------------------------- MODULE Microphone -----------------------------
(***************************************************************************)
(* Managed capture: the daemon's owner of the microphone (microphone.py),  *)
(* the client that starts and stops it (managed_audio.py), and the         *)
(* supervisor process that runs the recorder and reaps everything it left  *)
(* (microphone_supervisor.py).  The lease on the device is given back only *)
(* with the supervisor's proof, one record and then end of file on a       *)
(* channel only it writes; without it the lease is quarantined.  The       *)
(* recorder may leave descendants in groups of their own; any process may  *)
(* be killed, and the daemon too.                                          *)
(***************************************************************************)
EXTENDS Naturals

VARIABLES
  lease,     \* "none", "held", "released", "quarantined"
  phase,     \* what the indicator shows
  client,    \* ManagedMicCapture: "new", "starting", "open", "stopping",
             \* "closed", or "left", when its stop returned without proof
  at,        \* the watcher: where CaptureOwner._watch is
  stop,      \* _stop is set
  writer,    \* the control pipe's writing end is open
  sender,    \* the daemon's copy of the channel's sending end is open
  sup,       \* the supervisor: "none", "checks", "records", "reaps",
             \* "reaped", "exited", "killed"
  alive,     \* the recorder and its descendants that live
  marker,    \* the proof is in the channel
  daemon     \* the daemon lives

vars == <<lease, phase, client, at, stop, writer, sender, sup, alive, marker, daemon>>

Gone(s) == s \in {"exited", "killed"}

Init ==
  /\ lease = "none" /\ phase = "inactive" /\ client = "new" /\ at = "none"
  /\ stop = FALSE /\ writer = FALSE /\ sender = FALSE
  /\ sup = "none" /\ alive = {} /\ marker = FALSE /\ daemon = TRUE

-----------------------------------------------------------------------------
(* CaptureOwner.start.                                                     *)

\* _finish: the lease goes back with the proof, or is quarantined; giving it
\* back may fail, and then nothing is proven.
Finish(proven) ==
  /\ \E released \in {proven, FALSE} :
       /\ lease' = IF released THEN "released" ELSE "quarantined"
       /\ phase' = IF released THEN "inactive" ELSE "unavailable"
  /\ writer' = FALSE

\* The controls are asked and the lease is asked for: busy, or held.
Acquire ==
  /\ daemon /\ client = "new"
  /\ \/ client' = "closed" /\ UNCHANGED <<lease, phase>>
     \/ client' = "starting" /\ lease' = "held" /\ phase' = "recording"
  /\ UNCHANGED <<at, stop, writer, sender, sup, alive, marker, daemon>>

\* A failure before there is a process has nothing to prove.
StartFails ==
  /\ daemon /\ client = "starting" /\ sup = "none"
  /\ Finish(TRUE) /\ client' = "closed"
  /\ UNCHANGED <<at, stop, sender, sup, alive, marker, daemon>>

Spawn ==
  /\ daemon /\ client = "starting" /\ sup = "none"
  /\ sup' = "checks" /\ writer' = TRUE /\ sender' = TRUE
  /\ UNCHANGED <<lease, phase, client, at, stop, alive, marker, daemon>>

\* The watcher begins, or the starter does its work itself, its own sending
\* end closed first.
StartWatcher ==
  /\ daemon /\ client = "starting" /\ sup # "none" /\ at = "none"
  /\ \/ at' = "watch" /\ UNCHANGED <<stop, sender>>
     \/ at' = "watch" /\ stop' = TRUE /\ sender' = FALSE
  /\ UNCHANGED <<lease, phase, client, writer, sup, alive, marker, daemon>>

\* start's last step closes the starter's ends, whatever happened.
Started ==
  /\ daemon /\ client = "starting" /\ at # "none"
  /\ sender' = FALSE
  /\ client' = IF stop THEN "stopping" ELSE "open"
  /\ UNCHANGED <<lease, phase, at, stop, writer, sup, alive, marker, daemon>>

-----------------------------------------------------------------------------
(* CaptureOwner._watch.                                                    *)

\* A stop, the supervisor's exit, a control that refuses or cannot be asked,
\* or a control pipe that is lost.
Leaves ==
  /\ daemon /\ at = "watch"
  /\ at' = "wait" /\ writer' = FALSE /\ phase' = "stopping"
  /\ UNCHANGED <<lease, client, stop, sender, sup, alive, marker, daemon>>

\* Two seconds for the supervisor to reap; then it is killed, unproven.
Kill ==
  /\ daemon /\ at = "wait" /\ sup \notin {"none", "exited", "killed"}
  /\ sup' = "killed"
  /\ UNCHANGED <<lease, phase, client, at, stop, writer, sender, alive, marker, daemon>>

\* cleanup_proven: the record, and then the end of the channel; the channel
\* has no end while the starter holds its copy.
\* Mutant: the exit of the supervisor is proof enough.
ProvenByExit == Gone(sup)
Proven == Gone(sup) /\ marker /\ ~sender

Finished ==
  /\ daemon /\ at = "wait" /\ Gone(sup)
  /\ Finish(Proven) /\ at' = "done"
  /\ UNCHANGED <<client, stop, sender, sup, alive, marker, daemon>>

-----------------------------------------------------------------------------
(* The client's stop, which waits at most four seconds for the watcher.    *)

RequestStop ==
  /\ daemon /\ client = "open"
  /\ stop' = TRUE /\ client' = "stopping"
  /\ UNCHANGED <<lease, phase, at, writer, sender, sup, alive, marker, daemon>>

\* Only a proven cleanup lets go of the process and the reader.
StopReturns ==
  /\ daemon /\ client = "stopping" /\ at = "done"
  /\ client' = IF lease = "released" THEN "closed" ELSE "left"
  /\ UNCHANGED <<lease, phase, at, stop, writer, sender, sup, alive, marker, daemon>>

\* The watcher is late: the stop says so and returns without proof; it may
\* be tried again.
StopTimesOut ==
  /\ daemon /\ client = "stopping" /\ at \in {"watch", "wait"}
  /\ phase' = "unavailable" /\ client' = "open"
  /\ UNCHANGED <<lease, at, stop, writer, sender, sup, alive, marker, daemon>>

-----------------------------------------------------------------------------
(* The supervisor.                                                         *)

\* It refuses before it has a recorder, without a proof when its arguments or
\* its parent are not what they should be.
Refuses ==
  /\ sup = "checks"
  /\ sup' \in {"reaps", "exited"}
  /\ UNCHANGED <<lease, phase, client, at, stop, writer, sender, alive, marker, daemon>>

Records ==
  /\ sup = "checks" /\ sup' = "records" /\ alive' = {"recorder"}
  /\ UNCHANGED <<lease, phase, client, at, stop, writer, sender, marker, daemon>>

\* The recorder exits, a deadline or a missed heartbeat passes, the control
\* pipe ends, or the daemon died.
StopsRecording ==
  /\ sup = "records" /\ sup' = "reaps"
  /\ UNCHANGED <<lease, phase, client, at, stop, writer, sender, alive, marker, daemon>>

\* reap_descendants: kills until it has no child; what the dead leave is its
\* own child next.
Reap ==
  /\ sup = "reaps"
  /\ IF alive = {} THEN sup' = "reaped" /\ UNCHANGED alive
     ELSE sup' = sup /\ \E p \in alive : alive' = alive \ {p}

Reaps ==
  /\ Reap
  /\ UNCHANGED <<lease, phase, client, at, stop, writer, sender, marker, daemon>>

Proves ==
  /\ sup = "reaped" /\ sup' = "exited" /\ marker' = TRUE
  /\ UNCHANGED <<lease, phase, client, at, stop, writer, sender, alive, daemon>>

\* A recorder or a descendant forks or exits by itself.
Forks ==
  /\ alive # {} /\ alive' \in {alive \cup {"helper"}, {"helper"}}
  /\ UNCHANGED <<lease, phase, client, at, stop, writer, sender, sup, marker, daemon>>

Exits ==
  /\ \E p \in alive : alive' = alive \ {p}
  /\ UNCHANGED <<lease, phase, client, at, stop, writer, sender, sup, marker, daemon>>

\* Either process is killed from outside.  The daemon's lease then closes
\* without an acknowledgement, and its control pipe ends.
SupervisorDies ==
  /\ sup \in {"checks", "records", "reaps", "reaped"} /\ sup' = "killed"
  /\ UNCHANGED <<lease, phase, client, at, stop, writer, sender, alive, marker, daemon>>

DaemonDies ==
  /\ daemon /\ daemon' = FALSE
  /\ lease' = IF lease = "held" THEN "quarantined" ELSE lease
  /\ writer' = FALSE /\ sender' = FALSE
  /\ UNCHANGED <<phase, client, at, stop, sup, alive, marker>>

-----------------------------------------------------------------------------
Owner == Acquire \/ StartFails \/ Spawn \/ StartWatcher \/ Started
Next == \/ Owner \/ Leaves \/ Kill \/ Finished
        \/ RequestStop \/ StopReturns \/ StopTimesOut
        \/ Refuses \/ Records \/ StopsRecording \/ Reaps \/ Proves
        \/ Forks \/ Exits \/ SupervisorDies \/ DaemonDies

\* The watcher notices a stop and the supervisor's exit, its wait is bounded,
\* and so is the client's.  Nothing is asked of the supervisor.
Fairness ==
  /\ WF_vars(Leaves /\ (stop \/ Gone(sup))) /\ WF_vars(Kill) /\ WF_vars(Finished)
  /\ WF_vars(StartWatcher) /\ WF_vars(Started)
Spec == Init /\ [][Next]_vars
FairSpec == Spec /\ Fairness

-----------------------------------------------------------------------------
(* Properties.                                                             *)

\* The device is given to the next user only when nothing of this capture can
\* hold it: not the recorder, not what it forked, not its supervisor; and the
\* indicator says that the microphone is off only then.
ReleasedIsSilent ==
  lease = "released" \/ (daemon /\ phase = "inactive") =>
    alive = {} /\ (sup = "none" \/ Gone(sup))

\* Once the microphone is taken it is given back or quarantined, though the
\* supervisor never answers.
CaptureEnds == stop ~> ~daemon \/ lease \in {"released", "quarantined"}
=============================================================================
