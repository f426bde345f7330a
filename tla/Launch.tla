------------------------------- MODULE Launch -------------------------------
(***************************************************************************)
(* How a group leader comes to be: GroupPopen.__init__ starts a launcher   *)
(* (process_launch.main) that waits to be told what to run, proves that    *)
(* what it started is what it can signal, and only then sends the command. *)
(* A constructor that fails later than that owns a live child nobody holds *)
(* a reference to: it is disposed of at once or kept by _FailedLaunches,   *)
(* whose worker tries until it is gone.                                    *)
(***************************************************************************)
EXTENDS Naturals

CONSTANTS
  Launches,
  MaxFailures \* bound: threads that will not start, and disposals that fail

VARIABLES
  at,       \* per launch, where the constructor is
  child,    \* per launch: "none", "born", "gated", "told", "trying", "running" or "dead"
  said,     \* per launch, what the launcher wrote: a part of <<"R", "X", "F">>
  channel,  \* per launch, the daemon's end is open
  admitted, \* the launches whose identity is proven
  pending,  \* _FailedLaunches.pending
  worker,   \* "none", "look", or "busy" with what it took
  taken,    \* the pending it has still to try
  failures

vars == <<at, child, said, channel, admitted, pending, worker, taken, failures>>
table == <<pending, worker, taken>>

Live(l) == child[l] \notin {"none", "dead"}

Init ==
  /\ at = [l \in Launches |-> "away"]
  /\ child = [l \in Launches |-> "none"]
  /\ said = [l \in Launches |-> {}]
  /\ channel = [l \in Launches |-> FALSE]
  /\ admitted = {} /\ pending = {} /\ worker = "none" /\ taken = {} /\ failures = 0

Goto(l, place) == at' = [at EXCEPT ![l] = place]
\* The finally closes both ends of the channel.
Leaves(l, how) == Goto(l, how) /\ channel' = [channel EXCEPT ![l] = FALSE]

-----------------------------------------------------------------------------
(* process_launch.main.                                                    *)

Becomes(l, state) == child' = [child EXCEPT ![l] = state]
Says(l, word) == said' = [said EXCEPT ![l] = @ \cup {word}]

\* It holds itself until it is told, and ends when nobody can tell it.
ChildSteps(l) ==
  /\ \/ child[l] = "born" /\ Becomes(l, "gated") /\ Says(l, "R")
     \/ child[l] = "gated" /\ ~channel[l] /\ Becomes(l, "dead") /\ UNCHANGED said
     \/ child[l] = "told" /\ Becomes(l, "trying") /\ Says(l, "X")
     \/ child[l] = "trying" /\ Becomes(l, "running") /\ UNCHANGED said
     \/ child[l] = "trying" /\ Becomes(l, "dead") /\ Says(l, "F")
  /\ UNCHANGED <<at, channel, admitted, table, failures>>

ChildDies(l) ==
  /\ Live(l) /\ Becomes(l, "dead")
  /\ UNCHANGED <<at, said, channel, admitted, table, failures>>

-----------------------------------------------------------------------------
(* GroupPopen.__init__.                                                    *)

Spawn(l) ==
  /\ at[l] = "away"
  /\ \/ Leaves(l, "raised") /\ UNCHANGED child
     \/ Goto(l, "hello") /\ Becomes(l, "born") /\ channel' = [channel EXCEPT ![l] = TRUE]
  /\ UNCHANGED <<said, admitted, table, failures>>

\* Its R, a pidfd and _verify_spawn_identity; what cannot be proven is
\* returned unproven, never to be signalled, and its gate closes.
Verify(l) ==
  /\ at[l] = "hello" /\ ("R" \in said[l] \/ child[l] = "dead")
  /\ \/ Leaves(l, "unproven") /\ UNCHANGED admitted
     \/ /\ "R" \in said[l] /\ child[l] = "gated"
        /\ Goto(l, "send") /\ admitted' = admitted \cup {l} /\ UNCHANGED channel
  /\ UNCHANGED <<child, said, table, failures>>

\* The request, all of it or, on an error, none.
Send(l) ==
  /\ at[l] = "send"
  /\ \/ Goto(l, "dispose") /\ UNCHANGED child
     \/ Goto(l, "reply") /\ IF child[l] = "gated" THEN Becomes(l, "told") ELSE UNCHANGED child
  /\ UNCHANGED <<said, channel, admitted, table, failures>>

\* The reply ends with an exec or a death.  X alone is success; then only
\* closing the channel can fail.
Reply(l) ==
  /\ at[l] = "reply" /\ child[l] \in {"running", "dead"}
  /\ \/ said[l] = {"R", "X"} /\ Leaves(l, "returned")
     \/ Goto(l, "dispose") /\ UNCHANGED channel
  /\ UNCHANGED <<child, said, admitted, table, failures>>

\* _dispose_failed_launch: the group's end, the wait and the pipes.
Disposed(l) == Becomes(l, "dead") /\ UNCHANGED failures
NotDisposed == failures < MaxFailures /\ failures' = failures + 1 /\ UNCHANGED child

Disposes(l, kept) ==
  /\ at[l] = "dispose"
  /\ \/ Disposed(l) /\ Leaves(l, "raised") /\ UNCHANGED pending
     \/ NotDisposed /\ Goto(l, "retry") /\ UNCHANGED channel /\ pending' = pending \cup kept
  /\ UNCHANGED <<said, admitted, worker, taken>>

\* Mutant: what cannot be disposed of is forgotten.
DisposeForgetting(l) == Disposes(l, {})

\* A failure retains it, under the condition of the table.
Dispose(l) == Disposes(l, {l})

\* retry, by the constructor that retained or by a later launch or tick: a
\* worker if there is none, or none if no thread will start.
Schedules ==
  \/ pending # {} /\ worker = "none" /\ worker' = "look" /\ UNCHANGED failures
  \/ pending # {} /\ worker = "none" /\ failures < MaxFailures
     /\ failures' = failures + 1 /\ UNCHANGED worker
  \/ (pending = {} \/ worker # "none") /\ UNCHANGED <<worker, failures>>

Retry(l) ==
  /\ at[l] = "retry" /\ Schedules /\ Leaves(l, "raised")
  /\ UNCHANGED <<child, said, admitted, pending, taken>>

\* The daemon's periodic retry_failed_launches.
RetryTick ==
  /\ pending # {} /\ worker = "none" /\ Schedules
  /\ UNCHANGED <<at, child, said, channel, admitted, pending, taken>>

-----------------------------------------------------------------------------
(* _FailedLaunches._run.                                                   *)

\* Nothing pending: it ends, in the same critical section.
Look ==
  /\ worker = "look"
  /\ IF pending = {} THEN worker' = "none" /\ UNCHANGED taken
     ELSE worker' = "busy" /\ taken' = pending
  /\ UNCHANGED <<at, child, said, channel, admitted, pending, failures>>

\* Each is disposed of, or stays; after the last it waits and looks again.
Work ==
  /\ worker = "busy"
  /\ IF taken = {} THEN worker' = "look" /\ UNCHANGED <<child, pending, taken, failures>>
     ELSE \E l \in taken :
            /\ taken' = taken \ {l}
            /\ \/ Disposed(l) /\ pending' = pending \ {l}
               \/ NotDisposed /\ UNCHANGED pending
            /\ UNCHANGED worker
  /\ UNCHANGED <<at, said, channel, admitted>>

Constructor(l) == Spawn(l) \/ Verify(l) \/ Send(l) \/ Reply(l) \/ Dispose(l) \/ Retry(l)

Next ==
  \/ \E l \in Launches : Constructor(l) \/ ChildSteps(l) \/ ChildDies(l)
  \/ RetryTick \/ Look \/ Work

Spec == Init /\ [][Next]_vars

-----------------------------------------------------------------------------
(* Properties.                                                             *)

\* No command starts before the identity of its process is proven; and once
\* it may have started it is always somebody's to end: the constructor's, the
\* caller's, or the table's, which has a worker or a retry to come.
NothingStranded ==
  \A l \in Launches :
    /\ child[l] \in {"told", "trying", "running"} => l \in admitted
    /\ l \in admitted /\ Live(l) /\ at[l] = "raised" => l \in pending
=============================================================================
