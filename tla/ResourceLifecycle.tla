------------------------- MODULE ResourceLifecycle -------------------------
(***************************************************************************)
(* The contract every registered resource of the daemon shares             *)
(* (lifecycle.Lifecycle and lifecycle.Resource): operations are counted,   *)
(* a child is published before the count of its start drops, close refuses *)
(* new operations for ever, waits a bounded time for the counts to drain   *)
(* and disposes once, and only proof makes the resource closed.            *)
(*                                                                         *)
(* One resource, any number of threads.  A thread is in a start            *)
(* (`starting`), a use (`using`), an allocation inside either (_publish),  *)
(* or a close (`closing`); the counts starting and users are read off the  *)
(* threads' places.                                                        *)
(***************************************************************************)
EXTENDS Naturals, FiniteSets

CONSTANT Threads

VARIABLES
  pc,        \* where each thread is
  inside,    \* the kind of operation a thread is in: "none", "start", "use"
  again,     \* the thread is in a use within its use
  refused,   \* the operation is unwinding with an error
  spawned,   \* the thread has a child nobody else knows of
  requested, \* life.requested
  disposing, \* life.disposing
  state,     \* life.state
  process    \* the published child: "none", "running" or "dead", not reaped

threadVars == <<pc, inside, again, refused, spawned>>
vars == <<threadVars, requested, disposing, state, process>>

Working == {"body", "allocate", "publish", "check", "leaveAlloc"}
Closing == {"signal", "drain", "dispose", "proven", "unproven"}

TypeOK ==
  /\ pc \in [Threads -> {"idle", "left"} \cup Working \cup Closing]
  /\ inside \in [Threads -> {"none", "start", "use"}]
  /\ again \in [Threads -> BOOLEAN]
  /\ refused \in [Threads -> BOOLEAN]
  /\ spawned \in [Threads -> BOOLEAN]
  /\ requested \in BOOLEAN
  /\ disposing \in BOOLEAN
  /\ state \in {"ready", "starting", "in use", "closing", "closed", "unproven"}
  /\ process \in {"none", "running", "dead"}

\* life.starting and life.users are positive exactly when these are not empty.
Starters == {t \in Threads : inside[t] = "start" \/ pc[t] \in Working \ {"body"}}
Users == {t \in Threads : inside[t] = "use"}
Counted == Starters \cup Users

Init ==
  /\ pc = [t \in Threads |-> "idle"]
  /\ inside = [t \in Threads |-> "none"]
  /\ again = [t \in Threads |-> FALSE]
  /\ refused = [t \in Threads |-> FALSE]
  /\ spawned = [t \in Threads |-> FALSE]
  /\ requested = FALSE
  /\ disposing = FALSE
  /\ state = "ready"
  /\ process = "none"

Goto(t, next) == pc' = [pc EXCEPT ![t] = next]

-----------------------------------------------------------------------------
(* Entering and leaving an operation.                                      *)

\* Lifecycle.enter and leave set the state from the counts they leave.
StateOf(starters, users) ==
  IF starters # {} THEN "starting" ELSE IF users # {} THEN "in use" ELSE "ready"

\* Lifecycle.enter, for a thread that is in no operation.
Enter(t, kind) ==
  /\ pc[t] = "idle"
  /\ ~requested
  /\ Goto(t, "body")
  /\ inside' = [inside EXCEPT ![t] = kind]
  /\ refused' = [refused EXCEPT ![t] = FALSE]
  /\ state' = StateOf(Starters', Users')
  /\ UNCHANGED <<again, spawned, requested, disposing, process>>

\* A use within a use of the same thread is let through a close, and sets
\* the state although one may be closing.
EnterAgain(t) ==
  /\ pc[t] = "body" /\ inside[t] = "use" /\ ~again[t]
  /\ again' = [again EXCEPT ![t] = TRUE]
  /\ state' = StateOf(Starters, Users)
  /\ UNCHANGED <<pc, inside, refused, spawned, requested, disposing, process>>

LeaveAgain(t) ==
  /\ pc[t] = "body" /\ again[t]
  /\ again' = [again EXCEPT ![t] = FALSE]
  /\ state' = IF requested THEN state ELSE StateOf(Starters, Users)
  /\ UNCHANGED <<pc, inside, refused, spawned, requested, disposing, process>>

\* A user waits its child out and reaps it: Player._play_clip, synthesis.
Reap(t) ==
  /\ pc[t] = "body" /\ inside[t] = "use"
  /\ process # "none"
  /\ process' = "none"
  /\ UNCHANGED <<threadVars, requested, disposing, state>>

\* Lifecycle.leave of the outer operation.  A start looks at the request
\* once more after its count is gone.
Leave(t) ==
  /\ pc[t] = "body" /\ ~again[t]
  /\ Goto(t, IF inside[t] = "start" THEN "left" ELSE "idle")
  /\ inside' = [inside EXCEPT ![t] = "none"]
  /\ state' = IF requested THEN state ELSE StateOf(Starters', Users')
  /\ UNCHANGED <<again, refused, spawned, requested, disposing, process>>

-----------------------------------------------------------------------------
(* _publish: an allocation inside an operation.                            *)

\* Counted as a start before anything is allocated; refused once a close was
\* requested, which makes the whole operation unwind.  A resource launches its
\* children under a lock of its own, and none while it still has one.
EnterAlloc(t) ==
  /\ pc[t] = "body" /\ ~refused[t] /\ process = "none"
  /\ \A u \in Threads \ {t} : pc[u] \notin Working \ {"body"}
  /\ IF requested
     THEN refused' = [refused EXCEPT ![t] = TRUE] /\ UNCHANGED <<pc, state>>
     ELSE Goto(t, "allocate") /\ state' = "starting" /\ UNCHANGED refused
  /\ UNCHANGED <<inside, again, spawned, requested, disposing, process>>

\* The allocator runs outside every lock: it returns a child, or raises.
Allocate(t) ==
  /\ pc[t] = "allocate"
  /\ \/ spawned' = [spawned EXCEPT ![t] = TRUE] /\ Goto(t, "publish") /\ UNCHANGED refused
     \/ refused' = [refused EXCEPT ![t] = TRUE] /\ Goto(t, "leaveAlloc") /\ UNCHANGED spawned
  /\ UNCHANGED <<inside, again, requested, disposing, state, process>>

\* Mutant: the request is not looked at again after the allocation.
PublishUnchecked(t) ==
  /\ pc[t] = "publish"
  /\ spawned' = [spawned EXCEPT ![t] = FALSE]
  /\ process' = "running"
  /\ Goto(t, "leaveAlloc")
  /\ UNCHANGED <<inside, again, refused, requested, disposing, state>>

\* setattr(self, field, value), before the count drops.
Publish(t) ==
  /\ pc[t] = "publish"
  /\ spawned' = [spawned EXCEPT ![t] = FALSE]
  /\ process' = "running"
  /\ Goto(t, "check")
  /\ UNCHANGED <<inside, again, refused, requested, disposing, state>>

Killed == IF process = "running" THEN "dead" ELSE process

\* A close that won while the allocator ran refuses the handoff: the late
\* child is signalled by its publisher.
Check(t) ==
  /\ pc[t] = "check"
  /\ IF requested
     THEN refused' = [refused EXCEPT ![t] = TRUE] /\ process' = Killed
     ELSE UNCHANGED <<refused, process>>
  /\ Goto(t, "leaveAlloc")
  /\ UNCHANGED <<inside, again, spawned, requested, disposing, state>>

LeaveAlloc(t) ==
  /\ pc[t] = "leaveAlloc"
  /\ Goto(t, "body")
  /\ UNCHANGED <<inside, again, refused, spawned, requested, disposing, process>>
  /\ state' = IF requested THEN state ELSE StateOf(Starters', Users')

-----------------------------------------------------------------------------
(* Closing.                                                                *)

\* Lifecycle.close up to its wait: the request stays for ever, and only one
\* disposal is in flight.
Close(t) ==
  /\ requested' = TRUE
  /\ IF state = "closed" \/ disposing
     THEN Goto(t, "idle") /\ UNCHANGED <<disposing, state>>
     ELSE disposing' = TRUE /\ state' = "closing" /\ Goto(t, "signal")
  /\ UNCHANGED <<inside, again, refused, spawned, process>>

CloseByOwner(t) == pc[t] = "idle" /\ Close(t)

\* `starting`: the last start out cleans up a resource that was requested
\* to close meanwhile.
LastStarterOut(t) ==
  /\ pc[t] = "left"
  /\ IF requested /\ Counted = {}
     THEN Close(t)
     ELSE Goto(t, "idle") /\ UNCHANGED <<inside, again, refused, spawned, requested, disposing, state, process>>

\* _on_close_requested may signal the child of an operation in progress; it
\* frees nothing.
Signal(t) ==
  /\ pc[t] = "signal"
  /\ process' = IF Counted # {} THEN Killed ELSE process
  /\ Goto(t, "drain")
  /\ UNCHANGED <<inside, again, refused, spawned, requested, disposing, state>>

\* Mutant: the disposal does not wait for the counts.
DrainNothing(t) ==
  /\ pc[t] = "drain"
  /\ Goto(t, "dispose")
  /\ UNCHANGED <<inside, again, refused, spawned, requested, disposing, state, process>>

\* The bounded wait: zero counts, or the deadline.
Drain(t) ==
  /\ pc[t] = "drain"
  /\ \/ Counted = {} /\ Goto(t, "dispose")
     \/ Counted # {} /\ Goto(t, "unproven")
  /\ UNCHANGED <<inside, again, refused, spawned, requested, disposing, state, process>>

\* Mutant: a disposal that failed half-way still counts as one.
DisposeAlways(t) ==
  /\ pc[t] = "dispose"
  /\ process' \in {Killed, "none"}
  /\ Goto(t, "proven")
  /\ UNCHANGED <<inside, again, refused, spawned, requested, disposing, state>>

\* dispose(): the child is killed and reaped, or something raised on the way
\* and what was published stays published.
Dispose(t) ==
  /\ pc[t] = "dispose"
  /\ \/ process' = "none" /\ Goto(t, "proven")
     \/ process' = Killed /\ Goto(t, "unproven")
  /\ UNCHANGED <<inside, again, refused, spawned, requested, disposing, state>>

Finish(t) ==
  /\ pc[t] \in {"proven", "unproven"}
  /\ state' = IF pc[t] = "proven" THEN "closed" ELSE "unproven"
  /\ disposing' = FALSE
  /\ Goto(t, "idle")
  /\ UNCHANGED <<inside, again, refused, spawned, requested, process>>

\* Shutdown refuses further allocation without disposing of anything ...
RequestClose ==
  /\ requested' = TRUE
  /\ state' = IF state = "closed" THEN state
              ELSE IF disposing THEN "closing" ELSE "unproven"
  /\ UNCHANGED <<threadVars, disposing, process>>

\* ... and in the end signals what is published.
Escalate ==
  /\ requested
  /\ process = "running"
  /\ process' = "dead"
  /\ UNCHANGED <<threadVars, requested, disposing, state>>

-----------------------------------------------------------------------------
Operation(t) ==
  \/ EnterAgain(t) \/ LeaveAgain(t) \/ Reap(t) \/ Leave(t)
  \/ EnterAlloc(t) \/ Allocate(t) \/ Publish(t) \/ Check(t) \/ LeaveAlloc(t)

Disposal(t) == LastStarterOut(t) \/ Signal(t) \/ Drain(t) \/ Dispose(t) \/ Finish(t)

Next ==
  \/ \E t \in Threads :
       \/ Enter(t, "start") \/ Enter(t, "use") \/ CloseByOwner(t)
       \/ Operation(t) \/ Disposal(t)
  \/ RequestClose \/ Escalate

Spec == Init /\ [][Next]_vars

\* A thread that is past its allocator goes on, an operation whose child is
\* gone returns, and a close that was begun runs.  An allocator or a user of
\* a running child may block for ever.
Fairness ==
  \A t \in Threads :
    /\ WF_vars(Publish(t) \/ Check(t) \/ LeaveAlloc(t))
    /\ WF_vars(Disposal(t))

FairSpec == Spec /\ Fairness

-----------------------------------------------------------------------------
(* Properties.                                                             *)

\* "Close never frees a user's handles": no operation is in progress while a
\* disposal runs.
NoDisposalInUse == \A t \in Threads : pc[t] = "dispose" => Counted = {}

\* "Only one disposal may run, including constructor failure cleanup."
OneDisposal == \A t, u \in Threads : pc[t] \in Closing /\ pc[u] \in Closing => t = u

\* The two together: handles are freed by one thread, and under nobody.
DisposalIsAlone == NoDisposalInUse /\ OneDisposal

\* A resource that says it is closed has no child, published or not, and no
\* operation that could still get one: the registry lets go of it for good.
ClosedIsProven ==
  state = "closed" =>
    /\ process = "none"
    /\ Counted = {}
    /\ \A t \in Threads : ~spawned[t]

\* ... and stays so.
ClosedForEver == [][state = "closed" => state' = "closed"]_vars

\* A child that nobody else knows of when the close is requested is published
\* and signalled by its own publisher, even if nobody closes the resource.
LateChildDies ==
  \A t \in Threads :
    (spawned[t] /\ requested) ~> (~spawned[t] /\ process # "running")

\* A close that began is over: it never waits for a user that does not leave.
CloseReturns == disposing ~> ~disposing
=============================================================================
