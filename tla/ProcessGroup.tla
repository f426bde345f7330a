---------------------------- MODULE ProcessGroup ----------------------------
(***************************************************************************)
(* processes.kill_group: the end of a child launched in a session of its   *)
(* own, and of whatever it forked.  A kernel that signals a group through  *)
(* a pidfd does it in one call; one that has pidfds but not that call is   *)
(* scanned (_kill_members), while members fork, die and are reaped, pids   *)
(* are used again, and somebody else may reap the leader.                  *)
(*                                                                         *)
(* A handle (pidfd) is the process itself, not its number.  A process that *)
(* leaves its group is out of scope, as the code says.                     *)
(***************************************************************************)
EXTENDS Naturals, FiniteSets

CONSTANTS
  Pids,    \* the numbers; the group's is Leader's
  Procs    \* bound: processes ever, numbered as they are born

VARIABLES
  kernel,   \* "group" or "pidfd"
  proc,     \* per process, its number, whether it is of the group, and its state
  killed,   \* the processes sent SIGKILL
  at,       \* where kill_group is
  previous, members, deadBefore, \* handles of the last scan and of this one, and the dead of the last
  complete, \* whether this scan may prove anything
  left,     \* the numbers the scan has still to visit
  seen,     \* the process that had the number visited, or 0
  births,   \* /proc/stat processes
  counted   \* births when this scan began

scan == <<previous, members, deadBefore, complete, left, seen, counted>>
vars == <<kernel, proc, killed, at, scan, births>>

Leader == 1
Unborn == [pid |-> 0, ours |-> FALSE, state |-> "unborn"]
There == {p \in Procs : proc[p].state \in {"alive", "zombie"}}
Alive == {p \in There : proc[p].state = "alive"}
Ours == {p \in Procs : proc[p].ours}
WithPid(n) == {p \in There : proc[p].pid = n}
\* The number stays taken while a process of the group is there.
Free == {n \in Pids : WithPid(n) = {} /\ ~(n = proc[Leader].pid /\ There \cap Ours # {})}
\* What /proc calls a member: one of ours, or a stranger whose group has the number.
Member(p) == p \in Ours \/ proc[p].pid = proc[Leader].pid
Reaped == Leader \notin There

Init ==
  /\ kernel \in {"group", "pidfd"}
  /\ proc = [p \in Procs |-> IF p = Leader THEN [pid |-> 1, ours |-> TRUE, state |-> "alive"]
                             ELSE Unborn]
  /\ killed = {} /\ at = "idle" /\ births = 0
  /\ previous = {} /\ members = {} /\ deadBefore = {} /\ complete = TRUE
  /\ left = {} /\ seen = 0 /\ counted = 0

-----------------------------------------------------------------------------
(* The machine around it.                                                  *)

Born(pid, ours) ==
  /\ \E p \in Procs :
       /\ proc[p].state = "unborn" /\ \A q \in Procs : q < p => proc[q].state # "unborn"
       /\ proc' = [proc EXCEPT ![p] = [pid |-> pid, ours |-> ours, state |-> "alive"]]
  /\ births' = births + 1
  /\ UNCHANGED <<kernel, killed, at, scan>>

\* A member forks; one that was sent SIGKILL does not.
Fork == (Alive \cap Ours) \ killed # {} /\ \E n \in Free : Born(n, TRUE)

Stranger == \E n \in Free : Born(n, FALSE)

Dies ==
  /\ \E p \in Alive : proc' = [proc EXCEPT ![p].state = "zombie"]
  /\ UNCHANGED <<kernel, killed, at, scan, births>>

\* A parent reaps its child; nobody but kill_group's owner reaps the leader,
\* or somebody does ("outside reap").
Reap ==
  /\ \E p \in There \ Alive : proc' = [proc EXCEPT ![p].state = "gone"]
  /\ UNCHANGED <<kernel, killed, at, scan, births>>

Machine == Fork \/ Stranger \/ Dies \/ Reap

-----------------------------------------------------------------------------
(* kill_group, under _group_lock.                                          *)

Goto(place) == at' = place
Outside == Goto("outside") /\ UNCHANGED <<kernel, proc, killed, scan, births>>

\* PIDFD_SIGNAL_PROCESS_GROUP: every member at once.  With nobody to signal
\* the leader's exit is asked for, and its absence proves nothing.
SignalGroup ==
  /\ at = "idle" /\ kernel = "group"
  /\ IF There \cap Ours = {} THEN Outside
     ELSE /\ killed' = killed \cup (Alive \cap Ours)
          /\ Goto("signalled")
          /\ UNCHANGED <<kernel, proc, scan, births>>

StartScans ==
  /\ at = "idle" /\ kernel = "pidfd"
  /\ Goto("check") /\ previous' = {}
  /\ UNCHANGED <<kernel, proc, killed, members, deadBefore, complete, left, seen, counted, births>>

\* _check_leader, then the handles of the last scan that poll as dead and
\* still have a number.
CheckLeader ==
  /\ at = "check"
  /\ IF Reaped THEN Outside
     ELSE /\ Goto("count")
          /\ deadBefore' = (previous \cap There) \ Alive
          /\ members' = {} /\ complete' = TRUE
          /\ UNCHANGED <<kernel, proc, killed, previous, left, seen, counted, births>>

CountBirths ==
  /\ at = "count"
  /\ counted' = births /\ left' = Pids /\ seen' = 0
  /\ Goto("walk")
  /\ UNCHANGED <<kernel, proc, killed, previous, members, deadBefore, complete, births>>

\* The next number: what it was before it is opened.  One that is not there
\* was not listed, or was and has gone.
Look ==
  /\ at = "walk" /\ left # {}
  /\ LET n == CHOOSE m \in left : \A k \in left : m <= k IN
       /\ left' = left \ {n}
       /\ \/ \E p \in WithPid(n) :
               IF Member(p) THEN seen' = p /\ Goto("open") ELSE UNCHANGED seen /\ Goto("walk")
          \/ WithPid(n) = {} /\ UNCHANGED seen /\ Goto("walk")
       /\ \/ UNCHANGED complete
          \/ WithPid(n) = {} /\ complete' = FALSE
  /\ UNCHANGED <<kernel, proc, killed, previous, members, deadBefore, counted, births>>

Opened(here, same) ==
  /\ at = "open"
  /\ IF same THEN members' = members \cup here /\ UNCHANGED complete
     ELSE complete' = FALSE /\ UNCHANGED members
  /\ Goto("walk") /\ seen' = 0
  /\ UNCHANGED <<kernel, proc, killed, previous, deadBefore, left, counted, births>>

\* Mutant: what the number is when it is opened is not compared with what it was.
OpenUnchecked == Opened(WithPid(proc[seen].pid), WithPid(proc[seen].pid) # {})

\* pidfd_open and the second look: the same member, or the scan proves nothing.
Open == Opened(WithPid(proc[seen].pid), WithPid(proc[seen].pid) = {seen})

\* Nothing was born meanwhile, and the leader still pins the number.
EndScan ==
  /\ at = "walk" /\ left = {}
  /\ complete' = (complete /\ births = counted)
  /\ IF Reaped THEN Goto("outside") ELSE Goto("decide")
  /\ UNCHANGED <<kernel, proc, killed, previous, members, deadBefore, left, seen, counted, births>>

\* A complete scan that found the leader and only what was dead before it is
\* the proof; or each member found is sent SIGKILL, and it is done again until
\* the second is over.
Decide ==
  /\ at = "decide"
  /\ IF complete /\ Leader \in members /\ members \subseteq deadBefore \cap There
     THEN Goto("signalled") /\ UNCHANGED <<killed, previous>>
     ELSE /\ killed' = killed \cup (members \cap Alive)
          /\ previous' = members
          /\ Goto("check") \/ Goto("idle")
  /\ members' = {} /\ deadBefore' = {}
  /\ UNCHANGED <<kernel, proc, complete, left, seen, counted, births>>

KillGroup ==
  SignalGroup \/ StartScans \/ CheckLeader \/ CountBirths \/ Look \/ Open \/ EndScan \/ Decide

Next == Machine \/ KillGroup

Spec == Init /\ [][Next]_vars

-----------------------------------------------------------------------------
(* Properties.                                                             *)

\* Once kill_group has sealed the group nobody in it can still run or fork:
\* after a scan all are dead, whatever was born, died or was reaped while it
\* looked; after the one call all have their SIGKILL.
NoSurvivor ==
  at = "signalled" => Alive \cap Ours \subseteq (IF kernel = "group" THEN killed ELSE {})

\* No process but ours is ever signalled, not even one that got the number of
\* a member, or the group's own, between a look and a signal.
StrangersAreSafe == killed \subseteq Ours
=============================================================================
