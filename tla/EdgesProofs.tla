---------------------------- MODULE EdgesProofs ----------------------------
(***************************************************************************)
(* The edges, one machine after the other: the owner of the session, the   *)
(* launch of a child, the end of its group, the files a model is loaded    *)
(* from, replies, the audio the daemon ingests and the shared settings.    *)
(* A behaviour of the composition is one of each machine, so what is       *)
(* proved of a machine holds of the composition.                           *)
(***************************************************************************)
EXTENDS MCEdges, FilterProofs, FiniteSetTheorems

-----------------------------------------------------------------------------
(* The owner of the session: one, for any number of daemons, pids and      *)
(* crashes, as long as no two daemons start at the same time (SessionLock).*)

\* Only one process is on its way to the lock.
OneStarter ==
  \A p, q \in Procs : pc[p] \in Starting /\ pc[q] \in Starting => p = q

\* The lock file was created by a process that has it or has ended.
LockFileInv ==
  /\ \A p \in Procs : Owner(p) => lock = p /\ written
  /\ \A p \in Procs : pc[p] = "claim" => lock = p
  /\ \A p \in Procs : lock = p => pc[p] \in Owning \cup {"claim", "refused", "done", "killed"}

\* No live process has the lock that p is about to remove.
Stale == lock = Nobody \/ ~Live(lock)

StaleLockInv ==
  \A p \in Procs :
    /\ pc[p] = "judge" /\ ~named[p] => Stale
    /\ pc[p] = "judge" /\ named[p] => lock \in {Nobody, seen[p]}
    /\ pc[p] = "unlink" => Stale

\* Only the owner touches the control socket.
SockInv == \A p \in Procs : pc[p] \in {"record", "serve"} => sock = p

\* A process that is about to create the lock has an attempt left.
TriesInv == \A p \in Procs : pc[p] \in {"idle", "create"} => tries[p] < Attempts

SessionInv == Serial /\ TypeOK /\ OneStarter /\ LockFileInv /\ StaleLockInv /\ SockInv /\ TriesInv

\* Two owners would both have made the lock file.
LEMMA OwnersAreOne == LockFileInv => OneOwner
BY DEF LockFileInv, OneOwner

\* The invariant holds before any daemon starts.
LEMMA SessionStart == Serial /\ Init => SessionInv
<1> SUFFICES ASSUME Serial, Init PROVE SessionInv
  OBVIOUS
<1> USE SessionAssumption
<1>1. TypeOK
  <2>1. written \in BOOLEAN /\ aged \in BOOLEAN
    BY Zenon DEF Init
  <2>2. named \in [Procs -> BOOLEAN] /\ old \in [Procs -> BOOLEAN]
    BY DEF Init
  <2>3. QED
    BY <2>1, <2>2 DEF Init, TypeOK, Ended, Attempts
<1>2. OneStarter /\ LockFileInv /\ StaleLockInv /\ SockInv /\ TriesInv
  BY DEF Init, OneStarter, LockFileInv, StaleLockInv, SockInv, TriesInv, Owner, Starting,
     Owning, Attempts
<1>3. QED
  BY <1>1, <1>2 DEF SessionInv

\* Every step of a serial start, a kill or an end keeps it.
LEMMA SessionStep == SessionInv /\ [Next]_vars => SessionInv'
<1> SUFFICES ASSUME SessionInv, [Next]_vars PROVE SessionInv'
  OBVIOUS
<1> USE SessionAssumption DEF SessionInv, TypeOK, OneStarter, LockFileInv, StaleLockInv, SockInv,
       TriesInv, Stale, Live, Owner, Starting, Owning, Ended, Attempts, Goto, At, Look, procVars,
       lockVars
<1>1. ASSUME NEW p \in Procs, Start(p) PROVE SessionInv'
  BY <1>1 DEF Start
<1>2. ASSUME NEW p \in Procs, Create(p) PROVE SessionInv'
  <2>1. written' \in BOOLEAN /\ aged' \in BOOLEAN
    BY <1>2, Zenon DEF Create
  <2>2. QED
    BY <1>2, <2>1 DEF Create
<1>3. ASSUME NEW p \in Procs, Claim(p) PROVE SessionInv'
  <2>1. written' \in BOOLEAN
    BY <1>3, Zenon DEF Claim
  <2>2. QED
    BY <1>3, <2>1 DEF Claim
<1>4. ASSUME NEW p \in Procs, StatLock(p) PROVE SessionInv'
  BY <1>4 DEF StatLock
<1>5. ASSUME NEW p \in Procs, ReadLock(p) PROVE SessionInv'
  BY <1>5 DEF ReadLock
<1>6. ASSUME NEW p \in Procs, Judge(p) PROVE SessionInv'
  BY <1>6 DEF Judge, ProcessAlive
<1>7. ASSUME NEW p \in Procs, Unlink(p) PROVE SessionInv'
  BY <1>7 DEF Unlink
<1>8. ASSUME NEW p \in Procs, Open(p) PROVE SessionInv'
  BY <1>8 DEF Open, ClearSocket, UnlinkStale, Bind, Record
<1>9. ASSUME NEW p \in Procs, Stop(p) PROVE SessionInv'
  BY <1>9 DEF Stop
<1>10. ASSUME NEW p \in Procs, Close(p) PROVE SessionInv'
  BY <1>10 DEF Close, ShutdownLooks, UnlinkOwn, Release, UnlinkLock
<1>11. ASSUME NEW p \in Procs, Crash(p) PROVE SessionInv'
  BY <1>11 DEF Crash
<1>12. ASSUME NEW p \in Procs, Recycle(p) PROVE SessionInv'
  BY <1>12 DEF Recycle
<1>13. CASE Age
  BY <1>13 DEF Age
<1>14. CASE UNCHANGED vars
  BY <1>14 DEF vars
<1>15. QED
  BY <1>1, <1>2, <1>3, <1>4, <1>5, <1>6, <1>7, <1>8, <1>9, <1>10, <1>11,
     <1>12, <1>13, <1>14 DEF Next, Acquire

\* Daemons that start one after the other never own the session together,
\* however they stop, are killed, or race a stopping one (arbiter.py,
\* acquire_session and release).
THEOREM SerialOneOwner == Serial /\ Spec => []OneOwner
<1>1. Serial /\ Spec => []SessionInv
  BY SessionStart, SessionStep, PTL DEF Spec
<1>2. SessionInv => OneOwner
  BY OwnersAreOne DEF SessionInv
<1>3. QED
  BY <1>1, <1>2, PTL

\* ... and a serving daemon keeps the control socket's path (Daemon._bind,
\* _clear_stale_socket and _shutdown).
THEOREM SerialSocket == Serial /\ Spec => []ServedSocketIsOwn
<1>1. Serial /\ Spec => []SessionInv
  BY SessionStart, SessionStep, PTL DEF Spec
<1>2. SessionInv => ServedSocketIsOwn
  BY DEF SessionInv, SockInv, ServedSocketIsOwn
<1>3. QED
  BY <1>1, <1>2, PTL

-----------------------------------------------------------------------------
(* Who is refused.                                                         *)

\* The lock file is its creator's while that runs, and a killed one's after.
HeirInv == lock # Nobody => pc[lock] \in Owning \cup {"claim", "killed"}

\* A starter has a pid that neither the owner nor a killed daemon had, and so
\* not that of the process it read from the lock.
PidInv ==
  /\ \A p, q \in Procs :
       pc[p] \in Starting /\ pc[q] \in Owning \cup {"killed"} => pid[p] # pid[q]
  /\ \A p \in Procs :
       pc[p] = "judge" /\ named[p] => seen[p] \in Procs /\ pid[seen[p]] # pid[p]

\* Every step keeps the pids of the living apart.
LEMMA PidStep ==
  ASSUME ~OwnPidReused
  PROVE  SessionInv /\ HeirInv /\ PidInv /\ [Next]_vars => HeirInv' /\ PidInv'
<1> SUFFICES ASSUME SessionInv, HeirInv, PidInv, [Next]_vars PROVE HeirInv' /\ PidInv'
  OBVIOUS
<1> USE SessionAssumption
    DEF HeirInv, PidInv, SessionInv, TypeOK, OneStarter, LockFileInv, Live, Owner, Starting,
        Owning, Ended, Goto, At, Look, procVars, lockVars
<1>1. ASSUME NEW p \in Procs, Start(p) PROVE HeirInv' /\ PidInv'
  BY <1>1 DEF Start
<1>2. ASSUME NEW p \in Procs, Create(p) PROVE HeirInv' /\ PidInv'
  BY <1>2 DEF Create
<1>3. ASSUME NEW p \in Procs, Claim(p) PROVE HeirInv' /\ PidInv'
  BY <1>3 DEF Claim
<1>4. ASSUME NEW p \in Procs, StatLock(p) PROVE HeirInv' /\ PidInv'
  BY <1>4 DEF StatLock
<1>5. ASSUME NEW p \in Procs, ReadLock(p) PROVE HeirInv' /\ PidInv'
  BY <1>5 DEF ReadLock
<1>6. ASSUME NEW p \in Procs, Judge(p) PROVE HeirInv' /\ PidInv'
  BY <1>6 DEF Judge
<1>7. ASSUME NEW p \in Procs, Unlink(p) PROVE HeirInv' /\ PidInv'
  BY <1>7 DEF Unlink
<1>8. ASSUME NEW p \in Procs, Open(p) PROVE HeirInv' /\ PidInv'
  BY <1>8 DEF Open, ClearSocket, UnlinkStale, Bind, Record
<1>9. ASSUME NEW p \in Procs, Stop(p) PROVE HeirInv' /\ PidInv'
  BY <1>9 DEF Stop
<1>10. ASSUME NEW p \in Procs, Close(p) PROVE HeirInv' /\ PidInv'
  BY <1>10 DEF Close, ShutdownLooks, UnlinkOwn, Release, UnlinkLock
<1>11. ASSUME NEW p \in Procs, Crash(p) PROVE HeirInv' /\ PidInv'
  BY <1>11 DEF Crash
<1>12. ASSUME NEW p \in Procs, Recycle(p) PROVE HeirInv' /\ PidInv'
  BY <1>12 DEF Recycle
<1>13. CASE Age
  BY <1>13 DEF Age
<1>14. CASE UNCHANGED vars
  BY <1>14 DEF vars
<1>15. QED
  BY <1>1, <1>2, <1>3, <1>4, <1>5, <1>6, <1>7, <1>8, <1>9, <1>10, <1>11,
     <1>12, <1>13, <1>14 DEF Next, Acquire

\* A verdict "already running" is about a process that runs.
LEMMA RefusedStep ==
  ASSUME SessionInv, PidInv, [Next]_vars, NEW p \in Procs,
         pc[p] = "judge", pc'[p] = "refused", named[p]
  PROVE  Live(seen[p])
<1> USE DEF SessionInv, TypeOK, Goto, At, Look
<1>1. ASSUME NEW q \in Procs,
             Start(q) \/ Create(q) \/ Claim(q) \/ StatLock(q) \/ ReadLock(q) \/ Unlink(q)
      PROVE  FALSE
  BY <1>1 DEF Start, Create, Claim, StatLock, ReadLock, Unlink
<1>2. ASSUME NEW q \in Procs, Open(q) \/ Stop(q) \/ Close(q) \/ Crash(q) \/ Recycle(q)
      PROVE  FALSE
  BY <1>2 DEF Open, ClearSocket, UnlinkStale, Bind, Record, Stop, Close, ShutdownLooks,
     UnlinkOwn, Release, UnlinkLock, Crash, Recycle
<1>3. ~Age /\ ~UNCHANGED vars
  BY DEF Age, vars
<1>4. PICK q \in Procs : Judge(q)
  BY <1>1, <1>2, <1>3 DEF Next, Acquire
<1>5. q = p
  BY <1>4 DEF Judge
<1>6. ProcessAlive(p, seen[p])
  BY <1>4, <1>5 DEF Judge
<1>7. QED
  BY <1>6 DEF ProcessAlive, PidInv

\* Daemons that start one after the other are refused only by one that runs,
\* however their predecessors ended, if no daemon gets the very pid of a killed
\* one (arbiter.py, _take_over_stale_lock and _process_alive).
THEOREM SerialRefusal ==
  ASSUME Serial, ~OwnPidReused
  PROVE  Spec => RefusedByTheLiving
<1>1. Init => SessionInv /\ HeirInv /\ PidInv
  BY SessionStart DEF Init, HeirInv, PidInv, Starting
<1>2. SessionInv /\ HeirInv /\ PidInv /\ [Next]_vars =>
        [\A p \in Procs : pc[p] = "judge" /\ pc'[p] = "refused" /\ named[p] => Live(seen[p])]_vars
  BY RefusedStep
<1>3. QED
  BY <1>1, <1>2, SessionStep, PidStep, PTL DEF Spec, RefusedByTheLiving

-----------------------------------------------------------------------------
(* The launch of a child (Launch).                                         *)

LaunchPlaces ==
  {"away", "hello", "send", "reply", "dispose", "retry", "returned", "unproven", "raised"}
Proven == {"send", "reply", "dispose", "retry", "returned"}
ChildStates == {"none", "born", "gated", "told", "trying", "running", "dead"}
Told == {"told", "trying", "running"}

LaunchTypeInv ==
  /\ launchAt \in [Launches -> LaunchPlaces]
  /\ child \in [Launches -> ChildStates]
  /\ admitted \subseteq Launches /\ pending \subseteq Launches /\ retried \subseteq Launches

\* The constructor goes on only past the proof of identity, and a command is
\* only sent there.
LaunchProvenInv ==
  \A l \in Launches :
    /\ launchAt[l] \in Proven => l \in admitted
    /\ launchAt[l] \in {"away", "hello", "unproven"} => l \notin admitted
    /\ child[l] \in Told => l \in admitted

\* A child that could not be disposed of is in the table before its
\* constructor raises, until it is dead.
LaunchKeptInv ==
  \A l \in Launches :
    l \in admitted /\ Spawning!Live(l) /\ launchAt[l] \in {"retry", "raised"} => l \in pending

LaunchInv == LaunchTypeInv /\ LaunchProvenInv /\ LaunchKeptInv

\* The invariant holds before any launch.
LEMMA LaunchStart == Spawning!Init => LaunchInv
  BY DEF Spawning!Init, LaunchInv, LaunchTypeInv, LaunchProvenInv, LaunchKeptInv, LaunchPlaces,
       Proven, ChildStates, Told

\* A step of a constructor, or of the worker that retries.
LEMMA ConstructorInv ==
  ASSUME LaunchInv, NEW l \in Launches, Spawning!Constructor(l)
  PROVE  LaunchInv'
<1> USE DEF LaunchInv, Spawning!Goto, Spawning!Leaves, Spawning!Becomes
<1>1. CASE Spawning!Spawn(l)
  BY <1>1 DEF Spawning!Spawn, LaunchTypeInv, LaunchProvenInv, LaunchKeptInv, Spawning!Live,
       LaunchPlaces, Proven, ChildStates, Told, Spawning!table
<1>2. CASE Spawning!Verify(l)
  BY <1>2 DEF Spawning!Verify, LaunchTypeInv, LaunchProvenInv, LaunchKeptInv, Spawning!Live,
       LaunchPlaces, Proven, Told, Spawning!table
<1>3. CASE Spawning!Send(l)
  BY <1>3 DEF Spawning!Send, LaunchTypeInv, LaunchProvenInv, LaunchKeptInv, Spawning!Live,
       LaunchPlaces, Proven, ChildStates, Told, Spawning!table
<1>4. CASE Spawning!Reply(l)
  BY <1>4 DEF Spawning!Reply, LaunchTypeInv, LaunchProvenInv, LaunchKeptInv, Spawning!Live,
       LaunchPlaces, Proven, Told, Spawning!table
<1>5. CASE Spawning!Dispose(l)
  BY <1>5 DEF Spawning!Dispose, Spawning!Disposes, Spawning!Disposed, Spawning!NotDisposed,
       LaunchTypeInv, LaunchProvenInv, LaunchKeptInv, Spawning!Live, LaunchPlaces, Proven,
       ChildStates, Told
<1>6. CASE Spawning!Retry(l)
  BY <1>6 DEF Spawning!Retry, LaunchTypeInv, LaunchProvenInv, LaunchKeptInv, Spawning!Live,
       LaunchPlaces, Proven, Told
<1> QED BY <1>1, <1>2, <1>3, <1>4, <1>5, <1>6 DEF Spawning!Constructor

\* A step of a child.
LEMMA ChildInv ==
  ASSUME LaunchInv, NEW l \in Launches, Spawning!ChildSteps(l) \/ Spawning!ChildDies(l)
  PROVE  LaunchInv'
<1>1. CASE Spawning!ChildSteps(l)
  BY <1>1 DEF LaunchInv, Spawning!ChildSteps, Spawning!Becomes, LaunchTypeInv, LaunchProvenInv,
       LaunchKeptInv, Spawning!Live, ChildStates, Told, Spawning!table
<1>2. CASE Spawning!ChildDies(l)
  BY <1>2 DEF LaunchInv, Spawning!ChildDies, Spawning!Becomes, LaunchTypeInv, LaunchProvenInv,
       LaunchKeptInv, Spawning!Live, ChildStates, Told, Spawning!table
<1> QED BY <1>1, <1>2

\* Every step keeps the invariant.
LEMMA LaunchStep == LaunchInv /\ [Spawning!Next]_(Spawning!vars) => LaunchInv'
<1> SUFFICES ASSUME LaunchInv, [Spawning!Next]_(Spawning!vars) PROVE LaunchInv'
  OBVIOUS
<1>1. CASE Spawning!RetryTick
  BY <1>1 DEF LaunchInv, Spawning!RetryTick, LaunchTypeInv, LaunchProvenInv, LaunchKeptInv,
       Spawning!Live
<1>2. CASE Spawning!Look
  BY <1>2 DEF LaunchInv, Spawning!Look, LaunchTypeInv, LaunchProvenInv, LaunchKeptInv,
       Spawning!Live
<1>3. CASE Spawning!Work
  BY <1>3 DEF LaunchInv, Spawning!Work, Spawning!Disposed, Spawning!NotDisposed, Spawning!Becomes,
       LaunchTypeInv, LaunchProvenInv, LaunchKeptInv, Spawning!Live, ChildStates, Told
<1>4. CASE UNCHANGED Spawning!vars
  BY <1>4 DEF LaunchInv, Spawning!vars, Spawning!table, LaunchTypeInv, LaunchProvenInv,
       LaunchKeptInv, Spawning!Live
<1> QED BY <1>1, <1>2, <1>3, <1>4, ConstructorInv, ChildInv DEF Spawning!Next

\* No command runs in a process that is not proven to be the child, and a
\* child that may run one is never without somebody to end it, for any number
\* of launches and failures: GroupPopen.__init__ with _FailedLaunches.
THEOREM StrandedSafe == EdgesSpec => []NothingStranded
<1>1. EdgesSpec => Spawning!Spec
  <2>1. EdgesInit => Spawning!Init
    BY DEF EdgesInit
  <2>2. [EdgesNext]_edgesVars => [Spawning!Next]_(Spawning!vars)
    BY DEF EdgesNext, edgesVars, launchVars, Spawning!vars
  <2> QED BY <2>1, <2>2, PTL DEF EdgesSpec, Spawning!Spec
<1>2. LaunchInv => NothingStranded
  BY DEF LaunchInv, LaunchProvenInv, LaunchKeptInv, NothingStranded, Spawning!NothingStranded,
       Told
<1> QED BY <1>1, <1>2, LaunchStart, LaunchStep, PTL DEF Spawning!Spec

-----------------------------------------------------------------------------
(* The end of a process group (ProcessGroup).                              *)

\* The composition takes only steps of the group.
LEMMA GroupSteps == EdgesSpec => Group!Spec
<1>1. EdgesInit => Group!Init
  BY DEF EdgesInit
<1>2. [EdgesNext]_edgesVars => [Group!Next]_(Group!vars)
  BY DEF EdgesNext, edgesVars, groupVars, Group!vars, Group!scan
<1> QED BY <1>1, <1>2, PTL DEF EdgesSpec, Group!Spec

Process == [pid : Nat, ours : BOOLEAN, state : {"unborn", "alive", "zombie", "gone"}]

GroupTypeInv ==
  /\ proc \in [Members -> Process]
  /\ \A p \in Members : proc[p].state \in {"alive", "zombie"} => proc[p].pid \in Numbers
  /\ \A p \in Members : proc[p].state = "unborn" => ~proc[p].ours
  /\ Group!Leader \in Members
  /\ births \in Nat /\ counted \in Nat /\ counted <= births
  /\ members \subseteq Members /\ deadBefore \subseteq Members
  /\ groupAt = "open" => listed \in Members

\* Processes that are there have numbers of their own, and a stranger gets the
\* group's only once nobody of the group is left.
NumberInv ==
  /\ \A p, q \in Group!There : proc[p].pid = proc[q].pid => p = q
  /\ \A p \in Group!There \ Group!Ours :
       proc[p].pid = proc[Group!Leader].pid => Group!There \cap Group!Ours = {}

\* What the scan found is of the group, or the group is gone.
FoundInv ==
  /\ ~Group!Reaped => members \subseteq Group!Ours
  /\ ~Group!Reaped /\ groupAt = "open" => listed \in Group!Ours
  /\ groupAt = "decide" => members \subseteq Group!Ours
  /\ Group!Leader \in Group!Ours

\* While nobody is born, a scan that misses nothing has found every member it
\* has passed; what was dead before it stays dead.
ScanInv ==
  /\ groupAt \in {"walk", "open"} /\ complete /\ births = counted =>
       \A p \in Group!Alive \cap Group!Ours :
         proc[p].pid \in left \/ p \in members \/ (groupAt = "open" /\ p = listed)
  /\ \A p \in deadBefore : proc[p].state \in {"zombie", "gone"}
  /\ groupAt = "decide" /\ complete /\ members \subseteq deadBefore =>
       Group!Alive \cap Group!Ours = {}

GroupInv ==
  GroupTypeInv /\ NumberInv /\ FoundInv /\ ScanInv /\ Group!NoSurvivor /\ Group!StrangersAreSafe

\* The invariant holds when the kill begins.
LEMMA GroupStart == Group!Init => GroupInv
<1> SUFFICES ASSUME Group!Init PROVE GroupInv
  OBVIOUS
<1>1. GroupTypeInv
  BY EdgesAssumption DEF Group!Init, Group!Leader, Group!Unborn, GroupTypeInv, Process
<1> QED
  BY <1>1, EdgesAssumption DEF Group!Init, Group!Leader, Group!Unborn, GroupInv, NumberInv,
       FoundInv, ScanInv, Group!NoSurvivor, Group!StrangersAreSafe, Group!There, Group!Alive,
       Group!Ours, Group!Reaped

\* How the processes may change: one is born, with a number nobody has and no
\* member of the group pins; one dies; a dead one is reaped.
LEMMA MachineCases ==
  ASSUME GroupTypeInv, Group!Machine
  PROVE  /\ UNCHANGED <<kernel, killed, groupAt, previous, members, deadBefore, complete, left,
                        listed, counted>>
         /\ \/ \E p \in Members, n \in Group!Free, inside \in BOOLEAN :
                 /\ proc[p].state = "unborn" /\ births' = births + 1
                 /\ proc' = [proc EXCEPT ![p] = [pid |-> n, ours |-> inside, state |-> "alive"]]
                 /\ inside => (Group!Alive \cap Group!Ours) \ killed # {}
            \/ \E p \in Group!Alive : proc' = [proc EXCEPT ![p].state = "zombie"] /\ births' = births
            \/ \E p \in Group!There \ Group!Alive :
                 proc' = [proc EXCEPT ![p].state = "gone"] /\ births' = births
<1>1. CASE Group!Fork
  BY <1>1 DEF Group!Fork, Group!Born, Group!scan
<1>2. CASE Group!Stranger
  BY <1>2 DEF Group!Stranger, Group!Born, Group!scan
<1>3. CASE Group!Dies
  BY <1>3 DEF Group!Dies, Group!scan
<1>4. CASE Group!Reap
  BY <1>4 DEF Group!Reap, Group!scan
<1> QED BY <1>1, <1>2, <1>3, <1>4 DEF Group!Machine

\* A fork in the group.
LEMMA BirthStep ==
  ASSUME GroupInv, NEW p \in Members, NEW n \in Group!Free, NEW inside \in BOOLEAN,
         proc[p].state = "unborn", births' = births + 1,
         proc' = [proc EXCEPT ![p] = [pid |-> n, ours |-> inside, state |-> "alive"]],
         inside => (Group!Alive \cap Group!Ours) \ killed # {},
         UNCHANGED <<kernel, killed, groupAt, previous, members, deadBefore, complete, left,
                     listed, counted>>
  PROVE  GroupInv'
<1> DEFINE new == [pid |-> n, ours |-> inside, state |-> "alive"]
<1>1. n \in Numbers /\ new \in Process
  BY EdgesAssumption DEF Group!Free, Process
<1>2. proc'[p] = new /\ \A q \in Members \ {p} : proc'[q] = proc[q]
  BY DEF GroupInv, GroupTypeInv
<1>3. /\ Group!There' = Group!There \cup {p} /\ p \notin Group!There
      /\ Group!Alive' = Group!Alive \cup {p}
      /\ Group!Ours' = IF inside THEN Group!Ours \cup {p} ELSE Group!Ours
      /\ p \notin Group!Ours
  BY <1>2 DEF GroupInv, GroupTypeInv, Group!There, Group!Alive, Group!Ours
<1>4. GroupTypeInv'
  <2>1. proc' \in [Members -> Process]
    BY <1>1 DEF GroupInv, GroupTypeInv
  <2> QED BY <1>1, <1>2, <2>1 DEF GroupInv, GroupTypeInv
<1>5. Group!Leader # p
  BY <1>3 DEF GroupInv, FoundInv
<1>6. NumberInv'
  <2>1. \A q \in Group!There : proc[q].pid # n /\ q \in Members
    BY DEF Group!Free, Group!WithPid, Group!There
  <2>2. \A q, r \in Group!There' : proc'[q].pid = proc'[r].pid => q = r
    BY <1>2, <1>3, <2>1 DEF GroupInv, NumberInv
  <2>3. ~(n = proc[Group!Leader].pid /\ Group!There \cap Group!Ours # {})
    BY DEF Group!Free
  <2>4. inside => Group!There \cap Group!Ours # {}
    BY DEF Group!Alive
  <2>5. proc'[Group!Leader] = proc[Group!Leader]
    BY <1>2, <1>5 DEF GroupInv, GroupTypeInv
  <2>6. ASSUME NEW q \in Group!There' \ Group!Ours', proc'[q].pid = proc'[Group!Leader].pid
        PROVE  Group!There' \cap Group!Ours' = {}
    <3>1. CASE q = p
      <4>1. ~inside /\ Group!There \cap Group!Ours = {}
        BY <1>2, <1>3, <2>3, <2>4, <2>5, <2>6, <3>1
      <4> QED BY <1>3, <4>1
    <3>2. CASE q # p
      <4>1. q \in Group!There \ Group!Ours /\ proc[q].pid = proc[Group!Leader].pid
        BY <1>2, <1>3, <2>1, <2>5, <2>6, <3>2
      <4>2. Group!There \cap Group!Ours = {}
        BY <4>1 DEF GroupInv, NumberInv
      <4> QED BY <1>3, <2>4, <4>2
    <3> QED BY <3>1, <3>2
  <2> QED BY <2>2, <2>6 DEF NumberInv
<1>7. FoundInv'
  BY <1>3, <1>5 DEF GroupInv, FoundInv, Group!Reaped
<1>8. ScanInv'
  <2>1. births' # counted'
    BY DEF GroupInv, GroupTypeInv
  <2>2. \A q \in deadBefore : proc'[q] = proc[q]
    BY <1>2 DEF GroupInv, GroupTypeInv, ScanInv
  <2>3. CASE inside
    <3>1. Group!Alive \cap Group!Ours # {}
      BY <2>3
    <3> QED BY <2>1, <2>2, <3>1 DEF GroupInv, ScanInv
  <2>4. CASE ~inside
    <3>1. Group!Alive' \cap Group!Ours' = Group!Alive \cap Group!Ours
      BY <1>3, <2>4
    <3> QED BY <2>1, <2>2, <3>1 DEF GroupInv, ScanInv
  <2> QED BY <2>3, <2>4
<1>9. Group!NoSurvivor' /\ Group!StrangersAreSafe'
  BY <1>3 DEF GroupInv, Group!NoSurvivor, Group!StrangersAreSafe
<1> QED BY <1>4, <1>6, <1>7, <1>8, <1>9 DEF GroupInv

\* A process dies, or is reaped and its number becomes free.
LEMMA DeathStep ==
  ASSUME GroupInv, NEW p \in Group!There, NEW to \in {"zombie", "gone"},
         proc' = [proc EXCEPT ![p].state = to], births' = births,
         UNCHANGED <<kernel, killed, groupAt, previous, members, deadBefore, complete, left,
                     listed, counted>>
  PROVE  GroupInv'
<1>1. p \in Members /\ proc[p].state \in {"alive", "zombie"}
  BY DEF Group!There
<1>2. /\ proc'[p].state = to /\ proc'[p].pid = proc[p].pid /\ proc'[p].ours = proc[p].ours
      /\ \A q \in Members \ {p} : proc'[q] = proc[q]
  BY <1>1 DEF GroupInv, GroupTypeInv, Process
<1>3. /\ Group!There' \subseteq Group!There /\ Group!Alive' \subseteq Group!Alive
      /\ Group!Ours' = Group!Ours
  BY <1>1, <1>2 DEF Group!There, Group!Alive, Group!Ours
<1>4. GroupTypeInv'
  <2>1. proc' \in [Members -> Process]
    BY <1>1 DEF GroupInv, GroupTypeInv, Process
  <2> QED BY <1>1, <1>2, <2>1 DEF GroupInv, GroupTypeInv
<1>5. \A q \in Members : proc'[q].pid = proc[q].pid
  BY <1>2
<1>6. NumberInv'
  <2>1. Group!Leader \in Members /\ Group!There \subseteq Members
    BY DEF GroupInv, GroupTypeInv, Group!There
  <2> QED BY <1>3, <1>5, <2>1 DEF GroupInv, NumberInv
<1>7. FoundInv'
  BY <1>3 DEF GroupInv, FoundInv, Group!Reaped
<1>8. ScanInv'
  <2>1. \A q \in deadBefore : proc'[q].state \in {"zombie", "gone"}
    BY <1>2 DEF GroupInv, GroupTypeInv, ScanInv
  <2>2. Group!Alive \subseteq Members
    BY DEF Group!Alive, Group!There
  <2> QED BY <1>3, <1>5, <2>1, <2>2 DEF GroupInv, ScanInv
<1>9. Group!NoSurvivor' /\ Group!StrangersAreSafe'
  BY <1>3 DEF GroupInv, Group!NoSurvivor, Group!StrangersAreSafe
<1> QED BY <1>4, <1>6, <1>7, <1>8, <1>9 DEF GroupInv

\* What kill_group does leaves the processes alone, and what is true of them.
LEMMA KillGroupStep ==
  ASSUME GroupInv, Group!KillGroup
  PROVE  GroupInv'
<1> DEFINE Same == UNCHANGED <<Group!There, Group!Alive, Group!Ours, Group!Reaped>>
<1>1. UNCHANGED <<kernel, proc, births>> /\ Same
  BY DEF Group!KillGroup, Group!SignalGroup, Group!StartScans, Group!CheckLeader,
       Group!CountBirths, Group!Look, Group!Open, Group!Opened, Group!EndScan, Group!Decide,
       Group!Outside, Group!There, Group!Alive, Group!Ours, Group!Reaped
<1>2. NumberInv'
  BY <1>1 DEF GroupInv, NumberInv
<1>3. Group!Alive \subseteq Members /\ Group!Alive \subseteq Group!There
  BY DEF Group!Alive, Group!There
<1> USE DEF GroupInv
<1>4. CASE Group!SignalGroup
  BY <1>1, <1>2, <1>3, <1>4 DEF Group!SignalGroup, Group!Outside, Group!Goto, Group!scan,
       GroupTypeInv, FoundInv, ScanInv, Group!NoSurvivor, Group!StrangersAreSafe
<1>5. CASE Group!StartScans
  BY <1>1, <1>2, <1>5 DEF Group!StartScans, Group!Goto, GroupTypeInv,
     FoundInv, ScanInv, Group!NoSurvivor, Group!StrangersAreSafe
<1>6. CASE Group!CheckLeader
  <2>1. CASE Group!Outside
    BY <1>1, <1>2, <2>1 DEF Group!Outside, Group!Goto, Group!scan, GroupTypeInv,
       FoundInv, ScanInv, Group!NoSurvivor, Group!StrangersAreSafe
  <2>2. CASE ~Group!Outside
    <3>1. /\ groupAt' = "count" /\ deadBefore' = (previous \cap Group!There) \ Group!Alive
          /\ members' = {} /\ UNCHANGED <<killed, counted>>
      BY <1>6, <2>2 DEF Group!CheckLeader, Group!Goto
    <3>2. \A p \in deadBefore' : p \in Members /\ proc[p].state = "zombie"
      BY <3>1 DEF Group!There, Group!Alive
    <3> QED BY <1>1, <1>2, <3>1, <3>2 DEF GroupTypeInv, FoundInv, ScanInv, Group!NoSurvivor,
               Group!StrangersAreSafe
  <2> QED BY <2>1, <2>2
<1>7. CASE Group!CountBirths
  <2>1. \A p \in Group!Alive : proc[p].pid \in Numbers
    BY <1>3 DEF GroupTypeInv, Group!There
  <2> QED BY <1>1, <1>2, <1>7, <2>1 DEF Group!CountBirths, Group!Goto, GroupTypeInv,
             FoundInv, ScanInv, Group!NoSurvivor, Group!StrangersAreSafe
<1>8. CASE Group!Look
  <2> DEFINE n == CHOOSE m \in left : \A k \in left : m <= k
  <2>1. /\ groupAt = "walk" /\ left' = left \ {n}
        /\ UNCHANGED <<killed, members, deadBefore, counted>>
        /\ complete' => complete
    BY <1>8 DEF Group!Look
  <2>2. CASE \E p \in Group!WithPid(n) : Group!Member(p) /\ listed' = p /\ groupAt' = "open"
    <3>1. PICK p \in Group!WithPid(n) : Group!Member(p) /\ listed' = p /\ groupAt' = "open"
      BY <2>2
    <3>2. p \in Group!There /\ p \in Members /\ proc[p].pid = n
      BY DEF Group!WithPid, Group!There
    <3>3. p \notin Group!Ours => Group!Reaped
      BY <3>1, <3>2 DEF Group!Member, Group!Reaped, NumberInv, FoundInv
    <3>4. \A q \in Group!Alive : proc[q].pid = n => q = p
      BY <1>3, <3>2 DEF NumberInv
    <3> QED BY <1>1, <1>2, <2>1, <3>1, <3>2, <3>3, <3>4 DEF GroupTypeInv, FoundInv, ScanInv,
               Group!NoSurvivor, Group!StrangersAreSafe
  <2>3. CASE /\ groupAt' = "walk"
             /\ \A q \in Group!Alive \cap Group!Ours : proc[q].pid # n
    BY <1>1, <1>2, <2>1, <2>3 DEF GroupTypeInv, FoundInv, ScanInv, Group!NoSurvivor,
       Group!StrangersAreSafe
  <2>4. CASE \E p \in Group!WithPid(n) : ~Group!Member(p) /\ groupAt' = "walk"
    <3>1. PICK p \in Group!WithPid(n) : ~Group!Member(p) /\ groupAt' = "walk"
      BY <2>4
    <3>2. p \in Group!There /\ proc[p].pid = n /\ p \notin Group!Ours
      BY <3>1 DEF Group!WithPid, Group!Member
    <3>3. \A q \in Group!Alive : proc[q].pid = n => q = p
      BY <1>3, <3>2 DEF NumberInv
    <3> QED BY <2>3, <3>1, <3>2, <3>3
  <2>5. CASE Group!WithPid(n) = {} /\ groupAt' = "walk"
    BY <1>3, <2>3, <2>5 DEF Group!WithPid
  <2> QED BY <1>8, <2>2, <2>4, <2>5 DEF Group!Look, Group!Goto
<1>9. CASE Group!Open
  <2>1. /\ groupAt = "open" /\ groupAt' = "walk" /\ listed \in Members
        /\ UNCHANGED <<killed, deadBefore, left, counted>>
    BY <1>9 DEF Group!Open, Group!Opened, Group!Goto, GroupTypeInv
  <2>2. CASE Group!WithPid(proc[listed].pid) = {listed}
    <3>1. members' = members \cup {listed} /\ UNCHANGED complete
      BY <1>9, <2>2 DEF Group!Open, Group!Opened
    <3> QED BY <1>1, <1>2, <2>1, <3>1 DEF GroupTypeInv, FoundInv, ScanInv, Group!NoSurvivor,
               Group!StrangersAreSafe
  <2>3. CASE Group!WithPid(proc[listed].pid) # {listed}
    <3>1. ~complete' /\ UNCHANGED members
      BY <1>9, <2>3 DEF Group!Open, Group!Opened
    <3> QED BY <1>1, <1>2, <2>1, <3>1 DEF GroupTypeInv, FoundInv, ScanInv, Group!NoSurvivor,
               Group!StrangersAreSafe
  <2> QED BY <2>2, <2>3
<1>10. CASE Group!EndScan
  <2>1. /\ groupAt = "walk" /\ left = {} /\ complete' = (complete /\ births = counted)
        /\ UNCHANGED <<killed, members, deadBefore, counted>>
        /\ groupAt' = IF Group!Reaped THEN "outside" ELSE "decide"
    BY <1>10 DEF Group!EndScan, Group!Goto
  <2>2. complete' => Group!Alive \cap Group!Ours \subseteq members
    BY <2>1 DEF ScanInv
  <2>3. deadBefore \cap Group!Alive = {}
    BY DEF ScanInv, Group!Alive
  <2> QED BY <1>1, <1>2, <2>1, <2>2, <2>3 DEF GroupTypeInv, FoundInv, ScanInv, Group!NoSurvivor,
             Group!StrangersAreSafe
<1>11. CASE Group!Decide
  <2>1. /\ groupAt = "decide" /\ members' = {} /\ deadBefore' = {}
        /\ UNCHANGED <<complete, counted>> /\ groupAt' \in {"signalled", "check", "idle"}
        /\ groupAt' = "signalled" => complete /\ members \subseteq deadBefore
        /\ killed' \subseteq killed \cup members
    BY <1>11 DEF Group!Decide, Group!Goto
  <2> QED BY <1>1, <1>2, <2>1 DEF GroupTypeInv, FoundInv, ScanInv, Group!NoSurvivor,
             Group!StrangersAreSafe
<1> QED BY <1>4, <1>5, <1>6, <1>7, <1>8, <1>9, <1>10, <1>11 DEF Group!KillGroup

\* Every step keeps the invariant.
LEMMA GroupStep == GroupInv /\ [Group!Next]_(Group!vars) => GroupInv'
<1> SUFFICES ASSUME GroupInv, [Group!Next]_(Group!vars) PROVE GroupInv'
  OBVIOUS
<1>1. CASE Group!Machine
  <2>1. GroupTypeInv
    BY DEF GroupInv
  <2>2. \A p \in Group!Alive : p \in Group!There
    BY DEF Group!Alive
  <2> QED BY <1>1, <2>1, <2>2, MachineCases, BirthStep, DeathStep
<1>2. CASE Group!KillGroup
  BY <1>2, KillGroupStep
<1>3. CASE UNCHANGED Group!vars
  <2>1. UNCHANGED <<kernel, proc, killed, groupAt, previous, members, deadBefore, complete, left,
                    listed, births, counted>>
    BY <1>3 DEF Group!vars, Group!scan
  <2> QED BY <2>1 DEF GroupInv, GroupTypeInv, NumberInv, FoundInv, ScanInv, Group!NoSurvivor,
             Group!StrangersAreSafe, Group!There, Group!Alive, Group!Ours, Group!Reaped
<1> QED BY <1>1, <1>2, <1>3 DEF Group!Next

\* kill_group says that a group is gone only when it is, whatever was born, died or
\* was reaped while it looked, and signals nobody else's process, for any number of
\* processes and of pids (processes.kill_group, _kill_members).
THEOREM GroupSafe == EdgesSpec => []GroupIsGone
<1>1. Group!Spec => []GroupInv
  BY GroupStart, GroupStep, PTL DEF Group!Spec
<1>2. GroupInv => GroupIsGone
  BY DEF GroupInv, GroupIsGone
<1> QED BY <1>1, <1>2, GroupSteps, PTL

-----------------------------------------------------------------------------
(* The files a model is loaded from (HeldPayload).                         *)

\* A stamp's lag and a hash fit within RACY_SECONDS, and no write brings an earlier
\* content back.
Conditions ==
  /\ Racy \in Nat /\ Lag \in Nat /\ MaxHash \in Nat /\ Lag + MaxHash <= Racy
  /\ Files \subseteq Nat \ {0}
  /\ Payload!None \notin Payload!Contents
  /\ ~Restores

NoHash == [file |-> 0]
Hashes == [file : Files, ctime : Nat, then : {"gate", "hold", "start", "loaded", "decoded"},
           began : Nat, digest : Payload!Contents \cup {Payload!None}]
Entries == [file : Files, ctime : Nat, digest : Payload!Contents]
Checked == {"start", "loading", "loaded", "decode", "decoded", "deliver", "checking"}

PayloadTypeInv ==
  /\ clock \in Nat /\ content \in [Files -> Payload!Contents] /\ ctime \in [Files -> Nat]
  /\ past \in [Files -> SUBSET Payload!Contents] /\ path \in Files
  /\ cache \subseteq Entries
  /\ hash \in Hashes \cup {NoHash}
  /\ at \in {"gate", "gating", "hold", "holding", "refused"} \cup Checked
  /\ at \in Checked \cup {"holding"} => held \in Files /\ snap \in Nat /\ taken \in Nat

PastInv == \A f \in Files : content[f] \in past[f]

\* A digest is remembered when its stamp is too old for another write.
CacheInv ==
  \A e \in cache : /\ e.ctime + Racy < clock
                   /\ e.ctime = ctime[e.file] => e.digest = content[e.file]

\* A digest is of the file's present bytes, or the stamp changed, or it is one
\* that a write since the first stat may share.
HashInv ==
  hash.file # 0 =>
    /\ hash.began <= clock /\ clock <= hash.began + MaxHash
    /\ hash.digest # Payload!None =>
         /\ hash.digest \in past[hash.file]
         /\ ctime[hash.file] = hash.ctime =>
              hash.digest = content[hash.file] \/ hash.ctime + Lag >= hash.began

\* Which digest the turn waits for.
PlaceInv ==
  /\ hash.file # 0 =>
       \/ hash.then = "gate" /\ at = "gating"
       \/ /\ hash.then = "hold" /\ at = "holding"
          /\ hash.file = held /\ snap = hash.ctime /\ taken = hash.began
       \/ hash.then \in {"start", "loaded", "decoded"} /\ at = "checking" /\ hash.file = held
  /\ at = "checking" => hash.file # 0

\* A settled snapshot that has not changed vouches for the bytes.
SnapInv ==
  at \in Checked =>
    /\ Agreed \in past[held] /\ taken <= clock
    /\ ctime[held] = snap /\ Payload!Settled => content[held] = Agreed

\* Once the child loaded other bytes, the held file can never again be hashed
\* to what was agreed to.
LoadInv ==
  /\ at \in {"loaded", "decode", "decoded", "deliver"} \/
       (at = "checking" /\ hash.then \in {"loaded", "decoded"}) =>
         (loaded # Agreed => content[held] # Agreed)
  /\ at = "checking" /\ hash.then \in {"loaded", "decoded"} /\ hash.digest = Agreed =>
       loaded = Agreed
  /\ at \in {"decode", "decoded", "deliver"} => loaded = Agreed

PayloadInv ==
  PayloadTypeInv /\ PastInv /\ CacheInv /\ HashInv /\ PlaceInv /\ SnapInv /\ LoadInv

\* A stamp of a write is at most Lag behind the clock.
LEMMA StampsLag ==
  ASSUME Conditions, PayloadTypeInv, NEW f \in Files, NEW t \in Payload!Stamps(f)
  PROVE  t \in Nat /\ t + Lag >= clock /\ t >= ctime[f]
  BY DEF Conditions, PayloadTypeInv, Payload!Stamps

\* What the cache answers is the file's content.
LEMMA CacheAnswers ==
  ASSUME PayloadInv, NEW f \in Files, Payload!Cached(f) # {}
  PROVE  (CHOOSE e \in Payload!Cached(f) : TRUE).digest = content[f]
<1> DEFINE e == CHOOSE d \in Payload!Cached(f) : TRUE
<1>1. e \in Payload!Cached(f)
  OBVIOUS
<1>2. e.digest = content[f]
  BY <1>1 DEF Payload!Cached, PayloadInv, CacheInv
<1> QED BY <1>2

\* It holds at first.
LEMMA PayloadStart == Conditions /\ Payload!Init => PayloadInv
<1> SUFFICES ASSUME Conditions, Payload!Init PROVE PayloadInv
  OBVIOUS
<1>1. PayloadTypeInv /\ PastInv
  BY DEF Conditions, Payload!Init, PayloadTypeInv, PastInv, Payload!Contents, NoHash, Checked
<1>2. CacheInv /\ HashInv /\ PlaceInv /\ SnapInv /\ LoadInv
  BY DEF Payload!Init, CacheInv, HashInv, PlaceInv, SnapInv, LoadInv, Checked
<1> QED BY <1>1, <1>2 DEF PayloadInv

\* The world: a tick, a write and a change of the path.
LEMMA WorldInv ==
  ASSUME Conditions, PayloadInv, Payload!World
  PROVE  PayloadInv'
<1> USE DEF PayloadInv
<1>0. UNCHANGED <<cache, hash, at, held, snap, taken, loaded>>
  BY DEF Payload!World, Payload!turn
<1>1. CASE Payload!Tick
  <2>1. clock' = clock + 1 /\ UNCHANGED <<content, ctime, past, path>>
    BY <1>1 DEF Payload!Tick
  <2>2. PayloadTypeInv' /\ PastInv' /\ PlaceInv' /\ LoadInv'
    BY <1>0, <2>1 DEF PayloadTypeInv, PastInv, PlaceInv, LoadInv
  <2>3. CacheInv'
    BY <1>0, <2>1 DEF Conditions, PayloadTypeInv, CacheInv, Entries
  <2>4. HashInv'
    BY <1>0, <1>1, <2>1 DEF Conditions, Payload!Tick, PayloadTypeInv, HashInv, Hashes, NoHash
  <2>5. SnapInv'
    BY <1>0, <2>1 DEF PayloadTypeInv, SnapInv, Payload!Settled, Checked
  <2> QED BY <2>2, <2>3, <2>4, <2>5
<1>2. CASE Payload!Replace
  BY <1>0, <1>2 DEF Payload!Replace, PayloadTypeInv, PastInv, CacheInv, HashInv, PlaceInv,
                    SnapInv, Payload!Settled,
                    LoadInv
<1>3. ASSUME NEW f \in Files, Payload!Write(f) PROVE PayloadInv'
  <2>1. PICK c \in Payload!Contents, t \in Payload!Stamps(f) :
          /\ c = content[f] \/ c \notin past[f]
          /\ content' = [content EXCEPT ![f] = c]
          /\ past' = [past EXCEPT ![f] = @ \cup {c}]
          /\ ctime' = [ctime EXCEPT ![f] = t]
    BY <1>3 DEF Payload!Write, Conditions
  <2>2. t \in Nat /\ t + Lag >= clock
    BY StampsLag
  <2>3. clock' = clock /\ path' = path
    BY <1>3 DEF Payload!Write
  <2>4. PayloadTypeInv'
    BY <1>0, <2>1, <2>2, <2>3 DEF PayloadTypeInv
  <2>5. PastInv'
    BY <2>1 DEF PayloadTypeInv, PastInv
  <2>6. CacheInv'
    <3> SUFFICES ASSUME NEW e \in cache
                 PROVE  e.ctime + Racy < clock /\
                        (e.ctime = ctime'[e.file] => e.digest = content'[e.file])
      BY <1>0, <2>3 DEF CacheInv
    <3>1. e \in Entries /\ e.ctime + Racy < clock
          /\ (e.ctime = ctime[e.file] => e.digest = content[e.file])
      BY DEF PayloadTypeInv, CacheInv
    <3>2. t # e.ctime
      BY <2>2, <3>1 DEF Conditions, Entries, PayloadTypeInv
    <3> QED BY <2>1, <3>1, <3>2 DEF PayloadTypeInv, Entries
  <2>7. HashInv'
    <3> SUFFICES ASSUME hash.file # 0 PROVE HashInv'
      BY <1>0 DEF HashInv
    <3>1. hash \in Hashes
      BY DEF PayloadTypeInv, NoHash
    <3>2. hash.began <= clock' /\ clock' <= hash.began + MaxHash
      BY <2>3 DEF HashInv
    <3>3. hash.digest # Payload!None => hash.digest \in past'[hash.file]
      BY <2>1, <3>1 DEF HashInv, PayloadTypeInv, Hashes
    <3>4. CASE hash.file = f
      BY <1>0, <2>1, <2>2, <3>1, <3>2, <3>3, <3>4
      DEF Conditions, HashInv, PayloadTypeInv, Hashes
    <3>5. CASE hash.file # f
      BY <1>0, <2>1, <3>1, <3>2, <3>3, <3>5 DEF HashInv, PayloadTypeInv, Hashes
    <3> QED BY <3>4, <3>5
  <2>8. PlaceInv'
    BY <1>0 DEF PlaceInv
  <2>9. SnapInv'
    <3> SUFFICES ASSUME at \in Checked PROVE SnapInv'
      BY <1>0 DEF SnapInv
    <3>1. Agreed \in past'[held] /\ taken <= clock'
      BY <2>1, <2>3 DEF SnapInv, PayloadTypeInv
    <3>2. CASE held = f
      BY <1>0, <2>1, <2>2, <3>1, <3>2 DEF Conditions, SnapInv, Payload!Settled, PayloadTypeInv
    <3>3. CASE held # f
      BY <1>0, <2>1, <3>1, <3>3 DEF SnapInv, Payload!Settled, PayloadTypeInv
    <3> QED BY <3>2, <3>3
  <2>10. LoadInv'
    BY <1>0, <2>1 DEF LoadInv, SnapInv, PayloadTypeInv, Checked
  <2> QED BY <2>4, <2>5, <2>6, <2>7, <2>8, <2>9, <2>10
<1> QED BY <1>1, <1>2, <1>3 DEF Payload!World

\* The record fields that HashBegin sets, and what a digest it got from the
\* cache says.
LEMMA Begun ==
  ASSUME Conditions, PayloadInv, NEW f \in Files,
         NEW then \in {"gate", "hold", "start", "loaded", "decoded"}, Payload!HashBegin(f, then)
  PROVE  /\ hash.file = 0
         /\ hash' \in Hashes
         /\ hash'.file = f /\ hash'.ctime = ctime[f] /\ hash'.then = then /\ hash'.began = clock
         /\ hash'.digest # Payload!None => hash'.digest = content[f] /\ content[f] \in past[f]
<1> DEFINE d == IF Payload!Cached(f) = {} THEN Payload!None
                ELSE (CHOOSE e \in Payload!Cached(f) : TRUE).digest
<1>1. d # Payload!None => d = content[f]
  BY CacheAnswers
<1>2. content[f] \in Payload!Contents /\ content[f] \in past[f] /\ clock \in Nat /\ ctime[f] \in Nat
  BY DEF PayloadInv, PayloadTypeInv, PastInv
<1>3. hash.file = 0 /\ hash' = [file |-> f, ctime |-> ctime[f], then |-> then, began |-> clock,
                               digest |-> d]
  BY DEF Payload!HashBegin
<1>4. d \in Payload!Contents \cup {Payload!None}
  BY <1>1, <1>2
<1> HIDE DEF d
<1> QED BY <1>1, <1>2, <1>3, <1>4 DEF Hashes

\* What HashEnd leaves behind, and that what it remembers is true.
LEMMA Digested ==
  ASSUME Conditions, PayloadInv, NEW then, NEW d \in Payload!Contents, Payload!HashEnd(then, d),
         UNCHANGED Payload!files
  PROVE  /\ hash \in Hashes /\ hash.then = then /\ hash.digest = d
         /\ hash' = NoHash
         /\ cache' \subseteq Entries /\ CacheInv'
<1>1. hash \in Hashes /\ hash.file # 0 /\ hash.then = then /\ hash.digest = d /\ hash' = NoHash
  BY DEF Payload!HashEnd, PayloadInv, PayloadTypeInv, NoHash
<1>2. CASE ~Payload!Remembers(hash.file, hash.ctime)
  BY <1>1, <1>2 DEF Payload!HashEnd, PayloadInv, PayloadTypeInv, CacheInv, Payload!files
<1>3. CASE Payload!Remembers(hash.file, hash.ctime)
  <2> DEFINE new == [file |-> hash.file, ctime |-> hash.ctime, digest |-> d]
  <2>1. cache' = cache \cup {new}
    BY <1>3 DEF Payload!HashEnd
  <2>2. new \in Entries /\ hash.ctime + Racy < clock /\ ctime[hash.file] = hash.ctime
    BY <1>1, <1>3 DEF Entries, Hashes, Payload!Remembers, Conditions, PayloadInv, PayloadTypeInv
  <2>3. d = content[hash.file]
    <3>1. hash.began \in Nat /\ clock \in Nat /\ clock <= hash.began + MaxHash
      BY <1>1 DEF PayloadInv, PayloadTypeInv, HashInv, Hashes
    <3>2. d = content[hash.file] \/ hash.ctime + Lag >= hash.began
      BY <1>1, <2>2 DEF PayloadInv, HashInv, Conditions
    <3>3. hash.ctime \in Nat
      BY <1>1 DEF Hashes
    <3> QED BY <2>2, <3>1, <3>2, <3>3 DEF Conditions
  <2> QED BY <1>1, <2>1, <2>2, <2>3 DEF PayloadInv, PayloadTypeInv, CacheInv, Payload!files
<1> QED BY <1>1, <1>2, <1>3

\* A file's bytes are read.
LEMMA HashReadInv ==
  ASSUME Conditions, PayloadInv, Payload!HashRead
  PROVE  PayloadInv'
<1> USE DEF PayloadInv
<1>1. hash \in Hashes /\ hash.file \in Files /\ content[hash.file] \in Payload!Contents
  BY DEF Payload!HashRead, PayloadTypeInv, Hashes, NoHash
<1>2. /\ hash' \in Hashes /\ hash'.digest = content[hash.file] /\ hash'.file = hash.file
      /\ hash'.ctime = hash.ctime /\ hash'.then = hash.then /\ hash'.began = hash.began
  BY <1>1 DEF Payload!HashRead, Hashes
<1>3. UNCHANGED <<Payload!files, Payload!turn, cache>>
  BY DEF Payload!HashRead
<1>4. PayloadTypeInv' /\ PastInv' /\ CacheInv' /\ SnapInv'
  BY <1>2, <1>3 DEF PayloadTypeInv, PastInv, CacheInv, SnapInv, Payload!Settled, Payload!files,
                    Payload!turn
<1>5. HashInv'
  BY <1>1, <1>2, <1>3 DEF Payload!HashRead, HashInv, PastInv, Conditions, Payload!files,
                          Payload!turn
<1>6. PlaceInv'
  BY <1>2, <1>3 DEF Payload!HashRead, PlaceInv, Payload!files, Payload!turn
<1>7. LoadInv'
  BY <1>2, <1>3 DEF Payload!HashRead, LoadInv, PlaceInv, Payload!files, Payload!turn
<1> QED BY <1>4, <1>5, <1>6, <1>7

\* The gate's digest says nothing of what is held later.
LEMMA GateInv ==
  ASSUME Conditions, PayloadInv, Payload!Gate \/ Payload!GateEnds
  PROVE  PayloadInv'
<1> USE DEF PayloadInv
<1>1. CASE Payload!Gate
  <2>1. /\ UNCHANGED <<Payload!files, cache, held, snap, taken, loaded>>
        /\ at = "gate" /\ at' = "gating"
    BY <1>1 DEF Payload!Gate
  <2>2. path \in Files /\ Payload!HashBegin(path, "gate")
    BY <1>1 DEF Payload!Gate, PayloadTypeInv
  <2>3. /\ hash' \in Hashes /\ hash'.file = path /\ hash'.ctime = ctime[path]
        /\ hash'.then = "gate" /\ hash'.began = clock
        /\ hash'.digest # Payload!None =>
             hash'.digest = content[path] /\ content[path] \in past[path]
    BY <2>2, Begun
  <2>4. PayloadTypeInv' /\ PastInv' /\ CacheInv'
    BY <2>1, <2>3 DEF PayloadTypeInv, PastInv, CacheInv, Checked, Payload!files
  <2>5. HashInv'
    BY <2>1, <2>3 DEF HashInv, PayloadTypeInv, Conditions, Payload!files
  <2>6. PlaceInv' /\ SnapInv' /\ LoadInv'
    BY <2>1, <2>3 DEF PlaceInv, SnapInv, LoadInv, Checked
  <2> QED BY <2>4, <2>5, <2>6
<1>2. CASE Payload!GateEnds
  <2>1. PICK d \in Payload!Contents :
          Payload!HashEnd("gate", d) /\ at' = IF d = Agreed THEN "hold" ELSE "refused"
    BY <1>2 DEF Payload!GateEnds
  <2>2. UNCHANGED Payload!files /\ UNCHANGED <<held, snap, taken, loaded>>
    BY <1>2 DEF Payload!GateEnds
  <2>3. hash' = NoHash /\ cache' \subseteq Entries /\ CacheInv'
    BY <2>1, <2>2, Digested
  <2>4. PayloadTypeInv' /\ PastInv'
    BY <2>1, <2>2, <2>3 DEF PayloadTypeInv, PastInv, Checked, Payload!files
  <2>5. HashInv' /\ PlaceInv' /\ SnapInv' /\ LoadInv'
    BY <2>1, <2>3 DEF HashInv, PlaceInv, SnapInv, LoadInv, NoHash, Checked
  <2> QED BY <2>3, <2>4, <2>5
<1> QED BY <1>1, <1>2

\* The recogniser holds what the gate granted.
LEMMA HoldInv ==
  ASSUME Conditions, PayloadInv, Payload!Hold \/ Payload!HoldEnds
  PROVE  PayloadInv'
<1> USE DEF PayloadInv
<1>1. CASE Payload!Hold
  <2>1. /\ UNCHANGED <<Payload!files, cache, loaded>> /\ at' = "holding"
        /\ held' = path /\ taken' = clock /\ snap' = ctime[path]
    BY <1>1 DEF Payload!Hold
  <2>2. path \in Files /\ Payload!HashBegin(path, "hold")
    BY <1>1 DEF Payload!Hold, PayloadTypeInv
  <2>3. /\ hash' \in Hashes /\ hash'.file = path /\ hash'.ctime = ctime[path]
        /\ hash'.then = "hold" /\ hash'.began = clock
        /\ hash'.digest # Payload!None =>
             hash'.digest = content[path] /\ content[path] \in past[path]
    BY <2>2, Begun
  <2>4. PayloadTypeInv' /\ PastInv' /\ CacheInv'
    BY <2>1, <2>2, <2>3 DEF PayloadTypeInv, PastInv, CacheInv, Checked, Payload!files
  <2>5. HashInv'
    BY <2>1, <2>3 DEF HashInv, PayloadTypeInv, Conditions, Payload!files
  <2>6. PlaceInv' /\ SnapInv' /\ LoadInv'
    BY <2>1, <2>3 DEF PlaceInv, SnapInv, LoadInv, Checked
  <2> QED BY <2>4, <2>5, <2>6
<1>2. CASE Payload!HoldEnds
  <2>1. PICK d \in Payload!Contents :
          Payload!HashEnd("hold", d) /\ at' = IF d = Agreed THEN "start" ELSE "refused"
    BY <1>2 DEF Payload!HoldEnds
  <2>2. UNCHANGED Payload!files /\ UNCHANGED <<held, snap, taken, loaded>>
    BY <1>2 DEF Payload!HoldEnds
  <2>3. /\ hash \in Hashes /\ hash.then = "hold" /\ hash.digest = d
        /\ hash' = NoHash /\ cache' \subseteq Entries /\ CacheInv'
    BY <2>1, <2>2, Digested
  <2>4. at = "holding" /\ hash.file = held /\ snap = hash.ctime /\ taken = hash.began
    BY <2>3 DEF PlaceInv, Hashes, Conditions
  <2>5. PayloadTypeInv' /\ PastInv'
    BY <2>1, <2>2, <2>3, <2>4 DEF PayloadTypeInv, PastInv, Checked, Payload!files
  <2>6. HashInv' /\ PlaceInv' /\ LoadInv'
    BY <2>1, <2>3 DEF HashInv, PlaceInv, LoadInv, NoHash
  <2>7. SnapInv'
    <3> SUFFICES ASSUME d = Agreed PROVE SnapInv'
      BY <2>1 DEF SnapInv, Checked
    <3>1. hash.file # 0 /\ d # Payload!None
      BY <2>3 DEF Hashes, Conditions
    <3>2. Agreed \in past[held] /\ taken <= clock
          /\ (ctime[held] = snap => Agreed = content[held] \/ snap + Lag >= taken)
      BY <2>3, <2>4, <3>1 DEF HashInv
    <3>3. snap \in Nat /\ taken \in Nat /\ Lag <= Racy
      BY <2>4 DEF PayloadTypeInv, Conditions
    <3> QED BY <2>2, <3>2, <3>3 DEF SnapInv, Payload!Settled, Payload!files, Conditions
  <2> QED BY <2>3, <2>5, <2>6, <2>7
<1> QED BY <1>1, <1>2

\* Where a turn goes that passes.
LEMMA PassesTo ==
  /\ DOMAIN Payload!Passes = {"start", "loaded", "decoded"}
  /\ Payload!Passes["start"] = "loading" /\ Payload!Passes["loaded"] = "decode"
  /\ Payload!Passes["decoded"] = "deliver"
  BY DEF Payload!Passes

\* A check that believes the stat, or asks for a digest.
LEMMA CheckInv ==
  ASSUME Conditions, PayloadInv, Payload!Check
  PROVE  PayloadInv'
<1> USE DEF PayloadInv
<1>1. at \in {"start", "loaded", "decoded"} /\ UNCHANGED <<Payload!files, cache, held, loaded>>
  BY PassesTo DEF Payload!Check
<1>2. hash.file = 0 /\ held \in Files /\ snap \in Nat /\ taken \in Nat
  BY <1>1 DEF PlaceInv, PayloadTypeInv, Checked
<1>3. CASE ctime[held] = snap /\ Payload!Settled
  <2>1. at' = Payload!Passes[at] /\ UNCHANGED <<hash, snap, taken>>
    BY <1>3 DEF Payload!Check
  <2>2. \/ at = "start" /\ at' = "loading"
        \/ at = "loaded" /\ at' = "decode"
        \/ at = "decoded" /\ at' = "deliver"
    BY <1>1, <2>1, PassesTo
  <2>3. PayloadTypeInv' /\ PastInv' /\ CacheInv' /\ HashInv'
    BY <1>1, <1>2, <2>1, <2>2 DEF PayloadTypeInv, PastInv, CacheInv, HashInv, Checked, Payload!files
  <2>4. PlaceInv' /\ SnapInv'
    BY <1>1, <1>2, <2>1, <2>2 DEF PlaceInv, SnapInv, Payload!Settled, Checked, Payload!files
  <2>5. content[held] = Agreed
    BY <1>1, <1>3 DEF SnapInv, Checked
  <2>6. LoadInv'
    BY <1>1, <2>2, <2>5 DEF LoadInv, Payload!files
  <2> QED BY <2>3, <2>4, <2>6
<1>4. CASE ~(ctime[held] = snap /\ Payload!Settled)
  <2>1. Payload!HashBegin(held, at) /\ at' = "checking" /\ UNCHANGED <<snap, taken>>
    BY <1>4 DEF Payload!Check
  <2>2. /\ hash' \in Hashes /\ hash'.file = held /\ hash'.ctime = ctime[held]
        /\ hash'.then = at /\ hash'.began = clock
        /\ hash'.digest # Payload!None =>
             hash'.digest = content[held] /\ content[held] \in past[held]
    BY <1>1, <1>2, <2>1, Begun
  <2>3. PayloadTypeInv' /\ PastInv' /\ CacheInv'
    BY <1>1, <1>2, <2>1, <2>2 DEF PayloadTypeInv, PastInv, CacheInv, Checked, Payload!files
  <2>4. HashInv'
    BY <1>1, <2>2 DEF HashInv, PayloadTypeInv, Conditions, Payload!files
  <2>5. PlaceInv' /\ SnapInv'
    BY <1>1, <1>2, <2>1, <2>2 DEF PlaceInv, SnapInv, Payload!Settled, Checked, Hashes, Conditions,
                                  Payload!files
  <2>6. Agreed # Payload!None
    BY DEF Conditions, Payload!Contents
  <2>7. LoadInv'
    BY <1>1, <2>1, <2>2, <2>6 DEF LoadInv, Payload!files
  <2> QED BY <2>3, <2>4, <2>5, <2>7
<1> QED BY <1>3, <1>4

\* A check that took a digest.
LEMMA CheckEndsInv ==
  ASSUME Conditions, PayloadInv, Payload!CheckEnds
  PROVE  PayloadInv'
<1> USE DEF PayloadInv
<1>1. PICK d \in Payload!Contents, before \in {"start", "loaded", "decoded"} :
        /\ Payload!HashEnd(before, d)
        /\ IF d = Agreed
           THEN at' = Payload!Passes[before] /\ snap' = hash.ctime /\ taken' = hash.began
           ELSE at' = "refused" /\ UNCHANGED <<snap, taken>>
  BY PassesTo DEF Payload!CheckEnds
<1>2. UNCHANGED Payload!files /\ UNCHANGED <<held, loaded>> /\ at = "checking"
  BY DEF Payload!CheckEnds
<1>3. /\ hash \in Hashes /\ hash.then = before /\ hash.digest = d
      /\ hash' = NoHash /\ cache' \subseteq Entries /\ CacheInv'
  BY <1>1, <1>2, Digested
<1>4. hash.file = held /\ hash.file # 0 /\ d # Payload!None /\ held \in Files
  BY <1>2, <1>3 DEF PlaceInv, Hashes, Conditions, PayloadTypeInv, Checked
<1>5. HashInv' /\ PastInv'
  BY <1>2, <1>3 DEF HashInv, PastInv, NoHash, Payload!files
<1>6. CASE d = Agreed
  <2>1. /\ snap' = hash.ctime /\ taken' = hash.began
        /\ \/ before = "start" /\ at' = "loading"
           \/ before = "loaded" /\ at' = "decode"
           \/ before = "decoded" /\ at' = "deliver"
    BY <1>1, <1>6, PassesTo
  <2>2. PayloadTypeInv'
    BY <1>2, <1>3, <1>4, <2>1 DEF PayloadTypeInv, Hashes, Checked, Payload!files
  <2>3. PlaceInv' /\ LoadInv'
    BY <1>2, <1>3, <1>6, <2>1 DEF PlaceInv, LoadInv, NoHash
  <2>4. SnapInv'
    <3>1. Agreed \in past[held] /\ hash.began <= clock
          /\ (ctime[held] = hash.ctime =>
                Agreed = content[held] \/ hash.ctime + Lag >= hash.began)
      BY <1>3, <1>4, <1>6 DEF HashInv
    <3>2. hash.ctime \in Nat /\ hash.began \in Nat /\ Lag <= Racy
      BY <1>3 DEF Hashes, Conditions
    <3> QED BY <1>2, <2>1, <3>1, <3>2 DEF SnapInv, Payload!Settled, Payload!files, Conditions
  <2> QED BY <1>3, <1>5, <2>2, <2>3, <2>4
<1>7. CASE d # Agreed
  <2>1. at' = "refused"
    BY <1>1, <1>7
  <2>2. PayloadTypeInv' /\ PlaceInv' /\ SnapInv' /\ LoadInv'
    BY <1>2, <1>3, <2>1 DEF PayloadTypeInv, PlaceInv, SnapInv, LoadInv, Checked, NoHash,
                            Payload!files
  <2> QED BY <1>3, <1>5, <2>2
<1> QED BY <1>6, <1>7

\* The child loads, decodes and delivers.
LEMMA ChildReadInv ==
  ASSUME Conditions, PayloadInv, Payload!Load \/ Payload!Decode \/ Payload!Deliver
  PROVE  PayloadInv'
<1> USE DEF PayloadInv
<1>1. /\ UNCHANGED <<Payload!files, cache, hash, held, snap, taken>>
      /\ \/ at = "loading" /\ loaded' = content[held] /\ at' = "loaded"
         \/ at = "decode" /\ at' = "decoded" /\ loaded' = loaded
         \/ at = "deliver" /\ at' = "decode" /\ loaded' = loaded
  BY DEF Payload!Load, Payload!Decode, Payload!Deliver
<1>2. PayloadTypeInv' /\ PastInv' /\ CacheInv' /\ HashInv'
  BY <1>1 DEF PayloadTypeInv, PastInv, CacheInv, HashInv, Checked, Payload!files
<1>3. PlaceInv' /\ SnapInv'
  BY <1>1 DEF PlaceInv, SnapInv, Payload!Settled, Checked, Payload!files
<1>4. LoadInv'
  BY <1>1 DEF LoadInv, Payload!files
<1> QED BY <1>2, <1>3, <1>4

\* Every step of the turn and of the world keeps it.
LEMMA PayloadStep ==
  ASSUME Conditions
  PROVE  PayloadInv /\ [Payload!Next]_(Payload!vars) => PayloadInv'
<1> SUFFICES ASSUME PayloadInv, [Payload!Next]_(Payload!vars) PROVE PayloadInv'
  OBVIOUS
<1>1. CASE UNCHANGED Payload!vars
  BY <1>1 DEF Payload!vars, Payload!files, Payload!turn, PayloadInv, PayloadTypeInv, PastInv,
              CacheInv, HashInv, PlaceInv, SnapInv,
              Payload!Settled, LoadInv
<1> QED
  BY <1>1, WorldInv, HashReadInv, GateInv, HoldInv, CheckInv, CheckEndsInv, ChildReadInv
     DEF Payload!Next

\* The composition takes only steps of the payload.
LEMMA PayloadSteps == EdgesSpec => Payload!Init /\ [][Payload!Next]_(Payload!vars)
<1>1. EdgesInit => Payload!Init
  BY DEF EdgesInit
<1>2. [EdgesNext]_edgesVars => [Payload!Next]_(Payload!vars)
  BY DEF EdgesNext, edgesVars, payloadVars, Payload!vars, Payload!files, Payload!turn
<1> QED BY <1>1, <1>2, PTL DEF EdgesSpec

\* A remembered digest is that of the bytes, and what is delivered was made by
\* the bytes consent was given for: whoever writes the files and replaces the
\* path, at any step, between the gate, the hold, the load and the decode, as long
\* as a stamp's lag and a hash's time fit within RACY_SECONDS and no write brings an
\* earlier content back.
THEOREM AgreedBytes ==
  ASSUME Conditions
  PROVE  EdgesSpec => []LoadsTheAgreed
<1>1. PayloadInv => LoadsTheAgreed
  BY DEF PayloadInv, CacheInv, LoadInv, LoadsTheAgreed, Payload!CacheIsTrue, Payload!Cached,
         Payload!LoadsTheAgreed
<1> QED BY <1>1, PayloadStart, PayloadStep, PayloadSteps, PTL

-----------------------------------------------------------------------------
(* Requests, replies and datagrams (Wire).                                 *)

Elements(s) == {s[i] : i \in DOMAIN s}

\* What two sequences hold one after the other.
LEMMA Concatenated ==
  ASSUME NEW S, NEW s \in Seq(S), NEW r \in Seq(S)
  PROVE  s \o r \in Seq(S) /\ Elements(s \o r) = Elements(s) \cup Elements(r)
<1>1. s \o r \in Seq(S) /\ Len(s \o r) = Len(s) + Len(r)
  OBVIOUS
<1>2. \A i \in 1..Len(s) : (s \o r)[i] = s[i]
  OBVIOUS
<1>3. \A i \in 1..Len(r) : (s \o r)[Len(s) + i] = r[i]
  OBVIOUS
<1>4. ASSUME NEW i \in 1..(Len(s) + Len(r))
      PROVE  (s \o r)[i] \in Elements(s) \cup Elements(r)
  <2>1. CASE i \in 1..Len(s)
    BY <1>2, <2>1 DEF Elements
  <2>2. CASE i \notin 1..Len(s)
    <3>1. i - Len(s) \in 1..Len(r) /\ Len(s) + (i - Len(s)) = i
      BY <2>2
    <3> QED BY <1>3, <3>1 DEF Elements
  <2> QED BY <2>1, <2>2
<1>5. ASSUME NEW i \in 1..Len(s) PROVE s[i] \in Elements(s \o r)
  BY <1>1, <1>2 DEF Elements
<1>6. ASSUME NEW i \in 1..Len(r) PROVE r[i] \in Elements(s \o r)
  <2>1. Len(s) + i \in 1..(Len(s) + Len(r))
    OBVIOUS
  <2> QED BY <1>1, <1>3, <2>1 DEF Elements
<1>7. DOMAIN s = 1..Len(s) /\ DOMAIN r = 1..Len(r) /\ DOMAIN (s \o r) = 1..(Len(s) + Len(r))
  BY <1>1
<1> QED BY <1>1, <1>4, <1>5, <1>6, <1>7 DEF Elements

AllFields ==
  {"owner", "id", "v", "deadline_ms", "text", "model", "voice", "rate", "chunk_sock", "sock",
   "sample_format", "container", "channels", "sample_rate", "duration_limit_ms", "byte_limit",
   "mode", "job", "utterance", "volume", "brief", "turn", "hold", "silence_ms"}

\* The fields of an op hold those it requires, and those an owned dictation
\* fills in.
LEMMA FieldsHold ==
  ASSUME NEW op \in Protocol!Ops
  PROVE  /\ Protocol!Fields(op) \in Seq(AllFields)
         /\ Protocol!Required(op) \subseteq Elements(Protocol!Fields(op)) \ {"brief"}
         /\ op = "owned-dictate" => {"hold", "silence_ms"} \subseteq Elements(Protocol!Fields(op))
<1> DEFINE base == Protocol!BaseOp(op)
           own == IF op \in Protocol!OwnedOps THEN <<"owner">> ELSE <<>>
           tail == CASE base = "speak" -> <<"text", "model", "voice", "rate", "chunk_sock">>
                     [] base = "dictate" -> <<"sock">>
                     [] base = "ingest-audio" ->
                          <<"sample_format", "container", "channels", "sample_rate",
                            "duration_limit_ms", "byte_limit">>
                     [] base = "stop-dictation" -> <<"sock", "mode">>
                     [] base = "status" -> <<"job">>
                     [] OTHER -> <<>>
           more == CASE op = "owned-speak" -> <<"utterance", "volume", "brief">>
                     [] op = "owned-status" -> <<"utterance">>
                     [] op = "owned-stop" -> <<"turn">>
                     [] op = "owned-volume" -> <<"turn", "volume">>
                     [] op = "owned-dictate" -> <<"hold", "silence_ms">>
                     [] OTHER -> <<>>
           first == <<"id", "v", "deadline_ms">>
<1>1. Protocol!Fields(op) = own \o (first \o tail) \o more
  BY DEF Protocol!Fields, Protocol!BaseFields
<1>2. own \in Seq(AllFields) /\ (op \in Protocol!OwnedOps => "owner" \in Elements(own))
  <2>1. <<"owner">> \in Seq(AllFields) /\ "owner" \in Elements(<<"owner">>)
    BY DEF Elements, AllFields
  <2>2. <<>> \in Seq(AllFields)
    OBVIOUS
  <2> QED BY <2>1, <2>2
<1>3. /\ tail \in Seq(AllFields)
      /\ base = "speak" => "text" \in Elements(tail)
      /\ base = "dictate" => "sock" \in Elements(tail)
  <2>1. CASE base = "speak"
    <3>1. tail = <<"text", "model", "voice", "rate", "chunk_sock">>
      BY <2>1
    <3>2. <<"text", "model", "voice", "rate", "chunk_sock">> \in Seq(AllFields)
          /\ "text" \in Elements(<<"text", "model", "voice", "rate", "chunk_sock">>)
      BY DEF Elements, AllFields
    <3> QED BY <2>1, <3>1, <3>2
  <2>2. CASE base = "dictate"
    <3>1. tail = <<"sock">>
      BY <2>2
    <3>2. <<"sock">> \in Seq(AllFields) /\ "sock" \in Elements(<<"sock">>)
      BY DEF Elements, AllFields
    <3> QED BY <2>2, <3>1, <3>2
  <2>3. CASE base = "ingest-audio"
    <3>1. tail = <<"sample_format", "container", "channels", "sample_rate", "duration_limit_ms",
                   "byte_limit">>
      BY <2>3
    <3>2. <<"sample_format", "container", "channels", "sample_rate", "duration_limit_ms",
            "byte_limit">>
            \in Seq(AllFields)
      BY DEF AllFields
    <3> QED BY <2>3, <3>1, <3>2
  <2>4. CASE base = "stop-dictation"
    <3>1. tail = <<"sock", "mode">>
      BY <2>4
    <3>2. <<"sock", "mode">>
            \in Seq(AllFields)
      BY DEF AllFields
    <3> QED BY <2>4, <3>1, <3>2
  <2>5. CASE base = "status"
    <3>1. tail = <<"job">>
      BY <2>5
    <3>2. <<"job">>
            \in Seq(AllFields)
      BY DEF AllFields
    <3> QED BY <2>5, <3>1, <3>2
  <2>6. CASE base \notin {"speak", "dictate", "ingest-audio", "stop-dictation", "status"}
    <3>1. tail = <<>>
      BY <2>6
    <3> QED BY <2>6, <3>1
  <2> QED BY <2>1, <2>2, <2>3, <2>4, <2>5, <2>6
<1>4. /\ more \in Seq(AllFields)
      /\ op \in {"owned-speak", "owned-status"} => "utterance" \in Elements(more)
      /\ op \in {"owned-stop", "owned-volume"} => "turn" \in Elements(more)
      /\ op = "owned-volume" => "volume" \in Elements(more)
      /\ op = "owned-dictate" => {"hold", "silence_ms"} \subseteq Elements(more)
  <2>1. CASE op = "owned-speak"
    <3>1. more = <<"utterance", "volume", "brief">>
      BY <2>1
    <3>2. <<"utterance", "volume", "brief">> \in Seq(AllFields)
          /\ "utterance" \in Elements(<<"utterance", "volume", "brief">>)
      BY DEF Elements, AllFields
    <3> QED BY <2>1, <3>1, <3>2
  <2>2. CASE op = "owned-status"
    <3>1. more = <<"utterance">>
      BY <2>2
    <3>2. <<"utterance">> \in Seq(AllFields) /\ "utterance" \in Elements(<<"utterance">>)
      BY DEF Elements, AllFields
    <3> QED BY <2>2, <3>1, <3>2
  <2>3. CASE op = "owned-stop"
    <3>1. more = <<"turn">>
      BY <2>3
    <3>2. <<"turn">> \in Seq(AllFields) /\ "turn" \in Elements(<<"turn">>)
      BY DEF Elements, AllFields
    <3> QED BY <2>3, <3>1, <3>2
  <2>4. CASE op = "owned-volume"
    <3>1. more = <<"turn", "volume">>
      BY <2>4
    <3>2. <<"turn", "volume">> \in Seq(AllFields)
          /\ {"turn", "volume"} \subseteq Elements(<<"turn", "volume">>)
      BY DEF Elements, AllFields
    <3> QED BY <2>4, <3>1, <3>2
  <2>5. CASE op = "owned-dictate"
    <3>1. more = <<"hold", "silence_ms">>
      BY <2>5
    <3>2. <<"hold", "silence_ms">> \in Seq(AllFields)
          /\ {"hold", "silence_ms"} \subseteq Elements(<<"hold", "silence_ms">>)
      BY DEF Elements, AllFields
    <3> QED BY <2>5, <3>1, <3>2
  <2>6. CASE op \notin {"owned-speak", "owned-status", "owned-stop", "owned-volume",
                        "owned-dictate"}
    <3>1. more = <<>>
      BY <2>6
    <3> QED BY <2>6, <3>1
  <2> QED BY <2>1, <2>2, <2>3, <2>4, <2>5, <2>6
<1>5. first \in Seq(AllFields)
  BY DEF AllFields
<1> HIDE DEF own, tail, more, first, base
<1>6. /\ Protocol!Fields(op) \in Seq(AllFields)
      /\ Elements(own) \cup Elements(tail) \cup Elements(more) \subseteq
           Elements(Protocol!Fields(op))
  <2> DEFINE used == first \o tail
             owned == own \o used
  <2>1. used \in Seq(AllFields) /\ Elements(tail) \subseteq Elements(used)
    BY <1>3, <1>5, Concatenated
  <2> HIDE DEF used
  <2>2. owned \in Seq(AllFields) /\ Elements(own) \cup Elements(used) \subseteq Elements(owned)
    BY <1>2, <2>1, Concatenated
  <2> HIDE DEF owned
  <2>3. owned \o more \in Seq(AllFields)
        /\ Elements(owned) \cup Elements(more) \subseteq Elements(owned \o more)
    BY <1>4, <2>2, Concatenated
  <2> QED BY <1>1, <2>1, <2>2, <2>3 DEF used, owned
<1> QED BY <1>2, <1>3, <1>4, <1>6 DEF Protocol!Required, base
  
\* What passes is closed; and audio that is too large is the first thing said.
Closed(m, r) ==
  IF r.code = "none"
  THEN /\ r.fields \subseteq Elements(Protocol!Fields(m.op))
       /\ Protocol!Required(m.op) \subseteq r.fields
       /\ \A f \in r.fields : m.value[f] \in {"good", "none"}
       /\ m.audio # "big"
  ELSE m.audio = "big" => r.code = "too-large"

\* Whatever was decoded, what is validated has checked fields only.
LEMMA ValidateCloses == ASSUME NEW m PROVE Closed(m, Protocol!Validate(m))
<1> DEFINE r == Protocol!Validate(m)
<1>1. CASE r.code # "none"
  BY <1>1 DEF Closed, Protocol!Validate, Protocol!Refused
<1>2. CASE r.code = "none"
  <2>1. /\ m.audio # "big" /\ m.op \in Protocol!Ops /\ Protocol!FirstRefusal(m) = "none"
        /\ r.fields = Protocol!Survivors(m, Protocol!Fields(m.op))
    BY <1>2 DEF Protocol!Validate, Protocol!Refused, Protocol!None
  <2> DEFINE fields == Protocol!Fields(m.op)
             accepted(f) == IF f \in Protocol!Required(m.op) THEN {"good"} ELSE {"good", "none"}
  <2>2. \A i \in DOMAIN fields : m.value[fields[i]] \in accepted(fields[i])
    BY <2>1 DEF Protocol!FirstRefusal, Protocol!None, Protocol!Good
  <2>3. \A f \in Elements(fields) : m.value[f] \in accepted(f)
    BY <2>2 DEF Elements
  <2> HIDE DEF fields
  <2>4. /\ Protocol!Required(m.op) \subseteq Elements(fields) \ {"brief"}
        /\ m.op = "owned-dictate" => {"hold", "silence_ms"} \subseteq Elements(fields)
    BY <2>1, FieldsHold DEF fields
  <2>5. r.fields = ({f \in Elements(fields) : m.value[f] = "good"} \ {"brief"})
                   \cup (IF m.op = "owned-dictate" THEN {"hold", "silence_ms"} ELSE {})
    BY <2>1 DEF Protocol!Survivors, Protocol!Good, fields, Elements
  <2> HIDE DEF r
  <2>6. r.fields \subseteq Elements(fields) /\ Protocol!Required(m.op) \subseteq r.fields
    BY <2>3, <2>4, <2>5
  <2>7. \A f \in r.fields : m.value[f] \in {"good", "none"}
    BY <2>3, <2>6
  <2> QED BY <1>2, <2>1, <2>6, <2>7 DEF Closed, fields, r
<1> QED BY <1>1, <1>2

\* A reply as the handlers and reply_error build it.
Reply(r) ==
  /\ r = [ok |-> r.ok, code |-> r.code, prose |-> r.prose, wide |-> r.wide, rest |-> r.rest,
          odd |-> r.odd]
  /\ r.ok \in BOOLEAN /\ r.odd \in BOOLEAN
  /\ r.prose \in Nat /\ r.wide \in 1..6 /\ r.rest \in Nat
  /\ ~r.ok => ~r.odd

\* A reply fits, and is the one that was asked for unless there is no room.
Fits(r, f) ==
  /\ f.size <= MaxReply
  /\ f.ok => f.whole /\ r.ok
  /\ ~r.ok /\ r.rest + 6 * (MaxProse \div 2 + Marker) + Skeleton <= MaxReply => f.code = r.code

\* What characters cost together is a number, and within six times a bound.
LEMMA BytesOf ==
  ASSUME NEW a \in Nat, NEW b \in Nat, a <= b, NEW w \in 1..6
  PROVE  a * w \in Nat /\ a * w <= 6 * b
<1>1. w \in {1, 2, 3, 4, 5, 6}
  OBVIOUS
<1>2. CASE w = 1 BY <1>2
<1>3. CASE w = 2 BY <1>3
<1>4. CASE w = 3 BY <1>4
<1>5. CASE w = 4 BY <1>5
<1>6. CASE w = 5 BY <1>6
<1>7. CASE w = 6 BY <1>7
<1> QED BY <1>1, <1>2, <1>3, <1>4, <1>5, <1>6, <1>7

\* What is sent of a reply is within the bound.
LEMMA EncodeFits == ASSUME NEW r, Reply(r) PROVE Fits(r, Protocol!EncodeReply(r))
<1> DEFINE most == MaxProse \div 2
           f == Protocol!EncodeReply(r)
           short == Protocol!Shortened(r, most)
           p == Protocol!Cut(r.prose, most)
<1>1. /\ MaxProse \in Nat /\ Marker \in Nat /\ Skeleton \in Nat /\ MaxReply \in Nat
      /\ Skeleton <= MaxReply
  BY EdgesAssumption
<1>2. most \in Nat
  BY <1>1
<1>3. /\ short.ok = r.ok /\ short.code = r.code /\ short.prose = p /\ short.wide = r.wide
      /\ short.rest = r.rest /\ short.odd = r.odd
  BY DEF Protocol!Shortened, Reply
<1>4. p \in Nat /\ p <= most + Marker
  BY <1>1, <1>2 DEF Protocol!Cut, Reply
<1>5. CASE Protocol!Encodes(r)
  <2>1. f = Protocol!Sends(r)
    BY <1>5 DEF Protocol!EncodeReply, Protocol!EncodesReply
  <2> QED BY <1>5, <2>1 DEF Protocol!Sends, Protocol!Encodes, Fits
<1>6. CASE ~Protocol!Encodes(r) /\ ~r.odd /\ ~r.ok /\ Protocol!Encodes(short)
  <2>1. f = [Protocol!Sends(short) EXCEPT !.whole = FALSE]
    BY <1>6 DEF Protocol!EncodeReply, Protocol!EncodesReply
  <2>2. f.size = Protocol!Bytes(short) /\ f.ok = r.ok /\ f.code = r.code
    BY <2>1, <1>3 DEF Protocol!Sends
  <2> QED BY <1>6, <2>2 DEF Protocol!Encodes, Fits
<1>7. CASE ~Protocol!Encodes(r) /\ ~(~r.odd /\ ~r.ok /\ Protocol!Encodes(short))
  <2>1. f = Protocol!Internal
    BY <1>7 DEF Protocol!EncodeReply, Protocol!EncodesReply
  <2>2. f.size = Skeleton /\ f.ok = FALSE
    BY <2>1 DEF Protocol!Internal
  <2>3. ASSUME ~r.ok, r.rest + 6 * (most + Marker) + Skeleton <= MaxReply PROVE FALSE
    <3>1. p * r.wide \in Nat /\ p * r.wide <= 6 * (most + Marker)
      BY <1>1, <1>2, <1>4, BytesOf DEF Reply
    <3>2. ~short.odd
      BY <1>3, <2>3 DEF Reply
    <3>3. Protocol!Bytes(short) = Skeleton + p * r.wide + r.rest
      BY <1>3 DEF Protocol!Bytes
    <3>4. Protocol!Bytes(short) <= MaxReply
      <4> HIDE DEF p, most
      <4> DEFINE b == p * r.wide
      <4>1. b \in Nat /\ b <= 6 * (most + Marker) /\ r.rest \in Nat
        BY <3>1 DEF Reply
      <4>2. Protocol!Bytes(short) = Skeleton + b + r.rest
        BY <3>3
      <4> HIDE DEF b
      <4> QED BY <1>1, <1>2, <2>3, <4>1, <4>2
    <3> QED BY <1>7, <2>3, <3>2, <3>4 DEF Protocol!Encodes, Reply
  <2> QED BY <1>1, <2>2, <2>3 DEF Fits
<1> QED BY <1>5, <1>6, <1>7

\* Words that each start after the last one ended do not overlap at all.
LEMMA WordsApart ==
  ASSUME NEW n \in Nat, NEW ws \in [1..n -> [start : Nat, end : Nat]], Protocol!Words(ws)
  PROVE  \A i, j \in DOMAIN ws : i < j => ws[i].end <= ws[j].start
<1> SUFFICES ASSUME NEW i \in 1..n PROVE \A j \in 1..n : i < j => ws[i].end <= ws[j].start
  OBVIOUS
<1> DEFINE Bad == {j \in 1..n : i < j /\ ~(ws[i].end <= ws[j].start)}
<1>1. SUFFICES ASSUME Bad # {} PROVE FALSE
  OBVIOUS
<1>2. PICK j \in Bad : \A k \in Bad : j <= k
  <2>1. Bad \subseteq Nat
    OBVIOUS
  <2> QED BY <1>1, <2>1, Least
<1>3. j \in 1..n /\ i < j /\ j - 1 \in 1..n /\ j > 1
  BY <1>2
<1>4. ws[j - 1].end <= ws[j].start
  BY <1>3 DEF Protocol!Words
<1>5. ws[j - 1].start <= ws[j - 1].end
  BY <1>3 DEF Protocol!Words
<1>6. /\ ws[i].end \in Nat /\ ws[j].start \in Nat
      /\ ws[j - 1].end \in Nat /\ ws[j - 1].start \in Nat
  BY <1>3
<1>7. CASE i = j - 1
  BY <1>2, <1>4, <1>7
<1>8. CASE i < j - 1
  <2>1. j - 1 \notin Bad
    BY <1>2, <1>3
  <2>2. ws[i].end <= ws[j - 1].start
    BY <1>3, <1>8, <2>1
  <2> QED BY <1>2, <1>4, <1>5, <1>6, <2>2
<1> QED BY <1>3, <1>7, <1>8

WireRequestInv ==
  /\ wireAt \in {"idle", "read", "message", "final", "chunk"} => request.code = "unread"
  /\ request.code # "unread" => Closed(msg, request)

WireReplyInv ==
  /\ wireAt \in {"reply", "sent"} => Reply(reply)
  /\ wireAt = "sent" => Fits(reply, frame)

WireInv == WireRequestInv /\ WireReplyInv /\ Protocol!DatagramsAreTrue

\* The invariant holds before any request.
LEMMA WireStart == Protocol!Init => WireInv
  BY DEF Protocol!Init, WireInv, WireRequestInv, WireReplyInv, Protocol!DatagramsAreTrue

\* What reply_error builds.
LEMMA Errors ==
  ASSUME NEW code, NEW prose \in ProseSizes \cup {1}, NEW wide \in CharSizes,
         NEW rest \in FieldSizes \cup {0}
  PROVE  Reply(Protocol!ReplyError(code, prose, wide, rest))
<1>1. Protocol!Cut(prose, MaxProse) \in Nat
  BY EdgesAssumption DEF Protocol!Cut
<1>2. wide \in 1..6 /\ rest \in Nat
  BY EdgesAssumption
<1> QED BY <1>1, <1>2 DEF Reply, Protocol!ReplyError

\* Every step keeps it.
LEMMA WireStep == WireInv /\ [Protocol!Next]_(Protocol!vars) => WireInv'
<1> SUFFICES ASSUME WireInv, [Protocol!Next]_(Protocol!vars) PROVE WireInv'
  OBVIOUS
<1> USE DEF WireInv, WireRequestInv, WireReplyInv, Protocol!DatagramsAreTrue
<1>1. CASE Protocol!Receive
  BY <1>1 DEF Protocol!Receive
<1>2. CASE Protocol!Decode
  <2>1. CASE Protocol!Decoded(raw) # Protocol!None
    <3>1. \E prose \in ProseSizes, wide \in CharSizes, rest \in FieldSizes :
            reply' = Protocol!ReplyError(Protocol!Decoded(raw), prose, wide, rest)
      BY <1>2, <2>1 DEF Protocol!Decode, Protocol!Refuse
    <3>2. Reply(reply')
      BY <3>1, Errors
    <3>3. wireAt = "read" /\ wireAt' = "reply" /\ UNCHANGED <<msg, request>>
      BY <1>2, <2>1 DEF Protocol!Decode, Protocol!Refuse
    <3> QED BY <3>2, <3>3
  <2>2. CASE Protocol!Decoded(raw) = Protocol!None
    <3>1. wireAt = "read" /\ wireAt' = "message" /\ UNCHANGED <<request, reply>>
      BY <1>2, <2>2 DEF Protocol!Decode
    <3> QED BY <3>1
  <2> QED BY <2>1, <2>2
<1>3. CASE Protocol!ValidateRequest
  <2>1. wireAt = "message" /\ request' = Protocol!Validate(msg) /\ UNCHANGED <<msg, frame>>
    BY <1>3 DEF Protocol!ValidateRequest
  <2>2. Closed(msg', request')
    BY <2>1, ValidateCloses
  <2>3. \/ wireAt' = "handle"
        \/ wireAt' = "reply" /\ \E wide \in CharSizes :
             reply' = Protocol!ReplyError(request'.code, 1, wide, 0)
    BY <1>3 DEF Protocol!ValidateRequest
  <2>4. wireAt' \in {"handle", "reply"} /\ (wireAt' = "reply" => Reply(reply'))
    BY <2>3, Errors
  <2> QED BY <2>2, <2>4
<1>4. CASE Protocol!Handle
  <2>1. wireAt = "handle" /\ wireAt' = "reply" /\ UNCHANGED <<msg, request, frame>>
    BY <1>4 DEF Protocol!Handle, Protocol!Refuse
  <2>2. CASE Protocol!Refuse("unavailable")
    <3>1. \E prose \in ProseSizes, wide \in CharSizes, rest \in FieldSizes :
            reply' = Protocol!ReplyError("unavailable", prose, wide, rest)
      BY <2>2 DEF Protocol!Refuse
    <3>2. Reply(reply')
      BY <3>1, Errors
    <3> QED BY <2>1, <3>2
  <2>3. CASE ~Protocol!Refuse("unavailable")
    <3>1. PICK rest \in FieldSizes, odd \in BOOLEAN :
            reply' = [ok |-> TRUE, code |-> "none", prose |-> 0, wide |-> 1, rest |-> rest,
                      odd |-> odd]
      BY <1>4, <2>3 DEF Protocol!Handle, Protocol!None
    <3>2. rest \in Nat
      BY EdgesAssumption
    <3>3. Reply(reply')
      BY <3>1, <3>2 DEF Reply
    <3> QED BY <2>1, <3>3
  <2> QED BY <2>2, <2>3
<1>5. CASE Protocol!Send
  <2>1. /\ wireAt = "reply" /\ wireAt' = "sent" /\ frame' = Protocol!EncodeReply(reply)
        /\ UNCHANGED <<msg, request, reply>>
    BY <1>5 DEF Protocol!Send
  <2>2. Reply(reply') /\ Fits(reply', frame')
    BY <2>1, EncodeFits
  <2> QED BY <2>1, <2>2
<1>6. CASE Protocol!EmitFinal
  <2>1. wireAt = "idle" /\ wireAt' = "final" /\ UNCHANGED <<msg, request, reply>>
    BY <1>6 DEF Protocol!EmitFinal
  <2>2. PICK n \in 0..3 : \E ws \in [1..n -> [start : Times, end : Times]] :
                            Protocol!Words(ws) /\ frame' = [words |-> ws]
    BY <1>6 DEF Protocol!EmitFinal, Protocol!Final
  <2>7. PICK ws \in [1..n -> [start : Times, end : Times]] :
          Protocol!Words(ws) /\ frame' = [words |-> ws]
    BY <2>2
  <2>3. ws \in [1..n -> [start : Nat, end : Nat]]
    BY EdgesAssumption
  <2>4. \A i, j \in DOMAIN ws : i < j => ws[i].end <= ws[j].start
    <3>1. n \in Nat /\ Protocol!Words(ws)
      BY <2>7
    <3> HIDE DEF WireInv, WireRequestInv, WireReplyInv, Protocol!DatagramsAreTrue
    <3> QED BY <2>3, <3>1, WordsApart
  <2>5. frame'.words = ws
    BY <2>7
  <2> QED BY <2>1, <2>4, <2>5
<1>7. CASE Protocol!EmitChunk
  <2>1. wireAt = "idle" /\ wireAt' = "chunk" /\ UNCHANGED <<msg, request, reply>>
    BY <1>7 DEF Protocol!EmitChunk
  <2>2. frame'.wav => frame'.length = frame'.pcm + Header
    BY <1>7 DEF Protocol!EmitChunk, Protocol!SynthesisChunk
  <2> QED BY <2>1, <2>2
<1>8. CASE UNCHANGED Protocol!vars
  BY <1>8 DEF Protocol!vars
<1> QED BY <1>1, <1>2, <1>3, <1>4, <1>5, <1>6, <1>7, <1>8 DEF Protocol!Next

\* So it does in the composition.
LEMMA WireSteps == EdgesSpec => []WireInv
<1>1. EdgesInit => WireInv
  BY WireStart DEF EdgesInit
<1>2. [EdgesNext]_edgesVars => [Protocol!Next]_(Protocol!vars)
  BY DEF EdgesNext, edgesVars, wireVars, Protocol!vars
<1> QED BY <1>1, <1>2, WireStep, PTL DEF EdgesSpec

\* Every reply fits the smallest buffer, a success is sent whole, and a refusal
\* keeps its code while there is room: for any limits of the protocol, however
\* long the prose and the fields, whatever a character costs.
THEOREM RepliesFit == EdgesSpec => []ReplyFits
<1>1. WireInv => ReplyFits
  BY DEF WireInv, WireReplyInv, Fits, ReplyFits, Protocol!ReplyFits
<1> QED BY <1>1, WireSteps, PTL

\* Of any request, a handler is given the fields its op uses, checked, and all
\* it requires; and no two words of a final overlap, however far apart.
THEOREM BuiltTrue == EdgesSpec => []BuiltIsTrue
<1>1. WireInv => BuiltIsTrue
  BY DEF WireInv, WireRequestInv, Closed, Elements, BuiltIsTrue, Protocol!RequestIsClosed,
         Protocol!None, Protocol!Good
<1> QED BY <1>1, WireSteps, PTL

-----------------------------------------------------------------------------
(* The audio the daemon reads for others (Ingest).                         *)

Asked == Descriptors!Requests
Places == {"away", "handoff", "begin", "start", "wait", "deliver", "finish", "done"}

IngestTypeInv ==
  /\ ingestAt \in [Asked -> Places]
  /\ source \in [Asked -> [kind : Descriptors!Kinds, size : Nat, written : BOOLEAN]]
  /\ helper \in [Asked -> {"none", "reading", "done"}]
  /\ got \in [Asked -> Nat] /\ result \in [Asked -> {"none", "data", "error"}]
  /\ abandoned \subseteq Asked /\ slots \subseteq Asked
  /\ fds \in [Asked -> SUBSET {"inbound", "own", "sealed"}]
  /\ answer \in [Asked -> {"none", "ok", "refused"}] /\ stalled \in Int

\* Where a request is says whether it is read, whether it holds a slot and what
\* is open for it.
Place(r) ==
  /\ ingestAt[r] \in {"away", "handoff", "begin", "start"} => helper[r] = "none"
  /\ ingestAt[r] = "deliver" => helper[r] = "done"
  /\ helper[r] = "reading" => ingestAt[r] = "wait" \/ r \in abandoned
  /\ ingestAt[r] = "wait" => helper[r] # "none"
  /\ r \in abandoned => ingestAt[r] \in {"finish", "done"}
  /\ ingestAt[r] \in {"begin", "start", "wait", "deliver"} => r \in slots
  /\ ingestAt[r] \in {"away", "handoff", "done"} => r \notin slots
  /\ fds[r] \subseteq (IF ingestAt[r] \in {"away", "done"} THEN {} ELSE {"inbound"})
                      \cup (IF helper[r] = "reading" THEN {"own"} ELSE {})
                      \cup (IF ingestAt[r] = "finish" /\ answer[r] = "ok" THEN {"sealed"} ELSE {})

LeftReading == {r \in abandoned : helper[r] = "reading"}
MayStall == {r \in Asked : ingestAt[r] \in {"start", "wait"}}

\* What may still be left reading was let in while there were few.
CountInv ==
  /\ Cardinality(slots) <= MaxInFlight
  /\ stalled = Cardinality(LeftReading)
  /\ stalled + Cardinality(MayStall) <= MaxStalled - 1 + MaxInFlight

IngestInv == IngestTypeInv /\ (\A r \in Asked : Place(r)) /\ CountInv

\* An instance has a cardinality of its own, which is the same.
LEMMA SameCardinality == ASSUME NEW S PROVE Descriptors!Cardinality(S) = Cardinality(S)
  BY DEF Cardinality, Descriptors!Cardinality

\* Sets of requests are finite.
LEMMA AskedFinite ==
  /\ IsFiniteSet(Asked)
  /\ \A S \in SUBSET Asked : IsFiniteSet(S) /\ Cardinality(S) \in Nat
<1>1. IsFiniteSet(1..N)
  BY EdgesAssumption, FS_Interval
<1> QED BY <1>1, FS_Subset, FS_CardinalityType DEF Asked, Descriptors!Requests

\* The invariant holds before any descriptor arrives.
LEMMA IngestStart == Descriptors!Init => IngestInv
<1> SUFFICES ASSUME Descriptors!Init PROVE IngestInv
  OBVIOUS
<1>1. IngestTypeInv /\ \A r \in Asked : Place(r)
  BY DEF Descriptors!Init, IngestTypeInv, Place, Asked, Places, Descriptors!Kinds
<1>2. LeftReading = {} /\ MayStall = {} /\ slots = {} /\ stalled = 0
  BY DEF Descriptors!Init, LeftReading, MayStall, Asked
<1>3. CountInv
  BY <1>2, FS_EmptySet, EdgesAssumption DEF CountInv
<1> QED BY <1>1, <1>3 DEF IngestInv

\* A step that moves nobody in or out of the two counts.
LEMMA SameCounts ==
  ASSUME IngestInv, UNCHANGED stalled, slots' \subseteq slots,
         LeftReading' = LeftReading, MayStall' \subseteq MayStall
  PROVE  CountInv'
<1>1. Cardinality(slots') <= Cardinality(slots) /\ Cardinality(MayStall') <= Cardinality(MayStall)
  BY AskedFinite, FS_Subset DEF IngestInv, IngestTypeInv, MayStall
<1>2. /\ Cardinality(slots') \in Nat /\ Cardinality(slots) \in Nat
      /\ Cardinality(MayStall') \in Nat /\ Cardinality(MayStall) \in Nat
  BY AskedFinite DEF IngestInv, IngestTypeInv, MayStall
<1> QED BY <1>1, <1>2, EdgesAssumption DEF IngestInv, IngestTypeInv, CountInv

\* What a request's own step leaves alone, and where it may go.
LEMMA AcceptInv ==
  ASSUME IngestInv, NEW r \in Asked, Descriptors!Accept(r)
  PROVE  IngestInv'
<1> USE DEF Descriptors!Goto, Descriptors!Opens
<1>1. IngestTypeInv'
  BY DEF IngestInv, IngestTypeInv, Descriptors!Accept, Descriptors!Kinds, Places
<1>2. \A o \in Asked : Place(o)'
  BY DEF IngestInv, IngestTypeInv, Place, Descriptors!Accept
<1>3. LeftReading' = LeftReading /\ MayStall' = MayStall
  BY DEF IngestInv, IngestTypeInv, LeftReading, MayStall, Descriptors!Accept
<1>4. CountInv'
  BY <1>3, SameCounts DEF Descriptors!Accept
<1> QED BY <1>1, <1>2, <1>4 DEF IngestInv

\* A descriptor is taken over, or refused.
LEMMA HandOffInv ==
  ASSUME IngestInv, NEW r \in Asked, Descriptors!HandOff(r)
  PROVE  IngestInv'
<1> USE DEF Descriptors!Goto, Descriptors!Answer, Descriptors!reading
<1>1. IngestTypeInv'
  BY DEF IngestInv, IngestTypeInv, Descriptors!HandOff, Places
<1>2. \A o \in Asked : Place(o)'
  BY DEF IngestInv, IngestTypeInv, Place, Descriptors!HandOff
<1>3. LeftReading' = LeftReading /\ MayStall' = MayStall /\ stalled' = stalled
  BY DEF IngestInv, IngestTypeInv, LeftReading, MayStall, Descriptors!HandOff
<1>4. CASE slots' = slots
  <2>1. CountInv'
    BY <1>3, <1>4, SameCounts
  <2> QED BY <1>1, <1>2, <2>1 DEF IngestInv
<1>5. CASE slots' # slots
  <2>1. slots' = slots \cup {r} /\ Cardinality(slots) < MaxInFlight
    <3> HIDE DEF Descriptors!Goto, Descriptors!Answer, Descriptors!reading
    <3>1. \/ UNCHANGED slots
          \/ Cardinality(slots) < MaxInFlight /\ slots' = slots \cup {r}
      BY SameCardinality DEF Descriptors!HandOff
    <3> QED BY <1>5, <3>1
  <2>2. IsFiniteSet(slots) /\ Cardinality(slots) \in Nat
    BY AskedFinite DEF IngestInv, IngestTypeInv
  <2>3. Cardinality(slots') <= Cardinality(slots) + 1 /\ Cardinality(slots') \in Nat
    BY <2>1, <2>2, FS_AddElement
  <2>4. Cardinality(slots') <= MaxInFlight
    BY <2>1, <2>2, <2>3, EdgesAssumption
  <2> QED BY <1>1, <1>2, <1>3, <2>4 DEF IngestInv, CountInv
<1> QED BY <1>4, <1>5

\* A reader begins.
LEMMA BeginInv ==
  ASSUME IngestInv, NEW r \in Asked, Descriptors!Begin(r)
  PROVE  IngestInv'
<1> USE DEF Descriptors!Goto, Descriptors!Answer, Descriptors!reading
<1>1. IngestTypeInv'
  BY DEF IngestInv, IngestTypeInv, Descriptors!Begin, Places
<1>2. \A o \in Asked : Place(o)'
  BY DEF IngestInv, IngestTypeInv, Place, Descriptors!Begin
<1>3. LeftReading' = LeftReading /\ stalled' = stalled /\ slots' = slots
  BY DEF IngestInv, IngestTypeInv, LeftReading, Descriptors!Begin
<1>4. CASE ingestAt'[r] = "finish"
  <2>1. MayStall' = MayStall
    BY <1>4 DEF IngestInv, IngestTypeInv, MayStall, Descriptors!Begin
  <2>2. CountInv'
    BY <1>3, <2>1, SameCounts
  <2> QED BY <1>1, <1>2, <2>2 DEF IngestInv
<1>5. CASE ingestAt'[r] # "finish"
  <2>1. stalled < MaxStalled
    BY <1>5 DEF IngestInv, IngestTypeInv, Descriptors!Begin
  <2>2. MayStall' \subseteq slots'
    BY <1>2 DEF MayStall, Place
  <2>3. /\ Cardinality(MayStall') <= Cardinality(slots') /\ Cardinality(MayStall') \in Nat
        /\ Cardinality(slots) \in Nat
    BY <1>1, <2>2, <1>3, AskedFinite, FS_Subset DEF IngestTypeInv
  <2>4. stalled \in Int /\ Cardinality(slots) <= MaxInFlight
    BY DEF IngestInv, IngestTypeInv, CountInv
  <2>5. stalled' + Cardinality(MayStall') <= MaxStalled - 1 + MaxInFlight
    BY <1>3, <2>1, <2>3, <2>4, EdgesAssumption
  <2> QED BY <1>1, <1>2, <1>3, <2>5 DEF IngestInv, CountInv
<1> QED BY <1>4, <1>5

\* A helper thread is started, or is not.
LEMMA StartHelperInv ==
  ASSUME IngestInv, NEW r \in Asked, Descriptors!StartHelper(r)
  PROVE  IngestInv'
<1> USE DEF Descriptors!Goto, Descriptors!Answer, Descriptors!Opens
<1>1. IngestTypeInv'
  <2>1. ingestAt' \in [Asked -> Places] /\ answer' \in [Asked -> {"none", "ok", "refused"}]
    BY DEF IngestInv, IngestTypeInv, Descriptors!StartHelper, Places
  <2>2. helper' \in [Asked -> {"none", "reading", "done"}]
    BY DEF IngestInv, IngestTypeInv, Descriptors!StartHelper
  <2>3. fds' \in [Asked -> SUBSET {"inbound", "own", "sealed"}]
    BY DEF IngestInv, IngestTypeInv, Descriptors!StartHelper
  <2> QED BY <2>1, <2>2, <2>3 DEF IngestInv, IngestTypeInv, Descriptors!StartHelper
<1>2. \A o \in Asked : Place(o)'
  BY DEF IngestInv, IngestTypeInv, Place, Descriptors!StartHelper
<1>3. LeftReading' = LeftReading
  <2>1. r \notin abandoned
    BY DEF IngestInv, Place, Descriptors!StartHelper
  <2> QED BY <2>1 DEF IngestInv, IngestTypeInv, LeftReading, Descriptors!StartHelper
<1>4. MayStall' \subseteq MayStall
  BY DEF IngestInv, IngestTypeInv, MayStall, Descriptors!StartHelper
<1>5. CountInv'
  BY <1>3, <1>4, SameCounts DEF Descriptors!StartHelper
<1> QED BY <1>1, <1>2, <1>5 DEF IngestInv

\* A reader stops waiting for its helper, or delivers.
LEMMA JoinedInv ==
  ASSUME IngestInv, NEW r \in Asked, Descriptors!Joined(r) \/ Descriptors!Deliver(r)
  PROVE  IngestInv'
<1> USE DEF Descriptors!Goto, Descriptors!Answer, Descriptors!Opens, Descriptors!reading,
            Descriptors!Joined, Descriptors!Deliver, Descriptors!Delivered
<1>1. IngestTypeInv'
  <2>1. CASE Descriptors!Joined(r)
    BY <2>1 DEF IngestInv, IngestTypeInv, Places
  <2>2. CASE Descriptors!Deliver(r)
    <3>1. PICK how \in {"ok", "refused"} : answer' = [answer EXCEPT ![r] = how]
      BY <2>2
    <3>2. \/ UNCHANGED fds
          \/ \E opened \in SUBSET {"sealed"} : fds' = [fds EXCEPT ![r] = @ \cup opened]
      BY <2>2
    <3>3. fds' \in [Asked -> SUBSET {"inbound", "own", "sealed"}]
      BY <3>2 DEF IngestInv, IngestTypeInv
    <3>4. answer' \in [Asked -> {"none", "ok", "refused"}]
      BY <3>1 DEF IngestInv, IngestTypeInv
    <3>5. ingestAt' = [ingestAt EXCEPT ![r] = "finish"]
      BY <2>2
    <3>6. UNCHANGED <<source, helper, got, result, abandoned, slots, stalled>>
      BY <2>2 DEF Descriptors!reading
    <3> QED BY <3>3, <3>4, <3>5, <3>6 DEF IngestInv, IngestTypeInv, Places
  <2> QED BY <2>1, <2>2
<1>2. \A o \in Asked : Place(o)'
  BY DEF IngestInv, IngestTypeInv, Place
<1>3. LeftReading' = LeftReading /\ MayStall' \subseteq MayStall
  BY DEF IngestInv, IngestTypeInv, LeftReading, MayStall
<1>4. CountInv'
  BY <1>3, SameCounts
<1> QED BY <1>1, <1>2, <1>4 DEF IngestInv

\* A timeout: the request leaves those that may stall for those that have.
LEMMA TimedOutInv ==
  ASSUME IngestInv, NEW r \in Asked, Descriptors!TimedOut(r)
  PROVE  IngestInv'
<1> USE DEF Descriptors!Goto, Descriptors!Answer, Descriptors!reading
<1>1. IngestTypeInv'
  BY DEF IngestInv, IngestTypeInv, Descriptors!TimedOut, Places
<1>2. \A o \in Asked : Place(o)'
  BY DEF IngestInv, IngestTypeInv, Place, Descriptors!TimedOut
<1>3. /\ r \notin abandoned /\ helper[r] = "reading" /\ ingestAt[r] = "wait"
      /\ UNCHANGED <<helper, slots>> /\ stalled' = stalled + 1
      /\ abandoned' = abandoned \cup {r} /\ ingestAt' = [ingestAt EXCEPT ![r] = "finish"]
  BY DEF IngestInv, IngestTypeInv, Place, Descriptors!TimedOut
<1>4. LeftReading' = LeftReading \cup {r} /\ r \notin LeftReading
  BY <1>3 DEF LeftReading
<1>5. MayStall' = MayStall \ {r} /\ r \in MayStall
  BY <1>3 DEF IngestInv, IngestTypeInv, MayStall
<1>6. /\ IsFiniteSet(LeftReading) /\ IsFiniteSet(MayStall)
      /\ Cardinality(LeftReading) \in Nat /\ Cardinality(MayStall) \in Nat
  BY AskedFinite DEF IngestInv, IngestTypeInv, LeftReading, MayStall
<1>7. Cardinality(LeftReading') = Cardinality(LeftReading) + 1
  BY <1>4, <1>6, FS_AddElement
<1>8. Cardinality(MayStall') = Cardinality(MayStall) - 1
  BY <1>5, <1>6, FS_RemoveElement
<1>9. CountInv'
  BY <1>3, <1>6, <1>7, <1>8, EdgesAssumption DEF IngestInv, IngestTypeInv, CountInv
<1> QED BY <1>1, <1>2, <1>9 DEF IngestInv

\* A helper ends, in time or late.
LEMMA FinishInv ==
  ASSUME IngestInv, NEW r \in Asked, Descriptors!Finish(r)
  PROVE  IngestInv'
<1> USE DEF Descriptors!Goto, Descriptors!Closes, Descriptors!reading
<1>1. IngestTypeInv'
  BY DEF IngestInv, IngestTypeInv, Descriptors!Finish, Places
<1>2. \A o \in Asked : Place(o)'
  BY DEF IngestInv, IngestTypeInv, Place, Descriptors!Finish
<1>3. LeftReading' = LeftReading /\ MayStall' = MayStall
  BY DEF IngestInv, IngestTypeInv, LeftReading, MayStall, Descriptors!Finish
<1>4. CountInv'
  BY <1>3, SameCounts DEF Descriptors!Finish
<1> QED BY <1>1, <1>2, <1>4 DEF IngestInv

\* The end of a read, which is taken from the count when it was left to itself.
LEMMA EndReadInv ==
  ASSUME IngestInv, NEW r \in Asked, NEW what \in {"data", "error"}, helper[r] = "reading",
         Descriptors!EndRead(r, what)
  PROVE  IngestInv'
<1> USE DEF Descriptors!EndRead, Descriptors!Closes
<1>1. IngestTypeInv'
  BY DEF IngestInv, IngestTypeInv
<1>2. \A o \in Asked : Place(o)'
  BY DEF IngestInv, IngestTypeInv, Place
<1>3. MayStall' = MayStall /\ slots' = slots
  BY DEF MayStall
<1>4. CASE r \notin abandoned
  <2>1. LeftReading' = LeftReading /\ stalled' = stalled
    BY <1>4 DEF IngestInv, IngestTypeInv, LeftReading
  <2>2. CountInv'
    BY <1>3, <2>1, SameCounts
  <2> QED BY <1>1, <1>2, <2>2 DEF IngestInv
<1>5. CASE r \in abandoned
  <2>1. LeftReading' = LeftReading \ {r} /\ r \in LeftReading /\ stalled' = stalled - 1
    BY <1>5 DEF IngestInv, IngestTypeInv, LeftReading
  <2>2. IsFiniteSet(LeftReading) /\ Cardinality(LeftReading) \in Nat /\ Cardinality(MayStall) \in Nat
    BY AskedFinite DEF IngestInv, IngestTypeInv, LeftReading, MayStall
  <2>3. Cardinality(LeftReading') = Cardinality(LeftReading) - 1
    BY <2>1, <2>2, FS_RemoveElement
  <2>4. CountInv'
    BY <1>3, <2>1, <2>2, <2>3, EdgesAssumption DEF IngestInv, IngestTypeInv, CountInv
  <2> QED BY <1>1, <1>2, <2>4 DEF IngestInv
<1> QED BY <1>4, <1>5

\* The least of three.
LEMMA ShortestOf ==
  ASSUME NEW a \in Int, NEW b \in Int, NEW c \in Int
  PROVE  LET n == Descriptors!Shortest({a, b, c}) IN n \in {a, b, c} /\ n \in Int
<1>1. \E n \in {a, b, c} : \A m \in {a, b, c} : n <= m
  <2>1. CASE a <= b /\ a <= c
    BY <2>1
  <2>2. CASE b <= a /\ b <= c
    BY <2>2
  <2>3. CASE c <= a /\ c <= b
    BY <2>3
  <2> QED BY <2>1, <2>2, <2>3
<1> QED BY <1>1 DEF Descriptors!Shortest

\* A read that gives nothing has got everything, within the limit.
LEMMA ReadBlockInv ==
  ASSUME IngestInv, NEW r \in Asked, Descriptors!ReadBlock(r)
  PROVE  /\ IngestInv'
         /\ \A o \in Asked : result[o] = "none" /\ result'[o] = "data" =>
                               got[o] = source[o].size /\ got[o] <= Limit
<1> DEFINE n == Descriptors!Shortest({Block, Limit + 1 - got[r], source[r].size - got[r]})
<1>1. got[r] \in Nat /\ source[r].size \in Nat /\ Block \in Nat \ {0} /\ Limit \in Nat
  BY EdgesAssumption DEF IngestInv, IngestTypeInv
<1>2. n \in {Block, Limit + 1 - got[r], source[r].size - got[r]} /\ n \in Int
  <2>1. Limit + 1 - got[r] \in Int /\ source[r].size - got[r] \in Int /\ Block \in Int
    BY <1>1
  <2> QED BY <2>1, ShortestOf
<1>3. helper[r] = "reading"
  BY DEF Descriptors!ReadBlock, Descriptors!Reads
<1>4. \/ /\ n > 0 /\ got' = [got EXCEPT ![r] = @ + n]
         /\ UNCHANGED <<ingestAt, source, helper, result, abandoned, fds, answer, slots, stalled>>
      \/ got[r] <= Limit /\ n = 0 /\ Descriptors!EndRead(r, "data")
      \/ Descriptors!EndRead(r, "error")
  BY DEF Descriptors!ReadBlock, Descriptors!Reads
<1> HIDE DEF n
<1>5. CASE n > 0 /\ got' = [got EXCEPT ![r] = @ + n] /\
           UNCHANGED <<ingestAt, source, helper, result, abandoned, fds, answer, slots, stalled>>
  <2>1. got[r] + n \in Nat
    BY <1>1, <1>2, <1>5
  <2>2. IngestTypeInv' /\ \A o \in Asked : Place(o)'
    BY <1>5, <2>1 DEF IngestInv, IngestTypeInv, Place
  <2>3. LeftReading' = LeftReading /\ MayStall' = MayStall
    BY <1>5 DEF LeftReading, MayStall
  <2>4. CountInv'
    BY <1>5, <2>3, SameCounts
  <2> QED BY <1>5, <2>2, <2>4 DEF IngestInv
<1>6. CASE got[r] <= Limit /\ n = 0 /\ Descriptors!EndRead(r, "data")
  <2>1. got[r] = source[r].size
    BY <1>1, <1>2, <1>6
  <2>2. \A o \in Asked : o # r => result'[o] = result[o]
    BY <1>6 DEF Descriptors!EndRead, IngestInv, IngestTypeInv
  <2>3. IngestInv'
    BY <1>3, <1>6, EndReadInv
  <2> QED BY <1>6, <2>1, <2>2, <2>3
<1>7. CASE Descriptors!EndRead(r, "error")
  <2>1. \A o \in Asked : result'[o] \in {result[o], "error"}
    BY <1>7 DEF Descriptors!EndRead, IngestInv, IngestTypeInv
  <2>2. IngestInv'
    BY <1>3, <1>7, EndReadInv
  <2> QED BY <2>1, <2>2
<1> QED BY <1>4, <1>5, <1>6, <1>7

\* The client writes, or closes its end.
LEMMA WriteInv ==
  ASSUME IngestInv, NEW r \in Asked, Descriptors!Write(r)
  PROVE  IngestInv'
<1>1. source' \in [Asked -> [kind : Descriptors!Kinds, size : Nat, written : BOOLEAN]]
  <2>1. source \in [Asked -> [kind : Descriptors!Kinds, size : Nat, written : BOOLEAN]]
    BY DEF IngestInv, IngestTypeInv
  <2>2. \/ source' = [source EXCEPT ![r].size = @ + 1]
        \/ source' = [source EXCEPT ![r].written = TRUE]
    BY DEF Descriptors!Write
  <2>3. CASE source' = [source EXCEPT ![r].size = @ + 1]
    BY <2>1, <2>3
  <2>4. CASE source' = [source EXCEPT ![r].written = TRUE]
    BY <2>1, <2>4
  <2> QED BY <2>2, <2>3, <2>4
<1>2. UNCHANGED <<ingestAt, helper, got, result, abandoned, fds, answer, slots, stalled>>
  BY DEF Descriptors!Write
<1>3. IngestTypeInv' /\ \A o \in Asked : Place(o)'
  BY <1>1, <1>2 DEF IngestInv, IngestTypeInv, Place
<1>4. LeftReading' = LeftReading /\ MayStall' = MayStall
  BY <1>2 DEF LeftReading, MayStall
<1>5. CountInv'
  BY <1>2, <1>4, SameCounts
<1> QED BY <1>3, <1>5 DEF IngestInv

Whole ==
  \A r \in Asked : result[r] = "none" /\ result'[r] = "data" =>
                     got[r] = source[r].size /\ got[r] <= Limit

\* Every step keeps the invariant.
LEMMA IngestStep ==
  IngestInv /\ [Descriptors!Next]_(Descriptors!vars) => IngestInv' /\ Whole
<1> SUFFICES ASSUME IngestInv, [Descriptors!Next]_(Descriptors!vars) PROVE IngestInv' /\ Whole
  OBVIOUS
<1>1. ASSUME NEW r \in Asked, Descriptors!Step(r) PROVE IngestInv' /\ Whole
  <2>1. UNCHANGED result
    BY <1>1 DEF Descriptors!Step, Descriptors!Accept, Descriptors!HandOff, Descriptors!Begin,
                Descriptors!StartHelper, Descriptors!Joined, Descriptors!TimedOut,
                Descriptors!Deliver, Descriptors!Delivered, Descriptors!Finish,
                Descriptors!reading
  <2>2. IngestInv'
    BY <1>1, AcceptInv, HandOffInv, BeginInv, StartHelperInv, JoinedInv, TimedOutInv, FinishInv
    DEF Descriptors!Step
  <2> QED BY <2>1, <2>2 DEF Whole
<1>2. ASSUME NEW r \in Asked, Descriptors!ReadFails(r) PROVE IngestInv' /\ Whole
  <2>1. helper[r] = "reading" /\ Descriptors!EndRead(r, "error")
    BY <1>2 DEF Descriptors!ReadFails
  <2>2. IngestInv'
    BY <2>1, EndReadInv
  <2>3. \A o \in Asked : result'[o] \in {result[o], "error"}
    BY <2>1 DEF Descriptors!EndRead, IngestInv, IngestTypeInv
  <2> QED BY <2>2, <2>3 DEF Whole
<1>3. ASSUME NEW r \in Asked, Descriptors!ReadBlock(r) PROVE IngestInv' /\ Whole
  BY <1>3, ReadBlockInv DEF Whole
<1>4. ASSUME NEW r \in Asked, Descriptors!Write(r) PROVE IngestInv' /\ Whole
  <2>1. UNCHANGED result
    BY <1>4 DEF Descriptors!Write
  <2> QED BY <1>4, <2>1, WriteInv DEF Whole
<1>5. CASE UNCHANGED Descriptors!vars
  <2>1. UNCHANGED <<ingestAt, source, helper, got, result, abandoned, fds, answer, slots, stalled>>
    BY <1>5 DEF Descriptors!vars
  <2>2. IngestInv'
    BY <2>1 DEF IngestInv, IngestTypeInv, Place, CountInv, LeftReading, MayStall
  <2> QED BY <2>1, <2>2 DEF Whole
<1> QED BY <1>1, <1>2, <1>3, <1>4, <1>5 DEF Descriptors!Next, Asked

\* The reads left to themselves are counted exactly and are few, a request that
\* is over leaves nothing behind, and a read is of everything or refused: for
\* any number of requests and slots, any limit, block and growing source.
THEOREM IngestAccounted == EdgesSpec => IngestIsAccounted
<1>1. EdgesInit => IngestInv
  BY IngestStart DEF EdgesInit
<1>2. [EdgesNext]_edgesVars => [Descriptors!Next]_(Descriptors!vars)
  BY DEF EdgesNext, edgesVars, ingestVars, Descriptors!vars
<1>3. IngestInv => Descriptors!StalledIsExact /\ Descriptors!NothingIsLeft
  <2> SUFFICES ASSUME IngestInv PROVE Descriptors!StalledIsExact /\ Descriptors!NothingIsLeft
    OBVIOUS
  <2>1. Cardinality(MayStall) \in Nat
    BY AskedFinite DEF MayStall
  <2>2. Descriptors!StalledIsExact
    <3>1. stalled = Cardinality(LeftReading) /\ stalled \in Int
          /\ stalled + Cardinality(MayStall) <= MaxStalled - 1 + MaxInFlight
      BY DEF IngestInv, IngestTypeInv, CountInv
    <3>2. stalled <= MaxStalled - 1 + MaxInFlight
      <4> DEFINE c == Cardinality(MayStall)
      <4> HIDE DEF c
      <4>1. c \in Nat /\ stalled + c <= MaxStalled - 1 + MaxInFlight
        BY <2>1, <3>1 DEF c
      <4> QED BY <3>1, <4>1, EdgesAssumption
    <3>3. stalled = Descriptors!Cardinality(LeftReading)
      BY <3>1, SameCardinality
    <3> QED BY <3>2, <3>3 DEF LeftReading, Descriptors!StalledIsExact
  <2>3. Descriptors!NothingIsLeft
    BY DEF IngestInv, Place, Asked, Descriptors!NothingIsLeft
  <2> QED BY <2>2, <2>3
<1>4. Whole => [Whole]_(Descriptors!vars)
  OBVIOUS
<1> QED BY <1>1, <1>2, <1>3, <1>4, IngestStep, PTL
        DEF EdgesSpec, IngestIsAccounted, Descriptors!WholeOrRefused, Whole, Asked

-----------------------------------------------------------------------------
(* The settings that several programs write (Settings).                    *)

\* The latest of some places of a document is one of them.
LEMMA LatestIs ==
  ASSUME NEW n \in Nat, NEW S \in SUBSET (0..n), S # {}
  PROVE  Shared!Latest(S) \in S /\ \A j \in S : j <= Shared!Latest(S)
<1>1. \E i \in S : \A j \in S : j <= i
  <2> DEFINE T == {i + 1 : i \in S}
  <2>1. T \subseteq 1..(n + 1) /\ T # {} /\ n + 1 \in Nat
    <3>1. \A i \in S : i \in 0..n
      OBVIOUS
    <3>2. \A i \in S : i + 1 \in 1..(n + 1)
      BY <3>1
    <3>3. T # {}
      <4>1. PICK i \in S : TRUE
        OBVIOUS
      <4>2. i + 1 \in T
        OBVIOUS
      <4> QED BY <4>2
    <3>4. T \subseteq 1..(n + 1)
      BY <3>2, Zenon
    <3>5. n + 1 \in Nat
      OBVIOUS
    <3> QED BY <3>3, <3>4, <3>5
  <2> HIDE DEF T
  <2>2. PICK k \in T : \A j \in T : j <= k
    BY <2>1, Greatest
  <2>3. PICK i \in S : k = i + 1
    BY DEF T
  <2>4. ASSUME NEW j \in S PROVE j <= i
    <3>1. j + 1 \in T /\ j \in 0..n /\ i \in 0..n
      BY DEF T
    <3>2. j + 1 <= i + 1
      BY <2>2, <2>3, <3>1
    <3> QED BY <3>1, <3>2
  <2> QED BY <2>4
<1> QED BY <1>1 DEF Shared!Latest

\* What an update puts into a document is lines.
LEMMA LinesAre ==
  /\ {Shared!Comment, Shared!Blank, Shared!SectionMarker} \subseteq Shared!Lines
  /\ \A key \in OwnKeys, value \in Values : Shared!Assigned(key, value) \in Shared!Lines
<1> USE DEF Shared!Lines, Shared!Assigned, Shared!Comment, Shared!Blank, Shared!SectionMarker,
            Shared!Line
<1>1. Shared!Comment \in Shared!Lines
  OBVIOUS
<1>2. Shared!Blank \in Shared!Lines
  OBVIOUS
<1>3. Shared!SectionMarker \in Shared!Lines
  OBVIOUS
<1>4. ASSUME NEW k \in OwnKeys, NEW v \in Values PROVE Shared!Assigned(k, v) \in Shared!Lines
  <2>1. {} \in SUBSET {"bytes", "return", "replaced", "hidden"}
    OBVIOUS
  <2> QED BY <2>1, Zenon
<1> QED BY <1>1, <1>2, <1>3, <1>4, Zenon

\* Without the blank lines at its end, a document is its lines up to one of them.
LEMMA TrimmedIs ==
  ASSUME NEW doc \in Seq(Shared!Lines)
  PROVE  \E n \in 0..Len(doc) :
           /\ Shared!Trimmed(doc) \in Seq(Shared!Lines) /\ Len(Shared!Trimmed(doc)) = n
           /\ DOMAIN Shared!Trimmed(doc) = 1..n
           /\ \A i \in 1..n : Shared!Trimmed(doc)[i] = doc[i]
           /\ \A i \in (n + 1)..Len(doc) : doc[i] = Shared!Blank
<1> DEFINE S == {0} \cup {i \in DOMAIN doc : doc[i] # Shared!Blank}
           n == Shared!Latest(S)
<1>1. S \subseteq 0..Len(doc) /\ S # {} /\ Len(doc) \in Nat
  OBVIOUS
<1>2. n \in S /\ \A j \in S : j <= n
  <2> HIDE DEF S
  <2> QED BY <1>1, LatestIs
<1>3. Shared!Trimmed(doc) = SubSeq(doc, 1, n)
  BY DEF Shared!Trimmed
<1> HIDE DEF n
<1>4. n \in 0..Len(doc)
  BY <1>1, <1>2
<1>5. \A i \in (n + 1)..Len(doc) : doc[i] = Shared!Blank
  BY <1>2, <1>4
<1> HIDE DEF S
<1>6. SubSeq(doc, 1, n) \in Seq(Shared!Lines) /\ Len(SubSeq(doc, 1, n)) = n
      /\ \A i \in 1..n : SubSeq(doc, 1, n)[i] = doc[i]
  BY <1>4
<1> QED BY <1>3, <1>4, <1>5, <1>6

\* A document gives the key the value, or holds an assignment that is not found.
Takes(doc, key, value) ==
  \/ Shared!Effective(doc, key) = value
  \/ Shared!Places(doc, key) # Shared!Editable(doc, key)

\* An assignment takes the place of the last one that is found.
LEMMA SetInPlace ==
  ASSUME NEW doc \in Seq(Shared!Lines), NEW key \in OwnKeys, NEW value \in Values,
         Shared!Editable(doc, key) # {}
  PROVE  LET made == Shared!SetValue(doc, key, value)
         IN  /\ made \in Seq(Shared!Lines) /\ Takes(made, key, value)
             /\ Shared!EditOf(doc, made, Shared!Assigned(key, value))
<1> DEFINE line == Shared!Assigned(key, value)
           hits == Shared!Editable(doc, key)
           last == Shared!Latest(hits)
           made == Shared!SetValue(doc, key, value)
<1>1. line \in Shared!Lines /\ line.key = key /\ line.value = value /\ line.spelt = {}
  BY LinesAre DEF Shared!Assigned, Shared!Line
<1>2. hits \subseteq 1..Len(doc) /\ Len(doc) \in Nat /\ \A i \in hits : doc[i].key = key
  BY DEF Shared!Editable, Shared!Places
<1>3. last \in hits
  <2>1. hits \subseteq 0..Len(doc)
    BY <1>2
  <2> HIDE DEF hits
  <2> QED BY <1>2, <2>1, LatestIs DEF hits
<1>4. made = [doc EXCEPT ![last] = line]
  BY DEF Shared!SetValue
<1> HIDE DEF line, last, made
<1>5. last \in 1..Len(doc) /\ doc[last].key = key
  BY <1>2, <1>3
<1>6. made \in Seq(Shared!Lines) /\ Len(made) = Len(doc) /\ DOMAIN made = 1..Len(doc)
      /\ DOMAIN doc = 1..Len(doc)
  BY <1>1, <1>4, <1>5
<1>7. made[last] = line /\ \A i \in 1..Len(doc) : i # last => made[i] = doc[i]
  BY <1>4, <1>5
<1>8. Takes(made, key, value)
  <2> SUFFICES ASSUME Shared!Places(made, key) = Shared!Editable(made, key)
               PROVE  Shared!Effective(made, key) = value
    BY DEF Takes
  <2>1. Shared!Editable(made, key) = hits
    <3>1. \A i \in 1..Len(doc) :
            made[i].key = key /\ "hidden" \notin made[i].spelt <=>
              doc[i].key = key /\ "hidden" \notin doc[i].spelt
      <4>1. doc[last].key = key /\ "hidden" \notin doc[last].spelt
        BY <1>3 DEF Shared!Editable, Shared!Places
      <4> QED BY <1>1, <1>7, <4>1
    <3> QED BY <1>6, <3>1 DEF Shared!Editable, Shared!Places
  <2>2. Shared!Effective(made, key) = made[last].value
    BY <1>3, <2>1 DEF Shared!Effective, last
  <2> QED BY <1>1, <1>7, <2>2
<1>9. Shared!EditOf(doc, made, line)
  <2>1. PICK n \in 0..Len(doc) :
           /\ DOMAIN Shared!Trimmed(doc) = 1..n
           /\ \A i \in (n + 1)..Len(doc) : doc[i] = Shared!Blank
    BY TrimmedIs
  <2>2. \A i \in (1..n) \ {last} : i \in DOMAIN made /\ made[i] = doc[i]
    BY <1>6, <1>7
  <2>3. \A i \in DOMAIN made \ ((1..n) \cup {last}) :
          made[i] \in {Shared!Blank, Shared!SectionMarker}
    <3> SUFFICES ASSUME NEW i \in DOMAIN made, i \notin 1..n, i # last
                 PROVE  made[i] = Shared!Blank
      OBVIOUS
    <3>1. i \in (n + 1)..Len(doc)
      BY <1>6
    <3> QED BY <1>6, <1>7, <2>1, <3>1
  <2>4. last \in DOMAIN made /\ made[last] = line /\ doc[last].key = line.key
    BY <1>1, <1>5, <1>6, <1>7
  <2> QED BY <2>1, <2>2, <2>3, <2>4 DEF Shared!EditOf
<1> QED BY <1>6, <1>8, <1>9 DEF made, line

\* An assignment is added where none is found, with the section it belongs to.
LEMMA SetAtTheEnd ==
  ASSUME NEW doc \in Seq(Shared!Lines), NEW key \in OwnKeys, NEW value \in Values,
         Shared!Editable(doc, key) = {}
  PROVE  LET made == Shared!SetValue(doc, key, value)
         IN  /\ made \in Seq(Shared!Lines) /\ Takes(made, key, value)
             /\ Shared!EditOf(doc, made, Shared!Assigned(key, value))
<1> DEFINE line == Shared!Assigned(key, value)
           base == Shared!WithSection(doc)
           made == Shared!SetValue(doc, key, value)
           Padding == {Shared!Blank, Shared!SectionMarker}
<1>1. line \in Shared!Lines /\ line.key = key /\ line.value = value
  BY LinesAre DEF Shared!Assigned, Shared!Line
<1>2. PICK n \in 0..Len(doc) :
         /\ Shared!Trimmed(doc) \in Seq(Shared!Lines) /\ Len(Shared!Trimmed(doc)) = n
         /\ DOMAIN Shared!Trimmed(doc) = 1..n
         /\ \A i \in 1..n : Shared!Trimmed(doc)[i] = doc[i]
  BY TrimmedIs
<1>3. made = Append(base, line)
  BY DEF Shared!SetValue
<1>4. Shared!Blank \in Shared!Lines /\ Shared!SectionMarker \in Shared!Lines
  BY LinesAre
<1>5. /\ base \in Seq(Shared!Lines) /\ Len(base) >= n
      /\ \A i \in 1..n : base[i] = doc[i]
      /\ \A i \in (n + 1)..Len(base) : base[i] \in Padding
  <2> DEFINE kept == Shared!Trimmed(doc)
             pad == IF kept = <<>> THEN <<Shared!Blank, Shared!Blank>> ELSE <<Shared!Blank>>
             marker == Shared!SectionMarker
  <2>1. base = kept \/ base = Append(kept \o pad, marker)
    BY DEF Shared!WithSection
  <2>2. marker \in Shared!Lines /\ marker \in Padding
    BY <1>4
  <2>3. pad \in Seq(Shared!Lines) /\ Len(pad) \in 1..2 /\ \A i \in 1..Len(pad) : pad[i] \in Padding
    <3> HIDE DEF kept
    <3>1. CASE kept = <<>>
      BY <1>4, <3>1
    <3>2. CASE kept # <<>>
      BY <1>4, <3>2
    <3> QED BY <3>1, <3>2
  <2> HIDE DEF kept, pad, marker, base, Padding
  <2>4. kept \in Seq(Shared!Lines) /\ Len(kept) = n /\ n \in Nat
        /\ \A i \in 1..n : kept[i] = doc[i]
    BY <1>2 DEF kept
  <2>5. CASE base = kept
    BY <2>4, <2>5
  <2>6. CASE base = Append(kept \o pad, marker)
    <3> DEFINE most == kept \o pad
    <3>1. /\ most \in Seq(Shared!Lines) /\ Len(most) = n + Len(pad)
          /\ \A i \in 1..Len(most) : most[i] = IF i <= n THEN kept[i] ELSE pad[i - n]
      <4>1. Len(pad) \in Nat
        BY <2>3
      <4>2. DOMAIN most = 1..Len(most)
        OBVIOUS
      <4>3. /\ kept \o pad \in Seq(Shared!Lines)
            /\ Len(kept \o pad) = Len(kept) + Len(pad)
            /\ \A i \in 1..(Len(kept) + Len(pad)) :
                 (kept \o pad)[i] = IF i <= Len(kept) THEN kept[i] ELSE pad[i - Len(kept)]
        BY <2>3, <2>4, ConcatProperties, Zenon
      <4> QED BY <2>4, <4>3
    <3>2. \A i \in (n + 1)..Len(most) : most[i] \in Padding
      <4> SUFFICES ASSUME NEW i \in (n + 1)..Len(most) PROVE most[i] \in Padding
        OBVIOUS
      <4>1. i - n \in 1..Len(pad) /\ i \in 1..Len(most) /\ ~(i <= n)
        BY <2>3, <2>4, <3>1
      <4> QED BY <2>3, <3>1, <4>1
    <3>3. \A i \in 1..n : most[i] = doc[i]
      BY <2>3, <2>4, <3>1
    <3>4. base = Append(most, marker)
      BY <2>6
    <3> HIDE DEF most
    <3>5. /\ base \in Seq(Shared!Lines) /\ Len(base) = Len(most) + 1
          /\ \A i \in 1..Len(most) : base[i] = most[i]
          /\ base[Len(most) + 1] = marker /\ Len(most) \in Nat /\ Len(most) >= n
      BY <2>2, <2>3, <2>4, <3>1, <3>4
    <3>6. \A i \in (n + 1)..Len(base) : i = Len(most) + 1 \/ i \in (n + 1)..Len(most)
      BY <2>4, <3>5
    <3>7. \A i \in 1..n : i \in 1..Len(most)
      BY <2>4, <3>5
    <3>8. \A i \in (n + 1)..Len(most) : i \in 1..Len(most)
      BY <2>4
    <3>9. \A i \in 1..n : base[i] = doc[i]
      BY <3>3, <3>5, <3>7
    <3>10. \A i \in (n + 1)..Len(base) : base[i] \in Padding
      BY <2>2, <3>2, <3>5, <3>6, <3>8
    <3>11. Len(base) >= n
      BY <2>4, <3>5
    <3> QED BY <3>5, <3>9, <3>10, <3>11
  <2> QED BY <2>1, <2>5, <2>6
<1> HIDE DEF line, base, made, Padding
<1>6. /\ made \in Seq(Shared!Lines) /\ Len(made) = Len(base) + 1 /\ DOMAIN made = 1..Len(made)
      /\ made[Len(made)] = line /\ \A i \in 1..Len(base) : made[i] = base[i]
      /\ Len(base) \in Nat /\ n \in Nat
  BY <1>1, <1>3, <1>5
<1>7. Takes(made, key, value)
  <2> DEFINE there == Shared!Places(made, key)
             end == Len(made)
  <2>1. there \subseteq 0..end /\ end \in there /\ end \in Nat /\ \A j \in there : j <= end
    BY <1>1, <1>6 DEF Shared!Places
  <2>2. Shared!Effective(made, key) = made[Shared!Latest(there)].value
    BY <2>1 DEF Shared!Effective
  <2> HIDE DEF there, end
  <2>3. Shared!Latest(there) \in there /\ end <= Shared!Latest(there)
    BY <2>1, LatestIs
  <2>4. Shared!Latest(there) = end
    <3> DEFINE latest == Shared!Latest(there)
    <3>1. latest \in Nat /\ end <= latest /\ latest <= end
      <4>1. there \subseteq Nat
        BY <2>1
      <4> QED BY <2>1, <2>3, <4>1
    <3> HIDE DEF latest
    <3>2. latest = end
      BY <2>1, <3>1
    <3> QED BY <3>2 DEF latest
  <2> QED BY <1>1, <1>6, <2>2, <2>4 DEF end, Takes
<1>8. Shared!EditOf(doc, made, line)
  <2> DEFINE end == Len(made)
  <2>1. end \in DOMAIN made /\ end \notin 1..n /\ made[end] = line
    BY <1>5, <1>6
  <2>2. \A i \in (1..n) \ {end} : i \in DOMAIN made /\ made[i] = doc[i]
    BY <1>5, <1>6
  <2>3. \A i \in DOMAIN made \ ((1..n) \cup {end}) :
          made[i] \in {Shared!Blank, Shared!SectionMarker}
    <3> SUFFICES ASSUME NEW i \in DOMAIN made, i \notin 1..n, i # end
                 PROVE  made[i] \in Padding
      BY DEF Padding
    <3>1. i \in (n + 1)..Len(base)
      BY <1>6
    <3> QED BY <1>5, <1>6, <3>1
  <2> HIDE DEF end
  <2> QED BY <1>2, <2>1, <2>2, <2>3 DEF Shared!EditOf
<1> QED BY <1>6, <1>7, <1>8 DEF made, line

\* What an update makes of a document: an edit of it that gives its key its value.
LEMMA SetValueIs ==
  ASSUME NEW doc \in Seq(Shared!Lines), NEW key \in OwnKeys, NEW value \in Values
  PROVE  LET made == Shared!SetValue(doc, key, value)
         IN  /\ made \in Seq(Shared!Lines) /\ Takes(made, key, value)
             /\ Shared!EditOf(doc, made, Shared!Assigned(key, value))
BY SetInPlace, SetAtTheEnd

Steps == {"idle", "refused", "edited", "write", "replace", "unlink", "failed", "dead", "done"}
Wholes == {Shared!File("whole", d) : d \in Seq(Shared!Lines)}

SettingsTypeInv ==
  /\ target \in {Shared!NoFile} \cup Wholes
  /\ step \in [Programs -> Steps]
  /\ DOMAIN change = Programs /\ DOMAIN text = Programs
  /\ DOMAIN temporary = Programs /\ overlap \in [Programs -> BOOLEAN]

\* What an update will write: its change to a document, and to the one that is
\* there as long as no other update became visible.
UpdateInv(w) ==
  /\ step[w] \in {"edited", "write", "replace"} =>
       /\ \E key \in OwnKeys, value \in Values : change[w] = Shared!Assigned(key, value)
       /\ text[w] \in Seq(Shared!Lines)
       /\ Takes(text[w], change[w].key, change[w].value)
       /\ ~overlap[w] => Shared!EditOf(Shared!Seen, text[w], change[w])
  /\ step[w] \in {"idle", "edited", "failed"} => temporary[w] = Shared!NoFile
  /\ step[w] = "replace" => temporary[w] = Shared!File("whole", text[w])

SettingsInv == SettingsTypeInv /\ \A w \in Programs : UpdateInv(w)

\* A document is read line by line.
LEMMA ReadIs == ASSUME NEW doc \in Seq(Shared!Lines) PROVE Shared!Read(doc) \in Seq(Shared!Lines)
<1>1. ASSUME NEW line \in Shared!Lines PROVE Shared!Decoded(line) \in Shared!Lines
  BY DEF Shared!Lines, Shared!Decoded
<1>2. doc \in [1..Len(doc) -> Shared!Lines] /\ DOMAIN doc = 1..Len(doc) /\ Len(doc) \in Nat
  OBVIOUS
<1>3. Shared!Read(doc) \in [1..Len(doc) -> Shared!Lines]
  BY <1>1, <1>2 DEF Shared!Read
<1> QED BY <1>2, <1>3

\* What a writer sees of the document is lines.
LEMMA SeenIs == SettingsTypeInv => Shared!Seen \in Seq(Shared!Lines)
<1>1. <<Shared!Comment, Shared!Blank, Shared!SectionMarker>> \in Seq(Shared!Lines)
  BY LinesAre
<1>2. SettingsTypeInv /\ target # Shared!NoFile => target.lines \in Seq(Shared!Lines)
  BY DEF SettingsTypeInv, Wholes, Shared!File
<1> QED BY <1>1, <1>2, ReadIs DEF Shared!Seen

\* The invariant holds before any update.
LEMMA SettingsStart == Shared!Init => SettingsInv
<1> SUFFICES ASSUME Shared!Init PROVE SettingsInv
  OBVIOUS
<1>1. target \in {Shared!NoFile} \cup Wholes
  BY DocumentsAssumption DEF Shared!Init, Wholes
<1> QED BY <1>1 DEF Shared!Init, SettingsInv, SettingsTypeInv, UpdateInv, Steps

OneKeyChanges ==
  \A w \in Programs : step'[w] = "done" /\ step[w] # "done" =>
    /\ Takes(target'.lines, change[w].key, change[w].value)
    /\ ~overlap[w] /\ readable /\ target # Shared!NoFile =>
         Shared!EditOf(Shared!Read(target.lines), target'.lines, change[w])

\* A writer computes its document.
LEMMA UpdateStep ==
  ASSUME SettingsInv, NEW w \in Programs, Shared!Update(w)
  PROVE  SettingsInv' /\ OneKeyChanges
<1>1. UNCHANGED <<target, readable, temporary, overlap>> /\ step[w] = "idle"
  BY DEF Shared!Update
<1>2. Shared!Seen' = Shared!Seen
  BY <1>1 DEF Shared!Seen
<1>3. CASE step' = [step EXCEPT ![w] = "refused"] /\ UNCHANGED <<change, text>>
  BY <1>1, <1>2, <1>3 DEF SettingsInv, SettingsTypeInv, UpdateInv, Steps, OneKeyChanges
<1>4. CASE \E key \in OwnKeys, value \in Values :
             /\ step' = [step EXCEPT ![w] = "edited"]
             /\ change' = [change EXCEPT ![w] = Shared!Assigned(key, value)]
             /\ text' = [text EXCEPT ![w] = Shared!SetValue(Shared!Seen, key, value)]
  <2>1. PICK key \in OwnKeys, value \in Values :
             /\ step' = [step EXCEPT ![w] = "edited"]
             /\ change' = [change EXCEPT ![w] = Shared!Assigned(key, value)]
             /\ text' = [text EXCEPT ![w] = Shared!SetValue(Shared!Seen, key, value)]
    BY <1>4
  <2> DEFINE made == Shared!SetValue(Shared!Seen, key, value)
  <2>2. /\ made \in Seq(Shared!Lines) /\ Takes(made, key, value)
        /\ Shared!EditOf(Shared!Seen, made, Shared!Assigned(key, value))
    BY SeenIs, SetValueIs DEF SettingsInv
  <2> HIDE DEF made
  <2>3. text' = [text EXCEPT ![w] = made]
    BY <2>1 DEF made
  <2>4. change'[w] = Shared!Assigned(key, value) /\ text'[w] = made /\ step'[w] = "edited"
        /\ change'[w].key = key /\ change'[w].value = value
    BY <2>1, <2>3 DEF SettingsInv, SettingsTypeInv, Shared!Assigned, Shared!Line
  <2>5. \A v \in Programs : v # w => change'[v] = change[v] /\ text'[v] = text[v] /\ step'[v] = step[v]
    BY <2>1, <2>3 DEF SettingsInv, SettingsTypeInv
  <2>6. SettingsTypeInv'
    BY <1>1, <2>1, <2>3 DEF SettingsInv, SettingsTypeInv, Steps
  <2>7. ASSUME NEW v \in Programs PROVE UpdateInv(v)'
    <3>1. CASE v = w
      BY <1>1, <1>2, <2>2, <2>4, <3>1 DEF SettingsInv, UpdateInv
    <3>2. CASE v # w
      BY <1>1, <1>2, <2>5, <3>2 DEF SettingsInv, UpdateInv
    <3> QED BY <3>1, <3>2
  <2>8. OneKeyChanges
    BY <2>4, <2>5 DEF OneKeyChanges
  <2> QED BY <2>6, <2>7, <2>8 DEF SettingsInv
<1> QED BY <1>3, <1>4 DEF Shared!Update, Shared!Go

\* A temporary file is made, written, removed or left behind.
LEMMA WriteStep ==
  ASSUME SettingsInv, NEW w \in Programs,
         Shared!MakeTemporary(w) \/ Shared!Write(w) \/ Shared!Unlink(w) \/ Shared!Crash(w)
  PROVE  SettingsInv' /\ OneKeyChanges
<1>1. UNCHANGED <<target, readable, change, text, overlap>>
  BY DEF Shared!MakeTemporary, Shared!Write, Shared!Unlink, Shared!Crash
<1>2. Shared!Seen' = Shared!Seen
  BY <1>1 DEF Shared!Seen
<1>3. \/ /\ step[w] = "edited" /\ step' = [step EXCEPT ![w] = "failed"] /\ temporary' = temporary
      \/ /\ step[w] = "edited" /\ step' = [step EXCEPT ![w] = "write"]
         /\ temporary' = [temporary EXCEPT ![w] = Shared!File("half", <<>>)]
      \/ /\ step[w] = "write" /\ step' = [step EXCEPT ![w] = "unlink"] /\ temporary' = temporary
      \/ /\ step[w] = "write" /\ step' = [step EXCEPT ![w] = "replace"]
         /\ temporary' = [temporary EXCEPT ![w] = Shared!File("whole", text[w])]
      \/ /\ step[w] = "unlink" /\ step' = [step EXCEPT ![w] = "failed"]
         /\ temporary' = [temporary EXCEPT ![w] = Shared!NoFile]
      \/ step' = [step EXCEPT ![w] = "dead"] /\ temporary' = temporary
  BY DEF Shared!MakeTemporary, Shared!Write, Shared!Unlink, Shared!Crash, Shared!Go
<1>4. SettingsTypeInv'
  BY <1>1, <1>3 DEF SettingsInv, SettingsTypeInv, Steps
<1>5. ASSUME NEW v \in Programs PROVE UpdateInv(v)'
  <2>1. CASE v = w
    BY <1>1, <1>2, <1>3, <2>1 DEF SettingsInv, SettingsTypeInv, UpdateInv
  <2>2. CASE v # w
    <3>1. step'[v] = step[v] /\ temporary'[v] = temporary[v]
      BY <1>3, <2>2 DEF SettingsInv, SettingsTypeInv
    <3> QED BY <1>1, <1>2, <3>1 DEF SettingsInv, UpdateInv
  <2> QED BY <2>1, <2>2
<1>6. OneKeyChanges
  BY <1>3 DEF SettingsInv, SettingsTypeInv, OneKeyChanges
<1> QED BY <1>4, <1>5, <1>6 DEF SettingsInv

\* The new document becomes visible, or the replacing fails.
LEMMA ReplaceStep ==
  ASSUME SettingsInv, NEW w \in Programs, Shared!Replace(w)
  PROVE  SettingsInv' /\ OneKeyChanges
<1>1. UNCHANGED <<change, text>> /\ step[w] = "replace"
  BY DEF Shared!Replace
<1>2. CASE step' = [step EXCEPT ![w] = "unlink"] /\
           UNCHANGED <<target, readable, temporary, overlap>>
  <2>1. Shared!Seen' = Shared!Seen
    BY <1>2 DEF Shared!Seen
  <2> QED BY <1>1, <1>2, <2>1 DEF SettingsInv, SettingsTypeInv, UpdateInv, Steps, OneKeyChanges
<1>3. CASE /\ target' = temporary[w] /\ readable' = TRUE
           /\ temporary' = [temporary EXCEPT ![w] = Shared!NoFile]
           /\ overlap' = [v \in Programs |-> overlap[v] \/ (v # w /\ step[v] # "idle")]
           /\ step' = [step EXCEPT ![w] = "done"]
  <2>1. /\ text[w] \in Seq(Shared!Lines) /\ target' = Shared!File("whole", text[w])
        /\ Takes(text[w], change[w].key, change[w].value)
        /\ ~overlap[w] => Shared!EditOf(Shared!Seen, text[w], change[w])
    BY <1>1, <1>3 DEF SettingsInv, UpdateInv
  <2>2. SettingsTypeInv'
    BY <1>1, <1>3, <2>1 DEF SettingsInv, SettingsTypeInv, Steps, Wholes
  <2>3. step'[w] = "done" /\ \A v \in Programs : v # w => step'[v] = step[v]
    BY <1>3 DEF SettingsInv, SettingsTypeInv
  <2>4. ASSUME NEW v \in Programs PROVE UpdateInv(v)'
    <3>1. CASE v = w
      BY <2>3, <3>1 DEF UpdateInv
    <3>2. CASE v # w
      <4>1. temporary'[v] = temporary[v] /\ step'[v] = step[v]
            /\ (~overlap'[v] => step[v] = "idle")
        BY <1>3, <2>3, <3>2 DEF SettingsInv, SettingsTypeInv
      <4> QED BY <1>1, <4>1 DEF SettingsInv, UpdateInv
    <3> QED BY <3>1, <3>2
  <2>5. target'.lines = text[w]
    BY <2>1 DEF Shared!File
  <2>6. readable /\ target # Shared!NoFile => Shared!Seen = Shared!Read(target.lines)
    BY DEF Shared!Seen
  <2>7. OneKeyChanges
    <3> SUFFICES ASSUME NEW v \in Programs, step'[v] = "done", step[v] # "done"
                 PROVE  /\ Takes(target'.lines, change[v].key, change[v].value)
                        /\ ~overlap[v] /\ readable /\ target # Shared!NoFile =>
                             Shared!EditOf(Shared!Read(target.lines), target'.lines, change[v])
      BY DEF OneKeyChanges
    <3>1. v = w
      BY <2>3
    <3> QED BY <2>1, <2>5, <2>6, <3>1
  <2> QED BY <2>2, <2>4, <2>7 DEF SettingsInv
<1> QED BY <1>2, <1>3 DEF Shared!Replace, Shared!Go

\* Every step keeps the invariant.
LEMMA SettingsStep ==
  SettingsInv /\ [Shared!Next]_(Shared!vars) => SettingsInv' /\ [OneKeyChanges]_(Shared!vars)
<1> SUFFICES ASSUME SettingsInv, [Shared!Next]_(Shared!vars)
             PROVE  SettingsInv' /\ [OneKeyChanges]_(Shared!vars)
  OBVIOUS
<1>1. CASE Shared!Next
  BY <1>1, UpdateStep, WriteStep, ReplaceStep DEF Shared!Next
<1>2. CASE UNCHANGED Shared!vars
  <2>1. /\ UNCHANGED <<target, readable, step, change, text, temporary, overlap>>
        /\ Shared!Seen' = Shared!Seen
    BY <1>2 DEF Shared!vars, Shared!Seen
  <2> QED BY <1>2, <2>1 DEF SettingsInv, SettingsTypeInv, UpdateInv
<1> QED BY <1>1, <1>2

\* Whoever reads the document reads a whole one, a failed write leaves nothing
\* behind, and an update that no other overlapped edits or adds one line of its
\* key and writes every other back as it was decoded: for any documents, keys and
\* programs, whichever of them fail or die.
THEOREM SettingsKept == EdgesSpec => SettingsAreKept
<1>1. EdgesInit => SettingsInv
  BY SettingsStart DEF EdgesInit
<1>2. [EdgesNext]_edgesVars => [Shared!Next]_(Shared!vars)
  BY DEF EdgesNext, edgesVars, settingsVars, Shared!vars
<1>3. SettingsInv => Shared!DocumentIsWhole /\ Shared!NoLitter
  BY DEF SettingsInv, SettingsTypeInv, UpdateInv, Wholes, Shared!File, Shared!NoFile,
         Shared!DocumentIsWhole, Shared!NoLitter
<1> QED BY <1>1, <1>2, <1>3, SettingsStep, PTL
        DEF EdgesSpec, SettingsAreKept, Shared!OnlyTheKeyChanges, Shared!Finishes,
            Shared!Unhindered, OneKeyChanges, Takes

-----------------------------------------------------------------------------
(* The ledger of the jobs (JobLedger).                                     *)

Rows == [job : Jobs, state : Outcomes \cup {"running"}, delivered : {"none", "yes", "no"}]

\* A job has one row.
EachOnce(s) == \A i, k \in 1..Len(s) : s[i].job = s[k].job => i = k

LedgerTypeInv ==
  /\ entries \in Seq(Rows) /\ Len(entries) <= MaxEntries /\ EachOnce(entries)
  /\ begun \subseteq Jobs /\ settled \in [Jobs -> Outcomes \cup {"none"}]

\* A row says what came of its job; and a job of which only the handler or only
\* the worker has spoken has one.
RowsInv ==
  /\ \A i \in 1..Len(entries) :
       entries[i].state = IF settled[entries[i].job] = "none" THEN "running"
                          ELSE settled[entries[i].job]
  /\ \A j \in Jobs : (j \in begun <=> settled[j] = "none") =>
       \E i \in 1..Len(entries) : entries[i].job = j

LedgerInv == LedgerTypeInv /\ RowsInv

\* What the ledger calls a cardinality is one.
LEMMA LedgerCardinality == ASSUME NEW S PROVE Ledger!Cardinality(S) = Cardinality(S)
BY DEF Cardinality, Ledger!Cardinality

\* As many jobs as rows.
LEMMA JobsOfRows ==
  ASSUME NEW s \in Seq(Rows), EachOnce(s), NEW P \in SUBSET (1..Len(s))
  PROVE  LET jobs == {s[i].job : i \in P}
         IN  IsFiniteSet(P) /\ IsFiniteSet(jobs) /\ Cardinality(jobs) = Cardinality(P)
<1> DEFINE jobs == {s[i].job : i \in P}
           f == [i \in P |-> s[i].job]
<1>1. IsFiniteSet(P)
  <2>1. Len(s) \in Nat
    OBVIOUS
  <2>2. IsFiniteSet(1..Len(s))
    BY <2>1, FS_Interval
  <2> QED BY <2>2, FS_Subset
<1>2. f \in Bijection(P, jobs)
  <2>1. f \in [P -> jobs]
    OBVIOUS
  <2>2. \A i, k \in P : f[i] = f[k] => i = k
    BY DEF EachOnce
  <2>3. \A x \in jobs : \E i \in P : f[i] = x
    OBVIOUS
  <2> HIDE DEF jobs, f
  <2> QED BY <2>1, <2>2, <2>3 DEF Bijection, Injection, Surjection, IsInjective
<1> HIDE DEF jobs, f
<1>3. ExistsBijection(P, jobs)
  BY <1>2 DEF ExistsBijection
<1>4. IsFiniteSet(jobs) /\ Cardinality(jobs) = Cardinality(P)
  BY <1>1, <1>3, FS_Bijection
<1> QED BY <1>1, <1>4 DEF jobs

\* How many settled rows come first: the row itself, and more after an older one.
LEMMA Ranks ==
  ASSUME NEW n \in Nat, NEW over \in SUBSET (1..n), NEW i \in over,
         NEW rank, rank = Cardinality({k \in over : k <= i})
  PROVE  /\ rank \in Nat /\ rank > 0
         /\ \A l \in over : l < i => rank > 1
         /\ (\A l \in over : i <= l) => rank = 1
<1> DEFINE T == {k \in over : k <= i}
<1>1. IsFiniteSet(T)
  <2>1. IsFiniteSet(1..n)
    BY FS_Interval
  <2>2. T \in SUBSET (1..n)
    OBVIOUS
  <2> QED BY <2>1, <2>2, FS_Subset
<1>2. i \in T
  OBVIOUS
<1>3. \A l \in over : l < i => l \in T /\ l # i
  OBVIOUS
<1>4. (\A l \in over : i <= l) => T = {i}
  <2>1. SUFFICES ASSUME \A l \in over : i <= l, NEW k \in T PROVE k = i
    BY <1>2
  <2>2. k \in over /\ k <= i
    OBVIOUS
  <2>3. i <= k /\ i \in Nat /\ k \in Nat
    BY <2>1, <2>2
  <2> QED BY <2>2, <2>3
<1>5. rank = Cardinality(T)
  OBVIOUS
<1> HIDE DEF T
<1>6. rank \in Nat /\ rank > 0
  BY <1>1, <1>2, <1>5, FS_CardinalityType, FS_EmptySet
<1>7. ASSUME NEW l \in over, l < i PROVE rank > 1
  <2>1. l \in T /\ l # i
    BY <1>3, <1>7
  <2>2. rank # 1
    BY <1>1, <1>2, <1>5, <2>1, FS_Singleton
  <2> QED BY <1>6, <2>2
<1>8. (\A l \in over : i <= l) => rank = 1
  BY <1>4, <1>5, FS_Singleton
<1> QED BY <1>6, <1>7, <1>8

\* What eviction leaves of a table that is at most one row too long: its rows, in
\* order, but for the oldest settled one.
LEMMA Evicted ==
  ASSUME NEW s \in Seq(Rows), EachOnce(s), Len(s) <= MaxEntries + 1,
         NEW r, r = Ledger!Evict(s)
  PROVE  /\ r \in Seq(Rows) /\ EachOnce(r)
         /\ \A i \in 1..Len(r) : \E k \in 1..Len(s) : r[i] = s[k]
         /\ \A k \in 1..Len(s) :
              \/ \E i \in 1..Len(r) : r[i] = s[k]
              \/ /\ Len(s) = MaxEntries + 1 /\ s[k].state # "running"
                 /\ \A i \in 1..Len(s) : s[i].state # "running" => k <= i
         /\ \/ Len(r) <= MaxEntries
            \/ Len(s) = MaxEntries + 1 /\ \A k \in 1..Len(s) : s[k].state = "running"
<1> DEFINE n == Len(s)
           over == {i \in DOMAIN s : s[i].state # "running"}
           excess == IF Len(s) > MaxEntries THEN Len(s) - MaxEntries ELSE 0
           kept == {i \in DOMAIN s : i \in over => Cardinality({k \in over : k <= i}) > excess}
<1>1. n \in Nat /\ DOMAIN s = 1..n /\ MaxEntries \in Nat
  BY EdgesAssumption
<1>2. r = Picked(s, kept)
  BY LedgerCardinality DEF Ledger!Evict, Ledger!Picked, Picked
<1>3. over \in SUBSET (1..n) /\ \A i \in 1..n : i \in over <=> s[i].state # "running"
  BY <1>1
<1>4. /\ excess \in Nat
      /\ (excess = 0 /\ n <= MaxEntries) \/ (excess = 1 /\ n = MaxEntries + 1)
  <2>1. n <= MaxEntries + 1 /\ excess = IF n > MaxEntries THEN n - MaxEntries ELSE 0
    OBVIOUS
  <2>2. n \in Nat /\ MaxEntries \in Nat
    BY <1>1
  <2> HIDE DEF n, excess, over, kept
  <2>3. CASE n > MaxEntries
    <3>1. n = MaxEntries + 1
      BY <2>1, <2>2, <2>3
    <3>2. n - MaxEntries = 1
      BY <2>2, <3>1
    <3> QED BY <2>1, <2>3, <3>1, <3>2
  <2>4. CASE ~(n > MaxEntries)
    BY <2>1, <2>2, <2>4
  <2> QED BY <2>3, <2>4
<1>5. \A i \in 1..n : i \in kept <=> (i \in over => Cardinality({k \in over : k <= i}) > excess)
  BY <1>1
<1>6. kept \subseteq 1..n
  BY <1>1
<1> HIDE DEF n, over, excess, kept
<1>7. ASSUME NEW i \in 1..n
      PROVE  \/ i \in kept
             \/ excess = 1 /\ i \in over /\ \A l \in over : i <= l
  <2>1. CASE i \notin over
    BY <1>5, <2>1
  <2>2. CASE i \in over
    <3>1. PICK rank : rank = Cardinality({k \in over : k <= i})
      OBVIOUS
    <3>2. rank \in Nat /\ rank > 0 /\ \A l \in over : l < i => rank > 1
      BY <1>1, <1>3, <2>2, <3>1, Ranks
    <3>3. excess = 0 => i \in kept
      BY <1>5, <3>1, <3>2
    <3>4. ASSUME NEW l \in over, ~(i <= l), excess = 1 PROVE i \in kept
      <4>1. l < i
        BY <1>1, <1>3, <3>4
      <4> QED BY <1>5, <3>1, <3>2, <3>4, <4>1
    <3> QED BY <1>4, <2>2, <3>3, <3>4
  <2> QED BY <2>1, <2>2
<1>8. ASSUME excess = 1, NEW l \in over, \A i \in over : l <= i PROVE l \notin kept
  <2>1. PICK rank : rank = Cardinality({k \in over : k <= l})
    OBVIOUS
  <2>2. rank = 1
    BY <1>1, <1>3, <1>8, <2>1, Ranks
  <2>3. l \in 1..n /\ ~(rank > excess)
    BY <1>3, <1>8, <2>2
  <2> QED BY <1>5, <1>8, <2>1, <2>3
<1>9. r \in Seq(Rows) /\ \E m : ComesFrom(r, s, kept, n, m)
  BY <1>2, PickedPlaces DEF n
<1>10. PICK m : ComesFrom(r, s, kept, n, m)
  BY <1>9
<1>11. /\ m \in [1..Len(r) -> kept] /\ \A j \in 1..Len(r) : m[j] \in 1..n /\ r[j] = s[m[j]]
       /\ \A j, k \in 1..Len(r) : m[j] = m[k] => j = k
       /\ \A i \in kept : \E j \in 1..Len(r) : m[j] = i
  <2>1. Len(r) \in Nat
    BY <1>9
  <2>2. \A j, k \in 1..Len(r) : j < k => m[j] < m[k]
    BY <1>10 DEF ComesFrom
  <2>3. m \in [1..Len(r) -> kept \cap (1..n)]
    BY <1>10 DEF ComesFrom
  <2>4. ASSUME NEW j \in 1..Len(r), NEW k \in 1..Len(r), m[j] = m[k] PROVE j = k
    <3>1. m[j] \in 1..n
      BY <2>3
    <3>2. ~(m[j] < m[k]) /\ ~(m[k] < m[j])
      BY <2>4, <3>1
    <3>3. ~(j < k) /\ ~(k < j)
      BY <2>2, <3>2
    <3> QED BY <3>3
  <2> QED BY <1>6, <1>10, <2>3, <2>4 DEF ComesFrom
<1>12. EachOnce(r)
  <2>1. \A a, b \in 1..n : s[a].job = s[b].job => a = b
    BY DEF EachOnce, n
  <2>2. ASSUME NEW j \in 1..Len(r), NEW k \in 1..Len(r), r[j].job = r[k].job PROVE j = k
    <3>1. m[j] \in 1..n /\ m[k] \in 1..n /\ s[m[j]].job = s[m[k]].job
      BY <1>11, <2>2
    <3> QED BY <1>11, <2>1, <3>1
  <2> QED BY <2>2 DEF EachOnce
<1>13. \A k \in 1..n :
         \/ \E i \in 1..Len(r) : r[i] = s[k]
         \/ n = MaxEntries + 1 /\ k \in over /\ \A l \in over : k <= l
  BY <1>4, <1>7, <1>11
<1>14. Len(r) <= Cardinality(kept) /\ IsFiniteSet(kept)
  <2>1. IsFiniteSet(1..n) /\ Len(r) \in Nat
    BY <1>1, <1>9, FS_Interval
  <2>2. IsFiniteSet(kept)
    BY <1>6, <2>1, FS_Subset
  <2>3. m \in Injection(1..Len(r), kept)
    BY <1>11 DEF Injection, IsInjective
  <2>4. Cardinality(1..Len(r)) <= Cardinality(kept)
    BY <2>2, <2>3, FS_Injection
  <2>5. Cardinality(1..Len(r)) = Len(r)
    <3>1. ASSUME NEW k \in Nat PROVE Cardinality(1..k) = k
      <4>1. Cardinality(1..k) = IF 1 > k THEN 0 ELSE k - 1 + 1
        BY FS_Interval
      <4> QED BY <4>1
    <3> QED BY <2>1, <3>1
  <2> QED BY <2>2, <2>4, <2>5
<1>15. Len(r) <= MaxEntries \/ (n = MaxEntries + 1 /\ over = {})
  <2>1. Len(r) \in Nat /\ Cardinality(kept) \in Nat
    BY <1>9, <1>14, FS_CardinalityType
  <2>2. Cardinality(1..n) = n /\ IsFiniteSet(1..n)
    BY <1>1, FS_Interval
  <2>3. Cardinality(kept) <= n
    BY <1>6, <2>2, FS_Subset
  <2>4. CASE excess = 0
    BY <1>1, <1>4, <1>14, <2>1, <2>3, <2>4
  <2>5. CASE excess = 1 /\ over # {}
    <3>1. over \subseteq Nat
      BY <1>3
    <3>2. PICK l \in over : \A i \in over : l <= i
      BY <2>5, <3>1, Least
    <3>3. l \in 1..n /\ l \notin kept
      BY <1>3, <1>8, <2>5, <3>2
    <3>4. kept \in SUBSET (1..n) /\ kept # 1..n
      BY <1>6, <3>3
    <3>5. Cardinality(kept) # n
      BY <2>2, <3>4, FS_Subset
    <3> QED BY <1>1, <1>4, <1>14, <2>1, <2>3, <2>5, <3>5
  <2> QED BY <1>4, <2>4, <2>5
<1>16. \A k \in 1..n : k \in over /\ (\A l \in over : k <= l) =>
         s[k].state # "running" /\ \A i \in 1..n : s[i].state # "running" => k <= i
  BY <1>3
<1>17. over = {} => \A k \in 1..n : s[k].state = "running"
  BY <1>3
<1>18. \A i \in 1..Len(r) : \E k \in 1..n : r[i] = s[k]
  BY <1>11
<1> QED BY <1>9, <1>12, <1>13, <1>15, <1>16, <1>17, <1>18 DEF n

\* Two tables with the same rows.
SameRows(r, s) ==
  /\ \A i \in 1..Len(r) : \E k \in 1..Len(s) : r[i] = s[k]
  /\ \A k \in 1..Len(s) : \E i \in 1..Len(r) : r[i] = s[k]

\* A table within its bound loses nothing.
LEMMA EvictedNone ==
  ASSUME NEW s \in Seq(Rows), EachOnce(s), Len(s) <= MaxEntries,
         NEW r, r = Ledger!Evict(s)
  PROVE  /\ r \in Seq(Rows) /\ EachOnce(r) /\ Len(r) <= MaxEntries
         /\ SameRows(r, s)
<1>1. Len(s) <= MaxEntries + 1 /\ Len(s) # MaxEntries + 1
  <2>1. Len(s) \in Nat /\ MaxEntries \in Nat
    BY EdgesAssumption
  <2> QED BY <2>1
<1>2. /\ r \in Seq(Rows) /\ EachOnce(r)
      /\ \A i \in 1..Len(r) : \E k \in 1..Len(s) : r[i] = s[k]
      /\ \A k \in 1..Len(s) :
           \/ \E i \in 1..Len(r) : r[i] = s[k]
           \/ /\ Len(s) = MaxEntries + 1 /\ s[k].state # "running"
              /\ \A i \in 1..Len(s) : s[i].state # "running" => k <= i
      /\ \/ Len(r) <= MaxEntries
         \/ Len(s) = MaxEntries + 1 /\ \A k \in 1..Len(s) : s[k].state = "running"
  <2>1. /\ s \in Seq(Rows) /\ Len(s) \in Nat /\ DOMAIN s = 1..Len(s)
        /\ \A i \in 1..Len(s) : s[i] \in Rows
    OBVIOUS
  <2>a. MaxEntries \in Nat
    BY EdgesAssumption
  <2>2. Len(s) <= MaxEntries + 1
    BY <1>1
  <2>3. r = Ledger!Evict(s)
    OBVIOUS
  <2> QED BY <2>1, <2>a, <2>2, <2>3, Evicted
<1> QED BY <1>1, <1>2 DEF SameRows

\* A job's row, and what the ledger finds of the job.
LEMMA Found1 ==
  ASSUME LedgerTypeInv, NEW p \in 1..Len(entries), NEW j, j = entries[p].job
  PROVE  Ledger!At(j) = {p} /\ Ledger!Has(j) /\ Ledger!State(j) = entries[p].state
<1>1. entries \in Seq(Rows) /\ EachOnce(entries)
  BY DEF LedgerTypeInv
<1>2. DOMAIN entries = 1..Len(entries)
  BY <1>1
<1>3. Ledger!At(j) = {p}
  BY <1>1, <1>2 DEF Ledger!At, EachOnce
<1>4. (CHOOSE i \in Ledger!At(j) : TRUE) = p
  BY <1>3
<1> QED BY <1>3, <1>4 DEF Ledger!Has, Ledger!State

\* What the ledger finds of a job without a row.
LEMMA NotFound ==
  ASSUME LedgerTypeInv, NEW j, \A i \in 1..Len(entries) : entries[i].job # j
  PROVE  ~Ledger!Has(j) /\ Ledger!State(j) = "none"
<1>1. DOMAIN entries = 1..Len(entries)
  BY DEF LedgerTypeInv
<1>2. Ledger!At(j) = {}
  BY <1>1 DEF Ledger!At
<1> QED BY <1>2 DEF Ledger!Has, Ledger!State, Ledger!None

\* A row that gives way before the row at p does: a settled one, and older unless
\* that row is j's own.
GivesWay(s, p, j) ==
  \E i \in 1..Len(s) : i # p /\ s[i].state # "running" /\ (i < p \/ s[p].job = j)

\* A handler comes in time: the rows of a job that is to stay and of those that
\* press on it do not fill the table.
LEMMA NoPressure ==
  ASSUME LedgerInv, NEW j \in Jobs, \A i \in 1..Len(entries) : entries[i].job # j, Ledger!Timely(j),
         NEW e \in Rows, e.job = j, NEW s, s = Append(entries, e), Len(s) = MaxEntries + 1,
         NEW p \in 1..Len(s), s[p].job \in Ledger!Late \cup {j}
  PROVE  GivesWay(s, p, j)
<1> SUFFICES ASSUME \A i \in 1..Len(s) : i # p /\ s[i].state # "running" => ~(i < p) /\ s[p].job # j
             PROVE  FALSE
  BY DEF GivesWay
<1> DEFINE k == s[p].job
           press == (Ledger!Pressing(k) \cup {j}) \ {k}
           P == (1..Len(s)) \ {p}
           jobs == {s[i].job : i \in P}
           all == {s[i].job : i \in 1..Len(s)}
<1>1. entries \in Seq(Rows) /\ EachOnce(entries) /\ Len(entries) \in Nat /\ MaxEntries \in Nat
  BY EdgesAssumption DEF LedgerInv, LedgerTypeInv
<1>2. /\ s \in Seq(Rows) /\ Len(s) = Len(entries) + 1 /\ s[Len(s)] = e
      /\ \A i \in 1..Len(entries) : s[i] = entries[i]
      /\ \A i \in 1..Len(s) : i \in 1..Len(entries) \/ i = Len(s)
  BY <1>1
<1>3. EachOnce(s)
  <2> SUFFICES ASSUME NEW i \in 1..Len(s), NEW l \in 1..Len(s), s[i].job = s[l].job PROVE i = l
    BY DEF EachOnce
  <2>1. i \in 1..Len(entries) /\ l \in 1..Len(entries) => i = l
    BY <1>1, <1>2 DEF EachOnce
  <2>2. i \in 1..Len(entries) => s[i].job # j
    BY <1>2
  <2>3. l \in 1..Len(entries) => s[l].job # j
    BY <1>2
  <2> QED BY <1>2, <2>1, <2>2, <2>3
<1>4. Cardinality(press) < MaxEntries
  <2>1. ~Ledger!Has(j)
    BY NotFound DEF LedgerInv
  <2>2. Ledger!Cardinality(press) < MaxEntries
    BY <2>1 DEF Ledger!Timely
  <2> QED BY <2>2, LedgerCardinality
<1>5. jobs \subseteq press
  <2> SUFFICES ASSUME NEW i \in P PROVE s[i].job \in press
    OBVIOUS
  <2>1. i \in 1..Len(s) /\ i # p /\ s[i].job # k
    BY <1>3 DEF EachOnce
  <2>2. CASE s[i].job = j
    BY <2>1, <2>2
  <2>3. CASE s[i].job # j
    <3>1. i \in 1..Len(entries) /\ s[i] = entries[i] /\ s[i].job \in Jobs
      <4>1. i \in 1..Len(entries) /\ s[i] = entries[i]
        BY <1>2, <2>1, <2>3
      <4>2. s[i] \in Rows
        BY <1>2, <2>1
      <4> QED BY <4>1, <4>2 DEF Rows
    <3>2. /\ Ledger!Has(s[i].job) /\ Ledger!At(s[i].job) = {i}
          /\ Ledger!State(s[i].job) = s[i].state
      <4>1. LedgerTypeInv
        BY DEF LedgerInv
      <4>2. PICK job : job = s[i].job
        OBVIOUS
      <4>3. job = entries[i].job
        BY <3>1, <4>2
      <4>4. Ledger!Has(job) /\ Ledger!At(job) = {i} /\ Ledger!State(job) = entries[i].state
        BY <3>1, <4>1, <4>3, Found1
      <4> QED BY <3>1, <4>2, <4>4
    <3>3. CASE s[i].state = "running"
      <4>1. s[i].job \in {m \in Jobs : Ledger!State(m) = "running"}
        BY <3>1, <3>2, <3>3
      <4> QED BY <2>1, <4>1 DEF Ledger!Pressing
    <3>4. CASE s[i].state # "running"
      <4>1. i > p /\ k # j
        BY <1>1, <1>2, <2>1, <3>4
      <4>2. p \in 1..Len(entries) /\ k = entries[p].job
        BY <1>2, <4>1
      <4>3. Ledger!Has(k) /\ Ledger!At(k) = {p}
        BY <4>2, Found1 DEF LedgerInv
      <4>4. i \in DOMAIN entries /\ \A q \in Ledger!At(k) : i > q
        BY <1>1, <3>1, <4>1, <4>3
      <4>5. s[i].job \in Ledger!Newer(k)
        BY <3>1, <4>4 DEF Ledger!Newer
      <4> QED BY <2>1, <4>3, <4>5 DEF Ledger!Pressing
    <3> QED BY <3>3, <3>4
  <2> QED BY <2>2, <2>3
<1>6. press \subseteq all
  <2> SUFFICES ASSUME NEW m \in press PROVE m \in all
    OBVIOUS
  <2>1. CASE m = j
    <3>1. Len(s) \in 1..Len(s) /\ s[Len(s)].job = j
      BY <1>1, <1>2
    <3> QED BY <2>1, <3>1
  <2>2. CASE m # j
    <3>1. Ledger!State(m) = "running" \/ m \in Ledger!Newer(k)
      BY <2>2 DEF Ledger!Pressing
    <3>2. \E i \in 1..Len(entries) : entries[i].job = m
      <4>1. CASE Ledger!State(m) = "running"
        BY <4>1, NotFound DEF LedgerInv
      <4>2. CASE m \in Ledger!Newer(k)
        BY <1>1, <4>2 DEF Ledger!Newer
      <4> QED BY <3>1, <4>1, <4>2
    <3>3. PICK i \in 1..Len(entries) : entries[i].job = m
      BY <3>2
    <3>4. i \in 1..Len(s) /\ s[i].job = m
      BY <1>1, <1>2, <3>3
    <3> QED BY <3>4
  <2> QED BY <2>1, <2>2
<1>7. P \in SUBSET (1..Len(s)) /\ (1..Len(s)) \in SUBSET (1..Len(s))
  OBVIOUS
<1>8. /\ IsFiniteSet(all) /\ IsFiniteSet(jobs) /\ Cardinality(jobs) = Cardinality(P)
  BY <1>2, <1>3, <1>7, JobsOfRows
<1>9. Cardinality(P) = MaxEntries
  <2>1. IsFiniteSet(1..Len(s)) /\ Len(s) \in Nat
    BY <1>1, <1>2, FS_Interval
  <2>2. Cardinality(1..Len(s)) = Len(s)
    <3>1. ASSUME NEW n \in Nat PROVE Cardinality(1..n) = n
      <4>1. Cardinality(1..n) = IF 1 > n THEN 0 ELSE n - 1 + 1
        BY FS_Interval
      <4> QED BY <4>1
    <3> QED BY <2>1, <3>1
  <2>3. Cardinality(P) = Cardinality(1..Len(s)) - 1
    BY <2>1, FS_RemoveElement
  <2> QED BY <1>1, <2>2, <2>3
<1> HIDE DEF press, all, jobs, P, k
<1>10. IsFiniteSet(press) /\ Cardinality(jobs) <= Cardinality(press)
  <2>1. IsFiniteSet(press)
    BY <1>6, <1>8, FS_Subset
  <2> QED BY <1>5, <2>1, FS_Subset
<1>11. Cardinality(press) \in Nat
  BY <1>10, FS_CardinalityType
<1> QED BY <1>1, <1>4, <1>8, <1>9, <1>10, <1>11

\* A job's first row comes in: what runs stays, and so do the rows of the jobs
\* whose handler is still to come, and the new one.
LEMMA Added ==
  ASSUME LedgerInv, NEW j \in Jobs, \A i \in 1..Len(entries) : entries[i].job # j, Ledger!Timely(j),
         NEW e \in Rows, e.job = j, NEW r, r = Ledger!Evict(Append(entries, e))
  PROVE  /\ r \in Seq(Rows) /\ EachOnce(r) /\ Len(r) <= MaxEntries
         /\ \A i \in 1..Len(r) : r[i] = e \/ \E k \in 1..Len(entries) : r[i] = entries[k]
         /\ \E i \in 1..Len(r) : r[i] = e
         /\ \A k \in 1..Len(entries) :
              entries[k].state = "running" \/ entries[k].job \in Ledger!Late =>
                \E i \in 1..Len(r) : r[i] = entries[k]
<1> DEFINE s == Append(entries, e)
<1>1. /\ entries \in Seq(Rows) /\ EachOnce(entries) /\ Len(entries) \in Nat /\ MaxEntries \in Nat
      /\ Len(entries) <= MaxEntries
  BY EdgesAssumption DEF LedgerInv, LedgerTypeInv
<1>2. /\ s \in Seq(Rows) /\ Len(s) = Len(entries) + 1 /\ s[Len(s)] = e
      /\ \A i \in 1..Len(entries) : s[i] = entries[i]
      /\ \A i \in 1..Len(s) : i \in 1..Len(entries) \/ i = Len(s)
  BY <1>1
<1>a. r = Ledger!Evict(s) /\ s = Append(entries, e)
  OBVIOUS
<1> HIDE DEF s
<1>3. EachOnce(s)
  <2> SUFFICES ASSUME NEW i \in 1..Len(s), NEW l \in 1..Len(s), s[i].job = s[l].job PROVE i = l
    BY DEF EachOnce
  <2>1. i \in 1..Len(entries) /\ l \in 1..Len(entries) => i = l
    BY <1>1, <1>2 DEF EachOnce
  <2>2. i \in 1..Len(entries) => s[i].job # j
    BY <1>2
  <2>3. l \in 1..Len(entries) => s[l].job # j
    BY <1>2
  <2> QED BY <1>2, <2>1, <2>2, <2>3
<1>4. /\ r \in Seq(Rows) /\ EachOnce(r)
      /\ \A i \in 1..Len(r) : \E k \in 1..Len(s) : r[i] = s[k]
      /\ \A k \in 1..Len(s) :
           \/ \E i \in 1..Len(r) : r[i] = s[k]
           \/ /\ Len(s) = MaxEntries + 1 /\ s[k].state # "running"
              /\ \A i \in 1..Len(s) : s[i].state # "running" => k <= i
      /\ \/ Len(r) <= MaxEntries
         \/ Len(s) = MaxEntries + 1 /\ \A k \in 1..Len(s) : s[k].state = "running"
  <2>1. Len(s) <= MaxEntries + 1
    BY <1>1, <1>2
  <2> QED BY <1>2, <1>3, <1>a, <2>1, Evicted
<1>5. ASSUME NEW k \in 1..Len(s), s[k].state = "running" \/ s[k].job \in Ledger!Late \cup {j}
      PROVE  \E i \in 1..Len(r) : r[i] = s[k]
  <2> SUFFICES ASSUME Len(s) = MaxEntries + 1, s[k].state # "running",
                      \A i \in 1..Len(s) : s[i].state # "running" => k <= i
               PROVE  FALSE
    BY <1>4
  <2>1. PICK i \in 1..Len(s) : i # k /\ s[i].state # "running" /\ (i < k \/ s[k].job = j)
    <3>1. s[k].job \in Ledger!Late \cup {j}
      BY <1>5
    <3>2. GivesWay(s, k, j)
      BY <1>a, <3>1, NoPressure
    <3> QED BY <3>2 DEF GivesWay
  <2>2. k <= i
    BY <2>1
  <2>3. s[k].job = j => k = Len(s)
    BY <1>2
  <2>4. i \in Nat /\ k \in Nat /\ i <= Len(s) /\ Len(s) \in Nat
    BY <1>1, <1>2
  <2> QED BY <2>1, <2>2, <2>3, <2>4
<1>6. Len(s) \in 1..Len(s)
  BY <1>1, <1>2
<1>7. Len(r) <= MaxEntries
  <2> SUFFICES ASSUME Len(s) = MaxEntries + 1, \A k \in 1..Len(s) : s[k].state = "running"
               PROVE  FALSE
    BY <1>4
  <2>1. s[Len(s)].job = j
    BY <1>2
  <2>2. s[Len(s)].job \in Ledger!Late \cup {j}
    BY <2>1
  <2>3. GivesWay(s, Len(s), j)
    BY <1>6, <1>a, <2>2, NoPressure
  <2> QED BY <2>3 DEF GivesWay
<1>8. \E i \in 1..Len(r) : r[i] = e
  BY <1>2, <1>5, <1>6
<1>9. \A k \in 1..Len(entries) : k \in 1..Len(s)
  BY <1>1, <1>2
<1>10. \A k \in 1..Len(entries) :
         entries[k].state = "running" \/ entries[k].job \in Ledger!Late =>
           \E i \in 1..Len(r) : r[i] = entries[k]
  BY <1>2, <1>5, <1>9
<1>11. ASSUME NEW i \in 1..Len(r)
       PROVE  r[i] = e \/ \E k \in 1..Len(entries) : r[i] = entries[k]
  <2>1. PICK k \in 1..Len(s) : r[i] = s[k]
    BY <1>4
  <2>2. s[k] = e \/ (k \in 1..Len(entries) /\ s[k] = entries[k])
    BY <1>2
  <2> QED BY <2>1, <2>2
<1> QED BY <1>4, <1>7, <1>8, <1>10, <1>11

\* The ledger begins empty.
LEMMA LedgerStart == Ledger!Init => LedgerInv
<1> SUFFICES ASSUME Ledger!Init PROVE LedgerInv
  OBVIOUS
<1>1. entries \in Seq(Rows) /\ Len(entries) = 0 /\ MaxEntries \in Nat
  BY EdgesAssumption DEF Ledger!Init
<1>2. LedgerTypeInv
  BY <1>1 DEF Ledger!Init, Ledger!None, LedgerTypeInv, EachOnce
<1>3. RowsInv
  BY <1>1 DEF Ledger!Init, Ledger!None, RowsInv
<1> QED BY <1>2, <1>3 DEF LedgerInv

\* Every call keeps the invariant: a handler's begin, ...
LEMMA BeginKeepsRows ==
  ASSUME LedgerInv, NEW j \in Jobs, Ledger!Begin(j)
  PROVE  LedgerInv'
<1>1. /\ LedgerTypeInv /\ RowsInv /\ j \notin begun /\ Ledger!Timely(j)
      /\ begun' = begun \cup {j} /\ settled' = settled
      /\ entries' = Ledger!BeginEntries(j)
  BY DEF LedgerInv, Ledger!Begin
<1>2. CASE \E i \in 1..Len(entries) : entries[i].job = j
  <2>1. entries' = entries
    <3>1. Ledger!Has(j)
      BY <1>1, <1>2, Found1
    <3> QED BY <1>1, <3>1 DEF Ledger!BeginEntries
  <2>2. LedgerTypeInv'
    BY <1>1, <2>1 DEF LedgerTypeInv, EachOnce
  <2>3. RowsInv'
    BY <1>1, <1>2, <2>1 DEF RowsInv
  <2> QED BY <2>2, <2>3 DEF LedgerInv
<1>3. CASE \A i \in 1..Len(entries) : entries[i].job # j
  <2> DEFINE e == Ledger!Entry(j, "running")
  <2>1. entries' = Ledger!Evict(Append(entries, e))
    <3>1. ~Ledger!Has(j)
      BY <1>1, <1>3, NotFound
    <3> QED BY <1>1, <3>1 DEF Ledger!BeginEntries
  <2>2. e \in Rows /\ e.job = j /\ e.state = "running"
    BY DEF Ledger!Entry, Ledger!None, Rows
  <2>3. settled[j] = "none"
    BY <1>1, <1>3 DEF RowsInv
  <2> HIDE DEF e
  <2>4. /\ entries' \in Seq(Rows) /\ EachOnce(entries') /\ Len(entries') <= MaxEntries
        /\ \A i \in 1..Len(entries') :
             entries'[i] = e \/ \E k \in 1..Len(entries) : entries'[i] = entries[k]
        /\ \E i \in 1..Len(entries') : entries'[i] = e
        /\ \A k \in 1..Len(entries) :
             entries[k].state = "running" \/ entries[k].job \in Ledger!Late =>
               \E i \in 1..Len(entries') : entries'[i] = entries[k]
    BY <1>1, <1>3, <2>1, <2>2, Added DEF LedgerInv
  <2>5. LedgerTypeInv'
    BY <1>1, <2>4 DEF LedgerTypeInv, EachOnce
  <2>6. RowsInv'
    <3>1. ASSUME NEW i \in 1..Len(entries')
          PROVE  entries'[i].state = IF settled[entries'[i].job] = "none" THEN "running"
                                     ELSE settled[entries'[i].job]
      <4>1. CASE entries'[i] = e
        BY <2>2, <2>3, <4>1
      <4>2. CASE \E k \in 1..Len(entries) : entries'[i] = entries[k]
        BY <1>1, <4>2 DEF RowsInv
      <4> QED BY <2>4, <4>1, <4>2
    <3>2. ASSUME NEW o \in Jobs, o \in begun' <=> settled[o] = "none"
          PROVE  \E i \in 1..Len(entries') : entries'[i].job = o
      <4>1. CASE o = j
        BY <2>2, <2>4, <4>1
      <4>2. CASE o # j
        <5>1. PICK k \in 1..Len(entries) : entries[k].job = o
          BY <1>1, <3>2, <4>2 DEF RowsInv
        <5>2. entries[k].state = "running" \/ o \in Ledger!Late
          BY <1>1, <3>2, <4>2, <5>1 DEF RowsInv, Ledger!Late, Ledger!None
        <5>3. PICK i \in 1..Len(entries') : entries'[i] = entries[k]
          BY <2>4, <5>1, <5>2
        <5> QED BY <5>1, <5>3
      <4> QED BY <4>1, <4>2
    <3> QED BY <1>1, <3>1, <3>2 DEF RowsInv
  <2> QED BY <2>5, <2>6 DEF LedgerInv
<1> QED BY <1>2, <1>3

\* ... the recording of an outcome, ...
LEMMA RecordKeepsRows ==
  ASSUME LedgerInv, NEW j \in Jobs, Ledger!Record(j)
  PROVE  LedgerInv'
<1>1. /\ LedgerTypeInv /\ RowsInv /\ settled[j] = "none" /\ Ledger!Timely(j)
      /\ begun' = begun
  BY DEF LedgerInv, Ledger!Record, Ledger!None
<1>2. PICK o \in Outcomes :
        /\ settled' = [settled EXCEPT ![j] = o]
        /\ entries' = IF Ledger!Has(j)
                      THEN Ledger!Evict([i \in DOMAIN entries |->
                             IF entries[i].job = j THEN Ledger!Entry(j, o) ELSE entries[i]])
                      ELSE Ledger!Evict(Append(entries, Ledger!Entry(j, o)))
  BY DEF Ledger!Record
<1> DEFINE e == Ledger!Entry(j, o)
<1>3. e \in Rows /\ e.job = j /\ e.state = o /\ o # "none" /\ o # "running"
  BY OutcomesAssumption DEF Ledger!Entry, Ledger!None, Rows
<1>4. /\ settled' \in [Jobs -> Outcomes \cup {"none"}] /\ settled'[j] = o
      /\ \A k \in Jobs : k # j => settled'[k] = settled[k]
  BY <1>1, <1>2 DEF LedgerTypeInv
<1>5. entries \in Seq(Rows) /\ EachOnce(entries) /\ Len(entries) <= MaxEntries
      /\ Len(entries) \in Nat /\ DOMAIN entries = 1..Len(entries)
  BY <1>1 DEF LedgerTypeInv
<1>6. CASE \E i \in 1..Len(entries) : entries[i].job = j
  <2> DEFINE s == [i \in 1..Len(entries) |-> IF entries[i].job = j THEN e ELSE entries[i]]
  <2>1. entries' = Ledger!Evict(s)
    <3>1. Ledger!Has(j)
      BY <1>1, <1>6, Found1
    <3> QED BY <1>2, <1>5, <3>1
  <2>2. s \in Seq(Rows) /\ Len(s) = Len(entries)
    <3>1. \A i \in 1..Len(entries) : (IF entries[i].job = j THEN e ELSE entries[i]) \in Rows
      BY <1>3, <1>5
    <3> HIDE DEF e
    <3>2. s \in [1..Len(entries) -> Rows]
      BY <3>1
    <3> QED BY <1>5, <3>2
  <2>3. \A i \in 1..Len(entries) :
          s[i].job = entries[i].job /\ s[i] = IF entries[i].job = j THEN e ELSE entries[i]
    BY <1>3
  <2> HIDE DEF e, s
  <2>4. EachOnce(s)
    BY <1>5, <2>2, <2>3 DEF EachOnce
  <2>6. /\ entries' \in Seq(Rows) /\ EachOnce(entries') /\ Len(entries') <= MaxEntries
        /\ \A i \in 1..Len(entries') : \E k \in 1..Len(s) : entries'[i] = s[k]
        /\ \A k \in 1..Len(s) : \E i \in 1..Len(entries') : entries'[i] = s[k]
    <3>1. PICK t : t = entries'
      OBVIOUS
    <3>2. PICK u : u = s
      OBVIOUS
    <3>3. u \in Seq(Rows)
      BY <2>2, <3>2
    <3>4. EachOnce(u)
      BY <2>4, <3>2
    <3>5. Len(u) <= MaxEntries
      BY <1>5, <2>2, <3>2
    <3>6. t = Ledger!Evict(u)
      BY <2>1, <3>1, <3>2
    <3>7. /\ t \in Seq(Rows) /\ EachOnce(t) /\ Len(t) <= MaxEntries
          /\ SameRows(t, u)
      BY <3>3, <3>4, <3>5, <3>6, EvictedNone, Zenon
    <3> QED BY <3>1, <3>2, <3>7 DEF SameRows
  <2>7. LedgerTypeInv'
    BY <1>1, <1>4, <2>6 DEF LedgerTypeInv, EachOnce
  <2>8. ASSUME NEW i \in 1..Len(entries')
        PROVE  entries'[i].state = IF settled'[entries'[i].job] = "none" THEN "running"
                                   ELSE settled'[entries'[i].job]
    <3>1. PICK k \in 1..Len(entries) : entries'[i] = s[k]
      BY <2>2, <2>6
    <3>2. CASE entries[k].job = j
      BY <1>3, <1>4, <2>3, <3>1, <3>2
    <3>3. CASE entries[k].job # j
      <4>1. entries'[i] = entries[k] /\ entries[k].job \in Jobs
        <5>1. entries[k] \in Rows
          BY <1>5
        <5> QED BY <2>3, <3>1, <3>3, <5>1 DEF Rows
      <4> QED BY <1>1, <1>4, <3>3, <4>1 DEF RowsInv
    <3> QED BY <3>2, <3>3
  <2>9. ASSUME NEW k \in Jobs, k \in begun <=> settled'[k] = "none"
        PROVE  \E i \in 1..Len(entries') : entries'[i].job = k
    <3>1. PICK p \in 1..Len(entries) : entries[p].job = k
      BY <1>1, <1>4, <1>6, <2>9 DEF RowsInv
    <3>2. PICK i \in 1..Len(entries') : entries'[i] = s[p]
      BY <2>2, <2>6
    <3> QED BY <2>3, <3>1, <3>2
  <2> QED BY <1>1, <2>7, <2>8, <2>9 DEF LedgerInv, RowsInv
<1>7. CASE \A i \in 1..Len(entries) : entries[i].job # j
  <2>1. entries' = Ledger!Evict(Append(entries, e))
    <3>1. ~Ledger!Has(j)
      BY <1>1, <1>7, NotFound
    <3> QED BY <1>2, <3>1
  <2> HIDE DEF e
  <2>2. /\ entries' \in Seq(Rows) /\ EachOnce(entries') /\ Len(entries') <= MaxEntries
        /\ \A i \in 1..Len(entries') :
             entries'[i] = e \/ \E k \in 1..Len(entries) : entries'[i] = entries[k]
        /\ \E i \in 1..Len(entries') : entries'[i] = e
        /\ \A k \in 1..Len(entries) :
             entries[k].state = "running" \/ entries[k].job \in Ledger!Late =>
               \E i \in 1..Len(entries') : entries'[i] = entries[k]
    BY <1>1, <1>3, <1>7, <2>1, Added DEF LedgerInv
  <2>3. LedgerTypeInv'
    BY <1>1, <1>4, <2>2 DEF LedgerTypeInv, EachOnce
  <2>4. ASSUME NEW i \in 1..Len(entries')
        PROVE  entries'[i].state = IF settled'[entries'[i].job] = "none" THEN "running"
                                   ELSE settled'[entries'[i].job]
    <3>1. CASE entries'[i] = e
      BY <1>3, <1>4, <3>1
    <3>2. CASE \E k \in 1..Len(entries) : entries'[i] = entries[k]
      <4>1. PICK k \in 1..Len(entries) : entries'[i] = entries[k]
        BY <3>2
      <4>2. entries[k].job \in Jobs /\ entries[k].job # j
        <5>1. entries[k] \in Rows
          BY <1>5
        <5> QED BY <1>7, <5>1 DEF Rows
      <4> QED BY <1>1, <1>4, <4>1, <4>2 DEF RowsInv
    <3> QED BY <2>2, <3>1, <3>2
  <2>5. ASSUME NEW k \in Jobs, k \in begun <=> settled'[k] = "none"
        PROVE  \E i \in 1..Len(entries') : entries'[i].job = k
    <3>1. CASE k = j
      BY <1>3, <2>2, <3>1
    <3>2. CASE k # j
      <4>1. PICK p \in 1..Len(entries) : entries[p].job = k
        BY <1>1, <1>4, <2>5, <3>2 DEF RowsInv
      <4>2. entries[p].state = "running" \/ k \in Ledger!Late
        BY <1>1, <1>4, <2>5, <3>2, <4>1 DEF RowsInv, Ledger!Late, Ledger!None
      <4>3. PICK i \in 1..Len(entries') : entries'[i] = entries[p]
        BY <2>2, <4>1, <4>2
      <4> QED BY <4>1, <4>3
    <3> QED BY <3>1, <3>2
  <2> QED BY <1>1, <2>3, <2>4, <2>5 DEF LedgerInv, RowsInv
<1> QED BY <1>6, <1>7

\* ... and the note that it was delivered.
LEMMA DeliveryKeepsRows ==
  ASSUME LedgerInv, NEW j \in Jobs, Ledger!MarkDelivered(j)
  PROVE  LedgerInv'
<1>1. LedgerTypeInv /\ RowsInv /\ begun' = begun /\ settled' = settled
  BY DEF LedgerInv, Ledger!MarkDelivered
<1>2. PICK d \in {"yes", "no"} :
        entries' = [i \in DOMAIN entries |->
                      IF entries[i].job = j /\ entries[i].state # "running"
                         /\ entries[i].delivered = "none"
                      THEN [entries[i] EXCEPT !.delivered = d] ELSE entries[i]]
  BY DEF Ledger!MarkDelivered, Ledger!None
<1>3. /\ entries \in Seq(Rows) /\ EachOnce(entries) /\ Len(entries) <= MaxEntries
      /\ Len(entries) \in Nat /\ DOMAIN entries = 1..Len(entries)
  BY <1>1 DEF LedgerTypeInv
<1>4. ASSUME NEW i \in 1..Len(entries)
      PROVE  /\ entries'[i] \in Rows
             /\ entries'[i].job = entries[i].job /\ entries'[i].state = entries[i].state
  <2>1. PICK s : s = [entries[i] EXCEPT !.delivered = d]
    OBVIOUS
  <2>2. entries[i] \in Rows
    BY <1>3
  <2>3. s = [job |-> entries[i].job, state |-> entries[i].state, delivered |-> d]
    BY <2>1, <2>2 DEF Rows
  <2>4. s \in Rows /\ s.job = entries[i].job /\ s.state = entries[i].state
    BY <2>2, <2>3 DEF Rows
  <2>5. entries'[i] = s \/ entries'[i] = entries[i]
    BY <1>2, <1>3, <2>1
  <2> QED BY <2>2, <2>4, <2>5
<1>5. entries' \in Seq(Rows) /\ Len(entries') = Len(entries)
  <2>1. entries' \in [1..Len(entries) -> Rows]
    <3>1. DOMAIN entries' = 1..Len(entries) /\ entries' = [i \in 1..Len(entries) |-> entries'[i]]
      BY <1>2, <1>3
    <3> QED BY <1>4, <3>1
  <2> QED BY <1>3, <2>1
<1>6. LedgerTypeInv'
  BY <1>1, <1>3, <1>4, <1>5 DEF LedgerTypeInv, EachOnce
<1>7. RowsInv'
  BY <1>1, <1>4, <1>5 DEF RowsInv
<1> QED BY <1>6, <1>7 DEF LedgerInv

\* Each of its steps keeps it.
LEMMA LedgerStep == LedgerInv /\ [Ledger!Next]_(Ledger!vars) => LedgerInv'
<1> SUFFICES ASSUME LedgerInv, [Ledger!Next]_(Ledger!vars) PROVE LedgerInv'
  OBVIOUS
<1>1. CASE Ledger!Next
  BY <1>1, BeginKeepsRows, RecordKeepsRows, DeliveryKeepsRows DEF Ledger!Next
<1>2. CASE UNCHANGED Ledger!vars
  BY <1>2 DEF Ledger!vars, LedgerInv, LedgerTypeInv, RowsInv, EachOnce
<1> QED BY <1>1, <1>2

\* A job that began is found running until it settles, however many settled since,
\* and a settled one as it settled, for any number of jobs and any size of the
\* table: jobs.JobLedger with its handlers, workers and receivers in any order.
THEOREM LedgerTrue == EdgesSpec => []LedgerIsTrue
<1>1. EdgesInit => LedgerInv
  BY LedgerStart DEF EdgesInit
<1>2. [EdgesNext]_edgesVars => [Ledger!Next]_(Ledger!vars)
  BY DEF EdgesNext, edgesVars, ledgerVars, Ledger!vars
<1>3. LedgerInv => LedgerIsTrue
  <2> SUFFICES ASSUME LedgerInv, NEW j \in Jobs
               PROVE  /\ j \in begun /\ settled[j] = "none" => Ledger!State(j) = "running"
                      /\ settled[j] # "none" /\ Ledger!Has(j) => Ledger!State(j) = settled[j]
    BY DEF LedgerIsTrue, Ledger!LedgerIsTrue, Ledger!None
  <2>1. ASSUME NEW p \in 1..Len(entries), entries[p].job = j
        PROVE  Ledger!State(j) = IF settled[j] = "none" THEN "running" ELSE settled[j]
    BY <2>1, Found1 DEF LedgerInv, RowsInv
  <2>2. (\A i \in 1..Len(entries) : entries[i].job # j) => ~Ledger!Has(j)
    BY NotFound DEF LedgerInv
  <2>3. j \in begun /\ settled[j] = "none" => \E p \in 1..Len(entries) : entries[p].job = j
    BY DEF LedgerInv, RowsInv
  <2> QED BY <2>1, <2>2, <2>3
<1> QED BY <1>1, <1>2, <1>3, LedgerStep, PTL DEF EdgesSpec
=============================================================================
