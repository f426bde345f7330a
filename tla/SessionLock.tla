---------------------------- MODULE SessionLock ----------------------------
(***************************************************************************)
(* One session directory, several kilix-voiced processes: the lock file    *)
(* that makes one of them the owner (arbiter.Arbiter), and the control     *)
(* socket the owner binds and unlinks (Daemon.run, _bind, _shutdown).      *)
(*                                                                         *)
(* Every system call on a path is a step of its own, and any process may   *)
(* be killed between two of them.  A file is identified by the process     *)
(* that created it, which stands for its inode number: a process creates   *)
(* each of the two files at most once.                                     *)
(***************************************************************************)
EXTENDS Naturals, FiniteSets

CONSTANTS
  Procs,         \* the daemon processes, each of which is started once
  Pids,          \* the process ids the system hands out, over and over
  Serial,        \* TRUE if a daemon is only started when no other is starting
  OwnPidReused,  \* TRUE if a daemon may get the pid of a daemon that died
  MaxCrashes     \* how many daemons are killed

CONSTANT Nobody  \* no process: a path that names no file

ASSUME SessionAssumption ==
  /\ Nobody \notin Procs
  /\ Serial \in BOOLEAN /\ OwnPidReused \in BOOLEAN
  /\ MaxCrashes \in Nat

Attempts == 3    \* _TAKEOVER_ATTEMPTS

VARIABLES
  pc,        \* where each process is
  pid,       \* its process id, chosen when it starts
  tries,     \* its attempts at creating the lock file
  seen,      \* the creator of the lock file it read, Nobody if it was missing
  named,     \* the file it read named a process
  old,       \* the file it looked at was past the grace period
  lock,      \* the creator of the lock file, or Nobody
  written,   \* the lock file names its creator
  aged,      \* the lock file is past the grace period
  sock,      \* the creator of the control socket's path, or Nobody
  mine,      \* the socket each process recorded as its own
  outsiders, \* pids now held by processes that are not daemons
  crashes    \* how many daemons were killed

procVars == <<pid, tries, seen, named, old, mine>>
lockVars == <<lock, written, aged>>
vars == <<pc, procVars, lockVars, sock, outsiders, crashes>>

Starting == {"create", "claim", "stat", "read", "judge", "unlink"}
Owning == {"clear", "unlinkStale", "bind", "record", "serve", "shutdown",
           "unlinkOwn", "release", "unlinkLock"}
Ended == {"idle", "refused", "done", "killed"}

TypeOK ==
  /\ pc \in [Procs -> Starting \cup Owning \cup Ended]
  /\ pid \in [Procs -> Pids]
  /\ tries \in [Procs -> 0..Attempts]
  /\ seen \in [Procs -> Procs \cup {Nobody}]
  /\ named \in [Procs -> BOOLEAN]
  /\ old \in [Procs -> BOOLEAN]
  /\ mine \in [Procs -> Procs \cup {Nobody}]
  /\ lock \in Procs \cup {Nobody}
  /\ written \in BOOLEAN
  /\ aged \in BOOLEAN
  /\ sock \in Procs \cup {Nobody}
  /\ outsiders \subseteq Pids
  /\ crashes \in 0..MaxCrashes

Live(p) == pc[p] \notin Ended
Owner(p) == pc[p] \in Owning

Init ==
  /\ pc = [p \in Procs |-> "idle"]
  /\ pid \in [Procs -> Pids]
  /\ tries = [p \in Procs |-> 0]
  /\ seen = [p \in Procs |-> Nobody]
  /\ named = [p \in Procs |-> FALSE]
  /\ old = [p \in Procs |-> FALSE]
  /\ mine = [p \in Procs |-> Nobody]
  /\ lock = Nobody /\ written = FALSE /\ aged = FALSE
  /\ sock = Nobody
  /\ outsiders = {}
  /\ crashes = 0

Goto(p, next) == pc' = [pc EXCEPT ![p] = next]

At(p, here) == pc[p] = here /\ UNCHANGED <<pid, outsiders, crashes>>

\* A step of p that looks at a file and changes none.
Look(p, here) == At(p, here) /\ UNCHANGED <<lockVars, sock>>

-----------------------------------------------------------------------------
(* Becoming the owner: acquire_session.                                    *)

\* A process starts with a pid nothing alive has.
Start(p) ==
  /\ pc[p] = "idle"
  /\ Serial => \A q \in Procs : pc[q] \notin Starting
  /\ pid[p] \notin outsiders
  /\ \A q \in Procs \ {p} : Live(q) => pid[q] # pid[p]
  /\ OwnPidReused \/ \A q \in Procs : pc[q] = "killed" => pid[q] # pid[p]
  /\ Goto(p, "create")
  /\ UNCHANGED <<procVars, lockVars, sock, outsiders, crashes>>

\* Mutant: the lock file is opened without O_EXCL.
CreateShared(p) ==
  /\ At(p, "create")
  /\ tries' = [tries EXCEPT ![p] = @ + 1]
  /\ lock' = p /\ written' = FALSE /\ aged' = FALSE /\ Goto(p, "claim")
  /\ UNCHANGED <<seen, named, old, mine, sock>>

\* open(O_CREAT | O_EXCL): the file is created empty, or one is there.
Create(p) ==
  /\ At(p, "create")
  /\ tries' = [tries EXCEPT ![p] = @ + 1]
  /\ IF lock = Nobody
     THEN lock' = p /\ written' = FALSE /\ aged' = FALSE /\ Goto(p, "claim")
     ELSE Goto(p, "stat") /\ UNCHANGED lockVars
  /\ UNCHANGED <<seen, named, old, mine, sock>>

\* _claim writes the owner's pid; a failed write removes the path again.
\* The write goes to the file p created, whatever the path names by now.
Claim(p) ==
  /\ At(p, "claim")
  /\ \/ written' = (written \/ lock = p) /\ Goto(p, "clear") /\ UNCHANGED lock
     \/ lock' = Nobody /\ Goto(p, "refused") /\ UNCHANGED written
  /\ UNCHANGED <<procVars, aged, sock>>

\* _read_lock, first the age, from stat() ...
StatLock(p) ==
  /\ Look(p, "stat")
  /\ seen' = [seen EXCEPT ![p] = lock]
  /\ named' = [named EXCEPT ![p] = FALSE]
  /\ old' = [old EXCEPT ![p] = lock = Nobody \/ aged]
  /\ Goto(p, IF lock = Nobody THEN "judge" ELSE "read")
  /\ UNCHANGED <<tries, mine>>

\* ... then the contents, from open().  A file that is missing reads as one
\* that names nobody and is infinitely old.
ReadLock(p) ==
  /\ Look(p, "read")
  /\ seen' = [seen EXCEPT ![p] = lock]
  /\ named' = [named EXCEPT ![p] = lock # Nobody /\ written]
  /\ old' = [old EXCEPT ![p] = @ \/ lock = Nobody]
  /\ Goto(p, "judge")
  /\ UNCHANGED <<tries, mine>>

\* Mutant: a live process with the recorded pid is taken for the owner.
AnyPidAlive(p, o) ==
  \/ pid[o] = pid[p]
  \/ pid[o] \in outsiders
  \/ \E q \in Procs : Live(q) /\ pid[q] = pid[o]

\* _process_alive: a process finds its own pid alive before it compares
\* start times; a pid reused by anything else has another start time.
ProcessAlive(p, o) == pid[o] = pid[p] \/ Live(o)

\* _take_over_stale_lock decides whether the file it read is stale.
Judge(p) ==
  /\ Look(p, "judge")
  /\ Goto(p, IF (IF named[p] THEN ProcessAlive(p, seen[p]) ELSE ~old[p])
             THEN "refused" ELSE "unlink")
  /\ UNCHANGED procVars

\* The stale lock is removed by its path, and the creation is retried.
Unlink(p) ==
  /\ At(p, "unlink")
  /\ lock' = Nobody
  /\ Goto(p, IF tries[p] < Attempts THEN "create" ELSE "refused")
  /\ UNCHANGED <<procVars, written, aged, sock>>

-----------------------------------------------------------------------------
(* The owner: the control socket, serving, and letting go.                 *)

\* _clear_stale_socket: the owner of the lock may remove what is there.
ClearSocket(p) ==
  /\ Look(p, "clear")
  /\ Goto(p, IF sock = Nobody THEN "bind" ELSE "unlinkStale")
  /\ UNCHANGED procVars

\* A path that vanished meanwhile makes the unlink, and the start, fail.
UnlinkStale(p) ==
  /\ At(p, "unlinkStale")
  /\ sock' = Nobody
  /\ Goto(p, IF sock = Nobody THEN "release" ELSE "bind")
  /\ UNCHANGED <<procVars, lockVars>>

\* bind() refuses a path that exists.
Bind(p) ==
  /\ At(p, "bind")
  /\ \/ sock = Nobody /\ sock' = p /\ Goto(p, "record")
     \/ Goto(p, "release") /\ UNCHANGED sock
  /\ UNCHANGED <<procVars, lockVars>>

\* The socket's inode is read back from its path; a failure leaves the path.
Record(p) ==
  /\ Look(p, "record")
  /\ \/ /\ sock # Nobody
        /\ mine' = [mine EXCEPT ![p] = sock]
        /\ Goto(p, "serve")
     \/ Goto(p, "release") /\ UNCHANGED mine
  /\ UNCHANGED <<pid, tries, seen, named, old>>

\* A signal, or idleness, ends the accept loop.
Stop(p) ==
  /\ Look(p, "serve")
  /\ Goto(p, "shutdown")
  /\ UNCHANGED procVars

\* _shutdown removes only the socket it recorded, looked up by its path ...
ShutdownLooks(p) ==
  /\ Look(p, "shutdown")
  /\ Goto(p, IF sock # Nobody /\ sock = mine[p] THEN "unlinkOwn" ELSE "release")
  /\ UNCHANGED procVars

UnlinkOwn(p) ==
  /\ At(p, "unlinkOwn")
  /\ sock' = Nobody
  /\ Goto(p, "release")
  /\ UNCHANGED <<procVars, lockVars>>

\* ... and release() removes only the lock it created, after the socket.
Release(p) ==
  /\ Look(p, "release")
  /\ Goto(p, IF lock = p THEN "unlinkLock" ELSE "done")
  /\ UNCHANGED procVars

UnlinkLock(p) ==
  /\ At(p, "unlinkLock")
  /\ lock' = Nobody
  /\ Goto(p, "done")
  /\ UNCHANGED <<procVars, written, aged, sock>>

-----------------------------------------------------------------------------
(* The system around the daemons.                                          *)

\* A daemon is killed wherever it is and leaves its files behind.
Crash(p) ==
  /\ Live(p)
  /\ crashes < MaxCrashes
  /\ crashes' = crashes + 1
  /\ Goto(p, "killed")
  /\ UNCHANGED <<procVars, lockVars, sock, outsiders>>

\* The grace period passes.  A live starter names itself well within it.
Age ==
  /\ lock # Nobody /\ ~aged
  /\ written \/ ~Live(lock)
  /\ aged' = TRUE
  /\ UNCHANGED <<pc, procVars, lock, written, sock, outsiders, crashes>>

\* The pid of a killed daemon is given to a process that is no daemon.
Recycle(p) ==
  /\ pc[p] = "killed"
  /\ \A q \in Procs : Live(q) => pid[q] # pid[p]
  /\ outsiders' = outsiders \cup {pid[p]}
  /\ UNCHANGED <<pc, procVars, lockVars, sock, crashes>>

Acquire(p) == Create(p) \/ Claim(p) \/ StatLock(p) \/ ReadLock(p) \/ Judge(p) \/ Unlink(p)
Open(p) == ClearSocket(p) \/ UnlinkStale(p) \/ Bind(p) \/ Record(p)
Close(p) == ShutdownLooks(p) \/ UnlinkOwn(p) \/ Release(p) \/ UnlinkLock(p)

Next ==
  \/ \E p \in Procs :
       Start(p) \/ Acquire(p) \/ Open(p) \/ Stop(p) \/ Close(p) \/ Crash(p) \/ Recycle(p)
  \/ Age

Spec == Init /\ [][Next]_vars

-----------------------------------------------------------------------------
(* Properties.                                                             *)

\* arbiter.py: the session lock "makes exactly one process the owner".
OneOwner == \A p, q \in Procs : Owner(p) /\ Owner(q) => p = q

\* Whoever serves is who the control socket's path leads to: no daemon that
\* starts or stops takes the socket away from a live one.
ServedSocketIsOwn == \A p \in Procs : pc[p] = "serve" => sock = p

\* A start is only refused as already running while the process that wrote
\* the lock runs: a lock whose owner is gone is taken over.
RefusedByTheLiving ==
  [][\A p \in Procs :
       pc[p] = "judge" /\ pc'[p] = "refused" /\ named[p] => Live(seen[p])]_vars
=============================================================================
