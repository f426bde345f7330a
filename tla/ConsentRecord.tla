--------------------------- MODULE ConsentRecord ---------------------------
(***************************************************************************)
(* The record of consent (consent.py): one file, replaced whole by an      *)
(* atomic rename, and read-modify-write transactions of several processes  *)
(* under one lock file.  A grant binds a subject to a digest and keeps the *)
(* time it was given.  A process may be killed between any two steps: the  *)
(* kernel then gives up its lock, and its temporary file stays behind.     *)
(***************************************************************************)
EXTENDS Naturals, FiniteSets

CONSTANTS
  Writers,   \* processes that grant or revoke
  Subjects, Digests,
  MaxOps     \* transactions in a run; it is also the clock of granted_utc

VARIABLES
  file,      \* the grants on disk, or Bad: not a record _load accepts
  lock,      \* the writer that holds consent.lock, or None
  pc,        \* per writer: where it is
  op,        \* per writer: what it was asked
  mine,      \* per writer: the grants it loaded and changed
  strays,    \* temporary files a crash left
  asked      \* transactions asked for

vars == <<file, lock, pc, op, mine, strays, asked>>

None == "none"
NoGrant == [digest |-> None, utc |-> 0]
NoGrants == [s \in Subjects |-> NoGrant]
Bad == [s \in Subjects |-> [digest |-> "damaged", utc |-> 0]]

Init ==
  /\ file \in {NoGrants, Bad}
  /\ lock = None
  /\ pc = [w \in Writers |-> "idle"]
  /\ op = [w \in Writers |-> NoGrant]
  /\ mine = [w \in Writers |-> NoGrants]
  /\ strays = 0 /\ asked = 0

\* grant(subject, digest) or revoke(subject), in a process of its own.
Ask(w) ==
  /\ pc[w] = "idle" /\ asked < MaxOps
  /\ asked' = asked + 1
  /\ \E s \in Subjects, d \in Digests \cup {None} :
       op' = [op EXCEPT ![w] = [subject |-> s, digest |-> d, utc |-> asked']]
  /\ pc' = [pc EXCEPT ![w] = "lock"]
  /\ UNCHANGED <<file, lock, mine, strays>>

\* Mutant: readers are safe without the lock, so writers do without it.
LockShared(w) ==
  /\ pc[w] = "lock"
  /\ pc' = [pc EXCEPT ![w] = "load"]
  /\ UNCHANGED <<file, lock, op, mine, strays, asked>>

\* _transaction: the lock file is never the file that is replaced.
Lock(w) ==
  /\ pc[w] = "lock" /\ lock = None
  /\ lock' = w
  /\ pc' = [pc EXCEPT ![w] = "load"]
  /\ UNCHANGED <<file, op, mine, strays, asked>>

\* What the transaction makes of the record it read, or the record itself.
Changed(grants, o) ==
  IF o.digest # None /\ grants[o.subject].digest = o.digest
  THEN grants
  ELSE [grants EXCEPT ![o.subject] = IF o.digest = None THEN NoGrant
                                     ELSE [digest |-> o.digest, utc |-> o.utc]]

\* _load refuses a record it cannot read as one; a grant already there, and a
\* revocation of nothing, write nothing.
Load(w) ==
  /\ pc[w] = "load"
  /\ IF file = Bad
     THEN pc' = [pc EXCEPT ![w] = "unlock"] /\ UNCHANGED mine
     ELSE /\ mine' = [mine EXCEPT ![w] = Changed(file, op[w])]
          /\ pc' = [pc EXCEPT ![w] = IF mine'[w] = file THEN "unlock" ELSE "temporary"]
  /\ UNCHANGED <<file, lock, op, strays, asked>>

\* _write: a temporary file, synced, then the rename; a failure to write it
\* removes it and leaves the record alone.
Temporary(w) ==
  /\ pc[w] = "temporary"
  /\ \E ok \in BOOLEAN : pc' = [pc EXCEPT ![w] = IF ok THEN "replace" ELSE "unlock"]
  /\ UNCHANGED <<file, lock, op, mine, strays, asked>>

Replace(w) ==
  /\ pc[w] = "replace"
  /\ file' = mine[w]
  /\ pc' = [pc EXCEPT ![w] = "unlock"]
  /\ UNCHANGED <<lock, op, mine, strays, asked>>

Unlock(w) ==
  /\ pc[w] = "unlock"
  /\ lock' = IF lock = w THEN None ELSE lock
  /\ pc' = [pc EXCEPT ![w] = "idle"]
  /\ op' = [op EXCEPT ![w] = NoGrant] /\ mine' = [mine EXCEPT ![w] = NoGrants]
  /\ UNCHANGED <<file, strays, asked>>

Crash(w) ==
  /\ pc[w] # "idle"
  /\ lock' = IF lock = w THEN None ELSE lock
  /\ strays' = strays + (IF pc[w] = "replace" THEN 1 ELSE 0)
  /\ pc' = [pc EXCEPT ![w] = "idle"]
  /\ op' = [op EXCEPT ![w] = NoGrant] /\ mine' = [mine EXCEPT ![w] = NoGrants]
  /\ UNCHANGED <<file, asked>>

\* Somebody removes a record no process can read, as its refusal says.
Remove ==
  /\ file = Bad /\ file' = NoGrants
  /\ UNCHANGED <<lock, pc, op, mine, strays, asked>>

Step(w) == Lock(w) \/ Load(w) \/ Temporary(w) \/ Replace(w) \/ Unlock(w)
Next == Remove \/ \E w \in Writers : Ask(w) \/ Step(w) \/ Crash(w)

\* The lock is granted in the end to whoever waits for it.
Fairness == \A w \in Writers : SF_vars(Lock(w)) /\ WF_vars(Step(w))
Spec == Init /\ [][Next]_vars
FairSpec == Spec /\ Fairness

\* granted: reads without the lock.
Granted(s, d) == file[s].digest = d

-----------------------------------------------------------------------------
(* Properties.                                                             *)

\* Writing is of one subject, the one its transaction was asked about: no
\* grant or revocation that another process committed is undone, whoever was
\* killed in between, and a grant for the digest already agreed to keeps the
\* time of the agreement.
OthersAreKept ==
  [][file' # file /\ file # Bad =>
       \E w \in Writers :
         /\ pc[w] = "replace"
         /\ \A s \in Subjects \ {op[w].subject} : file'[s] = file[s]
         /\ \A d \in Digests : Granted(op[w].subject, d) => op[w].digest # d]_vars
=============================================================================
