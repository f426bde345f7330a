--------------------------- MODULE HearingProofs ---------------------------
(***************************************************************************)
(* Listening, one machine after the other: the lifecycle of a resource, the*)
(* record of consent, managed capture, the capture queue, the voice        *)
(* activity detector and the recognisers.  What is safe needs no fairness, *)
(* and what is proved of a machine holds of the composition.               *)
(***************************************************************************)
EXTENDS MCHearing, FilterProofs, FiniteSetTheorems, SequenceTheorems

\* The composition's steps, whatever is fair about them.
LEMMA HearingSteps == HearingSpec => HearingInit /\ [][HearingNext]_hearingVars
BY DEF HearingSpec

-----------------------------------------------------------------------------
(* The lifecycle of a resource (ResourceLifecycle).                        *)

\* Where a thread is says what it is in, and whether it can have a child.
ThreadInv ==
  \A t \in Threads :
    /\ pc[t] \in Working <=> inside[t] # "none"
    /\ again[t] => inside[t] = "use"
    /\ spawned[t] => pc[t] = "publish"

\* A close in progress holds the disposing flag, alone, after the request.
CloseInv ==
  /\ OneDisposal
  /\ \A t \in Threads : pc[t] \in Closing => disposing /\ requested

\* No operation is left when a disposal runs, and none can begin.
DisposeInv ==
  \A t \in Threads :
    /\ pc[t] \in {"dispose", "proven"} => \A u \in Threads : inside[u] = "none"
    /\ pc[t] = "proven" => process = "none"

ClosedInv ==
  state = "closed" =>
    /\ requested /\ ~disposing
    /\ process = "none"
    /\ \A t \in Threads : inside[t] = "none"

ResourceInv == TypeOK /\ ThreadInv /\ CloseInv /\ DisposeInv /\ ClosedInv

\* The counts are zero exactly when no thread is in an operation.
LEMMA NobodyCounted ==
  ASSUME TypeOK, ThreadInv PROVE Counted = {} <=> \A t \in Threads : inside[t] = "none"
<1>1. ASSUME NEW t \in Threads
      PROVE  t \in Counted <=> inside[t] # "none"
  BY <1>1 DEF TypeOK, ThreadInv, Counted, Starters, Users, Working
<1>2. Counted \subseteq Threads
  BY DEF Counted, Starters, Users
<1>3. QED
  BY <1>1, <1>2

\* The invariant holds before any thread comes.
LEMMA ResourceStart == Init => ResourceInv
<1> SUFFICES ASSUME Init PROVE ResourceInv
  OBVIOUS
<1>1. requested \in BOOLEAN /\ disposing \in BOOLEAN
  BY Zenon DEF Init
<1>2. TypeOK
  BY <1>1 DEF Init, TypeOK
<1>3. ThreadInv /\ CloseInv /\ DisposeInv /\ ClosedInv
  BY DEF Init, ThreadInv, CloseInv, DisposeInv, ClosedInv, OneDisposal, Working, Closing
<1>4. QED
  BY <1>2, <1>3 DEF ResourceInv

\* Every step keeps it.
LEMMA ResourceStep == ResourceInv /\ [Next]_vars => ResourceInv'
<1> SUFFICES ASSUME ResourceInv, [Next]_vars PROVE ResourceInv'
  OBVIOUS
<1> USE DEF ResourceInv, TypeOK, ThreadInv, CloseInv, DisposeInv, ClosedInv, OneDisposal,
        Working, Closing, Goto, Killed, threadVars
<1>a. \A a, b : StateOf(a, b) \in {"ready", "starting", "in use"}
  BY DEF StateOf
<1>1. ASSUME NEW t \in Threads, NEW kind \in {"start", "use"}, Enter(t, kind)
      PROVE  ResourceInv'
  <2>1. TypeOK'
    <3>1. state' \in {"ready", "starting", "in use", "closing", "closed", "unproven"}
      <4>1. state' = StateOf(Starters', Users')
        BY <1>1 DEF Enter
      <4>2. QED
        BY <4>1 DEF StateOf
    <3>2. QED
      BY <1>1, <3>1 DEF Enter
  <2>2. ThreadInv'
    BY <1>1 DEF Enter
  <2>3. CloseInv'
    <3>1. \A u \in Threads : pc'[u] \in Closing => pc[u] \in Closing
      BY <1>1 DEF Enter
    <3>2. QED
      BY <1>1, <3>1 DEF Enter
  <2>4. DisposeInv' /\ ClosedInv'
    BY <1>1, <1>a DEF Enter
  <2>5. QED
    BY <2>1, <2>2, <2>3, <2>4
<1>2. ASSUME NEW t \in Threads, EnterAgain(t)
      PROVE  ResourceInv'
  <2>1. TypeOK'
    <3>1. state' \in {"ready", "starting", "in use", "closing", "closed", "unproven"}
      BY <1>2, <1>a DEF EnterAgain
    <3>2. QED
      BY <1>2, <3>1 DEF EnterAgain
  <2>2. ThreadInv'
    BY <1>2 DEF EnterAgain
  <2>3. CloseInv'
    <3>1. \A u \in Threads : pc'[u] \in Closing => pc[u] \in Closing
      BY <1>2 DEF EnterAgain
    <3>2. QED
      BY <1>2, <3>1 DEF EnterAgain
  <2>4. DisposeInv' /\ ClosedInv'
    BY <1>2, <1>a DEF EnterAgain
  <2>5. QED
    BY <2>1, <2>2, <2>3, <2>4
<1>3. ASSUME NEW t \in Threads, LeaveAgain(t)
      PROVE  ResourceInv'
  <2>1. TypeOK'
    <3>1. state' \in {"ready", "starting", "in use", "closing", "closed", "unproven"}
      <4>1. state' = state \/ state' = StateOf(Starters, Users)
        BY <1>3 DEF LeaveAgain
      <4> QED BY <4>1, <1>a
    <3>2. QED
      BY <1>3, <3>1 DEF LeaveAgain
  <2>2. ThreadInv'
    BY <1>3 DEF LeaveAgain
  <2>3. CloseInv'
    <3>1. \A u \in Threads : pc'[u] \in Closing => pc[u] \in Closing
      BY <1>3 DEF LeaveAgain
    <3>2. QED
      BY <1>3, <3>1 DEF LeaveAgain
  <2>4. DisposeInv' /\ ClosedInv'
    BY <1>3, <1>a DEF LeaveAgain
  <2>5. QED
    BY <2>1, <2>2, <2>3, <2>4
<1>4. ASSUME NEW t \in Threads, Reap(t)
      PROVE  ResourceInv'
  <2>1. TypeOK'
    BY <1>4 DEF Reap
  <2>2. ThreadInv'
    BY <1>4 DEF Reap
  <2>3. CloseInv'
    <3>1. \A u \in Threads : pc'[u] \in Closing => pc[u] \in Closing
      BY <1>4 DEF Reap
    <3>2. QED
      BY <1>4, <3>1 DEF Reap
  <2>4. DisposeInv' /\ ClosedInv'
    BY <1>4 DEF Reap
  <2>5. QED
    BY <2>1, <2>2, <2>3, <2>4
<1>5. ASSUME NEW t \in Threads, Leave(t)
      PROVE  ResourceInv'
  <2>1. TypeOK'
    <3>1. state' \in {"ready", "starting", "in use", "closing", "closed", "unproven"}
      BY <1>5, <1>a DEF Leave
    <3>2. QED
      BY <1>5, <3>1 DEF Leave
  <2>2. ThreadInv'
    BY <1>5 DEF Leave
  <2>3. CloseInv'
    <3>1. \A u \in Threads : pc'[u] \in Closing => pc[u] \in Closing
      BY <1>5 DEF Leave
    <3>2. QED
      BY <1>5, <3>1 DEF Leave
  <2>4. DisposeInv' /\ ClosedInv'
    BY <1>5, <1>a DEF Leave
  <2>5. QED
    BY <2>1, <2>2, <2>3, <2>4
<1>6. ASSUME NEW t \in Threads, EnterAlloc(t)
      PROVE  ResourceInv'
  <2>1. TypeOK'
    BY <1>6 DEF EnterAlloc
  <2>2. ThreadInv'
    BY <1>6 DEF EnterAlloc
  <2>3. CloseInv'
    <3>1. \A u \in Threads : pc'[u] \in Closing => pc[u] \in Closing
      BY <1>6 DEF EnterAlloc
    <3>2. QED
      BY <1>6, <3>1 DEF EnterAlloc
  <2>4. DisposeInv' /\ ClosedInv'
    BY <1>6 DEF EnterAlloc
  <2>5. QED
    BY <2>1, <2>2, <2>3, <2>4
<1>7. ASSUME NEW t \in Threads, Allocate(t)
      PROVE  ResourceInv'
  <2>1. TypeOK'
    BY <1>7 DEF Allocate
  <2>2. ThreadInv'
    BY <1>7 DEF Allocate
  <2>3. CloseInv'
    <3>1. \A u \in Threads : pc'[u] \in Closing => pc[u] \in Closing
      BY <1>7 DEF Allocate
    <3>2. QED
      BY <1>7, <3>1 DEF Allocate
  <2>4. DisposeInv' /\ ClosedInv'
    BY <1>7 DEF Allocate
  <2>5. QED
    BY <2>1, <2>2, <2>3, <2>4
<1>8. ASSUME NEW t \in Threads, Publish(t)
      PROVE  ResourceInv'
  <2>1. TypeOK'
    BY <1>8 DEF Publish
  <2>2. ThreadInv'
    BY <1>8 DEF Publish
  <2>3. CloseInv'
    <3>1. \A u \in Threads : pc'[u] \in Closing => pc[u] \in Closing
      BY <1>8 DEF Publish
    <3>2. QED
      BY <1>8, <3>1 DEF Publish
  <2>4. DisposeInv' /\ ClosedInv'
    BY <1>8 DEF Publish
  <2>5. QED
    BY <2>1, <2>2, <2>3, <2>4
<1>9. ASSUME NEW t \in Threads, Check(t)
      PROVE  ResourceInv'
  <2>1. TypeOK'
    BY <1>9 DEF Check
  <2>2. ThreadInv'
    BY <1>9 DEF Check
  <2>3. CloseInv'
    <3>1. \A u \in Threads : pc'[u] \in Closing => pc[u] \in Closing
      BY <1>9 DEF Check
    <3>2. QED
      BY <1>9, <3>1 DEF Check
  <2>4. DisposeInv' /\ ClosedInv'
    BY <1>9 DEF Check
  <2>5. QED
    BY <2>1, <2>2, <2>3, <2>4
<1>10. ASSUME NEW t \in Threads, LeaveAlloc(t)
      PROVE  ResourceInv'
  <2>1. TypeOK'
    BY <1>10, <1>a DEF LeaveAlloc
  <2>2. ThreadInv'
    BY <1>10 DEF LeaveAlloc
  <2>3. CloseInv'
    <3>1. \A u \in Threads : pc'[u] \in Closing => pc[u] \in Closing
      BY <1>10 DEF LeaveAlloc
    <3>2. QED
      BY <1>10, <3>1 DEF LeaveAlloc
  <2>4. DisposeInv' /\ ClosedInv'
    BY <1>10, <1>a DEF LeaveAlloc
  <2>5. QED
    BY <2>1, <2>2, <2>3, <2>4
<1>11. ASSUME NEW t \in Threads, CloseByOwner(t)
      PROVE  ResourceInv'
  <2>1. TypeOK'
    BY <1>11 DEF CloseByOwner, Close
  <2>2. ThreadInv'
    BY <1>11 DEF CloseByOwner, Close
  <2>3. CloseInv'
    <3>1. \A u \in Threads : pc'[u] \in Closing => pc[u] \in Closing \/ (u = t /\ ~disposing)
      BY <1>11 DEF CloseByOwner, Close
    <3>2. \A u \in Threads : pc'[u] \in Closing => disposing' /\ requested'
      BY <1>11, <3>1 DEF CloseByOwner, Close
    <3>3. OneDisposal'
      BY <3>1
    <3>4. QED
      BY <3>2, <3>3
  <2>4. DisposeInv' /\ ClosedInv'
    BY <1>11 DEF CloseByOwner, Close
  <2>5. QED
    BY <2>1, <2>2, <2>3, <2>4
<1>12. ASSUME NEW t \in Threads, LastStarterOut(t)
      PROVE  ResourceInv'
  <2>1. TypeOK'
    BY <1>12 DEF LastStarterOut, Close
  <2>2. ThreadInv'
    <3>1. PICK p \in {"idle", "signal"} : pc' = [pc EXCEPT ![t] = p]
      BY <1>12 DEF LastStarterOut, Close
    <3>2. pc[t] = "left" /\ UNCHANGED <<inside, again, spawned>>
      BY <1>12 DEF LastStarterOut, Close
    <3> QED BY <3>1, <3>2
  <2>3. CloseInv'
    <3>1. \A u \in Threads : pc'[u] \in Closing => pc[u] \in Closing \/ (u = t /\ ~disposing)
      BY <1>12 DEF LastStarterOut, Close
    <3>2. \A u \in Threads : pc'[u] \in Closing => disposing' /\ requested'
      BY <1>12, <3>1 DEF LastStarterOut, Close
    <3>3. OneDisposal'
      BY <3>1
    <3>4. QED
      BY <3>2, <3>3
  <2>4. DisposeInv' /\ ClosedInv'
    BY <1>12, NobodyCounted DEF LastStarterOut, Close
  <2>5. QED
    BY <2>1, <2>2, <2>3, <2>4
<1>13. ASSUME NEW t \in Threads, Signal(t)
      PROVE  ResourceInv'
  <2>1. TypeOK'
    BY <1>13 DEF Signal
  <2>2. ThreadInv'
    BY <1>13 DEF Signal
  <2>3. CloseInv'
    <3>1. \A u \in Threads : pc'[u] \in Closing => pc[u] \in Closing
      BY <1>13 DEF Signal
    <3>2. QED
      BY <1>13, <3>1 DEF Signal
  <2>4. DisposeInv' /\ ClosedInv'
    BY <1>13 DEF Signal
  <2>5. QED
    BY <2>1, <2>2, <2>3, <2>4
<1>14. ASSUME NEW t \in Threads, Drain(t)
      PROVE  ResourceInv'
  <2>1. TypeOK'
    BY <1>14 DEF Drain
  <2>2. ThreadInv'
    BY <1>14 DEF Drain
  <2>3. CloseInv'
    <3>1. \A u \in Threads : pc'[u] \in Closing => pc[u] \in Closing
      BY <1>14 DEF Drain
    <3>2. QED
      BY <1>14, <3>1 DEF Drain
  <2>4. DisposeInv' /\ ClosedInv'
    BY <1>14, NobodyCounted DEF Drain
  <2>5. QED
    BY <2>1, <2>2, <2>3, <2>4
<1>15. ASSUME NEW t \in Threads, Dispose(t) PROVE ResourceInv'
  BY <1>15 DEF Dispose
<1>16. ASSUME NEW t \in Threads, Finish(t) PROVE ResourceInv'
  BY <1>16 DEF Finish
<1>17. CASE RequestClose
  BY <1>17 DEF RequestClose
<1>18. CASE Escalate
  BY <1>18 DEF Escalate
<1>19. CASE UNCHANGED vars
  BY <1>19 DEF vars
<1>20. QED
  BY <1>1, <1>2, <1>3, <1>4, <1>5, <1>6, <1>7, <1>8, <1>9, <1>10, <1>11, <1>12,
     <1>13, <1>14, <1>15, <1>16, <1>17, <1>18, <1>19
     DEF Next, Operation, Disposal

-----------------------------------------------------------------------------
\* The invariant holds of every resource (lifecycle.py).
THEOREM ResourceInvariant == Spec => []ResourceInv
BY ResourceStart, ResourceStep, PTL DEF Spec

\* Handles are freed by one thread, whoever calls close, while no operation
\* is in progress (Lifecycle.close, starting).
THEOREM DisposalSafe == Spec => []DisposalIsAlone
<1>1. ResourceInv => NoDisposalInUse
  BY NobodyCounted DEF ResourceInv, DisposeInv, NoDisposalInUse
<1>2. ResourceInv => OneDisposal
  BY DEF ResourceInv, CloseInv
<1>3. QED
  BY ResourceInvariant, <1>1, <1>2, PTL DEF DisposalIsAlone

\* A closed resource owns nothing any more (Resource.cleanup_complete).
THEOREM ClosedSafe == Spec => []ClosedIsProven
<1>1. ResourceInv => ClosedIsProven
  BY NobodyCounted DEF ResourceInv, ThreadInv, ClosedInv, ClosedIsProven, Working
<1>2. QED
  BY ResourceInvariant, <1>1, PTL

\* Nothing reopens a closed resource (Lifecycle.enter, request_close).
THEOREM ClosedStays == Spec => ClosedForEver
<1>1. ResourceInv /\ [Next]_vars => [state = "closed" => state' = "closed"]_vars
  <2> SUFFICES ASSUME ResourceInv, [Next]_vars, state = "closed" PROVE state' = "closed"
    OBVIOUS
  <2> USE DEF ResourceInv, TypeOK, ThreadInv, CloseInv, ClosedInv, Working, Closing
  <2>1. ASSUME NEW t \in Threads, Operation(t) PROVE FALSE
    BY <2>1 DEF Operation, EnterAgain, LeaveAgain, Reap, Leave, EnterAlloc,
       Allocate, Publish, Check, LeaveAlloc
  <2>2. ASSUME NEW t \in Threads, NEW kind \in {"start", "use"}, Enter(t, kind)
        PROVE  FALSE
    BY <2>2 DEF Enter
  <2>3. ASSUME NEW t \in Threads, CloseByOwner(t) \/ Disposal(t)
        PROVE  state' = "closed"
    BY <2>3 DEF CloseByOwner, Close, Disposal, LastStarterOut, Signal, Drain,
       Dispose, Finish
  <2>4. CASE RequestClose \/ Escalate \/ UNCHANGED vars
    BY <2>4 DEF RequestClose, Escalate, vars
  <2>5. QED
    BY <2>1, <2>2, <2>3, <2>4 DEF Next
<1>2. QED
  BY ResourceInvariant, <1>1, PTL DEF Spec, ClosedForEver

\* So it is of every resource of listening.
THEOREM ResourceClosed == HearingSpec => []ClosedIsProven
<1>1. HearingSpec => Spec
  <2>1. [HearingNext]_hearingVars => [Next]_vars
    BY DEF HearingNext, hearingVars
  <2>2. HearingInit => Init
    BY DEF HearingInit
  <2> QED BY <2>1, <2>2, HearingSteps, PTL DEF Spec
<1> QED BY <1>1, ClosedSafe, PTL

-----------------------------------------------------------------------------
(* The record of consent (ConsentRecord).                                  *)

\* None is neither a process nor a digest.
Distinct == Consent!None \notin Writers /\ Consent!None \notin Digests

Grants == [Subjects -> [digest : Digests \cup {Consent!None, "damaged"}, utc : Nat]]
Requests == [subject : Subjects, digest : Digests \cup {Consent!None}, utc : Nat]
ConsentPlaces == {"idle", "lock", "load", "temporary", "replace", "unlock"}
Holding == {"load", "temporary", "replace", "unlock"}

ConsentTypeInv ==
  /\ file \in Grants
  /\ step \in [Writers -> ConsentPlaces]
  /\ op \in [Writers -> Requests \cup {Consent!NoGrant}]
  /\ mine \in [Writers -> Grants]
  /\ asked \in Nat
  /\ \A w \in Writers : step[w] # "idle" => op[w] \in Requests

\* Whoever is inside a transaction holds the lock.
LockInv == \A w \in Writers : step[w] \in Holding => lock = w

\* What is about to be written is what was asked of the record as it is now,
\* and it does change the record.
CopyInv ==
  \A w \in Writers : step[w] \in {"temporary", "replace"} =>
    file # Consent!Bad /\ mine[w] = Consent!Changed(file, op[w]) /\ mine[w] # file

ConsentInv == ConsentTypeInv /\ LockInv /\ CopyInv

\* A change of a record is a record.
LEMMA ChangedType ==
  ASSUME NEW g \in Grants, NEW o \in Requests
  PROVE  Consent!Changed(g, o) \in Grants
  BY DEF Grants, Requests, Consent!Changed, Consent!NoGrant

\* The invariant holds before any transaction.
LEMMA ConsentStart == Consent!Init => ConsentInv
  BY DEF Consent!Init, ConsentInv, ConsentTypeInv, LockInv, CopyInv, Grants, ConsentPlaces,
       Holding, Consent!NoGrant, Consent!NoGrants, Consent!Bad, Consent!None

\* Every step of a writer, and its death, keeps it.
LEMMA ConsentStep ==
  ASSUME Distinct
  PROVE  ConsentInv /\ [Consent!Next]_(Consent!vars) => ConsentInv'
<1> SUFFICES ASSUME ConsentInv, [Consent!Next]_(Consent!vars) PROVE ConsentInv'
  OBVIOUS
<1> USE DEF ConsentInv
<1>1. CASE Consent!Remove
  BY <1>1 DEF Consent!Remove, ConsentTypeInv, LockInv, CopyInv, Grants, Consent!NoGrants,
       Consent!NoGrant
<1>2. ASSUME NEW w \in Writers, Consent!Ask(w) PROVE ConsentInv'
  <2>1. PICK s \in Subjects, d \in Digests \cup {Consent!None} :
          op' = [op EXCEPT ![w] = [subject |-> s, digest |-> d, utc |-> asked']]
    BY <1>2 DEF Consent!Ask
  <2>2. [subject |-> s, digest |-> d, utc |-> asked'] \in Requests
    BY <1>2 DEF Consent!Ask, ConsentTypeInv, Requests
  <2>3. ConsentTypeInv'
    BY <1>2, <2>1, <2>2 DEF Consent!Ask, ConsentTypeInv, ConsentPlaces
  <2>4. LockInv' /\ CopyInv'
    BY <1>2, <2>1 DEF Consent!Ask, ConsentTypeInv, LockInv, CopyInv, Holding
  <2> QED BY <2>3, <2>4
<1>3. ASSUME NEW w \in Writers, Consent!Lock(w) PROVE ConsentInv'
  BY <1>3 DEF Consent!Lock, Distinct, ConsentTypeInv, LockInv, CopyInv, ConsentPlaces, Holding,
       Consent!None
<1>4. ASSUME NEW w \in Writers, Consent!Load(w) PROVE ConsentInv'
  <2>1. op[w] \in Requests /\ Consent!Changed(file, op[w]) \in Grants
    BY <1>4, ChangedType DEF Consent!Load, ConsentTypeInv
  <2>2. ConsentTypeInv'
    BY <1>4, <2>1 DEF Consent!Load, ConsentTypeInv, ConsentPlaces
  <2>3. LockInv'
    BY <1>4 DEF Consent!Load, ConsentTypeInv, LockInv, Holding
  <2>4. CopyInv'
    BY <1>4 DEF Consent!Load, ConsentTypeInv, CopyInv
  <2> QED BY <2>2, <2>3, <2>4
<1>5. ASSUME NEW w \in Writers, Consent!Temporary(w) PROVE ConsentInv'
  BY <1>5 DEF Consent!Temporary, ConsentTypeInv, LockInv, CopyInv, ConsentPlaces, Holding
<1>6. ASSUME NEW w \in Writers, Consent!Replace(w) PROVE ConsentInv'
  <2>1. ConsentTypeInv'
    BY <1>6 DEF Consent!Replace, ConsentTypeInv, ConsentPlaces
  <2>2. LockInv'
    BY <1>6 DEF Consent!Replace, ConsentTypeInv, LockInv, Holding
  <2>3. \A v \in Writers \ {w} : step[v] \notin Holding
    BY <1>6 DEF Consent!Replace, LockInv, Holding
  <2>4. CopyInv'
    BY <1>6, <2>3 DEF Consent!Replace, ConsentTypeInv, CopyInv, Holding
  <2> QED BY <2>1, <2>2, <2>4
<1>7. ASSUME NEW w \in Writers, Consent!Unlock(w) PROVE ConsentInv'
  <2>1. ConsentTypeInv'
    BY <1>7 DEF Consent!Unlock, ConsentTypeInv, ConsentPlaces, Grants, Consent!NoGrants,
         Consent!NoGrant, Consent!None
  <2>2. LockInv' /\ CopyInv'
    BY <1>7 DEF Consent!Unlock, ConsentTypeInv, LockInv, CopyInv, Holding
  <2> QED BY <2>1, <2>2
<1>8. ASSUME NEW w \in Writers, Consent!Crash(w) PROVE ConsentInv'
  <2>1. ConsentTypeInv'
    BY <1>8 DEF Consent!Crash, ConsentTypeInv, ConsentPlaces, Grants, Consent!NoGrants,
         Consent!NoGrant, Consent!None
  <2>2. LockInv' /\ CopyInv'
    BY <1>8 DEF Consent!Crash, ConsentTypeInv, LockInv, CopyInv, Holding
  <2> QED BY <2>1, <2>2
<1>9. CASE UNCHANGED Consent!vars
  BY <1>9 DEF Consent!vars, ConsentTypeInv, LockInv, CopyInv
<1> QED
  BY <1>1, <1>2, <1>3, <1>4, <1>5, <1>6, <1>7, <1>8, <1>9 DEF Consent!Next, Consent!Step

\* The grants and revocations of other processes are kept, and no agreement is
\* dated anew, for any writers, subjects and digests, with a process killed
\* between any two steps: _transaction holds its lock from the read to the
\* rename.
THEOREM OthersSafe ==
  ASSUME Distinct
  PROVE  HearingSpec => OthersAreKept
<1> DEFINE Kept == file' # file /\ file # Consent!Bad =>
                     \E w \in Writers :
                       /\ step[w] = "replace"
                       /\ \A s \in Subjects \ {op[w].subject} : file'[s] = file[s]
                       /\ \A d \in Digests : Consent!Granted(op[w].subject, d) => op[w].digest # d
<1>1. ConsentInv /\ [Consent!Next]_(Consent!vars) => [Kept]_(Consent!vars)
  <2> SUFFICES ASSUME ConsentInv, Consent!Next, file' # file, file # Consent!Bad
               PROVE  \E w \in Writers :
                        /\ step[w] = "replace"
                        /\ \A s \in Subjects \ {op[w].subject} : file'[s] = file[s]
                        /\ \A d \in Digests : Consent!Granted(op[w].subject, d) => op[w].digest # d
    OBVIOUS
  <2>1. PICK w \in Writers : Consent!Replace(w)
    BY DEF Consent!Next, Consent!Remove, Consent!Step, Consent!Ask, Consent!Lock, Consent!Load,
           Consent!Temporary, Consent!Unlock, Consent!Crash
  <2>2. /\ step[w] = "replace" /\ op[w] \in Requests /\ file \in Grants
        /\ file' = Consent!Changed(file, op[w]) /\ file' # file
    BY <2>1 DEF Consent!Replace, ConsentInv, ConsentTypeInv, CopyInv
  <2>3. \A s \in Subjects \ {op[w].subject} : file'[s] = file[s]
    BY <2>2 DEF Consent!Changed, Grants, Requests
  <2>4. \A d \in Digests : Consent!Granted(op[w].subject, d) => op[w].digest # d
    BY <2>2 DEF Consent!Changed, Consent!Granted, Distinct
  <2> QED BY <2>2, <2>3, <2>4
<1>2. HearingInit => Consent!Init
  BY DEF HearingInit
<1>3. [HearingNext]_hearingVars => [Consent!Next]_(Consent!vars)
  BY DEF HearingNext, hearingVars, consentVars, Consent!vars
<1> QED BY <1>1, <1>2, <1>3, ConsentStart, ConsentStep, HearingSteps, PTL
        DEF OthersAreKept, Consent!OthersAreKept

-----------------------------------------------------------------------------
(* Managed capture (Microphone).                                           *)

Supervisors == {"none", "checks", "records", "reaps", "reaped", "exited", "killed"}

\* No recorder before the supervisor started one, none after it reaped all; and
\* its proof says so.
SupInv ==
  /\ sup \in Supervisors
  /\ sup \in {"none", "checks", "reaped", "exited"} => alive = {}
  /\ marker => sup = "exited"

\* There is a supervisor, or will be one, only while the device was taken and
\* nobody gave it back.
ClientInv ==
  /\ client = "new" => lease = "none" /\ sup = "none" /\ at = "none"
  /\ client = "starting" /\ sup = "none" /\ daemon => lease = "held" /\ phase = "recording"
  /\ sup = "none" => at = "none"
  /\ at \notin {"none", "done"} => sup # "none"

\* Nothing of the capture lives.
Silent == alive = {} /\ (sup = "none" \/ Managed!Gone(sup))

DeviceInv ==
  /\ lease = "released" => Silent /\ (sup = "none" => client = "closed" \/ ~daemon)
  /\ daemon /\ phase = "inactive" =>
       lease = "released" \/ (sup = "none" /\ client \in {"new", "closed"})

MicrophoneInv == SupInv /\ ClientInv /\ DeviceInv

\* The invariant holds before a capture.
LEMMA MicrophoneStart == Managed!Init => MicrophoneInv
  BY DEF Managed!Init, MicrophoneInv, SupInv, ClientInv, DeviceInv, Supervisors, Silent

\* The daemon's side.
LEMMA OwnerInv ==
  ASSUME MicrophoneInv,
         Managed!Owner \/ Managed!Leaves \/ Managed!Kill \/ Managed!Finished \/ Managed!RequestStop \/ Managed!StopReturns \/ Managed!StopTimesOut
  PROVE  MicrophoneInv'
<1> USE DEF MicrophoneInv, SupInv, ClientInv, DeviceInv, Supervisors, Silent, Managed!Gone
<1>1. CASE Managed!Acquire
  BY <1>1 DEF Managed!Acquire
<1>2. CASE Managed!StartFails
  BY <1>2 DEF Managed!StartFails, Managed!Finish
<1>3. CASE Managed!Spawn
  BY <1>3 DEF Managed!Spawn
<1>4. CASE Managed!StartWatcher \/ Managed!Started
  BY <1>4 DEF Managed!StartWatcher, Managed!Started
<1>5. CASE Managed!Leaves
  BY <1>5 DEF Managed!Leaves
<1>6. CASE Managed!Kill
  BY <1>6 DEF Managed!Kill
<1>7. CASE Managed!Finished
  BY <1>7 DEF Managed!Finished, Managed!Finish, Managed!Proven
<1>8. CASE Managed!RequestStop \/ Managed!StopReturns \/ Managed!StopTimesOut
  BY <1>8 DEF Managed!RequestStop, Managed!StopReturns, Managed!StopTimesOut
<1> QED BY <1>1, <1>2, <1>3, <1>4, <1>5, <1>6, <1>7, <1>8 DEF Managed!Owner

\* The supervisor, the recorder and the kills.
LEMMA SupervisedInv ==
  ASSUME MicrophoneInv,
         Managed!Refuses \/ Managed!Records \/ Managed!StopsRecording \/ Managed!Reaps \/ Managed!Proves
           \/ Managed!Forks \/ Managed!Exits \/ Managed!SupervisorDies \/ Managed!DaemonDies
  PROVE  MicrophoneInv'
<1> USE DEF MicrophoneInv, SupInv, ClientInv, DeviceInv, Supervisors, Silent, Managed!Gone
<1>1. CASE Managed!Refuses \/ Managed!Records \/ Managed!StopsRecording
  BY <1>1 DEF Managed!Refuses, Managed!Records, Managed!StopsRecording
<1>2. CASE Managed!Reaps
  BY <1>2 DEF Managed!Reaps, Managed!Reap
<1>3. CASE Managed!Proves
  BY <1>3 DEF Managed!Proves
<1>4. CASE Managed!Forks \/ Managed!Exits
  BY <1>4 DEF Managed!Forks, Managed!Exits
<1>5. CASE Managed!SupervisorDies
  BY <1>5 DEF Managed!SupervisorDies
<1>6. CASE Managed!DaemonDies
  BY <1>6 DEF Managed!DaemonDies
<1> QED BY <1>1, <1>2, <1>3, <1>4, <1>5, <1>6

\* Every step, and every death, keeps it.
LEMMA MicrophoneStep == MicrophoneInv /\ [Managed!Next]_(Managed!vars) => MicrophoneInv'
<1>1. MicrophoneInv /\ UNCHANGED Managed!vars => MicrophoneInv'
  BY DEF MicrophoneInv, SupInv, ClientInv, DeviceInv, Silent, Managed!Gone, Managed!vars
<1> QED BY <1>1, OwnerInv, SupervisedInv DEF Managed!Next

\* The device goes to its next user, and the indicator off, only when neither
\* the recorder, nor what it forked, nor its supervisor lives, whoever is
\* killed and whatever a starter or a watcher leaves open.
THEOREM ReleasedSafe == HearingSpec => [](part = "managed" => Managed!ReleasedIsSilent)
<1>1. MicrophoneInv => Managed!ReleasedIsSilent
  BY DEF MicrophoneInv, SupInv, DeviceInv, Managed!ReleasedIsSilent, Silent, Managed!Gone
<1>2. HearingInit => Managed!Init
  BY DEF HearingInit
<1>3. [HearingNext]_hearingVars => [Managed!Next]_(Managed!vars)
  BY DEF HearingNext, hearingVars, microphoneVars, Managed!vars
<1> QED BY <1>1, <1>2, <1>3, MicrophoneStart, MicrophoneStep, HearingSteps, PTL

-----------------------------------------------------------------------------
(* The voice activity detector (Vad).                                      *)

\* A bounded history that is not empty is one of the same frames.
LEMMA LastIs ==
  ASSUME NEW S, NEW s \in Seq(S), s # <<>>, NEW n \in Nat \ {0}
  PROVE  Detector!Last(s, n) \in Seq(S) /\ Detector!Last(s, n) # <<>>
<1>1. CASE Len(s) <= n
  BY <1>1 DEF Detector!Last
<1>2. CASE Len(s) > n
  <2>1. Len(s) - n + 1 \in 1..Len(s) /\ Len(s) \in Nat /\ Len(s) - (Len(s) - n + 1) + 1 = n
    BY <1>2
  <2>2. SubSeq(s, Len(s) - n + 1, Len(s)) \in Seq(S) /\ Len(SubSeq(s, Len(s) - n + 1, Len(s))) = n
    BY <1>2, <2>1
  <2>3. Detector!Last(s, n) = SubSeq(s, Len(s) - n + 1, Len(s))
    BY <1>2 DEF Detector!Last
  <2> DEFINE r == SubSeq(s, Len(s) - n + 1, Len(s))
  <2> HIDE DEF r
  <2>4. r # <<>>
    <3>1. Len(r) = n /\ n # 0
      BY <2>2 DEF r
    <3> QED BY <3>1
  <2> QED BY <2>2, <2>3, <2>4 DEF r
<1> QED BY <1>1, <1>2

\* The quietest frame of a window is one of its levels.
LEMMA QuietestIs ==
  ASSUME NEW w \in Seq(Levels), w # <<>>
  PROVE  Detector!Quietest(w) \in Levels
<1> DEFINE S == {w[i] : i \in DOMAIN w}
<1>1. S \subseteq Levels /\ S # {}
  <2>1. 1 \in DOMAIN w
    OBVIOUS
  <2> QED BY <2>1
<1>2. S \subseteq Nat
  BY <1>1, HearingAssumption
<1>3. \E x \in S : \A y \in S : x <= y
  BY <1>1, <1>2, Least
<1>4. Detector!Quietest(w) \in S
  BY <1>3 DEF Detector!Quietest, Detector!Min
<1> QED BY <1>1, <1>4

FloorInv ==
  /\ window \in Seq(Levels) /\ floor \in Nat /\ room \in Nat
  /\ floor <= room

\* The floor begins at its least.
LEMMA FloorStart == Detector!Init => FloorInv
<1>1. MinRms \in Nat /\ <<>> \in Seq(Levels)
  BY HearingAssumption
<1> QED BY <1>1 DEF Detector!Init, FloorInv

\* A frame moves it by no more than the room allows.
LEMMA FloorStep == FloorInv /\ [Detector!Next]_(Detector!vars) => FloorInv'
<1> SUFFICES ASSUME FloorInv, [Detector!Next]_(Detector!vars) PROVE FloorInv'
  OBVIOUS
<1>1. ASSUME NEW level \in Levels, Detector!AdaptFloor(level) PROVE FloorInv'
  <2> DEFINE w == Detector!Last(Append(window, level), Window)
             target == Detector!Quietest(w)
  <2>1. w \in Seq(Levels) /\ w # <<>>
    <3>1. Append(window, level) \in Seq(Levels) /\ Append(window, level) # <<>>
      <4> DEFINE r == Append(window, level)
      <4>1. r \in Seq(Levels) /\ Len(r) = Len(window) + 1 /\ Len(window) \in Nat
        BY DEF FloorInv
      <4> HIDE DEF r
      <4>2. r # <<>>
        BY <4>1
      <4> QED BY <4>1, <4>2 DEF r
    <3>2. Window \in Nat \ {0}
      BY HearingAssumption
    <3> QED BY <3>1, <3>2, LastIs
  <2> HIDE DEF w
  <2>2. target \in Nat
    BY <2>1, QuietestIs, HearingAssumption
  <2>3. /\ window' = w
        /\ floor' \in IF target < floor THEN target..floor
                      ELSE IF Len(w) = Window THEN floor..target ELSE {floor}
        /\ room' = IF Len(w) = Window THEN Detector!Max({room, target}) ELSE room
    BY <1>1 DEF Detector!AdaptFloor, Detector!Climbs, w
  <2> HIDE DEF target
  <2>4. Detector!Max({room, target}) = IF room >= target THEN room ELSE target
    <3>1. room \in Nat
      BY DEF FloorInv
    <3> QED BY <2>2, <3>1 DEF Detector!Max
  <2> QED BY <2>1, <2>2, <2>3, <2>4 DEF FloorInv
<1>2. CASE Detector!Feed
  BY <1>1, <1>2 DEF Detector!Feed
<1>3. CASE Detector!SetSuppressed \/ Detector!Reset \/ UNCHANGED Detector!vars
  BY <1>3 DEF FloorInv, Detector!SetSuppressed, Detector!Reset, Detector!vars
<1> QED BY <1>2, <1>3 DEF Detector!Next

\* A voice does not push the noise floor up: it is never above the quietest
\* frame of some full window, for any levels, windows and rates of adapting, and
\* whenever the turn suppresses or resets the detector.
THEOREM FloorSafe == HearingSpec => []FloorIsTheRooms
<1>1. FloorInv => FloorIsTheRooms
  BY DEF FloorInv, FloorIsTheRooms, Detector!FloorIsTheRooms
<1>2. HearingInit => Detector!Init
  BY DEF HearingInit
<1>3. [HearingNext]_hearingVars => [Detector!Next]_(Detector!vars)
  BY DEF HearingNext, hearingVars, vadVars, Detector!vars
<1> QED BY <1>1, <1>2, <1>3, FloorStart, FloorStep, HearingSteps, PTL

-----------------------------------------------------------------------------
(* The streaming recogniser (VoskTurn).                                    *)

\* The words of audio, and of one frame more.
Frames == Words \cup {"quiet", "noise"}

\* The words of no audio, their type, and those of one frame more.
LEMMA WordsOf ==
  /\ Only(<<>>, Words) = <<>>
  /\ \A a \in Seq(Frames) :
       /\ Only(a, Words) \in Seq(Words)
       /\ \A f \in Frames : Only(Append(a, f), Words) = IF f \in Words THEN Append(Only(a, Words), f)
                                                        ELSE Only(a, Words)
<1>1. ASSUME NEW a \in Seq(Frames) PROVE Only(a, Words) \in Seq(Words)
  <2>1. Only(a, Words) \in Seq(Frames \cap Words)
    BY OnlyType
  <2>2. Frames \cap Words = Words
    BY DEF Frames
  <2> QED BY <2>1, <2>2
<1>2. ASSUME NEW a \in Seq(Frames), NEW f \in Frames
      PROVE  Only(Append(a, f), Words) = IF f \in Words THEN Append(Only(a, Words), f)
                                         ELSE Only(a, Words)
  BY OnlyOfAppend
<1> QED BY <1>1, <1>2, OnlyOfNone

\* What is appended to the words of the open segment is appended to the turn's.
LEMMA AppendedLast ==
  ASSUME NEW s \in Seq(Words), NEW a \in Seq(Frames), NEW b \in Seq(Frames), NEW f \in Frames,
         s \o Only(a, Words) = Only(b, Words)
  PROVE  s \o Only(Append(a, f), Words) = Only(Append(b, f), Words)
<1> DEFINE t == Only(a, Words)
           r == Only(b, Words)
<1>1. t \in Seq(Words) /\ r \in Seq(Words) /\ s \o t = r
  BY WordsOf
<1>2. Only(Append(a, f), Words) = IF f \in Words THEN Append(t, f) ELSE t
  BY WordsOf
<1>3. Only(Append(b, f), Words) = IF f \in Words THEN Append(r, f) ELSE r
  BY WordsOf
<1> HIDE DEF t, r
<1>4. CASE f \in Words
  <2>1. s \o Append(t, f) = Append(s \o t, f)
    BY <1>1, <1>4, ConcatAppend
  <2> QED BY <1>1, <1>2, <1>3, <1>4, <2>1
<1> QED BY <1>1, <1>2, <1>3, <1>4

\* The closed segments and the open one are the words of the turn; what the
\* library holds of an abandoned turn is known to be there.
TurnInv ==
  /\ lib \in Seq(Frames) /\ fed \in Seq(Frames)
  /\ segments \in Seq(Words) /\ partial \in Seq(Words) /\ last \in Seq(Words)
  /\ open \in BOOLEAN /\ dirty \in BOOLEAN
  /\ ~dirty => lib = <<>>
  /\ open => segments \o Only(lib, Words) = Only(fed, Words)
  /\ shown.kind \in {"partial", "text"} => shown.text = Only(fed, Words)

\* The text of audio is its words.
LEMMA TextIs == \A a : Streaming!Text(a) = Only(a, Words)
  BY DEF Streaming!Text, Streaming!Only, Only, Streaming!Picked, Picked

\* The invariant holds before the first turn.
LEMMA TurnStart == Streaming!Init => TurnInv
<1>1. <<>> \in Seq(Frames) /\ <<>> \in Seq(Words)
  OBVIOUS
<1>2. Streaming!Init => open \in BOOLEAN /\ dirty \in BOOLEAN /\ ~open
  BY Zenon DEF Streaming!Init
<1>3. Streaming!Init => lib = <<>> /\ fed = <<>> /\ segments = <<>> /\ partial = <<>> /\ last = <<>>
                        /\ shown.kind = "none"
  BY DEF Streaming!Init, Streaming!NoText
<1> QED BY <1>1, <1>2, <1>3 DEF TurnInv

\* Every call keeps it.
LEMMA TurnStep == TurnInv /\ [Streaming!Next]_(Streaming!vars) => TurnInv'
<1> SUFFICES ASSUME TurnInv, [Streaming!Next]_(Streaming!vars) PROVE TurnInv'
  OBVIOUS
<1>0. <<>> \in Seq(Frames) /\ <<>> \in Seq(Words) /\ <<>> \o <<>> = <<>>
  OBVIOUS
<1>1. CASE Streaming!StartUtterance
  <2>1. lib' = <<>> /\ fed' = <<>> /\ segments' = <<>> /\ partial' = <<>> /\ last' = <<>>
    BY <1>1 DEF TurnInv, Streaming!StartUtterance, Streaming!Drain
  <2>2. open' = TRUE /\ dirty' = FALSE /\ shown'.kind = "none"
    BY <1>1 DEF Streaming!StartUtterance, Streaming!NoText
  <2>3. segments' \o Only(lib', Words) = Only(fed', Words)
    BY <1>0, <2>1, WordsOf
  <2> QED BY <1>0, <2>1, <2>2, <2>3 DEF TurnInv
<1>2. CASE Streaming!Feed
  <2>1. PICK f \in Words \cup {"quiet"}, endpoint \in BOOLEAN :
          fed' = Append(fed, f) /\ Streaming!Heard(Append(lib, f), endpoint)
    BY <1>2 DEF Streaming!Feed, Streaming!Quiet
  <2> DEFINE audio == Append(lib, f)
             text == Only(audio, Words)
  <2>2. f \in Frames /\ audio \in Seq(Frames) /\ fed' \in Seq(Frames)
    BY <2>1 DEF TurnInv, Frames
  <2>3. text \in Seq(Words)
    BY <2>2, WordsOf
  <2>4. segments \o text = Only(fed', Words)
    <3>1. /\ open /\ segments \in Seq(Words) /\ lib \in Seq(Frames) /\ fed \in Seq(Frames)
          /\ segments \o Only(lib, Words) = Only(fed, Words)
      BY <1>2 DEF TurnInv, Streaming!Feed
    <3> QED BY <2>1, <2>2, <3>1, AppendedLast
  <2>5. \/ segments' = segments \o text /\ partial' = <<>> /\ lib' = <<>>
        \/ segments' = segments /\ partial' = text /\ lib' = audio
    BY <2>1, TextIs DEF Streaming!Heard
  <2>6. /\ open' = open /\ open /\ dirty' = TRUE /\ last' = segments' \o partial'
        /\ shown' = IF last' = last THEN [kind |-> "none", text |-> <<>>]
                    ELSE [kind |-> "partial", text |-> last']
    BY <1>2 DEF Streaming!Feed, Streaming!NoText
  <2> DEFINE words == segments \o text
  <2>7. words \in Seq(Words) /\ words \o <<>> = words
    BY <2>3, ConcatProperties, ConcatEmptySeq DEF TurnInv
  <2> HIDE DEF text, audio
  <2>8. CASE segments' = segments \o text /\ partial' = <<>> /\ lib' = <<>>
    <3>1. last' = words /\ segments' = words
      BY <2>6, <2>7, <2>8
    <3>2. segments' \o Only(lib', Words) = Only(fed', Words)
      BY <2>4, <2>7, <2>8, <3>1, WordsOf
    <3> HIDE DEF words
    <3>3. shown'.kind \in {"partial", "text"} => shown'.text = last'
      BY <2>6
    <3> QED BY <1>0, <2>2, <2>4, <2>6, <2>7, <2>8, <3>1, <3>2, <3>3 DEF TurnInv, words
  <2>9. CASE segments' = segments /\ partial' = text /\ lib' = audio
    <3>1. last' = words
      BY <2>6, <2>9
    <3>2. segments' \o Only(lib', Words) = Only(fed', Words)
      BY <2>4, <2>9 DEF text
    <3> HIDE DEF words
    <3>3. shown'.kind \in {"partial", "text"} => shown'.text = last'
      BY <2>6
    <3> QED BY <1>0, <2>2, <2>3, <2>4, <2>6, <2>7, <2>9, <3>1, <3>2, <3>3 DEF TurnInv, words
  <2> QED BY <2>5, <2>8, <2>9
<1>3. CASE Streaming!FeedRejected
  <2>1. PICK taken \in BOOLEAN, f \in Words :
          /\ lib' = IF taken THEN Append(lib, f) ELSE lib
          /\ fed' = IF taken THEN Append(fed, f) ELSE fed
    BY <1>3 DEF Streaming!FeedRejected
  <2>2. /\ open /\ dirty' = TRUE /\ shown'.kind = "error"
        /\ UNCHANGED <<open, segments, partial, last>>
    BY <1>3 DEF Streaming!FeedRejected
  <2>3. f \in Frames /\ lib' \in Seq(Frames) /\ fed' \in Seq(Frames)
    BY <2>1 DEF TurnInv, Frames
  <2>4. segments' \o Only(lib', Words) = Only(fed', Words)
    <3>1. /\ segments \in Seq(Words) /\ lib \in Seq(Frames) /\ fed \in Seq(Frames)
          /\ segments \o Only(lib, Words) = Only(fed, Words)
      BY <2>2 DEF TurnInv
    <3>2. segments \o Only(Append(lib, f), Words) = Only(Append(fed, f), Words)
      BY <2>3, <3>1, AppendedLast
    <3> QED BY <2>1, <2>2, <3>1, <3>2
  <2> QED BY <2>2, <2>3, <2>4 DEF TurnInv
<1>4. CASE Streaming!EndUtterance
  <2>1. /\ open /\ open' = FALSE /\ dirty' = FALSE /\ UNCHANGED fed
        /\ shown' = [kind |-> "text", text |-> segments \o Only(lib, Words)]
        /\ lib' = <<>> /\ segments' = <<>> /\ partial' = <<>> /\ last' = <<>>
    BY <1>4, TextIs DEF Streaming!EndUtterance
  <2>2. shown'.text = Only(fed', Words)
    BY <2>1 DEF TurnInv
  <2> QED BY <1>0, <2>1, <2>2 DEF TurnInv
<1>5. CASE UNCHANGED Streaming!vars
  BY <1>5 DEF TurnInv, Streaming!vars
<1> QED BY <1>1, <1>2, <1>3, <1>4, <1>5 DEF Streaming!Next

\* What a turn shows is every word of it once and no other turn's, for any
\* words, lengths and numbers of turns, where the library closes segments and
\* rejects frames as it likes and turns are abandoned.
THEOREM ShownSafe == HearingSpec => [](Streaming!ShownIsTheTurn)
<1>1. TurnInv => Streaming!ShownIsTheTurn
  BY TextIs DEF TurnInv, Streaming!ShownIsTheTurn
<1>2. HearingInit => Streaming!Init
  BY DEF HearingInit
<1>3. [HearingNext]_hearingVars => [Streaming!Next]_(Streaming!vars)
  BY DEF HearingNext, hearingVars, voskVars, Streaming!vars
<1> QED BY <1>1, <1>2, <1>3, TurnStart, TurnStep, HearingSteps, PTL

-----------------------------------------------------------------------------
(* The recognisers of a whole utterance (Recogniser).                      *)

\* The text of audio is its words.
LEMMA WholeTextIs == \A a : Whole!Text(a) = Only(a, Words)
  BY DEF Whole!Text, Whole!Only, Only, Whole!Picked, Picked

\* What is buffered of a turn, and what is being decoded, has the words of the
\* turn; the words kept are those of as much audio as they say.
BufferInv ==
  /\ pcm \in Seq(Frames) /\ said \in Seq(Frames)
  /\ utterance => Only(pcm, Words) = Only(said, Words)
  /\ provisional.length \in Nat /\ provisional.length <= Len(pcm)
  /\ provisional.length = 0 => provisional.text = <<>>
  /\ provisional.length = Len(pcm) => provisional.text = Only(pcm, Words)

DecodeInv ==
  /\ decoding \in {"idle", "begin", "ready", "write", "reply"}
  /\ decoding # "idle" => Only(sent, Words) = Only(said, Words)
  /\ decoding # "idle" /\ after # "end" => sent = pcm /\ utterance

\* A child that has not been heard to be ready has nothing but that to say.
Banners == {<<>>, <<[kind |-> "ready"]>>, <<[kind |-> "error"]>>}

IsReply(r, audio) ==
  r.kind = "error" \/ (r.kind = "text" /\ r.text = Only(audio, Words))

\* Nothing of an earlier decode is in the pipes when one begins, and at most
\* one reply, to the audio sent.
PipesInv ==
  /\ ready \in BOOLEAN
  /\ proc = "loading" => kept /\ ~ready /\ output = <<>>
  /\ decoding \in {"idle", "begin", "ready"} =>
       /\ input = <<>>
       /\ ready => output = <<>>
       /\ ~ready => output \in Banners
  /\ decoding = "ready" => kept /\ ~ready
  /\ decoding = "write" => kept /\ ready /\ input = <<>> /\ output = <<>>
  /\ decoding = "reply" =>
       /\ kept => ready
       /\ \/ input = <<sent>> /\ output = <<>>
          \/ input = <<>> /\ \E r : output = <<r>> /\ IsReply(r, sent)

ResultInv == result.kind = "text" => result.text = Only(said, Words)

WholeInv == ~closed => BufferInv /\ DecodeInv /\ PipesInv /\ ResultInv

\* The invariant holds before the first turn.
LEMMA WholeStart == Whole!Init => WholeInv
<1> SUFFICES ASSUME Whole!Init PROVE WholeInv
  OBVIOUS
<1>1. <<>> \in Seq(Frames)
  OBVIOUS
<1>2. pcm = <<>> /\ said = <<>> /\ ~utterance /\ provisional = [length |-> 0, text |-> <<>>]
  BY Zenon DEF Whole!Init, Whole!NoCache
<1>3. BufferInv
  BY <1>1, <1>2, WordsOf DEF BufferInv
<1>4. decoding = "idle" /\ input = <<>> /\ output = <<>> /\ ready = FALSE
  BY DEF Whole!Init
<1>5. proc = "loading" => kept
  BY DEF Whole!Init
<1>6. result.kind = "none"
  BY DEF Whole!Init, Whole!Nothing, Whole!None
<1> QED BY <1>3, <1>4, <1>5, <1>6 DEF WholeInv, DecodeInv, PipesInv, ResultInv, Banners

\* A decode that fails leaves no child, and so nothing in its pipes.
LEMMA Failed ==
  ASSUME BufferInv, DecodeInv, PipesInv, decoding # "idle",
         Whole!Raise, Whole!NoChild, UNCHANGED <<kept, ready, closed>>
  PROVE  BufferInv' /\ DecodeInv' /\ PipesInv' /\ ResultInv'
<1>1. /\ decoding' = "idle" /\ result'.kind = "error"
      /\ UNCHANGED <<utterance, pcm, provisional, said, kept, ready>>
  BY DEF Whole!Raise, Whole!turn
<1>2. proc' = "none" /\ input' = <<>> /\ output' = <<>>
  BY DEF Whole!NoChild
<1>3. BufferInv'
  BY <1>1 DEF BufferInv
<1> QED BY <1>1, <1>2, <1>3 DEF DecodeInv, PipesInv, ResultInv, Banners

\* A decode that ends with the words of its audio.
LEMMA Returned ==
  ASSUME BufferInv, DecodeInv, decoding # "idle", NEW text, text = Only(sent, Words),
         Whole!Return(text)
  PROVE  BufferInv' /\ DecodeInv' /\ ResultInv'
<1>1. /\ decoding' = "idle" /\ UNCHANGED said
      /\ result' = [kind |-> IF after = "end" THEN "text" ELSE "so far", text |-> text]
  BY DEF Whole!Return
<1>2. text = Only(said, Words)
  BY DEF DecodeInv
<1>3. CASE after = "end"
  <2>1. UNCHANGED <<utterance, pcm, provisional>>
    BY <1>3 DEF Whole!Return
  <2>2. BufferInv'
    BY <1>1, <2>1 DEF BufferInv
  <2> QED BY <1>1, <1>2, <2>2 DEF DecodeInv, ResultInv
<1>4. CASE after # "end"
  <2>1. sent = pcm /\ utterance
    BY <1>4 DEF DecodeInv
  <2>2. /\ provisional' = IF text # <<>> THEN [length |-> Len(sent), text |-> text]
                          ELSE [length |-> 0, text |-> <<>>]
        /\ pcm' = IF text = <<>> THEN <<>> ELSE pcm
        /\ utterance' = utterance
    BY <1>4 DEF Whole!Return, Whole!NoCache
  <2>3. CASE text = <<>>
    <3>1. pcm' = <<>> /\ provisional'.length = 0 /\ provisional'.text = <<>>
      BY <2>2, <2>3
    <3>2. <<>> \in Seq(Frames) /\ Only(<<>>, Words) = <<>>
      BY WordsOf
    <3>3. said \in Seq(Frames)
      BY DEF BufferInv
    <3>4. Only(pcm', Words) = Only(said', Words) /\ provisional'.text = Only(pcm', Words)
      BY <1>1, <1>2, <2>3, <3>1, <3>2
    <3>5. pcm' \in Seq(Frames) /\ said' \in Seq(Frames) /\ Len(pcm') = 0
      BY <1>1, <3>1, <3>2, <3>3
    <3>6. BufferInv'
      BY <3>1, <3>4, <3>5 DEF BufferInv
    <3> QED BY <1>1, <1>4, <3>6 DEF DecodeInv, ResultInv
  <2>4. CASE text # <<>>
    <3>1. pcm' = pcm /\ provisional'.length = Len(pcm) /\ provisional'.text = text
      BY <2>1, <2>2, <2>4
    <3>2. pcm \in Seq(Frames) /\ said \in Seq(Frames)
      BY DEF BufferInv
    <3>3. Len(pcm) # 0
      <4>1. Len(pcm) = 0 => pcm = <<>>
        BY <3>2
      <4> QED BY <2>1, <2>4, <4>1, WordsOf
    <3>4. Only(pcm', Words) = Only(said', Words) /\ provisional'.text = Only(pcm', Words)
      BY <1>1, <1>2, <2>1, <3>1
    <3>5. /\ pcm' \in Seq(Frames) /\ said' \in Seq(Frames)
          /\ Len(pcm') = Len(pcm) /\ Len(pcm) \in Nat
      <4>1. Len(pcm) \in Nat
        BY <3>2
      <4> QED BY <1>1, <3>1, <3>2, <4>1
    <3>6. BufferInv'
      BY <3>1, <3>3, <3>4, <3>5 DEF BufferInv
    <3> QED BY <1>1, <1>4, <3>6 DEF DecodeInv, ResultInv
  <2> QED BY <2>3, <2>4
<1> QED BY <1>3, <1>4

\* Every step of the worker, of its child and of who closes keeps it.
LEMMA WholeStep == WholeInv /\ [Whole!Next]_(Whole!vars) => WholeInv'
<1> SUFFICES ASSUME WholeInv, [Whole!Next]_(Whole!vars), ~closed' PROVE WholeInv'
  BY DEF WholeInv
<1>0. UNCHANGED closed
  BY DEF Whole!Next, Whole!Calls, Whole!Worker, Whole!StartUtterance, Whole!Feed,
       Whole!CheckHealth, Whole!Provisional, Whole!EndUtterance, Whole!Begin, Whole!ReadReady,
       Whole!Write, Whole!ReadReply, Whole!LostPipe, Whole!TimedOut, Whole!Fail, Whole!ChildLoads,
       Whole!ChildReplies, Whole!ChildDies, Whole!CloseRequest, Whole!Dispose, Whole!vars
<1> USE <1>0
<1>a. BufferInv /\ DecodeInv /\ PipesInv /\ ResultInv
  BY DEF WholeInv
<1>b. <<>> \in Seq(Frames) /\ Only(<<>>, Words) = <<>>
  BY WordsOf
<1> SUFFICES BufferInv' /\ DecodeInv' /\ PipesInv' /\ ResultInv'
  BY DEF WholeInv
<1>1. CASE Whole!StartUtterance
  <2>1. /\ decoding = "idle" /\ pcm' = <<>> /\ said' = <<>> /\ result'.kind = "none"
        /\ provisional' = [length |-> 0, text |-> <<>>]
        /\ UNCHANGED <<kept, decoding, proc, ready, input, output>>
    BY <1>1 DEF Whole!StartUtterance, Whole!Live, Whole!NoCache, Whole!Nothing, Whole!None,
                Whole!decode, Whole!child
  <2>2. BufferInv'
    BY <1>b, <2>1 DEF BufferInv
  <2> QED BY <1>a, <2>1, <2>2 DEF DecodeInv, PipesInv, ResultInv
<1>2. CASE Whole!Feed
  <2>1. PICK f \in Words \cup {"noise"} : pcm' = Append(pcm, f) /\ said' = Append(said, f)
    BY <1>2 DEF Whole!Feed, Whole!Noise
  <2>2. /\ decoding = "idle" /\ utterance /\ result'.kind = "none"
        /\ UNCHANGED <<utterance, provisional, kept, decoding, proc, ready, input, output>>
    BY <1>2 DEF Whole!Feed, Whole!Live, Whole!Nothing, Whole!None, Whole!decode, Whole!child
  <2>3. f \in Frames /\ pcm \in Seq(Frames) /\ said \in Seq(Frames)
    BY <1>a, <2>1 DEF Frames, BufferInv
  <2>4. Only(pcm', Words) = Only(said', Words)
    BY <1>a, <2>1, <2>2, <2>3, WordsOf DEF BufferInv
  <2>5. pcm' \in Seq(Frames) /\ said' \in Seq(Frames) /\ Len(pcm') = Len(pcm) + 1
    BY <2>1, <2>3
  <2>6. BufferInv'
    BY <1>a, <2>2, <2>3, <2>4, <2>5 DEF BufferInv
  <2> QED BY <1>a, <2>2, <2>6 DEF DecodeInv, PipesInv, ResultInv
<1>3. CASE Whole!CheckHealth
  <2>1. /\ decoding = "idle" /\ result'.kind = "error"
        /\ UNCHANGED <<utterance, pcm, provisional, said, kept, decoding, proc, ready, input,
                       output>>
    BY <1>3 DEF Whole!CheckHealth, Whole!Live, Whole!turn, Whole!decode, Whole!child
  <2>2. BufferInv'
    BY <1>a, <2>1 DEF BufferInv
  <2> QED BY <1>a, <2>1, <2>2 DEF DecodeInv, PipesInv, ResultInv
<1>4. CASE Whole!Provisional
  <2>1. /\ decoding = "idle" /\ utterance /\ decoding' = "begin" /\ sent' = pcm
        /\ result'.kind = "none"
        /\ UNCHANGED <<utterance, pcm, provisional, said, kept, proc, ready, input, output>>
    BY <1>4 DEF Whole!Provisional, Whole!Live, Whole!Nothing, Whole!None, Whole!turn, Whole!child
  <2>2. BufferInv'
    BY <1>a, <2>1 DEF BufferInv
  <2>3. DecodeInv'
    BY <1>a, <2>1 DEF BufferInv, DecodeInv
  <2> QED BY <1>a, <2>1, <2>2, <2>3 DEF PipesInv, ResultInv
<1>5. CASE Whole!EndUtterance
  <2>1. /\ decoding = "idle" /\ utterance /\ ~utterance' /\ pcm' = <<>>
        /\ provisional' = [length |-> 0, text |-> <<>>]
        /\ UNCHANGED <<said, kept, proc, ready, input, output>>
    BY <1>5 DEF Whole!EndUtterance, Whole!Live, Whole!NoCache, Whole!child
  <2>2. said \in Seq(Frames) /\ pcm \in Seq(Frames)
    BY <1>a DEF BufferInv
  <2>3. BufferInv'
    BY <1>b, <2>1, <2>2 DEF BufferInv
  <2>4. CASE pcm = <<>> \/ Whole!CacheAnswers
    <3>1. result' = [kind |-> "text", text |-> provisional.text] /\ UNCHANGED decoding
      BY <1>5, <2>4 DEF Whole!EndUtterance, Whole!decode
    <3>2. pcm = <<>> => Len(pcm) = 0
      OBVIOUS
    <3>3. provisional.length = Len(pcm)
      BY <1>a, <2>2, <2>4, <3>2 DEF Whole!CacheAnswers, BufferInv
    <3>4. provisional.text = Only(said, Words)
      BY <1>a, <2>1, <3>3 DEF BufferInv
    <3>5. ResultInv'
      BY <2>1, <3>1, <3>4 DEF ResultInv
    <3> QED BY <1>a, <2>1, <2>3, <3>1, <3>5 DEF DecodeInv, PipesInv
  <2>5. CASE ~(pcm = <<>> \/ Whole!CacheAnswers)
    <3>1. decoding' = "begin" /\ after' = "end" /\ sent' = pcm /\ result'.kind = "none"
      BY <1>5, <2>5 DEF Whole!EndUtterance, Whole!Nothing, Whole!None
    <3>2. DecodeInv'
      BY <1>a, <2>1, <3>1 DEF BufferInv, DecodeInv
    <3> QED BY <1>a, <2>1, <2>3, <3>1, <3>2 DEF PipesInv, ResultInv
  <2> QED BY <2>4, <2>5
<1>6. CASE Whole!Begin
  <2>1. decoding = "begin" /\ UNCHANGED <<kept, ready>>
    BY <1>6 DEF Whole!Begin
  <2>2. CASE /\ ~kept /\ proc' = "serving" /\ input' = <<sent>> /\ output' = <<>>
             /\ decoding' = "reply" /\ UNCHANGED <<Whole!turn, after, sent, result>>
    <3>1. UNCHANGED <<utterance, pcm, provisional, said, after, sent, result>>
      BY <2>2 DEF Whole!turn
    <3>2. BufferInv'
      BY <1>a, <3>1 DEF BufferInv
    <3>3. DecodeInv' /\ ResultInv'
      BY <1>a, <2>1, <2>2, <3>1 DEF DecodeInv, ResultInv
    <3> QED BY <1>a, <2>1, <2>2, <3>1, <3>2, <3>3 DEF PipesInv
  <2>3. CASE /\ kept /\ decoding' = IF ready THEN "write" ELSE "ready"
             /\ UNCHANGED <<Whole!turn, Whole!child, after, sent, result>>
    <3>1. UNCHANGED <<utterance, pcm, provisional, said, after, sent, result, proc, input, output>>
      BY <2>3 DEF Whole!turn, Whole!child
    <3>2. BufferInv'
      BY <1>a, <3>1 DEF BufferInv
    <3>3. DecodeInv' /\ ResultInv'
      BY <1>a, <2>1, <2>3, <3>1 DEF DecodeInv, ResultInv
    <3> QED BY <1>a, <2>1, <2>3, <3>1, <3>2, <3>3 DEF PipesInv
  <2>4. CASE kept /\ proc = "none" /\ Whole!Raise /\ UNCHANGED Whole!child
    <3>1. /\ decoding' = "idle" /\ result'.kind = "error"
          /\ UNCHANGED <<utterance, pcm, provisional, said, proc, input, output>>
      BY <2>4 DEF Whole!Raise, Whole!turn, Whole!child
    <3>2. BufferInv'
      BY <1>a, <3>1 DEF BufferInv
    <3> QED BY <1>a, <2>1, <2>4, <3>1, <3>2 DEF DecodeInv, PipesInv, ResultInv
  <2> QED BY <1>6, <2>2, <2>3, <2>4 DEF Whole!Begin
<1>7. CASE Whole!TimedOut \/ Whole!LostPipe
  <2>1. decoding # "idle" /\ Whole!Raise /\ Whole!NoChild /\ UNCHANGED <<kept, ready, closed>>
    BY <1>7 DEF Whole!TimedOut, Whole!LostPipe, Whole!Fail, Whole!StopChild
  <2> QED BY <1>a, <2>1, Failed
<1>8. CASE Whole!ReadReady
  <2>1. decoding = "ready" /\ output # <<>>
    BY <1>8 DEF Whole!ReadReady
  <2>2. CASE /\ Head(output).kind = "ready"
             /\ ready' = TRUE /\ output' = Tail(output) /\ decoding' = "write"
             /\ UNCHANGED <<kept, Whole!turn, after, sent, proc, input, result>>
    <3>1. UNCHANGED <<utterance, pcm, provisional, said, after, sent, result, proc, input, kept>>
      BY <2>2 DEF Whole!turn
    <3>2. output = <<[kind |-> "ready"]>> \/ output = <<[kind |-> "error"]>>
      BY <1>a, <2>1 DEF PipesInv, Banners
    <3>3. Tail(output) = <<>>
      <4>1. \A x : Tail(<<x>>) = <<>>
        OBVIOUS
      <4> QED BY <3>2, <4>1
    <3>4. BufferInv'
      BY <1>a, <3>1 DEF BufferInv
    <3>5. DecodeInv' /\ ResultInv'
      BY <1>a, <2>1, <2>2, <3>1 DEF DecodeInv, ResultInv
    <3> QED BY <1>a, <2>1, <2>2, <3>1, <3>3, <3>4, <3>5 DEF PipesInv
  <2>3. CASE Whole!Fail
    <3>1. Whole!Raise /\ Whole!NoChild /\ UNCHANGED <<kept, ready, closed>>
      BY <2>3 DEF Whole!Fail, Whole!StopChild
    <3> QED BY <1>a, <2>1, <3>1, Failed
  <2> QED BY <1>8, <2>2, <2>3 DEF Whole!ReadReady
<1>9. CASE Whole!Write
  <2>1. /\ decoding = "write" /\ input' = Append(input, sent) /\ decoding' = "reply"
        /\ UNCHANGED <<kept, utterance, pcm, provisional, said, after, sent, proc, output, ready,
                       result>>
    BY <1>9 DEF Whole!Write, Whole!turn
  <2>2. input = <<>> /\ output = <<>> /\ ready /\ kept
    BY <1>a, <2>1 DEF PipesInv
  <2>3. input' = <<sent>>
    BY <2>1, <2>2
  <2>4. BufferInv'
    BY <1>a, <2>1 DEF BufferInv
  <2>5. DecodeInv' /\ ResultInv'
    BY <1>a, <2>1 DEF DecodeInv, ResultInv
  <2> QED BY <1>a, <2>1, <2>2, <2>3, <2>4, <2>5 DEF PipesInv
<1>10. CASE Whole!ReadReply
  <2>1. decoding = "reply" /\ output # <<>>
    BY <1>10 DEF Whole!ReadReply
  <2>2. PICK r : input = <<>> /\ output = <<r>> /\ IsReply(r, sent)
    BY <1>a, <2>1 DEF PipesInv
  <2>3. Head(output) = r /\ Tail(output) = <<>>
    BY <2>2
  <2>4. CASE /\ r.kind = "text" /\ Whole!Return(r.text)
             /\ IF kept THEN output' = <<>> /\ UNCHANGED <<proc, input>> ELSE Whole!NoChild
             /\ UNCHANGED <<kept, ready>>
    <3>1. r.text = Only(sent, Words)
      BY <2>2, <2>4 DEF IsReply
    <3>2. BufferInv' /\ DecodeInv' /\ ResultInv'
      BY <1>a, <2>1, <2>4, <3>1, Returned
    <3>3. decoding' = "idle" /\ output' = <<>> /\ input' = <<>>
      BY <2>2, <2>4 DEF Whole!Return, Whole!NoChild
    <3>4. proc' = "loading" => proc = "loading"
      BY <2>4 DEF Whole!NoChild
    <3> QED BY <1>a, <2>2, <2>4, <3>2, <3>3, <3>4 DEF PipesInv, Banners
  <2>5. CASE Whole!Fail
    <3>1. Whole!Raise /\ Whole!NoChild /\ UNCHANGED <<kept, ready, closed>>
      BY <2>5 DEF Whole!Fail, Whole!StopChild
    <3> QED BY <1>a, <2>1, <3>1, Failed
  <2> QED BY <1>10, <2>3, <2>4, <2>5 DEF Whole!ReadReply
<1>11. CASE Whole!ChildLoads
  <2>1. PICK ok \in BOOLEAN :
          /\ output' = Append(output, IF ok THEN [kind |-> "ready"] ELSE [kind |-> "error"])
          /\ proc' = IF ok THEN "serving" ELSE "dead"
    BY <1>11 DEF Whole!ChildLoads
  <2>2. /\ proc = "loading"
        /\ UNCHANGED <<kept, utterance, pcm, provisional, said, decoding, after, sent, input, ready,
                       result>>
    BY <1>11 DEF Whole!ChildLoads, Whole!turn, Whole!decode
  <2>3. kept /\ ~ready /\ output = <<>>
    BY <1>a, <2>2 DEF PipesInv
  <2>4. output' \in Banners
    BY <2>1, <2>3 DEF Banners
  <2>5. BufferInv'
    BY <1>a, <2>2 DEF BufferInv
  <2>6. DecodeInv' /\ ResultInv'
    BY <1>a, <2>2 DEF DecodeInv, ResultInv
  <2>7. proc' # "loading"
    BY <2>1
  <2> QED BY <1>a, <2>2, <2>3, <2>4, <2>5, <2>6, <2>7 DEF PipesInv
<1>12. CASE Whole!ChildReplies
  <2>1. PICK ok \in BOOLEAN :
          output' = Append(output, IF ok THEN [kind |-> "text", text |-> Only(Head(input), Words)]
                                   ELSE [kind |-> "error"])
    BY <1>12, WholeTextIs DEF Whole!ChildReplies
  <2>2. /\ input # <<>> /\ input' = Tail(input)
        /\ UNCHANGED <<kept, utterance, pcm, provisional, said, decoding, after, sent, proc, ready,
                       result>>
    BY <1>12 DEF Whole!ChildReplies, Whole!turn, Whole!decode
  <2>3. decoding = "reply" /\ input = <<sent>> /\ output = <<>>
    BY <1>a, <2>2 DEF DecodeInv, PipesInv
  <2>4. Head(input) = sent /\ Tail(input) = <<>>
    BY <2>3
  <2> DEFINE r == IF ok THEN [kind |-> "text", text |-> Only(sent, Words)]
                  ELSE [kind |-> "error"]
  <2>5. r.kind = "error" \/ (r.kind = "text" /\ r.text = Only(sent', Words))
    BY <2>2
  <2>6. output' = <<r>>
    BY <2>1, <2>3, <2>4
  <2>7. BufferInv'
    BY <1>a, <2>2 DEF BufferInv
  <2>8. DecodeInv' /\ ResultInv'
    BY <1>a, <2>2 DEF DecodeInv, ResultInv
  <2>9. proc' # "loading" /\ (kept' => ready') /\ ready' \in BOOLEAN
    BY <1>12, <1>a, <2>2, <2>3 DEF PipesInv, Whole!ChildReplies
  <2> HIDE DEF r
  <2>10. input' = <<>>
    BY <2>2, <2>4
  <2>11. IsReply(r, sent')
    BY <2>5 DEF IsReply
  <2>12. decoding' = "reply"
    BY <2>2, <2>3
  <2>13. PipesInv'
    BY <2>6, <2>9, <2>10, <2>11, <2>12 DEF PipesInv
  <2> QED BY <2>7, <2>8, <2>13
<1>13. CASE Whole!ChildDies
  <2>1. /\ proc' = "dead"
        /\ UNCHANGED <<kept, utterance, pcm, provisional, said, decoding, after, sent, input, output,
                       ready, result>>
    BY <1>13 DEF Whole!ChildDies, Whole!turn, Whole!decode
  <2>2. BufferInv'
    BY <1>a, <2>1 DEF BufferInv
  <2>3. DecodeInv' /\ ResultInv'
    BY <1>a, <2>1 DEF DecodeInv, ResultInv
  <2> QED BY <1>a, <2>1, <2>2, <2>3 DEF PipesInv, IsReply
<1>14. CASE Whole!CloseRequest \/ Whole!Dispose
  BY <1>14 DEF Whole!CloseRequest, Whole!Dispose
<1>15. CASE UNCHANGED Whole!vars
  <2>1. UNCHANGED <<kept, utterance, pcm, provisional, said, decoding, after, sent, proc, input,
                    output, ready, result>>
    BY <1>15 DEF Whole!vars, Whole!turn, Whole!decode, Whole!child
  <2>2. BufferInv'
    BY <1>a, <2>1 DEF BufferInv
  <2>3. DecodeInv' /\ ResultInv'
    BY <1>a, <2>1 DEF DecodeInv, ResultInv
  <2> QED BY <1>a, <2>1, <2>2, <2>3 DEF PipesInv, IsReply
<1> QED BY <1>1, <1>2, <1>3, <1>4, <1>5, <1>6, <1>7, <1>8, <1>9, <1>10, <1>11, <1>12, <1>13,
       <1>14, <1>15 DEF Whole!Next, Whole!Calls, Whole!Worker

\* The text of a turn is the words that were fed to it, for any words, lengths
\* and numbers of turns, whenever the child dies, answers late or not at all,
\* and whether one is kept or one is run for each decode; and so is what the
\* streaming recogniser shows.
THEOREM TextsSafe == HearingSpec => []TextIsTheTurns
<1>1. WholeInv => Whole!TextIsTheTurns
  BY WholeTextIs DEF WholeInv, ResultInv, Whole!TextIsTheTurns
<1>2. HearingInit => Whole!Init
  BY DEF HearingInit
<1>3. [HearingNext]_hearingVars => [Whole!Next]_(Whole!vars)
  BY DEF HearingNext, hearingVars, recogniserVars, Whole!vars, Whole!turn, Whole!decode,
         Whole!child
<1>4. HearingSpec => [](Whole!TextIsTheTurns)
  BY <1>1, <1>2, <1>3, WholeStart, WholeStep, HearingSteps, PTL
<1>5. Streaming!ShownIsTheTurn /\ Whole!TextIsTheTurns => TextIsTheTurns
  BY DEF TextIsTheTurns
<1> QED BY <1>4, <1>5, ShownSafe, PTL

-----------------------------------------------------------------------------
(* The capture queue (Capture).                                            *)

\* What a sequence holds, with one item more and without its first.
LEMMA ElementsOf ==
  /\ Queue!Elements(<<>>) = {}
  /\ \A s \in Seq(Nat) : \A i \in Nat :
       Queue!Elements(Append(s, i)) = Queue!Elements(s) \cup {i}
  /\ \A s \in Seq(Nat) : s # <<>> => Queue!Elements(s) = {Head(s)} \cup Queue!Elements(Tail(s))
<1>1. Queue!Elements(<<>>) = {}
  BY DEF Queue!Elements
<1>2. ASSUME NEW s \in Seq(Nat), NEW i \in Nat
      PROVE  Queue!Elements(Append(s, i)) = Queue!Elements(s) \cup {i}
  <2> DEFINE r == Append(s, i)
  <2>1. /\ DOMAIN s = 1..Len(s) /\ Len(s) \in Nat /\ DOMAIN r = 1..(Len(s) + 1)
        /\ r[Len(s) + 1] = i /\ \A k \in 1..Len(s) : r[k] = s[k]
    OBVIOUS
  <2> HIDE DEF r
  <2>2. ASSUME NEW x PROVE x \in Queue!Elements(r) <=> x \in Queue!Elements(s) \cup {i}
    <3>1. ASSUME x \in Queue!Elements(r) PROVE x \in Queue!Elements(s) \cup {i}
      <4>1. PICK k \in DOMAIN r : x = r[k]
        BY <3>1 DEF Queue!Elements
      <4> QED BY <2>1, <4>1 DEF Queue!Elements
    <3>2. ASSUME x \in Queue!Elements(s) PROVE x \in Queue!Elements(r)
      <4>1. PICK k \in DOMAIN s : x = s[k]
        BY <3>2 DEF Queue!Elements
      <4>2. k \in DOMAIN r /\ x = r[k]
        BY <2>1, <4>1
      <4> QED BY <4>2 DEF Queue!Elements
    <3>3. Len(s) + 1 \in DOMAIN r
      BY <2>1
    <3>4. i \in Queue!Elements(r)
      BY <2>1, <3>3 DEF Queue!Elements
    <3> QED BY <3>1, <3>2, <3>4
  <2>3. Queue!Elements(r) = Queue!Elements(s) \cup {i}
    BY <2>2
  <2> QED BY <2>3 DEF r
<1>3. ASSUME NEW s \in Seq(Nat), s # <<>>
      PROVE  Queue!Elements(s) = {Head(s)} \cup Queue!Elements(Tail(s))
  <2> DEFINE r == Tail(s)
  <2>1. /\ Len(s) \in Nat \ {0} /\ DOMAIN s = 1..Len(s) /\ DOMAIN r = 1..(Len(s) - 1)
        /\ Head(s) = s[1] /\ \A k \in 1..(Len(s) - 1) : r[k] = s[k + 1]
    BY <1>3, EmptySeq
  <2> HIDE DEF r
  <2>2. ASSUME NEW x PROVE x \in Queue!Elements(s) <=> x \in {Head(s)} \cup Queue!Elements(r)
    <3>1. ASSUME x \in Queue!Elements(s) PROVE x \in {Head(s)} \cup Queue!Elements(r)
      <4>1. PICK k \in DOMAIN s : x = s[k]
        BY <3>1 DEF Queue!Elements
      <4>2. k = 1 \/ (k - 1 \in DOMAIN r /\ r[k - 1] = x)
        BY <2>1, <4>1
      <4> QED BY <2>1, <4>1, <4>2 DEF Queue!Elements
    <3>2. ASSUME x \in Queue!Elements(r) PROVE x \in Queue!Elements(s)
      <4>1. PICK k \in DOMAIN r : x = r[k]
        BY <3>2 DEF Queue!Elements
      <4>2. k + 1 \in DOMAIN s /\ s[k + 1] = x
        BY <2>1, <4>1
      <4> QED BY <4>2 DEF Queue!Elements
    <3>3. 1 \in DOMAIN s
      BY <2>1
    <3>4. Head(s) \in Queue!Elements(s)
      BY <2>1, <3>3 DEF Queue!Elements
    <3> QED BY <3>1, <3>2, <3>4
  <2>3. Queue!Elements(s) = {Head(s)} \cup Queue!Elements(r)
    BY <2>2
  <2> QED BY <2>3 DEF r
<1> QED BY <1>1, <1>2, <1>3

\* The queue counts as everybody does.
LEMMA SameCardinality == ASSUME NEW S PROVE Queue!Cardinality(S) = Cardinality(S)
  BY DEF Cardinality, Queue!Cardinality

\* The end is a sentinel, 0; a frame is its number.  Only the reader has a
\* frame in hand, the last it cut, and none before it cuts or when it ends.
Puttings == [Queue!Callers -> [item : Nat, how : {"none", "try", "evict"}]]
Hand == putting["reader"].item

PuttingInv ==
  /\ frames \in Nat /\ putting \in Puttings
  /\ \A t \in Queue!Callers : t # "reader" \/ putting[t].how = "none" => putting[t].item = 0
  /\ recorder = "off" => reader = "none"
  /\ reader \in {"none", "reading", "ending"} => putting["reader"].how = "none"
  /\ Hand \in {0, frames}

\* Frames in the queue are in order, after what was heard and before what the
\* reader has in hand.
Rising(s) == \A i, j \in 1..Len(s) : i < j /\ s[i] # 0 /\ s[j] # 0 => s[i] < s[j]

OrderInv ==
  /\ captured \in Seq(Nat) /\ queue \in Seq(Nat)
  /\ 0 \notin Queue!Elements(captured)
  /\ Rising(captured) /\ Rising(queue)
  /\ \A h \in Queue!Elements(captured), q \in Queue!Elements(queue) : q # 0 => h < q
  /\ Hand # 0 => \A x \in Queue!Elements(captured) \cup Queue!Elements(queue) : x < Hand

CoverInv ==
  1..frames = Queue!Elements(captured) \cup (Queue!Elements(queue) \ {0}) \cup ({Hand} \ {0})
              \cup dropped

CountInv == overruns \in Nat /\ Queue!Cardinality(dropped) <= overruns

CaptureInv == PuttingInv /\ OrderInv /\ CoverInv /\ CountInv

\* What rises still does with a greater one after it, and without its first.
LEMMA RisingOf ==
  ASSUME NEW s \in Seq(Nat), Rising(s)
  PROVE  /\ \A i \in Nat : (i # 0 => \A x \in Queue!Elements(s) : x < i) => Rising(Append(s, i))
         /\ s # <<>> => /\ Rising(Tail(s))
                        /\ Head(s) # 0 => \A x \in Queue!Elements(Tail(s)) : x # 0 => Head(s) < x
<1>1. ASSUME NEW i \in Nat, i # 0 => \A x \in Queue!Elements(s) : x < i PROVE Rising(Append(s, i))
  <2> DEFINE r == Append(s, i)
  <2>1. /\ Len(r) = Len(s) + 1 /\ Len(s) \in Nat /\ DOMAIN s = 1..Len(s)
        /\ r[Len(s) + 1] = i /\ \A k \in 1..Len(s) : r[k] = s[k]
    OBVIOUS
  <2> HIDE DEF r
  <2>2. ASSUME NEW j \in 1..Len(r), NEW k \in 1..Len(r), j < k, r[j] # 0, r[k] # 0
        PROVE  r[j] < r[k]
    <3>1. j \in 1..Len(s) /\ r[j] = s[j]
      BY <2>1, <2>2
    <3>2. CASE k = Len(s) + 1
      <4>1. s[j] \in Queue!Elements(s)
        BY <2>1, <3>1 DEF Queue!Elements
      <4> QED BY <1>1, <2>1, <2>2, <3>1, <3>2, <4>1
    <3>3. CASE k # Len(s) + 1
      <4>1. k \in 1..Len(s)
        BY <2>1, <3>3
      <4> QED BY <2>1, <2>2, <3>1, <4>1 DEF Rising
    <3> QED BY <3>2, <3>3
  <2>3. Rising(r)
    BY <2>2 DEF Rising
  <2> QED BY <2>3 DEF r
<1>2. ASSUME s # <<>>
      PROVE  /\ Rising(Tail(s))
             /\ Head(s) # 0 => \A x \in Queue!Elements(Tail(s)) : x # 0 => Head(s) < x
  <2> DEFINE r == Tail(s)
  <2>1. /\ Len(s) \in Nat \ {0} /\ Len(r) = Len(s) - 1 /\ DOMAIN r = 1..(Len(s) - 1)
        /\ Head(s) = s[1] /\ \A k \in 1..(Len(s) - 1) : r[k] = s[k + 1]
    BY <1>2, EmptySeq
  <2> HIDE DEF r
  <2>2. ASSUME NEW j \in 1..Len(r), NEW k \in 1..Len(r), j < k, r[j] # 0, r[k] # 0
        PROVE  r[j] < r[k]
    <3>1. j + 1 \in 1..Len(s) /\ k + 1 \in 1..Len(s) /\ j + 1 < k + 1
      BY <2>1, <2>2
    <3> QED BY <2>1, <2>2, <3>1 DEF Rising
  <2>3. Rising(r)
    BY <2>2 DEF Rising
  <2>4. ASSUME Head(s) # 0, NEW x \in Queue!Elements(r), x # 0 PROVE Head(s) < x
    <3>1. PICK k \in DOMAIN r : x = r[k]
      BY DEF Queue!Elements
    <3>2. 1 \in 1..Len(s) /\ k + 1 \in 1..Len(s) /\ 1 < k + 1 /\ s[k + 1] = x
      BY <2>1, <3>1
    <3> QED BY <2>1, <2>4, <3>2 DEF Rising
  <2> QED BY <2>3, <2>4 DEF r
<1> QED BY <1>1, <1>2

\* The invariant holds before the recorder starts.
LEMMA CaptureStart == Queue!Init => CaptureInv
<1> SUFFICES ASSUME Queue!Init PROVE CaptureInv
  OBVIOUS
<1>1. /\ recorder = "off" /\ reader = "none" /\ frames = 0 /\ queue = <<>> /\ overruns = 0
      /\ dropped = {} /\ captured = <<>>
      /\ putting = [t \in Queue!Callers |-> [item |-> 0, how |-> "none"]]
  BY DEF Queue!Init, Queue!Idle, Queue!Eof
<1>2. Hand = 0
  BY <1>1 DEF Hand, Queue!Callers
<1>3. PuttingInv
  BY <1>1, <1>2 DEF PuttingInv, Puttings, Queue!Callers
<1>4. OrderInv
  BY <1>1, <1>2, ElementsOf DEF OrderInv, Rising
<1>5. CoverInv
  BY <1>1, <1>2, ElementsOf DEF CoverInv
<1>6. CountInv
  <2>1. Queue!Cardinality({}) = 0
    BY SameCardinality, FS_EmptySet
  <2> QED BY <1>1, <2>1 DEF CountInv
<1> QED BY <1>3, <1>4, <1>5, <1>6 DEF CaptureInv

\* What moves no frame.
LEMMA NothingMoves ==
  ASSUME CaptureInv, UNCHANGED <<queue, captured, overruns, dropped, frames>>, Hand' = Hand
  PROVE  OrderInv' /\ CoverInv' /\ CountInv'
<1>1. OrderInv'
  BY DEF CaptureInv, OrderInv, Queue!Elements, Rising
<1>2. CoverInv'
  BY DEF CaptureInv, CoverInv, Queue!Elements
<1>3. CountInv'
  BY DEF CaptureInv, CountInv
<1> QED BY <1>1, <1>2, <1>3

\* Whoever has nothing in hand puts an item.
LEMMA PuttingStep ==
  ASSUME CaptureInv, NEW t \in Queue!Callers, NEW item \in Nat, Queue!Puts(t, item)
  PROVE  /\ putting' \in Puttings /\ putting'[t] = [item |-> item, how |-> "try"]
         /\ \A c \in Queue!Callers \ {t} : putting'[c] = putting[c]
         /\ t = "reader" => Hand' = item
         /\ t # "reader" => Hand' = Hand
<1>1. putting \in Puttings /\ putting' = [putting EXCEPT ![t] = [item |-> item, how |-> "try"]]
  BY DEF CaptureInv, PuttingInv, Queue!Puts
<1>2. [item |-> item, how |-> "try"] \in [item : Nat, how : {"none", "try", "evict"}]
  OBVIOUS
<1>3. putting'[t] = [item |-> item, how |-> "try"]
  BY <1>1 DEF Puttings
<1>4. \A c \in Queue!Callers \ {t} : putting'[c] = putting[c]
  BY <1>1 DEF Puttings
<1>5. putting' \in Puttings
  BY <1>1, <1>2 DEF Puttings
<1>6. "reader" \in Queue!Callers
  BY DEF Queue!Callers
<1> QED BY <1>3, <1>4, <1>5, <1>6 DEF Hand

\* The first frame of the queue has been taken out.
LEMMA Taken ==
  ASSUME CaptureInv, queue # <<>>, queue' = Tail(queue)
  PROVE  /\ Head(queue) \in Nat /\ queue' \in Seq(Nat) /\ Rising(queue')
         /\ Queue!Elements(queue) = {Head(queue)} \cup Queue!Elements(queue')
         /\ Head(queue) # 0 => \A x \in Queue!Elements(queue') : x # 0 => Head(queue) < x
<1>1. queue \in Seq(Nat) /\ Rising(queue)
  BY DEF CaptureInv, OrderInv
<1>2. Head(queue) \in Nat /\ Tail(queue) \in Seq(Nat)
  BY <1>1, HeadTailProperties
<1> QED BY <1>1, <1>2, RisingOf, ElementsOf

\* A putter takes the oldest out.
LEMMA EvictStep ==
  ASSUME CaptureInv, NEW t \in Queue!Callers, Queue!Evict(t)
  PROVE  CaptureInv'
<1>1. /\ putting[t].how = "evict" /\ putting' = [putting EXCEPT ![t].how = "try"]
      /\ UNCHANGED <<recorder, reader, frames, captured>>
  BY DEF Queue!Evict, Queue!Evicts, Queue!stream, Queue!cut
<1>2. putting \in Puttings /\ "reader" \in Queue!Callers
  BY DEF CaptureInv, PuttingInv, Queue!Callers
<1>3. /\ putting' \in Puttings
      /\ \A c \in Queue!Callers : putting'[c].item = putting[c].item
      /\ \A c \in Queue!Callers : putting'[c].how = IF c = t THEN "try" ELSE putting[c].how
  BY <1>1, <1>2 DEF Puttings
<1>4. Hand' = Hand
  BY <1>2, <1>3 DEF Hand
<1>5. PuttingInv'
  <2>1. \A c \in Queue!Callers : putting'[c].how = "none" <=> putting[c].how = "none"
    BY <1>1, <1>3
  <2> QED BY <1>1, <1>2, <1>3, <1>4, <2>1 DEF CaptureInv, PuttingInv
<1>6. CASE queue = <<>>
  <2>1. UNCHANGED <<queue, overruns, dropped>>
    BY <1>6 DEF Queue!Evict, Queue!Evicts
  <2> QED BY <1>1, <1>4, <1>5, <2>1, NothingMoves DEF CaptureInv
<1>7. CASE queue # <<>>
  <2>1. /\ queue' = Tail(queue) /\ dropped' = dropped \cup ({Head(queue)} \ {0})
        /\ overruns' = overruns + 1
    BY <1>7 DEF Queue!Evict, Queue!Evicts, Queue!Eof
  <2>2. /\ queue' \in Seq(Nat) /\ Rising(queue')
        /\ Queue!Elements(queue) = {Head(queue)} \cup Queue!Elements(queue')
    BY <1>7, <2>1, Taken
  <2>3. OrderInv'
    <3>1. Queue!Elements(captured)' = Queue!Elements(captured)
      BY <1>1 DEF Queue!Elements
    <3>2. Rising(captured)'
      BY <1>1 DEF CaptureInv, OrderInv, Rising
    <3>3. captured' \in Seq(Nat)
      BY <1>1 DEF CaptureInv, OrderInv
    <3> DEFINE E(s) == Queue!Elements(s)
    <3> QED BY <1>4, <2>2, <3>1, <3>2, <3>3 DEF CaptureInv, OrderInv
  <2>4. CoverInv'
    <3>1. Queue!Elements(captured)' = Queue!Elements(captured)
      BY <1>1 DEF Queue!Elements
    <3> QED BY <1>1, <1>4, <2>1, <2>2, <3>1 DEF CaptureInv, CoverInv
  <2>5. CountInv'
    <3>1. IsFiniteSet(1..frames) /\ dropped \subseteq 1..frames
      BY FS_Interval DEF CaptureInv, PuttingInv, CoverInv
    <3>2. IsFiniteSet(dropped)
      BY <3>1, FS_Subset
    <3> DEFINE more == dropped \cup {Head(queue)}
    <3>3. /\ IsFiniteSet(more) /\ Cardinality(dropped) \in Nat
          /\ Cardinality(more) = Cardinality(dropped)
               \/ Cardinality(more) = Cardinality(dropped) + 1
      BY <3>2, FS_CardinalityType, FS_AddElement
    <3>4. dropped' = dropped \/ dropped' = more
      BY <2>1
    <3> HIDE DEF more
    <3>5. Cardinality(dropped) <= overruns /\ overruns \in Nat
      BY SameCardinality DEF CaptureInv, CountInv
    <3>6. Cardinality(dropped') <= overruns' /\ overruns' \in Nat
      <4>1. Cardinality(dropped') = Cardinality(dropped) \/ Cardinality(dropped') = Cardinality(more)
        BY <3>4
      <4>2. overruns' = overruns + 1
        BY <2>1
      <4> QED BY <3>3, <3>5, <4>1, <4>2
    <3>7. Queue!Cardinality(dropped)' = Cardinality(dropped')
      BY SameCardinality
    <3> QED BY <3>6, <3>7 DEF CountInv
  <2> QED BY <1>5, <2>3, <2>4, <2>5 DEF CaptureInv
<1> QED BY <1>6, <1>7

\* A putter puts its item, or finds the queue full.
LEMMA TryPutStep ==
  ASSUME CaptureInv, NEW t \in Queue!Callers, Queue!TryPut(t)
  PROVE  CaptureInv'
<1>1. /\ putting[t].how = "try"
      /\ UNCHANGED <<recorder, reader, frames, captured, overruns, dropped>>
  BY DEF Queue!TryPut, Queue!stream, Queue!cut
<1>2. putting \in Puttings /\ "reader" \in Queue!Callers /\ putting[t].item \in Nat
  BY DEF CaptureInv, PuttingInv, Puttings, Queue!Callers
<1>3. CASE Len(queue) < QueueSize
  <2> DEFINE item == putting[t].item
  <2>1. queue' = Append(queue, item) /\ putting' = [putting EXCEPT ![t] = [item |-> 0, how |-> "none"]]
    BY <1>3 DEF Queue!TryPut, Queue!Idle, Queue!Eof
  <2>2. /\ putting' \in Puttings
        /\ \A c \in Queue!Callers : putting'[c] = IF c = t THEN [item |-> 0, how |-> "none"]
                                                  ELSE putting[c]
    BY <1>2, <2>1 DEF Puttings
  <2>3. Hand' = IF t = "reader" THEN 0 ELSE Hand
    BY <1>2, <2>2 DEF Hand
  <2>4. PuttingInv'
    BY <1>1, <1>2, <2>2, <2>3 DEF CaptureInv, PuttingInv
  <2>5. (t = "reader" => item = Hand) /\ (t # "reader" => item = 0)
    BY DEF Hand, CaptureInv, PuttingInv
  <2>6. item \in Nat /\ queue \in Seq(Nat) /\ captured \in Seq(Nat)
    BY <1>2 DEF CaptureInv, OrderInv
  <2> HIDE DEF item
  <2>7. queue' \in Seq(Nat) /\ Queue!Elements(queue') = Queue!Elements(queue) \cup {item}
    BY <2>1, <2>6, ElementsOf
  <2>8. \A x \in Queue!Elements(captured) \cup Queue!Elements(queue) : item # 0 => x < item
    BY <2>5 DEF CaptureInv, OrderInv
  <2>9. Rising(queue')
    BY <2>1, <2>6, <2>8, RisingOf DEF CaptureInv, OrderInv
  <2>10. /\ Queue!Elements(captured)' = Queue!Elements(captured)
         /\ Queue!Elements(queue)' = Queue!Elements(queue')
    BY <1>1 DEF Queue!Elements
  <2>11. Rising(captured)'
    BY <1>1 DEF CaptureInv, OrderInv, Rising
  <2>12. OrderInv'
    <3>1. ASSUME NEW h \in Queue!Elements(captured), NEW q \in Queue!Elements(queue'), q # 0
          PROVE  h < q
      BY <2>7, <2>8, <3>1 DEF CaptureInv, OrderInv
    <3>2. ASSUME Hand' # 0, NEW x \in Queue!Elements(captured) \cup Queue!Elements(queue')
          PROVE  x < Hand'
      <4>1. t # "reader" /\ Hand' = Hand /\ item = 0
        BY <2>3, <2>5, <3>2
      <4>2. Hand \in Nat
        BY <1>2 DEF Hand, Puttings
      <4> QED BY <2>7, <3>2, <4>1, <4>2 DEF CaptureInv, OrderInv
    <3>3. 0 \notin Queue!Elements(captured)
      BY DEF CaptureInv, OrderInv
    <3> QED BY <1>1, <2>6, <2>7, <2>9, <2>10, <2>11, <3>1, <3>2, <3>3 DEF OrderInv
  <2>13. CoverInv'
    <3>1. (Queue!Elements(queue) \ {0}) \cup ({Hand} \ {0})
            = (Queue!Elements(queue') \ {0}) \cup ({Hand'} \ {0})
      BY <2>3, <2>5, <2>7
    <3> QED BY <1>1, <2>10, <3>1 DEF CaptureInv, CoverInv
  <2>14. CountInv'
    BY <1>1 DEF CaptureInv, CountInv
  <2> QED BY <2>4, <2>12, <2>13, <2>14 DEF CaptureInv
<1>4. CASE ~(Len(queue) < QueueSize)
  <2>1. putting' = [putting EXCEPT ![t].how = "evict"] /\ UNCHANGED queue
    BY <1>4 DEF Queue!TryPut
  <2>2. /\ putting' \in Puttings
        /\ \A c \in Queue!Callers : putting'[c].item = putting[c].item
        /\ \A c \in Queue!Callers : putting'[c].how = IF c = t THEN "evict" ELSE putting[c].how
    BY <1>2, <2>1 DEF Puttings
  <2>3. Hand' = Hand
    BY <1>2, <2>2 DEF Hand
  <2>4. \A c \in Queue!Callers : putting'[c].how = "none" <=> putting[c].how = "none"
    BY <1>1, <2>2
  <2>5. PuttingInv'
    BY <1>1, <1>2, <2>2, <2>3, <2>4 DEF CaptureInv, PuttingInv
  <2> QED BY <1>1, <2>1, <2>3, <2>5, NothingMoves DEF CaptureInv
<1> QED BY <1>3, <1>4

\* The consumer takes an item, and puts the end back.
LEMMA GetStep ==
  ASSUME CaptureInv, Queue!Get
  PROVE  CaptureInv'
<1>1. /\ queue # <<>> /\ queue' = Tail(queue) /\ putting["consumer"].how = "none"
      /\ UNCHANGED <<recorder, reader, frames, overruns, dropped>>
  BY DEF Queue!Get, Queue!Gets, Queue!Free, Queue!stream, Queue!cut
<1>2. /\ Head(queue) \in Nat /\ queue' \in Seq(Nat) /\ Rising(queue')
      /\ Queue!Elements(queue) = {Head(queue)} \cup Queue!Elements(queue')
      /\ Head(queue) # 0 => \A x \in Queue!Elements(queue') : x # 0 => Head(queue) < x
  BY <1>1, Taken
<1>3. CountInv'
  BY <1>1 DEF CaptureInv, CountInv
<1>4. Queue!Elements(queue)' = Queue!Elements(queue') /\ "consumer" \in Queue!Callers
      /\ Queue!Elements(captured)' = Queue!Elements(captured')
  BY DEF Queue!Elements, Queue!Callers
<1>5. CASE Head(queue) = 0
  <2>1. Queue!Puts("consumer", 0) /\ UNCHANGED captured
    BY <1>5 DEF Queue!Get, Queue!Gets, Queue!Eof
  <2>2. /\ putting' \in Puttings /\ putting'["consumer"] = [item |-> 0, how |-> "try"]
        /\ \A c \in Queue!Callers \ {"consumer"} : putting'[c] = putting[c]
        /\ Hand' = Hand
    BY <1>4, <2>1, PuttingStep
  <2>3. PuttingInv'
    BY <1>1, <2>2 DEF CaptureInv, PuttingInv, Queue!Callers
  <2>4. Rising(captured)' /\ captured' \in Seq(Nat) /\ Queue!Elements(captured') = Queue!Elements(captured)
    BY <2>1 DEF CaptureInv, OrderInv, Rising
  <2>5. OrderInv'
    BY <1>2, <1>4, <2>2, <2>4 DEF CaptureInv, OrderInv
  <2>6. CoverInv'
    BY <1>1, <1>2, <1>4, <1>5, <2>2, <2>4 DEF CaptureInv, CoverInv
  <2> QED BY <1>3, <2>3, <2>5, <2>6 DEF CaptureInv
<1>6. CASE Head(queue) # 0
  <2> DEFINE item == Head(queue)
  <2>1. captured' = Append(captured, item) /\ UNCHANGED putting
    BY <1>6 DEF Queue!Get, Queue!Gets, Queue!Eof
  <2>2. Hand' = Hand
    BY <2>1 DEF Hand
  <2>3. PuttingInv'
    BY <1>1, <2>1, <2>2 DEF CaptureInv, PuttingInv
  <2>4. captured \in Seq(Nat) /\ Rising(captured) /\ item \in Nat /\ item # 0
    BY <1>2, <1>6 DEF CaptureInv, OrderInv
  <2>5. captured' \in Seq(Nat) /\ Queue!Elements(captured') = Queue!Elements(captured) \cup {item}
    <3> HIDE DEF item
    <3> QED BY <2>1, <2>4, ElementsOf
  <2>6. item \in Queue!Elements(queue)
    BY <1>2
  <2>7. \A h \in Queue!Elements(captured) : h < item
    BY <2>4, <2>6 DEF CaptureInv, OrderInv
  <2>8. \A x \in Queue!Elements(queue') : x # 0 => item < x
    BY <1>2, <2>4
  <2> HIDE DEF item
  <2>9. Rising(captured')
    BY <2>1, <2>4, <2>7, RisingOf
  <2>10. OrderInv'
    <3>1. ASSUME NEW h \in Queue!Elements(captured'), NEW q \in Queue!Elements(queue'), q # 0
          PROVE  h < q
      BY <1>2, <2>5, <2>8, <3>1 DEF CaptureInv, OrderInv
    <3>2. ASSUME Hand' # 0, NEW x \in Queue!Elements(captured') \cup Queue!Elements(queue')
          PROVE  x < Hand'
      BY <1>2, <2>2, <2>5, <2>6, <3>2 DEF CaptureInv, OrderInv
    <3>3. 0 \notin Queue!Elements(captured')
      BY <2>4, <2>5 DEF CaptureInv, OrderInv
    <3>4. Rising(captured)' /\ Rising(queue)'
      BY <1>2, <2>9 DEF Rising
    <3> QED BY <1>2, <1>4, <2>5, <3>1, <3>2, <3>3, <3>4 DEF OrderInv
  <2>11. CoverInv'
    <3>1. Queue!Elements(captured) \cup (Queue!Elements(queue) \ {0})
            = Queue!Elements(captured') \cup (Queue!Elements(queue') \ {0})
      <4>1. Queue!Elements(queue) = {item} \cup Queue!Elements(queue')
        BY <1>2 DEF item
      <4> QED BY <2>4, <2>5, <4>1
    <3> QED BY <1>1, <1>4, <2>2, <3>1 DEF CaptureInv, CoverInv
  <2> QED BY <1>3, <2>3, <2>10, <2>11 DEF CaptureInv
<1> QED BY <1>5, <1>6

\* The reader cuts a frame, or needs more bytes.
LEMMA CutStep ==
  ASSUME CaptureInv, Queue!CutFrame
  PROVE  CaptureInv'
<1>1. /\ reader = "cutting" /\ putting["reader"].how = "none"
      /\ UNCHANGED <<recorder, queue, overruns, dropped, captured>>
  BY DEF Queue!CutFrame, Queue!Free, Queue!stream
<1>2. "reader" \in Queue!Callers /\ Hand = 0 /\ frames \in Nat
  BY <1>1 DEF CaptureInv, PuttingInv, Queue!Callers, Hand
<1>3. CASE buffer >= Want
  <2>1. frames' = frames + 1 /\ Queue!Puts("reader", frames + 1) /\ UNCHANGED reader
    BY <1>3 DEF Queue!CutFrame
  <2>2. /\ putting' \in Puttings /\ putting'["reader"] = [item |-> frames + 1, how |-> "try"]
        /\ \A c \in Queue!Callers \ {"reader"} : putting'[c] = putting[c]
        /\ Hand' = frames + 1
    <3>1. frames + 1 \in Nat
      BY <1>2
    <3> QED BY <1>2, <2>1, <3>1, PuttingStep
  <2>3. PuttingInv'
    BY <1>1, <1>2, <2>1, <2>2 DEF CaptureInv, PuttingInv
  <2>4. /\ Queue!Elements(captured)' = Queue!Elements(captured)
        /\ Queue!Elements(queue)' = Queue!Elements(queue)
        /\ (Rising(captured) => Rising(captured)') /\ (Rising(queue) => Rising(queue)')
        /\ captured' = captured /\ queue' = queue
    BY <1>1 DEF Queue!Elements, Rising
  <2>5. \A x \in Queue!Elements(captured) \cup Queue!Elements(queue) : x < frames + 1
    <3>1. ASSUME NEW x \in Queue!Elements(captured) \cup Queue!Elements(queue) PROVE x < frames + 1
      <4>1. x = 0 \/ x \in 1..frames
        BY DEF CaptureInv, CoverInv
      <4> QED BY <1>2, <4>1
    <3> QED BY <3>1
  <2>6. OrderInv'
    BY <2>2, <2>4, <2>5 DEF CaptureInv, OrderInv
  <2>7. CoverInv'
    <3>1. 1..(frames + 1) = (1..frames) \cup {frames + 1} /\ frames + 1 # 0
      BY <1>2
    <3>2. 1..frames' = (1..frames) \cup ({Hand'} \ {0})
      BY <2>1, <2>2, <3>1
    <3> QED BY <1>1, <1>2, <2>4, <3>2 DEF CaptureInv, CoverInv
  <2>8. CountInv'
    BY <1>1 DEF CaptureInv, CountInv
  <2> QED BY <2>3, <2>6, <2>7, <2>8 DEF CaptureInv
<1>4. CASE ~(buffer >= Want)
  <2>1. reader' = "reading" /\ UNCHANGED <<frames, putting>>
    BY <1>4 DEF Queue!CutFrame
  <2>2. Hand' = Hand
    BY <2>1 DEF Hand
  <2>3. PuttingInv'
    BY <1>1, <2>1, <2>2 DEF CaptureInv, PuttingInv
  <2> QED BY <1>1, <2>1, <2>2, <2>3, NothingMoves DEF CaptureInv
<1> QED BY <1>3, <1>4

\* The reader moves on, or the recorder does, and nothing is put.
LEMMA QuietStep ==
  ASSUME CaptureInv,
         \/ Queue!Start \/ Queue!Record \/ Queue!RecorderEnds \/ Queue!RequestStop
         \/ Queue!ReadPipe \/ Queue!ReaderOver \/ Queue!Read \/ Queue!StopKills
         \/ UNCHANGED Queue!vars
  PROVE  CaptureInv'
<1>1. UNCHANGED <<queue, putting, captured, overruns, dropped, frames>>
  BY DEF Queue!Start, Queue!Record, Queue!RecorderEnds, Queue!RequestStop, Queue!ReadPipe,
         Queue!ReadsPipe, Queue!ReaderOver, Queue!Read, Queue!StopKills, Queue!vars, Queue!queued,
         Queue!cut
<1>2. Hand' = Hand
  BY <1>1 DEF Hand
<1>3. /\ recorder' = "off" => recorder = "off" /\ reader' = reader
      /\ reader' \in {"none", "reading", "ending"} => reader \in {"none", "reading", "ending"}
  BY DEF Queue!Start, Queue!Record, Queue!RecorderEnds, Queue!RequestStop, Queue!ReadPipe,
         Queue!ReadsPipe, Queue!ReaderOver, Queue!Read, Queue!StopKills, Queue!vars, Queue!cut,
         Queue!stream, Queue!KilledRecorder, CaptureInv, PuttingInv
<1>4. PuttingInv'
  BY <1>1, <1>2, <1>3 DEF CaptureInv, PuttingInv
<1> QED BY <1>1, <1>2, <1>4, NothingMoves DEF CaptureInv

\* Somebody puts the end of the stream.
LEMMA EndPut ==
  ASSUME CaptureInv, Queue!EndStream \/ Queue!RequestClose \/ Queue!Stop
  PROVE  CaptureInv'
<1>1. PICK t \in {"reader", "closer", "stopper"} :
        /\ Queue!Puts(t, 0) /\ UNCHANGED <<queue, captured, overruns, dropped, frames>>
        /\ recorder' = "off" => recorder = "off"
        /\ IF t = "reader" THEN reader = "ending" /\ reader' = "last" ELSE UNCHANGED reader
  BY DEF Queue!EndStream, Queue!RequestClose, Queue!Stop, Queue!cut, Queue!stream, Queue!Eof,
         Queue!KilledRecorder
<1>2. t \in Queue!Callers /\ "reader" \in Queue!Callers
  BY DEF Queue!Callers
<1>3. /\ putting' \in Puttings /\ putting'[t] = [item |-> 0, how |-> "try"]
      /\ \A c \in Queue!Callers \ {t} : putting'[c] = putting[c]
      /\ t = "reader" => Hand' = 0
      /\ t # "reader" => Hand' = Hand
  BY <1>1, <1>2, PuttingStep
<1>4. Hand' = Hand
  <2>1. t = "reader" => Hand = 0
    BY <1>1, <1>2 DEF CaptureInv, PuttingInv, Hand
  <2> QED BY <1>3, <2>1
<1>5. PuttingInv'
  <2>1. \A c \in Queue!Callers : c # "reader" \/ putting'[c].how = "none" => putting'[c].item = 0
    BY <1>3 DEF CaptureInv, PuttingInv
  <2>2. recorder' = "off" => reader' = "none"
    BY <1>1 DEF CaptureInv, PuttingInv
  <2>3. reader' \in {"none", "reading", "ending"} => putting'["reader"].how = "none"
    BY <1>1, <1>2, <1>3 DEF CaptureInv, PuttingInv
  <2> QED BY <1>1, <1>3, <1>4, <2>1, <2>2, <2>3 DEF CaptureInv, PuttingInv
<1> QED BY <1>1, <1>4, <1>5, NothingMoves DEF CaptureInv

\* Every step keeps the invariant.
LEMMA CaptureStep == CaptureInv /\ [Queue!Next]_(Queue!vars) => CaptureInv'
BY QuietStep, EndPut, CutStep, GetStep, TryPutStep, EvictStep DEF Queue!Next

\* Every frame cut is heard once and in order, on its way, or counted among the
\* lost, for any frame and queue size, whoever puts the end of the stream into
\* a full queue and whatever the others do between two tries.
THEOREM LossSafe == HearingSpec => []LossIsCounted
<1>1. CaptureInv => LossIsCounted
  <2> SUFFICES ASSUME CaptureInv PROVE Queue!LossIsCounted
    BY DEF LossIsCounted
  <2>1. ASSUME NEW i \in 2..Len(captured) PROVE captured[i - 1] < captured[i]
    <3>1. captured \in Seq(Nat) /\ Rising(captured) /\ 0 \notin Queue!Elements(captured)
      BY DEF CaptureInv, OrderInv
    <3>2. /\ i - 1 \in 1..Len(captured) /\ i \in 1..Len(captured) /\ i - 1 < i
          /\ DOMAIN captured = 1..Len(captured)
      BY <3>1
    <3>3. captured[i - 1] # 0 /\ captured[i] # 0
      BY <3>1, <3>2 DEF Queue!Elements
    <3> QED BY <3>1, <3>2, <3>3 DEF Rising
  <2>2. Queue!InHand = {Hand} \ {0}
    BY DEF Queue!InHand, Hand, Queue!Eof
  <2> QED BY <2>1, <2>2 DEF Queue!LossIsCounted, CaptureInv, CoverInv, CountInv, Queue!Eof
<1>2. HearingInit => Queue!Init
  BY DEF HearingInit
<1>3. [HearingNext]_hearingVars => [Queue!Next]_(Queue!vars)
  BY DEF HearingNext, hearingVars, captureVars, Queue!vars
<1> QED BY <1>1, <1>2, <1>3, CaptureStart, CaptureStep, HearingSteps, PTL
=============================================================================
