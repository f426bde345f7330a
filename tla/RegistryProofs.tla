--------------------------- MODULE RegistryProofs ---------------------------
(***************************************************************************)
(* The registry for any resources, agents and state objects.               *)
(***************************************************************************)
EXTENDS CleanupRegistry, FiniteSetTheorems, TLAPS

HeldPlaces == {"registered", "owning", "claimed", "constructing", "prepared", "attempting"}
HeldSet == [pc : HeldPlaces, key : Keys, res : Resources, st : Ids]
Places == {"reserved", "check", "close", "lease", "proven", "unproven", "end"}
AttemptSet == [pc : Places, key : Keys, res : Resources, st : Ids, by : Agents \cup {"retry"}]

\* A key has an owner and a state, or neither; what is pending under it is its
\* owner; a resource has one key.
SlotInv ==
  /\ \A k \in Keys : owner[k] = None <=> entry[k] = None
  /\ \A k \in Keys : failed[k] # None => failed[k] = owner[k]
  /\ \A k, l \in Keys : owner[k] # None /\ owner[k] = owner[l] => k = l

\* Something refers to a registration: the registry, an agent or an attempt.
Refers(k, r, i) ==
  \/ owner[k] = r /\ entry[k] = i
  \/ \E a \in Holding : held[a].key = k /\ held[a].res = r /\ held[a].st = i
  \/ \E t \in attempts : t.key = k /\ t.res = r /\ t.st = i

\* A state object belongs to one registration for as long as anybody refers to
\* it, and to a resource that is known.
RefInv ==
  /\ \A k, l \in Keys, r, s \in Resources, i \in Ids :
       Refers(k, r, i) /\ Refers(l, s, i) => k = l /\ r = s
  /\ \A k \in Keys, r \in Resources, i \in Ids : Refers(k, r, i) => r \in known

Acknowledged(r) == r \in Leased => lease[r] = "acknowledged"

ProvenPlace(t) ==
  /\ t.pc \in {"lease", "proven"} => t.res \in closed
  /\ t.pc = "proven" => Acknowledged(t.res)

\* A state says closed, and an attempt goes on to the grant and to release,
\* after its resource was proven closed and the grant acknowledged.
ProvenInv ==
  /\ \A k \in Keys, r \in Resources, i \in Ids :
       Refers(k, r, i) /\ state[i].closed => r \in closed
  /\ \A t \in attempts : ProvenPlace(t)

\* What left the registry is closed and has no grant, and stays so.
GoneInv ==
  /\ child \subseteq known \ closed
  /\ \A r \in known \ Owned : r \in closed /\ Acknowledged(r)
  /\ \A r \in Leased : lease[r] # "pending" => r \in known
  /\ \A r \in Leased : lease[r] = "acknowledged" => r \in closed

\* Shutdown's pass over the registry holds for what comes after it.
SweptInv == (swept => stopping) /\ SweptIsShut

\* Only a provider is constructed after its registration; an agent makes one
\* attempt at a time, and does nothing else meanwhile.
HoldInv ==
  /\ \A a \in Agents :
       held[a].pc \in {"owning", "claimed", "constructing"} => held[a].res \in Providers
  /\ \A t \in attempts : t.by # "retry" => held[t.by].pc = "attempting"
  /\ \A t, u \in attempts : t.by # "retry" /\ t.by = u.by => t = u

\* Except for providers, an attempt has its state for itself, says so there,
\* and from its check to its end its registration stays the current one.
RunInv ==
  \A t \in attempts : t.res \notin Providers =>
    /\ state[t.st].running
    /\ \A u \in attempts : u.st = t.st => u = t
    /\ t.pc \in {"close", "lease", "unproven", "proven"} => Current(t)

-----------------------------------------------------------------------------
(* Records.                                                                *)

\* Who is not idle holds a whole registration.
LEMMA HeldFields ==
  ASSUME TypeOK, NEW a \in Agents, held[a].pc # "idle"
  PROVE  held[a] \in HeldSet
<1>1. held[a] \in {Nothing} \cup HeldSet
  BY DEF TypeOK, HeldSet, HeldPlaces
<1>2. held[a] # Nothing
  BY DEF Nothing
<1>3. QED
  BY <1>1, <1>2

\* Hold, Becomes and Done change what one agent holds.
LEMMA BecomesFields ==
  ASSUME TypeOK, NEW a \in Agents, held[a].pc # "idle", NEW x \in HeldPlaces, Becomes(a, x)
  PROVE  /\ held' \in [Agents -> {Nothing} \cup HeldSet]
         /\ \A b \in Agents : b # a => held'[b] = held[b]
         /\ held'[a].pc = x /\ held'[a].key = held[a].key
         /\ held'[a].res = held[a].res /\ held'[a].st = held[a].st
<1>1. held[a] \in HeldSet
  BY HeldFields
<1>2. held \in [Agents -> {Nothing} \cup HeldSet]
  BY DEF TypeOK, HeldSet, HeldPlaces
<1>3. held' = [held EXCEPT ![a] = [held[a] EXCEPT !.pc = x]]
  BY DEF Becomes
<1>4. [held[a] EXCEPT !.pc = x] \in HeldSet
  BY <1>1 DEF HeldSet
<1>5. QED
  BY <1>1, <1>2, <1>3, <1>4 DEF HeldSet

\* An attempt that goes on changes its place only.
LEMMA AdvanceFields ==
  ASSUME TypeOK, NEW t \in attempts, NEW x \in Places, Advance(t, x)
  PROVE  \E n \in AttemptSet :
           /\ attempts' = (attempts \ {t}) \cup {n}
           /\ n.pc = x /\ n.key = t.key /\ n.res = t.res /\ n.st = t.st /\ n.by = t.by
<1> DEFINE n == [t EXCEPT !.pc = x]
<1>1. t \in AttemptSet
  BY DEF TypeOK, AttemptSet, Places
<1>2. n \in AttemptSet
  BY <1>1 DEF AttemptSet
<1>3. n.pc = x /\ n.key = t.key /\ n.res = t.res /\ n.st = t.st /\ n.by = t.by
  BY <1>1 DEF AttemptSet
<1>4. attempts' = (attempts \ {t}) \cup {n}
  BY DEF Advance
<1>5. QED
  BY <1>2, <1>3, <1>4

\* A flag of one state object is set or reset.
LEMMA RunningFields ==
  ASSUME TypeOK, NEW i \in Ids, NEW b \in BOOLEAN, state' = [state EXCEPT ![i].running = b]
  PROVE  /\ state' \in [Ids -> [closed : BOOLEAN, running : BOOLEAN]]
         /\ state'[i].running = b
         /\ \A j \in Ids : j # i => state'[j] = state[j]
         /\ \A j \in Ids : state'[j].closed = state[j].closed
<1>1. state[i] \in [closed : BOOLEAN, running : BOOLEAN]
  BY DEF TypeOK
<1> DEFINE set == [state[i] EXCEPT !.running = b]
<1>2. set \in [closed : BOOLEAN, running : BOOLEAN] /\ set.closed = state[i].closed /\ set.running = b
  BY <1>1
<1>3. state' = [state EXCEPT ![i] = set]
  OBVIOUS
<1> HIDE DEF set
<1>4. state \in [Ids -> [closed : BOOLEAN, running : BOOLEAN]]
  BY DEF TypeOK
<1>5. state'[i] = set /\ \A j \in Ids : j # i => state'[j] = state[j]
  BY <1>3, <1>4
<1>6. state' \in [Ids -> [closed : BOOLEAN, running : BOOLEAN]]
  BY <1>2, <1>3, <1>4
<1>7. \A j \in Ids : state'[j].closed = state[j].closed
  <2>1. ASSUME NEW j \in Ids PROVE state'[j].closed = state[j].closed
    <3>1. CASE j = i
      BY <1>2, <1>5, <3>1, Zenon
    <3>2. CASE j # i
      BY <1>5, <3>2, Zenon
    <3>3. QED
      BY <3>1, <3>2
  <2>2. QED
    BY <2>1
<1>8. QED
  BY <1>2, <1>5, <1>6, <1>7, Zenon

LEMMA ClosedFields ==
  ASSUME TypeOK, NEW i \in Ids, state' = [state EXCEPT ![i].closed = TRUE]
  PROVE  /\ state' \in [Ids -> [closed : BOOLEAN, running : BOOLEAN]]
         /\ \A j \in Ids : j # i => state'[j] = state[j]
         /\ \A j \in Ids : state'[j].running = state[j].running
<1>1. state[i] \in [closed : BOOLEAN, running : BOOLEAN]
  BY DEF TypeOK
<1> DEFINE set == [state[i] EXCEPT !.closed = TRUE]
<1>2. set \in [closed : BOOLEAN, running : BOOLEAN] /\ set.running = state[i].running /\ set.closed = TRUE
  BY <1>1
<1>3. state' = [state EXCEPT ![i] = set]
  OBVIOUS
<1> HIDE DEF set
<1>4. state \in [Ids -> [closed : BOOLEAN, running : BOOLEAN]]
  BY DEF TypeOK
<1>5. state'[i] = set /\ \A j \in Ids : j # i => state'[j] = state[j]
  BY <1>3, <1>4
<1>6. state' \in [Ids -> [closed : BOOLEAN, running : BOOLEAN]]
  BY <1>2, <1>3, <1>4
<1>7. \A j \in Ids : state'[j].running = state[j].running
  <2>1. ASSUME NEW j \in Ids PROVE state'[j].running = state[j].running
    <3>1. CASE j = i
      BY <1>2, <1>5, <3>1, Zenon
    <3>2. CASE j # i
      BY <1>5, <3>2, Zenon
    <3>3. QED
      BY <3>1, <3>2
  <2>2. QED
    BY <2>1
<1>8. QED
  BY <1>2, <1>5, <1>6, <1>7, Zenon

-----------------------------------------------------------------------------
(* Types.                                                                  *)

LEMMA InitType == Init => TypeOK
<1> SUFFICES ASSUME Init PROVE TypeOK
  OBVIOUS
<1>1. stopping \in BOOLEAN /\ swept \in BOOLEAN
  BY Zenon DEF Init
<1>2. QED
  BY <1>1 DEF Init, TypeOK, Nothing

LEMMA StepType == TypeOK /\ SlotInv /\ [Next]_vars => TypeOK'
<1> SUFFICES ASSUME TypeOK, SlotInv, [Next]_vars PROVE TypeOK'
  OBVIOUS
<1> USE DEF TypeOK
<1>h. held \in [Agents -> {Nothing} \cup HeldSet] /\ attempts \subseteq AttemptSet
  BY DEF HeldSet, HeldPlaces, AttemptSet, Places
<1>1. ASSUME NEW a \in Agents, NEW r \in Resources, Register(a, r)
      PROVE  TypeOK'
  <2>1. CASE RegisterAgain(a, r)
    <3>1. PICK k \in Keys : owner[k] = r /\ Hold(a, "registered", k, r, entry[k]) /\ Late(k, r)
      BY <2>1 DEF RegisterAgain
    <3>2. entry[k] \in Ids
      BY <3>1, RegistryAssumption DEF SlotInv
    <3>3. [pc |-> "registered", key |-> k, res |-> r, st |-> entry[k]] \in HeldSet
      BY <3>2 DEF HeldSet, HeldPlaces
    <3>4. held' \in [Agents -> {Nothing} \cup HeldSet]
      BY <1>h, <3>1, <3>3 DEF Hold
    <3>5. QED
      BY <1>1, <2>1, <3>1, <3>4 DEF Register, RegisterAgain, Late, HeldSet, HeldPlaces
  <2>2. CASE RegisterNew(a, r)
    BY <1>1, <2>2 DEF Register, RegisterNew, Hold, Late
  <2>3. QED
    BY <1>1, <2>1, <2>2 DEF Register
<1>2. ASSUME NEW a \in Agents, Drop(a)
      PROVE  TypeOK'
  BY <1>2 DEF Drop, Done, registry, resources
<1>3. ASSUME NEW a \in Agents, Prepare(a)
      PROVE  TypeOK'
  BY <1>3, HeldFields, BecomesFields DEF Prepare, HeldSet, HeldPlaces, resources
<1>4. ASSUME NEW a \in Agents, Claim(a)
      PROVE  TypeOK'
  <2>1. held[a] \in HeldSet
    BY <1>4, HeldFields DEF Claim
  <2>2. held' \in [Agents -> {Nothing} \cup HeldSet]
    BY <1>4, <1>h, BecomesFields DEF Claim, Done, HeldPlaces
  <2>3. Attempt(held[a], "check", a) \in AttemptSet
    BY <2>1 DEF Attempt, AttemptSet, Places, HeldSet
  <2>4. attempts' \subseteq AttemptSet
    BY <1>4, <1>h, <2>3 DEF Claim
  <2>5. state' \in [Ids -> [closed : BOOLEAN, running : BOOLEAN]]
    BY <1>4, <2>1, RunningFields DEF Claim, HeldSet
  <2>6. QED
    BY <1>4, <2>2, <2>4, <2>5 DEF Claim, registry, resources, HeldSet, HeldPlaces, AttemptSet, Places
<1>5. ASSUME NEW a \in Agents, ClaimConstruction(a)
      PROVE  TypeOK'
  <2>1. held[a] \in HeldSet
    BY <1>5, HeldFields DEF ClaimConstruction
  <2>2. held' \in [Agents -> {Nothing} \cup HeldSet]
    BY <1>5, BecomesFields DEF ClaimConstruction, HeldPlaces
  <2>3. state' \in [Ids -> [closed : BOOLEAN, running : BOOLEAN]]
    BY <1>5, <2>1 DEF ClaimConstruction, HeldSet
  <2>4. QED
    BY <1>5, <2>2, <2>3 DEF ClaimConstruction, registry, resources, HeldSet, HeldPlaces
<1>6. ASSUME NEW a \in Agents, PrepareConstruction(a)
      PROVE  TypeOK'
  BY <1>6, HeldFields, BecomesFields DEF PrepareConstruction, HeldSet, HeldPlaces, resources
<1>7. ASSUME NEW a \in Agents, Constructed(a)
      PROVE  TypeOK'
  <2>1. held[a] \in HeldSet
    BY <1>7, HeldFields DEF Constructed
  <2>2. held' \in [Agents -> {Nothing} \cup HeldSet]
    BY <1>7, <1>h DEF Constructed, Done
  <2>3. state' \in [Ids -> [closed : BOOLEAN, running : BOOLEAN]]
    BY <1>7, <2>1 DEF Constructed, HeldSet
  <2>4. failed' \in [Keys -> Resources \cup {None}]
    BY <1>7, <2>1 DEF Constructed, HeldSet
  <2>5. QED
    BY <1>7, <2>2, <2>3, <2>4 DEF Constructed, resources, HeldSet, HeldPlaces
<1>8. ASSUME NEW t \in attempts, StartThread(t) \/ Check(t)
      PROVE  TypeOK'
  BY <1>8, AdvanceFields DEF StartThread, Check, AttemptSet, Places, registry, resources
<1>9. ASSUME NEW t \in attempts, StartFails(t)
      PROVE  TypeOK'
  BY <1>9 DEF StartFails, registry, resources
<1>10. ASSUME NEW t \in attempts, Close(t)
       PROVE  TypeOK'
  <2>1. t \in AttemptSet
    BY <1>h
  <2>2. attempts' \subseteq AttemptSet
    BY <1>10, <1>h, AdvanceFields DEF Close, Places
  <2>3. state' \in [Ids -> [closed : BOOLEAN, running : BOOLEAN]]
    <3>1. t.st \in Ids
      BY <2>1 DEF AttemptSet
    <3>2. CASE state' = [state EXCEPT ![t.st].closed = TRUE]
      BY <3>1, <3>2, ClosedFields
    <3>3. CASE UNCHANGED state
      BY <3>3
    <3>4. QED
      BY <1>10, <3>2, <3>3 DEF Close
  <2>4. refused' \subseteq Resources /\ closed' \subseteq Resources /\ child' \subseteq Resources
    BY <1>10, <2>1 DEF Close, AttemptSet
  <2>5. QED
    BY <1>10, <2>2, <2>3, <2>4 DEF Close, registry, AttemptSet, Places
<1>11. ASSUME NEW t \in attempts, Reaped(t)
       PROVE  TypeOK'
  BY <1>11, AdvanceFields DEF Reaped, AttemptSet, Places, registry, resources
<1>12. ASSUME NEW t \in attempts, Retain(t)
       PROVE  TypeOK'
  BY <1>12, AdvanceFields DEF Retain, AttemptSet, Places, resources
<1>13. ASSUME NEW t \in attempts, Release(t)
       PROVE  TypeOK'
  BY <1>13, AdvanceFields DEF Release, AttemptSet, Places, registry, resources
<1>14. ASSUME NEW t \in attempts, End(t)
       PROVE  TypeOK'
  BY <1>14 DEF End, registry, resources
<1>15. ASSUME NEW r \in Resources, Launch(r)
       PROVE  TypeOK'
  BY <1>15 DEF Launch, registry
<1>16. CASE Retry
  <2>1. state' \in [Ids -> [closed : BOOLEAN, running : BOOLEAN]]
    BY <1>16 DEF Retry
  <2>2. ASSUME NEW k \in Retryable
        PROVE  [pc |-> "reserved", key |-> k, res |-> failed[k], st |-> entry[k], by |-> "retry"]
                 \in AttemptSet
    <3>1. k \in Keys /\ failed[k] \in Resources /\ entry[k] \in Ids
      BY RegistryAssumption DEF Retryable, SlotInv
    <3>2. QED
      BY <3>1 DEF AttemptSet, Places
  <2>3. attempts' \subseteq AttemptSet
    BY <1>16, <1>h, <2>2 DEF Retry
  <2>4. QED
    BY <1>16, <2>1, <2>3 DEF Retry, registry, resources, AttemptSet, Places
<1>17. CASE Stop \/ Sweep
  <2>1. stopping' \in BOOLEAN /\ swept' \in BOOLEAN
    BY <1>17, Zenon DEF Stop, Sweep
  <2>2. refused' \subseteq Resources
    BY <1>17 DEF Stop, Sweep, resources, Owned
  <2>3. failed' \in [Keys -> Resources \cup {None}]
    BY <1>17 DEF Stop, Sweep, registry
  <2>4. QED
    BY <1>17, <2>1, <2>2, <2>3 DEF Stop, Sweep, registry, resources
<1>18. CASE UNCHANGED vars
  BY <1>18 DEF vars, registry, resources
<1>19. QED
  BY <1>1, <1>2, <1>3, <1>4, <1>5, <1>6, <1>7, <1>8, <1>9, <1>10, <1>11, <1>12, <1>13, <1>14,
     <1>15, <1>16, <1>17, <1>18 DEF Next, Caller, Cleanup

-----------------------------------------------------------------------------
(* The registry and the references to it.                                  *)

LEMMA StepSlot == TypeOK /\ SlotInv /\ [Next]_vars => SlotInv'
<1> SUFFICES ASSUME TypeOK, SlotInv, [Next]_vars PROVE SlotInv'
  OBVIOUS
<1> USE RegistryAssumption DEF SlotInv
<1>t. /\ owner \in [Keys -> Resources \cup {None}] /\ entry \in [Keys -> Ids \cup {None}]
      /\ failed \in [Keys -> Resources \cup {None}]
  BY DEF TypeOK
<1>1. ASSUME NEW a \in Agents, NEW r \in Resources, RegisterAgain(a, r)
      PROVE  SlotInv'
  BY <1>1, <1>t DEF RegisterAgain, Late
<1>2. ASSUME NEW a \in Agents, NEW r \in Resources, RegisterNew(a, r)
      PROVE  SlotInv'
  <2>1. PICK k \in Keys, i \in Ids :
          /\ r \notin Owned /\ owner[k] = None
          /\ owner' = [owner EXCEPT ![k] = r] /\ entry' = [entry EXCEPT ![k] = i] /\ Late(k, r)
    BY <1>2 DEF RegisterNew
  <2>2. \A l \in Keys : owner[l] # r
    BY <2>1 DEF Owned
  <2>3. failed[k] = None
    BY <2>1, <1>t
  <2>4. QED
    BY <1>t, <2>1, <2>2, <2>3 DEF Late
<1>3. ASSUME NEW a \in Agents, Prepare(a) \/ PrepareConstruction(a)
      PROVE  SlotInv'
  <2>1. held[a] \in HeldSet
    BY <1>3, HeldFields DEF Prepare, PrepareConstruction
  <2>2. QED
    BY <1>3, <1>t, <2>1 DEF Prepare, PrepareConstruction, Current, HeldSet
<1>4. ASSUME NEW a \in Agents, Constructed(a)
      PROVE  SlotInv'
  BY <1>4, <1>t DEF Constructed
<1>5. ASSUME NEW t \in attempts, Retain(t) \/ Release(t)
      PROVE  SlotInv'
  <2>1. t \in AttemptSet
    BY DEF TypeOK, AttemptSet, Places
  <2>2. QED
    BY <1>5, <1>t, <2>1 DEF Retain, Release, Current, registry, AttemptSet
<1>6. CASE Sweep
  BY <1>6, <1>t DEF Sweep
<1>7. CASE UNCHANGED registry
  BY <1>7 DEF registry
<1>8. QED
  BY <1>1, <1>2, <1>3, <1>4, <1>5, <1>6, <1>7
     DEF Next, Caller, Cleanup, Register, Drop, Claim, ClaimConstruction, StartThread, StartFails,
         Check, Close, Reaped, End, Launch, Retry, Stop, vars, registry

\* A new registration has a state that nothing referred to.
Fresh(k, r, i) ==
  /\ r \notin Owned /\ owner[k] = None /\ Free(i)
  /\ owner' = [owner EXCEPT ![k] = r] /\ entry' = [entry EXCEPT ![k] = i]
  /\ state' = [state EXCEPT ![i] = [closed |-> FALSE, running |-> FALSE]]
  /\ known' = known \cup {r}

\* References come from a reference or are new.
LEMMA StepRefers ==
  ASSUME TypeOK, SlotInv, [Next]_vars, NEW k \in Keys, NEW r \in Resources, NEW i \in Ids,
         Refers(k, r, i)'
  PROVE  Refers(k, r, i) \/ Fresh(k, r, i)
<1> USE RegistryAssumption
<1>t. /\ owner \in [Keys -> Resources \cup {None}] /\ entry \in [Keys -> Ids \cup {None}]
      /\ failed \in [Keys -> Resources \cup {None}]
      /\ held \in [Agents -> {Nothing} \cup HeldSet] /\ attempts \subseteq AttemptSet
  BY DEF TypeOK, HeldSet, HeldPlaces, AttemptSet, Places
<1>1. ASSUME NEW a \in Agents, NEW x \in Resources, RegisterAgain(a, x), Register(a, x)
      PROVE  Refers(k, r, i)
  BY <1>1, <1>t DEF RegisterAgain, Register, Hold, Refers, Holding
<1>2. ASSUME NEW a \in Agents, NEW x \in Resources, RegisterNew(a, x), Register(a, x)
      PROVE  Refers(k, r, i) \/ Fresh(k, r, i)
  <2>1. PICK l \in Keys, j \in Ids :
          /\ Fresh(l, x, j)
          /\ \E pc \in HeldPlaces : Hold(a, pc, l, x, j)
    BY <1>2 DEF RegisterNew, Fresh, HeldPlaces
  <2>2. \A b \in Holding' :
          \/ held'[b].key = l /\ held'[b].res = x /\ held'[b].st = j
          \/ b \in Holding /\ held'[b] = held[b]
    BY <2>1, <1>t DEF Hold, Holding
  <2>3. attempts' = attempts
    BY <1>2 DEF Register
  <2>4. Refers(k, r, i) \/ (k = l /\ r = x /\ i = j)
    BY <1>t, <2>1, <2>2, <2>3 DEF Refers, Fresh
  <2>5. QED
    BY <2>1, <2>4
<1>3. ASSUME NEW a \in Agents, Prepare(a) \/ PrepareConstruction(a) \/ ClaimConstruction(a)
      PROVE  Refers(k, r, i)
  BY <1>3, <1>t, BecomesFields
     DEF Prepare, PrepareConstruction, ClaimConstruction, Refers, Holding, HeldPlaces, registry
<1>4. ASSUME NEW a \in Agents, Drop(a) \/ Constructed(a)
      PROVE  Refers(k, r, i)
  BY <1>4, <1>t DEF Drop, Constructed, Done, Nothing, Refers, Holding, registry
<1>5. ASSUME NEW a \in Agents, Claim(a)
      PROVE  Refers(k, r, i)
  <2>1. held[a].pc = "prepared"
    BY <1>5 DEF Claim
  <2>2. Attempt(held[a], "check", a).key = held[a].key /\ Attempt(held[a], "check", a).res = held[a].res
          /\ Attempt(held[a], "check", a).st = held[a].st
    BY DEF Attempt
  <2>3. \A b \in Holding' : b \in Holding /\ held'[b].key = held[b].key
          /\ held'[b].res = held[b].res /\ held'[b].st = held[b].st
    BY <1>5, <1>t, <2>1, BecomesFields DEF Claim, Done, Nothing, Holding, HeldPlaces
  <2>4. \A t \in attempts' : t \in attempts \/ t = Attempt(held[a], "check", a)
    BY <1>5 DEF Claim
  <2>5. a \in Holding /\ owner' = owner /\ entry' = entry
    BY <1>5, <2>1 DEF Claim, Holding, registry
  <2>6. QED
    BY <2>2, <2>3, <2>4, <2>5 DEF Refers
<1>6. ASSUME NEW t \in attempts, StartThread(t) \/ Check(t) \/ Close(t) \/ Reaped(t) \/ Retain(t)
      PROVE  Refers(k, r, i)
  <2>1. PICK x \in Places : Advance(t, x)
    BY <1>6 DEF StartThread, Check, Close, Reaped, Retain, Places
  <2>2. owner' = owner /\ entry' = entry /\ held' = held
    BY <1>6 DEF StartThread, Check, Close, Reaped, Retain, registry
  <2>3. QED
    BY <2>1, <2>2, AdvanceFields DEF Refers, Holding
<1>7. ASSUME NEW t \in attempts, Release(t)
      PROVE  Refers(k, r, i)
  <2>1. Advance(t, "end") /\ held' = held
    BY <1>7 DEF Release
  <2>2. t \in AttemptSet
    BY <1>t
  <2>3. owner'[k] = r /\ entry'[k] = i => owner[k] = r /\ entry[k] = i
    BY <1>7, <1>t, <2>2 DEF Release, registry, AttemptSet
  <2>4. QED
    BY <2>1, <2>3, AdvanceFields DEF Refers, Holding, Places
<1>8. ASSUME NEW t \in attempts, StartFails(t) \/ End(t)
      PROVE  Refers(k, r, i)
  <2>1. \A b \in Holding' : b \in Holding /\ held'[b] = held[b]
    BY <1>8, <1>t DEF StartFails, End, Nothing, Holding
  <2>2. QED
    BY <1>8, <2>1 DEF StartFails, End, Refers, registry
<1>9. CASE Retry
  <2>1. \A t \in attempts' : t \in attempts \/ \E l \in Retryable :
          t = [pc |-> "reserved", key |-> l, res |-> failed[l], st |-> entry[l], by |-> "retry"]
    BY <1>9 DEF Retry
  <2>2. \A l \in Retryable : l \in Keys /\ owner[l] = failed[l]
    BY DEF Retryable, SlotInv
  <2>3. QED
    BY <1>9, <2>1, <2>2 DEF Retry, Refers, Holding, registry
<1>10. CASE UNCHANGED <<owner, entry, held, attempts>>
  BY <1>10 DEF Refers, Holding
<1>11. QED
  BY <1>1, <1>2, <1>3, <1>4, <1>5, <1>6, <1>7, <1>8, <1>9, <1>10
     DEF Next, Caller, Cleanup, Register, Launch, Stop, Sweep, vars, registry

LEMMA StepRef == TypeOK /\ SlotInv /\ RefInv /\ [Next]_vars => RefInv'
<1> SUFFICES ASSUME TypeOK, SlotInv, RefInv, [Next]_vars PROVE RefInv'
  OBVIOUS
<1>1. owner \in [Keys -> Resources \cup {None}]
  BY DEF TypeOK
<1>2. ASSUME NEW i \in Ids, Free(i), NEW k \in Keys, NEW r \in Resources
      PROVE  ~Refers(k, r, i)
  BY <1>2 DEF Free, Refers
<1>3. known \subseteq known'
  BY DEF Next, Caller, Register, RegisterAgain, RegisterNew, Drop, Prepare, Claim, ClaimConstruction,
         PrepareConstruction, Constructed, Cleanup, StartThread, StartFails, Check, Close, Reaped,
         Retain, Release, End, Launch, Retry, Stop, Sweep, vars, resources
<1>4. ASSUME NEW k \in Keys, NEW l \in Keys, NEW r \in Resources, NEW s \in Resources, NEW i \in Ids,
             Refers(k, r, i)', Refers(l, s, i)'
      PROVE  k = l /\ r = s
  <2>1. Refers(k, r, i) \/ Fresh(k, r, i)
    BY <1>4, StepRefers
  <2>2. Refers(l, s, i) \/ Fresh(l, s, i)
    BY <1>4, StepRefers
  <2>3. CASE Refers(k, r, i)
    <3>1. ~Fresh(l, s, i)
      BY <1>2, <2>3 DEF Fresh
    <3>2. QED
      BY <2>2, <2>3, <3>1 DEF RefInv
  <2>4. CASE Fresh(k, r, i)
    <3>1. ~Refers(l, s, i)
      BY <1>2, <2>4 DEF Fresh
    <3>2. QED
      BY <1>1, <2>2, <2>4, <3>1, RegistryAssumption DEF Fresh
  <2>5. QED
    BY <2>1, <2>3, <2>4
<1>5. ASSUME NEW k \in Keys, NEW r \in Resources, NEW i \in Ids, Refers(k, r, i)'
      PROVE  r \in known'
  BY <1>3, <1>5, StepRefers DEF RefInv, Fresh
<1>6. QED
  BY <1>4, <1>5 DEF RefInv

-----------------------------------------------------------------------------
(* Proof of the teardown.                                                  *)

\* Nothing is opened again, an acknowledgement is for ever, and a state says
\* closed only if its resource is.
LEMMA StepFlags ==
  ASSUME TypeOK, SlotInv, [Next]_vars
  PROVE  /\ closed \subseteq closed'
         /\ \A r \in Leased : lease[r] = "acknowledged" => lease'[r] = "acknowledged"
         /\ \A i \in Ids : state'[i].closed =>
              state[i].closed \/ \E t \in attempts : t.st = i /\ t.res \in closed'
<1> USE RegistryAssumption
<1>t. /\ state \in [Ids -> [closed : BOOLEAN, running : BOOLEAN]]
      /\ lease \in [Leased -> {"pending", "retryable", "quarantined", "acknowledged"}]
      /\ attempts \subseteq AttemptSet
  BY DEF TypeOK, AttemptSet, Places
<1>1. closed \subseteq closed'
  BY DEF Next, Caller, Register, RegisterAgain, RegisterNew, Drop, Prepare, Claim, ClaimConstruction,
         PrepareConstruction, Constructed, Cleanup, StartThread, StartFails, Check, Close, Reaped,
         Retain, Release, End, Launch, Retry, Stop, Sweep, vars, resources
<1>2. \A r \in Leased : lease[r] = "acknowledged" => lease'[r] = "acknowledged"
  <2>1. ASSUME NEW t \in attempts, Reaped(t)
        PROVE  \A r \in Leased : lease[r] = "acknowledged" => lease'[r] = "acknowledged"
    BY <1>t, <2>1 DEF Reaped
  <2>2. CASE UNCHANGED lease
    BY <2>2
  <2>3. QED
    BY <2>1, <2>2 DEF Next, Caller, Register, Drop, Prepare, Claim, ClaimConstruction,
         PrepareConstruction, Constructed, Cleanup, StartThread, StartFails, Check, Close,
         Retain, Release, End, Launch, Retry, Stop, Sweep, vars
<1>3. ASSUME NEW i \in Ids, state'[i].closed
      PROVE  state[i].closed \/ \E t \in attempts : t.st = i /\ t.res \in closed'
  <2>1. ASSUME NEW a \in Agents, NEW r \in Resources, RegisterNew(a, r)
        PROVE  state[i].closed
    BY <1>t, <1>3, <2>1 DEF RegisterNew
  <2>2. ASSUME NEW a \in Agents, Claim(a) \/ ClaimConstruction(a) \/ Constructed(a)
        PROVE  state[i].closed
    <3>1. held[a].st \in Ids
      BY <2>2, HeldFields DEF Claim, ClaimConstruction, Constructed, HeldSet
    <3>2. UNCHANGED state \/ \E b \in BOOLEAN : state' = [state EXCEPT ![held[a].st].running = b]
      BY <2>2 DEF Claim, ClaimConstruction, Constructed
    <3>3. state'[i].closed = state[i].closed
      BY <3>1, <3>2, RunningFields
    <3>4. QED
      BY <1>3, <3>3
  <2>3. ASSUME NEW t \in attempts, StartFails(t) \/ End(t)
        PROVE  state[i].closed
    <3>1. t.st \in Ids
      BY <1>t DEF AttemptSet
    <3>2. state' = [state EXCEPT ![t.st].running = FALSE]
      BY <2>3 DEF StartFails, End
    <3>3. state'[i].closed = state[i].closed
      BY <3>1, <3>2, RunningFields
    <3>4. QED
      BY <1>3, <3>3
  <2>4. ASSUME NEW t \in attempts, Close(t)
        PROVE  state[i].closed \/ (t.st = i /\ t.res \in closed')
    <3>1. t.st \in Ids
      BY <1>t DEF AttemptSet
    <3>2. CASE state' = [state EXCEPT ![t.st].closed = TRUE] /\ t.res \in closed'
      BY <1>3, <3>1, <3>2, ClosedFields
    <3>3. CASE UNCHANGED state
      BY <1>3, <3>3
    <3>4. QED
      BY <2>4, <3>2, <3>3 DEF Close
  <2>5. CASE Retry
    <3>1. state'[i].closed = state[i].closed
      BY <1>t, <2>5 DEF Retry
    <3>2. QED
      BY <1>3, <3>1
  <2>6. CASE UNCHANGED state
    BY <1>3, <2>6
  <2>7. QED
    BY <2>1, <2>2, <2>3, <2>4, <2>5, <2>6
       DEF Next, Caller, Register, RegisterAgain, Drop, Prepare, PrepareConstruction, Cleanup,
           StartThread, Check, Reaped, Retain, Release, Launch, Stop, Sweep, vars
<1>4. QED
  BY <1>1, <1>2, <1>3

\* An attempt that reaches the grant or the release comes from one that was
\* there, or its resource was proven closed, and the grant acknowledged.
LEMMA StepProven ==
  ASSUME TypeOK, SlotInv, RefInv, ProvenInv, [Next]_vars
  PROVE  ProvenInv'
<1> USE RegistryAssumption
<1>t. /\ attempts \subseteq AttemptSet
      /\ lease \in [Leased -> {"pending", "retryable", "quarantined", "acknowledged"}]
  BY DEF TypeOK, AttemptSet, Places
<1>1. ASSUME NEW k \in Keys, NEW r \in Resources, NEW i \in Ids, Refers(k, r, i)', state'[i].closed
      PROVE  r \in closed'
  <2>1. CASE Fresh(k, r, i)
    <3>1. state'[i].closed = FALSE
      BY <2>1 DEF Fresh, TypeOK
    <3>2. QED
      BY <1>1, <3>1
  <2>2. CASE Refers(k, r, i)
    <3>1. CASE state[i].closed
      BY <2>2, <3>1, StepFlags DEF ProvenInv
    <3>2. ASSUME NEW t \in attempts, t.st = i, t.res \in closed'
          PROVE  r \in closed'
      <4>1. t.key \in Keys /\ t.res \in Resources
        BY <1>t DEF AttemptSet
      <4>2. Refers(t.key, t.res, i)
        BY <3>2 DEF Refers
      <4>3. t.res = r
        BY <2>2, <4>1, <4>2 DEF RefInv
      <4>4. QED
        BY <3>2, <4>3
    <3>3. QED
      BY <1>1, <3>1, <3>2, StepFlags
  <2>3. QED
    BY <1>1, <2>1, <2>2, StepRefers
<1>2. \A t \in attempts : ProvenPlace(t)'
  BY StepFlags DEF ProvenInv, ProvenPlace, Acknowledged
<1>3. ASSUME NEW t \in attempts, Check(t)
      PROVE  \A u \in attempts' : ProvenPlace(u)'
  <2>1. t.st \in Ids /\ t.key \in Keys /\ t.res \in Resources
    BY <1>t DEF AttemptSet
  <2>2. state[t.st].closed => t.res \in closed
    BY <2>1 DEF ProvenInv, Refers
  <2>3. PICK x \in {"end", "lease", "close"} : Advance(t, x) /\ (x = "lease" => t.res \in closed')
    BY <1>3, <2>2 DEF Check, resources
  <2>4. QED
    BY <1>2, <2>3, AdvanceFields DEF Places, ProvenPlace, Acknowledged
<1>4. ASSUME NEW t \in attempts, Close(t)
      PROVE  \A u \in attempts' : ProvenPlace(u)'
  <2>1. PICK x \in {"lease", "unproven"} : Advance(t, x) /\ (x = "lease" => t.res \in closed')
    BY <1>4 DEF Close
  <2>2. QED
    BY <1>2, <2>1, AdvanceFields DEF Places, ProvenPlace, Acknowledged
<1>5. ASSUME NEW t \in attempts, Reaped(t)
      PROVE  \A u \in attempts' : ProvenPlace(u)'
  <2>1. t.res \in closed'
    BY <1>5, StepFlags DEF Reaped, ProvenInv, ProvenPlace
  <2>2. PICK x \in {"proven", "unproven"} :
          Advance(t, x) /\ (x = "proven" /\ t.res \in Leased => lease'[t.res] = "acknowledged")
    BY <1>5, <1>t DEF Reaped
  <2>3. QED
    BY <1>2, <2>1, <2>2, AdvanceFields DEF Places, ProvenPlace, Acknowledged
<1>6. ASSUME NEW t \in attempts, StartThread(t) \/ Retain(t) \/ Release(t)
      PROVE  \A u \in attempts' : ProvenPlace(u)'
  <2>1. PICK x \in {"check", "end"} : Advance(t, x)
    BY <1>6 DEF StartThread, Retain, Release
  <2>2. QED
    BY <1>2, <2>1, AdvanceFields DEF Places, ProvenPlace, Acknowledged
<1>7. ASSUME \A u \in attempts' : u \in attempts \/ u.pc = "reserved" \/ u.pc = "check"
      PROVE  \A u \in attempts' : ProvenPlace(u)'
  BY <1>2, <1>7 DEF ProvenPlace
<1>8. ASSUME Retry \/ \E a \in Agents : Claim(a)
      PROVE  \A u \in attempts' : ProvenPlace(u)'
  <2>1. CASE Retry
    BY <1>7, <2>1 DEF Retry
  <2>2. ASSUME NEW a \in Agents, Claim(a)
        PROVE  \A u \in attempts' : ProvenPlace(u)'
    BY <1>7, <2>2 DEF Claim, Attempt
  <2>3. QED
    BY <1>8, <2>1, <2>2
<1>9. ASSUME attempts' \subseteq attempts
      PROVE  \A u \in attempts' : ProvenPlace(u)'
  BY <1>2, <1>9 DEF ProvenPlace
<1>10. \A u \in attempts' : ProvenPlace(u)'
  BY <1>3, <1>4, <1>5, <1>6, <1>8, <1>9
     DEF Next, Caller, Cleanup, Register, Drop, Prepare, ClaimConstruction,
         PrepareConstruction, Constructed, StartFails, End, Launch, Stop, Sweep, vars
<1>11. QED
  BY <1>1, <1>10 DEF ProvenInv

LEMMA StepGone ==
  ASSUME TypeOK, SlotInv, RefInv, ProvenInv, GoneInv, [Next]_vars
  PROVE  GoneInv'
<1> USE RegistryAssumption
<1>t. /\ attempts \subseteq AttemptSet
      /\ owner \in [Keys -> Resources \cup {None}]
      /\ lease \in [Leased -> {"pending", "retryable", "quarantined", "acknowledged"}]
  BY DEF TypeOK, AttemptSet, Places
<1>1. ASSUME NEW a \in Agents, NEW r \in Resources, RegisterNew(a, r), UNCHANGED <<child, closed, lease>>
      PROVE  GoneInv'
  <2>1. PICK k \in Keys : owner[k] = None /\ owner' = [owner EXCEPT ![k] = r] /\ known' = known \cup {r}
    BY <1>1 DEF RegisterNew
  <2>2. \A x \in Owned : x \in Owned'
    BY <1>t, <2>1 DEF Owned
  <2>3. r \in Owned'
    BY <1>t, <2>1 DEF Owned
  <2>4. QED
    BY <1>1, <2>1, <2>2, <2>3 DEF GoneInv, Acknowledged
<1>2. ASSUME NEW r \in Resources, Launch(r)
      PROVE  GoneInv'
  BY <1>2 DEF Launch, GoneInv, Acknowledged, Owned, registry
<1>3. ASSUME NEW t \in attempts, Close(t)
      PROVE  GoneInv'
  BY <1>3 DEF Close, GoneInv, Acknowledged, Owned, registry
<1>4. ASSUME NEW t \in attempts, Reaped(t)
      PROVE  GoneInv'
  <2>1. t.res \in Resources /\ t.key \in Keys /\ t.st \in Ids
    BY <1>t DEF AttemptSet
  <2>2. t.res \in known
    BY <2>1 DEF RefInv, Refers
  <2>3. t.res \in closed
    BY <1>4 DEF Reaped, ProvenInv, ProvenPlace
  <2>4. UNCHANGED <<owner, known, child, closed>>
    BY <1>4 DEF Reaped, registry, resources
  <2>5. \A r \in Leased : r = t.res \/ lease'[r] = lease[r]
    BY <1>4, <1>t DEF Reaped
  <2>6. Acknowledged(t.res) => Acknowledged(t.res)'
    BY StepFlags DEF Acknowledged
  <2>7. QED
    BY <2>2, <2>3, <2>4, <2>5, <2>6 DEF GoneInv, Acknowledged, Owned
<1>5. ASSUME NEW t \in attempts, Release(t)
      PROVE  GoneInv'
  <2>1. t.res \in closed /\ Acknowledged(t.res)
    BY <1>5 DEF Release, ProvenInv, ProvenPlace
  <2>2. \A r \in Owned : r = t.res \/ r \in Owned'
    BY <1>5, <1>t DEF Release, Owned, Current, registry
  <2>3. QED
    BY <1>5, <2>1, <2>2 DEF Release, GoneInv, Acknowledged, resources
<1>6. CASE UNCHANGED <<owner, known, child, closed, lease>>
  BY <1>6 DEF GoneInv, Acknowledged, Owned
<1>7. QED
  BY <1>1, <1>2, <1>3, <1>4, <1>5, <1>6
     DEF Next, Caller, Register, RegisterAgain, Drop, Prepare, Claim, ClaimConstruction,
         PrepareConstruction, Constructed, Cleanup, StartThread, StartFails, Check,
         Retain, End, Retry, Stop, Sweep, vars, registry, resources

LEMMA StepSwept ==
  ASSUME TypeOK, SlotInv, SweptInv, [Next]_vars
  PROVE  SweptInv'
<1> USE RegistryAssumption DEF SweptInv, SweptIsShut
<1>t. /\ owner \in [Keys -> Resources \cup {None}] /\ entry \in [Keys -> Ids \cup {None}]
      /\ failed \in [Keys -> Resources \cup {None}]
      /\ held \in [Agents -> {Nothing} \cup HeldSet] /\ attempts \subseteq AttemptSet
  BY DEF TypeOK, HeldSet, HeldPlaces, AttemptSet, Places
<1>1. ASSUME NEW a \in Agents, NEW r \in Resources, RegisterAgain(a, r), UNCHANGED <<stopping, swept>>
      PROVE  SweptInv'
  BY <1>1, <1>t DEF RegisterAgain, Late, Owned
<1>2. ASSUME NEW a \in Agents, NEW r \in Resources, RegisterNew(a, r), UNCHANGED <<stopping, swept>>
      PROVE  SweptInv'
  <2>1. PICK k \in Keys : owner[k] = None /\ owner' = [owner EXCEPT ![k] = r] /\ Late(k, r)
    BY <1>2 DEF RegisterNew
  <2>2. \A x \in Owned' : x = r \/ x \in Owned
    BY <1>t, <2>1 DEF Owned
  <2>3. QED
    BY <1>2, <1>t, <2>1, <2>2 DEF Late
<1>3. ASSUME NEW a \in Agents, Prepare(a) \/ PrepareConstruction(a)
      PROVE  SweptInv'
  <2>1. held[a] \in HeldSet
    BY <1>3, HeldFields DEF Prepare, PrepareConstruction
  <2>2. UNCHANGED <<owner, stopping, swept, refused>>
    BY <1>3 DEF Prepare, PrepareConstruction, resources
  <2>3. failed = owner => failed' = owner
    BY <1>3, <1>t, <2>1 DEF Prepare, PrepareConstruction, Current, HeldSet
  <2>4. QED
    BY <2>2, <2>3 DEF Owned
<1>4. ASSUME NEW a \in Agents, Constructed(a)
      PROVE  SweptInv'
  BY <1>4 DEF Constructed, Owned, resources
<1>5. ASSUME NEW t \in attempts, Close(t)
      PROVE  SweptInv'
  BY <1>5 DEF Close, Owned, registry
<1>6. ASSUME NEW t \in attempts, Retain(t)
      PROVE  SweptInv'
  <2>1. UNCHANGED <<owner, stopping, swept, refused>>
    BY <1>6 DEF Retain, resources
  <2>2. failed = owner => failed' = owner
    BY <1>6, <1>t DEF Retain, Current, AttemptSet
  <2>3. QED
    BY <2>1, <2>2 DEF Owned
<1>7. ASSUME NEW t \in attempts, Release(t)
      PROVE  SweptInv'
  <2>1. UNCHANGED <<stopping, swept, refused>>
    BY <1>7 DEF Release, resources
  <2>2. failed = owner => failed' = owner'
    BY <1>7 DEF Release, registry
  <2>3. Owned' \subseteq Owned
    BY <1>7, <1>t DEF Release, Owned, registry, AttemptSet
  <2>4. QED
    BY <2>1, <2>2, <2>3
<1>8. CASE Sweep
  BY <1>8 DEF Sweep, Owned
<1>9. CASE Stop
  BY <1>9 DEF Stop, Owned, registry, resources
<1>10. CASE UNCHANGED <<owner, failed, refused, stopping, swept>>
  BY <1>10 DEF Owned
<1>11. QED
  BY <1>1, <1>2, <1>3, <1>4, <1>5, <1>6, <1>7, <1>8, <1>9, <1>10
     DEF Next, Caller, Register, Drop, Claim, ClaimConstruction,
         Cleanup, StartThread, StartFails, Check, Reaped, End, Launch, Retry, vars, registry, resources

-----------------------------------------------------------------------------
(* One attempt at a time.                                                  *)

LEMMA StepHold ==
  ASSUME TypeOK, HoldInv, [Next]_vars
  PROVE  HoldInv'
<1> USE RegistryAssumption
<1>t. held \in [Agents -> {Nothing} \cup HeldSet] /\ attempts \subseteq AttemptSet
  BY DEF TypeOK, HeldSet, HeldPlaces, AttemptSet, Places
<1>1. ASSUME NEW a \in Agents, held[a].pc # "attempting", UNCHANGED attempts,
             \A b \in Agents : b # a => held'[b] = held[b],
             held'[a].pc \in {"owning", "claimed", "constructing"} => held'[a].res \in Providers
      PROVE  HoldInv'
  <2>1. \A t \in attempts : t.by # "retry" => t.by \in Agents /\ t.by # a
    BY <1>1, <1>t DEF HoldInv, AttemptSet
  <2>2. QED
    BY <1>1, <2>1 DEF HoldInv
<1>2. ASSUME NEW a \in Agents, NEW r \in Resources, Register(a, r)
      PROVE  HoldInv'
  <2>1. held[a].pc # "attempting" /\ UNCHANGED attempts
    BY <1>2 DEF Register
  <2>2. \A b \in Agents : b # a => held'[b] = held[b]
    BY <1>2, <1>t DEF Register, RegisterAgain, RegisterNew, Hold
  <2>3. held'[a].pc \in {"owning", "claimed", "constructing"} => held'[a].res \in Providers
    BY <1>2, <1>t DEF Register, RegisterAgain, RegisterNew, Hold
  <2>4. QED
    BY <1>1, <2>1, <2>2, <2>3
<1>3. ASSUME NEW a \in Agents, Prepare(a) \/ ClaimConstruction(a) \/ PrepareConstruction(a)
      PROVE  HoldInv'
  <2>1. PICK x \in {"prepared", "claimed", "constructing"} :
          Becomes(a, x) /\ (x # "prepared" => held[a].pc \in {"owning", "claimed"})
    BY <1>3 DEF Prepare, ClaimConstruction, PrepareConstruction
  <2>2. held[a].pc # "attempting" /\ held[a].pc # "idle" /\ UNCHANGED attempts
    BY <1>3 DEF Prepare, ClaimConstruction, PrepareConstruction
  <2>3. /\ \A b \in Agents : b # a => held'[b] = held[b]
        /\ held'[a].pc = x /\ held'[a].res = held[a].res
    BY <2>1, <2>2, BecomesFields DEF HeldPlaces
  <2>4. x # "prepared" => held[a].res \in Providers
    BY <2>1 DEF HoldInv
  <2>5. QED
    BY <1>1, <2>1, <2>2, <2>3, <2>4
<1>4. ASSUME NEW a \in Agents, held[a].pc # "attempting", Done(a), UNCHANGED attempts
      PROVE  HoldInv'
  <2>1. held'[a].pc = "idle" /\ \A b \in Agents : b # a => held'[b] = held[b]
    BY <1>4, <1>t DEF Done, Nothing
  <2>2. QED
    BY <1>1, <1>4, <2>1
<1>5. ASSUME NEW a \in Agents, Claim(a)
      PROVE  HoldInv'
  <2>1. CASE Done(a) /\ UNCHANGED attempts
    BY <1>4, <1>5, <2>1 DEF Claim
  <2>2. CASE Becomes(a, "attempting") /\ attempts' = attempts \cup {Attempt(held[a], "check", a)}
    <3>1. held[a].pc = "prepared"
      BY <1>5 DEF Claim
    <3>2. held'[a].pc = "attempting" /\ \A b \in Agents : b # a => held'[b] = held[b]
      BY <2>2, <3>1, BecomesFields DEF HeldPlaces
    <3>3. \A t \in attempts : t.by # "retry" => t.by \in Agents /\ t.by # a
      BY <1>t, <3>1 DEF HoldInv, AttemptSet
    <3>4. Attempt(held[a], "check", a).by = a
      BY DEF Attempt
    <3>5. QED
      BY <2>2, <3>2, <3>3, <3>4 DEF HoldInv
  <2>3. QED
    BY <1>5, <2>1, <2>2 DEF Claim
<1>6. ASSUME NEW t \in attempts, NEW x \in Places, Advance(t, x), UNCHANGED held
      PROVE  HoldInv'
  <2>1. PICK n \in AttemptSet : attempts' = (attempts \ {t}) \cup {n} /\ n.by = t.by
    BY <1>6, AdvanceFields
  <2>2. QED
    BY <1>6, <2>1 DEF HoldInv
<1>7. ASSUME NEW t \in attempts, StartFails(t) \/ End(t)
      PROVE  HoldInv'
  <2>1. attempts' = attempts \ {t}
    BY <1>7 DEF StartFails, End
  <2>2. \A b \in Agents : held'[b] = held[b] \/ (b = t.by /\ held'[b].pc = "idle")
    BY <1>7, <1>t DEF StartFails, End, Nothing
  <2>3. \A u \in attempts' : u.by # "retry" => u.by \in Agents /\ u.by # t.by
    BY <1>t, <2>1 DEF HoldInv, AttemptSet
  <2>4. QED
    BY <2>1, <2>2, <2>3 DEF HoldInv
<1>8. CASE Retry
  <2>1. \A t \in attempts' : t \in attempts \/ t.by = "retry"
    BY <1>8 DEF Retry
  <2>2. QED
    BY <1>8, <2>1 DEF Retry, HoldInv
<1>9. CASE UNCHANGED <<held, attempts>>
  BY <1>9 DEF HoldInv
<1>10. QED
  <2>1. ASSUME NEW a \in Agents, Drop(a) \/ Constructed(a)
        PROVE  HoldInv'
    BY <1>4, <2>1 DEF Drop, Constructed
  <2>2. ASSUME NEW t \in attempts, StartThread(t) \/ Check(t) \/ Close(t) \/ Reaped(t) \/ Retain(t)
                                    \/ Release(t)
        PROVE  HoldInv'
    <3>1. PICK x \in Places : Advance(t, x)
      BY <2>2 DEF StartThread, Check, Close, Reaped, Retain, Release, Places
    <3>2. QED
      BY <1>6, <2>2, <3>1 DEF StartThread, Check, Close, Reaped, Retain, Release
  <2>3. QED
    BY <1>2, <1>3, <1>5, <1>7, <1>8, <1>9, <2>1, <2>2
       DEF Next, Caller, Cleanup, Launch, Stop, Sweep, vars

\* What refers to a state refers to its resource.
LEMMA SameResource ==
  ASSUME TypeOK, RefInv, NEW t \in attempts
  PROVE  /\ \A u \in attempts : u.st = t.st => u.res = t.res
         /\ \A a \in Holding : held[a].st = t.st => held[a].res = t.res
         /\ \A k \in Keys : entry[k] = t.st /\ owner[k] # None => owner[k] = t.res
<1>t. attempts \subseteq AttemptSet /\ owner \in [Keys -> Resources \cup {None}]
  BY DEF TypeOK, AttemptSet, Places
<1>1. t.key \in Keys /\ t.res \in Resources /\ t.st \in Ids
  BY <1>t DEF AttemptSet
<1>2. Refers(t.key, t.res, t.st)
  BY DEF Refers
<1>3. ASSUME NEW k \in Keys, NEW r \in Resources, Refers(k, r, t.st)
      PROVE  r = t.res
  BY <1>1, <1>2, <1>3 DEF RefInv
<1>4. ASSUME NEW u \in attempts, u.st = t.st
      PROVE  u.res = t.res
  <2>1. u.key \in Keys /\ u.res \in Resources
    BY <1>t DEF AttemptSet
  <2>2. Refers(u.key, u.res, t.st)
    BY <1>4 DEF Refers
  <2>3. QED
    BY <1>3, <2>1, <2>2
<1>5. ASSUME NEW a \in Holding, held[a].st = t.st
      PROVE  held[a].res = t.res
  <2>1. held[a].key \in Keys /\ held[a].res \in Resources
    BY HeldFields DEF HeldSet, Holding
  <2>2. Refers(held[a].key, held[a].res, t.st)
    BY <1>5 DEF Refers
  <2>3. QED
    BY <1>3, <2>1, <2>2
<1>6. ASSUME NEW k \in Keys, entry[k] = t.st, owner[k] # None
      PROVE  owner[k] = t.res
  <2>1. owner[k] \in Resources
    BY <1>t, <1>6
  <2>2. Refers(k, owner[k], t.st)
    BY <1>6 DEF Refers
  <2>3. QED
    BY <1>3, <2>1, <2>2
<1>7. QED
  BY <1>4, <1>5, <1>6

LEMMA StepRun ==
  ASSUME TypeOK, SlotInv, RefInv, HoldInv, RunInv, [Next]_vars
  PROVE  RunInv'
<1> USE RegistryAssumption
<1>t. /\ owner \in [Keys -> Resources \cup {None}] /\ entry \in [Keys -> Ids \cup {None}]
      /\ state \in [Ids -> [closed : BOOLEAN, running : BOOLEAN]]
      /\ attempts \subseteq AttemptSet
  BY DEF TypeOK, AttemptSet, Places
<1>f. \A t \in attempts : t.key \in Keys /\ t.res \in Resources /\ t.st \in Ids
  BY <1>t DEF AttemptSet
<1>1. ASSUME NEW a \in Agents, NEW r \in Resources, RegisterNew(a, r), UNCHANGED attempts
      PROVE  RunInv'
  <2>1. PICK k \in Keys, i \in Ids :
          /\ owner[k] = None /\ Free(i)
          /\ owner' = [owner EXCEPT ![k] = r] /\ entry' = [entry EXCEPT ![k] = i]
          /\ state' = [state EXCEPT ![i] = [closed |-> FALSE, running |-> FALSE]]
    BY <1>1 DEF RegisterNew
  <2>2. \A t \in attempts : t.st # i
    BY <2>1 DEF Free
  <2>3. \A t \in attempts : state'[t.st] = state[t.st]
    BY <1>f, <1>t, <2>1, <2>2
  <2>4. \A t \in attempts : Current(t) => Current(t)'
    BY <1>f, <1>t, <2>1 DEF Current
  <2>5. QED
    BY <1>1, <2>3, <2>4 DEF RunInv
<1>2. ASSUME NEW a \in Agents, Constructed(a)
      PROVE  RunInv'
  <2>1. a \in Holding /\ held[a].res \in Providers
    BY <1>2 DEF Constructed, Holding, HoldInv
  <2>2. held[a].st \in Ids
    BY <2>1, HeldFields DEF Holding, HeldSet
  <2>3. \A t \in attempts : t.res \notin Providers => t.st # held[a].st
    BY <2>1, SameResource
  <2>4. \A t \in attempts : t.res \notin Providers => state'[t.st] = state[t.st]
    BY <1>2, <1>f, <2>2, <2>3, RunningFields DEF Constructed
  <2>5. UNCHANGED <<owner, entry, attempts>>
    BY <1>2 DEF Constructed
  <2>6. QED
    BY <2>4, <2>5 DEF RunInv, Current
<1>3. ASSUME NEW a \in Agents, ClaimConstruction(a)
      PROVE  RunInv'
  <2>1. held[a].st \in Ids
    BY <1>3, HeldFields DEF ClaimConstruction, HeldSet
  <2>2. \A t \in attempts : state[t.st].running => state'[t.st].running
    BY <1>3, <1>f, <2>1, RunningFields DEF ClaimConstruction
  <2>3. UNCHANGED <<owner, entry, attempts>>
    BY <1>3 DEF ClaimConstruction, registry
  <2>4. QED
    BY <2>2, <2>3 DEF RunInv, Current
<1>4. ASSUME NEW a \in Agents, Claim(a)
      PROVE  RunInv'
  <2>1. UNCHANGED <<owner, entry>>
    BY <1>4 DEF Claim, registry
  <2>2. CASE UNCHANGED <<state, attempts>>
    BY <2>1, <2>2 DEF RunInv, Current
  <2>3. CASE /\ ~state[held[a].st].running
             /\ state' = [state EXCEPT ![held[a].st].running = TRUE]
             /\ attempts' = attempts \cup {Attempt(held[a], "check", a)}
    <3> DEFINE n == Attempt(held[a], "check", a)
    <3>1. n.pc = "check" /\ n.st = held[a].st /\ n.res = held[a].res
      BY DEF Attempt
    <3>2. a \in Holding /\ held[a].st \in Ids
      BY <1>4, HeldFields DEF Claim, Holding, HeldSet
    <3>3. \A t \in attempts : t.res \notin Providers => t.st # n.st
      BY <2>3, <3>1 DEF RunInv
    <3>4. \A t \in attempts : t.st = n.st => t.res = n.res
      BY <3>1, <3>2, SameResource
    <3>5. state'[n.st].running /\ \A t \in attempts : state[t.st].running => state'[t.st].running
      BY <1>f, <2>3, <3>1, <3>2, RunningFields
    <3> HIDE DEF n
    <3>6. attempts' = attempts \cup {n}
      BY <2>3 DEF n
    <3>7. QED
      BY <2>1, <3>1, <3>3, <3>4, <3>5, <3>6 DEF RunInv, Current
  <2>4. QED
    BY <1>4, <2>2, <2>3 DEF Claim
<1>5. ASSUME NEW t \in attempts, NEW x \in Places, Advance(t, x), UNCHANGED <<owner, entry>>,
             \A u \in attempts : state'[u.st].running = state[u.st].running,
             t.res \notin Providers /\ x \in {"close", "lease", "unproven", "proven"} => Current(t)
      PROVE  RunInv'
  <2>1. PICK n \in AttemptSet :
          attempts' = (attempts \ {t}) \cup {n} /\ n.pc = x /\ n.key = t.key /\ n.res = t.res /\ n.st = t.st
    BY <1>5, AdvanceFields
  <2>2. QED
    BY <1>5, <2>1, SameResource DEF RunInv, Current
<1>6. ASSUME NEW t \in attempts, Check(t)
      PROVE  RunInv'
  <2>1. UNCHANGED <<owner, entry, state>>
    BY <1>6 DEF Check, registry
  <2>2. PICK x \in {"end", "lease", "close"} : Advance(t, x) /\ (x # "end" => Current(t))
    BY <1>6 DEF Check
  <2>3. QED
    BY <1>5, <2>1, <2>2 DEF Places
<1>7. ASSUME NEW t \in attempts, Close(t)
      PROVE  RunInv'
  <2>1. UNCHANGED <<owner, entry>>
    BY <1>7 DEF Close, registry
  <2>2. PICK x \in {"lease", "unproven"} : Advance(t, x)
    BY <1>7 DEF Close
  <2>3. t.res \notin Providers => Current(t)
    BY <1>7 DEF Close, RunInv
  <2>4. \A u \in attempts : state'[u.st].running = state[u.st].running
    BY <1>7, <1>f, ClosedFields DEF Close
  <2>5. QED
    BY <1>5, <2>1, <2>2, <2>3, <2>4 DEF Places
<1>8. ASSUME NEW t \in attempts, Reaped(t)
      PROVE  RunInv'
  <2>1. UNCHANGED <<owner, entry, state>>
    BY <1>8 DEF Reaped, registry
  <2>2. PICK x \in {"proven", "unproven"} : Advance(t, x)
    BY <1>8 DEF Reaped
  <2>3. t.res \notin Providers => Current(t)
    BY <1>8 DEF Reaped, RunInv
  <2>4. QED
    BY <1>5, <2>1, <2>2, <2>3 DEF Places
<1>9. ASSUME NEW t \in attempts, StartThread(t) \/ Retain(t)
      PROVE  RunInv'
  <2>1. UNCHANGED <<owner, entry, state>>
    BY <1>9 DEF StartThread, Retain, registry
  <2>2. PICK x \in {"check", "end"} : Advance(t, x)
    BY <1>9 DEF StartThread, Retain
  <2>3. QED
    BY <1>5, <2>1, <2>2 DEF Places
<1>10. ASSUME NEW t \in attempts, Release(t)
       PROVE  RunInv'
  <2>1. PICK n \in AttemptSet :
          attempts' = (attempts \ {t}) \cup {n} /\ n.pc = "end" /\ n.res = t.res /\ n.st = t.st
    BY <1>10, AdvanceFields DEF Release, Places
  <2>2. UNCHANGED state
    BY <1>10 DEF Release
  <2>3. ASSUME NEW u \in attempts \ {t}, u.res \notin Providers, Current(u)
        PROVE  Current(u)'
    <3>1. u.st # t.st
      BY <2>3 DEF RunInv
    <3>2. QED
      BY <1>10, <1>f, <1>t, <2>3, <3>1 DEF Release, Current, registry
  <2>4. QED
    BY <2>1, <2>2, <2>3, SameResource DEF RunInv
<1>11. ASSUME NEW t \in attempts, StartFails(t) \/ End(t)
       PROVE  RunInv'
  <2>1. attempts' = attempts \ {t} /\ state' = [state EXCEPT ![t.st].running = FALSE]
    BY <1>11 DEF StartFails, End
  <2>2. UNCHANGED <<owner, entry>>
    BY <1>11 DEF StartFails, End, registry
  <2>3. \A u \in attempts' : u.res \notin Providers => state'[u.st] = state[u.st]
    BY <1>f, <2>1, RunningFields DEF RunInv
  <2>4. QED
    BY <2>1, <2>2, <2>3 DEF RunInv, Current
<1>12. CASE Retry
  <2> DEFINE n(k) == [pc |-> "reserved", key |-> k, res |-> failed[k], st |-> entry[k], by |-> "retry"]
  <2>1. UNCHANGED <<owner, entry>>
    BY <1>12 DEF Retry, registry
  <2>2. \A t \in attempts' : t \in attempts \/ \E k \in Retryable : t = n(k)
    BY <1>12 DEF Retry
  <2>3. \A k \in Retryable : /\ k \in Keys /\ entry[k] \in Ids /\ owner[k] \in Resources
                             /\ owner[k] = failed[k] /\ ~state[entry[k]].running
    BY <1>t DEF Retryable, SlotInv
  <2>4. \A i \in Ids : state[i].running => state'[i].running
    BY <1>12, <1>t DEF Retry
  <2>5. \A k \in Retryable : state'[entry[k]].running
    BY <1>12, <1>t, <2>3 DEF Retry
  <2>6. \A k, l \in Retryable : entry[k] = entry[l] => k = l
    BY <2>3 DEF RefInv, Refers
  <2>7. \A k \in Retryable : \A t \in attempts : t.res \notin Providers => t.st # entry[k]
    BY <2>3 DEF RunInv
  <2>8. \A k \in Retryable : \A t \in attempts : t.st = entry[k] => t.res = failed[k]
    BY <2>3, SameResource
  <2>9. ASSUME NEW t \in attempts', t.res \notin Providers
        PROVE  /\ state'[t.st].running
               /\ \A u \in attempts' : u.st = t.st => u = t
               /\ t.pc \in {"close", "lease", "unproven", "proven"} => Current(t)'
    <3>1. CASE t \in attempts
      BY <1>f, <2>1, <2>2, <2>4, <2>7, <2>9, <3>1 DEF RunInv, Current
    <3>2. ASSUME NEW k \in Retryable, t = n(k)
          PROVE  /\ state'[t.st].running
                 /\ \A u \in attempts' : u.st = t.st => u = t
                 /\ t.pc \in {"close", "lease", "unproven", "proven"} => Current(t)'
      <4>1. t.pc = "reserved" /\ t.st = entry[k] /\ t.res = failed[k]
        BY <3>2
      <4>2. ASSUME NEW u \in attempts', u.st = t.st
            PROVE  u = t
        <5>1. u \notin attempts
          BY <2>7, <2>8, <2>9, <4>1, <4>2
        <5>2. PICK l \in Retryable : u = n(l)
          BY <2>2, <5>1
        <5>3. u.st = entry[l]
          BY <5>2
        <5>4. k = l
          BY <2>6, <4>1, <4>2, <5>3
        <5>5. QED
          BY <3>2, <5>2, <5>4
      <4>3. QED
        BY <2>5, <4>1, <4>2
    <3>3. QED
      BY <2>2, <3>1, <3>2
  <2>10. QED
    BY <2>9 DEF RunInv
<1>13. CASE UNCHANGED <<owner, entry, state, attempts>>
  BY <1>13 DEF RunInv, Current
<1>14. QED
  BY <1>1, <1>2, <1>3, <1>4, <1>6, <1>7, <1>8, <1>9, <1>10, <1>11, <1>12, <1>13
     DEF Next, Caller, Register, RegisterAgain, Drop, Prepare, PrepareConstruction, Cleanup,
         Launch, Stop, Sweep, vars, registry

\* Who keeps the retries away from a registration.
Busy(i) ==
  \/ \E t \in attempts : t.st = i
  \/ \E a \in Agents : held[a].pc \in {"claimed", "constructing"} /\ held[a].st = i

LEMMA StepFlag ==
  ASSUME TypeOK, SlotInv, HoldInv, RunningIsAttempted, [Next]_vars
  PROVE  RunningIsAttempted'
<1> USE RegistryAssumption
<1>t. /\ owner \in [Keys -> Resources \cup {None}] /\ entry \in [Keys -> Ids \cup {None}]
      /\ state \in [Ids -> [closed : BOOLEAN, running : BOOLEAN]]
      /\ held \in [Agents -> {Nothing} \cup HeldSet] /\ attempts \subseteq AttemptSet
  BY DEF TypeOK, HeldSet, HeldPlaces, AttemptSet, Places
<1>f. \A t \in attempts : t.key \in Keys /\ t.res \in Resources /\ t.st \in Ids
  BY <1>t DEF AttemptSet
\* It is enough that what is busy stays busy unless its flag is reset.
<1>1. ASSUME \A k \in Keys : entry'[k] = None \/ entry'[k] = entry[k],
             \A i \in Ids : state'[i].running =>
               Busy(i)' \/ (state[i].running /\ (Busy(i) => Busy(i)'))
      PROVE  RunningIsAttempted'
  <2>1. ASSUME NEW k \in Keys, NEW i, entry'[k] = i, i # None, state'[i].running
        PROVE  Busy(i)'
    <3>1. entry[k] = i /\ i \in Ids
      BY <1>1, <1>t, <2>1
    <3>2. state[i].running => Busy(i)
      BY <2>1, <3>1 DEF RunningIsAttempted, Busy
    <3>3. QED
      BY <1>1, <2>1, <3>1, <3>2 DEF Busy
  <2>2. QED
    BY <2>1 DEF RunningIsAttempted, Busy
<1>2. ASSUME NEW a \in Agents, NEW r \in Resources, RegisterNew(a, r), held[a].pc = "idle",
             UNCHANGED attempts
      PROVE  RunningIsAttempted'
  <2>1. PICK k \in Keys, i \in Ids :
          /\ Free(i) /\ entry' = [entry EXCEPT ![k] = i]
          /\ state' = [state EXCEPT ![i] = [closed |-> FALSE, running |-> FALSE]]
    BY <1>2 DEF RegisterNew
  <2>2. \A b \in Agents : b # a => held'[b] = held[b]
    BY <1>2, <1>t DEF RegisterNew, Hold
  <2>3. \A l \in Keys : entry'[l] = i \/ (entry'[l] = entry[l] /\ entry[l] # i)
    BY <1>t, <2>1 DEF Free
  <2>4. ~state'[i].running /\ \A j \in Ids : j # i => state'[j] = state[j]
    BY <1>t, <2>1
  <2>5. ASSUME NEW l \in Keys, NEW j, entry'[l] = j, j # None, state'[j].running
        PROVE  Busy(j)'
    <3>1. entry[l] = j /\ j \in Ids /\ state[j].running
      BY <1>t, <2>1, <2>3, <2>4, <2>5
    <3>2. Busy(j)
      BY <2>5, <3>1 DEF RunningIsAttempted, Busy
    <3>3. QED
      BY <1>2, <2>2, <3>2 DEF Busy
  <2>6. QED
    BY <2>5 DEF RunningIsAttempted, Busy
<1>3. ASSUME NEW a \in Agents, held[a].pc \notin {"claimed", "constructing"}, UNCHANGED <<entry, state>>,
             attempts \subseteq attempts', \A b \in Agents : b # a => held'[b] = held[b]
      PROVE  RunningIsAttempted'
  <2>1. \A i \in Ids : Busy(i) => Busy(i)'
    BY <1>3 DEF Busy
  <2>2. QED
    BY <1>1, <1>3, <2>1
<1>4. ASSUME NEW a \in Agents, ClaimConstruction(a)
      PROVE  RunningIsAttempted'
  <2>1. held[a].st \in Ids /\ held[a].pc = "owning"
    BY <1>4, HeldFields DEF ClaimConstruction, HeldSet
  <2>2. /\ held'[a].pc = "claimed" /\ held'[a].st = held[a].st
        /\ \A b \in Agents : b # a => held'[b] = held[b]
    BY <1>4, <2>1, BecomesFields DEF ClaimConstruction, HeldPlaces
  <2>3. \A i \in Ids : i # held[a].st => state'[i] = state[i]
    BY <1>4, <2>1, RunningFields DEF ClaimConstruction
  <2>4. UNCHANGED <<entry, attempts>>
    BY <1>4 DEF ClaimConstruction, registry
  <2>5. \A i \in Ids : Busy(i) => Busy(i)'
    BY <2>1, <2>2, <2>4 DEF Busy
  <2>6. \A i \in Ids : i = held[a].st => Busy(i)'
    BY <2>2 DEF Busy
  <2>7. QED
    BY <1>1, <2>3, <2>4, <2>5, <2>6
<1>5. ASSUME NEW a \in Agents, PrepareConstruction(a)
      PROVE  RunningIsAttempted'
  <2>1. /\ held'[a].pc = "constructing" /\ held'[a].st = held[a].st
        /\ \A b \in Agents : b # a => held'[b] = held[b]
    BY <1>5, BecomesFields DEF PrepareConstruction, HeldPlaces
  <2>2. UNCHANGED <<entry, attempts, state>>
    BY <1>5 DEF PrepareConstruction
  <2>3. \A i \in Ids : Busy(i) => Busy(i)'
    BY <2>1, <2>2 DEF Busy
  <2>4. QED
    BY <1>1, <2>2, <2>3
<1>6. ASSUME NEW a \in Agents, Constructed(a)
      PROVE  RunningIsAttempted'
  <2>1. held[a].st \in Ids
    BY <1>6, HeldFields DEF Constructed, HeldSet
  <2>2. \A b \in Agents : b # a => held'[b] = held[b]
    BY <1>6, <1>t DEF Constructed, Done
  <2>3. /\ ~state'[held[a].st].running
        /\ \A i \in Ids : i # held[a].st => state'[i] = state[i]
    BY <1>6, <2>1, RunningFields DEF Constructed
  <2>4. UNCHANGED <<entry, attempts>>
    BY <1>6 DEF Constructed
  <2>5. \A i \in Ids : i # held[a].st /\ Busy(i) => Busy(i)'
    BY <2>2, <2>4 DEF Busy
  <2>6. QED
    BY <1>1, <2>3, <2>4, <2>5
<1>7. ASSUME NEW a \in Agents, Claim(a)
      PROVE  RunningIsAttempted'
  <2>1. held[a].pc = "prepared" /\ held[a].st \in Ids /\ UNCHANGED entry
    BY <1>7, HeldFields DEF Claim, HeldSet, registry
  <2>2. \A b \in Agents : b # a => held'[b] = held[b]
    BY <1>7, <1>t, <2>1, BecomesFields DEF Claim, Done, HeldPlaces
  <2>3. CASE UNCHANGED <<state, attempts>>
    BY <1>3, <2>1, <2>2, <2>3
  <2>4. CASE /\ state' = [state EXCEPT ![held[a].st].running = TRUE]
             /\ attempts' = attempts \cup {Attempt(held[a], "check", a)}
    <3>1. \A i \in Ids : i # held[a].st => state'[i] = state[i]
      BY <2>1, <2>4, RunningFields
    <3>2. Attempt(held[a], "check", a).st = held[a].st
      BY DEF Attempt
    <3>3. \A i \in Ids : Busy(i) => Busy(i)'
      BY <2>1, <2>2, <2>4 DEF Busy
    <3>4. \A i \in Ids : i = held[a].st => Busy(i)'
      BY <2>4, <3>2 DEF Busy
    <3>5. QED
      BY <1>1, <2>1, <3>1, <3>3, <3>4
  <2>5. QED
    BY <1>7, <2>3, <2>4 DEF Claim
<1>8. ASSUME NEW t \in attempts, NEW x \in Places, Advance(t, x), UNCHANGED held,
             \A k \in Keys : entry'[k] = None \/ entry'[k] = entry[k],
             \A i \in Ids : state'[i].running = state[i].running
      PROVE  RunningIsAttempted'
  <2>1. \A i \in Ids : Busy(i) => Busy(i)'
    BY <1>8, AdvanceFields DEF Busy
  <2>2. QED
    BY <1>1, <1>8, <2>1
<1>9. ASSUME NEW t \in attempts, StartFails(t) \/ End(t)
      PROVE  RunningIsAttempted'
  <2>1. attempts' = attempts \ {t} /\ state' = [state EXCEPT ![t.st].running = FALSE]
    BY <1>9 DEF StartFails, End
  <2>2. \A b \in Agents : held'[b] = held[b] \/ held[b].pc = "attempting"
    BY <1>9, <1>t DEF StartFails, End, HoldInv
  <2>3. ~state'[t.st].running /\ \A i \in Ids : i # t.st => state'[i] = state[i]
    BY <1>f, <2>1, RunningFields
  <2>4. \A i \in Ids : i # t.st /\ Busy(i) => Busy(i)'
    BY <2>1, <2>2 DEF Busy
  <2>5. UNCHANGED entry
    BY <1>9 DEF StartFails, End, registry
  <2>6. QED
    BY <1>1, <2>3, <2>4, <2>5
<1>10. CASE Retry
  <2>1. UNCHANGED <<entry, held>> /\ attempts \subseteq attempts'
    BY <1>10 DEF Retry, registry
  <2>2. \A i \in Ids : Busy(i) => Busy(i)'
    BY <2>1 DEF Busy
  <2>3. ASSUME NEW i \in Ids, NEW k \in Retryable, entry[k] = i
        PROVE  Busy(i)'
    <3> DEFINE n == [pc |-> "reserved", key |-> k, res |-> failed[k], st |-> entry[k], by |-> "retry"]
    <3>1. n \in attempts'
      BY <1>10 DEF Retry
    <3>2. n.st = i
      BY <2>3
    <3>3. QED
      BY <3>1, <3>2 DEF Busy
  <2>4. \A i \in Ids : state'[i] = state[i] \/ \E k \in Retryable : entry[k] = i
    BY <1>10, <1>t DEF Retry
  <2>5. QED
    BY <1>1, <2>1, <2>2, <2>3, <2>4
<1>11. CASE UNCHANGED <<entry, state, held, attempts>>
  BY <1>11 DEF RunningIsAttempted
<1>12. ASSUME NEW a \in Agents, Caller(a)
       PROVE  RunningIsAttempted'
  <2>1. ASSUME NEW r \in Resources, Register(a, r)
        PROVE  RunningIsAttempted'
    <3>1. held[a].pc = "idle" /\ UNCHANGED attempts
      BY <2>1 DEF Register
    <3>2. CASE RegisterAgain(a, r)
      BY <1>3, <1>t, <3>1, <3>2 DEF RegisterAgain, Hold
    <3>3. QED
      BY <1>2, <2>1, <3>1, <3>2 DEF Register
  <2>2. CASE Drop(a)
    BY <1>3, <1>t, <2>2 DEF Drop, Done, registry
  <2>3. CASE Prepare(a)
    BY <1>3, <2>3, BecomesFields DEF Prepare, HeldPlaces
  <2>4. QED
    BY <1>4, <1>5, <1>6, <1>7, <1>12, <2>1, <2>2, <2>3 DEF Caller
<1>13. ASSUME NEW t \in attempts, Cleanup(t)
       PROVE  RunningIsAttempted'
  <2>1. CASE StartFails(t) \/ End(t)
    BY <1>9, <2>1
  <2>2. CASE StartThread(t) \/ Check(t) \/ Close(t) \/ Reaped(t) \/ Retain(t) \/ Release(t)
    <3>1. PICK x \in Places : Advance(t, x)
      BY <2>2 DEF StartThread, Check, Close, Reaped, Retain, Release, Places
    <3>2. UNCHANGED held
      BY <2>2 DEF StartThread, Check, Close, Reaped, Retain, Release
    <3>3. \A k \in Keys : entry'[k] = None \/ entry'[k] = entry[k]
      BY <1>t, <2>2 DEF StartThread, Check, Close, Reaped, Retain, Release, registry
    <3>4. \A i \in Ids : state'[i].running = state[i].running
      BY <1>f, <2>2, ClosedFields DEF StartThread, Check, Close, Reaped, Retain, Release
    <3>5. QED
      BY <1>8, <3>1, <3>2, <3>3, <3>4
  <2>3. QED
    BY <1>13, <2>1, <2>2 DEF Cleanup
<1>14. QED
  BY <1>10, <1>11, <1>12, <1>13 DEF Next, Launch, Stop, Sweep, vars, registry

-----------------------------------------------------------------------------
(* The inductive invariant and what follows from it.                       *)

IInv == /\ TypeOK /\ SlotInv /\ RefInv /\ ProvenInv /\ GoneInv /\ SweptInv
        /\ HoldInv /\ RunInv /\ RunningIsAttempted

LEMMA InitInv == Init => IInv
<1> SUFFICES ASSUME Init PROVE IInv
  OBVIOUS
<1> USE RegistryAssumption
<1>1. SlotInv /\ HoldInv /\ RunInv /\ RunningIsAttempted
  BY DEF Init, SlotInv, HoldInv, RunInv, RunningIsAttempted, Nothing
<1>2. \A k \in Keys, r \in Resources, i \in Ids : ~Refers(k, r, i)
  BY DEF Init, Refers, Holding, Nothing
<1>3. RefInv /\ ProvenInv
  BY <1>2 DEF Init, RefInv, ProvenInv
<1>4. GoneInv
  BY DEF Init, GoneInv
<1>5. SweptInv
  BY DEF Init, SweptInv, SweptIsShut
<1>6. QED
  BY <1>1, <1>3, <1>4, <1>5, InitType DEF IInv

LEMMA StepInv == IInv /\ [Next]_vars => IInv'
  BY StepType, StepSlot, StepRef, StepProven, StepGone, StepSwept, StepHold, StepRun, StepFlag DEF IInv

\* The inductive invariant, which every theorem below follows from.
THEOREM Inductive == Spec => []IInv
<1>1. QED
  BY InitInv, StepInv, PTL DEF Spec

\* What launched a child is found by whoever looks for what to close.
THEOREM LostSafe == Spec => []NothingLost
<1>1. IInv => NothingLost
  BY DEF IInv, TypeOK, GoneInv, NothingLost
<1>2. QED
  BY <1>1, Inductive, PTL

\* A retry closes what the registry owns, and finds its state.
THEOREM PendingSafe == Spec => []PendingIsOwned
<1>1. IInv => PendingIsOwned
  BY DEF IInv, SlotInv, PendingIsOwned
<1>2. QED
  BY <1>1, Inductive, PTL

\* A grant is given back after the proof of the teardown, and a lost one keeps
\* its owner.
THEOREM LeaseSafe == Spec => []LeaseIsKept
<1>1. IInv => LeaseIsKept
  BY RegistryAssumption DEF IInv, GoneInv, LeaseIsKept, Quarantined, Acknowledged
<1>2. QED
  BY <1>1, Inductive, PTL

\* After shutdown's pass nothing in the registry launches, and all is pending.
THEOREM SweptSafe == Spec => []SweptIsShut
<1>1. IInv => SweptIsShut
  BY DEF IInv, SweptInv
<1>2. QED
  BY <1>1, Inductive, PTL

\* A flag that keeps retries away has an attempt or a constructor behind it.
THEOREM RunningSafe == Spec => []RunningIsAttempted
<1>1. IInv => RunningIsAttempted
  BY DEF IInv
<1>2. QED
  BY <1>1, Inductive, PTL

\* Workers, retries and shutdown together close a resource once at a time: two
\* attempts would both be of its current registration, whose state one has.
THEOREM OneCleanupSafe == Spec => []OneCleanup
<1>1. ASSUME IInv, NEW r \in Resources \ Providers
      PROVE  Cardinality(Closing(r)) <= 1
  <2>1. \A t \in attempts : t.key \in Keys /\ t.st \in Ids
    BY <1>1 DEF IInv, TypeOK
  <2>2. ASSUME NEW t \in Closing(r), NEW u \in Closing(r)
        PROVE  t = u
    <3>1. t \in attempts /\ u \in attempts /\ t.res = r /\ u.res = r
      BY DEF Closing
    <3>2. Current(t) /\ Current(u)
      BY <1>1 DEF IInv, RunInv, Closing
    <3>3. t.key = u.key
      BY <1>1, <2>1, <3>1, <3>2, RegistryAssumption DEF IInv, SlotInv, Current
    <3>4. t.st = u.st
      BY <3>2, <3>3 DEF Current
    <3>5. QED
      BY <1>1, <3>1, <3>4 DEF IInv, RunInv
  <2>3. CASE Closing(r) = {}
    BY <2>3, FS_EmptySet
  <2>4. CASE Closing(r) # {}
    <3>1. PICK t \in Closing(r) : TRUE
      BY <2>4
    <3>2. Closing(r) = {t}
      BY <2>2, <3>1
    <3>3. Cardinality({t}) = 1
      BY FS_Singleton, Zenon
    <3>4. Cardinality(Closing(r)) = 1
      BY <3>2, <3>3, Zenon
    <3>5. QED
      BY <3>4
  <2>5. QED
    BY <2>3, <2>4
<1>2. IInv => OneCleanup
  BY <1>1 DEF OneCleanup
<1>3. QED
  BY <1>2, Inductive, PTL
=============================================================================
