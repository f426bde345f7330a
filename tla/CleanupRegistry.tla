-------------------------- MODULE CleanupRegistry --------------------------
(***************************************************************************)
(* The daemon's registry of resources: who owns what has to be closed.     *)
(* (Daemon._register_cleanup ... _retry_dictation_cleanup in kilix-voiced, *)
(* ExecutionGrant.reaped in accelerator.py.)                               *)
(*                                                                         *)
(* One logical slot, such as the player's: several resources may be        *)
(* registered in it, each under a generation of the slot's key.  A caller  *)
(* holds on to the (key, resource, state) that registration gave it and    *)
(* may use it when it is long out of date.  What a single close does is    *)
(* the subject of ResourceLifecycle.                                       *)
(***************************************************************************)
EXTENDS Integers, FiniteSets

CONSTANTS
  Resources,
  Leased,    \* the resources that hold an accelerator grant
  Providers, \* the resources whose constructor runs after its registration
  Agents,    \* turn workers, the accept loop, status threads
  Ids,       \* bound: _CleanupState objects alive at one time
  None

ASSUME RegistryAssumption ==
  /\ IsFiniteSet(Resources)
  /\ Leased \subseteq Resources
  /\ Providers \subseteq Resources
  /\ None \notin Resources \cup Ids
  /\ "retry" \notin Agents

VARIABLES
  owner,    \* _cleanup_owners: the resource under each key
  entry,    \* _dictation_cleanup_state: the state object under each key
  failed,   \* _failed_dictation_cleanup: the resources to close
  state,    \* the state objects
  held,     \* the (key, resource, state) an agent holds, and what it does with it
  attempts, \* cleanup attempts, from their reservation to their end
  stopping, \* the shutdown was requested
  swept,    \* the shutdown went through the registry
  known,    \* the resources that were ever registered
  refused,  \* the resources that allocate nothing any more
  child,    \* the resources with a child process or a device
  closed,   \* the resources whose teardown is proven
  lease     \* ExecutionGrant.acknowledgement

registry == <<owner, entry, failed>>
resources == <<known, refused, child, closed>>
vars == <<registry, state, held, attempts, stopping, swept, resources, lease>>

Keys == 0 .. Cardinality(Resources) - 1
Nothing == [pc |-> "idle"]

TypeOK ==
  /\ owner \in [Keys -> Resources \cup {None}]
  /\ entry \in [Keys -> Ids \cup {None}]
  /\ failed \in [Keys -> Resources \cup {None}]
  /\ state \in [Ids -> [closed : BOOLEAN, running : BOOLEAN]]
  /\ held \in [Agents -> {Nothing} \cup
       [pc : {"registered", "owning", "claimed", "constructing", "prepared", "attempting"},
        key : Keys, res : Resources, st : Ids]]
  /\ attempts \subseteq
       [pc : {"reserved", "check", "close", "lease", "proven", "unproven", "end"},
        key : Keys, res : Resources, st : Ids, by : Agents \cup {"retry"}]
  /\ stopping \in BOOLEAN
  /\ swept \in BOOLEAN
  /\ known \subseteq Resources
  /\ refused \subseteq Resources
  /\ child \subseteq Resources
  /\ closed \subseteq Resources
  /\ lease \in [Leased -> {"pending", "retryable", "quarantined", "acknowledged"}]

Owned == {r \in Resources : \E k \in Keys : owner[k] = r}
Holding == {a \in Agents : held[a].pc # "idle"}

Init ==
  /\ owner = [k \in Keys |-> None]
  /\ entry = [k \in Keys |-> None]
  /\ failed = [k \in Keys |-> None]
  /\ state = [i \in Ids |-> [closed |-> FALSE, running |-> FALSE]]
  /\ held = [a \in Agents |-> Nothing]
  /\ attempts = {}
  /\ stopping = FALSE
  /\ swept = FALSE
  /\ known = {}
  /\ refused = {}
  /\ child = {}
  /\ closed = {}
  /\ lease = [r \in Leased |-> "pending"]

-----------------------------------------------------------------------------
(* Registration.                                                           *)

\* A state object nobody refers to.
Free(i) ==
  /\ \A k \in Keys : entry[k] # i
  /\ \A a \in Holding : held[a].st # i
  /\ \A t \in attempts : t.st # i

\* _cleanup_current: is this registration still the one under its key?
Current(t) == entry[t.key] = t.st /\ owner[t.key] = t.res

Hold(a, pc, k, r, i) ==
  held' = [held EXCEPT ![a] = [pc |-> pc, key |-> k, res |-> r, st |-> i]]
Becomes(a, pc) == held' = [held EXCEPT ![a].pc = pc]
Done(a) == held' = [held EXCEPT ![a] = Nothing]

\* While the daemon stops, whatever is registered is refused further
\* allocation and is pending at once.
Late(k, r) ==
  /\ failed' = IF stopping THEN [failed EXCEPT ![k] = r] ELSE failed
  /\ refused' = IF stopping THEN refused \cup {r} ELSE refused

\* A resource that is registered keeps its key and its state.
RegisterAgain(a, r) ==
  \E k \in Keys :
    /\ owner[k] = r
    /\ Hold(a, "registered", k, r, entry[k])
    /\ Late(k, r)
    /\ UNCHANGED <<owner, entry, state, known>>

\* Mutant: the logical slot is taken over from the resource that holds it.
RegisterOver(a, r) ==
  \E i \in Ids :
    /\ r \notin Owned
    /\ Free(i)
    /\ owner' = [owner EXCEPT ![0] = r]
    /\ entry' = [entry EXCEPT ![0] = i]
    /\ state' = [state EXCEPT ![i] = [closed |-> FALSE, running |-> FALSE]]
    /\ known' = known \cup {r}
    /\ Hold(a, "registered", 0, r, i)
    /\ Late(0, r)

\* Any other gets the first generation that is not in use, and a new state.
RegisterNew(a, r) ==
  \E k \in Keys, i \in Ids :
    /\ r \notin Owned
    /\ owner[k] = None /\ \A j \in Keys : j < k => owner[j] # None
    /\ Free(i)
    /\ owner' = [owner EXCEPT ![k] = r]
    /\ entry' = [entry EXCEPT ![k] = i]
    /\ state' = [state EXCEPT ![i] = [closed |-> FALSE, running |-> FALSE]]
    /\ known' = known \cup {r}
    /\ Hold(a, IF r \in Providers \ known THEN "owning" ELSE "registered", k, r, i)
    /\ Late(k, r)

\* A provider is registered by one worker only, first by its constructor.
Register(a, r) ==
  /\ held[a].pc = "idle"
  /\ r \in Providers => \A b \in Holding : held[b].res # r
  /\ RegisterAgain(a, r) \/ RegisterNew(a, r)
  /\ UNCHANGED <<attempts, stopping, swept, child, closed, lease>>

\* A turn that starts keeps no use of the registration.
Drop(a) ==
  /\ held[a].pc \in {"registered", "prepared"}
  /\ Done(a)
  /\ UNCHANGED <<registry, state, attempts, stopping, swept, resources, lease>>

\* The resource starts its child, unless it was told to refuse.
Launch(r) ==
  /\ r \in known \ (refused \cup closed \cup child)
  /\ child' = child \cup {r}
  /\ UNCHANGED <<registry, state, held, attempts, stopping, swept, known, refused, closed, lease>>

\* own_provider: the constructor is an in-flight owner of its resource, so
\* the claim is made before the resource is pending ...
ClaimConstruction(a) ==
  /\ held[a].pc = "owning"
  /\ Becomes(a, "claimed")
  /\ state' = [state EXCEPT ![held[a].st].running = TRUE]
  /\ UNCHANGED <<registry, attempts, stopping, swept, resources, lease>>

PrepareConstruction(a) ==
  /\ held[a].pc = "claimed"
  /\ Becomes(a, "constructing")
  /\ failed' = IF Current(held[a]) THEN [failed EXCEPT ![held[a].key] = held[a].res] ELSE failed
  /\ UNCHANGED <<owner, entry, state, attempts, stopping, swept, resources, lease>>

\* ... and given back when it returns; what is pending under the slot's own key,
\* the first generation, is so no longer unless the constructor failed or the
\* daemon stops.
Constructed(a) ==
  /\ held[a].pc = "constructing"
  /\ Done(a)
  /\ state' = [state EXCEPT ![held[a].st].running = FALSE]
  /\ \/ ~stopping /\ failed' = [failed EXCEPT ![0] = None]
     \/ UNCHANGED failed
  /\ UNCHANGED <<owner, entry, attempts, stopping, swept, resources, lease>>

-----------------------------------------------------------------------------
(* Cleanup.                                                                *)

\* _prepare_cleanup.
Prepare(a) ==
  /\ held[a].pc = "registered"
  /\ Becomes(a, "prepared")
  /\ failed' = IF Current(held[a]) THEN [failed EXCEPT ![held[a].key] = held[a].res] ELSE failed
  /\ UNCHANGED <<owner, entry, state, attempts, stopping, swept, resources, lease>>

Attempt(t, pc, by) == [pc |-> pc, key |-> t.key, res |-> t.res, st |-> t.st, by |-> by]

\* Mutant: the worker does not look whether an attempt is running.
ClaimRunning(a) ==
  /\ held[a].pc = "prepared"
  /\ IF Current(held[a])
     THEN /\ state' = [state EXCEPT ![held[a].st].running = TRUE]
          /\ attempts' = attempts \cup {Attempt(held[a], "check", a)}
          /\ Becomes(a, "attempting")
     ELSE Done(a) /\ UNCHANGED <<state, attempts>>
  /\ UNCHANGED <<registry, stopping, swept, resources, lease>>

\* The worker makes the first attempt itself, unless one is running.
Claim(a) ==
  /\ held[a].pc = "prepared"
  /\ IF Current(held[a]) /\ ~state[held[a].st].running
     THEN /\ state' = [state EXCEPT ![held[a].st].running = TRUE]
          /\ attempts' = attempts \cup {Attempt(held[a], "check", a)}
          /\ Becomes(a, "attempting")
     ELSE Done(a) /\ UNCHANGED <<state, attempts>>
  /\ UNCHANGED <<registry, stopping, swept, resources, lease>>

Quarantined(r) == r \in Leased /\ lease[r] = "quarantined"

\* _retry_dictation_cleanup: every pending owner that no attempt is running
\* for is reserved at once, under the lock.
Retryable ==
  {k \in Keys : failed[k] # None /\ ~state[entry[k]].running /\ ~Quarantined(failed[k])}

Retry ==
  /\ Retryable # {}
  /\ state' = [i \in Ids |-> IF \E k \in Retryable : entry[k] = i
                             THEN [state[i] EXCEPT !.running = TRUE] ELSE state[i]]
  /\ attempts' = attempts \cup
       {[pc |-> "reserved", key |-> k, res |-> failed[k], st |-> entry[k], by |-> "retry"] :
          k \in Retryable}
  /\ UNCHANGED <<registry, held, stopping, swept, resources, lease>>

Advance(t, pc) == attempts' = (attempts \ {t}) \cup {[t EXCEPT !.pc = pc]}

StartThread(t) ==
  /\ t.pc = "reserved"
  /\ Advance(t, "check")
  /\ UNCHANGED <<registry, state, held, stopping, swept, resources, lease>>

\* The system has no thread to give: the reservation is returned.
StartFails(t) ==
  /\ t.pc = "reserved"
  /\ attempts' = attempts \ {t}
  /\ state' = [state EXCEPT ![t.st].running = FALSE]
  /\ UNCHANGED <<registry, held, stopping, swept, resources, lease>>

\* _attempt_dictation_cleanup: nothing is done for a registration that is
\* not current, and a resource that was proven closed is not closed again.
Check(t) ==
  /\ t.pc = "check"
  /\ Advance(t, IF ~Current(t) THEN "end" ELSE IF state[t.st].closed THEN "lease" ELSE "close")
  /\ UNCHANGED <<registry, state, held, stopping, swept, resources, lease>>

\* The resource's close: from then on it allocates nothing.  Its teardown is
\* proven, or it raises or is still in flight when it returns.
Close(t) ==
  /\ t.pc = "close"
  /\ refused' = refused \cup {t.res}
  /\ \/ /\ closed' = closed \cup {t.res}
        /\ child' = child \ {t.res}
        /\ state' = [state EXCEPT ![t.st].closed = TRUE]
        /\ Advance(t, "lease")
     \/ /\ t.res \notin closed
        /\ Advance(t, "unproven")
        /\ UNCHANGED <<closed, child, state>>
  /\ UNCHANGED <<registry, held, stopping, swept, known, lease>>

\* Mutant: a second release of a grant that was closed without proof is a
\* no-op and passes for an acknowledgement.
ReapedNoOp(t) ==
  /\ t.pc = "lease"
  /\ IF t.res \notin Leased \/ lease[t.res] \in {"acknowledged", "quarantined"}
     THEN Advance(t, "proven") /\ UNCHANGED lease
     ELSE \/ Advance(t, "proven") /\ lease' = [lease EXCEPT ![t.res] = "acknowledged"]
          \/ Advance(t, "unproven") /\ \E why \in {"retryable", "quarantined"} :
               lease' = [lease EXCEPT ![t.res] = why]
  /\ UNCHANGED <<registry, state, held, stopping, swept, resources>>

\* ExecutionGrant.reaped: acknowledged once; a release that failed without a
\* deadline has closed the grant and can never be repaired.
Reaped(t) ==
  /\ t.pc = "lease"
  /\ IF t.res \notin Leased \/ lease[t.res] = "acknowledged"
     THEN Advance(t, "proven") /\ UNCHANGED lease
     ELSE \/ lease[t.res] = "quarantined" /\ Advance(t, "unproven") /\ UNCHANGED lease
          \/ /\ lease[t.res] # "quarantined"
             /\ \/ Advance(t, "proven") /\ lease' = [lease EXCEPT ![t.res] = "acknowledged"]
                \/ Advance(t, "unproven") /\ \E why \in {"retryable", "quarantined"} :
                     lease' = [lease EXCEPT ![t.res] = why]
  /\ UNCHANGED <<registry, state, held, stopping, swept, resources>>

Retain(t) ==
  /\ t.pc = "unproven"
  /\ failed' = IF Current(t) THEN [failed EXCEPT ![t.key] = t.res] ELSE failed
  /\ Advance(t, "end")
  /\ UNCHANGED <<owner, entry, state, held, stopping, swept, resources, lease>>

Release(t) ==
  /\ t.pc = "proven"
  /\ IF Current(t)
     THEN /\ failed' = [failed EXCEPT ![t.key] = None]
          /\ entry' = [entry EXCEPT ![t.key] = None]
          /\ owner' = [owner EXCEPT ![t.key] = None]
     ELSE UNCHANGED registry
  /\ Advance(t, "end")
  /\ UNCHANGED <<state, held, stopping, swept, resources, lease>>

End(t) ==
  /\ t.pc = "end"
  /\ attempts' = attempts \ {t}
  /\ state' = [state EXCEPT ![t.st].running = FALSE]
  /\ held' = IF t.by = "retry" THEN held ELSE [held EXCEPT ![t.by] = Nothing]
  /\ UNCHANGED <<registry, stopping, swept, resources, lease>>

-----------------------------------------------------------------------------
(* Shutdown.                                                               *)

Stop ==
  /\ ~stopping
  /\ stopping' = TRUE
  /\ UNCHANGED <<registry, state, held, attempts, swept, resources, lease>>

\* Every owner is told to allocate nothing, and is pending, under one lock.
Sweep ==
  /\ stopping /\ ~swept
  /\ swept' = TRUE
  /\ refused' = refused \cup Owned
  /\ failed' = owner
  /\ UNCHANGED <<owner, entry, state, held, attempts, stopping, known, child, closed, lease>>

Caller(a) ==
  \/ \E r \in Resources : Register(a, r)
  \/ Drop(a) \/ Prepare(a) \/ Claim(a)
  \/ ClaimConstruction(a) \/ PrepareConstruction(a) \/ Constructed(a)

Cleanup(t) ==
  StartThread(t) \/ StartFails(t) \/ Check(t) \/ Close(t) \/ Reaped(t)
    \/ Retain(t) \/ Release(t) \/ End(t)

Next ==
  \/ \E a \in Agents : Caller(a)
  \/ \E t \in attempts : Cleanup(t)
  \/ \E r \in Resources : Launch(r)
  \/ Retry \/ Stop \/ Sweep

Spec == Init /\ [][Next]_vars

-----------------------------------------------------------------------------
(* Properties.                                                             *)

\* "Own a resource before any launch": whatever runs is in the registry, so
\* that shutdown finds it, status reports it and the next turn waits for it.
NothingLost == child \subseteq Owned

\* What is to be closed is what the registry owns under that key: a stale
\* caller neither republishes a resource that is gone nor replaces its
\* successor, and a retry finds the state of every pending owner.
PendingIsOwned == \A k \in Keys : failed[k] # None => failed[k] = owner[k] /\ entry[k] # None

Closing(r) == {t \in attempts : t.res = r /\ t.pc = "close"}

\* "Each resource has at most one cleanup in flight": of the worker, the
\* retries and the shutdown, one closes a resource ...
OneCleanup == \A r \in Resources \ Providers : Cardinality(Closing(r)) <= 1

\* ... and a provider's constructor, which is in flight as well, "must never
\* close a half-constructed native resource twice".
OneCleanupOfProviders == \A r \in Providers : Cardinality(Closing(r)) <= 1

\* A state says an attempt is running only while one is, or its resource is
\* being constructed: nothing else keeps a retry away.
RunningIsAttempted ==
  \A k \in Keys :
    entry[k] # None /\ state[entry[k]].running =>
      \/ \E t \in attempts : t.st = entry[k]
      \/ \E a \in Agents : held[a].pc \in {"claimed", "constructing"} /\ held[a].st = entry[k]

\* The accelerator is given back only by a resource that is gone for good, and
\* a grant that was lost without proof keeps its owner for ever, and with it
\* every later turn out.
LeaseIsKept ==
  \A r \in Leased :
    /\ lease[r] = "acknowledged" => r \in closed \ child
    /\ Quarantined(r) => r \in Owned

\* After shutdown went through the registry no owner can start a child any
\* more, the ones that come late included, and each one is to be closed.
SweptIsShut == swept => Owned \subseteq refused /\ failed = owner
=============================================================================
