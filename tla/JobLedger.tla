------------------------------ MODULE JobLedger ------------------------------
(***************************************************************************)
(* How jobs ended (jobs.py): a bounded, ordered table that the handler who *)
(* accepts a job, the worker that runs it and the receiver that is told    *)
(* write to in any order.  A turn settles once, under its own lock.        *)
(***************************************************************************)
EXTENDS Naturals, Sequences, FiniteSets, Filter

CONSTANTS
  Jobs,       \* the jobs a run accepts
  Outcomes,
  MaxEntries  \* of the ledger, a number

VARIABLES
  entries,   \* the table, oldest first: [job, state, delivered]
  begun,     \* jobs whose handler has called begin
  settled    \* the outcome each job's turn settled on, or None

vars == <<entries, begun, settled>>

None == "none"
Init == entries = <<>> /\ begun = {} /\ settled = [j \in Jobs |-> None]

At(j) == {i \in DOMAIN entries : entries[i].job = j}
Has(j) == At(j) # {}
State(j) == IF Has(j) THEN entries[CHOOSE i \in At(j) : TRUE].state ELSE None

\* _evict_locked: the oldest settled ones, as many as there are too many.
Evict(s) ==
  LET old == {i \in DOMAIN s : s[i].state # "running"}
      excess == IF Len(s) > MaxEntries THEN Len(s) - MaxEntries ELSE 0
  IN Picked(s, {i \in DOMAIN s : i \in old => Cardinality({k \in old : k <= i}) > excess})

Entry(j, state) == [job |-> j, state |-> state, delivered |-> None]

\* Mutant: a job that began is put down as running, whatever is there.
BeginAnyway(j) ==
  IF Has(j) THEN [i \in DOMAIN entries |-> IF entries[i].job = j THEN Entry(j, "running")
                                           ELSE entries[i]]
  ELSE Evict(Append(entries, Entry(j, "running")))

BeginEntries(j) == IF Has(j) THEN entries ELSE Evict(Append(entries, Entry(j, "running")))

\* Bound: no handler is so late with its begin that the jobs that run, and the
\* ones that came since, fill the table.
Late == {k \in Jobs : settled[k] # None /\ k \notin begun}
Newer(k) == {entries[i].job : i \in {n \in DOMAIN entries : \A p \in At(k) : n > p}}
Pressing(k) == {m \in Jobs : State(m) = "running"} \cup (IF Has(k) THEN Newer(k) ELSE {})
Timely(j) ==
  Has(j) \/ \A k \in Late \cup {j} : Cardinality((Pressing(k) \cup {j}) \ {k}) < MaxEntries

Begin(j) ==
  /\ j \notin begun /\ Timely(j)
  /\ begun' = begun \cup {j}
  /\ entries' = BeginEntries(j)
  /\ UNCHANGED settled

\* The turn settles, and its outcome is recorded.
Record(j) ==
  /\ settled[j] = None /\ Timely(j)
  /\ \E o \in Outcomes :
       /\ settled' = [settled EXCEPT ![j] = o]
       /\ entries' = IF Has(j)
                     THEN Evict([i \in DOMAIN entries |->
                                   IF entries[i].job = j THEN Entry(j, o) ELSE entries[i]])
                     ELSE Evict(Append(entries, Entry(j, o)))
  /\ UNCHANGED begun

\* Kept once, and only for a job that settled.
MarkDelivered(j) ==
  /\ Has(j)
  /\ \E d \in {"yes", "no"} :
       entries' = [i \in DOMAIN entries |->
                     IF entries[i].job = j /\ entries[i].state # "running"
                        /\ entries[i].delivered = None
                     THEN [entries[i] EXCEPT !.delivered = d] ELSE entries[i]]
  /\ UNCHANGED <<begun, settled>>

Next == \E j \in Jobs : Begin(j) \/ Record(j) \/ MarkDelivered(j)
Spec == Init /\ [][Next]_vars

\* A job that began is found running until it settles, however many settled
\* since; and what is found of a settled one is its outcome, although its
\* handler may begin it after its worker settled it.
LedgerIsTrue ==
  \A j \in Jobs :
    /\ j \in begun /\ settled[j] = None => State(j) = "running"
    /\ settled[j] # None /\ Has(j) => State(j) = settled[j]
=============================================================================
