------------------------------- MODULE Ingest -------------------------------
(***************************************************************************)
(* ingest-audio: a caller hands the daemon audio by descriptor, and gets a *)
(* sealed canonical WAV back.  The accept loop hands the request to a      *)
(* thread of its own, that thread has a helper read the descriptor, and a  *)
(* helper that does not answer in time is abandoned: kilix-voiced          *)
(* _accept_one, _hand_off, _finish and _op_ingest_audio, with              *)
(* audiofd.read_descriptor and audio_input.normalize.                      *)
(*                                                                         *)
(* Bytes are counted in units; a source may grow while it is read, and may *)
(* never answer at all.  A deadline may have passed wherever it is asked.  *)
(***************************************************************************)
EXTENDS Naturals, FiniteSets

CONSTANTS
  N,           \* bound: requests, numbered as they come
  MaxInFlight, \* MAX_INGEST_IN_FLIGHT
  MaxStalled,  \* MAX_STALLED_READS
  Limit,       \* the byte limit of a request
  Block,       \* what one read takes
  MaxSize,     \* bound: the largest source
  Growing      \* bound: the requests whose source is more than an empty file

Requests == 1..N

VARIABLES
  at,       \* per request, where its handler is
  source,   \* per request, the kind of its descriptor, its size, and whether it is all written
  helper,   \* per request, its reading thread: "none", "reading" or "done"
  got,      \* per request, the bytes read
  result,   \* per request, what the read amounts to: "none", "data" or "error"
  abandoned,
  fds,      \* per request, the descriptors the daemon holds for it
  answer,   \* per request: "none", "ok" or "refused", whatever the code
  slots,    \* the requests that hold a slot of _ingest_slots
  stalled   \* _stalled

vars == <<at, source, helper, got, result, abandoned, fds, answer, slots, stalled>>
reading == <<source, helper, got, result>>

Kinds == {"file", "pipe"}

Init ==
  /\ at = [r \in Requests |-> "away"]
  /\ source = [r \in Requests |-> [kind |-> "file", size |-> 0, written |-> FALSE]]
  /\ helper = [r \in Requests |-> "none"]
  /\ got = [r \in Requests |-> 0]
  /\ result = [r \in Requests |-> "none"]
  /\ abandoned = {}
  /\ fds = [r \in Requests |-> {}]
  /\ answer = [r \in Requests |-> "none"]
  /\ slots = {} /\ stalled = 0

-----------------------------------------------------------------------------
(* The accept loop and the thread of the request.                          *)

Goto(r, place) == at' = [at EXCEPT ![r] = place]
Answer(r, how) == Goto(r, "finish") /\ answer' = [answer EXCEPT ![r] = how]
Opens(r, opened) == fds' = [fds EXCEPT ![r] = @ \cup opened]
Closes(r, closed) == fds' = [fds EXCEPT ![r] = @ \ closed]

\* _accept_one and _answer: the record and its descriptors arrive together.
\* The loop is serial: it hands over one request before it takes the next.
Accept(r) ==
  /\ at[r] = "away" /\ \A o \in 1..(r - 1) : at[o] \notin {"away", "handoff"}
  /\ \E kind \in IF r \in Growing THEN Kinds ELSE {"file"} : source' = [source EXCEPT ![r].kind = kind]
  /\ Goto(r, "handoff") /\ Opens(r, {"inbound"})
  /\ UNCHANGED <<helper, got, result, abandoned, answer, slots, stalled>>

\* _hand_off: a slot and a thread, or a refusal at once.
HandOff(r) ==
  /\ at[r] = "handoff"
  /\ \/ Answer(r, "refused") /\ UNCHANGED slots
     \/ /\ Cardinality(slots) < MaxInFlight
        /\ Goto(r, "begin") /\ slots' = slots \cup {r} /\ UNCHANGED answer
  /\ UNCHANGED <<reading, abandoned, fds, stalled>>

\* _op_ingest_audio up to read_descriptor's first look: a deadline already
\* spent, not exactly one descriptor, or too many reads left running.
Begin(r) ==
  /\ at[r] = "begin"
  /\ \/ Answer(r, "refused")
     \/ stalled < MaxStalled /\ Goto(r, "start") /\ UNCHANGED answer
  /\ UNCHANGED <<reading, abandoned, fds, slots, stalled>>

\* The duplicate and the thread that reads it; either may not be had.
StartHelper(r) ==
  /\ at[r] = "start"
  /\ \/ Answer(r, "refused") /\ UNCHANGED <<helper, fds>>
     \/ /\ Goto(r, "wait") /\ Opens(r, {"own"})
        /\ helper' = [helper EXCEPT ![r] = "reading"] /\ UNCHANGED answer
  /\ UNCHANGED <<source, got, result, abandoned, slots, stalled>>

\* The join returned because the read ended.
Joined(r) ==
  /\ at[r] = "wait" /\ helper[r] = "done"
  /\ IF result[r] = "data" THEN Goto(r, "deliver") /\ UNCHANGED answer ELSE Answer(r, "refused")
  /\ UNCHANGED <<reading, abandoned, fds, slots, stalled>>

\* Mutant: whether the read is done is not asked again under the lock.
TimedOutUnasked(r) ==
  /\ at[r] = "wait"
  /\ Answer(r, "refused")
  /\ abandoned' = abandoned \cup {r} /\ stalled' = stalled + 1
  /\ UNCHANGED <<reading, fds, slots>>

\* The join ran out of time, and the read had not ended by the time
\* _stalled_lock was taken.
TimedOut(r) ==
  /\ at[r] = "wait" /\ helper[r] # "done"
  /\ Answer(r, "refused")
  /\ abandoned' = abandoned \cup {r} /\ stalled' = stalled + 1
  /\ UNCHANGED <<reading, fds, slots>>

\* normalize, the deadline at the delivery boundary or the sealing refuses;
\* a reply that cannot be built closes the copy its argument says it closes.
Delivered(r, closed) ==
  /\ at[r] = "deliver"
  /\ \/ Answer(r, "refused") /\ UNCHANGED fds
     \/ Answer(r, "refused") /\ Opens(r, {"sealed"} \ closed)
     \/ Answer(r, "ok") /\ Opens(r, {"sealed"})
  /\ UNCHANGED <<reading, abandoned, slots, stalled>>

\* The canonical WAV is sealed, the job recorded and the reply built; what
\* fails after the sealing closes the copy.
Deliver(r) == Delivered(r, {"sealed"})

\* _finish: sent or not, the connection and every descriptor that came or
\* went with it is closed; then its thread, if it had one, gives the slot back.
Finish(r) ==
  /\ at[r] = "finish"
  /\ Goto(r, "done")
  /\ Closes(r, {"inbound"} \cup (IF answer[r] = "ok" THEN {"sealed"} ELSE {}))
  /\ slots' = slots \ {r}
  /\ UNCHANGED <<reading, abandoned, answer, stalled>>

-----------------------------------------------------------------------------
(* The helper.                                                             *)

\* Under _stalled_lock, after the duplicate is closed.
EndRead(r, what) ==
  /\ result' = [result EXCEPT ![r] = what]
  /\ helper' = [helper EXCEPT ![r] = "done"]
  /\ stalled' = IF r \in abandoned THEN stalled - 1 ELSE stalled
  /\ Closes(r, {"own"})
  /\ UNCHANGED <<at, source, got, abandoned, answer, slots>>

\* _read_now refuses what is not a readable file or pipe, a file that is too
\* big already, and whatever fails; a pipe's window may run out.
ReadFails(r) ==
  /\ helper[r] = "reading"
  /\ EndRead(r, "error")

Shortest(S) == CHOOSE n \in S : \A m \in S : n <= m

\* One read of at most this many bytes.  A read that gives none is the end,
\* which a pipe has only once nobody writes it; past the limit it stops.
Reads(r, most) ==
  /\ helper[r] = "reading"
  /\ LET n == Shortest({Block, most, source[r].size - got[r]}) IN
       \/ /\ got[r] <= Limit /\ n > 0
          /\ got' = [got EXCEPT ![r] = @ + n]
          /\ UNCHANGED <<at, source, helper, result, abandoned, fds, answer, slots, stalled>>
       \/ /\ got[r] <= Limit /\ n = 0
          /\ source[r].kind = "file" \/ source[r].written \/ most = 0
          /\ EndRead(r, "data")
       \/ got[r] > Limit /\ EndRead(r, "error")

\* _read_file and _read_pipe ask for one byte more than the limit allows.
ReadBlock(r) == Reads(r, Limit + 1 - got[r])

\* The other side of the descriptor writes on, or is done.
Write(r) ==
  /\ helper[r] = "reading" /\ r \in Growing /\ ~source[r].written
  /\ \/ /\ source[r].size < MaxSize
        /\ source' = [source EXCEPT ![r].size = @ + 1]
     \/ source' = [source EXCEPT ![r].written = TRUE]
  /\ UNCHANGED <<at, helper, got, result, abandoned, fds, answer, slots, stalled>>
-----------------------------------------------------------------------------
Step(r) ==
  \/ Accept(r) \/ HandOff(r) \/ Begin(r) \/ StartHelper(r) \/ Joined(r) \/ TimedOut(r)
  \/ Deliver(r) \/ Finish(r)

Next == \E r \in Requests : Step(r) \/ ReadFails(r) \/ ReadBlock(r) \/ Write(r)

Spec == Init /\ [][Next]_vars

-----------------------------------------------------------------------------
(* Properties.                                                             *)

\* _stalled counts the helpers that were left to themselves and still read,
\* each once, whichever of the timeout and the end of the read comes first.
\* They are few, but more than the code says (StalledAreFew): the requests that
\* are answered at once look together before any of them is left.
StalledIsExact ==
  /\ stalled = Cardinality({r \in abandoned : helper[r] = "reading"})
  /\ stalled <= MaxStalled - 1 + MaxInFlight

\* "no more than MAX_STALLED_READS are ever left that way" (audiofd.py): false,
\* since a read is counted when it is given up and asked for when it begins.
StalledAreFew == stalled <= MaxStalled

\* A read that succeeds returns everything there was and no more than the
\* limit: "refused, not truncated", at the limit and one byte past it.
WholeOrRefused ==
  [][\A r \in Requests :
       result[r] = "none" /\ result'[r] = "data" =>
         got[r] = source[r].size /\ got[r] <= Limit]_vars

\* A request that is over has left nothing open, however it went, but the
\* duplicate a helper still reads.
NothingIsLeft ==
  \A r \in Requests :
    at[r] = "done" => /\ fds[r] \subseteq (IF helper[r] = "reading" THEN {"own"} ELSE {})
                      /\ r \notin slots
=============================================================================
