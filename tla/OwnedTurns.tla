----------------------------- MODULE OwnedTurns -----------------------------
(***************************************************************************)
(* Owned read-aloud turns (owned.py), on top of the turns of kilix-voiced: *)
(* a client names each utterance, retries it after a lost reply, keeps its *)
(* lease alive, and stops its turn by the token it was given; a daemon that*)
(* restarts knows nothing of what it was asked before.  Of the read-aloud  *)
(* turn (Speech is the detail) this keeps who is current, what its token   *)
(* of cancellation says, and when its worker leaves, settles and returns   *)
(* the speakers.  The accept loop serves one request at a time; only the   *)
(* preparation of an engine is outside the lock.  Text, voice, rate and    *)
(* volume of an utterance are its signature; the level itself is left out. *)
(***************************************************************************)
EXTENDS Naturals, Sequences, SequencesExt, Filter

CONSTANTS
  Owners, Utterances, Signatures,
  Adjustable, \* the signatures that ask for a volume
  Kept,       \* OWNED_RESULTS_KEPT
  Lease,      \* SPEECH_LEASE_S, in ticks
  MaxTurns,   \* bound: numbers _next_turn_id gives out in one daemon
  MaxRestarts \* bound: restarts of the daemon

Keys == Owners \X Utterances
Turns == 1..MaxTurns
NoTurn == 0   \* self._speech is None
Legacy == ""  \* a turn has no owner
NoEnd == ""   \* owned_end, before anything ended the turn
NoOp == [stage |-> "none"]

VARIABLES
  instance,  \* _owned_instance
  number,    \* _turns: the last number given out
  entries,   \* _owned_entries, oldest first
  turn,      \* the turns of this daemon, by number
  speech,    \* self._speech
  left,      \* how long the lease of the current turn lasts
  speaking,  \* whose claim on the speakers the arbiter holds
  listening, \* whether the arbiter has a dictation
  op,        \* the owned-speak whose engine is prepared
  given      \* history: the tokens clients were sent, over all daemons

vars == <<instance, number, entries, turn, speech, left, speaking, listening, op, given>>

NoSuchTurn == [owner |-> Legacy, key |-> <<>>, volume |-> FALSE, pc |-> "none", end |-> NoEnd,
               why |-> "none", ended |-> "none", outcome |-> "none"]

Init ==
  /\ instance = 1 /\ number = 0
  /\ entries = <<>>
  /\ turn = [t \in Turns |-> NoSuchTurn]
  /\ speech = NoTurn /\ left = 0 /\ speaking = NoTurn /\ listening = FALSE
  /\ op = NoOp
  /\ given = {}

Idle == op = NoOp

\* _owned_token
Token(t) == <<instance, t>>

Entry(key) == Picked(entries, {i \in DOMAIN entries : entries[i].key = key})

\* _owned_keep
Keep(entry) ==
  LET all == Append(entries, entry)
  IN SubSeq(all, IF Len(all) > Kept THEN Len(all) - Kept + 1 ELSE 1, Len(all))

\* Cancellation.set and reason(): what came first counts.  Nobody asks what
\* became of a legacy turn.
Stopped(record, cause) ==
  IF record.owner = Legacy THEN record ELSE
  [record EXCEPT !.why = IF @ = "none" THEN "cancelled" ELSE @,
                 !.ended = IF @ = "none" THEN cause ELSE @]

\* owned_end, which only an owned turn has.
Marked(record, end) ==
  IF end = NoEnd \/ record.owner = Legacy THEN record ELSE [record EXCEPT !.end = end]

\* _cancel_speech of the current turn, whose caller left its reason in owned_end.
Cancelled(turns, cause, end) ==
  IF speech = NoTurn THEN turns
  ELSE [turns EXCEPT ![speech] = Stopped(Marked(@, end), cause)]

Released == IF speaking = speech THEN NoTurn ELSE speaking

Cancel(cause, end) ==
  /\ turn' = Cancelled(turn, cause, end)
  /\ speech' = NoTurn /\ left' = 0 /\ speaking' = Released

-----------------------------------------------------------------------------
(* Owned requests.                                                         *)

Busy == speech # NoTurn \/ listening \/ speaking # NoTurn

\* Mutant: what was asked before is not looked up.
AskAlways(key, sig) ==
  /\ Idle /\ ~Busy /\ number < MaxTurns
  /\ op' = [stage |-> "prepare", key |-> key, sig |-> sig, turn |-> number + 1]
  /\ number' = number + 1
  /\ UNCHANGED <<instance, entries, turn, speech, left, speaking, listening, given>>

\* _owned_speak before _op_speak: a token that is not known, in silence.  For one
\* that is, the reply is its result, or a refusal for another signature, and
\* nothing changes.
Ask(key, sig) ==
  /\ Idle /\ ~Busy /\ number < MaxTurns
  /\ Entry(key) = <<>>
  /\ op' = [stage |-> "prepare", key |-> key, sig |-> sig, turn |-> number + 1]
  /\ number' = number + 1
  /\ UNCHANGED <<instance, entries, turn, speech, left, speaking, listening, given>>

\* The engine cannot be made, or its probe or the budget refuses.  The second
\* look at other audio is the guard of Admit: nothing can begin in between.
PrepareFails ==
  /\ ~Idle
  /\ op' = NoOp
  /\ UNCHANGED <<instance, number, entries, turn, speech, left, speaking, listening, given>>

\* No speakable text: completed on admission.
NothingToSay ==
  /\ ~Idle /\ number < MaxTurns
  /\ number' = number + 1
  /\ entries' = Keep([key |-> op.key, sig |-> op.sig, turn |-> NoTurn])
  /\ op' = NoOp
  /\ UNCHANGED <<instance, turn, speech, left, speaking, listening, given>>

\* claim() under the lock of _prepare_speech, and what can follow it: the
\* worker starts; the player's cleanup is still in flight (DaemonBusy); the
\* system refuses the thread.  The result is kept in each case.
Admit(how) ==
  /\ ~Idle /\ ~Busy
  /\ LET t == op.turn
         claimed == [NoSuchTurn EXCEPT !.owner = op.key[1], !.key = op.key,
                                       !.volume = op.sig \in Adjustable]
     IN /\ entries' = Keep([key |-> op.key, sig |-> op.sig, turn |-> t])
        /\ turn' = [turn EXCEPT ![t] =
                      CASE how = "starts"  -> [claimed EXCEPT !.pc = "run"]
                        [] how = "cleanup" -> claimed
                        [] how = "thread"  -> Stopped(claimed, "stop")]
        /\ IF how = "starts"
           THEN speech' = t /\ left' = Lease /\ speaking' = t
                /\ given' = given \cup {[key |-> op.key, token |-> Token(t)]}
           ELSE UNCHANGED <<speech, left, speaking, given>>
  /\ op' = NoOp
  /\ UNCHANGED <<instance, number, listening>>

\* _owned_status: the owner of the current turn renews its lease.
OwnedStatus(key) ==
  /\ Idle
  /\ \E i \in DOMAIN Entry(key) :
       /\ Entry(key)[i].turn # NoTurn /\ Entry(key)[i].turn = speech
       /\ left' = Lease
  /\ UNCHANGED <<instance, number, entries, turn, speech, speaking, listening, op, given>>

\* The turn that an owner names is the current one, and its own.
Current(owner, token) ==
  /\ speech # NoTurn
  /\ turn[speech].owner = owner
  /\ Token(speech) = token

\* _owned_stop; anything else is answered `stopped: false`.
OwnedStop(owner, token) ==
  /\ Idle /\ Current(owner, token)
  /\ Cancel("stop", NoEnd)
  /\ UNCHANGED <<instance, number, entries, listening, op, given>>

\* _owned_volume
OwnedVolume(owner, token) ==
  /\ Idle /\ Current(owner, token) /\ turn[speech].volume
  /\ left' = Lease
  /\ UNCHANGED <<instance, number, entries, turn, speech, speaking, listening, op, given>>

-----------------------------------------------------------------------------
(* Other requests, the tick, the workers, and the daemon's end.             *)

\* Mutant: the turn is marked after it was cancelled, when it is nobody's.
LegacySpeakMarksLate(starts) ==
  /\ Idle /\ number < MaxTurns
  /\ starts => ~listening /\ Released = NoTurn
  /\ number' = number + 1
  /\ turn' = LET before == Cancelled(turn, "replaced", NoEnd)
             IN IF starts THEN [before EXCEPT ![number + 1].pc = "run"] ELSE before
  /\ left' = 0
  /\ IF starts THEN speech' = number + 1 /\ speaking' = number + 1
               ELSE speech' = NoTurn /\ speaking' = Released
  /\ UNCHANGED <<instance, entries, listening, op, given>>

\* A legacy speak: it supersedes what is current, and starts, unless the
\* cleanup of what it replaced is still in flight, its predecessor's claim is
\* not returned, or there is a dictation.
LegacySpeak(starts) ==
  /\ Idle /\ number < MaxTurns
  /\ starts => ~listening /\ Released = NoTurn
  /\ number' = number + 1
  /\ turn' = LET before == Cancelled(turn, "replaced", "superseded")
             IN IF starts THEN [before EXCEPT ![number + 1].pc = "run"] ELSE before
  /\ left' = 0
  /\ IF starts THEN speech' = number + 1 /\ speaking' = number + 1
               ELSE speech' = NoTurn /\ speaking' = Released
  /\ UNCHANGED <<instance, entries, listening, op, given>>

\* stop-speech
StopSpeech ==
  /\ Idle /\ speech # NoTurn
  /\ Cancel("stop", NoEnd)
  /\ UNCHANGED <<instance, number, entries, listening, op, given>>

\* A dictate barges in, and takes the speakers from a worker that has yet to
\* return them; an owned-dictate is refused while anything speaks.
Dictate(owned) ==
  /\ Idle /\ ~listening
  /\ owned => speaking = NoTurn
  /\ listening' = TRUE
  /\ turn' = Cancelled(turn, "stop", NoEnd)
  /\ speech' = NoTurn /\ left' = 0 /\ speaking' = NoTurn
  /\ UNCHANGED <<instance, number, entries, op, given>>

DictationEnds ==
  /\ listening
  /\ listening' = FALSE
  /\ UNCHANGED <<instance, number, entries, turn, speech, left, speaking, op, given>>

\* Time passes for the lease of the current turn ...
Tick ==
  /\ speech # NoTurn /\ left > 0
  /\ left' = left - 1
  /\ UNCHANGED <<instance, number, entries, turn, speech, speaking, listening, op, given>>

\* ... and _check_idle, between two requests, ends a turn whose lease is over.
Expire ==
  /\ Idle
  /\ speech # NoTurn /\ turn[speech].owner # Legacy /\ left = 0
  /\ Cancel("silence", "expired")
  /\ UNCHANGED <<instance, number, entries, listening, op, given>>

\* The request's own deadline passes before anything stopped the turn.
Deadline(t) ==
  /\ turn[t].pc \in {"run", "left"} /\ turn[t].why = "none" /\ turn[t].owner # Legacy
  /\ turn' = [turn EXCEPT ![t].why = "deadline", ![t].ended = "deadline"]
  /\ UNCHANGED <<instance, number, entries, speech, left, speaking, listening, op, given>>

\* _run_speech gives up being current, ...
Leave(t) ==
  /\ turn[t].pc = "run"
  /\ turn' = [turn EXCEPT ![t].pc = "left"]
  /\ speech' = IF speech = t THEN NoTurn ELSE speech
  /\ left' = IF speech = t THEN 0 ELSE left
  /\ UNCHANGED <<instance, number, entries, speaking, listening, op, given>>

\* ... settles, by a failure, which may be a synthesis that the budget cut while
\* something else stopped the turn, or by what its token says, ...
Settle(t, failure) ==
  /\ turn[t].pc = "left"
  /\ turn[t].owner = Legacy => failure = "none"
  /\ turn' = [turn EXCEPT ![t].pc = "settled",
                          ![t].outcome = IF failure # "none" THEN failure
                                         ELSE IF turn[t].why = "none" THEN "completed"
                                         ELSE turn[t].why]
  /\ UNCHANGED <<instance, number, entries, speech, left, speaking, listening, op, given>>

\* ... and returns the speakers.
Return(t) ==
  /\ turn[t].pc = "settled"
  /\ turn' = [turn EXCEPT ![t].pc = "done"]
  /\ speaking' = IF speaking = t THEN NoTurn ELSE speaking
  /\ UNCHANGED <<instance, number, entries, speech, left, listening, op, given>>

\* The daemon ends and another begins; what clients were told is theirs.
Restart ==
  /\ instance <= MaxRestarts
  /\ instance' = instance + 1
  /\ number' = 0 /\ entries' = <<>>
  /\ turn' = [t \in Turns |-> NoSuchTurn]
  /\ speech' = NoTurn /\ left' = 0 /\ speaking' = NoTurn /\ listening' = FALSE
  /\ op' = NoOp
  /\ UNCHANGED given

Renew(t) ==
  /\ speech = t
  /\ \/ \E key \in Keys : OwnedStatus(key)
     \/ \E g \in given : OwnedVolume(g.key[1], g.token)

Next ==
  \/ \E key \in Keys, sig \in Signatures : Ask(key, sig)
  \/ PrepareFails \/ NothingToSay
  \/ \E how \in {"starts", "cleanup", "thread"} : Admit(how)
  \/ \E key \in Keys : OwnedStatus(key)
  \/ \E g \in given : OwnedStop(g.key[1], g.token) \/ OwnedVolume(g.key[1], g.token)
  \/ \E starts \in BOOLEAN : LegacySpeak(starts)
  \/ \E owned \in BOOLEAN : Dictate(owned)
  \/ StopSpeech \/ DictationEnds \/ Tick \/ Expire \/ Restart
  \/ \E t \in Turns : Deadline(t) \/ Leave(t) \/ Return(t)
  \/ \E t \in Turns, failure \in {"none", "failed", "deadline"} : Settle(t, failure)

Spec == Init /\ [][Next]_vars

\* Time passes, a request is finished and the tick follows it.  No client has
\* to come back, and no read has to end.
Finish == PrepareFails \/ NothingToSay \/ Admit("starts")
Fairness == WF_vars(Tick) /\ SF_vars(Expire) /\ WF_vars(Finish)

FairSpec == Spec /\ Fairness

-----------------------------------------------------------------------------
(* Properties.                                                             *)

\* _owned_payload's state of a result.
Reported(entry) ==
  IF entry.turn = NoTurn THEN "completed"
  ELSE LET t == turn[entry.turn]
       IN CASE t.outcome = "none"                      -> "active"
            [] t.outcome = "deadline"                  -> "expired"
            [] t.outcome = "cancelled" /\ t.end # NoEnd   -> t.end
            [] OTHER                                   -> t.outcome

\* An utterance names one request while its result is kept, a retry starts
\* nothing, and the result of the turn that plays is never the one that is
\* dropped: its owner could neither follow it nor keep its lease.
OneTurnEach ==
  /\ \A i, j \in DOMAIN entries : entries[i].key = entries[j].key => i = j
  /\ speech # NoTurn /\ turn[speech].owner # Legacy =>
       \E e \in ToSet(entries) : e.turn = speech /\ e.key = turn[speech].key

ResultsStay ==
  [][instance' = instance =>
       \A e \in ToSet(entries), f \in ToSet(entries') : e.key = f.key => e = f]_vars

\* A stop silences the utterance it was given for, also when it arrives late,
\* after a successor began, or after the daemon was restarted.
StopHitsItsOwn ==
  [][\A g \in given : OwnedStop(g.key[1], g.token) => g.key = turn[speech].key]_vars

\* What an owner is told of a turn is what came of it: that it was replaced by
\* a legacy speak, that it expired by its lease or its deadline, that it was
\* stopped, or that nothing ended it; a lost lease is never called a stop.
ToldWhy ==
  \A e \in ToSet(entries) : e.turn # NoTurn =>
    LET t == turn[e.turn]
    IN CASE Reported(e) = "superseded" -> t.ended = "replaced"
         [] Reported(e) = "expired"    -> t.ended = "silence" \/ t.outcome = "deadline"
         [] Reported(e) = "cancelled"  -> t.ended = "stop"
         [] Reported(e) = "completed"  -> t.ended = "none"
         [] OTHER                      -> TRUE

\* A turn whose owner no longer renews its lease does not go on speaking.
OwnerLossEnds ==
  \A t \in Turns :
    []<><<Renew(t)>>_vars \/ []<>(speech # t \/ turn[t].owner = Legacy)

\* A result that is not final belongs to a turn that a worker will settle.
ActiveIsRunning ==
  \A e \in ToSet(entries) :
    Reported(e) = "active" => turn[e.turn].pc \in {"run", "left"}
=============================================================================
