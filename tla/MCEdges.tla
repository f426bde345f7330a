------------------------------ MODULE MCEdges ------------------------------
(***************************************************************************)
(* The edges of the daemon: the lock and the socket of its session, the    *)
(* bytes of a request and a reply, descriptors it reads for others, the    *)
(* files it is asked to trust, the settings it shares with other programs, *)
(* the children it starts and ends, and its account of the jobs it         *)
(* accepted.  The machines share no state, so a run takes one of them and  *)
(* leaves the others where they begin.                                     *)
(***************************************************************************)
EXTENDS SessionLock, Sequences, TLC

CONSTANTS
  MaxRequest, MaxReply, MaxProse, Marker, Skeleton, MaxAudio, Header,
  RequestSizes, ProseSizes, FieldSizes, CharSizes, Times, Lengths,  \* Wire
  N, MaxInFlight, MaxStalled, Limit, Block, MaxSize, Growing,       \* Ingest
  Agreed, Other, Files, Racy, Lag, MaxHash, MaxClock, MaxWrites, Restores, \* HeldPayload
  Numbers, Members,                                                 \* ProcessGroup
  Launches, MaxFailures,                                            \* Launch
  Jobs, Outcomes, MaxEntries,                                       \* JobLedger
  Programs, OwnKeys, OtherKeys, Values, Documents                   \* Settings

ASSUME EdgesAssumption ==
  /\ {MaxRequest, MaxReply, MaxProse, Marker, Skeleton} \subseteq Nat \ {0}
  /\ Skeleton <= MaxReply /\ CharSizes \subseteq 1..6
  /\ ProseSizes \cup FieldSizes \cup Times \subseteq Nat
  /\ {MaxInFlight, MaxStalled, Block} \subseteq Nat \ {0}
  /\ {N, Limit, MaxSize, MaxFailures, MaxEntries} \subseteq Nat /\ Growing \subseteq 1..N
  /\ Files \subseteq Nat \ {0} /\ Agreed \notin Other
  /\ {Racy, Lag, MaxHash} \subseteq Nat /\ Lag <= Racy /\ Restores \in BOOLEAN
  /\ Numbers \subseteq Nat /\ Members \subseteq Nat /\ 1 \in Numbers \cap Members

VARIABLES
  part,
  wireAt, raw, msg, request, reply, frame,
  ingestAt, source, helper, got, result, abandoned, fds, answer, slots, stalled,
  clock, content, ctime, past, path, writes, cache, at, hash, held, snap, taken, loaded,
  kernel, proc, killed, groupAt, previous, members, deadBefore, complete, left, listed, births,
  counted,
  launchAt, child, said, channel, admitted, pending, worker, retried, failures,
  entries, begun, settled,
  target, readable, link, step, change, text, temporary, overlap

wireVars == <<wireAt, raw, msg, request, reply, frame>>
ingestVars == <<ingestAt, source, helper, got, result, abandoned, fds, answer, slots, stalled>>
payloadVars == <<clock, content, ctime, past, path, writes, cache, at, hash, held, snap, taken,
                 loaded>>
groupVars == <<kernel, proc, killed, groupAt, previous, members, deadBefore, complete, left, listed,
               births, counted>>
launchVars == <<launchAt, child, said, channel, admitted, pending, worker, retried, failures>>
ledgerVars == <<entries, begun, settled>>
settingsVars == <<target, readable, link, step, change, text, temporary, overlap>>
edgesVars == <<part, vars, wireVars, ingestVars, payloadVars, groupVars, launchVars, ledgerVars,
               settingsVars>>

\* A document is empty, or ours with a blank line at its end; or it assigns a
\* key twice, and a third time behind a form feed; or it is foreign, with bytes
\* that are not UTF-8 and the line ends of another system.
Spelt(key, value, how) == [key |-> key, value |-> value, spelt |-> how]
Plain(key, value) == Spelt(key, value, {})
Found ==
  { <<>>,
    <<Plain("#", "none"), Plain("# -- Kilix voice --", "none"), Plain("k", "y"),
      Plain("blank", "none")>>,
    <<Plain("#", "none"), Plain("k", "x"), Plain("f", "x"), Plain("k", "y")>>,
    <<Plain("k", "x"), Spelt("k", "y", {"hidden"}), Plain("f", "x")>>,
    <<Spelt("f", "y", {"bytes"}), Spelt("blank", "none", {"return"}),
      Spelt("#", "none", {"return"})>> }

Protocol == INSTANCE Wire WITH at <- wireAt
Descriptors == INSTANCE Ingest WITH at <- ingestAt
Payload == INSTANCE HeldPayload
Group == INSTANCE ProcessGroup WITH at <- groupAt, seen <- listed, Pids <- Numbers,
                                    Procs <- Members
Spawning == INSTANCE Launch WITH at <- launchAt, taken <- retried
Ledger == INSTANCE JobLedger
Shared == INSTANCE Settings WITH Writers <- Programs

ASSUME OutcomesAssumption == {"none", "running"} \cap Outcomes = {}

ASSUME DocumentsAssumption == Documents \subseteq Seq(Shared!Lines)

EdgesInit ==
  /\ Init
  /\ part \in {"session", "wire", "ingest", "payload", "group", "launch", "ledger",
              "settings"}
  /\ Protocol!Init /\ Descriptors!Init /\ Group!Init /\ Spawning!Init /\ Ledger!Init
  /\ Payload!Init /\ Shared!Init
  /\ part # "settings" => target = Shared!NoFile
  /\ part # "session" => \A p \in Procs : pid[p] = CHOOSE i \in Pids : TRUE
  /\ part # "group" => kernel = "group"
  /\ part # "payload" => path = 1 /\ content = [f \in Files |-> Agreed] /\ ctime[1] = 0

EdgesNext ==
  \/ /\ part = "session" /\ Next
     /\ UNCHANGED <<part, wireVars, ingestVars, payloadVars, groupVars, launchVars, ledgerVars,
                    settingsVars>>
  \/ /\ part = "wire" /\ Protocol!Next
     /\ UNCHANGED <<part, vars, ingestVars, payloadVars, groupVars, launchVars, ledgerVars,
                    settingsVars>>
  \/ /\ part = "ingest" /\ Descriptors!Next
     /\ UNCHANGED <<part, vars, wireVars, payloadVars, groupVars, launchVars, ledgerVars,
                    settingsVars>>
  \/ /\ part = "payload" /\ Payload!Next
     /\ UNCHANGED <<part, vars, wireVars, ingestVars, groupVars, launchVars, ledgerVars,
                    settingsVars>>
  \/ /\ part = "group" /\ Group!Next
     /\ UNCHANGED <<part, vars, wireVars, ingestVars, payloadVars, launchVars, ledgerVars,
                    settingsVars>>
  \/ /\ part = "launch" /\ Spawning!Next
     /\ UNCHANGED <<part, vars, wireVars, ingestVars, payloadVars, groupVars, ledgerVars,
                    settingsVars>>
  \/ /\ part = "ledger" /\ Ledger!Next
     /\ UNCHANGED <<part, vars, wireVars, ingestVars, payloadVars, groupVars, launchVars,
                    settingsVars>>
  \/ /\ part = "settings" /\ Shared!Next
     /\ UNCHANGED <<part, vars, wireVars, ingestVars, payloadVars, groupVars, launchVars,
                    ledgerVars>>

\* The daemons of a session differ in nothing; no property is of liveness.
Symmetry == Permutations(Procs)

EdgesSpec == EdgesInit /\ [][EdgesNext]_edgesVars

-----------------------------------------------------------------------------
(* Properties.  OneOwner, ServedSocketIsOwn and RefusedByTheLiving are the   *)
(* session's own.                                                          *)

\* Of the protocol: a reply is sent whole, within a frame, or cut where it may
\* be cut; nothing is left unanswered because it would not fit.
ReplyFits == Protocol!ReplyFits

\* Of the protocol: a handler is given the fields of its op, each checked, and
\* a refusal names the first field that is wrong; the datagrams of a dictation
\* and of a chunk are built only of values that are consistent with each other.
BuiltIsTrue == Protocol!RequestIsClosed /\ Protocol!DatagramsAreTrue

\* Of ingest: the reads left to themselves are counted exactly, a request that
\* is over leaves no descriptor and no slot behind, and a read is of
\* everything, within the limit, or refused.
IngestIsAccounted ==
  [](Descriptors!StalledIsExact /\ Descriptors!NothingIsLeft) /\ Descriptors!WholeOrRefused

\* Of consent to a model: a digest that is remembered is that of the bytes,
\* and a recogniser loads the bytes that were agreed to.
LoadsTheAgreed == Payload!CacheIsTrue /\ Payload!LoadsTheAgreed

\* Of kill_group: it answers that a group is gone only when it is, and no
\* process of somebody else is ever signalled.
GroupIsGone == Group!NoSurvivor /\ Group!StrangersAreSafe

\* Of launching: a child that may run a command belongs to somebody who ends
\* it, and none runs one before it is known to be the child.
NothingStranded == Spawning!NothingStranded

\* Of the ledger: a job is found running until it settles, and then as it did.
LedgerIsTrue == Ledger!LedgerIsTrue

\* Of the shared settings: what is read is a whole document, whoever fails or
\* dies, and an update that no other overlapped edits one line of its key, or
\* adds one, and writes every other back as it was decoded.
SettingsAreKept ==
  [](Shared!DocumentIsWhole /\ Shared!NoLitter) /\ Shared!OnlyTheKeyChanges

\* What audiofd.py and settings.py say of themselves, and TLC refutes: the reads
\* left to themselves are few, an update leaves every other line untouched, and
\* an update takes effect.
StalledAreFew == Descriptors!StalledAreFew
SurvivesUntouched == Shared!SurvivesUntouched
UpdateTakesEffect == Shared!UpdateTakesEffect
=============================================================================
