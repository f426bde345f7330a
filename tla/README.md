# Verification of kilix-voice

TLA+ models of the kilix-voice daemon (`kilix-voiced`) and the library it is
built on (`voicelib/`), checked with TLC on small instances and proved with
TLAPS where a proof says more. This file is the inventory of the system, the
plan of the project, and the guide to its modules, runs and theorems.

## 1. The system

kilix-voice is a per-user voice service. `kilix-voiced` listens on a private
Unix socket and runs one read-aloud job and one dictation job at a time;
`kilix-stt` and `kilix-tts` are its clients and also run their own recordings
and exports, the document reader and the desktop's system voice use the
library directly. Everything that touches a device, a model or a child process
sits in `voicelib/`.

Threads and processes, and what they share:

| actor | what it does | meets the others at |
| --- | --- | --- |
| accept loop | reads one control request at a time, answers it, checks idleness between requests | every turn, the arbiter, the registry |
| dictation worker | records, recognises and delivers one turn | the turn's settle, progress and capture locks |
| receiver watcher | polls the receiver's socket | settle lock, capture lock |
| speech worker | synthesises clip by clip, plays or publishes | daemon lock, settle lock, the player |
| player worker | plays queued clips through one child | the player's lock |
| capture reader | moves PCM from the recorder's pipe to a bounded queue | the queue |
| microphone owner, its watcher, the supervisor process | hold the device for a client, reap what the recorder leaves | the lease, a channel, the processes |
| cleanup threads | close one retained resource each | the registry's lock |
| ingest threads and their helpers | check one descriptor of audio each | an in-flight counter, audiofd's slots |
| synthesis owner, provider children | a child that is written to and read from under a budget | the owner's lock, pipes |
| failed-launch worker | ends children whose launch failed half way | the set of failed launches |
| signal, shutdown | stop every turn, close every owner | everything |
| other programs | write the consent record, the settings, model files | atomic renames, one lock file |

Requests are handled one at a time by the accept loop, except `ingest-audio`,
which gets a thread of its own. Locks are taken in a fixed order: the daemon's
`_lock` (re-entrant), then the arbiter's, then the player's; `_cleanup_lock`
guards the registry alone; each turn has its settle, progress and capture lock.

### Components, their state and operations

| component | state | operations | what is hard about it | what makes it correct |
| --- | --- | --- | --- | --- |
| dictation turn (`_DictationTurn`, `_run_dictation`, `_record`, `_deliver_terminal`) | stop token, abort flag, outcome, recorder, receiver, locks | dictate, stop-dictation (finish, abort), record/feed/decode/deliver, watch the receiver | a stop, an abort, the deadline, the receiver's loss and shutdown meet the worker at any step | one terminal; no words after an acknowledged abort; quiesced means quiet; the recorder is closed before the words leave and never unclaimed; every cause ends the turn |
| read-aloud turn (`_SpeechTurn`, `_run_speech`) | stop token, clips, failure, outcome; `_speech`, `_player` | speak, stop-speech, barge-in by dictate, synthesise/play/publish | an outdated worker outlives its turn; player and engine are closed under it | only the current turn is heard; nothing after a stop; the speakers' claim is returned |
| arbiter (`arbiter.Arbiter`) | speaking, listening | begin/end speak/listen | claims are checked by one thread and returned by others | half-duplex |
| owned turns (`owned.py`, `_op_owned_*`) | tokens, retained results, the lease | owned-speak, refresh, stop, status, expiry, restart | a lost reply is retried, a token is late, a lease runs out within a stop | a token names one request; a stop silences its own turn only; the owner is told what ended it |
| session lock and socket | lock file, socket path, pids | acquire, take over, release, bind, unlink | several processes, kills, reused pids, path races | one owner; the socket leads to it |
| control protocol (`protocol.py`) | none | decode, validate, build a reply, a datagram | escaping changes sizes at the bounds | a reply always fits; a handler sees checked fields only |
| audio ingest (`audiofd.py`, `audio_input.py`, `_hand_off`) | slots, stalled reads, descriptors | hand off, read, abandon, answer | a read ends while its caller gives up | exact counts, no leaked descriptor, all the bytes or a refusal |
| resource lifecycle (`lifecycle.Resource`) | counts, requested, disposing, state, child | start, use, publish, close, request_close, escalate | a child is allocated outside every lock while a close runs | no disposal in use, one disposal, closed is proven |
| cleanup registry (`_register_cleanup` ...) | owners, state objects, pending set, grants | register, prepare, claim, attempt, retry, shutdown | stale callers, failed attempts, no threads, shutdown half-way | nothing that runs is lost, one attempt at a time, a grant is given back after proof only |
| process groups (`processes.py`, `process_launch.py`) | leader, members, failed launches | launch, kill, reap, retry | forks and reused pids during a scan; a launch that fails late | nothing outside the group is signalled, nothing is left, no child is stranded |
| speech text (`tts.condition_text`, `SentenceChunker`) | buffer | condition, feed, flush | a sentence cut by a feed, an abbreviation, a bracket | what is spoken is the text, once and in order, in bounded clips |
| speech engines (`tts.py`, `qwen_provider.py`, `SynthesisOwner`) | the child, the budget, the tier | synthesise, probe, fall back, cancel, close | a child that hangs, a late failure and a second attempt | a clip names its voice, a call keeps its budget |
| player (`audio.Player`) | queue, pending, worker, sink, generation | play, stop, close | the stop meets the launch; the close meets the queue | counted exactly, silent after a stop, silent when closed |
| document reader | passage, job, player | read, pause, next, stop, settings | a passage is finished after a jump | what is heard is what is highlighted; reading goes on |
| system voice (`system_voice.py`, `shutdown.py`) | inhibitor, bus | goodbye, release, take again | a shutdown is cancelled, or follows within a clip | the delay is returned and taken again |
| capture queue (`audio.MicCapture`) | bounded queue, sentinel, reader | start, read, stop | a full queue at the end of the stream | losses are counted, readers end |
| managed capture (`microphone*.py`, `managed_audio.py`) | lease, supervisor, proof | start, stop, watch, quarantine | any process dies at any step | the device is passed on only when silent |
| voice activity detection (`vad.py`) | floor, window, runs | feed, suppress, reset | a floor that climbs with speech | the floor is the room's |
| recognition engines (`stt.py`) | buffer, child, segments | begin, feed, finish, abandon, close | late replies, abandoned turns | the text is the turn's |
| consent (`consent.py`, `_HeldPayload`) | record, digests, held files | grant, revoke, adopt, check, load | overlapping writers, a file rewritten in the tick it was hashed | other grants are kept; what is loaded is what was agreed to |
| job ledger (`jobs.JobLedger`) | bounded ordered history | begin, record, mark_delivered, evict | a settle before the begin | a running job is never lost |
| settings (`settings.py`) | one shared document | update | other programs write it, a writer dies | always whole; other keys are kept |

The hazards behind these columns, each at its line, are the list `hazards` of
`PROJECT.json`.

## 2. Plan

Order: what a user would notice first (a turn that records after it was told to
stop) comes first, then what every turn rests on, then the edges.

| step | modules | what for | state |
| --- | --- | --- | --- |
| 1 | `JobContract` (abstract), `Dictation`, `MCDictation`, `DictationProofs`, `TurnsProofs` | a dictation turn and what it promises | done, its safety proved |
| 2 | `SessionLock` | one daemon per session | done, proved for serial starts |
| 3 | `ResourceLifecycle` | closing one resource | done, proved |
| 4 | `CleanupRegistry`, `MCCleanupRegistry`, `RegistryProofs` | who owns what is to be closed | done, proved |
| 5 | `Player`, `Speech`, `SpeechProofs` | queued playback and the read-aloud turns | done, its safety proved |
| 6 | `SpeechText`, `Synthesis`, `Reader`, `OwnedTurns`, `SystemVoice`, `MCReading`, `ReadingProofs` | reading aloud, from the text to the loudspeaker | done, its safety proved |
| 7 | `Capture`, `Microphone`, `Vad`, `VoskTurn`, `Recogniser`, `ConsentRecord`, `MCHearing`, `HearingProofs` | listening, from the microphone to the text | done, its safety proved |
| 8 | `Wire`, `Ingest`, `HeldPayload`, `ProcessGroup`, `Launch`, `JobLedger`, `Settings`, `MCEdges`, `EdgesProofs` | the daemon's edges | done, its safety proved |
| 9 | `Filter`, `FilterProofs` | filtering a sequence, which many of the others do | done, proved |
| 10 | the send guard, the idle timer, device admission, `daemon_config` | what is left of partly modelled components | not modelled, section 7 |

How the modules go together. `JobContract` is the abstract specification of one
job; `Dictation` implements it with `aborted <- AbortAcked`, and `Speech` once
for every turn with `sent <- Terminals(t)`. `Speech` composes the read-aloud
turns with the arbiter and with a dictation reduced to when it takes and
returns the microphone; of a player it keeps who sounds (`Player` is the
detail), and of the registry that a pending player gets closed some time or
never (`CleanupRegistry` is the detail). `OwnedTurns` puts the owner's tokens,
lease and retries on top of that, keeping of a turn who is current, what its
token says and when its worker leaves. `CleanupRegistry` takes from
`ResourceLifecycle` that a close proves the teardown or does not, and that a
resource that was requested to close launches nothing more. `Player` and
`Capture` take from it the counting of users and the bounded drain.
`HeldPayload` is the check that `ConsentRecord`'s digests are bound to.

`MCReading`, `MCHearing` and `MCEdges` put machines of one area side by side:
they share no state, a variable `part` chooses at the start which of them runs,
and the others stay where they begin. A property of such a run says of every
machine what a reader wants to know of the area (`ReadsOn` is that the player
plays on and that the reader reads on); its comment names the machines, and each
conjunct is a property of the machine's own module. No fair action of a machine
is enabled at its beginning, so the fairness of one machine asks nothing of a
behaviour of another.

## 3. The modules

Every variable and action names the code it stands for in its comment;
`PROJECT.json` maps each definition to its lines. A lock that is held across
steps is read off the program counters of its holders; a block under a lock
that nobody can see into is one step.

### Turns

**JobContract.** A job has an outcome, what was sent, and whether an abort of it
was acknowledged. `AcceptAbort`, `Settle`, `Send`.

**Dictation.** One turn. `pc` is the worker's place in `_run_dictation` /
`_record_turn` / `_record` / `_deliver_terminal`; `stopPc` the accept loop's in
`_op_stop_dictation`; `watch` the receiver watcher's; the rest of the actors
(`Expire`, `ReceiverDies`, `OwnedLeaseExpires`, `OwnedStop`, `Shutdown`,
`ShutdownCloses`, `ShutdownCleanup`) act at any time. Exceptions are the
variable `raised`, by the terminal they turn into. `Owned` chooses between
`_dictate` and the owned variant, whose recorder opens before its recogniser.
Audio, the words, the text of messages and the VAD are left out: each frame may
or may not lead to a feed, each feed to a partial, each call may fail.

**Speech.** The turns `1 .. N` in the order they are asked for, the accept loop
(`op`), the arbiter's two claims, the current turn, a player per turn that made
one (`player` is the daemon's), and each worker's place. The daemon's lock is
`Locked`: `_prepare_speech` keeps it while it cancels, registers and retries.
`failure` is what ended a turn and what its terminal is derived from, `sent`
what its subscriber got. Texts, chunks' content, descriptors and what `status`
reports of a read are left out.

**OwnedTurns.** `entries` are the results `owned.py` keeps, `turn` what became
of each turn, `speech` the current one, `left` the lease in ticks, `instance`
the daemon that runs (a restart forgets everything but the tokens the clients
hold). Only the preparation of an engine is outside the lock, so an
`owned-speak` has three steps and every other request one. Text, voice, rate
and volume are a signature.

**JobLedger.** The bounded table, and what its three writers do to it in any
order: the handler that accepts a job, the worker that settles it, the delivery.

**Filter.** What is left of a sequence when only some places, or some values, are
kept (`Picked`, `Only`): a recursive function of how much of it was looked at,
used by `SpeechText`, `Player`, `OwnedTurns`, `JobLedger`, the
recognisers and `Speech`, so that one set of lemmas serves them all.

### What turns rest on

**ResourceLifecycle.** Threads over one resource. `inside` and `pc` say which
threads count as starters or users, so the counts cannot disagree with them;
that the code's counters agree is the matching `enter`/`leave` in `starting`,
`using` and `_publish`, which the actions follow. `Allocate` is outside every
lock, as in the code. The disposal (`MicCapture.stop` and the like) either
reaps the child or raises with the child killed.

**CleanupRegistry.** One logical slot with generations of keys; state objects
have identities, because stale callers hold on to them. `held` is what a turn
worker kept of a registration, `attempts` are the closings in flight, in the
worker's thread or in one a retry started. `own_provider`'s constructor claim is
`ClaimConstruction`/`PrepareConstruction`/`Constructed`. `Sweep` is
shutdown's pass over the registry. A resource told to refuse launches nothing
more, which is what `ResourceLifecycle` shows.

**Launch.** The constructor of a group leader, the launcher it starts and the
channel between them, and the set of failed launches with its worker. `said` is
what went over the channel, `admitted` that the child was proved to be ours.

**ProcessGroup.** The kill of a group on a kernel that does it in one call and
on one where members are scanned. A handle is a process, a number is only its
name for as long as it is not used again; members fork, die and are reaped at
every step of the scan.

### Reading aloud

**SpeechText.** `condition_text` and `SentenceChunker` over sequences of tokens.
A control or box-drawing run is a token, so that what the regular expressions
do to it is kept and their text is not. TLC runs them over every text of
`MaxRaw` tokens, cut into feeds in every way.

**Synthesis.** One engine, its owner's lock, its child and the caller's budget
in ticks: an attempt, the wait for the child, the kill, and the fallback with
what is left. Another thread may probe the provider through the same owner;
anyone may cancel or close. Time passes only while everybody waits within his
limit.

**Player.** The queue with the sentinel of `close`, the worker thread, its clip
and sink. Generations are abstracted to whether a clip is of the current one
(`new`) or was outdated by a stop (`old`). `lock` is the player's lock while it
is held across a thread's start or a sink's launch.

**Reader.** The document reader's loop (`Tick`), its one synthesis thread and
what the player says of itself. Commands arrive between ticks.

**SystemVoice.** The loop, the inhibitor's descriptor `fd`, the signals that wait
on the bus, and logind, which is external and modelled from how `shutdown.py`
uses it.

### Listening

**Capture.** Byte by byte from the recorder's pipe to whole frames in the queue;
three threads may put the sentinel, and a putter that finds the queue full takes
one item out and tries again, with the others in between.

**Microphone.** The owner in the daemon, the client that starts and stops it,
the supervisor process, the recorder and what it forked. Any of the processes
may be killed, the daemon too. `phase` is the lease's: held, released or
quarantined.

**Vad.** The detector over levels; the noise floor moves towards the quietest
frame of a window by any part of the way. `room` is the level of the quiet
frames, which the property is about.

**VoskTurn**, **Recogniser.** The streaming recogniser with libvosk as an external
that closes segments when it likes, and those that transcribe a whole utterance
through a child, kept across decodes or run for each. `said` are the words that
were fed, `result` the text that was returned.

**ConsentRecord.** The file, the lock file and each writer's place in a
read-modify-write; a killed writer gives up its lock and leaves its temporary.

### Edges

**SessionLock.** Processes, each started once, over a lock file and a socket
path; a file's identity (inode) is who created it. Each system call of
`acquire_session`, `_claim`, `_take_over_stale_lock`, `_bind`,
`_clear_stale_socket`, `_shutdown` and `release` is a step, and a process may be
killed between any two. `Age` is the grace period, `Recycle` the system handing
a dead daemon's pid to a stranger. `Serial` restricts starts to one at a time.

**Wire.** A request from its bytes to the fields a handler gets, and a reply from
its parts to a frame, with sizes in bytes and the real limits; `CharSizes` is
what one character may come to when it is escaped.
Prose and fields are their sizes.

**Ingest.** The accept loop, the request's thread, and the helper that reads the
descriptor and may be abandoned. `stalled` is audiofd's count: it is exact, and
bounded by `MaxStalled - 1 + MaxInFlight`, not by the `MAX_STALLED_READS` that
the module's words give (section 6).

**HeldPayload.** Files as inodes with a content and a ctime, the path as an inode;
`cache` is `fd_digest`'s memory, `snap` what `_HeldPayload` holds. A clock
stamps writes up to `Lag` late, a hash may take `MaxHash`, and a digest is
remembered when the file is `Racy` old.

**Settings.** `update` by several programs with nothing between them: the read of
the document, its new text, the temporary, the rename. A document is a sequence
of `Lines`: an assignment, a comment, the marker of our section or a blank line.
`spelt` says of a line what reading and writing change or overlook: it holds bytes
that are not UTF-8, it ends in a carriage return, what it held was replaced, or it
is an assignment that `parse_text` reads and `_set_value` does not find. `Read`
decodes a document as `read_text` does, `SetValue` edits or adds an assignment,
the rewrite of the section and of the blank lines at the end included, and what
was decoded is what is written back. The documents a run begins with are
`Documents`, a constant; `OtherKeys` are the keys of the other programs.

## 4. The runs

| run | what it checks | bounds |
| --- | --- | --- |
| `dictation` | `AbortInTimeIsCancelled`, `QuiescedStop`, `MicIsAlwaysAccounted`, `ImplementsContract`, `OrdinaryTurnsEnd`, `StopAnswered` | two stops of an ordinary turn, one of an owned turn whose recogniser may hang |
| `session_race` | `OneOwner` without an order on starts: violated | three daemons, one kill, three pids |
| `registry` | `NothingLost`, `OneCleanup`, `LeaseIsKept` | two resources, a provider with a grant and a plain one, two callers, three state objects |
| `registry_twice` | `OneCleanupOfProviders`: violated | one caller |
| `player_dies` | `PlayingMeansPlaying`: violated | four clips, two stops |
| `speech` | `OnlyTheCurrentSounds`, `SpeakersAreClaimed`, `StopIsHonoured` | two reads of a clip, one with a subscriber, one dictation |
| `speech_live` | `EveryTurnEnds` | a read of two clips and one of one |
| `speech_no_player` | `StopIsNoFault`: violated | two reads of a clip |
| `reading` | text: `SpokenIsTheText`; engine: `ClipsAreLabelled`, `CallsEnd`; player: `PlayerIsTrue`, `ReadsOn`; document: `HeardIsShown`, `ReadsOn`; owned: `RetriesAreHarmless`, `OwnersAreTold`; desktop: `DelayIsReturned` | five tokens and chunks of three; two clips, a probe and a budget of three ticks or none; four clips and two stops; three passages and five commands; two utterances, one result kept, one restart; three signals |
| `owned_refused` | `ActiveIsRunning`: violated | two utterances, one restart |
| `hearing` | resource: `ClosedIsProven`, `LateChildDies`, `CallsReturn`; queue: `LossIsCounted`, `CallsReturn`; managed: `CaptureEnds`; detector: `FloorIsTheRooms`; recognisers: `TextIsTheTurns`, `CallsReturn`; consent: `OthersAreKept` | three threads; seven bytes in frames of two and a queue of two; windows of three frames of five levels; two turns of three frames; three transactions of two processes |
| `edges` | session: `OneOwner`, `RefusedByTheLiving`; wire: `ReplyFits`, `BuiltIsTrue`; ingest: `IngestIsAccounted`; payload: `LoadsTheAgreed`; group: `GroupIsGone`; launch: `NothingStranded`; ledger: `LedgerIsTrue`; settings: `SettingsAreKept` | three daemons one after the other, one kill; the protocol's own limits; three requests, two of them at once; two files and two writes; three processes with three pids; two launches; four jobs in a table of two; two writers of two keys, five documents |

The composed properties are conjunctions of named properties of one area:
`MicIsAccounted` is `LossShutsMic` and `MicIsClaimed`; `TurnsEnd` is
`StopEndsTurn` and `LossEndsTurn`; `StopIsHonoured`, `SpeakersAreClaimed` and
the properties of `MCReading`, `MCHearing` and `MCEdges` are spelled out where
they are defined.

Every property of a passing run has a mutant, a definition whose comment begins
with `Mutant:`, which is a plausible bug of the code that the property catches.

### Why the bounds are enough

A turn's hazards are between its worker and one or two other steps: a second
stop sees everything the first one left, and a third one differs from the
second in nothing the code looks at. Two callers of the registry and one
attempt by a retry are the three parties that can meet at one resource; a third
state object is the one a stale caller holds while its key has been given to a
successor. Two clips give the queue a clip behind the one that plays, four with
two stops an outdated one in each place. Two reads make a predecessor and a
successor, and only neighbours share `_speech` and the player. Three daemons are
an owner, a starter that found it, and a third one whose lock either of them can
hit; they are interchangeable, which `edges` uses as a symmetry.

Five tokens are a sentence that ends inside a feed, with an abbreviation or a
bracket at the cut, and a word on either side. A budget of three ticks lets an
attempt fail after most of it, the fallback run with what is left, and both
named waits overrun. One result kept of two utterances is an eviction. A queue
of two with seven bytes overruns, and has a cut frame at the end. Two turns of
one recogniser make an abandoned one and its successor, three frames have words
on both sides of noise. In `payload`, clock and stamps are in units of half of
`RACY_SECONDS`: a clock that starts at five of them and runs four more lets
a file be written, hashed, written in the same tick, and hashed again once
settled. Three pids for three
processes are the leader, a member that survives a scan and a fork or a stranger
that takes a number given up meanwhile. In `wire` the sizes lie on both sides of
each limit, with a character that costs one byte and one that costs six.

The safety of most modules does not rest on these bounds: it is proved for all
values of the constants (section 5).

`MaxRaw`, `MaxClips`, `MaxProbes`, `MaxPlays`, `MaxStops`, `MaxCommands`,
`MaxTurns`, `MaxRestarts`, `MaxSignals`, `MaxBytes`, `MaxFrames`, `MaxOps`,
`MaxCrashes`, `MaxClock`, `MaxWrites`, `MaxFailures`, `Members` and `N` bound
what the world does, so a behaviour may come to its end: `CHECK_DEADLOCK FALSE`
is said for these runs. `registry`, `registry_twice`, `speech`,
`speech_live` and `speech_no_player` are checked for deadlock.

### Fairness

- `Dictation`: each thread runs (`WF` of the worker, of the accept loop's wait
  and decision, of the watcher). A feed of the recogniser returns, since a
  provider's child is bounded by timeouts; `StopAnswered` holds without that,
  and for the owned turn of `MCDictation` nothing is assumed of a feed. No
  recording has to end by itself, no receiver has to die, no stop has to come.
- `ResourceLifecycle`: a thread past its allocator and a close in progress go
  on. An allocator or a user of a running child may block for ever.
- `Player`: the worker runs while it can, and sinks end (their wait is bounded
  by 300 s); a close that was requested is repeated, which is what the registry's
  retries on each request and tick do.
- `Speech`: synthesis is bounded and clips end; the accept loop finishes the
  request it is on. No stop and no further request has to come.
- `Synthesis`: a caller goes on and the clock does; a child need never end.
- `Reader`: the loop ticks, a synthesis has a budget, a clip ends.
- `OwnedTurns`: time passes and a request is finished; the expiry
  runs between two requests, so it is asked for strongly: other requests may come
  in between, but not for ever without a tick of the loop. No client has to come
  back, and no read has to end.
- `SystemVoice`: the loop goes on; a clip and a chore are bounded by their own
  timeouts.
- `Capture`: the reader thread and each putter go on; the recorder need not say
  anything.
- `Microphone`: the watcher notices a stop and the supervisor's exit, its wait is
  bounded, and so is the client's. Nothing is asked of the supervisor or the
  recorder.
- `Recogniser`: the worker runs, each wait of an engine that is not closed has a
  deadline, a closer that asked goes on. The deadline of a closed engine is left
  out: the close has to end the wait by killing the child.
- `ConsentRecord`: whoever holds the lock goes on or is killed, and the kernel is
  fair to those who wait for it.

## 5. What is proved

All with TLAPS, without a bound on the constants.

| theorem | says |
| --- | --- |
| `DictationProofs!TypeCorrect`, `AbortSafe`, `QuiescedSafe`, `MicSafe`, `InTimeSafe`, `MicAccountSafe` | `TypeOK`, `AbortDiscardsWords` (which the contract contains), `QuiescedStop`, `MicShutBeforeFinal`, `AbortInTimeIsCancelled`, `MicIsAccounted` for both kinds of turn and any number of stops |
| `DictationProofs!Refinement` | `Spec => ImplementsContract` |
| `TurnsProofs!MicAlwaysSafe` | `MicIsAlwaysAccounted`: `MicIsAccounted` of the two kinds of turn that `MCDictation` runs side by side |
| `RegistryProofs!LostSafe`, `PendingSafe`, `OneCleanupSafe`, `RunningSafe`, `LeaseSafe`, `SweptSafe` | `NothingLost`, `PendingIsOwned`, `OneCleanup`, `RunningIsAttempted`, `LeaseIsKept`, `SweptIsShut` for any resources, callers and state objects |
| `SpeechProofs!SpeakersClaimed`, `CurrentSounds` | `SpeakersAreClaimed`, `OnlyTheCurrentSounds` for any number of reads, clips and dictations |
| `SpeechProofs!SilentAfterStop`, `StopHonoured` | `NothingAfterStop`, `StopIsHonoured`: the action properties of a stop, and that each turn implements `JobContract` |
| `ReadingProofs!ShownSafe`, `LabelsSafe`, `PlayerSafe`, `RetriesSafe` | `HeardIsShown`, `ClipsAreLabelled`, `PlayerIsTrue`, `RetriesAreHarmless` for any passages, budgets, clips, stops, owners, utterances and restarts |
| `ReadingProofs!TextSafe` | `SpokenIsTheText` for texts, budgets, clip lengths and portions of any size |
| `ReadingProofs!BudgetSafe` | `Synthesis!CallInBudget`, the safety of `CallsEnd` |
| `ReadingProofs!ToldSafe` | `OwnedTurns!ToldWhy`, the safety of `OwnersAreTold`, for any owners, utterances and restarts |
| `ReadingProofs!DelaySafe` | `SystemVoice!NextIsCovered` and `GoodbyeFirst`, the safety of `DelayIsReturned`, for any signals |
| `HearingProofs!DisposalSafe`, `ResourceClosed`, `ClosedStays` | `DisposalIsAlone`, `ClosedIsProven`, `ClosedForEver` for any set of threads |
| `HearingProofs!LossSafe` | `LossIsCounted` for any frame and queue size |
| `HearingProofs!FloorSafe` | `FloorIsTheRooms` for any levels, windows and rates of adapting |
| `HearingProofs!TextsSafe`, `ShownSafe` | `TextIsTheTurns`, of both kinds of recogniser, for any words and turns; `ShownIsTheTurn` of the streaming one |
| `HearingProofs!OthersSafe` | `OthersAreKept` for any writers, subjects and digests |
| `HearingProofs!ReleasedSafe` | `ReleasedIsSilent`, the safety of `CaptureEnds`, whoever is killed |
| `EdgesProofs!SerialOneOwner`, `SerialSocket` | `OneOwner`, `ServedSocketIsOwn` for any number of daemons, pids and kills, if starts do not overlap |
| `EdgesProofs!SerialRefusal` | `RefusedByTheLiving`, if in addition no daemon gets the pid of a killed one |
| `EdgesProofs!RepliesFit`, `BuiltTrue` | `ReplyFits`, `BuiltIsTrue` for any limits, sizes and costs of a character |
| `EdgesProofs!IngestAccounted` | `IngestIsAccounted` for any requests, slots, limits and growing sources |
| `EdgesProofs!GroupSafe`, `StrandedSafe` | `GroupIsGone` for any processes and pids, `NothingStranded` for any launches and failures |
| `EdgesProofs!LedgerTrue` | `LedgerIsTrue` for any jobs, outcomes and table size, under the bound `Timely` |
| `EdgesProofs!SettingsKept` | `SettingsAreKept` for any documents, keys and programs: whole documents, and edits of one line in a document as it was decoded |
| `EdgesProofs!AgreedBytes` | `LoadsTheAgreed`: `HeldPayload`'s `CacheIsTrue` and `LoadsTheAgreed` for any files, contents and clocks that meet `Conditions` |
| `FilterProofs!PickedPlaces`, `PickedOfConcat`, `PickedOfKept`, `OnlyOfConcat`, ... | what filtering a sequence returns, part by part |

A machine that shares its module of checks with others is proved about in the
composition: its theorem is of the composition's `Spec`, which the run checks.

The assumptions are the ones each module states on its constants
(`DictationAssumption`, `SessionAssumption`, `RegistryAssumption`,
`HearingAssumption`, `ReadingAssumption`, `EdgesAssumption`,
`DocumentsAssumption`, `OutcomesAssumption`): that counts, limits and times are numbers, that a limit
something has to fit into is not zero, that a character costs at least one byte
and at most six, that the least reply fits its own bound, that `Unbounded` is a
number above every budget, that the documents settings begin with are
sequences of lines, and that no job ends as "running" or "none". `Serial` is a
hypothesis of the session theorems, because without it they are false
(`session_race`); `Distinct` of the consent theorem says that
`None` is neither a writer nor a digest. `Conditions` of the
payload theorem is a real one: `Lag + MaxHash <= Racy`, that the lateness of a
stamp and the time a hash takes fit into `RACY_SECONDS`, and that no write
brings back bytes that a file had before; without the second a turn that is
overtaken by two writes loads bytes nobody agreed to and finds the agreed ones
again.

The properties proved and not checked by a run of their own
(`PendingIsOwned`, `RunningIsAttempted`, `SweptIsShut`, `DisposalIsAlone`,
`ClosedForEver`, `ServedSocketIsOwn`, `MicShutBeforeFinal`) can be added to the
configuration of their module as they stand.

**Turns.** In `Dictation` no property is inductive by itself: that an
acknowledged abort excludes the words needs that the settle lock is held from
the worker's check to its assignment (`SettleInv`), that an acknowledged abort is
in the token (`StopInv`), and that an unwinding worker never carries "completed"
(`RaiseInv`); the refinement needs in addition that what was sent is what was
settled (`SentInv`); a quiesced stop, that whoever answers it holds the progress
lock and has set the token (`QuietInv`). For an abort in time, `TimeInv` follows
it from the token, which keeps its first cause, through the decision of the error
under the settle lock to what was sent; the turn that ends without a terminal
settles "failed", and sends nothing. The microphone's accounting needs that a
recorder that runs is reachable through the turn until `closeAll`, and that the
watcher's two steps lie on either side of the worker's last look (`LossInv`).
What is proved of `Dictation` holds for either value of `Owned`, so `TurnsProofs`
instantiates it for the owned turn of `MCDictation`.

In `Speech` the one thing that has to be seen is why a player that may sound is
the current turn's. `SpeechInv` says where each worker is and what its turn has
then (`TurnInv`), that a player is named after a turn with a worker (`NameInv`),
that only the daemon's player is not closed (`PlayerInv`), that the current
turn's stays open (`OpenInv`), and that from a cancellation to the admission
everything that could sound is to be closed and the accept loop has the lock
(`LockInv`); whoever listens does so in silence (`ListenInv`). That a stopped
turn hands over nothing more rests on `StoppedInv` (its cause is set, and no step
takes it away) because the worker looks at it under the lock the stop had; that
it tells one terminal, on `ToldInv`. Each step of a turn is then a step of
`JobContract` or none.

**What turns rest on.** In
`ResourceLifecycle` the disposal begins at zero counts after the request, after
which no count rises again (`DisposeInv`), and there is one closer (`CloseInv`);
closed is only ever written by it.
In `CleanupRegistry` everything rests on `RefInv`: the registry, the callers and
the attempts all hold on to state objects, and whatever refers to the same one
means the same key and resource, because a new registration takes one that
nobody refers to. Hence a state that says closed speaks of a resource that is
(`ProvenInv`), so a release takes out of the registry only what is closed and
acknowledged (`GoneInv`), which is why nothing that runs is lost. For
`OneCleanup`, an attempt at a resource that is no provider has its state's flag
for itself and its registration stays current from its check to its end
(`RunInv`): only its own release could take it out. A provider breaks this, since
its constructor takes the flag without looking (`registry_twice`); the theorem
leaves providers out for that reason. `HoldInv` says that an agent with an attempt
under way does nothing else, so that its end clears nobody's flag but its own.
In `Launch` the constructor
gets past the proof of identity only with a child that is its own
(`LaunchProvenInv`), and a child that could not be disposed of is in the table of
failed launches before its constructor raises (`LaunchKeptInv`), which is before
anybody could forget it. In `ProcessGroup` a number that a member pins is
nobody else's, so a stranger has the group's only once nobody of it is left
(`NumberInv`); a scan that found nobody while nobody was born since has passed
everybody (`ScanInv`), which is why a group is called gone only when it is.

**Reading aloud.** In `SpeechText` a cut depends on the piece before it and on
what decides its full stop, so a text that begins alike is cut alike, or is not
cut yet where nothing follows (`CutAlike`); hence the pieces of a text are those
of its first part, and then those of what waited and the rest (`SplitOfConcat`),
which is why the portions do not matter (`TextInv`, `FedAsOne`). What holds
of a piece where nothing is cut, and where it holds at the cut, holds of all
(`EveryPlace`): pieces are not empty, are within the ceiling (`CutPlaces`) and
have the words of the text (`EveryTold`). Conditioning leaves no two separators
in a row, because runs are collapsed last (`RunsCollapse`). In `Reader` a job that was not cancelled is of the passage
that is shown, and only a player that plays can sound (`Shown`); a tick is
three updates of one record of the fields, and each of them keeps it. In
`Synthesis` the lock of the child's pipes has one holder, so what a caller has
in flight is what the child answers to it (`Voiced`), and a call that is over
its budget is in one of the two waits that do not look at it (`InTime`). In
`Player`, `pending` counts the clips that wait and the one that plays
(`PendingInv`): a stop keeps the outdated ones only as long as the worker holds
them, and a close leaves nothing behind its sentinel (`CloserInv`). In
`OwnedTurns` an utterance that is being prepared has no result and its turn is as
nobody had it (`FreshInv`), so that keeping its result repeats no key
(`OnceEach`); the token a client holds is of this daemon's turn with its key, or
of an earlier daemon (`OwnersInv`). What ended a turn is what it was marked with,
and a turn that is current was not cancelled, so it is marked once and its
result says what cancelled it (`ToldInv`): each cancellation marks the turn and
takes it from being current in one step, under the lock. In `SystemVoice` what
was told last is what logind does (`BusInv`), so a delay that is given up is one
that logind asked about, unless a cancellation waits to be read, which takes it
again (`DelayInv`).

**Listening.** In `Capture` frames are in order from what was heard through the
queue to what the reader has in hand (`OrderInv`), every frame cut is in one of
these places or among the dropped (`CoverInv`), and a drop is counted before it
is made good (`CountInv`); the three putters differ only in what they have in
hand (`PuttingInv`). In `Vad` what the floor rose to is the quietest
frame of a full window (`FloorInv`). In `Recogniser`, the pipes of a kept child
hold nothing of an earlier decode when one begins, and at most one reply, to the
audio sent (`PipesInv`); what was buffered has the words of the turn
(`BufferInv`, `DecodeInv`). In `VoskTurn` the closed segments and the open one
are the words of the turn, whatever the library still holds of an abandoned one
(`TurnInv`).
In `ConsentRecord` whoever is inside a transaction holds the lock (`LockInv`), so
the copy it is about to write is what was asked of the record as it still is
(`CopyInv`); the rename then changes one subject. In `Microphone` the supervisor's
proof is written only after everything
was reaped (`SupInv`); there is a supervisor only while the device is taken
(`ClientInv`), and the lease is given back only upon the proof, or for a
supervisor that never was (`DeviceInv`).

**Edges.** In `SessionLock` two owners are excluded because the lock file belongs
to the owner while it lives (`LockFileInv`) and a starter only removes a lock that
no live process has (`StaleLockInv`), which holds because it is the only starter. A
refusal is right because a starter has a pid that neither the owner nor a killed
daemon had (`PidInv`). In `Wire` the size of a reply is estimated with the cost
of each character, so what is cut to the rest of the budget fits it
(`WireReplyInv`); a request that passes has the fields its op requires, typed
(`WireRequestInv`), whatever was decoded. In `Ingest` the place of a request
says whether it holds a slot, a descriptor and a count (`IngestTypeInv`, `Place`), and
the requests that stall or may stall are counted exactly and few (`CountInv`).
In `Settings` the text a program is about to write is its edit of a document that
was there, and of the one that is there, as it is decoded, while no other update
became visible (`UpdateInv`). That `SetValue` makes an edit is shown for both its
ways (`SetInPlace`, `SetAtTheEnd`).
In `JobLedger` a job has one row, which says what became of it, and the row of a
job that runs, or whose handler is still to come, is there (`RowsInv`). The table
is one row too long at most, and then loses its oldest settled one (`Evicted`);
that this is not the row a late handler has yet to find is the bound `Timely`,
counted: the rows that press on it are fewer than the table holds, so another
settled one is older (`NoPressure`).
In `HeldPayload` a digest being taken is that of the present bytes, or the stamp
has changed, or it is a stamp a later write might share (`HashInv`); it is
remembered only when the last is excluded (`CacheInv`). A snapshot that is
settled and unchanged vouches for the held file (`SnapInv`), and once a child has
loaded other bytes, the held file cannot be hashed to the agreed digest again
(`LoadInv`), which is what the look after the load and the one after the decode
rely on.

**Data.** What a recursive function returns is shown without the induction
theorems, whose operator parameter no prover here can instantiate: the places
at which a claim fails are a set of numbers, which is empty or has a least
element (`FilterProofs!Least`), and the claim holds at that one because it does
just before. That the recursion defines anything is shown in the same way, by
functions that agree as far as they go (`UpToExists`, `UpToAgrees`). So it is for
what the chunker and `FlattenSeq` compute (`SplitIs`, `FlatIs`, `FlatOfConcat`).

Only model-checked:

- everything under fairness, since TLAPS does not reason about ENABLED:
  `OrdinaryTurnsEnd`, `StopAnswered`, `EveryTurnEnds`, `ReadsOn`, `CallsReturn`,
  `LateChildDies`, and the live halves of `CallsEnd`, `CaptureEnds`,
  `OwnersAreTold` and `DelayIsReturned`.

## 6. What the code does otherwise than it says

Five runs end in a violation, and are findings of `PROJECT.json`:

- `session_race`: a starter that judged the lock stale, or missing, unlinks by
  path what another has created since (`arbiter.py:289`). Two owners.
- `registry_twice`: a shutdown between a provider's registration and its
  constructor's claim leads to two closings of it at once
  (`kilix-voiced:2472`).
- `player_dies`: a player whose worker ended by another error than an
  `AudioError`, or never ran, keeps counting on it (`audio.py:579`).
- `speech_no_player`: a stop closes the player between the two looks
  `_get_player` takes at it, and the stopped job ends as an internal failure
  (`kilix-voiced:1777`).
- `owned_refused`: an `owned-speak` keeps its result before it takes the speakers;
  when that is refused, the result is reported as being prepared for ever
  (`kilix-voiced:1720`).

Others are stated in the modules and can be reproduced by naming them in a
configuration; they have no run of their own:

| definition | in a configuration like | what the code does |
| --- | --- | --- |
| `Dictation!LateAbortIsDeadline` | `MCDictation.cfg` | an abort after expiry is reported cancelled if an earlier stop was in time, against the docstring at `kilix-voiced:2791` |
| `Dictation!UnquiescedPartialSuppressed` | `MCDictation.cfg` | a partial can leave after a stop was answered `quiesced: false`, against `DESIGN.md:256` |
| `SessionLock!RefusedByTheLiving` | `MCEdges.cfg` with `OwnPidReused = TRUE` | a daemon that gets the pid of the killed owner refuses for ever, against `arbiter.py:9` |
| `Speech!NewReadIsAdmitted` | `SpeechNoPlayer.cfg` | a read is refused while its predecessor's worker has detached and not yet returned the speakers (`kilix-voiced:1914`), against `kilix-voiced:1718` |
| `MCEdges!StalledAreFew` | `MCEdges.cfg`, an invariant | a read is compared with the limit when it begins and counted when it is given up (`audiofd.py:162`, `203`), so two that begin together beside a stalled one are both left: three, where `audiofd.py:44` ("At most this many are left running at once") and `155` ("no more than MAX_STALLED_READS are ever left that way") say two |
| `MCEdges!SurvivesUntouched` | `MCEdges.cfg`, a property | an update decodes the whole document with replacement characters and universal newlines and writes all of it back (`settings.py:118`, `290`), against its docstring ("Comments, layout and every key this repo does not own survive untouched", `settings.py:316`) |
| `MCEdges!UpdateTakesEffect` | `MCEdges.cfg`, a property | `_set_value` does not find every assignment that `parse_text` reads: one behind a form feed or a no-break space stays effective after the edit (`settings.py:256`), against `settings.py:259` ("The last assignment is the effective one, so that is the one to edit.") |

Read off the code, and seen by no property:

- The player's error is looked at once, at the end of a read
  (`kilix-voiced:1811`), and every clip clears it (`audio.py:493`), so a clip that
  its sink cut short goes unreported when another follows, against
  `DESIGN.md:204`. Status reporting is left out of `Speech`.
- `fd_digest` takes the time for its rule after it has hashed (`consent.py:330`),
  while the comment above the cache speaks of a file that was old enough when it
  was hashed: a hash that takes as long as `RACY_SECONDS` is remembered for a
  stamp that was fresh when it began. `EdgesProofs!Conditions` excludes it, and
  `MCEdges.cfg` with `MaxHash = 2` does not.
- Two programs that update the shared settings at once lose one of the updates,
  and an existing document that cannot be read is replaced by a fresh one, against
  the docstring of `settings.update`. `Settings!OnlyTheKeyChanges` therefore speaks
  of a readable document and of updates no other overlapped.
- A form feed, or another line end that only `splitlines` knows, inside a line
  makes several assignments of it for `parse_text` and one for `_set_value`: editing
  the first of them loses the others. `Settings` has one assignment to a line.

## 7. What is not modelled

Formats, parsing below the level of a field, and wording; the samples and what
words sound like; what native libraries and providers do inside a call. Real time
appears as ticks of a budget or as events (a deadline, a grace period, a timeout
that may fire): no property depends on how long something takes.

Parts of modelled components: the send guard of a datagram (its budget is a
clock's), the volume a clip is scaled by and `wait`'s timeout in the player, the
normalising of attached audio (one outcome), the wire of each provider, admission
and waiting for a device (decided by a lease service outside the repository), the
idle timer, the vocabularies of the settings and `daemon_config`. In `Synthesis`
and `Recogniser` what an engine's setup installs is left out. Smaller omissions:

- `Dictation!SendPartial` leaves out a partial that is too large for its datagram
  and errors of the socket other than a lost receiver (`kilix-voiced:3046`).
- `Dictation!Shutdown` sets the daemon's stop and the turn's in one step; the code
  sets the first (`kilix-voiced:1101`, `1142`) before the second (`1166`).
- `Dictation!StartCapture` that fails leaves the microphone as it was, without
  what `audio.py:298-301` has done and undone in between.
- `Recogniser!Feed` has no ceiling on one utterance (ten minutes, `stt.py:746`);
  a dictation turn ends at its own ceiling, two minutes at most.
- `Settings!Update` sets one key; the code sets several in one rewrite.
- `Vad` moves the noise floor by any part of the way to its target, so it says how
  high the floor can come and not how soon it follows a room that became loud.

Whole components: the tables of models, licences and sizes, the paths (checks and
arithmetic without state); `kilix-stt`, `kilix-tts` and the other terminal
programs, whose side of the protocol is what the daemon's modules let arrive in
any order; the benchmarks and tests. The status of each is in `PROJECT.json`.

## 8. Running it

    tlc -config MCDictation.cfg MCDictation.tla
    tlc -config MCEdges.cfg MCEdges.tla
    tlapm DictationProofs.tla

Each run of `PROJECT.json` names its module and configuration. `edges` is the
longest, with 1.7 million states.
