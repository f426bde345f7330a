---------------------------- MODULE HeldPayload ----------------------------
(***************************************************************************)
(* Consent bound to bytes: the gate hashes the model a turn will open, and *)
(* the recogniser holds the files and hashes what it holds (stt.py's       *)
(* _HeldPayload over consent.py's fd_digest).  Files are inodes with a     *)
(* content and a ctime; the path is an inode.  A clock stamps writes, up   *)
(* to Lag ticks late, and two writes may share a stamp.  Anyone may write  *)
(* a file in place, replace the path, or touch a file at any step.         *)
(***************************************************************************)
EXTENDS Naturals, FiniteSets

CONSTANTS
  Agreed,    \* the content the record of consent is for
  Other,     \* other contents
  Files,     \* inodes, counted from 1
  Racy,      \* RACY_SECONDS
  Lag,       \* how far a stamp may be behind the clock
  MaxHash,   \* how long hashing a file may take
  MaxClock, MaxWrites,
  Restores   \* whether a write may bring an earlier content of a file back

VARIABLES
  clock, content, ctime, past, path, writes, \* the files
  cache,     \* _DIGESTS: what was hashed, by inode and ctime
  at, hash,  \* where the turn is, and the digest being taken
  held,      \* the inode the recogniser holds
  snap, taken, \* _stats, _stats_taken
  loaded     \* the content the child loaded

files == <<clock, content, ctime, past, path, writes>>
turn == <<at, held, snap, taken, loaded>>
vars == <<files, cache, hash, turn>>

None == "none"
Contents == {Agreed} \cup Other

Init ==
  /\ clock = 2 * Racy + 1
  /\ content \in [Files -> Contents]
  /\ \E start \in {0, 2 * Racy + 1} : ctime = [f \in Files |-> start]
  /\ past = [f \in Files |-> {content[f]}]
  /\ path \in Files /\ writes = 0
  /\ cache = {}
  /\ at = "gate" /\ hash = [file |-> 0]
  /\ held = 0 /\ snap = 0 /\ taken = 0 /\ loaded = None

-----------------------------------------------------------------------------
(* The files.                                                              *)

Tick ==
  /\ clock < MaxClock /\ clock' = clock + 1
  /\ hash.file # 0 => clock < hash.began + MaxHash
  /\ UNCHANGED <<content, ctime, past, path, writes>>

Stamps(f) == {t \in (IF clock > Lag THEN clock - Lag ELSE 0)..clock : t >= ctime[f]}

\* A write of the same length, in place; or a change that leaves the bytes.
Write(f) ==
  /\ writes < MaxWrites /\ writes' = writes + 1
  /\ \E c \in Contents, t \in Stamps(f) :
       /\ Restores \/ c = content[f] \/ c \notin past[f]
       /\ content' = [content EXCEPT ![f] = c]
       /\ past' = [past EXCEPT ![f] = @ \cup {c}]
       /\ ctime' = [ctime EXCEPT ![f] = t]
  /\ UNCHANGED <<clock, path>>

Replace ==
  /\ writes < MaxWrites /\ writes' = writes + 1
  /\ \E f \in Files : path' = f
  /\ UNCHANGED <<clock, content, ctime, past>>

World == /\ Tick \/ Replace \/ \E f \in Files : Write(f)
         /\ UNCHANGED <<cache, hash, turn>>

-----------------------------------------------------------------------------
(* fd_digest: the stat, the bytes, and the stat again.                     *)

\* Only what is settled is remembered: by the clock after it was read.
Remembers(f, before) == ctime[f] = before /\ before < clock - Racy

Cached(f) == {e \in cache : e.file = f /\ e.ctime = ctime[f]}

\* A digest is asked for: at once from the cache, or by reading.
HashBegin(f, then) ==
  /\ hash.file = 0
  /\ hash' = [file |-> f, ctime |-> ctime[f], then |-> then, began |-> clock,
              digest |-> IF Cached(f) = {} THEN None ELSE (CHOOSE e \in Cached(f) : TRUE).digest]

HashRead ==
  /\ hash.file # 0 /\ hash.digest = None
  /\ hash' = [hash EXCEPT !.digest = content[hash.file]] /\ cache' = cache
  /\ UNCHANGED <<files, turn>>

\* What is done with the digest, once the file has been stat'ed again.
HashEnd(then, digest) ==
  /\ hash.file # 0 /\ hash.then = then /\ hash.digest # None /\ hash.digest = digest
  /\ cache' = IF Remembers(hash.file, hash.ctime)
              THEN cache \cup {[file |-> hash.file, ctime |-> hash.ctime, digest |-> digest]}
              ELSE cache
  /\ hash' = [file |-> 0]

-----------------------------------------------------------------------------
(* The turn.                                                               *)

\* consent_identity: the gate hashes the files of the directory that was
\* resolved for the turn, and the record must be for just that digest.
Gate ==
  /\ at = "gate" /\ HashBegin(path, "gate") /\ at' = "gating"
  /\ UNCHANGED <<files, cache, held, snap, taken, loaded>>

GateEnds ==
  /\ \E d \in Contents :
       HashEnd("gate", d) /\ at' = IF d = Agreed THEN "hold" ELSE "refused"
  /\ UNCHANGED <<files, held, snap, taken, loaded>>

\* _hold: opened, snapped and hashed; it must be what the gate granted.
Hold ==
  /\ at = "hold" /\ held' = path
  /\ taken' = clock /\ snap' = ctime[path]
  /\ HashBegin(path, "hold") /\ at' = "holding"
  /\ UNCHANGED <<files, cache, loaded>>

HoldEnds ==
  /\ \E d \in Contents :
       HashEnd("hold", d) /\ at' = IF d = Agreed THEN "start" ELSE "refused"
  /\ UNCHANGED <<files, held, snap, taken, loaded>>

\* Mutant: an unchanged stat is believed, however new it was.
SettledAlways == snap <= taken
Settled == snap < taken - Racy

\* _require_unchanged, and where the turn goes when it passes.
Passes == [start |-> "loading", loaded |-> "decode", decoded |-> "deliver"]

Check ==
  /\ at \in DOMAIN Passes
  /\ IF ctime[held] = snap /\ Settled
     THEN at' = Passes[at] /\ UNCHANGED <<hash, snap, taken>>
     ELSE /\ HashBegin(held, at) /\ at' = "checking"
          /\ UNCHANGED <<snap, taken>>
  /\ UNCHANGED <<files, cache, held, loaded>>

\* The snapshot a passing check keeps is the one it took before it hashed.
CheckEnds ==
  /\ at = "checking"
  /\ \E d \in Contents, before \in DOMAIN Passes :
       /\ HashEnd(before, d)
       /\ IF d = Agreed
          THEN at' = Passes[before] /\ snap' = hash.ctime /\ taken' = hash.began
          ELSE at' = "refused" /\ UNCHANGED <<snap, taken>>
  /\ UNCHANGED <<files, held, loaded>>

\* The child is given the held descriptor and reads it when it likes.
Load ==
  /\ at = "loading" /\ loaded' = content[held] /\ at' = "loaded"
  /\ UNCHANGED <<files, cache, hash, held, snap, taken>>

Decode ==
  /\ at = "decode" /\ at' = "decoded"
  /\ UNCHANGED <<files, cache, hash, held, snap, taken, loaded>>

\* The next utterance of the turn.
Deliver ==
  /\ at = "deliver" /\ at' = "decode"
  /\ UNCHANGED <<files, cache, hash, held, snap, taken, loaded>>

Next == \/ World \/ HashRead \/ Gate \/ GateEnds \/ Hold \/ HoldEnds
        \/ Check \/ CheckEnds \/ Load \/ Decode \/ Deliver
Spec == Init /\ [][Next]_vars

-----------------------------------------------------------------------------
(* Properties.                                                             *)

\* What the cache says of a file is true of it as it is now: no write, of the
\* same length and in the same tick, is missed.
CacheIsTrue == \A f \in Files : \A e \in Cached(f) : e.digest = content[f]

\* A transcript that is delivered was made by the bytes consent was given
\* for, though the path may be replaced and the files rewritten at any step.
LoadsTheAgreed == at = "deliver" => loaded = Agreed
=============================================================================
