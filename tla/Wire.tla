-------------------------------- MODULE Wire --------------------------------
(***************************************************************************)
(* The control protocol (protocol.py): one request from the bytes of a     *)
(* record to the fields a handler is given, and one reply from a dict to a *)
(* frame.  A request is the fields it names, each with a verdict: "good",  *)
(* or the code its own validator refuses it with.  Sizes are in bytes.     *)
(***************************************************************************)
EXTENDS Naturals, Sequences, FiniteSets

CONSTANTS
  MaxRequest, MaxReply, \* MAX_REQUEST_BYTES, MAX_REPLY_BYTES
  MaxProse,             \* MAX_ERROR_PROSE_CHARS
  Marker,               \* characters of _TRUNCATED
  Skeleton,             \* bytes of a refusal with no prose and no fields
  MaxAudio, Header,     \* MAX_AUDIO_BYTES, WAV_HEADER_BYTES
  RequestSizes, ProseSizes, FieldSizes, CharSizes, Times, Lengths \* inputs tried

VARIABLES at, raw, msg, request, reply, frame
vars == <<at, raw, msg, request, reply, frame>>

None == "none"
Good == "good"

Shorter(a, b) == IF a < b THEN a ELSE b

-----------------------------------------------------------------------------
(* The request.                                                            *)

OwnedOps == {"owned-speak", "owned-status", "owned-stop", "owned-dictate",
             "owned-dictation-status", "owned-stop-dictation", "owned-volume"}
Ops == {"speak", "stop-speech", "dictate", "stop-dictation", "status", "ingest-audio"} \cup OwnedOps

BaseOp(op) == CASE op = "owned-speak" -> "speak" [] op = "owned-dictate" -> "dictate"
                [] op \in OwnedOps \ {"owned-speak", "owned-dictate"} -> "status"
                [] OTHER -> op

\* The fields an op uses, in the order they are looked at, after the op.
BaseFields(op) ==
  <<"id", "v", "deadline_ms">> \o
  CASE op = "speak" -> <<"text", "model", "voice", "rate", "chunk_sock">>
    [] op = "dictate" -> <<"sock">>
    [] op = "ingest-audio" -> <<"sample_format", "container", "channels", "sample_rate",
                                "duration_limit_ms", "byte_limit">>
    [] op = "stop-dictation" -> <<"sock", "mode">>
    [] op = "status" -> <<"job">>
    [] OTHER -> <<>>

Fields(op) ==
  (IF op \in OwnedOps THEN <<"owner">> ELSE <<>>) \o BaseFields(BaseOp(op)) \o
  CASE op = "owned-speak" -> <<"utterance", "volume", "brief">>
    [] op = "owned-status" -> <<"utterance">>
    [] op = "owned-stop" -> <<"turn">>
    [] op = "owned-volume" -> <<"turn", "volume">>
    [] op = "owned-dictate" -> <<"hold", "silence_ms">>
    [] OTHER -> <<>>

Required(op) ==
  (IF op \in OwnedOps THEN {"owner"} ELSE {}) \cup
  (IF BaseOp(op) = "speak" THEN {"text"} ELSE IF BaseOp(op) = "dictate" THEN {"sock"} ELSE {}) \cup
  (IF op \in {"owned-speak", "owned-status"} THEN {"utterance"} ELSE {}) \cup
  (IF op \in {"owned-stop", "owned-volume"} THEN {"turn"} ELSE {}) \cup
  (IF op = "owned-volume" THEN {"volume"} ELSE {})

FieldNames == UNION {{Fields(op)[i] : i \in DOMAIN Fields(op)} : op \in Ops}

\* What a field's validator may refuse it with: a value of a wrong type or
\* form, and for some a well-formed value this daemon does not take.  "brief"
\* is the length of an owned text, which no field names.
Codes(f) ==
  {"malformed"} \cup (IF f \in {"v", "sample_format", "container", "channels", "sample_rate"}
                      THEN {"unsupported"} ELSE {})

\* Embedded audio is measured before anything else; then the op, then each
\* field in order.  What is refused carries the first refusal's code.
FirstRefusal(m) ==
  LET fields == Fields(m.op)
      accepted(f) == IF f \in Required(m.op) THEN {Good} ELSE {Good, None}
      wrong == {i \in DOMAIN fields : m.value[fields[i]] \notin accepted(fields[i])}
      first == fields[CHOOSE i \in wrong : \A j \in wrong : i <= j]
  IN IF wrong = {} THEN None ELSE IF m.value[first] = None THEN "malformed" ELSE m.value[first]

Survivors(m, fields) ==
  ({fields[i] : i \in {j \in DOMAIN fields : m.value[fields[j]] = Good}} \ {"brief"})
  \cup (IF m.op = "owned-dictate" THEN {"hold", "silence_ms"} ELSE {})

Refused(code) == [code |-> code, fields |-> {}]

\* Mutant: embedded audio is measured with the other fields, after them.
ValidateLate(m) ==
  IF m.op \notin Ops THEN Refused(IF m.op = None THEN "malformed" ELSE "unsupported")
  ELSE IF FirstRefusal(m) # None THEN Refused(FirstRefusal(m))
  ELSE IF m.audio = "big" THEN Refused("too-large")
  ELSE [code |-> None, fields |-> Survivors(m, Fields(m.op))]

\* validate_request: only the fields the op uses survive.
Validate(m) ==
  IF m.audio = "big" THEN Refused("too-large")
  ELSE IF m.op \notin Ops THEN Refused(IF m.op = None THEN "malformed" ELSE "unsupported")
  ELSE IF FirstRefusal(m) # None THEN Refused(FirstRefusal(m))
  ELSE [code |-> None, fields |-> Survivors(m, Fields(m.op))]

\* decode: the size before anything is read; then UTF-8, JSON and an object.
Decoded(r) ==
  IF r.size > MaxRequest THEN "too-large"
  ELSE IF r.form # "object" THEN "malformed" ELSE None

-----------------------------------------------------------------------------
(* The reply.                                                              *)

\* _cut_prose, to this many characters and the marker.
Cut(prose, most) == IF prose > most THEN most + Marker ELSE prose

\* What encode makes: the frame's size, or nothing.  A character of prose is
\* up to CharSizes bytes of JSON.
Bytes(r) == Skeleton + r.prose * r.wide + r.rest
Encodes(r) == ~r.odd /\ Bytes(r) <= MaxReply

Sends(r) == [ok |-> r.ok, code |-> r.code, size |-> Bytes(r), whole |-> TRUE]
Shortened(r, most) == [r EXCEPT !.prose = Cut(r.prose, most)]
Internal == [ok |-> FALSE, code |-> "internal", size |-> Skeleton, whole |-> TRUE]

EncodesReply(r, most) ==
  IF Encodes(r) THEN Sends(r)
  ELSE IF ~r.odd /\ ~r.ok /\ Encodes(Shortened(r, most))
  THEN [Sends(Shortened(r, most)) EXCEPT !.whole = FALSE]
  ELSE Internal

\* Mutant: the prose is left at the length it was built with.
EncodeReplyUncut(r) == EncodesReply(r, MaxProse)

\* encode_reply: as built; or the refusal's prose cut to half the usual; or a
\* constant.  A success is never trimmed.
EncodeReply(r) == EncodesReply(r, MaxProse \div 2)

\* reply_error keeps to the closed codes, and cuts its prose.
ReplyError(code, prose, wide, rest) ==
  [ok |-> FALSE, code |-> code, prose |-> Cut(prose, MaxProse), wide |-> wide, rest |-> rest,
   odd |-> FALSE]

-----------------------------------------------------------------------------
(* The datagrams of a turn: the words of a final, and the descriptor of a  *)
(* synthesised chunk.                                                      *)

\* _words: each word ends after it starts and starts after the last one ended.
Words(ws) ==
  \A i \in DOMAIN ws : ws[i].start <= ws[i].end /\ (i > 1 => ws[i - 1].end <= ws[i].start)

\* dictation_final: the speaker's label needs a confidence.
Final(ws, label, confidence) == Words(ws) /\ (label => confidence)

\* synthesis_chunk: the length it names is the whole file's when it says what
\* the file is, and its settings are of the closed set.
SynthesisChunk(c) ==
  c.pcm <= MaxAudio /\ (c.wav => c.length = c.pcm + Header) /\ c.settings = Good

-----------------------------------------------------------------------------
Init ==
  /\ at = "idle"
  /\ raw = [size |-> 0, form |-> "other"] /\ msg = [op |-> None]
  /\ request = [code |-> "unread", fields |-> {}]
  /\ reply = [ok |-> FALSE] /\ frame = [ok |-> FALSE]

\* A record arrives; what it says in each field is anything.  Two fields vary
\* and the others are all there or all missing.
Receive ==
  /\ at = "idle"
  /\ \E size \in RequestSizes, form \in {"object", "other"} : raw' = [size |-> size, form |-> form]
  /\ at' = "read"
  /\ UNCHANGED <<msg, request, reply, frame>>

Refuse(code) ==
  /\ \E prose \in ProseSizes, wide \in CharSizes, rest \in FieldSizes :
       reply' = ReplyError(code, prose, wide, rest)
  /\ at' = "reply"

Decode ==
  /\ at = "read"
  /\ IF Decoded(raw) # None
     THEN Refuse(Decoded(raw)) /\ UNCHANGED msg
     ELSE /\ \E op \in Ops \cup {None, "other"}, audio \in {Good, "big"}, rest \in {Good, None},
                f \in FieldNames, g \in {"id", "text", "owner", "v"} :
             \E x \in Codes(f) \cup {Good, None}, y \in Codes(g) \cup {Good, None} :
               msg' = [op |-> op, audio |-> audio,
                       value |-> [h \in FieldNames |-> IF h = f THEN x ELSE IF h = g THEN y
                                                       ELSE rest]]
          /\ at' = "message" /\ UNCHANGED reply
  /\ UNCHANGED <<raw, request, frame>>

ValidateRequest ==
  /\ at = "message"
  /\ request' = Validate(msg)
  /\ IF request'.code # None
     THEN \E wide \in CharSizes : reply' = ReplyError(request'.code, 1, wide, 0) /\ at' = "reply"
     ELSE at' = "handle" /\ UNCHANGED reply
  /\ UNCHANGED <<raw, msg, frame>>

\* The handler's reply: a success of any size, or a refusal; either may hold
\* what JSON or UTF-8 cannot.
Handle ==
  /\ at = "handle"
  /\ \/ Refuse("unavailable")
     \/ /\ \E rest \in FieldSizes, odd \in BOOLEAN :
             reply' = [ok |-> TRUE, code |-> None, prose |-> 0, wide |-> 1, rest |-> rest,
                       odd |-> odd]
        /\ at' = "reply"
  /\ UNCHANGED <<raw, msg, request, frame>>

\* A turn's datagram is built whole or not at all.
EmitFinal ==
  /\ at = "idle"
  /\ \E n \in 0..3, label \in BOOLEAN, confidence \in BOOLEAN :
     \E ws \in [1..n -> [start : Times, end : Times]] :
       /\ Final(ws, label, confidence)
       /\ frame' = [words |-> ws]
  /\ at' = "final"
  /\ UNCHANGED <<raw, msg, request, reply>>

\* The file holds its header and the samples the clip was counted at.
EmitChunk ==
  /\ at = "idle"
  /\ \E pcm \in Lengths, length \in Lengths \cup {n + Header : n \in Lengths},
        wav \in BOOLEAN, settings \in {Good, "other"} :
       LET c == [pcm |-> pcm, length |-> length, wav |-> wav, settings |-> settings]
       IN SynthesisChunk(c) /\ frame' = c
  /\ at' = "chunk"
  /\ UNCHANGED <<raw, msg, request, reply>>

Send ==
  /\ at = "reply"
  /\ frame' = EncodeReply(reply) /\ at' = "sent"
  /\ UNCHANGED <<raw, msg, request, reply>>

Next == Receive \/ Decode \/ ValidateRequest \/ Handle \/ Send \/ EmitFinal \/ EmitChunk

Spec == Init /\ [][Next]_vars

-----------------------------------------------------------------------------
(* Properties.                                                             *)

\* Every reply fits the smallest buffer a client has, a success is sent whole
\* or not at all, and a refusal keeps its own code unless what it carries
\* beside its prose leaves no room for any.
ReplyFits ==
  at = "sent" =>
    /\ frame.size <= MaxReply
    /\ frame.ok => frame.whole /\ reply.ok
    /\ ~reply.ok /\ reply.rest + 6 * (MaxProse \div 2 + Marker) + Skeleton <= MaxReply =>
         frame.code = reply.code

\* A handler is given only the fields its op uses, each one valid, and all it
\* needs; and audio too large for a message is what the refusal says, whatever
\* else is wrong with the request.
RequestIsClosed ==
  request.code # "unread" =>
    IF request.code = None
    THEN /\ request.fields \subseteq {Fields(msg.op)[i] : i \in DOMAIN Fields(msg.op)}
         /\ Required(msg.op) \subseteq request.fields
         /\ \A f \in request.fields : msg.value[f] \in {Good, None}
         /\ msg.audio # "big"
    ELSE msg.audio = "big" => request.code = "too-large"

\* No two words of a turn overlap, however far apart, and a subscriber that
\* reads the bytes a chunk names has the header and every sample.
DatagramsAreTrue ==
  /\ at = "final" => \A i, j \in DOMAIN frame.words :
                       i < j => frame.words[i].end <= frame.words[j].start
  /\ at = "chunk" /\ frame.wav => frame.length = frame.pcm + Header
=============================================================================
