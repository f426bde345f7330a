----------------------------- MODULE SpeechText -----------------------------
(***************************************************************************)
(* From what a pane shows to the clips that are synthesised: condition_text*)
(* and SentenceChunker of tts.py.                                          *)
(*                                                                         *)
(* A text is a sequence of tokens: a word, an abbreviation, a separator, a *)
(* sentence end, a closing bracket, a box character, the opener of an      *)
(* escape sequence and its terminator, which is a control when nothing was *)
(* opened.                                                                 *)
(***************************************************************************)
EXTENDS Naturals, Sequences, SequencesExt, Filter

CONSTANTS
  MaxRaw,   \* bound: tokens of the captured text
  MaxChars, \* the caller's max_chars
  MaxChunk, \* MAX_CHUNK_CHARS
  BoxRun    \* how many equal box characters in a row are a border (3)

Tokens == {"word", "abbr", "blank", "line", ".", ")", "box", "open", "term"}
Spaces == {"blank", "line"}

VARIABLES
  raw,    \* the text as it was captured, until it is conditioned
  phase,  \* "capture", "feed" or "flushed"
  spoken, \* the conditioned text
  rest,   \* the part of it that was not yet fed
  buffer, \* SentenceChunker._buffer
  clips   \* what the chunker has returned so far

vars == <<raw, phase, spoken, rest, buffer, clips>>

-----------------------------------------------------------------------------
(* Conditioning.                                                           *)

\* _strip_escapes: an opener takes everything up to its terminator with it,
\* or the whole tail when the capture cut it short.
StripEscapes(s) ==
  LET inside[n \in 0..Len(s)] ==
        n > 0 /\ IF inside[n - 1] THEN s[n] # "term" ELSE s[n] = "open"
  IN Picked(s, {n \in 1..Len(s) : ~inside[n - 1] /\ ~inside[n]})

\* str.translate: a terminator that nothing opened is a control, and goes.
DropControls(s) == Only(s, Tokens \ {"term"})

\* _BOX_RUN: so many of the same box character in a row are a border.
DropBoxRuns(s) ==
  LET InRun(i) == \E j \in 1..i :
                    /\ i < j + BoxRun /\ j + BoxRun <= Len(s) + 1
                    /\ \A k \in j..(j + BoxRun - 1) : s[k] = "box"
  IN Picked(s, {i \in 1..Len(s) : ~InRun(i)})

\* _HORIZONTAL_RUN and _NEWLINE_RUN: one separator between two words, a line
\* break when the run holds one.
Collapse(s) ==
  LET BreaksLine(i) == \E j \in i..Len(s) : s[j] = "line" /\ \A k \in i..j : s[k] \in Spaces
      joined == [i \in 1..Len(s) |-> IF BreaksLine(i) THEN "line" ELSE s[i]]
  IN Picked(joined, {i \in 1..Len(s) : s[i] \in Spaces => i = 1 \/ s[i - 1] \notin Spaces})

\* strip and rstrip, by where something else than a separator stands.
Ink(s) == {i \in 1..Len(s) : s[i] \notin Spaces}
Strip(s) == IF Ink(s) = {} THEN <<>> ELSE SubSeq(s, Min(Ink(s)), Max(Ink(s)))
StripRight(s) == IF Ink(s) = {} THEN <<>> ELSE SubSeq(s, 1, Max(Ink(s)))

\* condition_text before its budget; the order is load-bearing.
ConditionText(s) == Strip(Collapse(DropBoxRuns(DropControls(StripEscapes(s)))))

\* The budget applies to what is spoken, and says so when it cuts.
Budgeted(s) ==
  IF Len(s) <= MaxChars THEN s
  ELSE IF MaxChars = 0 THEN <<>>
  ELSE StripRight(SubSeq(s, 1, MaxChars)) \o <<"blank", "word">>

-----------------------------------------------------------------------------
(* Chunking.  A position is where a piece starts or what is looked at; a   *)
(* piece is cut before a position.                                         *)

\* _is_abbreviation: the letters and stops just before a '.' are one.
IsAbbreviation(before) ==
  LET token == {k \in 1..Len(before) : /\ before[k] # "."
                                       /\ \A j \in k..Len(before) :
                                            before[j] \in {"word", "abbr", "."}}
  IN Picked(before, token) = <<"abbr">>

\* _force_cut: after the last blank of the piece, or right here.
ForceCut(s, start, i) ==
  LET blanks == {j \in (start + 1)..(i - 1) : s[j] = "blank"}
  IN IF blanks = {} THEN i ELSE Max(blanks) + 1

\* The first position after a full stop and its closing brackets.
After(s, i) == Min({j \in (i + 1)..Len(s) : s[j] # ")"} \cup {Len(s) + 1})

\* The full stop at i is followed by what says whether it ends a sentence.
Decided(s, i) == After(s, i) <= Len(s)

\* The scan of the piece from start goes no further than i.
Stops(s, start, i) ==
  \/ i - start >= MaxChunk
  \/ s[i] = "line"
  \/ /\ s[i] = "."
     /\ Decided(s, i) => /\ s[After(s, i)] \in Spaces
                         /\ ~IsAbbreviation(SubSeq(s, start, i - 1))

\* Mutant: a full stop at the end of what has arrived ends its sentence.
CutAtOnce(s, start, i) ==
  CASE i - start >= MaxChunk                   -> ForceCut(s, start, i)
    [] i - start < MaxChunk /\ s[i] = "line"   -> i + 1
    [] OTHER                                   -> After(s, i)

\* Where the scan that stopped at i cuts, or 0 if that is not known yet.
CutAt(s, start, i) ==
  CASE i - start >= MaxChunk                   -> ForceCut(s, start, i)
    [] i - start < MaxChunk /\ s[i] = "line"   -> i + 1
    [] OTHER -> IF Decided(s, i) THEN After(s, i) ELSE 0

\* Where the piece from start ends, or 0.
Cut(s, start) ==
  LET stops == {i \in start..Len(s) : Stops(s, start, i)}
  IN IF stops = {} THEN 0 ELSE CutAt(s, start, Min(stops))

\* _split_sentences: the complete pieces, and what still waits for its end.
Split(s) ==
  LET from[start \in 1..(Len(s) + 1)] ==
        LET cut == Cut(s, start)
        IN IF cut = 0 THEN <<<<>>, SubSeq(s, start, Len(s))>>
           ELSE LET piece == Strip(SubSeq(s, start, cut - 1))
                    after == from[cut]
                IN <<IF piece = <<>> THEN after[1] ELSE <<piece>> \o after[1], after[2]>>
  IN from[1]

-----------------------------------------------------------------------------
Init ==
  /\ raw = <<>>
  /\ phase = "capture"
  /\ spoken = <<>> /\ rest = <<>> /\ buffer = <<>> /\ clips = <<>>

\* The pane shows one more token.
Show(t) ==
  /\ phase = "capture" /\ Len(raw) < MaxRaw
  /\ raw' = Append(raw, t)
  /\ UNCHANGED <<phase, spoken, rest, buffer, clips>>

\* speech_chunks conditions the whole turn ...
Condition ==
  /\ phase = "capture"
  /\ phase' = "feed"
  /\ spoken' = Budgeted(ConditionText(raw))
  /\ rest' = spoken'
  /\ raw' = <<>>
  /\ UNCHANGED <<buffer, clips>>

\* ... and feeds it; the chunker takes it in any portions.
Feed(n) ==
  /\ phase = "feed" /\ n \in 1..Len(rest)
  /\ LET split == Split(buffer \o SubSeq(rest, 1, n))
     IN clips' = clips \o split[1] /\ buffer' = split[2]
  /\ rest' = SubSeq(rest, n + 1, Len(rest))
  /\ UNCHANGED <<raw, phase, spoken>>

\* flush: the unterminated tail is the last clip.
Flush ==
  /\ phase = "feed" /\ rest = <<>>
  /\ phase' = "flushed"
  /\ clips' = IF Strip(buffer) = <<>> THEN clips ELSE Append(clips, Strip(buffer))
  /\ buffer' = <<>>
  /\ UNCHANGED <<raw, spoken, rest>>

Next == (\E t \in Tokens : Show(t)) \/ Condition \/ (\E n \in 1..2 : Feed(n)) \/ Flush

Spec == Init /\ [][Next]_vars

-----------------------------------------------------------------------------
(* Properties.                                                             *)

Words(s) == Only(s, Tokens \ Spaces)

\* Every word of the conditioned text is in one clip, in order, and a clip is
\* never empty: a sentence is neither lost at a cut nor spoken twice.  What is
\* in the clips does not depend on the portions the text came in.
ClipsAreTheText ==
  /\ Words(FlattenSeq(clips) \o buffer \o rest) = Words(spoken)
  /\ \A i \in DOMAIN clips : clips[i] # <<>>
  /\ phase = "feed" =>
       LET fed == SubSeq(spoken, 1, Len(spoken) - Len(rest))
       IN Split(fed) = <<clips, buffer>>

\* No control and no part of an escape sequence is spoken, a border leaves no
\* pause of its own behind (the steps of condition_text are in the one order
\* that does it), and the text is within the caller's budget and its note.
SpokenIsClean ==
  /\ Only(spoken, {"term", "open"}) = <<>>
  /\ \A i \in 1..(Len(spoken) - 1) : ~(spoken[i] \in Spaces /\ spoken[i + 1] \in Spaces)
  /\ Len(spoken) <= MaxChars + 2

\* "The hard ceiling on one chunk": a clip is at most MaxChunk long, but for
\* the closing brackets that follow its full stop.
ClipsAreBounded ==
  \A i \in DOMAIN clips : \A k \in (MaxChunk + 1)..Len(clips[i]) : clips[i][k] = ")"
=============================================================================
