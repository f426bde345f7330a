----------------------------- MODULE Settings -----------------------------
(***************************************************************************)
(* The shared settings document (settings.py), which several programs read *)
(* and each rewrites whole.  A document is its lines: assignments, by key, *)
(* and the rest (comments, the marker, blank lines).  How a line is spelt  *)
(* is kept as far as reading and writing change it: it may hold bytes that *)
(* are not UTF-8 or end in a carriage return; what it held may have been   *)
(* replaced; and an assignment may be led by white space of which only one *)
(* of the code's two patterns knows.  Nothing serialises two writers.      *)
(***************************************************************************)
EXTENDS Naturals, Sequences

CONSTANTS
  Writers,   \* programs that call update, once each
  OwnKeys,   \* SPEC: the keys a writer may set
  OtherKeys, \* keys of the other programs
  Values,
  Documents  \* the documents that may be found, as sequences of lines

VARIABLES
  target,    \* the document on disk: what its file is, and its lines
  readable,  \* whether open() succeeds on it
  link,      \* the path is a symbolic link
  step,      \* where each update is
  change,    \* what it was asked to set
  text,      \* the document it will write
  temporary, \* what its temporary file holds, or NoFile
  overlap    \* history: another update was made visible since it read

vars == <<target, readable, link, step, change, text, temporary, overlap>>

Line(key, value) == [key |-> key, value |-> value, spelt |-> {}]
Comment == Line("#", "none")
Blank == Line("blank", "none")
SectionMarker == Line("# -- Kilix voice --", "none")
Assigned(key, value) == Line(key, value)
File(is, lines) == [is |-> is, lines |-> lines]
NoFile == File("missing", <<>>)

\* Every line there may be.
Lines == [key : OwnKeys \cup OtherKeys \cup {Comment.key, Blank.key, SectionMarker.key},
          value : Values \cup {"none"},
          spelt : SUBSET {"bytes", "return", "replaced", "hidden"}]

Latest(places) == CHOOSE i \in places : \A j \in places : j <= i

\* parse_text: the last assignment of a key wins, whatever white space leads it.
Places(doc, key) == {i \in DOMAIN doc : doc[i].key = key}
Effective(doc, key) ==
  IF Places(doc, key) = {} THEN "default" ELSE doc[Latest(Places(doc, key))].value

\* The assignments that _set_value finds: led by nothing but spaces and tabs.
Editable(doc, key) == {i \in Places(doc, key) : "hidden" \notin doc[i].spelt}

\* rstrip, and the section that an added assignment belongs to.
Trimmed(doc) == SubSeq(doc, 1, Latest({0} \cup {i \in DOMAIN doc : doc[i] # Blank}))
WithSection(doc) ==
  IF \E i \in DOMAIN doc : doc[i].key = SectionMarker.key THEN Trimmed(doc)
  ELSE Append(Trimmed(doc) \o IF Trimmed(doc) = <<>> THEN <<Blank, Blank>> ELSE <<Blank>>,
              SectionMarker)

\* Mutant: the first assignment is edited, which a later one overrides.
SetFirst(doc, key, value) ==
  LET at == Editable(doc, key)
  IN IF at # {} THEN [doc EXCEPT ![CHOOSE i \in at : \A j \in at : i <= j] = Assigned(key, value)]
     ELSE Append(WithSection(doc), Assigned(key, value))

\* _set_value: edit the last assignment found, or add one at the end.
SetValue(doc, key, value) ==
  IF Editable(doc, key) # {}
  THEN [doc EXCEPT ![Latest(Editable(doc, key))] = Assigned(key, value)]
  ELSE Append(WithSection(doc), Assigned(key, value))

\* read_text: bytes that are not UTF-8 become replacement characters, a
\* carriage return a line feed; and so they are written back.
Decoded(line) ==
  LET clean == line.spelt \ {"bytes", "return"}
  IN [key |-> line.key, value |-> line.value,
      spelt |-> IF "bytes" \in line.spelt THEN clean \cup {"replaced"} ELSE clean]
Read(doc) == [i \in DOMAIN doc |-> Decoded(doc[i])]

\* update reads: a document that is missing or cannot be read is not fatal,
\* and _initial_text takes its place.
Seen == IF target # NoFile /\ readable THEN Read(target.lines)
        ELSE <<Comment, Blank, SectionMarker>>

Init ==
  /\ target \in {NoFile} \cup {File("whole", d) : d \in Documents}
  /\ readable \in BOOLEAN /\ link \in BOOLEAN
  /\ target = NoFile => readable /\ ~link
  /\ step = [w \in Writers |-> "idle"]
  /\ change = [w \in Writers |-> Comment]
  /\ text = [w \in Writers |-> <<>>]
  /\ temporary = [w \in Writers |-> NoFile]
  /\ overlap = [w \in Writers |-> FALSE]

Go(w, to) == step' = [step EXCEPT ![w] = to]

\* update up to its write: a value that _rendered refuses changes nothing, nor
\* does a link; else the document is read and edited.
Update(w) ==
  /\ step[w] = "idle"
  /\ \/ Go(w, "refused") /\ UNCHANGED <<change, text>>
     \/ \E key \in OwnKeys, value \in Values :
          /\ ~link /\ Go(w, "edited")
          /\ change' = [change EXCEPT ![w] = Assigned(key, value)]
          /\ text' = [text EXCEPT ![w] = SetValue(Seen, key, value)]
  /\ UNCHANGED <<target, readable, link, temporary, overlap>>

\* _atomic_write: mkstemp in the same directory, ...
MakeTemporary(w) ==
  /\ step[w] = "edited"
  /\ \/ Go(w, "failed") /\ UNCHANGED temporary
     \/ Go(w, "write") /\ temporary' = [temporary EXCEPT ![w] = File("half", <<>>)]
  /\ UNCHANGED <<target, readable, link, change, text, overlap>>

\* ... write, flush and fsync, ...
Write(w) ==
  /\ step[w] = "write"
  /\ \/ Go(w, "unlink") /\ UNCHANGED temporary
     \/ Go(w, "replace") /\ temporary' = [temporary EXCEPT ![w] = File("whole", text[w])]
  /\ UNCHANGED <<target, readable, link, change, text, overlap>>

\* ... and replace, which makes it visible at once and readable by its owner.
Replace(w) ==
  /\ step[w] = "replace"
  /\ \/ /\ Go(w, "unlink")
        /\ UNCHANGED <<target, readable, temporary, overlap>>
     \/ /\ target' = temporary[w] /\ readable' = TRUE
        /\ temporary' = [temporary EXCEPT ![w] = NoFile]
        /\ overlap' = [v \in Writers |-> overlap[v] \/ (v # w /\ step[v] # "idle")]
        /\ Go(w, "done")
  /\ UNCHANGED <<link, change, text>>

\* The `finally` of a write that failed.
Unlink(w) ==
  /\ step[w] = "unlink"
  /\ temporary' = [temporary EXCEPT ![w] = NoFile]
  /\ Go(w, "failed")
  /\ UNCHANGED <<target, readable, link, change, text, overlap>>

\* The program dies between two system calls.
Crash(w) ==
  /\ step[w] \in {"edited", "write", "replace", "unlink"}
  /\ Go(w, "dead")
  /\ UNCHANGED <<target, readable, link, change, text, temporary, overlap>>

Next == \E w \in Writers :
  Update(w) \/ MakeTemporary(w) \/ Write(w) \/ Replace(w) \/ Unlink(w) \/ Crash(w)

Spec == Init /\ [][Next]_vars

-----------------------------------------------------------------------------
(* Properties.                                                             *)

\* Whoever reads the document, whenever a writer fails or dies, reads a whole one.
DocumentIsWhole == target.is # "half"

\* What a failed write leaves is nothing; only a crash leaves a file behind.
NoLitter == \A w \in Writers : step[w] = "failed" => temporary[w] = NoFile

\* `line` takes the place of one of its key, or is added with its section after
\* the last line that is not blank; every other line stays where it is, as it is.
EditOf(old, new, line) ==
  LET kept == DOMAIN Trimmed(old)
  IN \E at \in DOMAIN new :
       /\ new[at] = line /\ (at \in kept => old[at].key = line.key)
       /\ \A i \in kept \ {at} : i \in DOMAIN new /\ new[i] = old[i]
       /\ \A i \in DOMAIN new \ (kept \cup {at}) : new[i] \in {Blank, SectionMarker}

Finishes(w) == step'[w] = "done" /\ step[w] # "done"
Unhindered(w) == ~overlap[w] /\ readable /\ target # NoFile

\* An update sets its key, also where the document assigns it twice, unless an
\* assignment is there that _set_value does not find; and one that no other
\* overlapped, of a document that could be read, edits one line of its key, or
\* adds one: every other line is written back as it was decoded, in its place.
OnlyTheKeyChanges ==
  [][\A w \in Writers : Finishes(w) =>
       /\ \/ Effective(target'.lines, change[w].key) = change[w].value
          \/ Places(target'.lines, change[w].key) # Editable(target'.lines, change[w].key)
       /\ Unhindered(w) => EditOf(Read(target.lines), target'.lines, change[w])]_vars

\* The docstring of update (settings.py:316-318): "Comments, layout and every key
\* this repo does not own survive untouched".  They do as far as their lines are
\* UTF-8 and end in line feeds.
SurvivesUntouched ==
  [][\A w \in Writers : Finishes(w) /\ Unhindered(w) =>
       EditOf(target.lines, target'.lines, change[w])]_vars

\* The comment of _set_value (settings.py:259): "The last assignment is the
\* effective one, so that is the one to edit."  The last one it finds may not be.
UpdateTakesEffect ==
  [][\A w \in Writers : Finishes(w) =>
       Effective(target'.lines, change[w].key) = change[w].value]_vars
=============================================================================
