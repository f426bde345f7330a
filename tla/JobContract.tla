---------------------------- MODULE JobContract ----------------------------
(***************************************************************************)
(* What the daemon promises the client of one job, whatever the job is: at *)
(* most one terminal message, the one that says how the job was settled,   *)
(* and no completed result once an abort was acknowledged.                 *)
(* Dictation and Speech are shown to implement this specification.         *)
(***************************************************************************)
EXTENDS Sequences

\* The outcomes of jobs.JobOutcome.  "none" is a job that is not settled.
Outcomes == {"completed", "cancelled", "deadline", "failed"}

VARIABLES
  outcome,   \* the settled outcome, or "none"
  sent,      \* the terminal messages handed to the job's receiver
  aborted    \* an abort of the job was acknowledged to its caller

vars == <<outcome, sent, aborted>>

TypeOK ==
  /\ outcome \in Outcomes \cup {"none"}
  /\ sent \in Seq(Outcomes)
  /\ aborted \in BOOLEAN

Init ==
  /\ outcome = "none"
  /\ sent = <<>>
  /\ aborted = FALSE

\* An abort is only ever acknowledged for a job that has no outcome yet.
AcceptAbort ==
  /\ outcome = "none"
  /\ aborted' = TRUE
  /\ UNCHANGED <<outcome, sent>>

\* The first outcome sticks, and an acknowledged abort excludes the words.
Settle(o) ==
  /\ outcome = "none"
  /\ o = "completed" => ~aborted
  /\ outcome' = o
  /\ UNCHANGED <<sent, aborted>>

\* One terminal leaves the daemon, and it is the outcome that was recorded.
Send ==
  /\ outcome # "none"
  /\ sent = <<>>
  /\ sent' = <<outcome>>
  /\ UNCHANGED <<outcome, aborted>>

Next ==
  \/ AcceptAbort
  \/ \E o \in Outcomes : Settle(o)
  \/ Send

Spec == Init /\ [][Next]_vars
=============================================================================
