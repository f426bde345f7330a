---------------------------- MODULE MCDictation ----------------------------
(***************************************************************************)
(* Both kinds of dictation turn in one run: the ordinary turn is Dictation *)
(* itself, the owned one a second instance over the same variables.  The   *)
(* recogniser of an owned turn may hang in a feed; nothing but the answer  *)
(* to a stop is expected of it.                                            *)
(***************************************************************************)
EXTENDS Dictation

CONSTANT OwnedStops  \* how many stops name an owned turn

ASSUME MCDictationAssumption == OwnedStops \in Nat

VARIABLE kind  \* the turn of this behaviour: "ordinary" or "owned"

OwnedTurn == INSTANCE Dictation WITH Owned <- TRUE, MaxStops <- OwnedStops

MCInit ==
  \/ kind = "ordinary" /\ Init
  \/ kind = "owned" /\ OwnedTurn!Init

MCNext ==
  \/ kind = "ordinary" /\ Next /\ UNCHANGED kind
  \/ kind = "owned" /\ OwnedTurn!Next /\ UNCHANGED kind

MCSpec ==
  /\ MCInit /\ [][MCNext]_<<vars, kind>>
  /\ WF_vars(kind = "ordinary" /\ WorkerStep)
  /\ WF_vars(kind = "ordinary" /\ WatchStep)
  /\ WF_vars(kind = "ordinary" /\ ShutdownCloses)
  /\ WF_vars(kind = "owned" /\ OwnedTurn!WorkerStep /\ pc # "feeding")
  /\ WF_vars(StopAwait) /\ WF_vars(StopDecide)

\* Of both kinds: the microphone is never open for nobody, neither for a lost
\* receiver nor behind the arbiter's back.
MicIsAlwaysAccounted ==
  IF kind = "ordinary" THEN MicIsAccounted ELSE OwnedTurn!MicIsAccounted

\* An ordinary turn ends: by a stop, a spent budget, a shutdown or the loss of
\* its receiver.
OrdinaryTurnsEnd == kind = "ordinary" => TurnsEnd
=============================================================================
