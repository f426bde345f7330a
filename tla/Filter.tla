------------------------------- MODULE Filter -------------------------------
(***************************************************************************)
(* What is left of a sequence, in order, when only some of it is kept, by  *)
(* place or by value: SelectSeq, as a function of how much was looked at,  *)
(* so that it can be proved about.                                         *)
(***************************************************************************)
EXTENDS Naturals, Sequences

\* What is at the kept places.
Picked(s, kept) ==
  LET upTo[n \in 0..Len(s)] ==
        IF n = 0 THEN <<>>
        ELSE IF n \in kept THEN Append(upTo[n - 1], s[n]) ELSE upTo[n - 1]
  IN upTo[Len(s)]

\* The values that are kept.
Only(s, Kept) == Picked(s, {n \in 1..Len(s) : s[n] \in Kept})
=============================================================================
