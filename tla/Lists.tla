-------------------------------- MODULE Lists --------------------------------
(***************************************************************************)
(* What several components do to a list.                                   *)
(***************************************************************************)
EXTENDS Naturals, Sequences

\* The entries of a list that are in a set.  A loop, which can be reasoned about,
\* in the place of SelectSeq
Kept(seq, entries) ==
  LET kept[i \in 0..Len(seq)] ==
        IF i = 0 THEN <<>>
        ELSE IF seq[i] \in entries THEN Append(kept[i - 1], seq[i])
        ELSE kept[i - 1]
  IN kept[Len(seq)]
=============================================================================
