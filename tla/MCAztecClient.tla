---------------------------- MODULE MCAztecClient ----------------------------
EXTENDS AztecClient, TLC

CONSTANTS s1, s2, s3, m1, m2

\* The third session comes back under the name of the first.
MCNameOf == [s \in Session |-> IF s = s2 THEN "Tlaloc" ELSE "Inti"]
MCName == {"Inti", "Tlaloc"}

Symmetry == Permutations(Match) \cup Permutations({s1, s3})
=============================================================================
