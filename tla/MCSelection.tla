----------------------------- MODULE MCSelection -----------------------------
EXTENDS Selection, TLC

CONSTANTS v1, v2, v3

\* The third villager gets the name of the first.
MCNameOf == [v \in Villager |-> IF v = v2 THEN "Zolin" ELSE "Xoxipepe"]

MCGods == <<"QUETZ", "HUITZ">>
MCgodHearts == [g \in {"QUETZ", "HUITZ"} |-> IF g = "QUETZ" THEN 1 ELSE 2]

MCAction == {"SACRIFICE", "FESTIVAL"}

Symmetry == Permutations({v1, v3})
=============================================================================
