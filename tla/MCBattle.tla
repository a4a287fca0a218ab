------------------------------- MODULE MCBattle -------------------------------
EXTENDS Battle, TLC

CONSTANTS itza, ixchel, balam, quetz

MCLetterOf == [n \in VillagerName |-> IF n = balam THEN "b" ELSE "i"]
MCgodHearts == [g \in God |-> 1]
MCgodDamage == [g \in God |-> 2]
MCnoDamage == [g \in God |-> 0]
MCSymmetry == Permutations({itza, ixchel})
=============================================================================
