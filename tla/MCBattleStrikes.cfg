SPECIFICATION FairSpec
CONSTANTS
  itza = itza
  ixchel = ixchel
  balam = balam
  quetz = quetz
  VillagerName = {itza}
  LetterOf <- MCLetterOf
  NumVillagers = 1
  God = {quetz}
  godHearts <- MCgodHearts
  godDamage <- MCgodDamage
  MAX_HEARTS = 1
  Full = 3
  initialDefense = 1
  sacrificeLoss = 0
  festivalGain = 0
  worshipGain = 1
  ActionTicks = 2
  SummonTicks = 2
  Local = 1
  None = None
INVARIANTS
  VictoryClaimed
PROPERTIES
  StrikesInFull
  SummonsStrike
  WorkEnds
