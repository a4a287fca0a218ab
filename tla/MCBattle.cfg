SPECIFICATION Spec
CONSTANTS
  itza = itza
  ixchel = ixchel
  balam = balam
  quetz = quetz
  VillagerName = {itza, ixchel, balam}
  LetterOf <- MCLetterOf
  NumVillagers = 2
  God = {quetz}
  godHearts <- MCgodHearts
  godDamage <- MCnoDamage
  MAX_HEARTS = 1
  Full = 1
  initialDefense = 0
  sacrificeLoss = 0
  festivalGain = 0
  worshipGain = 0
  ActionTicks = 2
  SummonTicks = 2
  Local = 1
  None = None
SYMMETRY MCSymmetry
INVARIANTS
  TypeOK
  SelectionsExclusive
  LettersOfTheLiving
  NameToBeFound
  TaskPerWork
  LivingAreUpdated
