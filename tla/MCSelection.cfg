SPECIFICATION Spec
CONSTANTS
  v1 = v1
  v2 = v2
  v3 = v3
  Villager = {v1, v2, v3}
  NameOf <- MCNameOf
  Action <- MCAction
  Sacrifice = "SACRIFICE"
  NoVillager = NoVillager
  Gods <- MCGods
  godHearts <- MCgodHearts
  MAX_HEARTS = 2
  MaxSelections = 4
  MaxSent = 3
SYMMETRY Symmetry
INVARIANTS
  TypeOK
  SelectedCanBeReleased
  EmphasisJustified
  GodsOffered
PROPERTIES
  OtherKeepsVillager
CHECK_DEADLOCK FALSE
