SPECIFICATION FairReplicasSpec
CONSTANTS
  c1 = c1
  c2 = c2
  Client = {c1, c2}
  MaxMessages = 3
  MaxIdle = 1
  Names <- MCNames
  NumVillagers = 1
  Actions <- MCActions
  Sacrifice = "SACRIFICE"
  Full = 1
  sacrificeLoss = 2
  minAffinity <- MCminAffinity
  Greeting = {"h", "y"}
  Error = "Error"
  Seed <- MCSeed
  None = None
INVARIANTS
  ReplicasTypeOK
  ReplicasAgree
  MenuTypable
PROPERTIES
  ImplementsTickLog
  OwnMessagesHandled
CHECK_DEADLOCK FALSE
