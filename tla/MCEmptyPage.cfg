SPECIFICATION AppSpec
CONSTANTS
  Version <- MCVersion
  Required <- MCRequired
  MaxRetries = 2
  TickInterval = 2
  Message = {"select", "action"}
  MaxFrame = 3
  MaxTicks = 2
  MaxFilling = 2
INVARIANTS
  AlternativeShown
CHECK_DEADLOCK FALSE
