\* A crash while a rollback executes, then a restart.
SPECIFICATION Spec
CONSTANTS
  t1 = t1
  t2 = t2
  t3 = t3
  Targets = {t1, t2}
  NumStages = 1
  StageOf <- OneStage
  Limit = 2
  MaxRetries = 0
  Reversible = TRUE
  Handoff = FALSE
  DrainNeeded = FALSE
  RolloutWired = FALSE
  InventoryAnswers = {"within"}
  Commands = {"rollback"}
  Faults = {"crash"}
  MaxGeneration = 2
  MaxIncarnation = 2
PROPERTY MidFlightBlockedOnRestart
CHECK_DEADLOCK FALSE
