\* A rollout fabric that may refuse, and a driver that is already running.
SPECIFICATION Spec
CONSTANTS
  t1 = t1
  t2 = t2
  t3 = t3
  Targets = {t1, t2}
  NumStages = 1
  StageOf <- OneStage
  Limit = 2
  MaxRetries = 0
  Reversible = TRUE
  Handoff = FALSE
  DrainNeeded = FALSE
  RolloutWired = TRUE
  InventoryAnswers = {"within"}
  Commands = {}
  Faults = {}
  MaxGeneration = 2
  MaxIncarnation = 1
PROPERTY RefusalPreventsExecution
CHECK_DEADLOCK FALSE
