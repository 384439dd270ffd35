\* Verification of one of two targets fails; the operator rolls back.
SPECIFICATION Spec
CONSTANTS
  t1 = t1
  t2 = t2
  t3 = t3
  Targets = {t1, t2}
  NumStages = 1
  StageOf <- OneStage
  Limit = 2
  MaxRetries = 0
  Reversible = TRUE
  Handoff = FALSE
  DrainNeeded = FALSE
  RolloutWired = FALSE
  InventoryAnswers = {"within"}
  Commands = {"rollback"}
  Faults = {"verify"}
  MaxGeneration = 2
  MaxIncarnation = 1
INVARIANT RolledBackTruth
CHECK_DEADLOCK FALSE
