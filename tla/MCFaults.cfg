\* One stage of three targets, two at a time; every adapter fault, gate refusals,
\* a drain fabric, operator abort and rollback.
SPECIFICATION Spec
SYMMETRY WideSymmetry
CONSTANTS
  t1 = t1
  t2 = t2
  t3 = t3
  Targets = {t1, t2, t3}
  NumStages = 1
  StageOf <- WideStage
  Limit = 2
  MaxRetries = 1
  Reversible = TRUE
  Handoff = FALSE
  DrainNeeded = TRUE
  RolloutWired = FALSE
  InventoryAnswers = {"within", "beyond"}
  Commands = {"rollback", "abort"}
  Faults = {"prepare", "activate", "gate", "verify", "rollback"}
  MaxGeneration = 2
  MaxIncarnation = 1
INVARIANTS TypeOK CompletedTruth LedgerTruth ParallelLimit ReversedStaysOld
CHECK_DEADLOCK FALSE
