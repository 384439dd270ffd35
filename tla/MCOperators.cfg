\* Two stages of one target by generation handoff; every operator command at every
\* point, restarts under new generations; the process crashes at any point and
\* reconciles, other campaigns use the same engine.
SPECIFICATION Spec
CONSTANTS
  t1 = t1
  t2 = t2
  t3 = t3
  Targets = {t1, t2}
  NumStages = 2
  StageOf <- TwoStages
  Limit = 1
  MaxRetries = 0
  Reversible = TRUE
  Handoff = TRUE
  DrainNeeded = FALSE
  RolloutWired = FALSE
  InventoryAnswers = {"within", "beyond"}
  Commands = {"pause", "resume", "rollback", "abort", "repreflight"}
  Faults = {"activate", "crash", "foreign"}
  MaxGeneration = 3
  MaxIncarnation = 2
INVARIANTS   StageBarrier RollbackPlanFirst
PROPERTIES RetiredStaysRetired TerminalSealed BoundaryIsFinal 
  
CHECK_DEADLOCK FALSE
