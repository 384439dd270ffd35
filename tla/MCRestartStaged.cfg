\* A crash between stages, then a restart in which another campaign runs its
\* preflight.
SPECIFICATION Spec
CONSTANTS
  t1 = t1
  t2 = t2
  t3 = t3
  Targets = {t1, t2}
  NumStages = 1
  StageOf <- OneStage
  Limit = 2
  MaxRetries = 0
  Reversible = TRUE
  Handoff = FALSE
  DrainNeeded = FALSE
  RolloutWired = FALSE
  InventoryAnswers = {"within"}
  Commands = {}
  Faults = {"crash", "foreign"}
  MaxGeneration = 2
  MaxIncarnation = 2
PROPERTY PreflightBeforeActivation
CHECK_DEADLOCK FALSE
