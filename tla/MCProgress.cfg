\* Progress of a campaign that is admitted once and driven: two targets in
\* parallel, then a third; adapters and preflights fail, tickets and evidence
\* expire, the rollout fabric may refuse, operators only roll back.
SPECIFICATION FairSpec
CONSTANTS
  t1 = t1
  t2 = t2
  t3 = t3
  Targets = {t1, t2, t3}
  NumStages = 2
  StageOf <- TwoThenOne
  Limit = 2
  MaxRetries = 1
  Reversible = TRUE
  Handoff = FALSE
  DrainNeeded = FALSE
  RolloutWired = TRUE
  InventoryAnswers = {"within", "beyond", "unfit"}
  Commands = {"rollback"}
  Faults = {"expiry", "preflight", "prepare", "activate", "gate", "verify"}
  MaxGeneration = 2
  MaxIncarnation = 1
PROPERTIES  RollbackSettles ImplementsStagedUpgrade
CHECK_DEADLOCK FALSE
