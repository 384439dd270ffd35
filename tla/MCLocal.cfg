SPECIFICATION Spec
CONSTANTS
  b1 = b1
  b2 = b2
  None = None
  Builds <- MCBuilds
  MaxRetries = 2
  MaxCampaigns = 3
  MaxFaults = 4
INVARIANTS
  TypeOK
  OneControlPlane
PROPERTIES
  
  VerifiedIsInstalled
  OperationsEnd
CHECK_DEADLOCK FALSE
