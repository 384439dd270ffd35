SPECIFICATION Spec
CONSTANTS
  c1 = c1
  a1 = a1
  None = None
  CampaignIds <- MCCampaignIds
  AttemptIds <- MCAttemptIds
  MaxRecords = 4
  MaxCampaigns = 1
  MaxAttempts = 1
  MaxProvenance = 2
  MaxDecisions = 1
  MaxSnapshot = 2
  MaxRevision = 1
  MaxEpoch = 2
  MaxIncarnation = 2
  MaxFaults = 1
INVARIANTS
  TypeOK
  
  
PROPERTIES
  IncarnationFresh
  FullIsFinal
  
CHECK_DEADLOCK FALSE
