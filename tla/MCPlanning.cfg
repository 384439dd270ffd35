SPECIFICATION Spec
CONSTANTS
  c1 = c1
  c2 = c2
  pairA = pairA
  pairB = pairB
  component = component
  linux = linux
  NoGroup = NoGroup
  None = None
  Targets <- MCTargets
  CampaignIds <- MCCampaigns
  Catalog <- MCCatalog
  Installed <- MCInstalled
  Requests <- MCRequests
  RequestsOf <- MCRequestsOf
  Policy <- MCPolicy
  DriftVersions <- MCDrift
  Listings = {"version", "blank", "absent"}
  Answers <- MCAnswers
  Unsteady = {2}
  MaxChanges = 2
  MaxGeneration = 2
  MaxIncarnation = 2
INVARIANTS
  TypeOK
  OneOfAGroupAtATime
  ReportedOnce
  StagesSound
PROPERTIES
  NoBlindDowngrade
CHECK_DEADLOCK FALSE
