SPECIFICATION Spec
CONSTANTS
  c1 = c1
  c2 = c2
  pairA = pairA
  pairB = pairB
  component = component
  linux = linux
  NoGroup = NoGroup
  None = None
  Targets <- MCTargets
  CampaignIds <- OneCampaign
  Catalog <- MCCatalog
  Installed <- MCInstalled
  Requests <- OneRequest
  RequestsOf <- OneRequestsOf
  Policy <- MCPolicy
  DriftVersions = {}
  Listings = {"version", "blank", "absent"}
  Answers <- AllCompatible
  Unsteady = {1, 2}
  MaxChanges = 4
  MaxGeneration = 2
  MaxIncarnation = 2
INVARIANT AppliedOnce
CHECK_DEADLOCK FALSE
