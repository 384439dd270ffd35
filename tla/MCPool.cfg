SPECIFICATION FairSpec
CONSTANTS
  w1 = w1
  w2 = w2
  t1 = t1
  t2 = t2
  c1 = c1
  c2 = c2
  Workers <- MCWorkers
  Callers <- MCCallers
  Campaigns <- MCCampaigns
  ItemsOf <- MCItemsOf
  MayFence = {"x"}
  MaxQueue = 1
  MaxItems = 3
  MaxPump = 2
  MaxSteps = 1
  Starts <- MCStarts
  CallsOf <- MCCallsOf
  None = None
INVARIANTS
  TypeOK
  OneDriver
  LatchSound

  
  
  
CHECK_DEADLOCK FALSE
