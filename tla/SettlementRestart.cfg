SPECIFICATION FairSpec
CONSTANTS
  Users = {"ann", "bob"}
  Funds <- Tight
  FeeUnit = 10
  TakerRate = 2
  MakerRate = 1
  Deployments <- Restarting
  MaxCrashes = 1
  MaxTransfers = 1
INVARIANTS
  SettledOnce
CHECK_DEADLOCK FALSE
