SPECIFICATION FairSpec
CONSTANTS
  Users = {"ann", "bob"}
  Funds <- Tight
  FeeUnit = 10
  TakerRate = 2
  MakerRate = 1
  Deployments <- AllDeployments
  MaxCrashes = 1
  MaxTransfers = 1
INVARIANTS
  FundsSafe
  LocksHaveOwners
PROPERTIES
  EveryTradeSettles
CHECK_DEADLOCK FALSE
