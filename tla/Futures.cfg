SPECIFICATION FairSpec
CONSTANTS
  Handlers = {"h1", "h2"}
  Tickers = {"ticker"}
  Funders = {"funder"}
  Deployments <- AllDeployments
  MaxCalls = 4
INVARIANTS
  Solvent
  PositionsAccounted
PROPERTIES
  PositionsEnd
CHECK_DEADLOCK FALSE
