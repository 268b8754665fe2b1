SPECIFICATION Spec
CONSTANTS
  Handlers = {"h1"}
  Tickers = {"ticker"}
  Funders = {"funder"}
  Deployments <- Partial
  MaxCalls = 4
INVARIANT
  NothingOverclosed
CHECK_DEADLOCK FALSE
