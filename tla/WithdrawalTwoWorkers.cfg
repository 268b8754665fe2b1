SPECIFICATION FairSpec
CONSTANTS
  w1 = w1
  w2 = w2
  w3 = w3
  Nobody = Nobody
  Withdrawals = {w1, w2, w3}
  AmountOf <- Amounts
  Funds = 5
  Limit = 3
  ReviewThreshold = 2
  Admins = {"a1", "a2"}
  Deployments <- TwoWorkers
  MaxSends = 2
INVARIANTS
  SentOnce
CHECK_DEADLOCK FALSE
