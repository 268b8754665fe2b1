SPECIFICATION Spec
CONSTANTS
  AmmUsers = {"ann", "bob"}
  AmmStart = 6
  SeedReserve = 8
  FeeNum = 1
  FeeDen = 4
  AmmAmounts = {2, 4}
  AmmSetups <- PoolSetups
  MaxAmmFaults = 1
  ClaimUsers = {"ann", "bob"}
  Admins = {9}
  ClaimSets <- TwoClaims
  TxOf <- Txids
  Transfers <- Chain
  DepositAddress <- AddressOf
  MinConf = 2
  MaxHead = 2
  MaxClaimFaults = 2
  Applicants = {u1}
  KycSetups <- ReviewSetups
  KycAdmins = {1, 2}
  Payers = {1}
  CacheTTL = 1
  MaxKycTime = 1
  KycFaults = 1
  PnlUsers = {u1, u2}
  Bases = {"b"}
  PnlPairs <- TwoQuotes
  PnlFills <- FillsSeen
  MaxFills = 3
  MaxDay = 1
  PnlFaults = 1
  DeskUsers = {"ann", "bob"}
  DeskAccounts = {"spot", "futures"}
  DeskSetups <- DeskJobs
  Addresses = {"a1", "a2", "a3"}
  PriceSetups <- FeedSetups
  Quotes = {1, 2}
  AmmQuote = 7
  Corrections <- Adjustments
  MsgBuffer = 1
  Staleness = 0
  ReconnectMin = 1
  ReconnectMax = 2
  MaxConnAge = 1
  PriceReaders = {1}
  PriceAdmins = {1, 2}
  FillIds = {"f1", "f2", "f3"}
  Gateways = {"g1", "g2"}
  DedupSetups <- DedupCases
  LowerCase <- Lower
  BookSetups <- BookCases
  BookAdmins = {1, 2}
  BookPayouts = {1}
INVARIANTS
  PoolBacked
  CreditedOnce
  AutoApprovedOnChain
  LevelEarned
  PnLAddsUp
  LedgerBacked
  AddressKept
  AdjustedOnce
  NotSettledAgain
  WhitelistHonoured
PROPERTIES
  SwapKeepsProduct
CHECK_DEADLOCK FALSE
