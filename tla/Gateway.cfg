SPECIFICATION Spec
CONSTANTS
  Conns = {c1, c2}
  AuthedConns = {c1}
  Broadcasters = {b1}
  MaxConns = {1, 2}
  SendCap = 1
  MaxDrops = 0
  MaxBroadcasts = 2
  LimitSetups <- Limiters
  LimitMax = 2
  LimitWindow = 1
  MaxLimitTime = 2
  MaxCalls = 5
  MaxLimitFaults = 1
  Gateways = {gw1}
  Requests = {r1, r2}
  AccessLife = 1
  RefreshLife = 2
  PurgeAbove = 1
  MaxSessionTime = 3
  MaxTokens = 4
  MaxSessionFaults = 1
  Domains <- Digits
  RoundFunctions <- Rounds
  Emails = {e1, e2}
  Registrations = {1, 2}
  SeqFaults = 1
  CreateFaults = 1
  Earlier = {0, 1, 2, 3, 7}
  Handlers = {h1, h2}
  EntriesEach = 2
  ChanBuffer = 2
  BatchSize = 2
  Stores = {TRUE, FALSE}
  RiskSetups <- RiskCases
  DefaultRisk <- DefaultPair
  Submitters = {1, 2}
  Minute = 1
  Hour = 2
  Day = 3
  NearDivisor = 1000000000
  MarketSetups <- MarketCases
  Intervals <- Lengths1
  TradePrices = {1, 2}
  TradeQtys = {1}
  TradesBuffer = 2
  MaxCandles = 2
  MaxTrades = 2
  DayLength = 1
  Throttle = 1
  Readers = {1}
INVARIANTS
  SlotsAccounted
  RateBound
  RevocationHolds
  IdsDistinct
  NothingDisappears
  RulesRemember
  CandlesAgree
PROPERTIES
  ConnectionsEnd
CHECK_DEADLOCK FALSE
