SPECIFICATION FairSpec
CONSTANTS
  alice = alice
  bob = bob
  Users = {alice, bob}
  Cancellers = {alice, bob}
  Flows <- AllFlows
  EngineSTP = "disabled"
INVARIANTS
  BookSound
  TradesLawful
PROPERTIES
  FairPriority
  GoneForGood
  MatchingEnds
CHECK_DEADLOCK FALSE
