SPECIFICATION FairSpec
CONSTANTS
  alice = alice
  bob = bob
  Users = {alice, bob}
  Cancellers = {alice, bob}
  Flows <- IcebergFlow
  EngineSTP = "disabled"
PROPERTIES
  ProcessingEnds
CHECK_DEADLOCK FALSE
