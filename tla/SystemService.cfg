SPECIFICATION SystemSpec
CONSTANTS
  Items <- SystemItems
  BlankItem <- ZeroItem
  NaN = NaN
  NegZero = NegZero
  None = None
  Fields = {"armed", "landed_state", "global_position"}
  Threshold = 1
  ArmedValues = {"DISARMED"}
  LandedValues = {"ON_GROUND"}
  Gcs = {g1}
  SendResults = {TRUE, FALSE}
  MaxCount = 2
  MaxRevisions = 6
  MaxTime = 0
  Plans <- VariedPlans
  Retries = TRUE
  Repeats = TRUE
  MaxUploads = 3
  MaxLosses = 2
  MaxPx4Losses = 0
  MaxRestarts = 0
INVARIANTS
  SystemTypeOK
  CommittedIsAccepted
  Px4HoldsCurrent
  Px4NeverReturns
  CommittedIsCurrent
PROPERTIES
  Px4TakesProposal
  ServiceSpec
