SPECIFICATION SystemSpec
CONSTANTS
  Items <- SystemItems
  BlankItem <- ZeroItem
  NaN = NaN
  NegZero = NegZero
  None = None
  Fields = {"armed", "landed_state", "global_position"}
  Threshold = 1
  ArmedValues = {"DISARMED"}
  LandedValues = {"ON_GROUND"}
  Gcs = {g1}
  SendResults = {TRUE}
  MaxCount = 2
  MaxRevisions = 3
  MaxTime = 0
  Plans <- PointPlans
  Retries = TRUE
  Repeats = FALSE
  MaxUploads = 1
  MaxLosses = 0
  MaxPx4Losses = 1
  MaxRestarts = 0
PROPERTIES
  Px4TakesProposal
