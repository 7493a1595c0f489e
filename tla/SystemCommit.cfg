SPECIFICATION SystemSpec
CONSTANTS
  Items <- SystemItems
  BlankItem <- ZeroItem
  NaN = NaN
  NegZero = NegZero
  None = None
  Fields = {"armed", "landed_state", "global_position"}
  Threshold = 1
  ArmedValues = {"DISARMED"}
  LandedValues = {"ON_GROUND"}
  Gcs = {g1, g2}
  SendResults = {TRUE}
  MaxCount = 2
  MaxRevisions = 2
  MaxTime = 0
  Plans <- PointPlans
  Retries = FALSE
  Repeats = FALSE
  MaxUploads = 2
  MaxLosses = 0
  MaxPx4Losses = 0
  MaxRestarts = 0
INVARIANTS
  CommittedIsAccepted
