SPECIFICATION FairSystemSpec
CONSTANTS
  Items <- SystemItems
  BlankItem <- ZeroItem
  NaN = NaN
  NegZero = NegZero
  None = None
  Fields = {"armed", "landed_state", "global_position"}
  Threshold = 1
  ArmedValues = {"DISARMED"}
  LandedValues = {"ON_GROUND"}
  Gcs = {g1}
  SendResults = {TRUE, FALSE}
  MaxCount = 2
  MaxRevisions = 5
  MaxTime = 0
  Plans <- ShortPlans
  Retries = TRUE
  Repeats = TRUE
  MaxUploads = 2
  MaxLosses = 2
  MaxPx4Losses = 0
  MaxRestarts = 1
PROPERTIES
  ServedItemIsAuthorized
  ServiceSpec
  UploadsAnswered
  TransferEnds
