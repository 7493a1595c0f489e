SPECIFICATION Spec
CONSTANTS
  Items <- ServiceItems
  BlankItem <- ZeroItem
  NaN = NaN
  NegZero = NegZero
  None = None
  Fields = {"armed", "landed_state", "global_position"}
  Threshold = 1
  ArmedValues = {"DISARMED"}
  LandedValues = {"ON_GROUND"}
  Gcs = {g1, g2}
  SendResults = {TRUE}
  MaxCount = 1
  MaxRevisions = 1
  MaxTime = 0
PROPERTIES
  ResultReachesUploader
