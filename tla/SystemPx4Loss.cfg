SPECIFICATION SystemSpec
CONSTANTS
  Items <- SystemItems
  BlankItem <- ZeroItem
  NaN = NaN
  NegZero = NegZero
  None = None
  Fields = {"armed", "landed_state", "global_position"}
  Threshold = 1
  ArmedValues = {"DISARMED"}
  LandedValues = {"ON_GROUND"}
  Gcs = {g1}
  SendResults = {TRUE}
  MaxCount = 2
  MaxRevisions = 3
  MaxTime = 0
  Plans <- RoutePlans
  Retries = FALSE
  Repeats = FALSE
  MaxUploads = 3
  MaxLosses = 0
  MaxPx4Losses = 2
  MaxRestarts = 0
INVARIANTS
  CommittedIsAccepted
  EveryCommitHasALoad
PROPERTIES
  Px4TakesProposal
