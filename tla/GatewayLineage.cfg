SPECIFICATION Spec
CONSTANTS
  Items <- LineageItems
  BlankItem <- ZeroItem
  NaN = NaN
  NegZero = NegZero
  None = None
  Fields = {"armed", "landed_state", "global_position"}
  Threshold = 1
  Gcs = {g1}
  ArmedValues = {"DISARMED"}
  LandedValues = {"ON_GROUND"}
  SendResults = {TRUE, FALSE}
  MaxCount = 2
  MaxRevisions = 3
  MaxTime = 0
INVARIANTS
  TypeOK
  UploadDecidedOnce
  Px4UploadHasProposal
  LineageOrdered
  NoSupersededContentRecommitted
  PendingStillAuthorized
  CommittedInsideContract
PROPERTIES
  LedgerSpec
