SPECIFICATION Spec
CONSTANTS
  Items <- EvidenceItems
  BlankItem <- ZeroItem
  NaN = NaN
  NegZero = NegZero
  None = None
  Fields = {"armed", "landed_state", "global_position"}
  Threshold = 1
  ArmedValues = {"ARMED", "DISARMED"}
  LandedValues = {"IN_AIR", "ON_GROUND"}
  Gcs = {g1}
  SendResults = {TRUE}
  MaxCount = 1
  MaxRevisions = 2
  MaxTime = 3
PROPERTIES
  OfferedOnFreshEvidence
  FlightStateAgreesWithEvidence
