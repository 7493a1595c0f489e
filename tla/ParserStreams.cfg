SPECIFICATION Spec
CONSTANTS
  Pieces = 3
  Datagrams <- MCDatagrams
  MaxDatagrams = 3
INVARIANTS
  DirectionsIndependent
  ReportedWereReceived
  WholeFramesReported
CHECK_DEADLOCK FALSE
