SPECIFICATION Spec
CONSTANTS
  NaN = NaN
  MessageIds <- MCMessageIds
  Commands <- MCCommands
  Params <- MCParams
INVARIANTS
  ClassificationsAgree
  OnlyStationsChange
