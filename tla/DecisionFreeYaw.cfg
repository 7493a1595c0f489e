SPECIFICATION Spec
CONSTANTS
  Items = {}
  BlankItem <- ZeroItem
  NaN = NaN
  NegZero = NegZero
  None = None
  Cases <- FreeYawCases
  Budgets <- MCBudgets
INVARIANTS
  NoOpIffSameHash
CHECK_DEADLOCK FALSE
