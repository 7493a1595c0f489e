SPECIFICATION Spec
CONSTANTS
  Items = {}
  BlankItem <- ZeroItem
  NaN = NaN
  NegZero = NegZero
  None = None
  Cases <- AllCases
  Budgets <- MCBudgets
INVARIANTS
  NoOpIffSameNumbers
  AlignmentIsLongest
  ItemsAccountedFor
  BudgetBoundsChange
  AuthorityMonotone
  OperatorKeepsDestination
  NoTierOverridesHardLimits
CHECK_DEADLOCK FALSE
