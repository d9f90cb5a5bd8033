SPECIFICATION Spec
CONSTANTS
  a = a
  b = b
  Jails <- MCJails
  None = None
  Kinds = {"root"}
  Capacity = 1
  MaxStarts = 2
  Budgets <- MCBudgets
INVARIANT OwnResult
CHECK_DEADLOCK FALSE
