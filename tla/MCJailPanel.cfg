SPECIFICATION Spec
CONSTANTS
  a = a
  b = b
  Jails <- MCJails
  None = None
  Kinds = {"brew"}
  Capacity = 1
  MaxStarts = 2
  Budgets <- MCBudgets
INVARIANTS TypeOK OwnResult ShowsTruth
PROPERTY Watched
CHECK_DEADLOCK FALSE
