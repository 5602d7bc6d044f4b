SPECIFICATION Spec
CONSTANTS
  Ids = {1, 2, 3}
  Keys = {1, 2}
  Absent = Absent
  None = None
  Operations <- MCOperations
  MaxOperations = 2
  MaxTransactions = 1
  Beginnings <- MCBeginnings
  Plans <- MCPlans
  BatchSizes = {1, 2}
INVARIANTS
  EndIsTold
  NobodyWaits
  HandedInOrder
  NothingLost
  AnswersAddUp
CHECK_DEADLOCK FALSE
