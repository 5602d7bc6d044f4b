SPECIFICATION Spec
CONSTANTS
  MaxFilterDepth = 4
  Fields <- MCFields
  Spelled <- MCSpelled
  Limits <- MCLimits
  FieldLength <- MCFieldLength
  UrlLength <- MCUrlLength
  MaxLimit = 8
  DefaultLimit = 5
  MaxOffset = 8
  Tiebreaker <- id
  Documents <- MCDocuments
  Indexes <- MCIndexes
  Inputs <- MCInputs
  Narrowings <- MCNarrowings
  Orders <- MCOrders
  Pages <- MCPages
INVARIANTS
  CriteriaKeepTheirMeaning
  AdaptersAgree
CHECK_DEADLOCK FALSE
