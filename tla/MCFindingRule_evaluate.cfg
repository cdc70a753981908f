SPECIFICATION Spec
CONSTANTS
  app = app
  other = other
  unknown = unknown
  word = word
  Words <- MCWords
  MaxSegment = 2
  Tables <- MCTables
  TargetName <- MCTargetName
  Recommended <- MCRecommended
  Unknown <- MCUnknown
CHECK_DEADLOCK FALSE
INVARIANTS
  IInv
  ReportsExactlyOutdated
  ProperVersionsCompareRight
  UnknownIsReported
