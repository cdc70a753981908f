SPECIFICATION FairSpec
CONSTANTS
  app = app
  Apps = {app}
  Responses <- MCResponses
  MaxCheckins = 2
  MaxStops = 1
CHECK_DEADLOCK FALSE
INVARIANTS
  ApprovalsAreGiven
  ReportedIsDecided
  LeftOverIsDeclined
  IInv
PROPERTIES
  ReportComes
