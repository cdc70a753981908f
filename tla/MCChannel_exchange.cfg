SPECIFICATION FairSpec
CONSTANTS
  MaxMessage = 2
  Handshake = 2
  Sizes = {1, 2, 3}
  Window = 3
CHECK_DEADLOCK FALSE
INVARIANTS
  IInv
  FramesStayWhole
  TooLargeLeavesNoTrace
PROPERTIES
  TasksEnd
  AnswerArrives
  ImplementsExchange
