CONSTANTS
  m1 = m1
  m2 = m2
  Msg <- Letters
  Top <- Replies
  Sites <- Three
  MaxTime = 1
  Target = 1
  Days = 0
  Web <- Threads
  MaxRequests = 2
  MaxFaults = 1
SPECIFICATION Spec
CHECK_DEADLOCK FALSE
PROPERTIES AnnouncesOnce ClosedStaysClosed NoneSkipped OverdueIsAlerted
