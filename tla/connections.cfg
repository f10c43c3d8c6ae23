CONSTANTS
  a1 = a1
  a2 = a2
  p1 = p1
  f1 = f1
  Acct <- Accounts
  Kinds <- Mixed
  Start <- Accounts
  Post <- Posts
  Flow <- Trips
  Web <- Threads
  Thread <- Engine
  MaxTokens = 2
  MaxRequests = 2
  MaxFaults = 1
SPECIFICATION Spec
CHECK_DEADLOCK FALSE
 
PROPERTIES ShutOutIsNoticed PostsKeepTargets
