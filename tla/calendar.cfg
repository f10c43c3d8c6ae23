CONSTANTS
  q1 = q1
  q2 = q2
  a1 = a1
  a2 = a2
  x = x
  Post = {x, y}
  Queue = {q1, q2}
  Account = {a1, a2}
  AccountOf <- OwnAccounts
  Children <- Mixed
  Day = 2
  Week = 2
  Horizon = 2
  Plans <- EveryDay
  Floors = {1}
  Reorders = TRUE
  MaxTime = 1
  MaxPosition = 2
  MaxChanges = 1
  None = None
  Offset <- NoOffsets
  Rules <- FewRules
  FirstDays <- Months
  WeekLength = 2
  Lookahead = 2
  Runner = {v, w}
  Elsewhere = {}
  MaxDay = 4
  MaxEdits = 1
  MaxDeaths = 1
SPECIFICATION CalendarSpec
CHECK_DEADLOCK FALSE
INVARIANTS QueueOrder PostFollowsChildren OncePerDate
