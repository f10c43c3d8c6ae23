CONSTANTS
  p1 = p1
  p2 = p2
  a = a
  b = b
  PP = {p1, p2}
  Post = {a}
  PostOf <- OnePost
  Virtual = {}
  Commented = {p1, p2}
  Worker = {w1, w2}
  MaxRetries = 1
  Backoff <- ShortBackoff
  MaxConcurrent = 2
  MaxTime = 2
  MaxEdits = 2
  Edits <- CalendarEdits
  Faults = {"crash"}
SPECIFICATION Spec
INVARIANTS AtMostOnce
