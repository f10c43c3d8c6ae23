CONSTANTS
  p1 = p1
  p2 = p2
  a = a
  b = b
  PP = {p1}
  Post = {a}
  PostOf <- OnePost
  Virtual = {}
  Commented = {}
  Worker = {w1, w2}
  MaxRetries = 1
  Backoff <- ShortBackoff
  MaxConcurrent = 1
  MaxTime = 1
  MaxEdits = 1
  Edits <- StaleEdits
  Faults = {"reject", "lost", "db", "crash", "straddle"}
SPECIFICATION Spec
INVARIANTS FailedIsExhausted
