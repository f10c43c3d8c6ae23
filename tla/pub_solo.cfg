CONSTANTS
  p1 = p1
  p2 = p2
  a = a
  b = b
  PP = {p1, p2}
  Post = {a}
  PostOf <- OnePost
  Virtual = {p2}
  Commented = {p1, p2}
  Worker = {w1}
  MaxRetries = 3
  Backoff <- LongBackoff
  MaxConcurrent = 1
  MaxTime = 3
  MaxEdits = 3
  Edits <- ComposerEdits
  Faults = {"reject"}
SPECIFICATION FairSpec
INVARIANTS CommentsFollowDelivery
PROPERTIES DueIsSettled
