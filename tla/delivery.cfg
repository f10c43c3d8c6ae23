CONSTANTS
  PlatformPost = {r}
  Drafts <- Posts
  MaxRetries = 3
  MaxPolls = 3
  MaxFaults = 4
  Threshold = 3
  MaxReminders = 2
  MaxCrashes = 2
  Delivery = {d1, d2}
  Runner = {r1}
  MaxAttempts = 3
  Backoff <- ShortBackoff
  Faults = {"reject", "lost", "crash"}
SPECIFICATION AllSpec
CHECK_DEADLOCK FALSE
INVARIANTS SentOnce PendingIsKept FinishedFirst CommentOnPost EscalatedAfterReminders
PROPERTIES Settles Promised StalledEscalates
