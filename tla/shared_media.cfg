CONSTANTS
  None = None
  New = New
  Gone = Gone
  Page = {g}
  Request = {p, q}
  Post = {m, n}
  Asset = {a, s}
  Library = {}
  Shared = {s}
  MaxRequests = 4
  MaxFaults = 0
SPECIFICATION Spec
CHECK_DEADLOCK FALSE
INVARIANTS ChosenIsKept
