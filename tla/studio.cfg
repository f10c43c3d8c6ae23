CONSTANTS
  x = x
  d1 = d1
  d2 = d2
  d3 = d3
  d4 = d4
  None = None
  Unmade = Unmade
  Deleted = Deleted
  NoAnswer = NoAnswer
  y = y
  Asset = {x}
  Post = {x}
  Folder = {d1, d2, d3, d4}
  Name = {"x", "y"}
  Trees <- OneTree
  Web = {"w1", "w2"}
  Handler = {x, y}
  NewPost = {x, y}
  Idea = {x}
  Offered = {2}
  MaxColumns = 4
  MaxDeleted = 1
  MaxIdeaRequests = 4
  Url = {x, y}
  Answers <- Pages
  TTL = 1
  PageSize = 2
  MaxFeeds = 2
  MaxPages = 2
  MaxTime = 2
  FileRows <- File
  Account = {x, y}
  Cells <- Misread
  MaxUploads = 2
  MaxImportRequests = 6
  Tab = {x, y}
  Medium = {x, y}
  Library = {x}
  Shared = {}
  MaxDraftRequests = 5
  Comment = {x, y}
  User = {x, y}
  MaxChanges = 1
  MaxText = 2
  MaxVersions = 2
  MaxRequests = 2
  MaxFaults = 1
SPECIFICATION StudioSpec
CHECK_DEADLOCK FALSE
INVARIANTS InFlightKeepsFiles VersionsKeepFiles ApprovedAsReviewed ShownAreSubscribed ImportedOnce ChosenIsKept OneDraftPerPage
PROPERTIES CleanupSparesReferenced DeletedStaysAway
