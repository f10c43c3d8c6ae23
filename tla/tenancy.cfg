CONSTANTS
  ann = ann
  bob = bob
  eve = eve
  User <- People
  MaxWs = 2
  MaxInv = 1
  Invited <- Admins
  Grace = 2
  MaxRequests = 3
  MaxJobs = 2
  MaxCrashes = 1
SPECIFICATION Spec
SYMMETRY Alike
CHECK_DEADLOCK FALSE
INVARIANTS OwnerKept InvitationSpentOnce WorkspaceKept DeletionWillRun
PROPERTIES PurgeAfterGrace
