CONSTANTS
  p1 = p1
  p2 = p2
  p3 = p3
  u1 = u1
  u2 = u2
  u3 = u3
  PP = {p1, p2, p3}
  Reviewer = {u1, u2, u3}
  MaxStages = 2
  MaxSubmits = 2
  Modes <- All
SYMMETRY Symmetry
SPECIFICATION Spec
INVARIANT OneDecisionPerSubmission
PROPERTIES FollowsLifecycle StagesHold StageDecidedOnce
