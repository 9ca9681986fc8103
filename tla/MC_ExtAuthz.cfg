CONSTANTS
  Names = {w1}
  Subjects = {alice, bob}
  Requests = {r1, r2}
  MaxWorkflows = 2
  MaxPods = 2
  None = None
SYMMETRY Interchangeable
SPECIFICATION Spec
INVARIANT TypeOK
INVARIANT BearerForCreator
INVARIANT EndedPodRefused
INVARIANT CachedSubjectTrue
