SPECIFICATION Spec
CONSTANTS
  Workers = {w1, w2}
  ObjectiveQs = {o1}
  TeacherQs = {}
  MaxMark = 0
  MaxUploads = 2
  MaxReviews = 1
  MaxVersions = 2
  MaxEvents = 1
INVARIANTS
  NumbersArchived
  TotalledWhenClosed
  CommitsWhole
PROPERTIES
  OnlyStaleRequestsBreakLocks
