SPECIFICATION Spec
CONSTANTS
  Workers = {w1}
  ObjectiveQs = {o1}
  TeacherQs = {t1}
  MaxMark = 1
  MaxUploads = 2
  MaxReviews = 1
  MaxVersions = 2
  MaxEvents = 2
INVARIANTS
  TypeOK
  NoOpenReviewWhenLocked
  AnnouncedOnRecord
PROPERTIES
  OnlyLateMarksStaleTotals
  ImplementsContract
