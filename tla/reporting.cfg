SPECIFICATION Spec
CONSTANTS
  s1 = s1
  s2 = s2
  a1 = a1
  a2 = a2
  a3 = a3
  Workers = {w1, w2}
  Students = {s1, s2}
  Attempts <- MCAttempts
  Sat = {a1, a3}
  Klass = class
  Questions = {q1}
  Configured = TRUE
  MaxRequests = 1
  MaxJobs = 1
  MaxEvents = 1
INVARIANTS
  JobsTellAll
  NoticesTrue
PROPERTIES
  JobsEnd
CHECK_DEADLOCK FALSE
