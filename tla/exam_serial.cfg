SPECIFICATION Spec
CONSTANTS
  Workers = {w1}
  Pupils = {p1}
  Guests = {g1}
  Configs = {c1, c2}
  MaxPapers = 3
  MaxAttempts = 3
  MaxHistory = 9
  MaxEvents = 2
INVARIANTS
  TypeOK
  HistoryIsPath
  PaperReady
  OneRegularAttempt
  LatestIsNewest
  AnnouncedOnce
