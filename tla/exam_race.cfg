SPECIFICATION PublishedSpec
CONSTANTS
  Workers = {w1, w2}
  Pupils = {p1}
  Guests = {g1}
  Configs = {c1}
  MaxPapers = 3
  MaxAttempts = 3
  MaxHistory = 8
  MaxEvents = 1
SYMMETRY Symmetry
INVARIANTS
  OwnMockPaper
  SeatedPaper
