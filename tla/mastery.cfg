SPECIFICATION Spec
CONSTANTS
  Workers = {w1, w2}
  Topics = {"fractions", "equations"}
  Chapters = {"numbers", "algebra"}
  ChapterOf <- SmallChapterOf
  Evaluations = {e1, e2}
  Sheets <- SmallSheets
  Registrations = 1
  MaxAsked = 3
  MaxRemarks = 1
INVARIANTS
  ScoreOnRecord
  ProcessedWhole
  HistoryIsChain
  AggregatesAreAverages
PROPERTIES
  RequestsReturn
CHECK_DEADLOCK FALSE
