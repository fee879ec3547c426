CONSTANTS
  Clerks = {c1, c2}
  Desks = {d1, d2}
  Drafts <- MCDrafts
  Targets = {"NEEDS_REVIEW", "ACTIVE"}
  Edits <- MCEdits
  Bank <- MCBank
  Designs <- MCMedium
  Chapters = {{2}}
  Students = {s1, s2}
  WeakTopics = {{}, {2}}
  PageSize = 3
  MaxBankOps = 2
  MaxDesigns = 1
  MaxConfigs = 1
  MaxTurns = 2
  MaxPapers = 2
SYMMETRY Symmetry
SPECIFICATION BegunSpec
INVARIANT DistributionRespected
