SPECIFICATION Spec
CONSTANTS
  Runners = {r1, r2}
SYMMETRY Symmetry
INVARIANTS
  RevisionTellsSchema
  ScriptsFit
  MigratedIsDeclared
