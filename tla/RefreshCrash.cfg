CONSTANTS
  Packages <- MCPackages
  Norm <- SharedNamespace
  Contents <- MCContents
  Items <- MCItems
  Uses <- MCUses
  Unreadable = {}
  Settings = {"rich"}
  RichSettings = {"rich"}
  Refreshers = {"r1"}
  Helper = TRUE
  Undo = TRUE
  MaxEdits = 2
  MaxRuns = 3
  MaxChanges = 4
  NONE = NONE
SPECIFICATION Spec
INVARIANTS TypeOK ReuseSound DefinitionsLinked
CHECK_DEADLOCK FALSE
