CONSTANTS
  Packages <- MCPackages
  Norm <- OwnNamespaces
  Contents <- MCContents
  Items <- MCItems
  Uses <- MCUses
  Unreadable = {}
  Settings = {"rich", "trimmed"}
  RichSettings = {"rich", "trimmed"}
  Refreshers = {"r1"}
  Helper = FALSE
  Undo = TRUE
  MaxEdits = 0
  MaxRuns = 3
  MaxChanges = 3
  NONE = NONE
SPECIFICATION Spec
INVARIANTS ReuseSameSettings
CHECK_DEADLOCK FALSE
