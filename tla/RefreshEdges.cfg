CONSTANTS
  Packages <- MCPackages
  Norm <- OwnNamespaces
  Contents <- MCContents
  Items <- MCItems
  Uses <- MCUses
  Unreadable = {}
  Settings = {"rich"}
  RichSettings = {"rich"}
  Refreshers = {"r1"}
  Helper = FALSE
  Undo = TRUE
  MaxEdits = 2
  MaxRuns = 3
  MaxChanges = 5
  NONE = NONE
SPECIFICATION Spec
INVARIANTS EdgesSurvive
CHECK_DEADLOCK FALSE
