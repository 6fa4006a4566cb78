CONSTANTS
  Packages = {"q"}
  Norm <- OneNamespace
  Contents <- ThreeContents
  Items <- MCItems
  Uses <- NoUses
  Unreadable = {"q"}
  Settings = {"rich"}
  RichSettings = {"rich"}
  Refreshers = {"r1", "r2"}
  Helper = FALSE
  Undo = FALSE
  MaxEdits = 2
  MaxRuns = 2
  MaxChanges = 4
  NONE = NONE
SPECIFICATION Spec
INVARIANTS CurrentIsFaithful
CHECK_DEADLOCK FALSE
