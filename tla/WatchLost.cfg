SPECIFICATION FairSpec
CONSTANTS
  Files = {lib, manifest}
  Generated = {}
  MaxSaves = 1
  MaxTouches = 0
PROPERTIES EverySaveLands
CHECK_DEADLOCK FALSE
