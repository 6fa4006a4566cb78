SPECIFICATION FairSpec
CONSTANTS
  Files = {lib, manifest, gen}
  Generated = {gen}
  MaxSaves = 3
  MaxTouches = 1
PROPERTIES OnlySavesTrigger NoticedSavesLand
CHECK_DEADLOCK FALSE
