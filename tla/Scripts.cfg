SPECIFICATION ScriptsSpec
CONSTANTS
  Processes = {"a", "b"}
  Frag <- TwoFrag
  Readers = {}
  Docs <- MCDocs
  Large = {}
  Forms = {"plain"}
  MaxWrites = 4
  MaxBuilds = 2
  Names <- MCNames
  NONE = NONE
  TORN = TORN
INVARIANTS UnionMerged
CHECK_DEADLOCK FALSE
