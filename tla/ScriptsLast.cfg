SPECIFICATION ScriptsSpec
CONSTANTS
  Processes = {"a", "b"}
  Frag <- TwoFrag
  Readers = {}
  Docs <- MCDocs
  Large = {}
  Forms = {"plain"}
  MaxWrites = 2
  MaxBuilds = 1
  Names <- MCNames
  NONE = NONE
  TORN = TORN
INVARIANTS LastHoldsUnion
CHECK_DEADLOCK FALSE
