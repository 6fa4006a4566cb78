SPECIFICATION Spec
CONSTANTS
  n1 = n1
  n2 = n2
  plain = plain
  bad = bad
  tools = tools
  NONE = NONE
  MAX_OPERATIONS = 2
  MAX_CARGO_OPERATIONS = 2
  MaxOrdinal = 3
  MaxInFlight = 2
  Explicit = TRUE
  Nonces <- MCNonces
  Overlays <- MCOverlays
  InvalidOverlays <- MCInvalid
  SelectionOverlays <- MCSelection
INVARIANTS
  TypeOK
  AckBeforeSpawn
  NoOrphan
  CarrierCustody
  LegalHistory
  TerminalAfterWait
  RecordsAgree
  DistinctNonces
  FramesSuffice
SYMMETRY Symmetry
CHECK_DEADLOCK TRUE
