CONSTANTS
  Compilers = {"c1", "c2", "c3"}
  Setups <- MCSetups
  Key <- MCKey
  Size <- MCSize
  OCC = 3
  Pair <- MCPair
  StreamSize <- MCStreamSize
  Generators <- MCGenerators
  SPARE = 5
  MAX_INVOCATIONS = 2
  MAX_INVOCATION_BYTES = 8
  MAX_ATTACHMENT_BYTES = 24
  MAX_CONTROL_BYTES = 4
  HEADER = 3
  LOSS = 2
  SLACK = 1
  ENTRY = 1
  FOREIGN = FOREIGN
  NONE = NONE
  TORN = TORN
  MaxEdits = 1
  MaxFaults = 1
SPECIFICATION Spec
INVARIANTS CaptureTypeOK CapturedOrTold HeldOrTold RecordsCompiled AssemblyExact
CHECK_DEADLOCK FALSE
