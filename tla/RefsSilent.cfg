CONSTANTS
  Nodes = {1, 2, 3, 4}
  Relations = {1, 2}
  Tier <- MCTier
  Member = {3}
  Length <- MCLine
  Name <- MCName
  Path <- MCLine
  Line <- MCLine
  File <- MCFile
  NOBODY = NOBODY
  Histories <- MCHistories
  Commands <- MCSingle
  Clients = {"c1", "c2"}
  Servers = {"s1"}
  Ports = {"p1", "p2"}
  NONE = NONE
  FOREIGN = FOREIGN
  CUT = CUT
SPECIFICATION Spec
INVARIANT EveryEdgeReported
CHECK_DEADLOCK FALSE
