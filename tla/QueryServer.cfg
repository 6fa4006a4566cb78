CONSTANTS
  Nodes = {1, 2, 3, 4}
  Relations = {1, 2}
  Tier <- MCTier
  Member = {3}
  Length <- MCLine
  Name <- MCName
  Path <- MCLine
  Line <- MCLine
  File <- MCFile
  NOBODY = NOBODY
  Histories <- MCHistories
  Commands <- MCCommands
  Clients = {"c1"}
  Servers = {"s1", "s2"}
  Ports = {"p1", "p2"}
  NONE = NONE
  FOREIGN = FOREIGN
  CUT = CUT
SPECIFICATION Spec
INVARIANT AnswersMeetReference
PROPERTY EveryQueryAnswered
CHECK_DEADLOCK FALSE
