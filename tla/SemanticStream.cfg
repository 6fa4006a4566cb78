CONSTANTS
  Drivers = {"d1", "d2"}
  MAX_STREAM_BYTES = 9
  Requests = {1, 2}
  Attempts = 2
  FREE = FREE
  ABSENT = ABSENT
  EMPTY = EMPTY
  Domain <- MCDomain
  Sources = {"s1"}
  Huge = {"s2"}
  NONE = NONE
  HEADER = 2
  SOURCE = 1
  ROW = 1
  PAGE = 1
  MIN_PAGE_BYTES = 1
  PAGE_ROWS = 1
  MAX_TRAVERSAL_WORK = 4
  SourceChecks = 1
  ReadBudget = 6
  MaxEdits = 1
  MaxFaults = 1
SPECIFICATION FairSpec
INVARIANTS TypeOK NothingForgotten PublishedPaidFor IndexValidates LossIsTold AttachedFresh
PROPERTIES InterruptedStaysClosed EveryStreamDecided
CHECK_DEADLOCK FALSE
