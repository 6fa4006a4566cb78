SPECIFICATION Spec
CONSTANTS
  Processes = {w1, w2}
  Readers = {r1}
  Docs = {small, large}
  Large = {large}
  Forms = {"gz", "plain"}
  MaxWrites = 2
  Names = {"graph.json.gz", "graph.json", "graph.html", "GRAPH_REPORT.md"}
  NONE = NONE
  TORN = TORN
INVARIANTS GraphKept
CHECK_DEADLOCK FALSE
