SPECIFICATION Spec
CONSTANTS
  Processes = {w1, w2}
  Readers = {r1}
  Docs = {small, large}
  Large = {large}
  Forms = {"gz", "plain"}
  MaxWrites = 3
  Names = {"graph.json.gz", "graph.json", "graph.html", "GRAPH_REPORT.md"}
  NONE = NONE
  TORN = TORN
INVARIANTS TypeOK NeverTorn FoundIsRead OneForm OutputsAgree
CHECK_DEADLOCK FALSE
