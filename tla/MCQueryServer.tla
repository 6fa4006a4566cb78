--------------------------- MODULE MCQueryServer ----------------------------
(* Instances of QueryServer: nodes 1 to 3, of which 1 and 3 share a name,  *)
(* and graphs made of some of six edges.                                   *)
EXTENDS QueryServer

Edge(s, r, t) == [source |-> s, relation |-> r, target |-> t]
MCEdges == << Edge(1, 1, 2), Edge(2, 1, 1), Edge(2, 1, 3), Edge(1, 2, 3), Edge(3, 1, 3), Edge(4, 1, 2) >>
Graph(kept) ==
  [nodes |-> 1..3, edges |-> Picked(MCEdges, kept)]
MCHistories == {<< Graph(kept \union {1, 4, 6}), Graph(DOMAIN MCEdges) >> : kept \in SUBSET {2, 3, 5}}

MCTier == [name \in {"one", "two"} |->
  IF name = "one" THEN [n \in {1, 3} |-> IF n = 1 THEN 0 ELSE 2] ELSE [n \in {2, 3} |-> 1]]
MCName == [n \in 1..4 |-> IF n = 3 THEN 1 ELSE n]
MCLine == [n \in 1..4 |-> n]
MCFile == [n \in 1..4 |-> IF n = 3 THEN "two" ELSE "one"]

Command0 ==
  [cmd |-> "refs", name |-> "one", id |-> NOBODY, at |-> 0, limit |-> 3, depth |-> 2,
   directions |-> Directions, relations |-> {1, 2}, only |-> 1..4]
MCCommands ==
  { Command0, [Command0 EXCEPT !.limit = 1], [Command0 EXCEPT !.id = 3, !.directions = {"incoming"}],
    [Command0 EXCEPT !.directions = {"outgoing"}, !.relations = {1}, !.depth = 3],
    [Command0 EXCEPT !.id = 2, !.only = {1, 2}],
    [Command0 EXCEPT !.cmd = "find", !.name = "two", !.limit = 1],
    [Command0 EXCEPT !.cmd = "find", !.at = 2], [Command0 EXCEPT !.cmd = "context", !.limit = 1] }
MCSingle == {[Command0 EXCEPT !.depth = 1]}
=============================================================================
