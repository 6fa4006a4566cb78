------------------------------ MODULE Queries -------------------------------
(***************************************************************************)
(* find, refs and context over a graph of which the references are edges:  *)
(* operators that compute the answers as query.rs does.  Graphs are sets   *)
(* of nodes and sequences of edges.  Nodes are numbers in the order of     *)
(* their ids; relations in the order of their names.                       *)
(***************************************************************************)
EXTENDS Integers, FiniteSets, Sequences, SequencesExt

CONSTANTS
  Nodes, Relations,
  Tier,                \* Tier[name][n]: how well a node's label matches a
                       \* name, 0 best, 3 worst; absent if it does not
  Member,              \* methods, fields and variants
  Length, Name, Path,  \* of each node's label the length, its place among all
                       \* labels, and that of the node's path
  Line, File,          \* where each node is defined
  NOBODY

Edges == [source : Nodes, relation : Relations, target : Nodes]
Graphs == [nodes : SUBSET Nodes, edges : Seq(Edges)]
Directions == {"incoming", "outgoing"}

(* What is asked: of a name or an id, or (at) of a line of a file.  The    *)
(* code bounds the depth by 5; nothing here needs the bound.               *)
Questions ==
  [cmd : {"find", "refs", "context"}, name : DOMAIN Tier \union {File[n] : n \in Nodes},
   id : Nodes \union {NOBODY}, at : Nat, limit : Nat, depth : Nat \ {0},
   directions : SUBSET Directions, relations : SUBSET Relations, only : SUBSET Nodes]

ASSUME QueriesAssumption ==
  /\ Nodes \subseteq Nat /\ Relations \subseteq Nat /\ NOBODY \notin Nodes
  /\ Member \subseteq Nodes
  /\ \A name \in DOMAIN Tier : /\ DOMAIN Tier[name] \subseteq Nodes
                              /\ \A n \in DOMAIN Tier[name] : Tier[name][n] \in Nat
  /\ {Length, Name, Path, Line} \subseteq [Nodes -> Nat]

(* The arguments of key in the order of its values, which are tuples; and  *)
(* the elements of a sequence at some places.                              *)
Below(a, b) == \E k \in DOMAIN a : a[k] < b[k] /\ \A l \in 1..k - 1 : a[l] = b[l]

InOrder(key) ==
  [i \in 1..Cardinality(DOMAIN key) |->
     CHOOSE x \in DOMAIN key : Cardinality({y \in DOMAIN key : Below(key[y], key[x])}) = i - 1]

Picked(seq, places) ==
  LET order == InOrder([i \in places |-> << i >>]) IN [k \in DOMAIN order |-> seq[order[k]]]

-----------------------------------------------------------------------------
(* Index: the edges out of and into a node, in the order of the graph.     *)
Outs(g, n) == Picked(g.edges, {i \in DOMAIN g.edges : g.edges[i].source = n})
Ins(g, n) == Picked(g.edges, {i \in DOMAIN g.edges : g.edges[i].target = n})

InDeg(g, n) == Len(Ins(g, n))

Degree(g, n) ==
  LET count(edges, r) == Cardinality({i \in DOMAIN edges : edges[i].relation = r}) IN
  [outgoing |-> [r \in Relations |-> count(Outs(g, n), r)],
   incoming |-> [r \in Relations |-> count(Ins(g, n), r)]]

(* sort_key: the better name match, definitions before members, the more   *)
(* referenced, the shorter label, then the order of ids.                   *)
KindTier(n) == IF n \in Member THEN 1 ELSE 0

SortKey(g, name, n) == << Tier[name][n], KindTier(n), -InDeg(g, n), Length[n], n >>

Hits(g, name) == InOrder([n \in g.nodes \intersect DOMAIN Tier[name] |-> SortKey(g, name, n)])

Take(seq, n) == SubSeq(seq, 1, IF n < Len(seq) THEN n ELSE Len(seq))

(* find --at FILE:LINE: what is defined there, or nearest above it.        *)
AtHits(g, file, line) ==
  InOrder([n \in {m \in g.nodes : File[m] = file /\ Line[m] <= line} |-> << -Line[n], n >>])

Find(g, q) ==
  LET hits == IF q.at = 0 THEN Hits(g, q.name) ELSE AtHits(g, q.name, q.at)
      taken == Take(hits, q.limit) IN
  [total |-> Len(hits), returned |-> Len(taken),
   matches |-> [i \in DOMAIN taken |-> [node |-> taken[i], degree |-> Degree(g, taken[i])]]]

(* resolve_subject: an id wins outright; a bare name that several nodes    *)
(* match exactly is ambiguous, and the caller is to choose.                *)
Resolve(g, q) ==
  LET hits == Hits(g, q.name)
      best == Tier[q.name][hits[1]]
      tied == {i \in DOMAIN hits : Tier[q.name][hits[i]] = best} IN
  IF q.id \in g.nodes THEN [subject |-> q.id, candidates |-> <<>>]
  ELSE IF hits = <<>> THEN [subject |-> NOBODY, candidates |-> <<>>]
  ELSE IF best <= 1 /\ Cardinality(tied) > 1
  THEN [subject |-> NOBODY, candidates |-> Take(hits, 12)]
  ELSE [subject |-> hits[1], candidates |-> <<>>]

-----------------------------------------------------------------------------
(* The edges of a node in one direction, as rows of an answer.             *)
Rows(g, n, dir, level) ==
  LET edges == IF dir = "outgoing" THEN Outs(g, n) ELSE Ins(g, n) IN
  [i \in DOMAIN edges |->
    [direction |-> dir, relation |-> edges[i].relation,
     other |-> IF dir = "outgoing" THEN edges[i].target ELSE edges[i].source,
     from |-> n, depth |-> level]]

(* gather: the edges of one node that pass the filters, outgoing first.    *)
(* The filters on the neighbour (kind, crate, text) are the set q.only; a  *)
(* neighbour that is no node of the graph is skipped.                      *)
Gather(g, n, q, level) ==
  LET side(dir) == IF dir \in q.directions THEN Rows(g, n, dir, level) ELSE <<>>
      rows == side("outgoing") \o side("incoming") IN
  Picked(rows, {i \in DOMAIN rows : /\ rows[i].relation \in q.relations
                                    /\ rows[i].other \in g.nodes \intersect q.only})

(* seen_edge: the key of an edge has no direction, so of two edges between *)
(* the same nodes under one relation the first is kept, the outgoing one.  *)
EdgeKey(e) == << e.from, e.other, e.relation >>

Unseen(rows) ==
  Picked(rows, {i \in DOMAIN rows : \A j \in 1..i - 1 : EdgeKey(rows[j]) # EdgeKey(rows[i])})

(* Stable sorts: by direction, relation and label, and by path.            *)
Sorted(rows) ==
  LET rank(d) == IF d = "incoming" THEN 0 ELSE 1
      order == InOrder([i \in DOMAIN rows |->
        << rank(rows[i].direction), rows[i].relation, Name[rows[i].other], i >>]) IN
  [i \in DOMAIN order |-> rows[order[i]]]

ByPath(rows) ==
  LET order == InOrder([i \in DOMAIN rows |-> << Path[rows[i].other], i >>]) IN
  [i \in DOMAIN order |-> rows[order[i]]]

(* One level: what the frontier is linked to, at most limit of it, and the *)
(* neighbours met for the first time are the next frontier.                *)
Found(g, q, frontier, level) ==
  Sorted(Unseen(FlattenSeq([i \in DOMAIN frontier |-> Gather(g, frontier[i], q, level)])))

FirstMet(rows, visited) ==
  LET met == Picked(rows, {i \in DOMAIN rows : /\ rows[i].other \notin visited
                                               /\ \A j \in 1..i - 1 : rows[j].other # rows[i].other}) IN
  [i \in DOMAIN met |-> met[i].other]

Level(g, q, walk, level) ==
  LET found == Found(g, q, walk.frontier, level)
      taken == Take(found, q.limit) IN
  [edges |-> walk.edges \o taken,
   total |-> walk.total + Len(found),
   visited |-> walk.visited \union {taken[i].other : i \in DOMAIN taken},
   frontier |-> FirstMet(taken, walk.visited)]

Start(s) ==
  [edges |-> <<>>, total |-> 0, visited |-> {s}, frontier |-> IF s = NOBODY THEN <<>> ELSE << s >>]

(* Mutant: the last level is not walked (1..depth for 1..=depth). *)
Levels_Exclusive(q) == q.depth - 1

Levels(q) == q.depth

Walk(g, q, s) ==
  LET walk[k \in 0..Levels(q)] == IF k = 0 THEN Start(s) ELSE Level(g, q, walk[k - 1], k) IN walk

Refs(g, q) ==
  LET to == Resolve(g, q)
      end == Walk(g, q, to.subject)[Levels(q)] IN
  [subject |-> to.subject, candidates |-> to.candidates,
   total |-> end.total, returned |-> Len(end.edges), edges |-> end.edges]

(* context: the counts of all relations, and a few edges of each.          *)
Context(g, q) ==
  LET to == Resolve(g, q)
      all == IF to.subject = NOBODY THEN <<>>
             ELSE Gather(g, to.subject,
                    [q EXCEPT !.directions = Directions, !.relations = Relations, !.only = Nodes], 1)
      group(dir, r) == {i \in DOMAIN all : all[i].direction = dir /\ all[i].relation = r}
      counts(dir) == [r \in Relations |-> Cardinality(group(dir, r))] IN
  [subject |-> to.subject, candidates |-> to.candidates,
   degree |-> [outgoing |-> counts("outgoing"), incoming |-> counts("incoming")],
   groups |-> [dir \in Directions |->
                [r \in Relations |-> Take(ByPath(Picked(all, group(dir, r))), q.limit)]]]

Answer(g, q) ==
  IF q.cmd = "find" THEN Find(g, q) ELSE IF q.cmd = "refs" THEN Refs(g, q) ELSE Context(g, q)

-----------------------------------------------------------------------------
(* References: what an answer should say, from the edges alone.            *)
Linked(g, q, n) ==
  {<<"outgoing", e.relation, e.target>> : e \in {x \in ToSet(g.edges) : x.source = n}}
    \union {<<"incoming", e.relation, e.source>> : e \in {x \in ToSet(g.edges) : x.target = n}}
Wanted(g, q, n) ==
  {l \in Linked(g, q, n) : l[1] \in q.directions /\ l[2] \in q.relations /\ l[3] \in g.nodes \intersect q.only}

Within(g, q, s) ==
  LET reach[k \in 0..q.depth] ==
        IF k = 0 THEN {s} ELSE reach[k - 1] \union UNION {{l[3] : l \in Wanted(g, q, n)} : n \in reach[k - 1]}
  IN reach
Distant(g, q, s, k) ==
  IF k = 0 THEN {s} ELSE Within(g, q, s)[k] \ Within(g, q, s)[k - 1]
At(r, k) == {r.edges[i] : i \in {j \in DOMAIN r.edges : r.edges[j].depth = k}}
Complete(r) == r.subject # NOBODY /\ r.total = r.returned

(* What refs shows is in the graph and was asked for; and an answer that   *)
(* left nothing out has every link of the nodes at each distance, though   *)
(* not in both directions.                                                 *)
RefsComplete(g, q, r) ==
  /\ r.returned <= q.limit * q.depth
  /\ \A i \in DOMAIN r.edges :
       LET e == r.edges[i] IN << e.direction, e.relation, e.other >> \in Wanted(g, q, e.from)
  /\ Complete(r) =>
       \A k \in 1..q.depth :
         {EdgeKey(e) : e \in At(r, k)}
           = UNION {{<< n, l[3], l[2] >> : l \in Wanted(g, q, n)} : n \in Distant(g, q, r.subject, k - 1)}

(* The same of the edges themselves, an edge from a node to itself aside.  *)
EveryEdge(g, q, r) ==
  Complete(r) =>
    \A k \in 1..q.depth :
      {<<e.from, e.direction, e.relation, e.other>> : e \in {x \in At(r, k) : x.other # x.from}}
        = UNION {{<<n, l[1], l[2], l[3]>> : l \in {x \in Wanted(g, q, n) : x[3] # n}} :
                   n \in Distant(g, q, r.subject, k - 1)}

(* find counts what context counts, and the edges to what is no node.      *)
Dangling(g, n, dir, r) ==
  {i \in DOMAIN g.edges : /\ g.edges[i].relation = r
                          /\ \/ dir = "outgoing" /\ g.edges[i].source = n /\ g.edges[i].target \notin g.nodes
                             \/ dir = "incoming" /\ g.edges[i].target = n /\ g.edges[i].source \notin g.nodes}
CountsAgree(g, q, degree, n) ==
  LET c == Context(g, [q EXCEPT !.id = n]).degree IN
  \A dir \in Directions, r \in Relations :
    degree[dir][r] = c[dir][r] + Cardinality(Dangling(g, n, dir, r))

(* Of find no node twice, and its counts; of context that it keeps its     *)
(* limits.                                                                 *)
MeetsReference(g, q, r) ==
  /\ q.cmd = "refs" => RefsComplete(g, q, r)
  /\ q.cmd = "find" =>
       /\ r.returned = Cardinality({r.matches[i].node : i \in DOMAIN r.matches})
       /\ \A i \in DOMAIN r.matches : CountsAgree(g, q, r.matches[i].degree, r.matches[i].node)
  /\ q.cmd = "context" /\ r.subject # NOBODY =>
       \A dir \in Directions, rel \in Relations :
         Len(r.groups[dir][rel]) <= q.limit /\ Len(r.groups[dir][rel]) <= r.degree[dir][rel]
=============================================================================
