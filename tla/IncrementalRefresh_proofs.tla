---------------------- MODULE IncrementalRefresh_proofs ----------------------
(***************************************************************************)
(* For any packages, contents, dependencies, settings, edits, kills and    *)
(* overlapping refreshes: the types of what a refresh holds and of what is *)
(* on disk (TypeInv); every definition of a bound sidecar is in its graph  *)
(* (LinkInv); and a complete report is borne out by the graph it is bound  *)
(* to, or the next refresh will see that the package changed (FaithInv),   *)
(* from which follows what a refresh may reuse and what a sidecar may call *)
(* current.                                                                *)
(***************************************************************************)
EXTENDS IncrementalRefresh, TLAPS

Steps == {"idle", "cache", "graph", "export", "capture", "fingerprint", "document",
          "recapture", "write_graph", "write_export", "open_cache", "save_cache"}

(* Where a refresh has decided what is dirty, and not yet written it all.  *)
Prepared == {"document", "recapture", "write_graph", "write_export"}

(* Ids begin with the namespace of the package they were made for.         *)
GoodGraph(g) == g \in Graphs /\ \A n \in g.nodes : n.id.ns = Norm[n.from]
GoodDefinitions(ds) == ds \subseteq Definitions /\ \A d \in ds : d.id.ns = Norm[d.from]

AllReports == PartialFunctions(Packages, Reports)
Exports ==
  [graph : Graphs, sources : Snapshot, reports : AllReports, definitions : SUBSET Definitions]
GoodExport(E) ==
  /\ E \in Exports /\ DOMAIN E.reports = DOMAIN E.sources
  /\ GoodGraph(E.graph) /\ GoodDefinitions(E.definitions)

Caches == [settings : Settings, fps : Times]

RunState ==
  [pc : Steps, settings : Settings \union {NONE}, built : BOOLEAN, want : SUBSET Packages,
   meta : SUBSET Packages, compatible : BOOLEAN, prior : Times, graph : Graphs,
   export : Exports \union {NONE}, sources : Snapshot, fps : Times, dirty : SUBSET Packages,
   reports : AllReports, definitions : SUBSET Definitions]

(* What a refresh holds at its place: a sidecar only while it decides what *)
(* is dirty, and one of the graph it loaded.                               *)
RunTyped(R) ==
  /\ R.pc # "idle" => R.settings \in Settings
  /\ R.dirty \subseteq R.meta
  /\ GoodGraph(R.graph) /\ GoodDefinitions(R.definitions)
  /\ R.pc \notin {"capture", "fingerprint"} => R.export = NONE
  /\ R.export # NONE => GoodExport(R.export) /\ R.export.graph = R.graph
  /\ R.pc \in {"fingerprint"} \union Prepared => R.sources \in [R.meta -> Contents \union {NONE}]
  /\ R.pc \in Prepared => R.reports \in [R.meta -> Reports] /\ R.fps \in [R.meta -> 0..MaxEdits]

TypeInv ==
  /\ members \subseteq Packages /\ src \in [Packages -> Contents]
  /\ mtime \in [Packages -> 0..MaxEdits] /\ edits \in 0..MaxEdits /\ runs \in 0..MaxRuns
  /\ had \in [Packages -> SUBSET Contents]
  /\ graph = NONE \/ GoodGraph(graph)
  /\ export = NONE \/ GoodExport(export)
  /\ cache = NONE \/ cache \in Caches
  /\ run \in [Refreshers -> RunState]
  /\ \A r \in Refreshers : RunTyped(run[r])
  /\ \A r \in Refreshers : run[r].pc = "graph" => GoodGraph(graph)

-----------------------------------------------------------------------------
(* Partial functions *)

LEMMA PartialElim ==
  ASSUME NEW S, NEW T, NEW f \in PartialFunctions(S, T)
  PROVE  DOMAIN f \subseteq S /\ f \in [DOMAIN f -> T]
  BY DEF PartialFunctions

LEMMA PartialIntro ==
  ASSUME NEW S, NEW T, NEW D \in SUBSET S, NEW f \in [D -> T]
  PROVE  f \in PartialFunctions(S, T)
  BY DEF PartialFunctions

LEMMA PartialEmpty ==
  ASSUME NEW S, NEW T
  PROVE  <<>> \in PartialFunctions(S, T)
  <1>1. <<>> \in [{} -> T]
    OBVIOUS
  <1> QED
    BY <1>1, PartialIntro

-----------------------------------------------------------------------------
(* Graphs *)

LEMMA EmptyGood == GoodGraph(EmptyGraph)
  BY DEF GoodGraph, EmptyGraph, Graphs

LEMMA NodeTyped ==
  ASSUME NEW p \in Packages, NEW name \in Names, NEW c \in Contents \union {NONE},
         NEW s \in Settings \union {NONE}
  PROVE  /\ Node(p, name, c, s) \in Nodes
         /\ Node(p, name, c, s).id = Id(p, name) /\ Node(p, name, c, s).from = p
         /\ Node(p, name, c, s).content = c /\ Id(p, name).ns = Norm[p]
  BY DEF Node, Nodes, Ids, Id

(* What AddNodes, RemoveCrates and the pruning leave of a graph's nodes.   *)
LEMMA Added ==
  ASSUME NEW g, GoodGraph(g), NEW ns, ns \subseteq Nodes, \A n \in ns : n.id.ns = Norm[n.from]
  PROVE  /\ GoodGraph(AddNodes(g, ns))
         /\ AddNodes(g, ns).nodes = g.nodes \union {n \in ns : n.id \notin Present(g)}
         /\ AddNodes(g, ns).edges = g.edges
  BY DEF GoodGraph, Graphs, AddNodes

LEMMA Removed ==
  ASSUME NEW g, GoodGraph(g), NEW nss
  PROVE  /\ GoodGraph(RemoveCrates(g, nss))
         /\ RemoveCrates(g, nss).nodes = {n \in g.nodes : Crate(n.id) \notin nss}
  BY DEF GoodGraph, Graphs, RemoveCrates

LEMMA Pruned ==
  ASSUME NEW g, GoodGraph(g)
  PROVE  /\ GoodGraph(PruneDanglingEdges(g))
         /\ PruneDanglingEdges(g).nodes = g.nodes
  BY DEF GoodGraph, Graphs, PruneDanglingEdges

LEMMA CrateLayer ==
  ASSUME NEW g, GoodGraph(g), NEW ps \in SUBSET Packages
  PROVE  /\ GoodGraph(AddCrateLayer(g, ps))
         /\ g.nodes \subseteq AddCrateLayer(g, ps).nodes
         /\ \A n \in AddCrateLayer(g, ps).nodes : n \in g.nodes \/ n.content = NONE
  <1> DEFINE ns == {Node(p, "crate", NONE, NONE) : p \in ps}
  <1>1. "crate" \in Names
    BY DEF Names
  <1>0. ASSUME NEW p \in ps
        PROVE  LET n == Node(p, "crate", NONE, NONE) IN
                 n \in Nodes /\ n.id.ns = Norm[n.from] /\ n.content = NONE
    BY <1>1, NodeTyped
  <1>2. ns \subseteq Nodes /\ \A n \in ns : n.id.ns = Norm[n.from] /\ n.content = NONE
    BY <1>0
  <1> HIDE DEF ns
  <1>3. /\ GoodGraph(AddNodes(g, ns))
        /\ AddNodes(g, ns).nodes = g.nodes \union {n \in ns : n.id \notin Present(g)}
    BY <1>2, Added
  <1> QED
    BY <1>2, <1>3 DEF AddCrateLayer, ns

LEMMA PendingTyped ==
  ASSUME NEW g, NEW ps \in SUBSET Packages
  PROVE  PendingEdges(g, ps) \subseteq Ids \X Ids
  <1>1. ASSUME NEW p \in ps, NEW u \in Uses[p] PROVE u[1] \in Packages /\ u[2] \in Names
    <2>1. Uses[p] \subseteq Packages \X UNION {Items[c] : c \in Contents}
      BY ConstantsAssumption DEF ConstantsAssumption
    <2> QED
      BY <2>1 DEF Names
  <1>2. \A p \in Packages, name \in Names : Id(p, name) \in Ids
    BY DEF Ids
  <1>3. {"crate", "main"} \subseteq Names
    BY DEF Names
  <1> QED
    BY <1>1, <1>2, <1>3 DEF PendingEdges

-----------------------------------------------------------------------------
(* Types *)

LEMMA IdleTyped == Idle \in RunState /\ RunTyped(Idle)
  <1>1. <<>> \in Times /\ <<>> \in Snapshot /\ <<>> \in AllReports
    BY PartialEmpty DEF Times, Snapshot, AllReports
  <1>2. EmptyGraph \in Graphs
    BY EmptyGood DEF GoodGraph
  <1>3. Idle \in RunState
    BY <1>1, <1>2 DEF Idle, RunState, Steps
  <1>4. GoodDefinitions({})
    BY DEF GoodDefinitions
  <1> QED
    BY <1>3, <1>4, EmptyGood DEF Idle, RunTyped, Prepared

LEMMA TypeInit == Init => TypeInv
  <1> SUFFICES ASSUME Init PROVE TypeInv
    OBVIOUS
  <1>1. 0 \in 0..MaxEdits /\ 0 \in 0..MaxRuns
    BY ConstantsAssumption DEF ConstantsAssumption
  <1>2. Idle.pc = "idle"
    BY DEF Idle
  <1> QED
    BY <1>1, <1>2, IdleTyped DEF Init, TypeInv

(* A step of refresh r.                                                    *)
LEMMA RunKept ==
  ASSUME TypeInv, NEW r \in Refreshers, NEW R \in RunState, RunTyped(R),
         run' = [run EXCEPT ![r] = R], UNCHANGED workspace, runs' \in 0..MaxRuns,
         graph' = graph \/ GoodGraph(graph'),
         export' = export \/ GoodExport(export'),
         cache' = cache \/ cache' = NONE \/ cache' \in Caches,
         R.pc = "graph" => GoodGraph(graph')
  PROVE  TypeInv'
  <1>1. \A q \in Refreshers : run'[q] = IF q = r THEN R ELSE run[q]
    BY DEF TypeInv
  <1>2. run' \in [Refreshers -> RunState]
    BY DEF TypeInv
  <1>3. (\A q \in Refreshers : RunTyped(run'[q])) /\ \A q \in Refreshers : run'[q].pc = "graph" => GoodGraph(graph')
    BY <1>1 DEF TypeInv
  <1> QED
    BY <1>2, <1>3 DEF TypeInv, workspace

(* The steps that leave the disk and the workspace alone.                  *)
LEMMA LocalKept ==
  ASSUME TypeInv, NEW r \in Refreshers, NEW R \in RunState, RunTyped(R), R.pc # "graph",
         run' = [run EXCEPT ![r] = R], UNCHANGED <<workspace, disk, runs>>
  PROVE  TypeInv'
  <1>1. runs' \in 0..MaxRuns
    BY DEF TypeInv
  <1> QED
    BY <1>1, RunKept DEF disk

LEMMA StartTyped ==
  ASSUME TypeInv, NEW r \in Refreshers, Start(r)
  PROVE  TypeInv'
  <1>1. PICK s \in Settings, want \in (SUBSET Packages) \ {{}}, built \in BOOLEAN,
             first \in {"cache", "capture"} :
          run' = [run EXCEPT ![r] = [Idle EXCEPT !.pc = first, !.settings = s,
                    !.want = want, !.built = built, !.meta = members]]
    BY DEF Start
  <1> DEFINE R == [Idle EXCEPT !.pc = first, !.settings = s, !.want = want, !.built = built,
                    !.meta = members]
  <1>2. R \in RunState
    BY IdleTyped DEF RunState, Steps, TypeInv
  <1>3. RunTyped(R) /\ R.pc # "graph"
    BY IdleTyped DEF RunTyped, Idle, Prepared
  <1>4. runs' \in 0..MaxRuns /\ UNCHANGED <<workspace, disk>>
    BY ConstantsAssumption DEF Start, TypeInv, ConstantsAssumption
  <1> HIDE DEF R
  <1> QED
    BY <1>1, <1>2, <1>3, <1>4, RunKept DEF disk, R

LEMMA LoadTyped ==
  ASSUME TypeInv, NEW r \in Refreshers, LoadCache(r) \/ LoadGraph(r) \/ LoadExport(r)
  PROVE  TypeInv'
  <1>0. run[r] \in RunState /\ RunTyped(run[r]) /\ runs \in 0..MaxRuns
    BY DEF TypeInv
  <1>1. CASE LoadCache(r)
    <2>1. CASE cache # NONE /\ cache.settings = run[r].settings /\ graph # NONE
      <3> DEFINE R == [run[r] EXCEPT !.compatible = TRUE, !.prior = cache.fps, !.pc = "graph"]
      <3>1. run' = [run EXCEPT ![r] = R]
        BY <1>1, <2>1 DEF LoadCache
      <3>2. cache.fps \in Times /\ GoodGraph(graph)
        BY <2>1 DEF TypeInv, Caches
      <3>3. R \in RunState
        BY <1>0, <3>2 DEF RunState, Steps
      <3>4. RunTyped(R)
        BY <1>0, <1>1 DEF RunState, RunTyped, LoadCache, Prepared
      <3> HIDE DEF R
      <3> QED
        BY <1>0, <1>1, <3>1, <3>2, <3>3, <3>4, RunKept DEF LoadCache, disk
    <2>2. CASE ~(cache # NONE /\ cache.settings = run[r].settings /\ graph # NONE)
      <3> DEFINE R == [run[r] EXCEPT !.pc = "capture"]
      <3>1. run' = [run EXCEPT ![r] = R]
        BY <1>1, <2>2 DEF LoadCache
      <3>2. R \in RunState /\ R.pc = "capture"
        BY <1>0 DEF RunState, Steps
      <3>3. RunTyped(R)
        BY <1>0, <1>1 DEF RunState, RunTyped, LoadCache, Prepared
      <3> HIDE DEF R
      <3> QED
        BY <1>1, <3>1, <3>2, <3>3, LocalKept DEF LoadCache
    <2> QED
      BY <2>1, <2>2
  <1>2. CASE LoadGraph(r)
    <2> DEFINE R == [run[r] EXCEPT !.graph = graph, !.pc = "export"]
    <2>1. run' = [run EXCEPT ![r] = R] /\ run[r].pc = "graph"
      BY <1>2 DEF LoadGraph
    <2>2. GoodGraph(graph) /\ graph \in Graphs
      BY <2>1 DEF TypeInv, GoodGraph
    <2>3. R \in RunState /\ R.pc = "export"
      BY <1>0, <2>2 DEF RunState, Steps
    <2>4. RunTyped(R)
      BY <1>0, <2>1, <2>2 DEF RunState, RunTyped, Prepared
    <2> HIDE DEF R
    <2> QED
      BY <1>2, <2>1, <2>3, <2>4, LocalKept DEF LoadGraph
  <1>3. CASE LoadExport(r)
    <2> DEFINE E == IF export # NONE /\ MatchesGraph(export, run[r].graph) THEN export ELSE NONE
               R == [run[r] EXCEPT !.export = E, !.pc = "capture"]
    <2>1. run' = [run EXCEPT ![r] = R] /\ run[r].pc = "export"
      BY <1>3 DEF LoadExport
    <2>2. E # NONE => GoodExport(E) /\ E.graph = run[r].graph
      BY DEF TypeInv, MatchesGraph
    <2>3. E \in Exports \union {NONE}
      BY <2>2 DEF GoodExport
    <2> HIDE DEF E
    <2>4. R \in RunState /\ R.pc = "capture"
      BY <1>0, <2>3 DEF RunState, Steps
    <2>5. RunTyped(R)
      BY <1>0, <2>1, <2>2 DEF RunState, RunTyped, Prepared
    <2> HIDE DEF R
    <2> QED
      BY <1>3, <2>1, <2>4, <2>5, LocalKept DEF LoadExport
  <1> QED
    BY <1>1, <1>2, <1>3

LEMMA SnapshotTyped ==
  ASSUME TypeInv, NEW meta \in SUBSET Packages, NEW s \in Snapshots(meta)
  PROVE  s \in [meta -> Contents \union {NONE}] /\ s \in Snapshot
  BY PartialIntro DEF Snapshots, Snapshot

LEMMA CaptureTyped ==
  ASSUME TypeInv, NEW r \in Refreshers, Capture(r)
  PROVE  TypeInv'
  <1>0. run[r] \in RunState /\ RunTyped(run[r]) /\ run[r].meta \in SUBSET Packages
    BY DEF TypeInv, RunState
  <1>1. PICK s \in Snapshots(run[r].meta) :
          run' = [run EXCEPT ![r].sources = s, ![r].pc = "fingerprint"]
    BY DEF Capture
  <1> DEFINE R == [run[r] EXCEPT !.sources = s, !.pc = "fingerprint"]
  <1>2. run' = [run EXCEPT ![r] = R] /\ run[r].pc = "capture"
    BY <1>1 DEF Capture
  <1>3. s \in [run[r].meta -> Contents \union {NONE}] /\ s \in Snapshot
    BY <1>0, SnapshotTyped
  <1>4. R \in RunState /\ R.pc = "fingerprint"
    BY <1>0, <1>3 DEF RunState, Steps
  <1>5. RunTyped(R)
    BY <1>0, <1>2, <1>3 DEF RunState, RunTyped, Prepared
  <1> HIDE DEF R
  <1> QED
    BY <1>2, <1>4, <1>5, LocalKept DEF Capture

(* What Fingerprint makes of a refresh, part by part.                      *)
Changed(R) == {p \in R.meta : \/ ShouldExtractCrate(R, p)
                              \/ ~ExportReusable(R, p)
                              \/ ~ItemsReusable(R, p)}
Gone(R) == DOMAIN R.prior \ R.meta
Dirty(R) == ExpandDirtyNamespaces(Changed(R), Gone(R), R.meta)
Kept(R) == {d \in (IF R.export = NONE THEN {} ELSE R.export.definitions) :
              d.from \in R.meta \ Dirty(R)}
Cleaned(R) ==
  AddCrateLayer(RemoveCrates(R.graph, {Norm[p] : p \in Dirty(R) \union Gone(R)}), R.meta)
Carried(R) == [p \in R.meta |-> PriorReport(R, p, Dirty(R))]

Fingerprinted(R) ==
  [R EXCEPT !.fps = Fingerprints(R.meta), !.dirty = Dirty(R), !.definitions = Kept(R),
            !.reports = Carried(R), !.graph = Cleaned(R),
            !.prior = <<>>, !.export = NONE, !.compatible = FALSE, !.built = FALSE,
            !.pc = "document"]

LEMMA FingerprintIs ==
  ASSUME NEW r, Fingerprint(r)
  PROVE  run' = [run EXCEPT ![r] = Fingerprinted(run[r])]
  BY DEF Fingerprint, Fingerprinted, Changed, Gone, Dirty, Kept, Cleaned, Carried

LEMMA DirtyWithin ==
  ASSUME NEW R \in RunState
  PROVE  Dirty(R) \subseteq R.meta /\ Gone(R) \subseteq Packages
  <1>1. R.prior \in Times
    BY DEF RunState
  <1>2. DOMAIN R.prior \subseteq Packages
    BY <1>1, PartialElim DEF Times
  <1>3. Changed(R) \subseteq R.meta
    BY DEF Changed
  <1> QED
    BY <1>2, <1>3 DEF Dirty, ExpandDirtyNamespaces, Gone

LEMMA CarriedTyped ==
  ASSUME NEW R \in RunState, RunTyped(R)
  PROVE  Carried(R) \in [R.meta -> Reports]
  <1> SUFFICES ASSUME NEW p \in R.meta PROVE PriorReport(R, p, Dirty(R)) \in Reports
    BY DEF Carried
  <1>1. ASSUME R.export # NONE, p \in DOMAIN R.export.reports PROVE R.export.reports[p] \in Reports
    <2>1. R.export.reports \in PartialFunctions(Packages, Reports)
      BY <1>1 DEF RunTyped, GoodExport, Exports, AllReports
    <2> QED
      BY <1>1, <2>1, PartialElim
  <1>2. Skipped \in Reports /\ Partial("unknown") \in Reports
    BY DEF Reports
  <1> QED
    BY <1>1, <1>2 DEF PriorReport

LEMMA FingerprintedTyped ==
  ASSUME TypeInv, NEW R \in RunState, RunTyped(R), R.pc = "fingerprint"
  PROVE  LET F == Fingerprinted(R) IN F \in RunState /\ RunTyped(F) /\ F.pc = "document"
  <1> DEFINE f == Fingerprints(R.meta)
  <1>1. Dirty(R) \subseteq R.meta /\ R.meta \subseteq Packages
    BY DirtyWithin DEF RunState
  <1>2. f \in [R.meta -> 0..MaxEdits] /\ f \in Times
    <2>1. f \in [R.meta -> 0..MaxEdits]
      BY <1>1 DEF Fingerprints, TypeInv
    <2> QED
      BY <1>1, <2>1, PartialIntro DEF Times
  <1>3. Carried(R) \in [R.meta -> Reports] /\ Carried(R) \in AllReports
    BY <1>1, CarriedTyped, PartialIntro DEF AllReports
  <1>4. Kept(R) \subseteq Definitions /\ GoodDefinitions(Kept(R))
    BY DEF Kept, RunTyped, GoodExport, GoodDefinitions
  <1>5. GoodGraph(Cleaned(R))
    <2>1. GoodGraph(RemoveCrates(R.graph, {Norm[p] : p \in Dirty(R) \union Gone(R)}))
      BY Removed DEF RunTyped
    <2> QED
      BY <1>1, <2>1, CrateLayer DEF Cleaned
  <1>6. <<>> \in Times
    BY PartialEmpty DEF Times
  <1>7. R.sources \in [R.meta -> Contents \union {NONE}] /\ (R.settings \in Settings)
    BY DEF RunTyped
  <1>8. Cleaned(R) \in Graphs
    BY <1>5 DEF GoodGraph
  <1> HIDE DEF f
  <1>9. Fingerprinted(R) \in RunState
    BY <1>1, <1>2, <1>3, <1>4, <1>6, <1>8 DEF Fingerprinted, RunState, Steps, f
  <1>10. /\ Fingerprinted(R).pc = "document" /\ Fingerprinted(R).settings = R.settings
         /\ Fingerprinted(R).dirty = Dirty(R) /\ Fingerprinted(R).meta = R.meta
         /\ Fingerprinted(R).graph = Cleaned(R) /\ Fingerprinted(R).definitions = Kept(R)
         /\ Fingerprinted(R).export = NONE /\ Fingerprinted(R).sources = R.sources
         /\ Fingerprinted(R).reports = Carried(R) /\ Fingerprinted(R).fps = f
    BY DEF Fingerprinted, RunState, f
  <1> HIDE DEF Fingerprinted
  <1>11. RunTyped(Fingerprinted(R))
    BY <1>1, <1>2, <1>3, <1>4, <1>5, <1>7, <1>10 DEF RunTyped
  <1> QED
    BY <1>9, <1>10, <1>11

LEMMA FingerprintTyped ==
  ASSUME TypeInv, NEW r \in Refreshers, Fingerprint(r)
  PROVE  TypeInv'
  <1>1. run[r] \in RunState /\ RunTyped(run[r]) /\ run[r].pc = "fingerprint"
    BY DEF TypeInv, Fingerprint
  <1>2. LET F == Fingerprinted(run[r]) IN F \in RunState /\ RunTyped(F) /\ F.pc = "document"
    BY <1>1, FingerprintedTyped
  <1> QED
    BY <1>2, FingerprintIs, LocalKept DEF Fingerprint

(* What Document makes of a refresh.                                       *)
Selected(R) == IF R.settings \in RichSettings THEN R.dirty \intersect R.want ELSE {}
Extracted(R, produced) ==
  UNION {{Node(p, i, src[p], R.settings) : i \in Items[src[p]]} : p \in produced}
Ingested(R, produced) ==
  LET all == AddNodes(R.graph, Extracted(R, produced)) IN
  [all EXCEPT !.edges = @ \union PendingEdges(all, produced)]
Documented(R, produced, ok) ==
  [R EXCEPT
     !.graph = Ingested(R, produced),
     !.definitions = @ \union {[id |-> n.id, from |-> n.from] : n \in Extracted(R, produced)},
     !.reports = [p \in R.meta |->
        IF p \notin Selected(R) THEN @[p]
        ELSE IF p \in produced /\ ok THEN Complete("current")
        ELSE Partial("unknown")],
     !.pc = "recapture"]

LEMMA DocumentIs ==
  ASSUME NEW r, Document(r)
  PROVE  \E produced \in SUBSET {p \in Selected(run[r]) : Compiles(p)} : \E ok :
           run' = [run EXCEPT ![r] = Documented(run[r], produced, ok)]
  <1>1. \E produced \in SUBSET {p \in Selected(run[r]) : Compiles(p)}, ok \in BOOLEAN :
          run' = [run EXCEPT ![r] = Documented(run[r], produced, ok)]
    BY DEF Document, Selected, Extracted, Ingested, Documented, Rich
  <1> QED
    BY <1>1

LEMMA ExtractedTyped ==
  ASSUME TypeInv, NEW R \in RunState, R.settings \in Settings,
         NEW produced \in SUBSET Packages
  PROVE  /\ Extracted(R, produced) \subseteq Nodes
         /\ \A n \in Extracted(R, produced) :
              /\ n.id.ns = Norm[n.from] /\ n.from \in produced /\ n.content = src[n.from]
              /\ n.id \in Ids
  <1> SUFFICES ASSUME NEW p \in produced, NEW i \in Items[src[p]]
               PROVE  LET n == Node(p, i, src[p], R.settings) IN
                        /\ n \in Nodes /\ n.id.ns = Norm[n.from] /\ n.from \in produced
                        /\ n.content = src[n.from] /\ n.id \in Ids
    BY DEF Extracted
  <1>1. src[p] \in Contents
    BY DEF TypeInv
  <1>2. i \in Names
    BY <1>1 DEF Names
  <1>3. Id(p, i) \in Ids
    BY <1>2 DEF Ids
  <1> QED
    BY <1>1, <1>2, <1>3, NodeTyped

LEMMA IngestedTyped ==
  ASSUME TypeInv, NEW R \in RunState, RunTyped(R), R.settings \in Settings,
         NEW produced \in SUBSET Packages
  PROVE  /\ GoodGraph(Ingested(R, produced))
         /\ Ingested(R, produced).nodes =
              R.graph.nodes \union {n \in Extracted(R, produced) : n.id \notin Present(R.graph)}
  <1> DEFINE all == AddNodes(R.graph, Extracted(R, produced))
  <1>1. GoodGraph(all) /\ all.nodes =
              R.graph.nodes \union {n \in Extracted(R, produced) : n.id \notin Present(R.graph)}
    BY ExtractedTyped, Added DEF RunTyped
  <1>2. PendingEdges(all, produced) \subseteq Ids \X Ids
    BY PendingTyped
  <1>3. Ingested(R, produced) = [all EXCEPT !.edges = @ \union PendingEdges(all, produced)]
    BY DEF Ingested
  <1> HIDE DEF all
  <1> QED
    BY <1>1, <1>2, <1>3 DEF GoodGraph, Graphs

LEMMA DocumentedTyped ==
  ASSUME TypeInv, NEW R \in RunState, RunTyped(R), R.pc = "document",
         NEW produced \in SUBSET Selected(R), NEW ok
  PROVE  LET D == Documented(R, produced, ok) IN
           /\ D \in RunState /\ RunTyped(D) /\ D.pc = "recapture" /\ D.meta = R.meta
           /\ D.graph = Ingested(R, produced) /\ D.sources = R.sources /\ D.fps = R.fps
           /\ D.definitions =
                R.definitions \union {[id |-> n.id, from |-> n.from] : n \in Extracted(R, produced)}
           /\ \A p \in R.meta : D.reports[p] = IF p \notin Selected(R) THEN R.reports[p]
                                               ELSE IF p \in produced /\ ok THEN Complete("current")
                                               ELSE Partial("unknown")
  <1> DEFINE D == Documented(R, produced, ok)
             defs == R.definitions \union {[id |-> n.id, from |-> n.from] : n \in Extracted(R, produced)}
             reports == [p \in R.meta |-> IF p \notin Selected(R) THEN R.reports[p]
                                          ELSE IF p \in produced /\ ok THEN Complete("current")
                                          ELSE Partial("unknown")]
  <1>1. produced \subseteq Packages /\ R.settings \in Settings /\ R.meta \subseteq Packages
    BY DEF Selected, RunState, RunTyped
  <1>2. GoodGraph(Ingested(R, produced)) /\ Ingested(R, produced) \in Graphs
    BY <1>1, IngestedTyped DEF GoodGraph
  <1>3. GoodDefinitions(defs) /\ defs \subseteq Definitions
    BY <1>1, ExtractedTyped DEF RunTyped, GoodDefinitions, Definitions
  <1>4. reports \in [R.meta -> Reports]
    BY DEF RunTyped, Reports, Prepared
  <1>5. reports \in AllReports
    BY <1>1, <1>4, PartialIntro DEF AllReports
  <1>6. D = [R EXCEPT !.graph = Ingested(R, produced), !.definitions = defs,
                      !.reports = reports, !.pc = "recapture"]
    BY DEF Documented, RunState
  <1> HIDE DEF defs, reports, D
  <1>7. D \in RunState
    BY <1>2, <1>3, <1>5, <1>6 DEF RunState, Steps
  <1>8. /\ D.pc = "recapture" /\ D.meta = R.meta /\ D.graph = Ingested(R, produced)
        /\ D.sources = R.sources /\ D.fps = R.fps /\ D.definitions = defs /\ D.reports = reports
        /\ D.settings = R.settings /\ D.dirty = R.dirty /\ D.export = R.export
    BY <1>6 DEF RunState
  <1>9. RunTyped(D)
    BY <1>1, <1>2, <1>3, <1>4, <1>8 DEF RunTyped, Prepared
  <1> QED
    BY <1>7, <1>8, <1>9 DEF D, defs, reports

LEMMA DocumentTyped ==
  ASSUME TypeInv, NEW r \in Refreshers, Document(r)
  PROVE  TypeInv'
  <1>1. run[r] \in RunState /\ RunTyped(run[r]) /\ run[r].pc = "document"
    BY DEF TypeInv, Document
  <1>0. PICK produced \in SUBSET Selected(run[r]) : \E ok :
          run' = [run EXCEPT ![r] = Documented(run[r], produced, ok)]
    BY DocumentIs
  <1>2. PICK ok : run' = [run EXCEPT ![r] = Documented(run[r], produced, ok)]
    BY <1>0
  <1>3. LET D == Documented(run[r], produced, ok) IN
          D \in RunState /\ RunTyped(D) /\ D.pc = "recapture"
    <2> DEFINE R == run[r]
    <2> HIDE DEF R
    <2>1. R \in RunState /\ RunTyped(R) /\ R.pc = "document" /\ produced \in SUBSET Selected(R)
      BY <1>1 DEF R
    <2>2. LET D == Documented(R, produced, ok) IN
            D \in RunState /\ RunTyped(D) /\ D.pc = "recapture"
      BY <2>1, DocumentedTyped
    <2> QED
      BY <2>2 DEF R
  <1> QED
    BY <1>2, <1>3, LocalKept DEF Document

(* What Recapture makes of a refresh.                                      *)
Recaptured(R, after) ==
  [R EXCEPT !.graph = PruneDanglingEdges(@),
            !.reports = [p \in R.meta |-> Qualify(@[p], R.sources[p], after[p])],
            !.pc = "write_graph"]

LEMMA RecapturedTyped ==
  ASSUME TypeInv, NEW R \in RunState, RunTyped(R), R.pc = "recapture",
         NEW after \in Snapshots(R.meta)
  PROVE  LET D == Recaptured(R, after) IN
           /\ D \in RunState /\ RunTyped(D) /\ D.pc = "write_graph" /\ D.meta = R.meta
           /\ GoodGraph(D.graph) /\ D.graph.nodes = R.graph.nodes
           /\ D.sources = R.sources /\ D.fps = R.fps /\ D.definitions = R.definitions
           /\ \A p \in R.meta : D.reports[p] = Qualify(R.reports[p], R.sources[p], after[p])
  <1> DEFINE D == Recaptured(R, after)
             reports == [p \in R.meta |-> Qualify(R.reports[p], R.sources[p], after[p])]
             g == PruneDanglingEdges(R.graph)
  <1>1. R.meta \subseteq Packages
    BY DEF RunState
  <1>2. GoodGraph(g) /\ g.nodes = R.graph.nodes
    BY Pruned DEF RunTyped
  <1>3. reports \in [R.meta -> Reports] /\ reports \in AllReports
    <2>1. ASSUME NEW p \in R.meta PROVE Qualify(R.reports[p], R.sources[p], after[p]) \in Reports
      BY DEF RunTyped, Prepared, Qualify, Reports
    <2>2. reports \in [R.meta -> Reports]
      BY <2>1
    <2> QED
      BY <1>1, <2>2, PartialIntro DEF AllReports
  <1>4. D = [R EXCEPT !.graph = g, !.reports = reports, !.pc = "write_graph"]
    BY DEF Recaptured, RunState
  <1>5. g \in Graphs
    BY <1>2 DEF GoodGraph
  <1> HIDE DEF g, reports, D
  <1>6. D \in RunState
    BY <1>3, <1>4, <1>5 DEF RunState, Steps
  <1>7. /\ D.pc = "write_graph" /\ D.meta = R.meta /\ D.graph = g
        /\ D.sources = R.sources /\ D.fps = R.fps /\ D.definitions = R.definitions
        /\ D.reports = reports /\ D.settings = R.settings /\ D.dirty = R.dirty
        /\ D.export = R.export
    BY <1>4 DEF RunState
  <1>8. RunTyped(D)
    BY <1>2, <1>3, <1>7 DEF RunTyped, Prepared
  <1> QED
    BY <1>2, <1>6, <1>7, <1>8 DEF D, reports

LEMMA RecaptureIs ==
  ASSUME TypeInv, NEW r \in Refreshers, Recapture(r)
  PROVE  \E after \in Snapshots(run[r].meta) : run' = [run EXCEPT ![r] = Recaptured(run[r], after)]
  <1>0. PICK after \in Snapshots(run[r].meta) :
          run' = [run EXCEPT
            ![r].graph = PruneDanglingEdges(@),
            ![r].reports = [p \in run[r].meta |-> Qualify(@[p], run[r].sources[p], after[p])],
            ![r].pc = "write_graph"]
    BY DEF Recapture
  <1> QED
    BY <1>0 DEF Recaptured

LEMMA RecaptureTyped ==
  ASSUME TypeInv, NEW r \in Refreshers, Recapture(r)
  PROVE  TypeInv'
  <1> DEFINE R == run[r]
  <1>1. PICK after \in Snapshots(R.meta) : run' = [run EXCEPT ![r] = Recaptured(R, after)]
    BY RecaptureIs
  <1>2. R \in RunState /\ RunTyped(R) /\ R.pc = "recapture"
    BY DEF TypeInv, Recapture
  <1> HIDE DEF R
  <1>3. LET D == Recaptured(R, after) IN D \in RunState /\ RunTyped(D) /\ D.pc = "write_graph"
    BY <1>1, <1>2, RecapturedTyped
  <1> QED
    BY <1>1, <1>3, LocalKept DEF Recapture

(* What the sidecar of a refresh records.                                  *)
Sidecar(R) == [graph |-> R.graph, sources |-> R.sources, reports |-> R.reports,
               definitions |-> R.definitions]

LEMMA SidecarTyped ==
  ASSUME NEW R \in RunState, RunTyped(R), R.pc = "write_export"
  PROVE  GoodExport(Sidecar(R))
  <1>1. Sidecar(R) \in Exports
    BY DEF Sidecar, Exports, RunState
  <1>2. DOMAIN R.reports = R.meta /\ DOMAIN R.sources = R.meta
    BY DEF RunTyped, Prepared
  <1> QED
    BY <1>1, <1>2 DEF GoodExport, RunTyped, Sidecar

(* A refresh that has only its cache left to write.                        *)
Caching(R) == [Idle EXCEPT !.pc = "open_cache", !.settings = R.settings, !.fps = R.fps]

LEMMA CachingTyped ==
  ASSUME NEW R \in RunState, R.settings \in Settings
  PROVE  Caching(R) \in RunState /\ RunTyped(Caching(R)) /\ Caching(R).pc = "open_cache"
  <1>1. Caching(R) \in RunState
    BY IdleTyped DEF Caching, RunState, Steps
  <1> QED
    BY <1>1, IdleTyped DEF Caching, RunTyped, Idle, Prepared

LEMMA WriteTyped ==
  ASSUME TypeInv, NEW r \in Refreshers,
         WriteGraph(r) \/ WriteExport(r) \/ OpenCache(r) \/ SaveCache(r)
  PROVE  TypeInv'
  <1> DEFINE R == run[r]
  <1>0. /\ R \in RunState /\ RunTyped(R) /\ runs \in 0..MaxRuns
        /\ run \in [Refreshers -> RunState]
    BY DEF TypeInv
  <1>1. CASE WriteGraph(r)
    <2> DEFINE D == [R EXCEPT !.pc = "write_export"]
    <2>1. /\ run' = [run EXCEPT ![r] = D] /\ R.pc = "write_graph" /\ graph' = R.graph
          /\ UNCHANGED <<workspace, export, cache, runs>>
      BY <1>0, <1>1 DEF WriteGraph
    <2>2. D \in RunState /\ D.pc = "write_export"
      BY <1>0 DEF RunState, Steps
    <2>3. RunTyped(D)
      BY <1>0, <2>1 DEF RunState, RunTyped, Prepared
    <2>4. GoodGraph(R.graph)
      BY <1>0 DEF RunTyped
    <2> HIDE DEF D, R
    <2> QED
      BY <1>0, <2>1, <2>2, <2>3, <2>4, RunKept
  <1>2. CASE WriteExport(r)
    <2>1. /\ run' = [run EXCEPT ![r] = Caching(R)] /\ R.pc = "write_export"
          /\ export' = Sidecar(R) /\ UNCHANGED <<workspace, graph, cache, runs>>
      BY <1>2 DEF WriteExport, Sidecar, Caching
    <2>2. R.settings \in Settings
      BY <1>0, <2>1 DEF RunTyped
    <2> HIDE DEF R
    <2> QED
      BY <1>0, <2>1, <2>2, SidecarTyped, CachingTyped, RunKept
  <1>3. CASE OpenCache(r)
    <2> DEFINE D == [R EXCEPT !.pc = "save_cache"]
    <2>1. /\ run' = [run EXCEPT ![r] = D] /\ R.pc = "open_cache" /\ cache' = NONE
          /\ UNCHANGED <<workspace, graph, export, runs>>
      BY <1>0, <1>3 DEF OpenCache
    <2>2. D \in RunState /\ D.pc = "save_cache"
      BY <1>0 DEF RunState, Steps
    <2>3. RunTyped(D)
      BY <1>0, <2>1 DEF RunState, RunTyped, Prepared
    <2> HIDE DEF D, R
    <2> QED
      BY <1>0, <2>1, <2>2, <2>3, RunKept
  <1>4. CASE SaveCache(r)
    <2>1. /\ run' = [run EXCEPT ![r] = Idle] /\ R.pc = "save_cache"
          /\ cache' = [settings |-> R.settings, fps |-> R.fps]
          /\ UNCHANGED <<workspace, graph, export, runs>>
      BY <1>4 DEF SaveCache
    <2>2. cache' \in Caches
      BY <1>0, <2>1 DEF Caches, RunTyped, RunState
    <2>3. Idle.pc = "idle"
      BY DEF Idle
    <2> HIDE DEF R
    <2> QED
      BY <1>0, <2>1, <2>2, <2>3, IdleTyped, RunKept
  <1> QED
    BY <1>1, <1>2, <1>3, <1>4

LEMMA FailTyped ==
  ASSUME TypeInv, NEW r \in Refreshers, Fail(r)
  PROVE  TypeInv'
  <1>1. Idle.pc = "idle"
    BY DEF Idle
  <1> QED
    BY <1>1, IdleTyped, LocalKept DEF Fail

(* Edits, regroupings and build scripts.                                   *)
LEMMA EnvironmentTyped ==
  ASSUME TypeInv, (\E p \in Packages : Edit(p) \/ Regroup(p)) \/ HelperWrites
  PROVE  TypeInv'
  <1>1. ASSUME NEW p \in Packages, Edit(p) PROVE TypeInv'
    <2>1. edits + 1 \in 0..MaxEdits
      BY <1>1, ConstantsAssumption DEF Edit, TypeInv, ConstantsAssumption
    <2>2. src' \in [Packages -> Contents] /\ mtime' \in [Packages -> 0..MaxEdits]
          /\ had' \in [Packages -> SUBSET Contents]
      BY <1>1, <2>1 DEF Edit, TypeInv
    <2> QED
      BY <1>1, <2>1, <2>2 DEF Edit, TypeInv, disk
  <1>2. ASSUME NEW p \in Packages, Regroup(p) PROVE TypeInv'
    <2>1. edits + 1 \in 0..MaxEdits
      BY <1>2, ConstantsAssumption DEF Regroup, TypeInv, ConstantsAssumption
    <2> QED
      BY <1>2, <2>1 DEF Regroup, TypeInv, disk
  <1>3. ASSUME HelperWrites PROVE TypeInv'
    <2>1. GoodGraph(graph')
      BY <1>3, EmptyGood, CrateLayer DEF HelperWrites, TypeInv
    <2> QED
      BY <1>3, <2>1 DEF HelperWrites, TypeInv, workspace
  <1> QED
    BY <1>1, <1>2, <1>3

LEMMA TypeStep == TypeInv /\ [Next]_vars => TypeInv'
  <1> SUFFICES ASSUME TypeInv, [Next]_vars PROVE TypeInv'
    OBVIOUS
  <1>1. CASE UNCHANGED vars
    BY <1>1 DEF TypeInv, vars, workspace, disk
  <1>2. ASSUME NEW r \in Refreshers, Refresh(r) \/ Fail(r) PROVE TypeInv'
    BY <1>2, StartTyped, LoadTyped, CaptureTyped, FingerprintTyped, DocumentTyped, RecaptureTyped,
       WriteTyped, FailTyped DEF Refresh
  <1> QED
    BY <1>1, <1>2, EnvironmentTyped DEF Next

LEMMA Typed == Spec => []TypeInv
  BY TypeInit, TypeStep, PTL DEF Spec

(* The type invariant: in particular the sidecar's reports are of the      *)
(* packages whose sources it records, and a cache names settings of a run. *)
THEOREM RefreshTypeCorrect == Spec => []TypeOK
  <1>1. TypeInv => TypeOK
    <2> SUFFICES ASSUME TypeInv PROVE TypeOK
      OBVIOUS
    <2>1. graph = NONE \/ (graph.nodes \subseteq Nodes /\ graph.edges \subseteq Ids \X Ids)
      BY DEF TypeInv, GoodGraph, Graphs
    <2>2. export = NONE \/ (/\ export.sources \in Snapshot
                            /\ DOMAIN export.reports = DOMAIN export.sources
                            /\ export.definitions \subseteq Definitions)
      BY DEF TypeInv, GoodExport, Exports
    <2>3. cache = NONE \/ (cache.settings \in Settings /\ cache.fps \in Times)
      BY DEF TypeInv, Caches
    <2>4. ASSUME NEW r \in Refreshers
          PROVE  /\ run[r].pc \in Steps
                 /\ run[r].dirty \subseteq run[r].meta /\ run[r].meta \subseteq Packages
                 /\ run[r].fps \in Times /\ run[r].sources \in Snapshot
                 /\ \A p \in DOMAIN run[r].reports : run[r].reports[p] \in Reports
      <3>1. run[r] \in RunState /\ RunTyped(run[r])
        BY DEF TypeInv
      <3>2. run[r].reports \in PartialFunctions(Packages, Reports)
        BY <3>1 DEF RunState, AllReports
      <3>3. \A p \in DOMAIN run[r].reports : run[r].reports[p] \in Reports
        BY <3>2, PartialElim
      <3> QED
        BY <3>1, <3>3 DEF RunState, RunTyped
    <2> QED
      BY <2>1, <2>2, <2>3, <2>4 DEF TypeOK, TypeInv, Steps
  <1> QED
    BY <1>1, Typed, PTL

-----------------------------------------------------------------------------
(* Namespaces.  No package name has two adjacent separators: the part of   *)
(* an id before its first delimiter is then the whole namespace, and what  *)
(* is dropped with a package is what belongs to its namespace.             *)
PlainNames == \A p \in Packages : Len(Norm[p]) = 1

LEMMA SingleHead ==
  ASSUME NEW S, NEW s \in Seq(S), Len(s) = 1
  PROVE  <<Head(s)>> = s
  OBVIOUS

LEMMA CrateOfId ==
  ASSUME PlainNames, NEW p \in Packages, NEW id, id.ns = Norm[p]
  PROVE  Crate(id) = Norm[p]
  <1>1. Norm[p] \in Seq(STRING)
    BY ConstantsAssumption DEF ConstantsAssumption
  <1>2. Len(Norm[p]) = 1
    BY DEF PlainNames
  <1>3. <<Head(Norm[p])>> = Norm[p]
    BY <1>1, <1>2, SingleHead
  <1> QED
    BY <1>3 DEF Crate

(* A package that is not dirty shares its namespace with none that is.     *)
LEMMA NamespacesApart ==
  ASSUME NEW R \in RunState, NEW p \in R.meta \ Dirty(R), NEW q \in Dirty(R) \union Gone(R)
  PROVE  Norm[q] # Norm[p]
  BY DEF Dirty, ExpandDirtyNamespaces, Changed

(* Its nodes are kept, *)
LEMMA CleanedKeeps ==
  ASSUME PlainNames, NEW R \in RunState, RunTyped(R), NEW p \in R.meta \ Dirty(R),
         NEW n \in R.graph.nodes, n.id.ns = Norm[p]
  PROVE  n \in Cleaned(R).nodes
  <1> DEFINE nss == {Norm[q] : q \in Dirty(R) \union Gone(R)}
             g == RemoveCrates(R.graph, nss)
  <1>1. R.meta \subseteq Packages /\ GoodGraph(R.graph)
    BY DEF RunState, RunTyped
  <1>2. Crate(n.id) \notin nss
    BY <1>1, CrateOfId, NamespacesApart
  <1> HIDE DEF nss
  <1>3. GoodGraph(g) /\ n \in g.nodes
    BY <1>1, <1>2, Removed
  <1> HIDE DEF g
  <1>4. g.nodes \subseteq AddCrateLayer(g, R.meta).nodes
    BY <1>1, <1>3, CrateLayer
  <1> QED
    BY <1>3, <1>4 DEF Cleaned, g, nss

(* those of a dirty one go, and nothing with a content is added.           *)
LEMMA CleanedClears ==
  ASSUME PlainNames, NEW R \in RunState, RunTyped(R), NEW n \in Cleaned(R).nodes,
         n.content # NONE
  PROVE  n \in R.graph.nodes /\ n.from \notin Dirty(R)
  <1> DEFINE nss == {Norm[q] : q \in Dirty(R) \union Gone(R)}
             g == RemoveCrates(R.graph, nss)
  <1>1. R.meta \subseteq Packages /\ GoodGraph(R.graph) /\ Dirty(R) \subseteq R.meta
    BY DirtyWithin DEF RunState, RunTyped
  <1> HIDE DEF nss
  <1>2. GoodGraph(g) /\ g.nodes = {m \in R.graph.nodes : Crate(m.id) \notin nss}
    BY <1>1, Removed
  <1> HIDE DEF g
  <1>3. n \in g.nodes
    <2>1. \A m \in AddCrateLayer(g, R.meta).nodes : m \in g.nodes \/ m.content = NONE
      BY <1>1, <1>2, CrateLayer
    <2> QED
      BY <2>1 DEF Cleaned, g, nss
  <1>4. n \in R.graph.nodes /\ Crate(n.id) \notin nss /\ n.id.ns = Norm[n.from]
    BY <1>1, <1>2, <1>3 DEF GoodGraph
  <1>5. ASSUME n.from \in Dirty(R) PROVE FALSE
    <2>1. Crate(n.id) = Norm[n.from]
      BY <1>1, <1>4, <1>5, CrateOfId
    <2> QED
      BY <1>4, <1>5, <2>1 DEF nss
  <1> QED
    BY <1>4, <1>5

-----------------------------------------------------------------------------
(* Definitions *)

Linked(ds, g) == \A d \in ds : d.id \in Present(g)

RunLinked(R) ==
  /\ R.export # NONE => Linked(R.export.definitions, R.export.graph)
  /\ R.pc \in Prepared => Linked(R.definitions, R.graph)

LinkInv ==
  /\ export # NONE => Linked(export.definitions, export.graph)
  /\ \A r \in Refreshers : RunLinked(run[r])

LEMMA LinkKept ==
  ASSUME TypeInv, LinkInv, NEW r \in Refreshers, NEW R, RunLinked(R),
         run' = [run EXCEPT ![r] = R],
         export' = export \/ Linked(export'.definitions, export'.graph)
  PROVE  LinkInv'
  <1>1. \A q \in Refreshers : run'[q] = IF q = r THEN R ELSE run[q]
    BY DEF TypeInv
  <1>2. \A q \in Refreshers : RunLinked(run'[q])
    BY <1>1 DEF LinkInv
  <1> QED
    BY <1>2 DEF LinkInv

LEMMA IdleLinked == RunLinked(Idle)
  BY DEF RunLinked, Idle, Prepared

LEMMA FingerprintedLinked ==
  ASSUME PlainNames, TypeInv, NEW R \in RunState, RunTyped(R), RunLinked(R), R.pc = "fingerprint"
  PROVE  RunLinked(Fingerprinted(R))
  <1>1. /\ Fingerprinted(R).export = NONE /\ Fingerprinted(R).graph = Cleaned(R)
        /\ Fingerprinted(R).definitions = Kept(R)
    BY DEF Fingerprinted, RunState
  <1>2. ASSUME NEW d \in Kept(R) PROVE d.id \in Present(Cleaned(R))
    <2>1. /\ R.export # NONE /\ d \in R.export.definitions /\ d.from \in R.meta \ Dirty(R)
          /\ d.id.ns = Norm[d.from] /\ R.export.graph = R.graph
      BY DEF Kept, RunTyped, GoodExport, GoodDefinitions
    <2>2. PICK n \in R.graph.nodes : n.id = d.id
      BY <2>1 DEF RunLinked, Linked, Present
    <2>3. n \in Cleaned(R).nodes
      BY <2>1, <2>2, CleanedKeeps
    <2> QED
      BY <2>2, <2>3 DEF Present
  <1> QED
    BY <1>1, <1>2 DEF RunLinked, Linked

LEMMA DocumentedLinked ==
  ASSUME TypeInv, NEW R \in RunState, RunTyped(R), RunLinked(R), R.pc = "document",
         NEW produced \in SUBSET Selected(R), NEW ok
  PROVE  RunLinked(Documented(R, produced, ok))
  <1> DEFINE D == Documented(R, produced, ok)
  <1>1. /\ RunTyped(D) /\ D.pc = "recapture" /\ D.graph = Ingested(R, produced)
        /\ D.definitions =
             R.definitions \union {[id |-> n.id, from |-> n.from] : n \in Extracted(R, produced)}
    BY DocumentedTyped
  <1>2. produced \subseteq Packages /\ R.settings \in Settings
    BY DEF Selected, RunState, RunTyped
  <1>3. Ingested(R, produced).nodes =
          R.graph.nodes \union {n \in Extracted(R, produced) : n.id \notin Present(R.graph)}
    BY <1>2, IngestedTyped
  <1>4. Linked(R.definitions, R.graph)
    BY DEF RunLinked, Prepared
  <1> HIDE DEF D
  <1>5. Linked(D.definitions, D.graph)
    BY <1>1, <1>3, <1>4 DEF Linked, Present
  <1>6. D.export = NONE
    BY <1>1 DEF RunTyped
  <1> QED
    BY <1>5, <1>6 DEF RunLinked, D

LEMMA RecapturedLinked ==
  ASSUME TypeInv, NEW R \in RunState, RunTyped(R), RunLinked(R), R.pc = "recapture",
         NEW after \in Snapshots(R.meta)
  PROVE  RunLinked(Recaptured(R, after))
  <1> DEFINE D == Recaptured(R, after)
  <1>1. /\ RunTyped(D) /\ D.pc = "write_graph" /\ D.graph.nodes = R.graph.nodes
        /\ D.definitions = R.definitions
    BY RecapturedTyped
  <1>2. Linked(R.definitions, R.graph)
    BY DEF RunLinked, Prepared
  <1> HIDE DEF D
  <1>3. Linked(D.definitions, D.graph) /\ D.export = NONE
    BY <1>1, <1>2 DEF Linked, Present, RunTyped
  <1> QED
    BY <1>3 DEF RunLinked, D

(* The steps before a refresh has decided and after it wrote its sidecar   *)
(* hold no definitions.                                                    *)
LEMMA IdleSteps ==
  ASSUME TypeInv, NEW r \in Refreshers,
         \/ Start(r) \/ LoadCache(r) \/ LoadGraph(r) \/ OpenCache(r) \/ SaveCache(r) \/ Fail(r)
  PROVE  \E R \in RunState :
           /\ run' = [run EXCEPT ![r] = R] /\ export' = export
           /\ R.export = NONE /\ R.pc \notin {"fingerprint"} \union Prepared
  <1> DEFINE R == run[r]
  <1>0. R \in RunState /\ RunTyped(R)
    BY DEF TypeInv
  <1>i. Idle \in RunState /\ Idle.export = NONE /\ Idle.pc = "idle"
    BY IdleTyped DEF Idle
  <1>t. (run \in [Refreshers -> RunState])'
    <2>1. TypeInv'
      BY StartTyped, LoadTyped, WriteTyped, FailTyped
    <2> QED
      BY <2>1 DEF TypeInv
  <1>p. \A D : run' = [run EXCEPT ![r] = D] => D \in RunState
    BY <1>t DEF TypeInv
  <1>1. CASE Start(r)
    <2>1. PICK s \in Settings, want \in (SUBSET Packages) \ {{}}, built \in BOOLEAN,
               first \in {"cache", "capture"} :
            run' = [run EXCEPT ![r] = [Idle EXCEPT !.pc = first, !.settings = s,
                      !.want = want, !.built = built, !.meta = members]]
      BY <1>1 DEF Start
    <2> DEFINE D == [Idle EXCEPT !.pc = first, !.settings = s,
                      !.want = want, !.built = built, !.meta = members]
    <2>2. D.export = NONE /\ D.pc = first
      BY DEF Idle
    <2> HIDE DEF D
    <2>3. run' = [run EXCEPT ![r] = D] /\ export' = export
      BY <1>1, <2>1 DEF D, Start, disk
    <2> QED
      BY <1>p, <2>2, <2>3 DEF Prepared
  <1>2. CASE LoadCache(r)
    <2>1. R.export = NONE
      BY <1>0, <1>2 DEF LoadCache, RunTyped
    <2> DEFINE D == [R EXCEPT !.compatible = TRUE, !.prior = cache.fps, !.pc = "graph"]
               E == [R EXCEPT !.pc = "capture"]
    <2>2. (run' = [run EXCEPT ![r] = D] \/ run' = [run EXCEPT ![r] = E]) /\ export' = export
      BY <1>2 DEF LoadCache, disk
    <2>3. D.export = NONE /\ D.pc = "graph" /\ E.export = NONE /\ E.pc = "capture"
      BY <1>0, <2>1 DEF RunState
    <2> HIDE DEF D, E
    <2> QED
      BY <1>p, <2>2, <2>3 DEF Prepared
  <1>3. CASE LoadGraph(r)
    <2> DEFINE D == [R EXCEPT !.graph = graph, !.pc = "export"]
    <2>1. run' = [run EXCEPT ![r] = D] /\ export' = export /\ R.export = NONE
      BY <1>0, <1>3 DEF LoadGraph, disk, RunTyped
    <2>2. D.export = NONE /\ D.pc = "export"
      BY <1>0, <2>1 DEF RunState
    <2> HIDE DEF D
    <2> QED
      BY <1>p, <2>1, <2>2 DEF Prepared
  <1>4. CASE OpenCache(r)
    <2> DEFINE D == [R EXCEPT !.pc = "save_cache"]
    <2>1. run' = [run EXCEPT ![r] = D] /\ export' = export /\ R.export = NONE
      BY <1>0, <1>4 DEF OpenCache, RunTyped
    <2>2. D.export = NONE /\ D.pc = "save_cache"
      BY <1>0, <2>1 DEF RunState
    <2> HIDE DEF D
    <2> QED
      BY <1>p, <2>1, <2>2 DEF Prepared
  <1>5. CASE SaveCache(r) \/ Fail(r)
    BY <1>5, <1>i DEF SaveCache, Fail, disk, Prepared
  <1> QED
    BY <1>1, <1>2, <1>3, <1>4, <1>5

LEMMA LinkStep == PlainNames /\ TypeInv /\ LinkInv /\ [Next]_vars => LinkInv'
  <1> SUFFICES ASSUME PlainNames, TypeInv, LinkInv, [Next]_vars PROVE LinkInv'
    OBVIOUS
  <1>1. CASE UNCHANGED <<export, run>>
    BY <1>1 DEF LinkInv
  <1>2. ASSUME NEW r \in Refreshers, Refresh(r) \/ Fail(r) PROVE LinkInv'
    <2> DEFINE R == run[r]
    <2>0. R \in RunState /\ RunTyped(R) /\ RunLinked(R)
      BY DEF TypeInv, LinkInv
    <2>1. CASE Start(r) \/ LoadCache(r) \/ LoadGraph(r) \/ OpenCache(r) \/ SaveCache(r) \/ Fail(r)
      <3>1. PICK D \in RunState : /\ run' = [run EXCEPT ![r] = D] /\ export' = export
                                  /\ D.export = NONE /\ D.pc \notin {"fingerprint"} \union Prepared
        BY <2>1, IdleSteps
      <3>2. RunLinked(D)
        BY <3>1 DEF RunLinked
      <3> QED
        BY <3>1, <3>2, LinkKept
    <2>2. CASE LoadExport(r)
      <3> DEFINE E == IF export # NONE /\ MatchesGraph(export, R.graph) THEN export ELSE NONE
                 D == [R EXCEPT !.export = E, !.pc = "capture"]
      <3>1. run' = [run EXCEPT ![r] = D] /\ export' = export
        BY <2>2 DEF LoadExport, disk
      <3>2. D.export = E /\ D.pc = "capture"
        BY <2>0 DEF RunState
      <3>3. RunLinked(D)
        BY <3>2 DEF RunLinked, LinkInv, Prepared
      <3> HIDE DEF D
      <3> QED
        BY <3>1, <3>3, LinkKept
    <2>3. CASE Capture(r)
      <3>1. PICK s : run' = [run EXCEPT ![r].sources = s, ![r].pc = "fingerprint"]
        BY <2>3 DEF Capture
      <3> DEFINE D == [R EXCEPT !.sources = s, !.pc = "fingerprint"]
      <3>2. run' = [run EXCEPT ![r] = D] /\ export' = export
        BY <2>3, <3>1 DEF Capture, disk
      <3>3. D.export = R.export /\ D.pc = "fingerprint"
        BY <2>0 DEF RunState
      <3>4. RunLinked(D)
        BY <2>0, <3>3 DEF RunLinked, Prepared
      <3> HIDE DEF D
      <3> QED
        BY <3>2, <3>4, LinkKept
    <2>4. CASE Fingerprint(r)
      <3>1. R.pc = "fingerprint" /\ export' = export
        BY <2>4 DEF Fingerprint, disk
      <3> QED
        BY <2>0, <2>4, <3>1, FingerprintIs, FingerprintedLinked, LinkKept
    <2>5. CASE Document(r)
      <3>0. PICK produced \in SUBSET Selected(R) : \E ok :
              run' = [run EXCEPT ![r] = Documented(R, produced, ok)]
        BY <2>5, DocumentIs
      <3>1. PICK ok : run' = [run EXCEPT ![r] = Documented(R, produced, ok)]
        BY <3>0
      <3>2. R.pc = "document" /\ export' = export
        BY <2>5 DEF Document, disk
      <3> HIDE DEF R
      <3>3. RunLinked(Documented(R, produced, ok))
        BY <2>0, <3>2, DocumentedLinked
      <3> QED
        BY <3>1, <3>2, <3>3, LinkKept
    <2>6. CASE Recapture(r)
      <3>1. PICK after \in Snapshots(R.meta) : run' = [run EXCEPT ![r] = Recaptured(R, after)]
        BY <2>6, RecaptureIs
      <3>2. R.pc = "recapture" /\ export' = export
        BY <2>6 DEF Recapture, disk
      <3> HIDE DEF R
      <3>3. RunLinked(Recaptured(R, after))
        BY <2>0, <3>1, <3>2, RecapturedLinked
      <3> QED
        BY <3>1, <3>2, <3>3, LinkKept
    <2>7. CASE WriteGraph(r)
      <3> DEFINE D == [R EXCEPT !.pc = "write_export"]
      <3>1. run' = [run EXCEPT ![r] = D] /\ export' = export /\ R.pc = "write_graph"
        BY <2>7 DEF WriteGraph
      <3>2. D.export = R.export /\ D.definitions = R.definitions /\ D.graph = R.graph
        BY <2>0 DEF RunState
      <3>3. RunLinked(D)
        BY <2>0, <3>1, <3>2 DEF RunLinked, Prepared
      <3> HIDE DEF D
      <3> QED
        BY <3>1, <3>3, LinkKept
    <2>8. CASE WriteExport(r)
      <3>1. /\ run' = [run EXCEPT ![r] = Caching(R)] /\ R.pc = "write_export"
            /\ export' = Sidecar(R)
        BY <2>8 DEF WriteExport, Sidecar, Caching
      <3>2. Linked(export'.definitions, export'.graph)
        BY <2>0, <3>1 DEF RunLinked, Prepared, Sidecar
      <3>3. RunLinked(Caching(R))
        BY DEF RunLinked, Caching, Idle, Prepared
      <3> QED
        BY <3>1, <3>2, <3>3, LinkKept
    <2> QED
      BY <1>2, <2>1, <2>2, <2>3, <2>4, <2>5, <2>6, <2>7, <2>8 DEF Refresh
  <1> QED
    BY <1>1, <1>2 DEF Next, vars, disk, Edit, Regroup, HelperWrites

(* Whenever the sidecar is bound to the graph beside it, its definitions   *)
(* are of nodes of that graph: after any crash, overlap of refreshes or    *)
(* graph overwritten by a build script.                                    *)
THEOREM DefinitionsAlwaysLinked ==
  ASSUME PlainNames
  PROVE  Spec => []DefinitionsLinked
  <1>1. Init => LinkInv
    BY IdleLinked DEF Init, LinkInv
  <1>2. TypeInv /\ LinkInv /\ [Next]_vars => LinkInv'
    BY LinkStep
  <1>3. LinkInv => DefinitionsLinked
    BY DEF LinkInv, DefinitionsLinked, MatchesGraph, Linked
  <1> QED
    BY <1>1, <1>2, <1>3, Typed, PTL DEF Spec
-----------------------------------------------------------------------------
(* Reuse.  A complete report promises that the graph shows the sources     *)
(* recorded with it.  When edits may be undone the promise can be broken   *)
(* by sources that changed between two observations and changed back; the  *)
(* fingerprints of the crates involved are then older than the sources,    *)
(* in the cache and in every refresh that has yet to write it, and the     *)
(* next refresh extracts them again.  One refresh at a time keeps the      *)
(* cache in that order: another refresh could cache the later fingerprint  *)
(* of a crate whose items it did not extract.                              *)
Alone == Undo => \A r, q \in Refreshers : r = q

Done(report) == report.status = "complete"

(* The fingerprints T, if they have package p, are older than its sources. *)
Older(T, p, M) == Undo /\ (p \in DOMAIN T => T[p] < M[p])

Clear(g, p) == \A n \in g.nodes : n.from = p => n.content = NONE

(* The sources of p are not those the refresh observed, and, unless an     *)
(* edit is undone, will not be: H is what the packages have had.           *)
Moved(R, p, S, H) == S[p] # R.sources[p] /\ R.sources[p] \in H[p]

(* What refresh R may rely on when the sources are S, edited last at M.    *)
RunFaithful(R, S, M, H) ==
  /\ R.export # NONE => \A p \in DOMAIN R.export.reports : Done(R.export.reports[p]) =>
       Shows(R.export.graph, p, R.export.sources[p]) \/ Older(R.prior, p, M)
  /\ R.pc \in {"fingerprint", "document"} => \A p \in R.meta :
       R.sources[p] \in H[p] \union {NONE}
  /\ R.pc = "document" =>
       /\ \A p \in R.dirty : Clear(R.graph, p)
       /\ R.settings \in RichSettings => \A p \in R.meta \ R.dirty : Shows(R.graph, p, R.sources[p])
       /\ \A p \in R.meta : Done(R.reports[p]) => R.settings \in RichSettings /\ p \notin R.dirty
  /\ R.pc = "recapture" => \A p \in R.meta : Done(R.reports[p]) =>
       \/ Shows(R.graph, p, R.sources[p]) \/ Moved(R, p, S, H) \/ R.sources[p] = NONE
       \/ Older(R.fps, p, M)
  /\ R.pc \in {"write_graph", "write_export"} => \A p \in R.meta : Done(R.reports[p]) =>
       Shows(R.graph, p, R.sources[p]) \/ Older(R.fps, p, M)
  /\ \A p \in DOMAIN R.fps : R.fps[p] <= M[p]

(* Where a lone refresh stands with the cache C.                           *)
RunOrdered(R, C) ==
  /\ R.pc = "cache" => ~R.compatible
  /\ R.pc \in {"graph", "export"} => R.compatible
  /\ R.pc \in {"graph", "export", "capture", "fingerprint"} /\ R.compatible =>
       C # NONE /\ C.fps = R.prior
  /\ R.pc \in Prepared /\ C # NONE =>
       \A p \in DOMAIN C.fps \intersect DOMAIN R.fps : C.fps[p] <= R.fps[p]

(* The next refresh will see that p changed: by the cache on disk and by   *)
(* the one that refresh R may be about to write.                           *)
LateRun(R, p, M) == R.pc \in {"open_cache", "save_cache"} => Older(R.fps, p, M)
Overtaken(p) ==
  /\ Undo
  /\ cache # NONE => Older(cache.fps, p, mtime)
  /\ \A r \in Refreshers : LateRun(run[r], p, mtime)

FaithInv ==
  /\ \A p \in Packages : mtime[p] <= edits /\ src[p] \in had[p]
  /\ cache # NONE => \A p \in DOMAIN cache.fps : cache.fps[p] <= mtime[p]
  /\ export # NONE => \A p \in DOMAIN export.reports : Done(export.reports[p]) =>
       Shows(export.graph, p, export.sources[p]) \/ Overtaken(p)
  /\ \A r \in Refreshers : RunFaithful(run[r], src, mtime, had)
  /\ Undo => \A r \in Refreshers : RunOrdered(run[r], cache)

LEMMA TimesElim ==
  ASSUME NEW T \in Times
  PROVE  DOMAIN T \subseteq Packages /\ \A p \in DOMAIN T : T[p] \in 0..MaxEdits
  <1>1. T \in PartialFunctions(Packages, 0..MaxEdits)
    BY DEF Times
  <1>2. DOMAIN T \subseteq Packages /\ T \in [DOMAIN T -> 0..MaxEdits]
    BY <1>1, PartialElim
  <1> QED
    BY <1>2

LEMMA IdleFaithful ==
  ASSUME NEW R, R.export = NONE, R.fps = <<>>, R.compatible = FALSE, R.pc \in {"idle", "cache", "capture"},
         NEW S, NEW M, NEW H, NEW C
  PROVE  RunFaithful(R, S, M, H) /\ RunOrdered(R, C) /\ \A p : Undo => LateRun(R, p, M)
  BY DEF RunFaithful, RunOrdered, LateRun, Prepared

(* A step of refresh r.                                                    *)
LEMMA FaithKept ==
  ASSUME Alone, TypeInv, FaithInv, NEW r \in Refreshers, NEW R, run' = [run EXCEPT ![r] = R],
         UNCHANGED workspace,
         RunFaithful(R, src, mtime, had), Undo => RunOrdered(R, cache'),
         cache' = cache \/ cache' = NONE \/ \A p \in DOMAIN cache'.fps : cache'.fps[p] <= mtime[p],
         \/ /\ export' = export
            /\ \A p : Overtaken(p) => (cache' # NONE => Older(cache'.fps, p, mtime)) /\ LateRun(R, p, mtime)
         \/ \A p \in DOMAIN export'.reports : Done(export'.reports[p]) =>
              \/ Shows(export'.graph, p, export'.sources[p])
              \/ Undo /\ (cache' # NONE => Older(cache'.fps, p, mtime)) /\ LateRun(R, p, mtime)
  PROVE  FaithInv'
  <1>1. \A q \in Refreshers : run'[q] = IF q = r THEN R ELSE run[q]
    BY DEF TypeInv
  <1>2. src' = src /\ mtime' = mtime /\ edits' = edits /\ had' = had
    BY DEF workspace
  <1>3. \A q \in Refreshers : RunFaithful(run'[q], src', mtime', had')
    BY <1>1, <1>2 DEF FaithInv
  <1>4. Undo => \A q \in Refreshers : run'[q] = R
    BY <1>1 DEF Alone
  <1>5. Undo => \A q \in Refreshers : RunOrdered(run'[q], cache')
    BY <1>4
  <1>6. cache' # NONE => \A p \in DOMAIN cache'.fps : cache'.fps[p] <= mtime'[p]
    BY <1>2 DEF FaithInv
  <1>7. ASSUME NEW p, Undo, cache' # NONE => Older(cache'.fps, p, mtime), LateRun(R, p, mtime)
        PROVE  Overtaken(p)'
    BY <1>2, <1>4, <1>7 DEF Overtaken
  <1>8. export' # NONE => \A p \in DOMAIN export'.reports : Done(export'.reports[p]) =>
          Shows(export'.graph, p, export'.sources[p]) \/ Overtaken(p)'
    <2>1. CASE export' = export
              /\ \A p : Overtaken(p) => (cache' # NONE => Older(cache'.fps, p, mtime)) /\ LateRun(R, p, mtime)
      <3>1. \A p : Overtaken(p) => Overtaken(p)'
        BY <2>1, <1>7 DEF Overtaken
      <3> QED
        BY <2>1, <3>1 DEF FaithInv
    <2> QED
      BY <2>1, <1>7
  <1>9. \A p \in Packages : mtime'[p] <= edits' /\ src'[p] \in had'[p]
    BY <1>2 DEF FaithInv
  <1> QED
    BY <1>3, <1>5, <1>6, <1>8, <1>9 DEF FaithInv
(* The steps before a refresh has decided and after it wrote its sidecar.  *)
LEMMA FaithIdle ==
  ASSUME Alone, TypeInv, FaithInv, NEW r \in Refreshers, Start(r) \/ Fail(r)
  PROVE  FaithInv'
  <1>1. PICK R : /\ run' = [run EXCEPT ![r] = R]
                 /\ R.export = NONE /\ R.fps = <<>> /\ R.compatible = FALSE
                 /\ R.pc \in {"idle", "cache", "capture"}
    <2>1. CASE Start(r)
      <3>1. PICK s \in Settings, want \in (SUBSET Packages) \ {{}}, built \in BOOLEAN,
                 first \in {"cache", "capture"} :
              run' = [run EXCEPT ![r] = [Idle EXCEPT !.pc = first, !.settings = s,
                        !.want = want, !.built = built, !.meta = members]]
        BY <2>1 DEF Start
      <3> DEFINE D == [Idle EXCEPT !.pc = first, !.settings = s,
                        !.want = want, !.built = built, !.meta = members]
      <3>2. D.export = NONE /\ D.fps = <<>> /\ D.compatible = FALSE /\ D.pc = first
        BY DEF Idle
      <3> HIDE DEF D
      <3> QED
        BY <3>1, <3>2 DEF D
    <2>2. CASE Fail(r)
      <3>1. Idle.export = NONE /\ Idle.fps = <<>> /\ Idle.compatible = FALSE /\ Idle.pc = "idle"
        BY DEF Idle
      <3> QED
        BY <2>2, <3>1 DEF Fail
    <2> QED
      BY <2>1, <2>2
  <1>2. RunFaithful(R, src, mtime, had) /\ RunOrdered(R, cache) /\ \A p : Undo => LateRun(R, p, mtime)
    BY <1>1, IdleFaithful
  <1>3. UNCHANGED <<workspace, disk>>
    BY DEF Start, Fail
  <1>4. \A p : Overtaken(p) => (cache # NONE => Older(cache.fps, p, mtime)) /\ LateRun(R, p, mtime)
    BY <1>2 DEF Overtaken
  <1> QED
    BY <1>1, <1>2, <1>3, <1>4, FaithKept DEF disk

LEMMA FaithLoad ==
  ASSUME Alone, TypeInv, FaithInv, NEW r \in Refreshers,
         LoadCache(r) \/ LoadGraph(r) \/ LoadExport(r) \/ Capture(r)
  PROVE  FaithInv'
  <1> DEFINE R == run[r]
  <1>0. R \in RunState /\ RunTyped(R) /\ RunFaithful(R, src, mtime, had) /\ (Undo => RunOrdered(R, cache))
    BY DEF TypeInv, FaithInv
  <1>1. UNCHANGED <<workspace, disk>>
    BY DEF LoadCache, LoadGraph, LoadExport, Capture
  <1>2. ASSUME NEW D, run' = [run EXCEPT ![r] = D], RunFaithful(D, src, mtime, had),
               Undo => RunOrdered(D, cache), D.pc \notin {"open_cache", "save_cache"}
        PROVE  FaithInv'
    <2>1. \A p : Overtaken(p) => (cache # NONE => Older(cache.fps, p, mtime)) /\ LateRun(D, p, mtime)
      BY <1>2 DEF Overtaken, LateRun
    <2> QED
      BY <1>1, <1>2, <2>1, FaithKept DEF disk
  <1>3. CASE LoadCache(r)
    <2> DEFINE D == [R EXCEPT !.compatible = TRUE, !.prior = cache.fps, !.pc = "graph"]
               E == [R EXCEPT !.pc = "capture"]
    <2>1. R.pc = "cache" /\ R.export = NONE
      BY <1>0, <1>3 DEF LoadCache, RunTyped
    <2>2. \/ run' = [run EXCEPT ![r] = D] /\ cache # NONE
          \/ run' = [run EXCEPT ![r] = E]
      BY <1>3 DEF LoadCache
    <2>3. /\ D.export = NONE /\ D.pc = "graph" /\ D.fps = R.fps /\ D.compatible /\ D.prior = cache.fps
          /\ E.export = NONE /\ E.pc = "capture" /\ E.fps = R.fps /\ E.compatible = R.compatible
      BY <1>0, <2>1 DEF RunState
    <2> HIDE DEF D, E
    <2>4. RunFaithful(D, src, mtime, had) /\ RunFaithful(E, src, mtime, had)
      BY <1>0, <2>3 DEF RunFaithful
    <2>5. (cache # NONE => RunOrdered(D, cache)) /\ (Undo => RunOrdered(E, cache))
      BY <1>0, <2>1, <2>3 DEF RunOrdered, Prepared
    <2> QED
      BY <1>2, <2>2, <2>3, <2>4, <2>5
  <1>4. CASE LoadGraph(r)
    <2> DEFINE D == [R EXCEPT !.graph = graph, !.pc = "export"]
    <2>1. run' = [run EXCEPT ![r] = D] /\ R.pc = "graph" /\ R.export = NONE
      BY <1>0, <1>4 DEF LoadGraph, RunTyped
    <2>2. /\ D.export = NONE /\ D.pc = "export" /\ D.fps = R.fps /\ D.compatible = R.compatible
          /\ D.prior = R.prior
      BY <1>0, <2>1 DEF RunState
    <2> HIDE DEF D
    <2>3. RunFaithful(D, src, mtime, had)
      BY <1>0, <2>2 DEF RunFaithful
    <2>4. Undo => RunOrdered(D, cache)
      BY <1>0, <2>1, <2>2 DEF RunOrdered, Prepared
    <2> QED
      BY <1>2, <2>1, <2>2, <2>3, <2>4
  <1>5. CASE LoadExport(r)
    <2> DEFINE E == IF export # NONE /\ MatchesGraph(export, R.graph) THEN export ELSE NONE
               D == [R EXCEPT !.export = E, !.pc = "capture"]
    <2>1. run' = [run EXCEPT ![r] = D] /\ R.pc = "export"
      BY <1>5 DEF LoadExport
    <2>2. /\ D.export = E /\ D.pc = "capture" /\ D.fps = R.fps /\ D.compatible = R.compatible
          /\ D.prior = R.prior
      BY <1>0 DEF RunState
    <2>3. ASSUME E # NONE, NEW p \in DOMAIN E.reports, Done(E.reports[p])
          PROVE  Shows(E.graph, p, E.sources[p]) \/ Older(R.prior, p, mtime)
      <3>1. Shows(export.graph, p, export.sources[p]) \/ Overtaken(p)
        BY <2>3 DEF FaithInv
      <3>2. Overtaken(p) => Older(R.prior, p, mtime)
        BY <1>0, <2>1 DEF Overtaken, RunOrdered
      <3> QED
        BY <2>3, <3>1, <3>2
    <2> HIDE DEF D, E
    <2>4. RunFaithful(D, src, mtime, had)
      BY <1>0, <2>2, <2>3 DEF RunFaithful
    <2>5. Undo => RunOrdered(D, cache)
      BY <1>0, <2>1, <2>2 DEF RunOrdered, Prepared
    <2> QED
      BY <1>2, <2>1, <2>2, <2>4, <2>5
  <1>6. CASE Capture(r)
    <2>1. PICK s \in Snapshots(R.meta) : run' = [run EXCEPT ![r].sources = s, ![r].pc = "fingerprint"]
      BY <1>6 DEF Capture
    <2> DEFINE D == [R EXCEPT !.sources = s, !.pc = "fingerprint"]
    <2>2. run' = [run EXCEPT ![r] = D] /\ R.pc = "capture"
      BY <1>6, <2>1 DEF Capture
    <2>3. /\ D.export = R.export /\ D.pc = "fingerprint" /\ D.fps = R.fps
          /\ D.compatible = R.compatible /\ D.prior = R.prior /\ D.sources = s /\ D.meta = R.meta
      BY <1>0 DEF RunState
    <2>4. \A p \in R.meta : s[p] \in had[p] \union {NONE}
      BY <1>0, <2>1 DEF Snapshots, FaithInv, RunState
    <2> HIDE DEF D
    <2>5. RunFaithful(D, src, mtime, had)
      BY <1>0, <2>2, <2>3, <2>4 DEF RunFaithful
    <2>6. Undo => RunOrdered(D, cache)
      BY <1>0, <2>2, <2>3 DEF RunOrdered, Prepared
    <2> QED
      BY <1>2, <2>2, <2>3, <2>5, <2>6
  <1> QED
    BY <1>3, <1>4, <1>5, <1>6
(* What is not dirty is what the graph shows; what is dirty is gone.       *)
LEMMA ReusedShows ==
  ASSUME PlainNames, TypeInv, NEW R \in RunState, RunTyped(R), RunFaithful(R, src, mtime, had),
         R.settings \in RichSettings, NEW p \in R.meta \ Dirty(R)
  PROVE  Shows(Cleaned(R), p, R.sources[p])
  <1>1. p \in Packages /\ p \notin Changed(R)
    BY DEF RunState, Dirty, ExpandDirtyNamespaces
  <1>2. /\ R.compatible /\ p \in DOMAIN R.prior /\ R.prior[p] = mtime[p]
        /\ R.export # NONE /\ R.export.sources[p] = R.sources[p] /\ R.sources[p] # NONE
        /\ p \in DOMAIN R.export.reports /\ Done(R.export.reports[p])
    BY <1>1 DEF Changed, ShouldExtractCrate, ExportReusable, ItemsReusable, Fingerprints, Done
  <1>3. mtime[p] \in Nat /\ R.export.graph = R.graph
    BY <1>1, <1>2 DEF TypeInv, RunTyped
  <1>4. Shows(R.graph, p, R.sources[p])
    <2>1. ~Older(R.prior, p, mtime)
      BY <1>2, <1>3 DEF Older
    <2> QED
      BY <1>2, <1>3, <2>1 DEF RunFaithful
  <1>5. ASSUME NEW i \in Items[R.sources[p]] PROVE Id(p, i) \in Present(Cleaned(R))
    <2>1. PICK n \in R.graph.nodes : n.id = Id(p, i)
      BY <1>4, <1>5 DEF Shows, Present
    <2>2. n.id.ns = Norm[p]
      BY <2>1 DEF Id
    <2>3. n \in Cleaned(R).nodes
      BY <2>2, CleanedKeeps
    <2> QED
      BY <2>1, <2>3 DEF Present
  <1>6. ASSUME NEW n \in Cleaned(R).nodes, n.from = p, n.content # NONE
        PROVE  n.content = R.sources[p]
    BY <1>4, <1>6, CleanedClears DEF Shows
  <1> QED
    BY <1>2, <1>5, <1>6 DEF Shows

LEMMA FaithFingerprinted ==
  ASSUME PlainNames, TypeInv, FaithInv, NEW R \in RunState, RunTyped(R),
         RunFaithful(R, src, mtime, had), R.pc = "fingerprint"
  PROVE  /\ RunFaithful(Fingerprinted(R), src, mtime, had)
         /\ RunOrdered(Fingerprinted(R), cache)
         /\ Fingerprinted(R).pc = "document"
  <1> DEFINE D == Fingerprinted(R)
  <1>1. /\ D.pc = "document" /\ D.export = NONE /\ D.meta = R.meta /\ D.sources = R.sources
        /\ D.settings = R.settings /\ D.dirty = Dirty(R) /\ D.graph = Cleaned(R)
        /\ D.reports = Carried(R) /\ D.fps = Fingerprints(R.meta)
    BY DEF Fingerprinted, RunState
  <1>2. Dirty(R) \subseteq R.meta /\ R.meta \subseteq Packages
    BY DirtyWithin DEF RunState
  <1>3. \A p \in Dirty(R) : Clear(Cleaned(R), p)
    BY CleanedClears DEF Clear
  <1>4. R.settings \in RichSettings => \A p \in R.meta \ Dirty(R) : Shows(Cleaned(R), p, R.sources[p])
    BY ReusedShows
  <1>5. ASSUME NEW p \in R.meta, Done(Carried(R)[p])
        PROVE  R.settings \in RichSettings /\ p \notin Dirty(R)
    <2>1. Done(PriorReport(R, p, Dirty(R)))
      BY <1>5 DEF Carried
    <2>2. ~Done(Skipped) /\ ~Done(Partial("unknown"))
      BY DEF Done, Skipped, Partial
    <2> QED
      BY <2>1, <2>2 DEF PriorReport
  <1>6. \A p \in DOMAIN D.fps : p \in Packages /\ D.fps[p] = mtime[p] /\ mtime[p] \in Nat
    BY <1>1, <1>2 DEF Fingerprints, TypeInv
  <1>7. \A p \in R.meta : R.sources[p] \in had[p] \union {NONE}
    BY DEF RunFaithful
  <1> HIDE DEF D
  <1>8. RunFaithful(D, src, mtime, had)
    BY <1>1, <1>3, <1>4, <1>5, <1>6, <1>7 DEF RunFaithful
  <1>9. RunOrdered(D, cache)
    BY <1>1, <1>6 DEF RunOrdered, FaithInv
  <1> QED
    BY <1>1, <1>8, <1>9 DEF D

(* A crate just documented shows the sources it was documented from.       *)
LEMMA DocumentedShows ==
  ASSUME TypeInv, NEW R \in RunState, RunTyped(R), R.settings \in Settings,
         NEW produced \in SUBSET Packages, NEW p \in produced, Clear(R.graph, p), src[p] # NONE
  PROVE  Shows(Ingested(R, produced), p, src[p])
  <1> DEFINE g == Ingested(R, produced)
  <1>1. g.nodes = R.graph.nodes \union {n \in Extracted(R, produced) : n.id \notin Present(R.graph)}
    BY IngestedTyped
  <1>2. ASSUME NEW i \in Items[src[p]] PROVE Id(p, i) \in Present(g)
    <2> DEFINE n == Node(p, i, src[p], R.settings)
    <2>1. n \in Extracted(R, produced)
      BY DEF Extracted
    <2>2. n.id = Id(p, i)
      BY DEF Node
    <2> HIDE DEF n, g
    <2>3. CASE n.id \in Present(R.graph)
      BY <1>1, <2>2, <2>3 DEF Present
    <2>4. CASE n.id \notin Present(R.graph)
      BY <1>1, <2>1, <2>2, <2>4 DEF Present
    <2> QED
      BY <2>3, <2>4
  <1>3. ASSUME NEW n \in g.nodes, n.from = p, n.content # NONE PROVE n.content = src[p]
    <2>1. n \notin R.graph.nodes
      BY <1>3 DEF Clear
    <2>2. n \in Extracted(R, produced)
      BY <1>1, <1>3, <2>1
    <2> QED
      BY <1>3, <2>2, ExtractedTyped
  <1> HIDE DEF g
  <1>4. Shows(g, p, src[p])
    BY <1>2, <1>3 DEF Shows
  <1> QED
    BY <1>4 DEF g

(* and one that was not shows what it did.                                 *)
LEMMA OthersShow ==
  ASSUME TypeInv, NEW R \in RunState, RunTyped(R), R.settings \in Settings,
         NEW produced \in SUBSET Packages, NEW p, p \notin produced, NEW c, Shows(R.graph, p, c)
  PROVE  Shows(Ingested(R, produced), p, c)
  <1>1. Ingested(R, produced).nodes =
          R.graph.nodes \union {n \in Extracted(R, produced) : n.id \notin Present(R.graph)}
    BY IngestedTyped
  <1>2. \A n \in Extracted(R, produced) : n.from # p
    BY ExtractedTyped
  <1> QED
    BY <1>1, <1>2 DEF Shows, Present

LEMMA FaithDocumented ==
  ASSUME TypeInv, NEW R \in RunState, RunTyped(R), RunFaithful(R, src, mtime, had), R.pc = "document",
         Undo => RunOrdered(R, cache), NEW produced \in SUBSET Selected(R), NEW ok
  PROVE  /\ RunFaithful(Documented(R, produced, ok), src, mtime, had)
         /\ Undo => RunOrdered(Documented(R, produced, ok), cache)
         /\ Documented(R, produced, ok).pc = "recapture"
  <1> DEFINE D == Documented(R, produced, ok)
  <1>1. /\ RunTyped(D) /\ D.pc = "recapture" /\ D.meta = R.meta
        /\ D.graph = Ingested(R, produced) /\ D.sources = R.sources /\ D.fps = R.fps
        /\ \A p \in R.meta : D.reports[p] = IF p \notin Selected(R) THEN R.reports[p]
                                            ELSE IF p \in produced /\ ok THEN Complete("current")
                                            ELSE Partial("unknown")
    BY DocumentedTyped
  <1>2. /\ produced \subseteq Packages /\ produced \subseteq R.dirty /\ R.settings \in Settings
        /\ Selected(R) \subseteq R.dirty /\ R.dirty \subseteq R.meta
    BY DEF Selected, RunState, RunTyped
  <1>3. ASSUME NEW p \in R.meta, Done(D.reports[p])
        PROVE  Shows(D.graph, p, R.sources[p]) \/ Moved(R, p, src, had) \/ R.sources[p] = NONE
    <2>1. CASE p \notin Selected(R)
      <3>1. R.settings \in RichSettings /\ p \notin R.dirty
        BY <1>1, <1>3, <2>1 DEF RunFaithful
      <3>2. Shows(R.graph, p, R.sources[p]) /\ p \notin produced
        BY <1>2, <3>1 DEF RunFaithful
      <3> QED
        BY <1>1, <1>2, <3>2, OthersShow
    <2>2. CASE p \in Selected(R)
      <3>1. p \in produced
        BY <1>1, <1>3, <2>2 DEF Done, Partial
      <3>2. Clear(R.graph, p)
        BY <1>2, <3>1 DEF RunFaithful
      <3>3. CASE R.sources[p] # src[p]
        BY <3>3 DEF RunFaithful, Moved
      <3>4. CASE R.sources[p] = src[p]
        BY <1>1, <1>2, <3>1, <3>2, <3>4, DocumentedShows
      <3> QED
        BY <3>3, <3>4
    <2> QED
      BY <2>1, <2>2
  <1>4. D.export = NONE
    BY <1>1 DEF RunTyped
  <1> HIDE DEF D
  <1>5. RunFaithful(D, src, mtime, had)
    BY <1>1, <1>3, <1>4 DEF RunFaithful, Moved
  <1>6. Undo => RunOrdered(D, cache)
    BY <1>1 DEF RunOrdered, Prepared
  <1> QED
    BY <1>1, <1>5, <1>6 DEF D

LEMMA QualifyDone ==
  ASSUME NEW report, NEW before, NEW after, Done(Qualify(report, before, after))
  PROVE  Done(report) /\ before = after /\ after # NONE
  <1>1. \A f : ~Done(Partial(f))
    BY DEF Done, Partial
  <1> QED
    BY <1>1 DEF Qualify, Done

(* What stays complete was extracted from the sources observed both times. *)
LEMMA FaithRecaptured ==
  ASSUME TypeInv, NEW R \in RunState, RunTyped(R), RunFaithful(R, src, mtime, had), R.pc = "recapture",
         Undo => RunOrdered(R, cache), NEW after \in Snapshots(R.meta)
  PROVE  /\ RunFaithful(Recaptured(R, after), src, mtime, had)
         /\ Undo => RunOrdered(Recaptured(R, after), cache)
         /\ Recaptured(R, after).pc = "write_graph"
  <1> DEFINE D == Recaptured(R, after)
  <1>1. /\ RunTyped(D) /\ D.pc = "write_graph" /\ D.meta = R.meta /\ D.graph.nodes = R.graph.nodes
        /\ D.sources = R.sources /\ D.fps = R.fps
        /\ \A p \in R.meta : D.reports[p] = Qualify(R.reports[p], R.sources[p], after[p])
    BY RecapturedTyped
  <1>2. ASSUME NEW p \in R.meta, Done(D.reports[p])
        PROVE  Shows(D.graph, p, R.sources[p]) \/ Older(R.fps, p, mtime)
    <2>0. Done(Qualify(R.reports[p], R.sources[p], after[p]))
      BY <1>1, <1>2
    <2>1. Done(R.reports[p]) /\ R.sources[p] = after[p] /\ after[p] # NONE
      BY <2>0, QualifyDone
    <2>2. after[p] = src[p]
      BY <2>1 DEF Snapshots
    <2>3. Shows(R.graph, p, R.sources[p]) \/ Older(R.fps, p, mtime)
      BY <2>1, <2>2 DEF RunFaithful, Moved
    <2> QED
      BY <1>1, <2>3 DEF Shows, Present
  <1>3. D.export = NONE
    BY <1>1 DEF RunTyped
  <1> HIDE DEF D
  <1>4. RunFaithful(D, src, mtime, had)
    BY <1>1, <1>2, <1>3 DEF RunFaithful
  <1>5. Undo => RunOrdered(D, cache)
    BY <1>1 DEF RunOrdered, Prepared
  <1> QED
    BY <1>1, <1>4, <1>5 DEF D
LEMMA FaithExtract ==
  ASSUME PlainNames, Alone, TypeInv, FaithInv, NEW r \in Refreshers,
         Fingerprint(r) \/ Document(r) \/ Recapture(r)
  PROVE  FaithInv'
  <1> DEFINE R == run[r]
  <1>0. R \in RunState /\ RunTyped(R) /\ RunFaithful(R, src, mtime, had) /\ (Undo => RunOrdered(R, cache))
    BY DEF TypeInv, FaithInv
  <1>1. PICK D : /\ run' = [run EXCEPT ![r] = D] /\ RunFaithful(D, src, mtime, had)
                 /\ Undo => RunOrdered(D, cache)
                 /\ D.pc \notin {"open_cache", "save_cache"}
    <2>1. CASE Fingerprint(r)
      <3>1. run' = [run EXCEPT ![r] = Fingerprinted(R)] /\ R.pc = "fingerprint"
        BY <2>1, FingerprintIs DEF Fingerprint
      <3> HIDE DEF R
      <3> QED
        BY <1>0, <3>1, FaithFingerprinted
    <2>2. CASE Document(r)
      <3>0. PICK produced \in SUBSET Selected(R) : \E ok :
              run' = [run EXCEPT ![r] = Documented(R, produced, ok)]
        BY <2>2, DocumentIs
      <3>1. PICK ok : run' = [run EXCEPT ![r] = Documented(R, produced, ok)]
        BY <3>0
      <3>2. R.pc = "document"
        BY <2>2 DEF Document
      <3> HIDE DEF R
      <3>3. /\ RunFaithful(Documented(R, produced, ok), src, mtime, had)
            /\ Undo => RunOrdered(Documented(R, produced, ok), cache)
            /\ Documented(R, produced, ok).pc = "recapture"
        BY <1>0, <3>2, FaithDocumented
      <3> QED
        BY <3>1, <3>3
    <2>3. CASE Recapture(r)
      <3>1. PICK after \in Snapshots(R.meta) : run' = [run EXCEPT ![r] = Recaptured(R, after)]
        BY <2>3, RecaptureIs
      <3>2. R.pc = "recapture"
        BY <2>3 DEF Recapture
      <3> HIDE DEF R
      <3>3. /\ RunFaithful(Recaptured(R, after), src, mtime, had)
            /\ Undo => RunOrdered(Recaptured(R, after), cache)
            /\ Recaptured(R, after).pc = "write_graph"
        BY <1>0, <3>1, <3>2, FaithRecaptured
      <3> QED
        BY <3>1, <3>3
    <2> QED
      BY <2>1, <2>2, <2>3
  <1>2. UNCHANGED <<workspace, disk>>
    BY DEF Fingerprint, Document, Recapture
  <1>3. \A p : Overtaken(p) => (cache # NONE => Older(cache.fps, p, mtime)) /\ LateRun(D, p, mtime)
    BY <1>1 DEF Overtaken, LateRun
  <1> QED
    BY <1>1, <1>2, <1>3, FaithKept DEF disk

LEMMA FaithWrite ==
  ASSUME Alone, TypeInv, FaithInv, NEW r \in Refreshers,
         WriteGraph(r) \/ WriteExport(r) \/ OpenCache(r) \/ SaveCache(r)
  PROVE  FaithInv'
  <1> DEFINE R == run[r]
  <1>0. R \in RunState /\ RunTyped(R) /\ RunFaithful(R, src, mtime, had) /\ (Undo => RunOrdered(R, cache))
    BY DEF TypeInv, FaithInv
  <1>u. UNCHANGED workspace
    BY DEF WriteGraph, WriteExport, OpenCache, SaveCache
  <1>1. CASE WriteGraph(r)
    <2> DEFINE D == [R EXCEPT !.pc = "write_export"]
    <2>1. run' = [run EXCEPT ![r] = D] /\ R.pc = "write_graph" /\ UNCHANGED <<export, cache>>
      BY <1>1 DEF WriteGraph
    <2>2. /\ D.export = NONE /\ D.pc = "write_export" /\ D.graph = R.graph /\ D.fps = R.fps
          /\ D.meta = R.meta /\ D.sources = R.sources /\ D.reports = R.reports
      BY <1>0, <2>1 DEF RunState, RunTyped
    <2> HIDE DEF D
    <2>3. RunFaithful(D, src, mtime, had)
      BY <1>0, <2>1, <2>2 DEF RunFaithful
    <2>4. Undo => RunOrdered(D, cache)
      BY <1>0, <2>1, <2>2 DEF RunOrdered, Prepared
    <2>5. \A p : Overtaken(p) => (cache # NONE => Older(cache.fps, p, mtime)) /\ LateRun(D, p, mtime)
      BY <2>2 DEF Overtaken, LateRun
    <2> HIDE DEF R
    <2> QED
      BY <1>u, <2>1, <2>3, <2>4, <2>5, FaithKept
  <1>2. CASE WriteExport(r)
    <2> DEFINE D == Caching(R)
    <2>1. /\ run' = [run EXCEPT ![r] = D] /\ R.pc = "write_export"
          /\ export' = Sidecar(R) /\ UNCHANGED cache
      BY <1>2 DEF WriteExport, Sidecar, Caching
    <2>2. D.export = NONE /\ D.pc = "open_cache" /\ D.fps = R.fps
      BY DEF Caching, Idle
    <2>3. DOMAIN R.reports = R.meta /\ R.fps \in [R.meta -> 0..MaxEdits] /\ R.meta \subseteq Packages
      BY <1>0, <2>1 DEF RunTyped, Prepared, RunState
    <2> HIDE DEF D, R
    <2>4. RunFaithful(D, src, mtime, had) /\ RunOrdered(D, cache)
      BY <1>0, <2>2 DEF RunFaithful, RunOrdered, Prepared
    <2>5. ASSUME NEW p \in R.meta, Done(R.reports[p])
          PROVE  \/ Shows(R.graph, p, R.sources[p])
                 \/ Undo /\ (cache # NONE => Older(cache.fps, p, mtime)) /\ LateRun(D, p, mtime)
      <3>1. CASE Older(R.fps, p, mtime)
        <4>1. Undo /\ R.fps[p] < mtime[p] /\ R.fps[p] \in Nat /\ mtime[p] \in Nat
          BY <2>3, <3>1 DEF Older, TypeInv
        <4>2. ASSUME cache # NONE, p \in DOMAIN cache.fps PROVE cache.fps[p] < mtime[p]
          <5>1. cache.fps[p] <= R.fps[p]
            BY <1>0, <2>1, <2>3, <4>1, <4>2 DEF RunOrdered, Prepared
          <5>2. cache.fps[p] \in Nat
            BY <4>2, TimesElim DEF TypeInv, Caches
          <5> QED
            BY <4>1, <5>1, <5>2
        <4> QED
          BY <2>2, <3>1, <4>1, <4>2 DEF Older, LateRun
      <3> QED
        BY <1>0, <2>1, <2>5, <3>1 DEF RunFaithful
    <2>6. \A p \in DOMAIN export'.reports : Done(export'.reports[p]) =>
            \/ Shows(export'.graph, p, export'.sources[p])
            \/ Undo /\ (cache' # NONE => Older(cache'.fps, p, mtime)) /\ LateRun(D, p, mtime)
      BY <2>1, <2>3, <2>5 DEF Sidecar
    <2> QED
      BY <1>u, <2>1, <2>4, <2>6, FaithKept
  <1>3. CASE OpenCache(r)
    <2> DEFINE D == [R EXCEPT !.pc = "save_cache"]
    <2>1. run' = [run EXCEPT ![r] = D] /\ R.pc = "open_cache" /\ cache' = NONE /\ export' = export
      BY <1>3 DEF OpenCache
    <2>2. D.export = NONE /\ D.pc = "save_cache" /\ D.fps = R.fps
      BY <1>0, <2>1 DEF RunState, RunTyped
    <2> HIDE DEF D
    <2>3. RunFaithful(D, src, mtime, had) /\ RunOrdered(D, cache')
      BY <1>0, <2>2 DEF RunFaithful, RunOrdered, Prepared
    <2>4. \A p : Overtaken(p) => LateRun(D, p, mtime)
      BY <2>1, <2>2 DEF Overtaken, LateRun
    <2> HIDE DEF R
    <2> QED
      BY <1>u, <2>1, <2>3, <2>4, FaithKept
  <1>4. CASE SaveCache(r)
    <2>1. /\ run' = [run EXCEPT ![r] = Idle] /\ R.pc = "save_cache" /\ export' = export
          /\ cache' = [settings |-> R.settings, fps |-> R.fps]
      BY <1>4 DEF SaveCache
    <2>2. RunFaithful(Idle, src, mtime, had) /\ RunOrdered(Idle, cache') /\ \A p : Undo => LateRun(Idle, p, mtime)
      BY IdleFaithful DEF Idle
    <2>3. \A p \in DOMAIN cache'.fps : cache'.fps[p] <= mtime[p]
      BY <1>0, <2>1 DEF RunFaithful
    <2>4. ASSUME NEW p, Overtaken(p)
          PROVE  (cache' # NONE => Older(cache'.fps, p, mtime)) /\ LateRun(Idle, p, mtime)
      BY <2>1, <2>2, <2>4 DEF Overtaken, LateRun
    <2> HIDE DEF R
    <2> QED
      BY <1>u, <2>1, <2>2, <2>3, <2>4, FaithKept
  <1> QED
    BY <1>1, <1>2, <1>3, <1>4

(* An edit makes every earlier fingerprint of the package an older one.    *)
LEMMA OlderStays ==
  ASSUME NEW T \in Times, NEW p \in Packages, NEW q, NEW M \in [Packages -> Nat], NEW k \in Nat,
         \A o \in Packages : M[o] < k, Older(T, q, M)
  PROVE  Older(T, q, [M EXCEPT ![p] = k])
  <1>1. DOMAIN T \subseteq Packages /\ \A o \in DOMAIN T : T[o] \in 0..MaxEdits
    BY TimesElim
  <1> QED
    BY <1>1 DEF Older

LEMMA RunEdited ==
  ASSUME NEW R \in RunState, RunTyped(R), NEW p \in Packages, NEW c, NEW S \in [Packages -> Contents],
         NEW H \in [Packages -> SUBSET Contents],
         NEW M \in [Packages -> Nat], NEW k \in Nat, \A o \in Packages : M[o] < k,
         Undo \/ c = S[p] \/ c \notin H[p], RunFaithful(R, S, M, H)
  PROVE  RunFaithful(R, [S EXCEPT ![p] = c], [M EXCEPT ![p] = k], [H EXCEPT ![p] = @ \union {c}])
  <1> DEFINE S2 == [S EXCEPT ![p] = c]
             M2 == [M EXCEPT ![p] = k]
             H2 == [H EXCEPT ![p] = @ \union {c}]
  <1>0. R.fps \in Times /\ R.prior \in Times /\ R.meta \subseteq Packages
    BY DEF RunState
  <1>1. /\ \A q \in Packages : M2[q] = IF q = p THEN k ELSE M[q]
        /\ \A q \in Packages : S2[q] = IF q = p THEN c ELSE S[q]
        /\ \A q \in Packages : H[q] \subseteq H2[q]
    OBVIOUS
  <1>2. \A q : (Older(R.fps, q, M) => Older(R.fps, q, M2)) /\ (Older(R.prior, q, M) => Older(R.prior, q, M2))
    BY <1>0, OlderStays
  <1>3. k # 0 /\ M2[p] = k
    BY <1>1
  <1> HIDE DEF S2, M2, H2
  <1>4. R.pc \in {"fingerprint", "document"} => \A q \in R.meta :
          R.sources[q] \in H2[q] \union {NONE}
    BY <1>0, <1>1 DEF RunFaithful
  <1>5. \A q \in DOMAIN R.fps : R.fps[q] <= M2[q]
    <2>1. DOMAIN R.fps \subseteq Packages /\ \A q \in DOMAIN R.fps : R.fps[q] \in 0..MaxEdits
      BY <1>0, TimesElim
    <2>0. \A q \in DOMAIN R.fps : R.fps[q] <= M[q]
      BY DEF RunFaithful
    <2>2. ASSUME NEW q \in Packages PROVE M2[q] \in Nat /\ M[q] \in Nat /\ M[q] <= M2[q]
      <3>1. M[q] \in Nat /\ M[q] < k
        OBVIOUS
      <3>2. M2[q] = IF q = p THEN k ELSE M[q]
        BY <1>1
      <3> QED
        BY <3>1, <3>2
    <2>3. ASSUME NEW q \in DOMAIN R.fps PROVE R.fps[q] <= M2[q]
      <3>1. R.fps[q] \in Nat /\ R.fps[q] <= M[q] /\ M[q] \in Nat /\ M2[q] \in Nat /\ M[q] <= M2[q]
        BY <2>0, <2>1, <2>2
      <3> QED
        BY <3>1
    <2> QED
      BY <2>3
  <1>6. ASSUME R.pc = "recapture", NEW q \in R.meta, Done(R.reports[q])
        PROVE  \/ Shows(R.graph, q, R.sources[q]) \/ Moved(R, q, S2, H2) \/ R.sources[q] = NONE
               \/ Older(R.fps, q, M2)
    <2>1. CASE q # p
      BY <1>0, <1>1, <1>2, <1>6, <2>1 DEF RunFaithful, Moved
    <2>2. CASE q = p /\ ~Undo
      BY <1>0, <1>1, <1>2, <1>6, <2>2 DEF RunFaithful, Moved
    <2>3. CASE q = p /\ Undo
      <3>1. DOMAIN R.fps \subseteq Packages /\ \A o \in DOMAIN R.fps : R.fps[o] \in 0..MaxEdits /\ R.fps[o] <= M[o]
        BY <1>0, TimesElim DEF RunFaithful
      <3>2. Older(R.fps, p, M2)
        BY <1>3, <2>3, <3>1 DEF Older
      <3> QED
        BY <2>3, <3>2
    <2> QED
      BY <2>1, <2>2, <2>3
  <1> QED
    BY <1>2, <1>4, <1>5, <1>6 DEF RunFaithful, S2, M2, H2
LEMMA FaithEdit ==
  ASSUME TypeInv, FaithInv, NEW p \in Packages, Edit(p)
  PROVE  FaithInv'
  <1>1. PICK c \in Contents :
           /\ Undo \/ c = src[p] \/ c \notin had[p]
           /\ src' = [src EXCEPT ![p] = c] /\ had' = [had EXCEPT ![p] = @ \union {c}]
    BY DEF Edit
  <1>2. /\ mtime' = [mtime EXCEPT ![p] = edits + 1] /\ edits' = edits + 1
        /\ UNCHANGED <<graph, export, cache, run>>
    BY DEF Edit, disk
  <1> DEFINE k == edits + 1
             M == [mtime EXCEPT ![p] = k]
             S == [src EXCEPT ![p] = c]
             H == [had EXCEPT ![p] = @ \union {c}]
  <1>3. /\ src \in [Packages -> Contents] /\ mtime \in [Packages -> Nat] /\ edits \in Nat /\ k \in Nat
        /\ had \in [Packages -> SUBSET Contents]
        /\ \A o \in Packages : mtime[o] < k /\ src[o] \in had[o]
    BY DEF TypeInv, FaithInv
  <1>4. \A q \in Packages : /\ M[q] \in Nat /\ mtime[q] \in Nat /\ mtime[q] <= M[q] /\ M[q] <= k
                             /\ S[q] \in H[q]
    BY <1>3
  <1>5. ASSUME NEW r \in Refreshers PROVE RunFaithful(run[r], S, M, H)
    <2>1. run[r] \in RunState /\ RunTyped(run[r]) /\ RunFaithful(run[r], src, mtime, had)
      BY DEF TypeInv, FaithInv
    <2> HIDE DEF k
    <2> QED
      BY <1>1, <1>3, <2>1, RunEdited
  <1>6. ASSUME NEW T \in Times, NEW q, Older(T, q, mtime) PROVE Older(T, q, M)
    <2> HIDE DEF k
    <2> QED
      BY <1>3, <1>6, OlderStays
  <1>7. cache # NONE => cache.fps \in Times
    BY DEF TypeInv, Caches
  <1>8. \A r \in Refreshers : run[r].fps \in Times
    BY DEF TypeInv, RunState
  <1> HIDE DEF M, S, H, k
  <1>9. mtime' = M /\ src' = S /\ had' = H /\ edits' = k /\ run' = run /\ cache' = cache /\ export' = export
    BY <1>1, <1>2 DEF M, S, H, k
  <1>10. ASSUME NEW q, Overtaken(q) PROVE Overtaken(q)'
    BY <1>6, <1>7, <1>8, <1>9, <1>10 DEF Overtaken, LateRun
  <1>11. cache' # NONE => \A q \in DOMAIN cache'.fps : cache'.fps[q] <= mtime'[q]
    <2>1. ASSUME cache # NONE, NEW q \in DOMAIN cache.fps PROVE cache.fps[q] <= M[q]
      <3>1. q \in Packages /\ cache.fps[q] \in Nat
        BY <1>7, <2>1, TimesElim
      <3>2. cache.fps[q] <= mtime[q]
        BY <2>1 DEF FaithInv
      <3> QED
        BY <1>4, <3>1, <3>2
    <2> QED
      BY <1>9, <2>1
  <1>12. export' # NONE => \A q \in DOMAIN export'.reports : Done(export'.reports[q]) =>
           Shows(export'.graph, q, export'.sources[q]) \/ Overtaken(q)'
    BY <1>9, <1>10 DEF FaithInv
  <1>13. Undo => \A r \in Refreshers : RunOrdered(run'[r], cache')
    BY <1>9 DEF FaithInv
  <1>14. /\ \A q \in Packages : mtime'[q] <= edits' /\ src'[q] \in had'[q]
         /\ \A r \in Refreshers : RunFaithful(run'[r], src', mtime', had')
    BY <1>4, <1>5, <1>9
  <1> QED
    BY <1>11, <1>12, <1>13, <1>14 DEF FaithInv

LEMMA FaithInit == Init => FaithInv
  <1> SUFFICES ASSUME Init PROVE FaithInv
    OBVIOUS
  <1>1. /\ export = NONE /\ cache = NONE /\ edits = 0 /\ mtime = [p \in Packages |-> 0]
        /\ run = [r \in Refreshers |-> Idle] /\ \A p \in Packages : src[p] \in had[p]
    BY DEF Init
  <1>2. RunFaithful(Idle, src, mtime, had) /\ RunOrdered(Idle, cache)
    BY IdleFaithful DEF Idle
  <1> QED
    BY <1>1, <1>2 DEF FaithInv

LEMMA FaithStep == PlainNames /\ Alone /\ TypeInv /\ FaithInv /\ [Next]_vars => FaithInv'
  <1> SUFFICES ASSUME PlainNames, Alone, TypeInv, FaithInv, [Next]_vars PROVE FaithInv'
    OBVIOUS
  <1>1. CASE UNCHANGED <<src, mtime, edits, had, export, cache, run>>
    BY <1>1 DEF FaithInv, Overtaken
  <1>2. ASSUME NEW r \in Refreshers, Refresh(r) \/ Fail(r) PROVE FaithInv'
    BY <1>2, FaithIdle, FaithLoad, FaithExtract, FaithWrite DEF Refresh
  <1>3. ASSUME NEW p \in Packages, Regroup(p)
        PROVE  \/ \E q \in Packages : Edit(q)
               \/ UNCHANGED <<src, mtime, had, export, cache, run>> /\ edits' = edits + 1
    BY <1>3 DEF Regroup, disk
  <1>4. ASSUME UNCHANGED <<src, mtime, had, export, cache, run>>, edits' = edits + 1 PROVE FaithInv'
    <2>1. \A p \in Packages : mtime[p] \in Nat /\ mtime[p] <= edits /\ src[p] \in had[p]
      BY DEF TypeInv, FaithInv
    <2>2. \A p \in Packages : mtime'[p] <= edits' /\ src'[p] \in had'[p]
      BY <1>4, <2>1 DEF TypeInv
    <2> QED
      BY <1>4, <2>2 DEF FaithInv, Overtaken
  <1> QED
    BY <1>1, <1>2, <1>3, <1>4, FaithEdit DEF Next, vars, workspace, disk, HelperWrites

(* What a refresh reuses is what it would extract: whatever was edited,    *)
(* restored, killed or overwritten before, and however many refreshes run  *)
(* at once, as long as no edit is undone while they overlap.               *)
THEOREM ReuseAlwaysSound ==
  ASSUME PlainNames, Alone
  PROVE  Spec => []ReuseSound
  <1>1. FaithInv => ReuseSound
    BY DEF FaithInv, RunFaithful, ReuseSound, Rich
  <1> QED
    BY <1>1, FaithInit, FaithStep, Typed, PTL DEF Spec

(* Without undone edits, what a bound sidecar calls current is what the    *)
(* graph beside it shows of the sources recorded there, however many       *)
(* refreshes overlap and wherever they are killed.                         *)
THEOREM CurrentAlwaysFaithful ==
  ASSUME PlainNames, Undo = FALSE
  PROVE  Spec => []CurrentIsFaithful
  <1>1. FaithInv => CurrentIsFaithful
    BY DEF FaithInv, CurrentIsFaithful, Overtaken, Done, Complete
  <1>2. Alone
    BY DEF Alone
  <1> QED
    BY <1>1, <1>2, FaithInit, FaithStep, Typed, PTL DEF Spec
=============================================================================
