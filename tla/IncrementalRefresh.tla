------------------------- MODULE IncrementalRefresh -------------------------
(***************************************************************************)
(* `cargo build-graph build` and `update`: one refresh loads the prior     *)
(* graph, its export sidecar and the per-crate cache, re-extracts what is  *)
(* dirty, and replaces the three files one after the other.  Sources are   *)
(* edited, packages join and leave the workspace, build scripts overwrite  *)
(* the graph, refreshes overlap, and any of them may be killed at any      *)
(* step.                                                                   *)
(*                                                                         *)
(* A package's sources are one value of Contents; a content fingerprint is *)
(* the content, an mtime fingerprint the number of the last edit.  Layer 3 *)
(* references, file nodes and dependency edges are left out.               *)
(***************************************************************************)
EXTENDS Naturals, Sequences

CONSTANTS
  Packages,    \* packages the workspace may hold
  Norm,        \* norm of their names: the parts between `__` delimiters
  Contents,    \* what the sources of a package may be
  Items,       \* the items each content defines
  Uses,        \* the items of other packages each package refers to
  Unreadable,  \* packages a source file of which may fail to be read
  Settings,    \* layer settings of a run
  RichSettings,\* those with the item layer
  Refreshers,  \* processes running the command
  Helper,      \* whether the workspace's build scripts write graphs too
  Undo,        \* whether an edit may restore earlier contents
  MaxEdits,    \* bound: edits
  MaxRuns,     \* bound: refreshes started
  MaxChanges,  \* bound: both together
  NONE

ASSUME ConstantsAssumption ==
  /\ Norm \in [Packages -> Seq(STRING) \ {<<>>}]
  /\ Uses \in [Packages -> SUBSET (Packages \X UNION {Items[c] : c \in Contents})]
  /\ RichSettings \subseteq Settings
  /\ Unreadable \subseteq Packages
  /\ Helper \in BOOLEAN /\ Undo \in BOOLEAN
  /\ MaxEdits \in Nat /\ MaxRuns \in Nat /\ MaxChanges \in Nat

(* Node ids: the normalized package name and the item; "crate" is the node *)
(* of the package and "main" the item whose signature has the Uses.        *)
Names == {"crate", "main"} \union UNION {Items[c] : c \in Contents}
Id(p, name) == [ns |-> Norm[p], name |-> name]
Ids == {Id(p, name) : p \in Packages, name \in Names}

Node(p, name, c, s) == [id |-> Id(p, name), from |-> p, content |-> c, settings |-> s]
Nodes == [id : Ids, from : Packages, content : Contents \union {NONE},
          settings : Settings \union {NONE}]
Graphs == [nodes : SUBSET Nodes, edges : SUBSET (Ids \X Ids)]
EmptyGraph == [nodes |-> {}, edges |-> {}]

Present(g) == {n.id : n \in g.nodes}

VARIABLES
  \* the workspace
  members, src, mtime, edits,
  had,  \* history: the contents each package ever had
  \* the output directory; NONE for a file that is absent or unreadable
  graph, export, cache,
  \* the refreshes
  run, runs

disk == <<graph, export, cache>>
workspace == <<members, src, mtime, edits, had>>
vars == <<workspace, disk, run, runs>>

Complete(f) == [status |-> "complete", freshness |-> f]
Partial(f)  == [status |-> "partial", freshness |-> f]
Skipped     == [status |-> "skipped", freshness |-> "unknown"]

Idle == [pc |-> "idle", settings |-> NONE, built |-> FALSE, want |-> {}, meta |-> {},
         compatible |-> FALSE, prior |-> <<>>, graph |-> EmptyGraph, export |-> NONE,
         sources |-> <<>>, fps |-> <<>>, dirty |-> {}, reports |-> <<>>, definitions |-> {}]

Init ==
  /\ members \in (SUBSET Packages) \ {{}}
  /\ \E c \in Contents : src = [p \in Packages |-> c] /\ had = [p \in Packages |-> {c}]
  /\ mtime = [p \in Packages |-> 0]
  /\ edits = 0
  /\ graph = NONE /\ export = NONE /\ cache = NONE
  /\ run = [r \in Refreshers |-> Idle]
  /\ runs = 0

Rich(r) == run[r].settings \in RichSettings

(* The source snapshot of each package, NONE for one not fully read. *)
Snapshots(meta) ==
  {s \in [meta -> Contents \union {NONE}] :
     \A p \in meta : s[p] = src[p] \/ (p \in Unreadable /\ s[p] = NONE)}

(* The fingerprint of each package, from the times of its sources. *)
Fingerprints(meta) == [p \in meta |-> mtime[p]]

(* Whether package p compiles, here and now. *)
Compiles(p) == \A u \in Uses[p] : u[1] \in members /\ u[2] \in Items[src[u[1]]]

-----------------------------------------------------------------------------
(* Graph and output operations *)

(* Add nodes, keeping those whose id is already there. *)
AddNodes(g, ns) == [g EXCEPT !.nodes = @ \union {n \in ns : n.id \notin Present(g)}]

(* crate_of_id: the part of an id before the first delimiter. *)
Crate(id) == <<Head(id.ns)>>

RemoveCrates(g, nss) ==
  [nodes |-> {n \in g.nodes : Crate(n.id) \notin nss},
   edges |-> {e \in g.edges : Crate(e[1]) \notin nss}]

PruneDanglingEdges(g) ==
  [g EXCEPT !.edges = {e \in @ : e[1] \in Present(g) /\ e[2] \in Present(g)}]

AddCrateLayer(g, ps) == AddNodes(g, {Node(p, "crate", NONE, NONE) : p \in ps})

(* Mutant: the sidecar is trusted without its binding to the graph. *)
MatchesGraph_Unbound(e, g) == TRUE
MatchesGraph(e, g) == e.graph = g

-----------------------------------------------------------------------------
(* One refresh *)

(* Build the workspace, or not (`update`), and read its metadata.  Only an *)
(* incremental refresh loads prior state; one of a watched save does not.  *)
Start(r) ==
  /\ run[r].pc = "idle"
  /\ runs < MaxRuns /\ edits + runs < MaxChanges
  /\ runs' = runs + 1
  /\ \E s \in Settings, want \in (SUBSET Packages) \ {{}}, built \in BOOLEAN,
        first \in {"cache", "capture"} :
       /\ built => \A p \in members : Compiles(p)
       /\ run' = [run EXCEPT ![r] = [Idle EXCEPT !.pc = first, !.settings = s,
                    !.want = want, !.built = built, !.meta = members]]
  /\ UNCHANGED <<workspace, disk>>

(* The prior state is used if the cache was written under these settings.  *)
LoadCache(r) ==
  /\ run[r].pc = "cache"
  /\ IF cache # NONE /\ cache.settings = run[r].settings /\ graph # NONE
     THEN run' = [run EXCEPT ![r].compatible = TRUE, ![r].prior = cache.fps, ![r].pc = "graph"]
     ELSE run' = [run EXCEPT ![r].pc = "capture"]
  /\ UNCHANGED <<workspace, disk, runs>>

LoadGraph(r) ==
  /\ run[r].pc = "graph"
  /\ run' = [run EXCEPT ![r].graph = graph, ![r].pc = "export"]
  /\ UNCHANGED <<workspace, disk, runs>>

LoadExport(r) ==
  /\ run[r].pc = "export"
  /\ run' = [run EXCEPT
       ![r].export = IF export # NONE /\ MatchesGraph(export, run[r].graph) THEN export ELSE NONE,
       ![r].pc = "capture"]
  /\ UNCHANGED <<workspace, disk, runs>>

Capture(r) ==
  /\ run[r].pc = "capture"
  /\ \E s \in Snapshots(run[r].meta) :
       run' = [run EXCEPT ![r].sources = s, ![r].pc = "fingerprint"]
  /\ UNCHANGED <<workspace, disk, runs>>

(* Mutant: the mtimes of the sources are not compared. *)
ShouldExtractCrate_AnyTime(R, p) == ~R.compatible \/ p \notin DOMAIN R.prior

ShouldExtractCrate(R, p) ==
  ~R.compatible \/ p \notin DOMAIN R.prior \/ R.prior[p] # Fingerprints(R.meta)[p]

ExportReusable(R, p) ==
  /\ R.export # NONE
  /\ p \in DOMAIN R.export.sources
  /\ R.export.sources[p] = R.sources[p]
  /\ R.sources[p] # NONE

ItemsReusable(R, p) ==
  \/ R.settings \notin RichSettings
  \/ /\ R.export # NONE
     /\ p \in DOMAIN R.export.reports
     /\ R.export.reports[p].status = "complete"

(* Mutant: the removed packages are documented too. *)
ExpandDirtyNamespaces_Removed(dirty, removed, meta) == dirty \union removed

ExpandDirtyNamespaces(dirty, removed, meta) ==
  dirty \union {p \in meta : \E q \in dirty \union removed : Norm[q] = Norm[p]}

(* The item report of a package before any extraction. *)
PriorReport(R, p, dirty) ==
  IF R.settings \notin RichSettings \/ p \notin R.want THEN Skipped
  ELSE IF p \in dirty \/ R.export = NONE THEN Partial("unknown")
  ELSE IF p \notin DOMAIN R.export.reports THEN Partial("unknown")
  ELSE IF ~R.built /\ R.export.reports[p] # Skipped THEN Partial("unknown")
  ELSE R.export.reports[p]

(* Fingerprint every crate, and drop the changed and removed ones from the *)
(* graph and from the definitions.  (The loaded state has no use past this *)
(* point and is forgotten.)                                                *)
Fingerprint(r) ==
  /\ run[r].pc = "fingerprint"
  /\ LET R == run[r]
         changed == {p \in R.meta : \/ ShouldExtractCrate(R, p)
                                    \/ ~ExportReusable(R, p)
                                    \/ ~ItemsReusable(R, p)}
         removed == DOMAIN R.prior \ R.meta
         dirty == ExpandDirtyNamespaces(changed, removed, R.meta)
         kept == IF R.export = NONE THEN {} ELSE R.export.definitions
     IN run' = [run EXCEPT ![r] = [R EXCEPT
          !.fps = Fingerprints(R.meta),
          !.dirty = dirty,
          !.definitions = {d \in kept : d.from \in R.meta \ dirty},
          !.reports = [p \in R.meta |-> PriorReport(R, p, dirty)],
          !.graph = AddCrateLayer(RemoveCrates(@, {Norm[p] : p \in dirty \union removed}), R.meta),
          !.prior = <<>>, !.export = NONE, !.compatible = FALSE, !.built = FALSE,
          !.pc = "document"]]
  /\ UNCHANGED <<workspace, disk, runs>>

(* The cross-crate edges of the packages just ingested, each to the item   *)
(* when the graph has it and else to the crate.                            *)
PendingEdges(g, ps) ==
  LET Target(u) == Id(u[1], IF Id(u[1], u[2]) \in Present(g) THEN u[2] ELSE "crate") IN
  UNION {{<<Id(p, "main"), Target(u)>> : u \in Uses[p]} : p \in ps}

(* Document the dirty packages in scope: each either yields the JSON of    *)
(* its present contents or none, and the whole invocation may fail.        *)
Document(r) ==
  /\ run[r].pc = "document"
  /\ LET R == run[r]
         selected == IF Rich(r) THEN R.dirty \intersect R.want ELSE {}
     IN \E produced \in SUBSET {p \in selected : Compiles(p)}, ok \in BOOLEAN :
          LET items == UNION {{Node(p, i, src[p], R.settings) : i \in Items[src[p]]} : p \in produced}
              all == AddNodes(R.graph, items)
          IN run' = [run EXCEPT ![r] = [R EXCEPT
               !.graph = [all EXCEPT !.edges = @ \union PendingEdges(all, produced)],
               !.definitions = @ \union {[id |-> n.id, from |-> n.from] : n \in items},
               !.reports = [p \in R.meta |->
                  IF p \notin selected THEN @[p]
                  ELSE IF p \in produced /\ ok THEN Complete("current")
                  ELSE Partial("unknown")],
               !.pc = "recapture"]]
  /\ UNCHANGED <<workspace, disk, runs>>

(* Mutant: the sources are not observed again. *)
Qualify_Once(report, before, after) == report

(* Observe the sources again and qualify what was extracted. *)
Qualify(report, before, after) ==
  IF (before = after /\ after # NONE) \/ report.status = "skipped" THEN report
  ELSE Partial(IF before # NONE /\ after # NONE THEN "stale" ELSE "unknown")

Recapture(r) ==
  /\ run[r].pc = "recapture"
  /\ \E after \in Snapshots(run[r].meta) :
       run' = [run EXCEPT
         ![r].graph = PruneDanglingEdges(@),
         ![r].reports = [p \in run[r].meta |-> Qualify(@[p], run[r].sources[p], after[p])],
         ![r].pc = "write_graph"]
  /\ UNCHANGED <<workspace, disk, runs>>

(* The three files, one after the other; the cache alone is not written    *)
(* atomically, and a torn cache is no cache.                               *)
WriteGraph(r) ==
  /\ run[r].pc = "write_graph"
  /\ graph' = run[r].graph
  /\ run' = [run EXCEPT ![r].pc = "write_export"]
  /\ UNCHANGED <<workspace, export, cache, runs>>

WriteExport(r) ==
  /\ run[r].pc = "write_export"
  /\ export' = [graph |-> run[r].graph, sources |-> run[r].sources,
                reports |-> run[r].reports, definitions |-> run[r].definitions]
  /\ run' = [run EXCEPT ![r] =
       [Idle EXCEPT !.pc = "open_cache", !.settings = run[r].settings, !.fps = run[r].fps]]
  /\ UNCHANGED <<workspace, graph, cache, runs>>

OpenCache(r) ==
  /\ run[r].pc = "open_cache"
  /\ cache' = NONE
  /\ run' = [run EXCEPT ![r].pc = "save_cache"]
  /\ UNCHANGED <<workspace, graph, export, runs>>

SaveCache(r) ==
  /\ run[r].pc = "save_cache"
  /\ cache' = [settings |-> run[r].settings, fps |-> run[r].fps]
  /\ run' = [run EXCEPT ![r] = Idle]
  /\ UNCHANGED <<workspace, graph, export, runs>>

(* A refresh that fails leaves what it wrote so far, and so does one that  *)
(* is killed.                                                              *)
Fail(r) ==
  /\ run[r].pc # "idle"
  /\ run' = [run EXCEPT ![r] = Idle]
  /\ UNCHANGED <<workspace, disk, runs>>

-----------------------------------------------------------------------------
(* The environment *)

(* An edit that undoes nothing gives a package a content it never had, or  *)
(* leaves it the one it has; a package may be edited again and again.      *)
Edit(p) ==
  /\ edits < MaxEdits /\ edits + runs < MaxChanges
  /\ edits' = edits + 1
  /\ \E c \in Contents :
       /\ Undo \/ c = src[p] \/ c \notin had[p]
       /\ src' = [src EXCEPT ![p] = c] /\ had' = [had EXCEPT ![p] = @ \union {c}]
  /\ mtime' = [mtime EXCEPT ![p] = edits + 1]
  /\ UNCHANGED <<members, disk, run, runs>>

(* A package leaves the workspace, or joins it again. *)
Regroup(p) ==
  /\ edits < MaxEdits /\ edits + runs < MaxChanges
  /\ edits' = edits + 1
  /\ members' = IF p \in members THEN members \ {p} ELSE members \union {p}
  /\ members' # {}
  /\ UNCHANGED <<src, mtime, had, disk, run, runs>>

(* The build script helper replaces the graph by its Layer 1 graph. *)
HelperWrites ==
  /\ Helper
  /\ graph' = AddCrateLayer(EmptyGraph, members)
  /\ UNCHANGED <<workspace, export, cache, run, runs>>

Refresh(r) ==
  \/ Start(r) \/ LoadCache(r) \/ LoadGraph(r) \/ LoadExport(r)
  \/ Capture(r) \/ Fingerprint(r) \/ Document(r) \/ Recapture(r)
  \/ WriteGraph(r) \/ WriteExport(r) \/ OpenCache(r) \/ SaveCache(r)

Next ==
  \/ \E r \in Refreshers : Refresh(r) \/ Fail(r)
  \/ \E p \in Packages : Edit(p) \/ Regroup(p)
  \/ HelperWrites

Spec == Init /\ [][Next]_vars

-----------------------------------------------------------------------------
Reports == {Complete("current"), Partial("unknown"), Partial("stale"), Skipped}
Definitions == [id : Ids, from : Packages]

PartialFunctions(S, T) == UNION {[D -> T] : D \in SUBSET S}
Snapshot == PartialFunctions(Packages, Contents \union {NONE})
Times == PartialFunctions(Packages, 0..MaxEdits)

TypeOK ==
  /\ members \subseteq Packages
  /\ src \in [Packages -> Contents] /\ had \in [Packages -> SUBSET Contents]
  /\ mtime \in [Packages -> 0..MaxEdits]
  /\ edits \in 0..MaxEdits /\ runs \in 0..MaxRuns
  /\ graph = NONE \/ (graph.nodes \subseteq Nodes /\ graph.edges \subseteq Ids \X Ids)
  /\ export = NONE \/ (/\ export.sources \in Snapshot
                       /\ DOMAIN export.reports = DOMAIN export.sources
                       /\ export.definitions \subseteq Definitions)
  /\ cache = NONE \/ (cache.settings \in Settings /\ cache.fps \in Times)
  /\ \A r \in Refreshers :
       /\ run[r].pc \in {"idle", "cache", "graph", "export", "capture", "fingerprint", "document",
                         "recapture", "write_graph", "write_export", "open_cache", "save_cache"}
       /\ run[r].dirty \subseteq run[r].meta /\ run[r].meta \subseteq Packages
       /\ run[r].fps \in Times /\ run[r].sources \in Snapshot
       /\ \A p \in DOMAIN run[r].reports : run[r].reports[p] \in Reports

(* The graph has all the items of contents c of package p, and no item of  *)
(* other contents of p; contents not fully read are shown by no graph.     *)
Shows(g, p, c) ==
  /\ c # NONE
  /\ \A i \in Items[c] : Id(p, i) \in Present(g)
  /\ \A n \in g.nodes : n.from = p /\ n.content # NONE => n.content = c

(* What a refresh reuses is what it would extract: the items of a package  *)
(* that is not dirty are those of the sources it has just observed, after  *)
(* any crash, overlap or overwritten graph, and, of refreshes that do not  *)
(* overlap, even when an edit was undone.                                  *)
ReuseSound ==
  \A r \in Refreshers : LET R == run[r] IN
    R.pc = "document" /\ Rich(r) =>
      \A p \in R.meta \ R.dirty : Shows(R.graph, p, R.sources[p])

(* Whenever the sidecar is bound to the graph beside it, every definition  *)
(* it records "links to graph_node_id": a node of that graph.              *)
DefinitionsLinked ==
  graph # NONE /\ export # NONE =>
    (MatchesGraph(export, graph) => \A d \in export.definitions : d.id \in Present(graph))

(* "current item freshness requires ... an unchanged, fully read observed  *)
(* source set": the items of a package reported current are those of the   *)
(* sources the bound sidecar records.  (Without undone edits.)             *)
CurrentIsFaithful ==
  graph # NONE /\ export # NONE =>
    (export.graph = graph =>
       \A p \in DOMAIN export.reports :
         export.reports[p] = Complete("current") => Shows(graph, p, export.sources[p]))

(* "Cross-crate edges into a re-extracted crate survive because IDs are    *)
(* deterministic": once every package is complete, each use of an item is  *)
(* an edge to that item.                                                   *)
EdgesSurvive ==
  \A r \in Refreshers : LET R == run[r] IN
    /\ R.pc = "write_graph"
    /\ R.meta = Packages
    /\ \A p \in Packages : R.reports[p] = Complete("current")
    => \A p \in Packages : \A u \in Uses[p] :
         u[2] \in Items[R.sources[u[1]]] => <<Id(p, "main"), Id(u[1], u[2])>> \in R.graph.edges

(* "Reuse the prior graph when the cache is compatible (same layer         *)
(* settings)": no item of other settings is reused.                        *)
ReuseSameSettings ==
  \A r \in Refreshers : LET R == run[r] IN
    R.pc = "document" =>
      \A n \in R.graph.nodes : n.content # NONE => n.settings = R.settings
=============================================================================
