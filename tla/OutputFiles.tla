----------------------------- MODULE OutputFiles -----------------------------
(***************************************************************************)
(* `output::write_graph_with_title` and the readers of the output          *)
(* directory.  A writer replaces the graph data in one form, compressed or *)
(* plain, sweeps the other form, then replaces the viewer and the report.  *)
(* Writers are refreshes and build scripts; any of them may fail or be     *)
(* killed at any step.  A reader looks a graph up and then reads it.       *)
(***************************************************************************)
EXTENDS AtomicWrite, Naturals, FiniteSets

CONSTANTS
  Docs,        \* graphs a writer may have to write
  Large,       \* those the viewer does not inline
  Forms,       \* forms in use: "gz", "plain"
  Readers,     \* processes that look a graph up
  MaxWrites    \* bound: writes begun

DataFile(form) == IF form = "gz" THEN "graph.json.gz" ELSE "graph.json"
Other(form) == IF form = "gz" THEN "plain" ELSE "gz"
OutputNames == {"graph.json.gz", "graph.json", "graph.html", "GRAPH_REPORT.md"}

AnyDoc == Docs \union {NONE}
Whole == [doc : AnyDoc, fetch : {NONE, "graph.json.gz", "graph.json"}]

ASSUME OutputAssumption ==
  /\ NONE \notin Whole /\ TORN \notin Whole \union {NONE}
  /\ OutputNames \subseteq Names
  /\ Forms \subseteq {"gz", "plain"}
  /\ Large \subseteq Docs
  /\ MaxWrites \in Nat

VARIABLES
  writer,   \* each writer's step and what it writes
  writes,   \* writes begun and their forms, and the last one that ended
  reader    \* each reader's step, the file it found and what it read

outputVars == <<files, tmp, writer, writes>>
vars == <<outputVars, reader>>

IdleWriter == [pc |-> "idle", stage |-> "create", doc |-> NONE, form |-> NONE]
IdleReader == [pc |-> "idle", path |-> NONE, got |-> NONE]

InitOutput ==
  /\ InitFiles
  /\ writer = [p \in Processes |-> IdleWriter]
  /\ writes = [begun |-> 0, forms |-> {}, clean |-> FALSE, ok |-> FALSE, doc |-> NONE, form |-> NONE]

Init == InitOutput /\ reader = [r \in Readers |-> IdleReader]

Writing == {p \in Processes : writer[p].pc # "idle"}

(* The file a writer is at, what it puts there, and what it does next.     *)
Target(W) ==
  IF W.pc = "data" THEN DataFile(W.form)
  ELSE IF W.pc = "html" THEN "graph.html"
  ELSE "GRAPH_REPORT.md"

(* Mutant: the viewer always fetches the compressed form. *)
Payload_Gz(W) ==
  IF W.pc = "html" THEN [doc |-> IF W.doc \in Large THEN NONE ELSE W.doc,
                         fetch |-> "graph.json.gz"]
  ELSE [doc |-> W.doc, fetch |-> NONE]

(* Mutant: the name the viewer fetches is not baked into its template. *)
Payload_Template(W) ==
  IF W.pc = "html" THEN [doc |-> IF W.doc \in Large THEN NONE ELSE W.doc,
                         fetch |-> "__GRAPH_SRC__"]
  ELSE [doc |-> W.doc, fetch |-> NONE]

(* The viewer inlines a small graph and fetches a large one at runtime.    *)
Payload(W) ==
  IF W.pc = "html" THEN [doc |-> IF W.doc \in Large THEN NONE ELSE W.doc,
                         fetch |-> DataFile(W.form)]
  ELSE [doc |-> W.doc, fetch |-> NONE]

(* A write is clean when no other ran meanwhile and its sweep succeeded.   *)
BeginWrite(p, doc, form) ==
  /\ writer[p].pc = "idle"
  /\ writer' = [writer EXCEPT ![p] =
       [pc |-> "data", stage |-> "create", doc |-> doc, form |-> form]]
  /\ writes' = [writes EXCEPT !.begun = @ + 1, !.forms = @ \union {form}, !.clean = (Writing = {})]
  /\ UNCHANGED <<files, tmp>>

Create(p) ==
  /\ writer[p].pc \in {"data", "html", "report"} /\ writer[p].stage = "create"
  /\ CreateTmp(p, Target(writer[p]))
  /\ writer' = [writer EXCEPT ![p].stage = "fill"]
  /\ UNCHANGED writes

Fill(p) ==
  /\ writer[p].stage = "fill"
  /\ FillTmp(p, Target(writer[p]), Payload(writer[p]))
  /\ writer' = [writer EXCEPT ![p].stage = "rename"]
  /\ UNCHANGED writes

Rename(p) ==
  /\ writer[p].stage = "rename"
  /\ RenameTmp(p, Target(writer[p]))
  /\ \/ /\ writer[p].pc \in {"data", "html"}
        /\ writer' = [writer EXCEPT ![p].stage = "create",
                        ![p].pc = IF writer[p].pc = "data" THEN "sweep" ELSE "report"]
        /\ UNCHANGED writes
     \/ /\ writer[p].pc = "report"
        /\ writer' = [writer EXCEPT ![p] = IdleWriter]
        /\ writes' = [writes EXCEPT !.ok = writes.clean, !.doc = writer[p].doc, !.form = writer[p].form]

(* Mutant: the file just written is swept. *)
Stale_Own(form) == DataFile(form)

Stale(form) == DataFile(Other(form))

(* Mutant: the other form is swept by writers of the compressed one only.  *)
Sweep_Gz(p) ==
  /\ writer[p].pc = "sweep"
  /\ files' = IF writer[p].form = "gz" THEN [files EXCEPT !["graph.json"] = NONE] ELSE files
  /\ writer' = [writer EXCEPT ![p].pc = "html"]
  /\ UNCHANGED <<tmp, writes>>

(* A failure to remove the other form is ignored. *)
Sweep(p) ==
  /\ writer[p].pc = "sweep"
  /\ \/ files' = [files EXCEPT ![Stale(writer[p].form)] = NONE] /\ UNCHANGED writes
     \/ writes' = [writes EXCEPT !.clean = FALSE] /\ UNCHANGED files
  /\ writer' = [writer EXCEPT ![p].pc = "html"]
  /\ UNCHANGED tmp

(* An error or a kill leaves every file as it is. *)
FailWrite(p) ==
  /\ writer[p].pc # "idle"
  /\ writer' = [writer EXCEPT ![p] = IdleWriter]
  /\ writes' = [writes EXCEPT !.ok = FALSE]
  /\ UNCHANGED <<files, tmp>>

WriteStep(p) == Create(p) \/ Fill(p) \/ Rename(p) \/ Sweep(p)
OutputStep(p) == WriteStep(p) \/ FailWrite(p)

(* find_graph: the compressed form is looked up first. *)
LookUp(r, form) ==
  /\ files' = files
  /\ reader' = [reader EXCEPT ![r] =
       IF files[DataFile(form)] # NONE
       THEN [pc |-> "read", path |-> DataFile(form), got |-> NONE]
       ELSE [IdleReader EXCEPT !.pc = IF form = "gz" THEN "plain" ELSE "idle"]]
  /\ UNCHANGED outputVars

Find(r) ==
  \/ reader[r].pc = "idle" /\ LookUp(r, "gz")
  \/ reader[r].pc = "plain" /\ LookUp(r, "plain")

Read(r) ==
  /\ reader[r].pc = "read"
  /\ reader' = [reader EXCEPT ![r].pc = "idle", ![r].got = files[reader[r].path]]
  /\ UNCHANGED outputVars

Next ==
  \/ \E p \in Processes :
       /\ \/ /\ writes.begun < MaxWrites
             /\ \E doc \in Docs, form \in Forms : BeginWrite(p, doc, form)
          \/ OutputStep(p)
       /\ UNCHANGED reader
  \/ \E r \in Readers : Find(r) \/ Read(r)

Spec == Init /\ [][Next]_vars

-----------------------------------------------------------------------------
Contents == Whole \union {NONE, TORN}

WriterState == [pc : {"idle", "data", "sweep", "html", "report"},
                stage : {"create", "fill", "rename"}, doc : AnyDoc, form : Forms \union {NONE}]
WritesState == [begun : 0..MaxWrites, forms : SUBSET Forms, clean : BOOLEAN, ok : BOOLEAN,
                doc : AnyDoc, form : Forms \union {NONE}]
ReaderState == [pc : {"idle", "plain", "read"},
                path : {NONE, "graph.json.gz", "graph.json"}, got : Contents]

TypeOK ==
  /\ files \in [Names -> Contents]
  /\ tmp \in [Names \X Processes -> Contents]
  /\ writer \in [Processes -> WriterState]
  /\ writes \in WritesState
  /\ reader \in [Readers -> ReaderState]

(* "Writes are atomic (temp file + rename) so concurrent build scripts     *)
(* during a parallel cargo build never observe or produce a torn file":    *)
(* whatever writers overlap, fail or are killed and leave a torn temporary *)
(* file behind, a file in place is whole.                                  *)
NeverTorn == \A n \in Names : files[n] # TORN

(* While writers of one form only have been at work, a graph that was      *)
(* found can be read: its file is replaced, never removed.                 *)
FoundIsRead ==
  Cardinality(writes.forms) <= 1 =>
    \A r \in Readers : reader[r].pc = "read" => files[reader[r].path] # NONE

(* "exactly one canonical form is on disk": after a write that succeeded   *)
(* with no other at the same time and swept, whatever overlapped, failed   *)
(* or was killed before it.                                                *)
OneForm ==
  Writing = {} /\ writes.ok =>
    Cardinality({f \in {"gz", "plain"} : files[DataFile(f)] # NONE}) = 1

Shown(name) == IF files[name] \in {NONE, TORN} THEN NONE ELSE files[name].doc

(* After such a write the data is its graph, the viewer and the report are *)
(* of that graph, and a viewer that fetches its data finds it.             *)
OutputsAgree ==
  Writing = {} /\ writes.ok =>
    /\ Shown(DataFile(writes.form)) = writes.doc
    /\ Shown("GRAPH_REPORT.md") = writes.doc
    /\ Shown(IF Shown("graph.html") = NONE THEN files["graph.html"].fetch ELSE "graph.html")
         = writes.doc

(* "exactly one canonical form is on disk", of writes that overlap: once   *)
(* one has ended with success and nobody is writing, a graph is there.     *)
GraphKept ==
  Writing = {} /\ writes.doc # NONE => \E f \in {"gz", "plain"} : files[DataFile(f)] # NONE
=============================================================================
