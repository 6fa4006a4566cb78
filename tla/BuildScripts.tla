---------------------------- MODULE BuildScripts ----------------------------
(***************************************************************************)
(* `build_graph::Builder::try_run`, the helper the build scripts of a      *)
(* workspace call, several at a time.  A script writes the fragment of its *)
(* crate, reads every fragment it finds, and writes their union as the     *)
(* graph.  A later build runs again the scripts of crates that changed.    *)
(* A fragment is its crate and the version of the sources it describes; a  *)
(* graph is the set of the fragments merged into it.                       *)
(***************************************************************************)
EXTENDS OutputFiles

CONSTANTS
  Frag,       \* the fragment file of each crate: its sanitized name
  MaxBuilds   \* bound: cargo builds

ASSUME ScriptsAssumption ==
  /\ Frag \in [Processes -> Names \ OutputNames]
  /\ SUBSET (Processes \X (1..MaxBuilds)) \subseteq Docs
  /\ MaxBuilds \in Nat \ {0}

VARIABLES
  version,  \* the version of each crate's sources
  builds,   \* number of the current cargo build
  batch,    \* the crates whose script it runs
  script    \* each script's step, the fragment files left to read, and the union so far

scriptVars == <<version, builds, batch, script>>
allVars == <<vars, scriptVars>>

NotRun == [pc |-> "done", todo |-> {}, merged |-> {}]
Begun == [NotRun EXCEPT !.pc = "begin"]

InitScripts ==
  /\ InitOutput
  /\ reader = <<>>
  /\ version = [c \in Processes |-> 1]
  /\ builds = 1
  /\ batch = Processes
  /\ script = [c \in Processes |-> Begun]

Current == {<<c, version[c]>> : c \in Processes}

FragmentOf(c, v) == [doc |-> {<<c, v>>}, fetch |-> NONE]

(* Scan the crate's sources and start writing its fragment. *)
Collect(c) ==
  /\ script[c].pc = "begin"
  /\ CreateTmp(c, Frag[c])
  /\ script' = [script EXCEPT ![c].pc = "fill"]
  /\ UNCHANGED <<writer, writes, version, builds, batch>>

FillFragment(c) ==
  /\ script[c].pc = "fill"
  /\ FillTmp(c, Frag[c], FragmentOf(c, version[c]))
  /\ script' = [script EXCEPT ![c].pc = "rename"]
  /\ UNCHANGED <<writer, writes, version, builds, batch>>

RenameFragment(c) ==
  /\ script[c].pc = "rename"
  /\ RenameTmp(c, Frag[c])
  /\ script' = [script EXCEPT ![c].pc = "list"]
  /\ UNCHANGED <<writer, writes, version, builds, batch>>

(* Mutant: only the fragments of the crates of this build are listed. *)
Listed_Batch == {Frag[c] : c \in batch}

Listed == {n \in {Frag[c] : c \in Processes} : files[n] # NONE}

ListFragments(c) ==
  /\ script[c].pc = "list"
  /\ script' = [script EXCEPT ![c].pc = "read", ![c].todo = Listed]
  /\ UNCHANGED <<outputVars, version, builds, batch>>

(* One fragment after the other; one that does not parse is skipped.       *)
ReadFragment(c, n) ==
  /\ script[c].pc = "read" /\ n \in script[c].todo
  /\ script' = [script EXCEPT ![c].todo = @ \ {n},
       ![c].merged = IF files[n] \in {NONE, TORN} THEN @ ELSE @ \union files[n].doc]
  /\ UNCHANGED <<outputVars, version, builds, batch>>

WriteUnion(c) ==
  /\ script[c].pc = "read" /\ script[c].todo = {}
  /\ BeginWrite(c, script[c].merged, "plain")
  /\ script' = [script EXCEPT ![c].pc = "output"]
  /\ UNCHANGED <<version, builds, batch>>

Output(c) ==
  /\ script[c].pc = "output"
  /\ \/ /\ WriteStep(c)
        /\ script' = [script EXCEPT ![c].pc = IF writer'[c].pc = "idle" THEN "done" ELSE "output"]
     \/ /\ FailWrite(c)
        /\ script' = [script EXCEPT ![c].pc = "failed"]
  /\ UNCHANGED <<version, builds, batch>>

(* An error is a cargo warning, and the build proceeds. *)
FailScript(c) ==
  /\ script[c].pc \in {"begin", "fill", "rename", "list", "read"}
  /\ script' = [script EXCEPT ![c] = [NotRun EXCEPT !.pc = "failed"]]
  /\ UNCHANGED <<outputVars, version, builds, batch>>

(* The next build, some crates having changed. *)
Rebuild ==
  /\ builds < MaxBuilds
  /\ \A c \in Processes : script[c].pc \in {"done", "failed"}
  /\ builds' = builds + 1
  /\ batch' \in (SUBSET Processes) \ {{}}
  /\ version' = [c \in Processes |-> IF c \in batch' THEN version[c] + 1 ELSE version[c]]
  /\ script' = [c \in Processes |-> IF c \in batch' THEN Begun ELSE script[c]]
  /\ UNCHANGED outputVars

Script(c) ==
  \/ Collect(c) \/ FillFragment(c) \/ RenameFragment(c)
  \/ ListFragments(c) \/ (\E n \in script[c].todo : ReadFragment(c, n))
  \/ WriteUnion(c) \/ Output(c)

NextScripts ==
  /\ \/ \E c \in Processes : Script(c) \/ FailScript(c)
     \/ Rebuild
  /\ UNCHANGED reader

ScriptsSpec == InitScripts /\ [][NextScripts]_allVars

-----------------------------------------------------------------------------
ScriptState == [pc : {"begin", "fill", "rename", "list", "read", "output", "done", "failed"},
                todo : SUBSET Names, merged : SUBSET (Processes \X (1..MaxBuilds))]

AllDone == \A c \in Processes : script[c].pc = "done"

(* However the scripts of a build interleave, one of them merged the       *)
(* current fragments of every crate: each wrote its own before it looked   *)
(* for the others.                                                         *)
UnionMerged == AllDone => \E c \in batch : script[c].merged = Current

(* "the last to land after the build finishes holds the complete union".   *)
LastHoldsUnion == AllDone => Shown("graph.json") = Current
=============================================================================
