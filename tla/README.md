# build-graph in TLA+

Specifications of `cargo build-graph`: the tool that turns the artifacts of a
Cargo build into a graph of crates, files and items, keeps that graph beside the
build, and can let an external supervisor observe and approve the Cargo
processes it starts. The modules are translated from the Rust sources under
`src/`; `PROJECT.json` maps each definition to the lines it stands for.

## The system

| Component | State | Operations | What is hard |
| --- | --- | --- | --- |
| Launch channel (`launch_intent.rs`, `launch_intent/linux.rs`) | frames and time charged, a sticky failure; the pending operation and its phase, nonces seen | `route`, `prepare`, `spawned`, `spawn_failed`, `complete`, `cancel`, each one an exchange over a Unix stream | late, doubled or wrong replies, a deadline over the whole session, failures between an effect and its notice |
| Cargo session and child guard (`cargo_launch.rs`) | ordinal, retained records, the guard with the child and its sealed carrier | `begin`, `launch`, `launch_reference_check`, `wait`, `output`, drop | a child must not outlive the call or the guard that owns it on any error path |
| Refresh (`main.rs`, `depinfo.rs`, `cache.rs`, `export*.rs`, `graph.rs`, `metadata.rs`) | three files: graph, export sidecar, per-crate cache | load, find what is dirty, drop and extract, qualify, replace | kills between the files, overlapping refreshes, sources edited meanwhile, crates sharing a namespace |
| Item layer (`rustdoc.rs`) | the graph in memory | document the dirty crates, ingest the JSON, link across crates | part of the crates fail, the JSON of another run is on disk |
| Output files (`output.rs`) | graph data in one of two forms, viewer, report, temporary files | write, sweep the other form, find, read | concurrent build scripts and refreshes, kills, a failing sweep |
| Build scripts (`lib.rs`, `fragment.rs`, `merge.rs`) | one fragment per crate, the graph | write the fragment, read all, merge, write the graph | scripts of one build run in parallel and share no lock |
| Watcher (`main.rs`, `run_watch`) | last fingerprint | poll, settle, refresh, rescan | saves during a refresh, the build's own writes |
| Build (`cargo_build.rs`) | Cargo's message stream | run, collect artifacts | errors and early ends of the stream |
| Compiler observer (`compiler_observer.rs`, `compiler_invocation.rs`) | a directory with slots, markers and unit records; the attachment being assembled | wrap a compiler, claim, observe, record; join and assemble | parallel wrappers that are killed, files replaced under the compiler, loss that must be counted within the limit it exceeds |
| Semantic stream (`bg-driver/semantic.rs`, `compiler_semantic.rs`, `read_semantic_stream`) | pages, an index, a byte counter shared by all drivers | reserve, visit, flush, publish; read and validate | a lock whose owner dies, a counter rewritten in place, interrupted pages, stale sources |
| Held controls (`held_callback_control.rs`) | two sealed descriptors and the selectors that name them | seal, pass to the child, adopt | a pair that cannot be sealed, an inherited environment |
| Context and harness rows (`observed_context.rs`, `test_harness.rs`) | rows of the stream | charge, build, give up | a block cut in the middle |
| References layer (`scip.rs`, `driver_refs.rs`) | reference edges | replace wholesale | failure keeps the old edges |
| Query server (`qserve.rs`) | the graph it loaded, a port file that outlives it | load, listen, announce, answer; locate, connect, fall back | stale graph, stale port, a server killed while it answers |
| Queries (`query.rs`) | none | find, refs, context | walks bounded per level, ranking, ambiguity |

The components meet as follows. The command line (`main.rs`) opens the launch
channel, lets a `CargoLaunchSession` run `cargo metadata`, `cargo build` and
`cargo rustdoc`, then refreshes the graph and writes it through `output.rs`.
Build scripts write the same output directory through the same functions, in
other processes, while the command may be running. The watcher repeats the
refresh. Compiler wrappers, started by Cargo, leave captures in a directory that
the command assembles after the build; the driver inside each compiler leaves
occurrences and a semantic stream there, charged to a counter that all drivers
of the build share. `find`, `refs` and `context` read the graph, or ask the
server that has it in memory.

For each component, what makes it correct:

- launch: a child starts only after the supervisor acknowledged exactly its
  final intent; a failure is final; whatever fails, the child is killed, waited
  for and reported in that order; the carrier lives exactly as long as needed;
- refresh: what is reused equals what would be extracted; what is reported
  current is faithful to the recorded sources; nothing of a removed crate or of
  other settings stays; definitions and edges refer to nodes of the graph;
- output: no torn file, one form, data and viewer and report in agreement;
- build scripts: the graph after a build is the union of all fragments;
- watcher: every save reaches the graph, and the build does not trigger it;
- observer: a compilation is recorded or the attachment says that something is
  missing; a child takes the controls of its own wrapper or none; a record is of
  what was compiled; what does not fit is counted, and the counts fit;
- stream: the drivers together stay under the limit whatever dies, what one
  publishes validates, rows are lost only where the stream says so, and places
  of edited sources are not attached;
- queries: an answer that says it is complete is; a command always ends.

## Modules

| Module | Models | Notes |
| --- | --- | --- |
| `LaunchObserver` | launch channel, session and child guard | the core: 30 actions |
| `LaunchCustody` | what the launch channel promises | abstract; implemented by `LaunchObserver` |
| `LaunchObserver_proofs` | | theorems about the launch protocol |
| `IncrementalRefresh` | refreshes over graph, sidecar and cache | with editors, kills and build scripts |
| `IncrementalRefresh_proofs` | | theorems about types, links, reuse and what is current |
| `AtomicWrite` | `write_atomic` | used by the next two |
| `OutputFiles` | `write_graph_with_title`, `find_graph`, `read_graph` | extends `AtomicWrite` |
| `OutputFiles_proofs` | | theorems about writers and readers |
| `BuildScripts` | `Builder::try_run` of several crates | extends `OutputFiles`: a script is a writer |
| `BuildScripts_proofs` | | theorem about the merged union |
| `Watch` | `run_watch` | |
| `Watch_proofs` | | theorem about what triggers a refresh |
| `StreamBudget` | `reserve` of the driver | the counter, its lock and their failures |
| `SemanticStream` | the driver's `Writer` and walk, the session's reader | extends `StreamBudget` |
| `SemanticStream_proofs` | | theorems about the budget, the pages and the reader |
| `CompilerCapture` | compiler wrapper, held controls, `finish_with_operations` | |
| `CompilerCapture_proofs` | | theorems about wrappers, records, loss and the assembly |
| `Queries` | `query.rs` | operators and their reference definitions, no state |
| `QueryServer` | `qserve.rs` and the commands of `main.rs` | extends `Queries` |
| `QueryServer_proofs` | | theorem about the answers, with the lemmas about sorting and walking |
| `MC*` | instances for TLC | values of constants only |

Definitions whose name ends in an underscore and a word (`Tmp_Shared`) are
variants of the code with a plausible bug. No specification uses them; they show
that the property listed beside them in `PROJECT.json` can fail.

### LaunchObserver

The session is synchronous: all its calls share one stack. `pc` is the place of
that stack, `"idle"` when the caller holds no guard and `"owned"` when it does.
Each exchange of the code is two actions, the send and the answer, so the
supervisor and the child can do anything in between. `SupervisorReplies` may
acknowledge or route any event it ever received, any number of times, or refuse:
stale, duplicated, reordered and wrong replies, up to `MaxInFlight` in the
stream. A send or a receive may fail at any time, which stands for a closed
stream, a deadline and a byte bound; the frame bound is counted.

| Action | Code |
| --- | --- |
| `Begin`, `BeginReferenceCheck` | `CargoLaunchSession::begin` up to the route, `launch_reference_check` |
| `Route`, `RouteAccepted`, `RouteRejected`, `NotifyUnavailable`, `UnavailableAnswered` | `Observer::route` |
| `RecordOperation` | the rest of `begin`: tool selection and retention of the record |
| `Prepare`, `IntentAcknowledged`, `IntentRefused` | `Observer::prepare` |
| `SpawnChild`, `SpawnFails`, `SpawnedAcknowledged`, `SpawnedRefused`, `SpawnFailedAnswered` | `launch_started` with `spawned` and `spawn_failed` |
| `Wait`, `CompletedAnswered` | `CargoChild::wait` and `Observer::complete` |
| `OutputOverflow`, `CancelOwned`, `RetainedWait`, `CancelledAnswered` | `CargoChild::output`, `cancel_owned`, `retained_wait`, drop |
| `ChildExits`, `SupervisorReplies` | environment |

Abstractions: a digest of a value is the value (no collisions); frames are whole
or fail; overlays are three values (ordinary, refused, changing the tool
selection); PIDs and exit statuses are left out. The byte accounting of retained
records is the choice `fits`. A `wait` that itself fails leads to `CancelOwned`.

### IncrementalRefresh

`run[r]` holds the local variables of one refresh, `graph`, `export` and `cache`
the three files. A package's sources are one value of `Contents`; `mtime` counts
edits. Node ids are the parts of the normalized package name between delimiters
and the item's name, so that packages may share a namespace (`a-b`, `a_b`) or
have one inside another's (`a`, `a--b`). `Fail` is an error or a kill at any
step. `Edit` may follow `Edit` on the same package; when `Undo` is `FALSE` it gives
the package a content that is not in `had`, the history of its contents, or the one
it has: A, B, C is allowed, A, B, A is not. `HelperWrites` is a build script overwriting the graph with its own.
`Start` chooses the settings, the packages in scope, whether the workspace is
built first and whether prior state is loaded (a watched save does not). The
references layer, file nodes and dependency edges are left out.

### AtomicWrite, OutputFiles, BuildScripts

A directory is a function from names to contents. `write_atomic` is three steps:
create, fill, rename. A writer goes through data, sweep, viewer and report with
those steps; a sweep may fail unnoticed, and `FailWrite` stops the writer anywhere
and leaves its temporary file. `writes` records what the properties need: the
forms used so far, whether the write begun last ran alone and swept (`clean`), and
what the write that ended last wrote. A reader looks up the compressed form, then the plain one, then reads.
`BuildScripts` runs one such writer per crate after it has written its fragment
and read, one at a time, the fragments it listed. `Rebuild` starts the next
build with the crates that changed.

### Watch

`mtime` counts the writes of each file; a fingerprint is all the times. A refresh
reads the files one by one, so saves fall before or after the reading of a file.
A refresh may fail (`"failed"`): the watcher goes on and does not try it again.
Sleeping is not modelled: `Poll` and `Settle` may happen at any time.

### StreamBudget, SemanticStream

`StreamBudget` is one call of `reserve` per driver, step by step: the directory
that is the lock, tried `Attempts` times; the counter read, emptied, written and
synced; an error at each step, which releases the lock, and a kill, which does
not. `SemanticStream` runs the driver's `Writer` on top of it: a step of the
writer that charges bytes starts a call (`Reserve`) and goes on when it returned
(`Answered`). `Domain[d]` is what the walk of driver `d` comes to, in order: rows
of the compiler's context, of the test harness and of the crate, each of a
source, some of a kind the driver does not support (`fits`). The visitors of
`semantic.rs`, `test_harness.rs` and `observed_context.rs` decide which items
there are; only their charges, gaps, counts and early ends are kept. The largest
bound of a stream, its pages, is `maxPages`, from what was left of the budget
when it was opened. After `BeginFinish` the session reads the streams one by one
(`ReadStream`) with one source budget and one set of checked inputs, as
`read_semantic_stream` does; a dead compiler's stream is not read. An output
directory is its number of pages, the rows of all of them by list, and their places
in the order in which the session checks them. Bytes are the
constants `HEADER`, `SOURCE`, `ROW` and `PAGE`; a content of a source is a
version, which an edit may also restore.

### CompilerCapture

`run[c]` is a wrapper process. `Start` sorts the calls as `wrapper` and `prepare`
do (a unit, Cargo's information query, another program, an argument that is too
long, a response file), then the wrapper claims a slot (`Claim`, `SlotTaken`,
`ClaimFails`, `NoSlot`), observes its inputs, writes the requests, seals or passes
them (`Seal`, `PassPaths`), runs the compiler, whose driver adopts what it finds
in its environment (`Compile`), observes again (`After`), accepts the occurrences
and writes its record. `Kill` is possible between any two of these and `TORN` is a
record cut by a kill. Before a wrapper clears them, the variables of its
environment are those of an outer build (`FOREIGN`). `session` is
`finish_with_operations`: markers and slots, units, generators, streams, and the
assembly with its evictions. The unit files are read in any order, as a directory
lists them, and sorted before they are assembled.

`Finish` lists the directory as the code does, three times: the unit files, the
witnesses of budgets (`budget-*`) and the slots. The witnesses are looked for among
the first `LISTED` entries only, three for each slot and `SPARE` (32 in the code), in
no order, so when the directory holds more (`Entries`) the session sees any of the
sets `Seen`, which may miss as many witnesses as there are entries too many.
`Entries` counts every file that may be there (the configuration and the wrapper, the
budget of the streams and its lock, the requests of each captured compiler and what
they ask for, slots, records and marks), which is never fewer than there are. An error of a
listing is ignored by the code: it is a `Fault` after which any part of what is there
was listed. A witness that cannot be read (`torn`) is a gap and no truncation, and so
is a generator that is not valid (`JoinGenerator`); the latter is not counted as
dropped either. `CapturedOrTold` therefore speaks of compilers with a slot when the
slots could be listed, and of those without one when nothing failed and the directory
fits the listing (`Fits`); beyond that it promises them nothing, and
`WitnessMissed.cfg` shows why. `AssemblyExact` allows for invalid generators, which
must have their gap.

Sizes are small numbers; gaps take a byte, a
truncation `LOSS` bytes. `StreamSize` stands for the stream of `SemanticStream`.
The content of arguments and environments, the artifacts a unit may be bound to
and the tool chain queries are left out. `gap_attachment` keeps the counts of
lost streams and resets those of units and generators; the model keeps only which
collections lost something.

### Queries, QueryServer

A graph is a set of nodes and a sequence of edges; `Find`, `Refs` and `Context`
compute as `find_indexed`, `refs_indexed` and `context_indexed` do, in their
order. `Linked`, `Wanted`, `Within` and `Distant` say what should come out, from the
edges alone: the links of a node, those that were asked for, and the nodes at each
number of hops. Labels and paths are abstracted to how well a name matches (`Tier`),
a length (`Length`) and a place in their order (`Name`, `Path`); every sort is
`InOrder` of the tuples that the code compares. Filters on the neighbour are the set
`only`. `Unseen` is `seen_edge` of one level: its key holds the node an edge is from,
and no node is in two frontiers, so no level drops what an earlier one showed.

`AnswersMeetReference` says of `refs` that every row shown was asked for and is in
the graph, that there are at most `limit` a level, and that an answer with `total`
equal to `returned` has, at each depth, every link of the nodes one hop nearer,
except that of mutual links under one relation one may stand for both; of `find`
that it lists no node twice and counts what `context` counts, dangling edges
aside; of `context` that a group is within its limit and its count.

In `QueryServer` a server loads the graph of its time, binds a port, announces it in the port file
and answers its connections in order until it is killed; nothing removes the
file. `Bind` is another program on a free port. A command looks the file up,
connects, waits at most a minute, and loads the graph itself when anything fails.
There is always a graph on disk. (A comment at `qserve.rs:134` says that each
connection has a thread of its own; the code, and the comment at `qserve.rs:149`,
answer them one after the other.)

## Runs

Passing runs:

| Run | Instance | Shows |
| --- | --- | --- |
| `launch_safety` | operation bound 2, retained records 2, ordinals up to 3, two nonces, three overlays, 2 replies in flight | all safety invariants of the protocol |
| `launch_progress` | the same with 1 reply in flight, no symmetry | the fence, the refinement of `LaunchCustody`, the two liveness properties |
| `refresh_crash` | packages sharing a namespace, up to 2 edits or regroupings, up to 3 refreshes, 4 of both together, undone edits, helper | reuse is sound and definitions are linked |
| `refresh_current` | one package whose sources may be unreadable, three contents, two overlapping refreshes, up to 2 edits of it that do not return to an earlier content (846,603 states) | current reports are faithful |
| `output_files` | two writers of either form, a reader, 3 writes | no torn file; a found file can be read while one form is in use; after an undisturbed write one form is there and the outputs agree |
| `scripts` | two crates, two builds, failures | some script merged every fragment |
| `watching` | three files, one generated, 3 saves, 1 rewrite | only saves trigger; noticed saves land |
| `semantic_stream` | a harness build of five items and a build of two that share a source, 9 bytes, 4 traversal events, pages of one row per list, 1 edit, 1 fault | the budget never forgets and an interruption closes it; published streams are paid for, validate and tell their losses; attached places are fresh; every stream is decided |
| `capture` | three compilers, two slots, five setups (with and without streams and held controls; units, other programs, queries, response files), a listing of 11 entries, up to three generators of which one is not valid, 1 edit, 1 fault (3,703,774 states) | recorded or told; own controls only; records of what was compiled; exact assembly |
| `queries` | three nodes and one missing, two of them with one name, eight pairs of graphs out of six edges (mutual, looping, parallel, dangling), eight commands, two servers, two ports | answers meet their references; every command ends |

Why the bounds are enough. Launch: with an operation bound of 2 and three
ordinals the runs have a complete operation, a second one that meets the stale
replies of the first, and a third that is over both bounds; two nonces let the
supervisor repeat one. Refresh: a first refresh, one that is killed or overlaps,
and one that reads what it left; the package `p` refers to an item of `q` that
only one of the contents defines, so that an edit can break a link or the build;
`MaxChanges` bounds edits and refreshes together, which leaves three refreshes
with an edit and two refreshes with two. In `refresh_current` two edits of one package
fall anywhere in two refreshes: before, between and after the two snapshots of
either, and on either side of one snapshot. Output: three writes are two that
overlap in any way and a third, undisturbed one after them, which is what
`OneForm` and `OutputsAgree` speak of. Watch: three saves
give one during a refresh, one while settling and one after. Stream: a driver
can be refused at its header, at a source, at a row and at a page, the two
together exceed the counter, and one event limit, one source budget and one read
budget are each exceeded in some behaviour; one fault is a kill or an I/O error at
any step of either. Capture: the third compiler finds both slots taken, one pair
of requests is too large to seal, one record too large with its occurrences and
one without, and the attachment too small for all, so that each list is evicted
from; the listing (`SPARE` is 5) is one that the smaller setups fit and the larger do
not; a second fault would only hide what the first one does, and with none
`CapturedOrTold` is about every compiler of a directory that fits. Queries: two servers are one that is
killed and one that replaces its port file; depth goes to three, and every edge of
the graph is within three of the first node.

`CHECK_DEADLOCK FALSE` in the runs other than the launch protocol's: edits,
refreshes, writes and saves are bounded, and a command that is through stops. In
`LaunchObserver` the only place to stop is between calls (`Finished`), and
deadlock is checked.

Runs that TLC finds violated; each checks one sentence of the documentation or a
comment against the code (`PROJECT.json`, `findings`, quotes it):

| Run | What happens |
| --- | --- |
| `refresh_settings` | a refresh with other settings ends after the graph and the sidecar, before the cache; the next one under the old settings reuses that graph |
| `output_vanishes` | overlapping writers of opposite forms remove each other's file |

Five more disagreements have a configuration of their own beside these, and no
entry in `PROJECT.json`. TLC finds each of these properties violated:

| Configuration | Module, property | The sentence | What happens |
| --- | --- | --- | --- |
| `RefreshEdges.cfg` | `MCIncrementalRefresh`, `EdgesSurvive` | `docs/cli-reference.md:171`: "edges into a re-extracted crate survive because IDs are deterministic." | `q` is dropped and, with `-p p`, not documented: the edge from `p` to its item is pruned. A complete refresh documents `q` only, and the edge is not added again. |
| `ScriptsLast.cfg` | `MCBuildScripts`, `LastHoldsUnion` | `src/lib.rs:126`: "the last to land after the build finishes holds the complete union" | the script that lands last had listed the fragments before the other wrote its own |
| `WatchLost.cfg` | `Watch`, `EverySaveLands` | `README.md:81`: "`watch` refreshes on every save" | a save during a refresh is absorbed by the rescan |
| `RefsSilent.cfg` | `MCQueryServer`, `EveryEdgeReported` | `src/query.rs:13`: "Both report `total` vs `returned`, so truncation is never silent." | of two mutual edges under one relation `refs` drops the incoming one, since the key of what it has seen has no direction, and does not count it in the total |
| `WitnessMissed.cfg` | `MCCompilerCapture`, `DropsRecorded` | `docs/export.md:184`: "Every dropped collection records `truncations` with `collection`, `observed`, `retained`, and `count_exact`" | `src/compiler_observer.rs:462` looks at the first `MAX_INVOCATIONS * 3 + 32` entries of a directory that holds more (a slot, a record, a callback and its occurrences for each compiler), and the witness that a compiler got no slot is beyond them |

Four more cases are listed as hazards and kept out of the instances: a package
that joins in a refresh killed before its cache and then leaves (its nodes
stay); packages `a` and `a--b`, whose namespaces nest (dropping the first drops
the nodes of the second); a failed sweep, whose error is ignored (readers prefer
the stale file); packages `a-b` and `a_b`, which share a fragment file. `Norm`
and `Frag` are constants, so the second and the fourth can be instantiated.

Fairness. `LaunchObserver` assumes that a call in progress runs (`Launching`,
`Owning`), which includes that an exchange ends by its deadline, and that a
killed child exits. It does not assume that Cargo exits by itself, that the
supervisor answers, or that the caller uses its guard. `Watch` assumes that the
loop keeps running. `SemanticStream` assumes that some driver or the session takes
a step as long as one can: nothing in the code waits without a bound, not even for
the lock. `QueryServer` assumes that a command runs and that its read times out,
and nothing of the servers. The other specifications have no liveness properties.

## Proofs

The theorems hold for every value of the constants that meets the named
assumptions. TLC checked the strengthened invariants first.

`LaunchObserver_proofs`. The inductive invariant `IInv` is the conjunction of

- `TypeOK`;
- `StackInv`: for each place of the stack, the phase of the pending operation,
  the event awaited and its ordinal. Without it nothing says that the operation
  being acknowledged is the one being spawned;
- `ChildInv`: which operation may have an unreaped child at each place. It makes
  `NoOrphan` inductive, and shows that `Observer::owns` never finds a mismatch;
- `AckInv`: the acknowledgements in the stream are of acknowledged events, and
  past `prepare` the final intent is among them. The first half is why a stale
  reply does no harm;
- `FenceInv`: between the acknowledgement and the spawn nothing has failed;
- `FrameInv`: the frames charged so far are at most eight for each finished
  operation and two for each finished exchange of the current one. It gives
  `FramesSuffice` for any operation bound.

From it follow `TypeCorrect`, `AcknowledgedBeforeSpawn`, `NoChildOrphaned`,
`FramesAlwaysSuffice`, `FenceAlwaysHolds` and `CustodyRefinement` (each step of
the protocol is a step of `LaunchCustody` or leaves its variables alone).

The other five properties have invariants of their own beside `IInv`:

- `CarrierInCustody`: `CarrierInv` says at each place of the stack which
  operation's carrier is open. `TerminalTellsTruth` uses it, with `ChildInv`: the
  operation reported is the one whose child was reaped;
- `NoncesStayDistinct`: `NonceInv` says that every nonce presented is among the
  nonces used, and the pending one is not among those presented;
- `HistoryAlwaysLegal`: while the channel works the place of the stack determines
  the last event sent (`LastInv`), and each event is sent only from a place whose
  last event it may follow; once the channel is broken nothing is sent;
- `RecordsAlwaysAgree`: `RecordInv` says that all records but the one of the child
  under way agree with their children, which are over, and are of earlier
  operations, so that no later step can change either side.

`OutputFiles_proofs`: `NeverTorn` needs that a temporary file is torn only while
its owner is filling it or after it was killed, and is whole whenever its owner
is about to rename it, which is where the process id in its name matters.
`FoundAlwaysRead` adds, for writers of one form, that the file of that form never
disappears once it is there. `OneFormOnDisk` and `OutputsOfOneGraph` rest on
`CleanInv`: a write that is still undisturbed is the only one, and the files it is
past hold what it wrote (`Progress`). `PendingInv` is what makes a rename put the
writer's own payload in place.

`BuildScripts_proofs`: `SomeScriptMergesAll` assumes at least one crate and
distinct fragment files. The argument is that a script lists the fragments after
it wrote its own; of the scripts of a build, the last to reach its listing finds
all the others'.

`Watch_proofs`: `OnlySavesTrigger` from the invariant that a fingerprint that
differs from `last` outside a refresh differs in a file that was saved.

`IncrementalRefresh_proofs`: `TypeInv` types the files and the local variables of
every refresh. `DefinitionsAlwaysLinked` rests on `LinkInv`: a sidecar, on disk or
loaded, defines only nodes of the graph it was bound to, and so do the definitions
of a refresh that is past its preparation; what is dropped is dropped from both.
`ReuseAlwaysSound` and `CurrentAlwaysFaithful` share `FaithInv`: at each place of a
refresh, what it may rely on for a package it calls complete. Either its graph shows
the package as its recorded sources say, or the recorded time is older than the
sources, so that the next refresh will find it dirty (`Overtaken`).

These theorems have hypotheses beside the assumptions on the constants.
`PlainNames`: no normalized package name holds the id delimiter; with it, dropping
one package does not touch the nodes of another (the exception is the hazard at
`src/graph.rs:20`). `Alone`, of `ReuseAlwaysSound`: there is one refresher, or no edit
returns a package to a content it had before (`~Undo`); `CurrentAlwaysFaithful` assumes
the latter. Either way a package may be edited any number of times: a content that was left never
comes back (`Moved`, over the history `had`), so two equal snapshots are of one
content all the while between them, which is what `FaithInv` needs. TLC finds
`ReuseSound` violated without either: by two overlapping refreshes and an edit that
is undone between them, and by a package inside the namespace of another, which
breaks `DefinitionsLinked` too.

`SemanticStream_proofs` has four parts.

- The budget's invariant says what each step of `reserve` knows: who is in the
  critical section holds the lock; a driver that is about to write has a total of
  all that was granted and its own request, under the limit; the counter is empty
  only between the emptying and the write, or after one of them was interrupted.
  `BudgetNeverForgets`, `OneDriverRewrites` and `InterruptionCloses` follow for any
  drivers, requests and limit, first of `StreamBudget` alone and then of
  `SemanticStream`, each of whose steps is a step of the budget or leaves it alone.
- `AttachedAlwaysFresh`: `ReadInv` says that while the session reads, every driver
  is gone, what is on disk was seen, and so was every input checked.
- `IndexAlwaysValidates` and `LossAlwaysTold` rest on `WalkInv`, about a writer in
  the middle of its walk and the rows it has, in pages and pending: they are
  numbered without a hole and in the order of the walk, everything visited is among
  them, owed (charged and about to be placed) or explained by a gap, and the
  counts say so. A published index was made from such a state.
- `PublishedAlwaysPaidFor`: a driver's claim is what it published and, from a grant
  until its use, that grant. Each step raises one claim by no more than the bytes
  granted in it, so the sum of the claims never exceeds `charged`. That sums behave
  (a change of one argument, an order between two functions) is proved from the
  definition of `SumFunction`, with a smallest set that is an exception in place of
  an induction. `StreamsStayBounded` combines it with `BudgetNeverForgets`.

`CompilerCapture_proofs` has one invariant for each of three scopes.

- Of one wrapper (`Fine`): the environment it prepared for its child holds its own
  controls or none, the child takes only from that environment, and a wrapper that
  is about to write a record without occurrences has noted why. `ControlsHeldOrTold`
  follows, since no other process writes to that state.
- Of the directory: each slot has one owner, and what is on disk in it was written
  by that owner, of what it compiled (`RecordsAlwaysCompiled`).
- Of the session: what it joined so far comes from files on disk, every slot and
  marker it has passed is in the attachment or counted as lost, and the counts and
  references of the attachment agree with its lists through every eviction.
  `AlwaysCapturedOrTold` and `AssemblyAlwaysExact` follow. The first needs two counts:
  as many records as slots were listed only if every slot has its record
  (`SlotsFull`), and of a directory that fits every witness is seen (`AllSeen`). The
  second says of generators that those neither retained nor counted are among the
  invalid ones (`RefusedCounted`).

`QueryServer_proofs`: `AnswersAlwaysMeetReference` holds for any graphs, queries,
servers and clients. Its invariant `ServedInv` is small: an answer is of a graph that
was on disk, and of a query that was asked. The rest is about what is computed.

- `InOrder` of tuples whose last component tells them apart enumerates each argument
  once (`InOrderIs`): the order is total, so the number of arguments below one is
  its place. Hence a sort or a selection changes the order of its elements only, and
  counts what was selected (`ArrangedIs`, `ArrangedCount`).
- The rows of a node are its wanted links but for their direction (`GatherIs`);
  `Unseen` keeps a row of each key; so what a level found is exactly what its frontier
  is linked to (`FoundIs`, with `FlattenIs` for the concatenation).
- Levels: what is missing (`total` less what is shown) never shrinks, so a walk that
  misses nothing at its end missed nothing at any level (`WalkBounded`). Then what it
  has visited is what is `Within` reach, and its frontier what is `Distant`, by
  induction on the level (`WalkComplete`).
- `context` and `find` count the same edges along two paths, an adjacency list and
  gathered rows; both equal the number of edges of the graph with those ends, and
  differ by the dangling ones (`DegreeIs`, `ContextIs`, `DanglingIs`).

The recursive functions (`Walk`, `Within`, the fold in `FlattenSeq`) are shown to
exist by an iteration lemma whose parameters are functions and sets, and inductions
are on subsets of `Nat`, since the library's principles over operators cannot be
used. `QueriesAssumption` asks for numbers and known nodes, `ServerAssumption` for
finite graphs and for names that `Tier` covers.

Only model-checked: liveness (`FailureReapsChild`, `CallsReturn`,
`NoticedSavesLand`, `EveryStreamDecided`, `EveryQueryAnswered`), which is outside
the prover's reach. Every safety property of a passing run is a theorem.

## Not modelled, and the plan

What is next, in order:

1. The references layer and file nodes in `IncrementalRefresh`.
2. The byte accounting of retained records in `cargo_launch.rs`, and the message
   stream of `cargo_build.rs`.
3. An abstract atomic directory that `OutputFiles` implements, with the theorem that
   it does.

Known limits of the models: an edit of a source that is undone while a compiler is
observed (two snapshots of equal content) is not in `CompilerCapture`, and the
code cannot see it; an answer that another program on a server's old port gives,
or one that is cut when a server is killed, is taken by a command for the answer
(`qserve.rs` has nothing against either), and the properties of `QueryServer` do
not speak of it. `SemanticStream` flushes a page at its row bound only: it leaves out
the flush at the byte bound of a page and a row that is too large for any
(`semantic.rs:713`, `semantic.rs:732`), which is lost with an interruption of the
output limit and so is told like every other interruption. After an interrupted
context the code still observes the harness (`semantic.rs:1307`,
`test_harness.rs:519`), which places no row and adds to the count of what is
unsupported only; the model stops there.

Left out for good: rendering and reports, the static file server and the viewer,
the traversal of compiler internals in the driver, the normalization of compiler
arguments and environments, argument validation, the editor integrations, CI
files. They keep no state that several steps or several
processes share.
