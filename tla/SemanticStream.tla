--------------------------- MODULE SemanticStream ---------------------------
(***************************************************************************)
(* The semantic streams of a build.  Each compiler runs with a driver that *)
(* walks its crate and writes what it saw in pages, each charged to the    *)
(* budget all drivers share (StreamBudget), and at last an index; the      *)
(* session that started the build reads the streams back when all          *)
(* compilers are gone.  Sources are edited meanwhile, writes fail, drivers *)
(* are killed.                                                             *)
(***************************************************************************)
EXTENDS StreamBudget, Sequences, FiniteSetsExt

CONSTANTS
  Domain,              \* what each driver's walk comes to, in order
  Sources,             \* source files
  Huge,                \* sources that exceed what a driver may hash
  NONE,
  HEADER, SOURCE, ROW, PAGE,   \* bytes reserved for a stream, a new source,
                               \* an observed row and a page
  MIN_PAGE_BYTES,
  PAGE_ROWS,           \* MAX_PAGE_DEFINITIONS and MAX_PAGE_REFERENCES
  MAX_TRAVERSAL_WORK,
  SourceChecks,        \* sources the session may read: MAX_SOURCE_WORK_BYTES
  ReadBudget,          \* what the session may still attach
  MaxEdits, MaxFaults  \* bounds: edits; failed writes, refused controls, kills

Lists == {"def", "ref"}
Items == [list : Lists, of : {"context", "harness", "hir"}, fits : BOOLEAN,
          src : Sources \union Huge \union {NONE}]

(* A row: its number in its list, the item it is of, and its place in a    *)
(* source, if that is known.                                               *)
Inputs == [src : Sources, version : Nat]
Rows == [ord : Nat, pos : Nat, list : Lists, loc : Inputs \union {NONE}]

(* A walk passes the context, then the harness, then the local code; the   *)
(* rows of the first two are references.                                   *)
ASSUME StreamAssumption ==
  /\ IsFiniteSet(Drivers)
  /\ NONE \notin Sources \union Huge \union Rows
  /\ {HEADER, SOURCE, ROW, PAGE} \subseteq Requests
  /\ {MIN_PAGE_BYTES, PAGE_ROWS} \subseteq Nat \ {0}
  /\ {MAX_TRAVERSAL_WORK, MaxEdits, MaxFaults} \subseteq Nat
  /\ Domain \in [Drivers -> Seq(Items)]
  /\ \A d \in Drivers : \A i, j, k \in DOMAIN Domain[d] :
       /\ Domain[d][i].of # "hir" => Domain[d][i].list = "ref"
       /\ i < j /\ j < k /\ Domain[d][i].of = Domain[d][k].of => Domain[d][j].of = Domain[d][i].of

VARIABLES
  files,    \* the content of each source, as a version
  edits, faults,
  w,        \* each driver's Writer and its place in the walk
  out,      \* each driver's output directory
  session   \* the reader

streamVars == <<files, edits, faults, w, out, session>>
vars == <<budgetVars, streamVars>>

NoRows == [k \in Lists |-> <<>>]
NewWriter ==
  [pc |-> "open", buf |-> [s \in Sources |-> 0], next |-> 1, events |-> 0, row |-> NONE,
   page |-> NoRows, maxPages |-> 0, sources |-> {}, stopped |-> FALSE, stop |-> "EndOfDomain",
   gaps |-> {}, visited |-> [k \in Lists |-> 0], unsupported |-> 0]

Init ==
  /\ InitBudget
  /\ files = [s \in Sources |-> 1] /\ edits = 0 /\ faults = 0
  /\ w = [d \in Drivers |-> NewWriter]
  /\ out = [d \in Drivers |->
       [dir |-> FALSE, pages |-> 0, rows |-> NoRows, inputs |-> <<>>, index |-> NONE]]
  /\ session = [on |-> FALSE, todo |-> Drivers, checked |-> {}, seen |-> {}, work |-> SourceChecks,
                left |-> ReadBudget, attached |-> {}, lost |-> {}]

(* An output directory with one page more.  Of all its pages together it   *)
(* shows how many there are, the rows, and the places of the rows in the   *)
(* order in which the session checks them: by page, definitions first.     *)
Places(page) ==
  LET rows == page["def"] \o page["ref"] IN [i \in DOMAIN rows |-> rows[i].loc]
WithPage(O, page) ==
  [O EXCEPT !.pages = @ + 1, !.rows = [k \in Lists |-> @[k] \o page[k]],
            !.inputs = @ \o Places(page)]

Ended == [NewWriter EXCEPT !.pc = "end"]

Idle(d, step) == at[d] = "idle" /\ w[d].pc = step
Answered(d, step) == Return(d) /\ w[d].pc = step
Fault == faults < MaxFaults /\ faults' = faults + 1
Becomes(d, W) == w' = [w EXCEPT ![d] = W]
Goto(d, step) == Becomes(d, [w[d] EXCEPT !.pc = step])

-----------------------------------------------------------------------------
(* A stream never has as many gaps as a page admits: eleven of the walk,   *)
(* one of the context and one of the harness.                              *)
Gap(W, gap) == [W EXCEPT !.gaps = @ \union {gap}]
Unsupported(W, gap) == [Gap(W, gap) EXCEPT !.unsupported = @ + 1]

(* Mutant: the reason of an interruption is not recorded. *)
Interrupted_Silent(W, stop, gap) == [W EXCEPT !.stopped = TRUE]

Interrupted(W, stop, gap) == [Gap(W, gap) EXCEPT !.stopped = TRUE, !.stop = stop]

Item(d) == Domain[d][w[d].next]
AtItem(d) == ~w[d].stopped /\ w[d].next <= Len(Domain[d])
Observed(d, block) == {i \in DOMAIN Domain[d] : Domain[d][i].of = block}
Observational(d) == Item(d).of # "hir"

(* rustc has read its sources when its callback starts the driver.  It     *)
(* takes sealed controls or the request file; without a request that is    *)
(* this compiler's own, nothing is written.                                *)
Open(d) ==
  LET W == [w[d] EXCEPT !.buf = files] IN
  /\ Idle(d, "open")
  /\ \/ Reserve(d, HEADER) /\ Becomes(d, [W EXCEPT !.pc = "opening"]) /\ UNCHANGED faults
     \/ Fault /\ Becomes(d, Ended) /\ UNCHANGED budgetVars
  /\ UNCHANGED <<files, edits, out, session>>

Opened(d) ==
  /\ Answered(d, "opening")
  /\ IF at[d] = "granted"
     THEN \/ /\ out' = [out EXCEPT ![d].dir = TRUE]
             /\ Becomes(d, [w[d] EXCEPT !.pc = "walk",
                  !.maxPages = (MAX_STREAM_BYTES - total[d]) \div MIN_PAGE_BYTES])
             /\ UNCHANGED faults
          \/ Fault /\ Becomes(d, Ended) /\ UNCHANGED out
     ELSE Becomes(d, Ended) /\ UNCHANGED <<out, faults>>
  /\ UNCHANGED <<files, edits, session>>

(* unsupported_observation: the rest of the context, or of the harness, is *)
(* given up.                                                               *)
GiveUp(d, W) ==
  [Unsupported(W, Item(d).of) EXCEPT
     !.pc = "walk", !.next = Max(Observed(d, Item(d).of)) + 1, !.visited["ref"] = @ + 1]

(* work(): every item and every observed row is one event of the traversal *)
(* at least.                                                               *)
WorkLimit(d) ==
  LET W == Interrupted(w[d], "WorkLimit", "TraversalWorkLimit") IN
  /\ Idle(d, "walk") /\ AtItem(d) /\ w[d].events = MAX_TRAVERSAL_WORK
  /\ Becomes(d, IF Observational(d) THEN GiveUp(d, W) ELSE W)
  /\ UNCHANGED <<budgetVars, files, edits, faults, out, session>>

(* Rows of the compiler's context and of the test harness are charged      *)
(* before they are built.  (The place of a test's descriptor, charged as   *)
(* those of other rows are, is left out.)                                  *)
Observe(d) ==
  /\ Idle(d, "walk") /\ AtItem(d) /\ w[d].events < MAX_TRAVERSAL_WORK
  /\ Observational(d)
  /\ Reserve(d, ROW)
  /\ Becomes(d, [w[d] EXCEPT !.pc = "observing", !.events = @ + 1])
  /\ UNCHANGED <<files, edits, faults, out, session>>

Push(W) ==
  [W EXCEPT !.pc = "walk", !.next = @ + 1, !.row = NONE,
            !.page[W.row.list] = Append(@, W.row)]

(* A row joins the page, which is flushed first when its list is full.     *)
Place(d, W, loc) ==
  LET k == Item(d).list
      row == [ord |-> Len(out[d].rows[k]) + Len(W.page[k]), pos |-> W.next,
              list |-> k, loc |-> loc]
      P == [W EXCEPT !.row = row] IN
  IF Len(W.page[k]) < PAGE_ROWS THEN Push(P) ELSE [P EXCEPT !.pc = "flush"]

RowAdmitted(d) ==
  /\ Answered(d, "observing")
  /\ Becomes(d,
       IF at[d] = "refused"
       THEN GiveUp(d, Interrupted(w[d], "OutputLimit", "OutputLimit"))
       ELSE IF ~Item(d).fits THEN GiveUp(d, w[d])
       ELSE Place(d, [w[d] EXCEPT !.visited["ref"] = @ + 1], NONE))
  /\ UNCHANGED <<files, edits, faults, out, session>>

Input(d, s) == [src |-> s, version |-> w[d].buf[s]]

(* The first row of a source is charged before it is located.              *)
Visit(d) ==
  LET s == Item(d).src
      W == [w[d] EXCEPT !.events = @ + 1, !.visited[Item(d).list] = @ + 1] IN
  /\ Idle(d, "walk") /\ AtItem(d) /\ w[d].events < MAX_TRAVERSAL_WORK
  /\ ~Observational(d)
  /\ IF Item(d).fits /\ s # NONE /\ s \notin W.sources
     THEN Reserve(d, SOURCE) /\ Becomes(d, [W EXCEPT !.pc = "charging"])
     ELSE /\ Becomes(d, IF ~Item(d).fits
                        THEN [Unsupported(W, "Unsupported") EXCEPT !.next = @ + 1]
                        ELSE IF s = NONE
                        THEN Place(d, Unsupported(W, "SourceUnavailable"), NONE)
                        ELSE Place(d, W, Input(d, s)))
          /\ UNCHANGED budgetVars
  /\ UNCHANGED <<files, edits, faults, out, session>>

(* The row is kept, without its place, when the charge is refused or the   *)
(* source cannot be hashed any more: only the walk ends.                   *)
Located(d) ==
  LET s == Item(d).src
      W == [w[d] EXCEPT !.sources = @ \union {s}] IN
  /\ Answered(d, "charging")
  /\ Becomes(d,
       IF at[d] = "refused"
       THEN Place(d, Unsupported(Interrupted(w[d], "OutputLimit", "OutputLimit"), "OutputLimit"), NONE)
       ELSE IF s \in Huge
       THEN Place(d, Unsupported(Interrupted(W, "SourceWorkLimit", "SourceWorkLimit"),
                                 "SourceUnavailable"), NONE)
       ELSE Place(d, W, Input(d, s)))
  /\ UNCHANGED <<files, edits, faults, out, session>>

(* Mutant: a row whose page could not be flushed goes to the next page. *)
AfterFlush_Keep(W, ok) ==
  IF W.row = NONE
  THEN [W EXCEPT !.pc = "index", !.page = NoRows]
  ELSE Push(IF ok THEN [W EXCEPT !.page = NoRows] ELSE [W EXCEPT !.page[W.row.list] = <<>>])

(* Mutant: the page is not emptied after a flush. *)
AfterFlush_Full(W, ok) ==
  IF W.row = NONE
  THEN [W EXCEPT !.pc = "index", !.page = NoRows]
  ELSE IF ok THEN Push(W)
  ELSE [W EXCEPT !.pc = "walk", !.next = @ + 1, !.row = NONE]

(* After a flush the row that did not fit starts the next page, and is     *)
(* lost when the flush failed; the pending rows stay for the last attempt. *)
AfterFlush(W, ok) ==
  IF W.row = NONE
  THEN [W EXCEPT !.pc = "index", !.page = NoRows]
  ELSE IF ok THEN Push([W EXCEPT !.page = NoRows])
  ELSE [W EXCEPT !.pc = "walk", !.next = @ + 1, !.row = NONE]

Flush(d) ==
  LET W == w[d] IN
  /\ Idle(d, "flush") \/ (Idle(d, "walk") /\ ~AtItem(d))
  /\ IF W.page = NoRows
     THEN Becomes(d, AfterFlush(W, TRUE)) /\ UNCHANGED budgetVars
     ELSE IF out[d].pages >= W.maxPages
     THEN /\ Becomes(d, AfterFlush(Interrupted(W, "OutputLimit", "OutputLimit"), FALSE))
          /\ UNCHANGED budgetVars
     ELSE Reserve(d, PAGE) /\ Goto(d, "flushing")
  /\ UNCHANGED <<files, edits, faults, out, session>>

(* Mutant: a page is written even when its bytes were refused. *)
Flushed_Unpaid(d) ==
  /\ Answered(d, "flushing")
  /\ out' = [out EXCEPT ![d] = WithPage(@, w[d].page)]
  /\ Becomes(d, AfterFlush(w[d], TRUE))
  /\ UNCHANGED <<files, edits, faults, session>>

Flushed(d) ==
  /\ Answered(d, "flushing")
  /\ IF at[d] = "granted"
     THEN \/ /\ out' = [out EXCEPT ![d] = WithPage(@, w[d].page)]
             /\ Becomes(d, AfterFlush(w[d], TRUE))
             /\ UNCHANGED faults
          \/ /\ Fault
             /\ Becomes(d, AfterFlush(Interrupted(w[d], "PublicationInterrupted",
                                                  "PublicationInterrupted"), FALSE))
             /\ UNCHANGED out
     ELSE /\ Becomes(d, AfterFlush(Interrupted(w[d], "OutputLimit", "OutputLimit"), FALSE))
          /\ UNCHANGED <<out, faults>>
  /\ UNCHANGED <<files, edits, session>>

Terminal(d) ==
  LET W == w[d]
      emitted == [k \in Lists |-> Len(out[d].rows[k])] IN
  [stop |-> W.stop, gaps |-> W.gaps, visited |-> W.visited, emitted |-> emitted,
   unsupported |-> W.unsupported, pages |-> out[d].pages,
   omitted |-> W.visited["def"] + W.visited["ref"] - emitted["def"] - emitted["ref"]]

(* The index comes last: without it the pages are no stream.               *)
WriteIndex(d) ==
  /\ Idle(d, "index")
  /\ \/ out' = [out EXCEPT ![d].index = Terminal(d)] /\ UNCHANGED faults
     \/ Fault /\ UNCHANGED out
  /\ Becomes(d, Ended)
  /\ UNCHANGED <<budgetVars, files, edits, session>>

(* A step of `reserve`, in which an I/O error is a fault like any other.   *)
Call(d) == CallStep(d) /\ UNCHANGED streamVars
CallFails(d) == Fail(d) /\ Fault /\ UNCHANGED <<files, edits, w, out, session>>

(* The compiler is killed, or ends with an error after the callback.       *)
CompilerDies(d) ==
  /\ ~session.on
  /\ Kill(d) /\ Fault
  /\ UNCHANGED <<files, edits, w, out, session>>

-----------------------------------------------------------------------------
Edit(s) ==
  /\ edits < MaxEdits
  /\ edits' = edits + 1
  /\ files' = [files EXCEPT ![s] = 3 - @]
  /\ session' = IF session.on
                THEN [session EXCEPT !.seen = @ \union {[src |-> s, version |-> 3 - files[s]]}]
                ELSE session
  /\ UNCHANGED <<budgetVars, faults, w, out>>

Gone(d) == at[d] = "dead" \/ w[d].pc = "end"

(* Cargo has ended, and with it all compilers.                             *)
BeginFinish ==
  /\ ~session.on /\ \A d \in Drivers : Gone(d)
  /\ session' = [session EXCEPT !.on = TRUE,
                   !.seen = {[src |-> s, version |-> files[s]] : s \in Sources}]
  /\ UNCHANGED <<budgetVars, files, edits, faults, w, out>>

(* SemanticStreamV1::validate: contiguous rows and honest totals; rows of  *)
(* the context may be missing only where the stream says so.               *)
Validates(d) ==
  LET t == out[d].index
      rows == out[d].rows IN
  /\ \A k \in Lists : \A i \in DOMAIN rows[k] : rows[k][i].ord = i - 1
  /\ t.pages = out[d].pages
  /\ \A k \in Lists : t.emitted[k] = Len(rows[k]) /\ t.visited[k] >= Len(rows[k])
  /\ t.unsupported <= t.visited["def"] + t.visited["ref"]
  /\ t.omitted = t.visited["def"] + t.visited["ref"] - Len(rows["def"]) - Len(rows["ref"])
  /\ t.stop # "EndOfDomain" \/ t.omitted # 0 => t.gaps # {}
  /\ \A block \in {"context", "harness"} :
       \/ \A i \in Observed(d, block) : \E j \in DOMAIN rows["ref"] : rows["ref"][j].pos = i
       \/ t.stop # "EndOfDomain" \/ block \in t.gaps

(* Mutant: sources are not compared. *)
Refused_None(d, i) == FALSE

(* An input is read once for all streams.  The first that is not what was  *)
(* compiled, or that the source budget cannot read, refuses the stream.    *)
Refused(d, i) ==
  LET input == out[d].inputs[i]
      new == {out[d].inputs[j] : j \in 1..i} \ (session.checked \union {NONE}) IN
  /\ input \in new
  /\ files[input.src] # input.version \/ Cardinality(new) > session.work

Passed(d) == {i \in DOMAIN out[d].inputs : \A j \in 1..i : ~Refused(d, j)}

Size(d) == HEADER + PAGE * out[d].pages

(* read_semantic_stream for one invocation.  A stream that cannot be       *)
(* attached is counted, with a gap.                                        *)
ReadStream(d) ==
  LET inputs == out[d].inputs
      Read(places) == {inputs[i] : i \in places} \ (session.checked \union {NONE})
      tried == {i \in DOMAIN inputs : 1..(i - 1) \subseteq Passed(d)}
      readable == at[d] # "dead" /\ out[d].index # NONE /\ Size(d) <= session.left
      accepted == readable /\ Passed(d) = DOMAIN inputs /\ Validates(d) IN
  /\ session.on /\ d \in session.todo
  /\ session' = [session EXCEPT
       !.todo = @ \ {d},
       !.attached = IF accepted THEN @ \union {d} ELSE @,
       !.lost = IF accepted THEN @ ELSE @ \union {d},
       !.left = IF accepted THEN @ - Size(d) ELSE @,
       !.checked = IF readable THEN @ \union Read(Passed(d)) ELSE @,
       !.work = IF readable THEN Max({0, @ - Cardinality(Read(tried))}) ELSE @]
  /\ UNCHANGED <<budgetVars, files, edits, faults, w, out>>

-----------------------------------------------------------------------------
DriverStep(d) ==
  \/ Open(d) \/ Opened(d)
  \/ WorkLimit(d) \/ Observe(d) \/ RowAdmitted(d) \/ Visit(d) \/ Located(d)
  \/ Flush(d) \/ Flushed(d) \/ WriteIndex(d)
  \/ Call(d)

SessionStep == BeginFinish \/ \E d \in Drivers : ReadStream(d)

Next ==
  \/ \E d \in Drivers : DriverStep(d) \/ CallFails(d) \/ CompilerDies(d)
  \/ \E s \in Sources : Edit(s)
  \/ SessionStep

Spec == Init /\ [][Next]_vars

(* As long as a compiler or the session can take a step, one is taken.     *)
FairSpec == Spec /\ WF_vars((\E d \in Drivers : DriverStep(d)) \/ SessionStep)

-----------------------------------------------------------------------------
TypeOK ==
  /\ BudgetTypeOK
  /\ files \in [Sources -> 1..2]
  /\ edits \in 0..MaxEdits /\ faults \in 0..MaxFaults
  /\ \A d \in Drivers :
       /\ w[d].pc \in {"open", "opening", "walk", "observing", "charging", "flush", "flushing",
                       "index", "end"}
       /\ w[d].events <= MAX_TRAVERSAL_WORK
       /\ w[d].next \in 1..(Len(Domain[d]) + 1)
       /\ \A k \in Lists : Len(w[d].page[k]) <= PAGE_ROWS
       /\ w[d].pc # "end" => out[d].pages <= w[d].maxPages

(* "No per-page allowance": what all drivers have put into their output    *)
(* directories was granted before, so the build's streams together stay    *)
(* under the limit.                                                        *)
PublishedPaidFor ==
  SumFunction([d \in Drivers |-> IF out[d].dir THEN Size(d) ELSE 0]) <= charged

(* What a driver publishes, the session's validation accepts: a stream is  *)
(* only ever refused because of its compiler, its sources or a budget.     *)
IndexValidates == \A d \in Drivers : out[d].index # NONE => Validates(d)

(* The rows of a published stream are in the order of the walk, each once; *)
(* an item that is not among them is one the driver does not support, of   *)
(* which a gap tells, or the stream does not claim to have reached the end.*)
Told(d) ==
  LET t == out[d].index
      rows == out[d].rows
      Shown(i) == \E j \in DOMAIN rows[Domain[d][i].list] : rows[Domain[d][i].list][j].pos = i
  IN
  /\ \A k \in Lists : \A i, j \in DOMAIN rows[k] : i < j => rows[k][i].pos < rows[k][j].pos
  /\ t.stop = "EndOfDomain" =>
       \A i \in DOMAIN Domain[d] :
         \/ Shown(i)
         \/ ~Domain[d][i].fits /\ "Unsupported" \in t.gaps
         \/ Domain[d][i].of \in t.gaps

(* No row is lost in silence: whatever page could not be written and       *)
(* whatever charge was refused, every published stream tells.              *)
LossIsTold == \A d \in Drivers : out[d].index # NONE => Told(d)

(* The places in an attached stream are places in sources as they were on  *)
(* disk while the session read it, or before it in the same session: rows  *)
(* of a source that was edited since it was compiled are not attached.     *)
AttachedFresh ==
  \A d \in session.attached : \A i \in DOMAIN out[d].inputs :
    out[d].inputs[i] \in session.seen \union {NONE}

(* A driver ends whatever happens to the others: a lock whose owner died   *)
(* is tried a bounded number of times.  Then the stream of every compiler  *)
(* is attached, or counted as lost.                                        *)
EveryStreamDecided == <>(session.on /\ session.attached \union session.lost = Drivers)
=============================================================================
