--------------------------- MODULE CompilerCapture --------------------------
(***************************************************************************)
(* A session that observes the compilers of one build.  Cargo runs every   *)
(* compiler through a wrapper process; the wrappers share one directory,   *)
(* where each claims a numbered slot, leaves the request its driver reads, *)
(* delegates to the compiler and writes a unit record.  When all are gone  *)
(* the session joins the records, the generators and the semantic streams  *)
(* into one attachment of bounded size.  Sources are edited meanwhile,     *)
(* writes fail and wrappers are killed.                                    *)
(***************************************************************************)
EXTENDS Integers, FiniteSets, Sequences, SequencesExt, FiniteSetsExt

CONSTANTS
  Compilers,           \* the compiler processes Cargo starts
  Setups,              \* what they are called for, and the session's options
  Key,                 \* the unit key of each compiler's record
  Size, OCC,           \* bytes of a record, and of its occurrences
  Pair,                \* bytes of the requests a wrapper seals
  StreamSize,          \* bytes of the semantic stream of each compiler
  Generators,          \* of a build with given options, each generator's observation
                       \* in order: its bytes, and whether it is valid
  SPARE,               \* entries the session lists beyond three for each slot
  MAX_INVOCATIONS, MAX_INVOCATION_BYTES, MAX_ATTACHMENT_BYTES, MAX_CONTROL_BYTES,
  HEADER, LOSS,        \* bytes of an empty attachment and of a truncation
  SLACK, ENTRY,        \* bytes kept from a stream's reader, and of its entry
  FOREIGN, NONE, TORN,
  MaxEdits, MaxFaults  \* bounds: edits; failed calls and kills

Calls == {"unit", "unresolved", "query", "foreign", "long", "response"}
Options == {"stream", "held"}
Slots == 0..MAX_INVOCATIONS - 1

ASSUME CaptureAssumption ==
  /\ Setups \subseteq [Compilers -> Calls] \X SUBSET Options
  /\ {NONE, FOREIGN, TORN} \intersect (Compilers \union Nat) = {}
  /\ MAX_INVOCATIONS \in Nat /\ SPARE \in Nat
  /\ Generators \in [SUBSET Options -> Seq([size : Nat, valid : BOOLEAN])]

VARIABLES
  call, mode,          \* chosen once: what is called for, with which options
  src,                 \* the version of the sources
  dir,                 \* the session's directory; torn marks are in marks too
  run,                 \* each wrapper
  session,             \* the joining session
  edits, faults

vars == <<call, mode, src, dir, run, session, edits, faults>>

Budgets == {"argument_text_bytes", "compiler_slots", "invocation_serialization"}
Marks == Budgets \union {"compiler-unrecognized", "observation-failed"}
Lost == {"assembled_invocations", "assembled_generators", "assembled_semantic_streams"}

NoControls == [via |-> "none", of |-> NONE, pair |-> {}]

(* A wrapper starts in whatever environment its caller left it.            *)
NewRun ==
  [pc |-> "start", next |-> 0, slot |-> NONE, request |-> {},
   path |-> FOREIGN, fd |-> FOREIGN, sealed |-> FALSE, got |-> NoControls,
   before |-> NONE, compiled |-> NONE, ok |-> FALSE, after |-> NONE, written |-> NONE,
   occ |-> NONE, gaps |-> {}]

NewResult ==
  [inv |-> <<>>, gen |-> <<>>, str |-> <<>>, gaps |-> {}, truncations |-> {}, bare |-> FALSE]

Init ==
  /\ \E s \in Setups : call = s[1] /\ mode = s[2]
  /\ src = 1 /\ edits = 0 /\ faults = 0
  /\ dir = [slots |-> {}, units |-> [i \in Slots |-> NONE],
            marks |-> {}, torn |-> {}]
  /\ run = [c \in Compilers |-> NewRun]
  /\ session = [pc |-> "build", units |-> {}, slots |-> {}, files |-> {}, todo |-> <<>>, bytes |-> 0,
                result |-> NewResult, dropped |-> [inv |-> 0, gen |-> 0, str |-> 0]]

Fault == faults < MaxFaults /\ faults' = faults + 1
Becomes(c, R) == run' = [run EXCEPT ![c] = R]

(* let _ = exclusive_write(..): a marker that cannot be written is lost,   *)
(* or there and torn.  One that is there already stays.                    *)
Marked(d, mark) ==
  \/ dir' = [d EXCEPT !.marks = @ \union {mark}] /\ UNCHANGED faults
  \/ Fault /\ \E torn \in SUBSET ({mark} \ d.marks) :
       dir' = [d EXCEPT !.marks = @ \union torn, !.torn = @ \union torn]

-----------------------------------------------------------------------------
(* The wrapper.                                                            *)
MarkOf(kind) ==
  CASE kind = "foreign" -> "compiler-unrecognized"
    [] kind = "long" -> "argument_text_bytes"
    [] kind = "response" -> "observation-failed"

(* Cargo's information query and an unreadable configuration leave no      *)
(* trace.                                                                  *)
Start(c) ==
  /\ run[c].pc = "start"
  /\ \/ /\ call[c] \in {"unit", "unresolved"} /\ Becomes(c, [run[c] EXCEPT !.pc = "claim"])
        /\ UNCHANGED <<dir, faults>>
     \/ /\ call[c] = "query" /\ Becomes(c, [run[c] EXCEPT !.pc = "controls"])
        /\ UNCHANGED <<dir, faults>>
     \/ /\ call[c] \in {"foreign", "long", "response"}
        /\ Becomes(c, [run[c] EXCEPT !.pc = "controls"])
        /\ Marked(dir, MarkOf(call[c]))
     \/ /\ Fault /\ Becomes(c, [run[c] EXCEPT !.pc = "controls"]) /\ UNCHANGED dir
  /\ UNCHANGED <<call, mode, src, session, edits>>

(* Mutant: the scan runs one slot too far. *)
Claim_OffByOne(c) ==
  LET i == run[c].next IN
  /\ run[c].pc = "claim" /\ i <= MAX_INVOCATIONS /\ i \notin dir.slots
  /\ Becomes(c, [run[c] EXCEPT !.pc = "observe", !.slot = i])
  /\ dir' = [dir EXCEPT !.slots = @ \union {i}]
  /\ UNCHANGED <<call, mode, src, session, edits, faults>>

(* slot-<index> is created exclusively, from the lowest index up.          *)
Claim(c) ==
  LET i == run[c].next IN
  /\ run[c].pc = "claim" /\ i < MAX_INVOCATIONS /\ i \notin dir.slots
  /\ Becomes(c, [run[c] EXCEPT !.pc = "observe", !.slot = i])
  /\ dir' = [dir EXCEPT !.slots = @ \union {i}]
  /\ UNCHANGED <<call, mode, src, session, edits, faults>>

SlotTaken(c) ==
  /\ run[c].pc = "claim" /\ run[c].next \in dir.slots
  /\ Becomes(c, [run[c] EXCEPT !.next = @ + 1])
  /\ UNCHANGED <<call, mode, src, dir, session, edits, faults>>

(* Any other error: the file may exist, when its sync failed, and the      *)
(* marker may fail with it.                                                *)
ClaimFails(c) ==
  LET i == run[c].next IN
  /\ run[c].pc = "claim" /\ i < MAX_INVOCATIONS /\ i \notin dir.slots
  /\ Fault
  /\ \E made \in SUBSET {i}, mark \in SUBSET {"observation-failed"} :
       dir' = [dir EXCEPT !.slots = @ \union made, !.marks = @ \union mark]
  /\ Becomes(c, [run[c] EXCEPT !.pc = "controls"])
  /\ UNCHANGED <<call, mode, src, session, edits>>

NoSlot(c) ==
  /\ run[c].pc = "claim" /\ run[c].next = MAX_INVOCATIONS
  /\ Marked(dir, "compiler_slots")
  /\ Becomes(c, [run[c] EXCEPT !.pc = "controls"])
  /\ UNCHANGED <<call, mode, src, session, edits>>

Captured(c) == run[c].slot # NONE /\ run[c].before # NONE

(* The inputs before the compiler runs.  A program that does not resolve   *)
(* leaves its slot without a record.                                       *)
Observe(c) ==
  /\ run[c].pc = "observe"
  /\ Becomes(c, IF call[c] = "unresolved"
                THEN [run[c] EXCEPT !.pc = "controls"]
                ELSE [run[c] EXCEPT !.pc = "request", !.before = src])
  /\ UNCHANGED <<call, mode, src, dir, session, edits, faults>>

(* callback-<slot>.json, then semantic-request-<slot>.json for the same    *)
(* nonce.                                                                  *)
WriteRequests(c) ==
  LET wanted == {"callback"} \union (mode \intersect {"stream"}) IN
  /\ run[c].pc = "request"
  /\ \/ Becomes(c, [run[c] EXCEPT !.pc = "controls", !.request = wanted]) /\ UNCHANGED faults
     \/ /\ Fault
        /\ \E got \in {{}, wanted \ {"stream"}} :
             Becomes(c, [run[c] EXCEPT !.pc = "controls", !.request = got])
  /\ UNCHANGED <<call, mode, src, dir, session, edits>>

-----------------------------------------------------------------------------
(* Six variables of the environment are removed, whatever follows.         *)
Cleared(R) == [R EXCEPT !.pc = "compile", !.path = NONE, !.fd = NONE]

PairReady(c) == "callback" \in run[c].request /\ mode \intersect {"stream"} \subseteq run[c].request

(* Mutant: a child that cannot get sealed controls is given the path. *)
Unsealed_Fallback(c, gap) ==
  Becomes(c, [Cleared(run[c]) EXCEPT !.path = c,
                !.gaps = @ \union (IF Captured(c) THEN {gap} ELSE {})])

Unsealed(c, gap) ==
  Becomes(c, [Cleared(run[c]) EXCEPT !.gaps = @ \union (IF Captured(c) THEN {gap} ELSE {})])

(* Held callback controls: both requests are read into sealed descriptors, *)
(* their lengths admitted before either is read, or the child gets none.   *)
Seal(c) ==
  /\ run[c].pc = "controls" /\ "held" \in mode
  /\ \/ ~PairReady(c) /\ Unsealed(c, "ReadFailed") /\ UNCHANGED faults
     \/ PairReady(c) /\ Pair[c] > MAX_CONTROL_BYTES /\ Unsealed(c, "BudgetExceeded")
        /\ UNCHANGED faults
     \/ PairReady(c) /\ Fault /\ Unsealed(c, "ReadFailed")
     \/ PairReady(c) /\ Pair[c] <= MAX_CONTROL_BYTES /\ UNCHANGED faults
        /\ Becomes(c, [Cleared(run[c]) EXCEPT !.path = c, !.fd = c, !.sealed = TRUE])
  /\ UNCHANGED <<call, mode, src, dir, session, edits>>

PassPaths(c) ==
  /\ run[c].pc = "controls" /\ "held" \notin mode
  /\ Becomes(c, [Cleared(run[c]) EXCEPT !.path = IF "callback" \in run[c].request THEN c ELSE NONE])
  /\ UNCHANGED <<call, mode, src, dir, session, edits, faults>>

(* adopt_inherited_controls: descriptors that are named but invalid never  *)
(* fall back to the paths.                                                 *)
Adopted(c) ==
  LET own(of) == IF of \in Compilers THEN run[of].request ELSE {} IN
  CASE run[c].fd # NONE -> [via |-> "fd", of |-> run[c].fd, pair |-> own(run[c].fd)]
    [] run[c].fd = NONE /\ run[c].path # NONE ->
         [via |-> "path", of |-> run[c].path, pair |-> own(run[c].path)]
    [] OTHER -> NoControls

(* The compiler, with the driver's callback.  One that fails publishes no  *)
(* occurrences that are read.                                              *)
Compile(c) ==
  LET R(got, ok, written) ==
        [run[c] EXCEPT !.pc = IF Captured(c) THEN "after" ELSE "end", !.got = got,
           !.compiled = src, !.ok = ok, !.written = written] IN
  /\ run[c].pc = "compile"
  /\ \/ Becomes(c, R(Adopted(c), TRUE, IF Adopted(c).of = c THEN src ELSE NONE)) /\ UNCHANGED faults
     \/ Becomes(c, R(Adopted(c), FALSE, NONE)) /\ UNCHANGED faults
     \/ Adopted(c) # NoControls /\ Becomes(c, R(NoControls, TRUE, NONE)) /\ Fault
  /\ UNCHANGED <<call, mode, src, dir, session, edits>>

(* Mutant: a file that changed under the compiler is not noted. *)
After_Silent(c) ==
  /\ run[c].pc = "after"
  /\ Becomes(c, [run[c] EXCEPT !.pc = "accept", !.after = src])
  /\ UNCHANGED <<call, mode, src, dir, session, edits, faults>>

After(c) ==
  /\ run[c].pc = "after"
  /\ Becomes(c, [run[c] EXCEPT !.pc = "accept", !.after = src,
                   !.gaps = @ \union (IF run[c].before # src THEN {"UnstableFile"} ELSE {})])
  /\ UNCHANGED <<call, mode, src, dir, session, edits, faults>>

RecordSize(R) == Size[R.of] + Cardinality(R.gaps) + (IF R.occ # NONE THEN OCC ELSE 0)
Record(c) ==
  [of |-> c, before |-> run[c].before, after |-> run[c].after, ok |-> run[c].ok,
   occ |-> run[c].occ, gaps |-> run[c].gaps]

(* read_callback: of a compiler that succeeded, the occurrences of its own *)
(* request, about sources that are still what they name.  Occurrences that *)
(* do not fit the record are given up for it.                              *)
Accept(c) ==
  LET accepted == run[c].ok /\ "callback" \in run[c].request /\ run[c].written = src
      why == IF "callback" \in run[c].request THEN "OccurrenceCallbackRejected"
             ELSE "OccurrenceCallbackUnavailable"
      fits == RecordSize([Record(c) EXCEPT !.occ = src]) <= MAX_INVOCATION_BYTES IN
  /\ run[c].pc = "accept"
  /\ Becomes(c,
       CASE accepted /\ fits -> [run[c] EXCEPT !.pc = "write", !.occ = src]
         [] accepted /\ ~fits -> [run[c] EXCEPT !.pc = "write", !.gaps = @ \union {"BudgetExceeded"}]
         [] OTHER -> [run[c] EXCEPT !.pc = "write", !.gaps = @ \union {why}])
  /\ UNCHANGED <<call, mode, src, dir, session, edits, faults>>

WriteUnit(c) ==
  /\ run[c].pc = "write" /\ RecordSize(Record(c)) <= MAX_INVOCATION_BYTES
  /\ dir' = [dir EXCEPT !.units[run[c].slot] = Record(c)]
  /\ Becomes(c, [run[c] EXCEPT !.pc = "end"])
  /\ UNCHANGED <<call, mode, src, session, edits, faults>>

UnitTooLarge(c) ==
  /\ run[c].pc = "write" /\ RecordSize(Record(c)) > MAX_INVOCATION_BYTES
  /\ Marked(dir, "invocation_serialization")
  /\ Becomes(c, [run[c] EXCEPT !.pc = "end"])
  /\ UNCHANGED <<call, mode, src, session, edits>>

(* The write or its sync fails, or the wrapper is killed in it; then the   *)
(* marker is missing too.                                                  *)
WriteUnitFails(c) ==
  /\ run[c].pc = "write" /\ RecordSize(Record(c)) <= MAX_INVOCATION_BYTES
  /\ Fault
  /\ \E there \in {NONE, TORN, Record(c)}, mark \in SUBSET {"observation-failed"} :
       dir' = [dir EXCEPT !.units[run[c].slot] = there, !.marks = @ \union mark]
  /\ Becomes(c, [run[c] EXCEPT !.pc = "end"])
  /\ UNCHANGED <<call, mode, src, session, edits>>

Kill(c) ==
  /\ run[c].pc \notin {"write", "end"}
  /\ Fault
  /\ Becomes(c, [run[c] EXCEPT !.pc = "end"])
  /\ UNCHANGED <<call, mode, src, dir, session, edits>>

-----------------------------------------------------------------------------
(* The session, once Cargo has ended.                                      *)
Sum(seq, f(_)) == FoldLeft(LAMBDA n, x : n + f(x), 0, seq)
InvSize(R) == RecordSize(R) + 1
StreamOf(c) == StreamSize[c] + ENTRY
AttachmentSize(r) ==
  HEADER + Cardinality(r.gaps) + LOSS * Cardinality(r.truncations)
    + Sum(r.inv, InvSize) + Sum(r.gen, LAMBDA g : g.size) + Sum(r.str, StreamOf)

Told(r, gap) == [r EXCEPT !.gaps = @ \union {gap}]
Left(bytes) == IF bytes < MAX_ATTACHMENT_BYTES THEN MAX_ATTACHMENT_BYTES - bytes ELSE 0
UnitFiles == {i \in Slots : dir.units[i] # NONE}

(* What the directory holds at most: its configuration and the wrapper,    *)
(* the bytes and the lock of the streams' budget, and the requests of each *)
(* captured compiler with what they ask for.                               *)
Entries ==
  LET requests == 1 + Cardinality(mode \intersect {"stream"}) IN
  2 * requests * (1 + Cardinality({c \in Compilers : Captured(c)}))
    + Cardinality(dir.slots) + Cardinality(UnitFiles) + Cardinality(dir.marks)

(* Witnesses are looked for among the first LISTED entries of the          *)
(* directory, in no order; the other two markers by their names.           *)
LISTED == 3 * MAX_INVOCATIONS + SPARE
Fits == Entries <= LISTED
Seen ==
  {m \in SUBSET dir.marks :
     /\ dir.marks \ Budgets \subseteq m
     /\ m = dir.marks \/ Cardinality(dir.marks \ m) <= Entries - LISTED}

(* Mutant: slots without a record are not looked for. *)
RecordMissing_Never(slots, files) == FALSE

RecordMissing(slots, files) == Cardinality(slots) > Cardinality(files)

(* What the markers tell, some of them unreadable, and the slots.          *)
Witnesses(slots, files, marks, torn) ==
  [NewResult EXCEPT
     !.truncations = (marks \intersect Budgets) \ torn,
     !.gaps =
       (IF "compiler-unrecognized" \in marks THEN {"CompilerIdentityUnavailable"} ELSE {})
       \union (IF "observation-failed" \in marks THEN {"ReadFailed"} ELSE {})
       \union (IF RecordMissing(slots, files) \/ marks \intersect Budgets \intersect torn # {}
               THEN {"MalformedObservation"} ELSE {})]

Listed(slots, files, marks, torn) ==
  session' = [session EXCEPT !.pc = "units", !.slots = slots, !.units = files, !.files = files,
    !.result = Witnesses(slots, files, marks, torn),
    !.bytes = AttachmentSize(Witnesses(slots, files, marks, torn))]

(* The directory is listed three times.  An error of a listing is ignored: *)
(* what it did not return is not there.                                    *)
Finish ==
  /\ session.pc = "build" /\ \A c \in Compilers : run[c].pc = "end"
  /\ \/ UNCHANGED faults /\ \E m \in Seen : Listed(dir.slots, UnitFiles, m, dir.torn)
     \/ /\ Fault
        /\ \E slots \in SUBSET dir.slots, files \in SUBSET UnitFiles, m \in SUBSET dir.marks :
             \E torn \in SUBSET m : Listed(slots, files, m, dir.torn \union torn)
  /\ UNCHANGED <<call, mode, src, dir, run, edits>>

(* The records are read in the order of their names, which is not that of  *)
(* the slots (unit-10 is before unit-2): here, in any order.  A unit is    *)
(* bound to its Cargo artifact, or has a gap that says it is not (the one  *)
(* byte InvSize adds).                                                     *)
JoinUnit(i) ==
  LET r == session.result
      R == dir.units[i]
      n == InvSize(R)
      skip == [session EXCEPT !.files = @ \ {i}] IN
  /\ session.pc = "units" /\ i \in session.files
  /\ \/ /\ R = TORN /\ session' = [skip EXCEPT !.result = Told(r, "MalformedObservation")]
        /\ UNCHANGED faults
     \/ /\ Fault /\ session' = [skip EXCEPT !.result = Told(r, "MalformedObservation")]
     \/ /\ R # TORN /\ (n > MAX_INVOCATION_BYTES \/ n > Left(session.bytes))
        /\ session' = [skip EXCEPT !.dropped.inv = @ + 1] /\ UNCHANGED faults
     \/ /\ R # TORN /\ n <= MAX_INVOCATION_BYTES /\ n <= Left(session.bytes) /\ UNCHANGED faults
        /\ session' =
             IF \E k \in DOMAIN r.inv : Key[r.inv[k].of] = Key[R.of]
             THEN [skip EXCEPT !.result = Told(r, "ConflictingUnit")]
             ELSE [skip EXCEPT !.result.inv = Append(@, R), !.bytes = @ + n]
  /\ UNCHANGED <<call, mode, src, dir, run, edits>>

UnitsJoined ==
  /\ session.pc = "units" /\ session.files = {}
  /\ session' = [session EXCEPT !.pc = "generators", !.todo = Generators[mode]]
  /\ UNCHANGED <<call, mode, src, dir, run, edits, faults>>

(* One that is not valid (say, a variable its build script set twice) is   *)
(* left out and not counted.                                               *)
JoinGenerator ==
  LET g == Head(session.todo)
      skip == [session EXCEPT !.todo = Tail(@)] IN
  /\ session.pc = "generators" /\ session.todo # <<>>
  /\ session' = IF g.size > Left(session.bytes) THEN [skip EXCEPT !.dropped.gen = @ + 1]
                ELSE IF ~g.valid THEN [skip EXCEPT !.result = Told(@, "MalformedObservation")]
                ELSE [skip EXCEPT !.result.gen = Append(@, g), !.bytes = @ + g.size]
  /\ UNCHANGED <<call, mode, src, dir, run, edits, faults>>

(* The orders of invocations by unit key.                                  *)
ByKey(inv) ==
  LET InOrder(p) == \A i, j \in DOMAIN inv : i < j => Key[inv[p[i]].of] <= Key[inv[p[j]].of] IN
  {[i \in DOMAIN inv |-> inv[p[i]]] : p \in {q \in Bijection(DOMAIN inv, DOMAIN inv) : InOrder(q)}}

(* The attachment is measured again before the first stream is read.       *)
GeneratorsJoined ==
  LET r == session.result
      s == IF r.truncations # {} THEN Told(r, "BudgetExceeded") ELSE r IN
  /\ session.pc = "generators" /\ session.todo = <<>>
  /\ \E sorted \in ByKey(r.inv) :
       session' = [session EXCEPT
         !.pc = "streams", !.result = [s EXCEPT !.inv = sorted], !.bytes = AttachmentSize(s),
         !.todo = IF "stream" \in mode THEN sorted ELSE <<>>]
  /\ UNCHANGED <<call, mode, src, dir, run, edits, faults>>

(* What the driver left is read only within what is left of the            *)
(* attachment.  How a stream is read and validated is SemanticStream.      *)
JoinStream ==
  LET c == Head(session.todo).of
      remaining == Left(session.bytes + SLACK)
      left == "stream" \in run[c].got.pair /\ run[c].got.of = c /\ run[c].ok
      skip == [session EXCEPT !.todo = Tail(@)]
      lost == [skip EXCEPT !.dropped.str = @ + 1]
      rejected == [lost EXCEPT !.result = Told(@, "OccurrenceCallbackRejected")] IN
  /\ session.pc = "streams" /\ session.todo # <<>>
  /\ \/ Fault /\ session' = rejected
     \/ /\ UNCHANGED faults
        /\ session' =
             IF ~left \/ StreamSize[c] > remaining THEN rejected
             ELSE IF StreamOf(c) > remaining THEN lost
             ELSE [skip EXCEPT !.result.str = Append(@, c), !.bytes = @ + StreamOf(c)]
  /\ UNCHANGED <<call, mode, src, dir, run, edits>>

StreamsJoined ==
  /\ session.pc = "streams" /\ session.todo = <<>>
  /\ session' = [session EXCEPT !.pc = "assemble"]
  /\ UNCHANGED <<call, mode, src, dir, run, edits, faults>>

-----------------------------------------------------------------------------
(* AssemblyBudget::finish: the witnesses of what was dropped take bytes    *)
(* too, so records are evicted until both fit.                             *)
Dropped(k) == session.dropped[k] > 0
Losses ==
  LET t == (session.result.truncations \ Lost)
             \union (IF Dropped("inv") THEN {"assembled_invocations"} ELSE {})
             \union (IF Dropped("gen") THEN {"assembled_generators"} ELSE {})
             \union (IF Dropped("str") THEN {"assembled_semantic_streams"} ELSE {}) IN
  [session.result EXCEPT !.truncations = t,
     !.gaps = @ \union (IF t # {} THEN {"BudgetExceeded"} ELSE {})]

Evict(k) ==
  session' = [session EXCEPT !.result = [Losses EXCEPT ![k] = Front(@)], !.dropped[k] = @ + 1]

(* gap_attachment: nothing but the gaps and the truncations.               *)
Bare(gap) ==
  session' = [session EXCEPT !.pc = "done",
    !.result = [NewResult EXCEPT !.gaps = Losses.gaps \union {gap},
                  !.truncations = Losses.truncations, !.bare = TRUE]]

(* Mutant: invocations go before the streams that refer to them. *)
Evicted_InvocationsFirst(r) ==
  IF r.inv # <<>> THEN "inv" ELSE IF r.gen # <<>> THEN "gen" ELSE "str"

Evicted(r) ==
  IF r.str # <<>> THEN "str" ELSE IF r.gen # <<>> THEN "gen" ELSE "inv"

Assemble ==
  LET r == session.result IN
  /\ session.pc = "assemble" /\ AttachmentSize(Losses) > MAX_ATTACHMENT_BYTES
  /\ IF r.str # <<>> \/ r.gen # <<>> \/ r.inv # <<>> THEN Evict(Evicted(r))
     ELSE Bare("BudgetExceeded")
  /\ UNCHANGED <<call, mode, src, dir, run, edits, faults>>

Publish ==
  /\ session.pc = "assemble" /\ AttachmentSize(Losses) <= MAX_ATTACHMENT_BYTES
  /\ \/ session' = [session EXCEPT !.pc = "done", !.result = Losses] /\ UNCHANGED faults
     \/ Fault /\ Bare("MalformedObservation")
  /\ UNCHANGED <<call, mode, src, dir, run, edits>>

-----------------------------------------------------------------------------
(* Every edit gives the sources a content they never had.                  *)
Edit ==
  /\ session.pc = "build" /\ edits < MaxEdits
  /\ edits' = edits + 1 /\ src' = src + 1
  /\ UNCHANGED <<call, mode, dir, run, session, faults>>

Wrapper(c) ==
  \/ Start(c) \/ Claim(c) \/ SlotTaken(c) \/ ClaimFails(c) \/ NoSlot(c) \/ Observe(c)
  \/ WriteRequests(c) \/ Seal(c) \/ PassPaths(c) \/ Compile(c) \/ After(c) \/ Accept(c)
  \/ WriteUnit(c) \/ UnitTooLarge(c) \/ WriteUnitFails(c) \/ Kill(c)

Join ==
  \/ Finish \/ (\E i \in Slots : JoinUnit(i)) \/ UnitsJoined \/ JoinGenerator \/ GeneratorsJoined \/ JoinStream
  \/ StreamsJoined \/ Assemble \/ Publish

Next == (\E c \in Compilers : Wrapper(c)) \/ Join \/ Edit

Spec == Init /\ [][Next]_vars

-----------------------------------------------------------------------------
(* Every variable has its type: slots are those of the directory, a        *)
(* wrapper that has a slot claimed it.                                     *)
CaptureTypeOK ==
  /\ <<call, mode>> \in Setups /\ src = 1 + edits
  /\ dir.slots \subseteq Slots /\ DOMAIN dir.units = Slots /\ UnitFiles \subseteq dir.slots
  /\ dir.torn \subseteq dir.marks /\ dir.marks \subseteq Marks
  /\ session.slots \subseteq dir.slots /\ session.files \subseteq session.units /\ session.units \subseteq UnitFiles
  /\ \A c \in Compilers : run[c].slot \in dir.slots \union {NONE} /\ run[c].next \in 0..MAX_INVOCATIONS
  /\ \A i \in DOMAIN session.result.inv : session.result.inv[i].of \in Compilers
  /\ session.result.truncations \subseteq Budgets \union Lost

(* compiler_observer: the slot a wrapper claims is a tombstone.  Whatever  *)
(* befalls the wrapper afterwards, and whatever of its record can be read, *)
(* the attachment has the record or says that something is missing, when   *)
(* the session could list the slots.  Without a failed call this holds of  *)
(* every compiler that was called for a unit, slots and bytes running out  *)
(* included, if the directory fits the listing for witnesses.              *)
CapturedOrTold ==
  LET r == session.result
      lost(c) == \A i \in DOMAIN r.inv : r.inv[i].of # c IN
  session.pc = "done" =>
    \A c \in Compilers :
      /\ \/ run[c].slot # NONE /\ session.slots = dir.slots
         \/ faults = 0 /\ Fits /\ call[c] \in {"unit", "unresolved"}
      /\ lost(c)
      => {"MalformedObservation", "ReadFailed", "ConflictingUnit", "BudgetExceeded"}
           \intersect r.gaps # {}

(* Held callback controls: whatever environment the wrapper inherited, a   *)
(* child takes the requests of its own wrapper or none; in held mode it    *)
(* takes them through descriptors, the whole pair, and never through the   *)
(* paths; and a record without occurrences says why.                       *)
HeldOrTold ==
  /\ \A c \in Compilers :
       /\ run[c].got.of \in {c, NONE}
       /\ "held" \in mode /\ run[c].got # NoControls =>
            run[c].got.via = "fd" /\ run[c].got.pair = {"callback"} \union (mode \intersect {"stream"})
  /\ \A i \in Slots : dir.units[i] \notin {NONE, TORN} /\ dir.units[i].occ = NONE =>
       dir.units[i].gaps \intersect
         {"OccurrenceCallbackRejected", "OccurrenceCallbackUnavailable", "BudgetExceeded"} # {}

(* A record in the attachment that does not say its input was unstable     *)
(* has the version its compiler read, and its occurrences are of that      *)
(* version whatever it says, from a compiler that succeeded.               *)
RecordsCompiled ==
  \A i \in DOMAIN session.result.inv :
    LET R == session.result.inv[i] IN
    /\ "UnstableFile" \in R.gaps \/ {R.before, R.after} = {run[R.of].compiled}
    /\ R.occ # NONE => R.ok /\ R.occ = run[R.of].compiled

(* The attachment fits its limit with the witnesses of its own losses, and *)
(* those are exact: generators and streams are there or counted, except    *)
(* generators that are not valid, and of the records that were listed only *)
(* duplicates and unreadable ones are neither; what is neither has its     *)
(* gap; and no stream refers to an invocation that was evicted.            *)
AssemblyExact ==
  LET r == session.result
      d == session.dropped
      made == Generators[mode]
      malformed == {k \in DOMAIN made : ~made[k].valid}
      refused == Len(made) - (Len(r.gen) + d.gen)
      readable == {i \in session.units : dir.units[i] # TORN}
      keys == {Key[dir.units[i].of] : i \in readable} IN
  session.pc = "done" /\ ~r.bare =>
    /\ AttachmentSize(r) <= MAX_ATTACHMENT_BYTES
    /\ refused \in 0..Cardinality(malformed)
    /\ refused # 0 => "MalformedObservation" \in r.gaps
    /\ Len(r.inv) + d.inv \in (IF "MalformedObservation" \in r.gaps THEN 0 ELSE Cardinality(keys))
                             .. Cardinality(readable)
    /\ "stream" \in mode => Len(r.str) + d.str >= Len(r.inv)
    /\ \A k \in DOMAIN r.str : \E i \in DOMAIN r.inv : r.inv[i].of = r.str[k]
    /\ (\E k \in DOMAIN d : d[k] > 0) => "BudgetExceeded" \in r.gaps /\ r.truncations \intersect Lost # {}

(* docs/export.md: "Every dropped collection records `truncations`": a     *)
(* slot that no wrapper could get is in the attachment's truncations.      *)
(* (Violated: the witness may be beyond the listing.)                      *)
DropsRecorded ==
  LET noSlot(c) == run[c].slot = NONE /\ run[c].next = MAX_INVOCATIONS IN
  session.pc = "done" /\ faults = 0 /\ (\E c \in Compilers : noSlot(c)) =>
    "compiler_slots" \in session.result.truncations
=============================================================================
