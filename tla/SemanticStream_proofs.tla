------------------------ MODULE SemanticStream_proofs ------------------------
(***************************************************************************)
(* Proofs about the byte counter the drivers share and the streams that    *)
(* are charged to it, for any drivers, walks, limits and amounts: types,   *)
(* what the session attaches, what a published stream says, and that all   *)
(* of what is published was paid for.                                      *)
(***************************************************************************)
EXTENDS SemanticStream, Integers, FiniteSetTheorems, SequenceTheorems,
        WellFoundedInduction, TLAPS

(* A counter is being rewritten by the owner of the lock, and only by it;  *)
(* the total it is about to write covers all bytes granted so far and the  *)
(* ones it asks for.                                                       *)
Rewriting ==
  \A d \in Drivers :
    /\ at[d] \in Critical => lock = d
    /\ at[d] \in {"truncate", "write", "sync"} =>
         charged + asked[d] <= total[d] /\ total[d] <= MAX_STREAM_BYTES
    /\ at[d] = "truncate" => counter # EMPTY
    /\ at[d] = "write" => counter = EMPTY
    /\ at[d] = "sync" => counter = total[d]

BudgetInv == BudgetTypeOK /\ NothingForgotten /\ Rewriting

USE DEF Critical, Steps

-----------------------------------------------------------------------------
LEMMA BudgetInitially == InitBudget => BudgetInv
  BY BudgetAssumption DEF BudgetAssumption, InitBudget, BudgetInv, BudgetTypeOK, NothingForgotten,
     Rewriting

(* A driver that takes the lock finds it free, so nobody is in the middle  *)
(* of an update.                                                           *)
LEMMA TakeLockKeeps ==
  ASSUME BudgetInv, NEW d \in Drivers, TakeLock(d)
  PROVE BudgetInv'
  <1> USE BudgetAssumption DEF BudgetAssumption, BudgetInv, TakeLock
  <1>1. BudgetTypeOK'
    BY DEF BudgetTypeOK
  <1>2. NothingForgotten'
    BY DEF NothingForgotten
  <1>3. Rewriting'
    BY DEF Rewriting, BudgetTypeOK
  <1> QED BY <1>1, <1>2, <1>3

LEMMA LockBusyKeeps ==
  ASSUME BudgetInv, NEW d \in Drivers, LockBusy(d)
  PROVE BudgetInv'
  <1> USE BudgetAssumption DEF BudgetAssumption, BudgetInv, LockBusy
  <1>1. BudgetTypeOK'
    BY DEF BudgetTypeOK
  <1>2. NothingForgotten'
    BY DEF NothingForgotten
  <1>3. Rewriting'
    BY DEF Rewriting, BudgetTypeOK
  <1> QED BY <1>1, <1>2, <1>3

(* The new total is computed from a counter that covers what was granted.  *)
LEMMA ReadTotalKeeps ==
  ASSUME BudgetInv, NEW d \in Drivers, ReadTotal(d)
  PROVE BudgetInv'
  <1> DEFINE used == IF counter = ABSENT THEN 0 ELSE counter
  <1> USE BudgetAssumption DEF BudgetAssumption, BudgetInv
  <1>a. counter # EMPTY => used \in Nat /\ charged <= used
    BY DEF BudgetTypeOK, NothingForgotten
  <1>b. /\ at[d] = "read" /\ UNCHANGED <<counter, asked, tries, charged>>
        /\ \/ at' = [at EXCEPT ![d] = "refused"] /\ lock' = FREE /\ UNCHANGED total
           \/ /\ counter # EMPTY /\ ~(used + asked[d] > MAX_STREAM_BYTES)
              /\ at' = [at EXCEPT ![d] = "truncate"] /\ UNCHANGED lock
              /\ total' = [total EXCEPT ![d] = used + asked[d]]
    BY DEF ReadTotal
  <1> HIDE DEF used
  <1>1. BudgetTypeOK'
    BY <1>a, <1>b DEF BudgetTypeOK
  <1>2. NothingForgotten'
    BY <1>b DEF NothingForgotten
  <1>3. Rewriting'
    BY <1>a, <1>b DEF Rewriting, BudgetTypeOK
  <1> QED BY <1>1, <1>2, <1>3

LEMMA TruncateKeeps ==
  ASSUME BudgetInv, NEW d \in Drivers, Truncate(d)
  PROVE BudgetInv'
  <1> USE BudgetAssumption DEF BudgetAssumption, BudgetInv, Truncate
  <1>1. BudgetTypeOK'
    BY DEF BudgetTypeOK
  <1>2. NothingForgotten'
    BY DEF NothingForgotten
  <1>3. Rewriting'
    BY DEF Rewriting, BudgetTypeOK
  <1> QED BY <1>1, <1>2, <1>3

LEMMA WriteTotalKeeps ==
  ASSUME BudgetInv, NEW d \in Drivers, WriteTotal(d)
  PROVE BudgetInv'
  <1> USE BudgetAssumption DEF BudgetAssumption, BudgetInv, WriteTotal
  <1>1. BudgetTypeOK'
    BY DEF BudgetTypeOK
  <1>2. NothingForgotten'
    BY DEF NothingForgotten, Rewriting, BudgetTypeOK
  <1>3. Rewriting'
    BY DEF Rewriting, BudgetTypeOK
  <1> QED BY <1>1, <1>2, <1>3

(* The bytes granted are on disk already.                                  *)
LEMMA GrantKeeps ==
  ASSUME BudgetInv, NEW d \in Drivers, Grant(d)
  PROVE BudgetInv'
  <1> USE BudgetAssumption DEF BudgetAssumption, BudgetInv, Grant
  <1>1. BudgetTypeOK'
    BY DEF BudgetTypeOK
  <1>2. NothingForgotten'
    BY DEF NothingForgotten, Rewriting, BudgetTypeOK
  <1>3. Rewriting'
    BY DEF Rewriting, BudgetTypeOK
  <1> QED BY <1>1, <1>2, <1>3

(* An interrupted update leaves the counter empty, or larger than what was *)
(* granted.                                                                *)
LEMMA FailKeeps ==
  ASSUME BudgetInv, NEW d \in Drivers, Fail(d)
  PROVE BudgetInv'
  <1> USE BudgetAssumption DEF BudgetAssumption, BudgetInv, Fail
  <1>1. BudgetTypeOK'
    BY DEF BudgetTypeOK
  <1>2. NothingForgotten'
    BY DEF NothingForgotten
  <1>3. Rewriting'
    BY DEF Rewriting, BudgetTypeOK
  <1> QED BY <1>1, <1>2, <1>3

LEMMA ReturnKeeps ==
  ASSUME BudgetInv, NEW d \in Drivers, Return(d)
  PROVE BudgetInv'
  <1> USE BudgetAssumption DEF BudgetAssumption, BudgetInv, Return
  <1>1. BudgetTypeOK'
    BY DEF BudgetTypeOK
  <1>2. NothingForgotten'
    BY DEF NothingForgotten
  <1>3. Rewriting'
    BY DEF Rewriting, BudgetTypeOK
  <1> QED BY <1>1, <1>2, <1>3

LEMMA KillKeeps ==
  ASSUME BudgetInv, NEW d \in Drivers, Kill(d)
  PROVE BudgetInv'
  <1> USE BudgetAssumption DEF BudgetAssumption, BudgetInv, Kill
  <1>1. BudgetTypeOK'
    BY DEF BudgetTypeOK
  <1>2. NothingForgotten'
    BY DEF NothingForgotten
  <1>3. Rewriting'
    BY DEF Rewriting, BudgetTypeOK
  <1> QED BY <1>1, <1>2, <1>3

LEMMA ReserveKeeps ==
  ASSUME BudgetInv, NEW d \in Drivers, NEW bytes \in Requests, Reserve(d, bytes)
  PROVE BudgetInv'
  <1> USE BudgetAssumption DEF BudgetAssumption, BudgetInv, Reserve
  <1>1. BudgetTypeOK'
    BY DEF BudgetTypeOK
  <1>2. NothingForgotten'
    BY DEF NothingForgotten
  <1>3. Rewriting'
    BY DEF Rewriting, BudgetTypeOK
  <1> QED BY <1>1, <1>2, <1>3

LEMMA BudgetKept ==
  ASSUME BudgetInv, [NextBudget]_budgetVars
  PROVE BudgetInv'
  <1>1. CASE UNCHANGED budgetVars
    BY <1>1 DEF budgetVars, BudgetInv, BudgetTypeOK, NothingForgotten, Rewriting
  <1>2. ASSUME NEW d \in Drivers, CallStep(d)
        PROVE BudgetInv'
    BY <1>2, TakeLockKeeps, LockBusyKeeps, ReadTotalKeeps, TruncateKeeps, WriteTotalKeeps,
       GrantKeeps DEF CallStep
  <1>3. ASSUME NEW d \in Drivers, Fail(d) \/ Return(d) \/ Kill(d)
        PROVE BudgetInv'
    BY <1>3, FailKeeps, ReturnKeeps, KillKeeps
  <1>4. ASSUME NEW d \in Drivers, NEW bytes \in Requests, Reserve(d, bytes)
        PROVE BudgetInv'
    BY <1>4, ReserveKeeps
  <1> QED BY <1>1, <1>2, <1>3, <1>4 DEF NextBudget

(* A budget that was closed stays closed.  Nobody is in the middle of an   *)
(* update but a driver that died, so no driver passes the lock or parses   *)
(* the counter.                                                            *)
LEMMA ClosedKept ==
  ASSUME BudgetInv, [NextBudget]_budgetVars, Closed
  PROVE Closed' /\ charged' = charged
  <1> USE BudgetAssumption DEF BudgetAssumption, BudgetInv, BudgetTypeOK, Rewriting, Closed
  <1>1. CASE UNCHANGED budgetVars
    BY <1>1 DEF budgetVars
  <1>2. ASSUME NEW d \in Drivers, TakeLock(d)
        PROVE Closed' /\ charged' = charged
    BY <1>2 DEF TakeLock
  <1>3. ASSUME NEW d \in Drivers, LockBusy(d)
        PROVE Closed' /\ charged' = charged
    BY <1>3 DEF LockBusy
  <1>4. ASSUME NEW d \in Drivers, ReadTotal(d)
        PROVE Closed' /\ charged' = charged
    <2>1. ~(lock # FREE /\ at[lock] = "dead")
      BY <1>4 DEF ReadTotal
    <2>2. counter = EMPTY /\ counter' = counter /\ charged' = charged
      BY <1>4, <2>1 DEF ReadTotal
    <2>3. at' = [at EXCEPT ![d] = "refused"]
      BY <1>4, <2>2 DEF ReadTotal
    <2> QED BY <2>1, <2>2, <2>3
  <1>5. ASSUME NEW d \in Drivers, Truncate(d) \/ WriteTotal(d)
        PROVE Closed' /\ charged' = charged
    BY <1>5 DEF Truncate, WriteTotal
  <1>6. ASSUME NEW d \in Drivers, Grant(d)
        PROVE Closed' /\ charged' = charged
    BY <1>6 DEF Grant
  <1>7. ASSUME NEW d \in Drivers, Fail(d)
        PROVE Closed' /\ charged' = charged
    BY <1>7 DEF Fail
  <1>8. ASSUME NEW d \in Drivers, Return(d) \/ Kill(d)
        PROVE Closed' /\ charged' = charged
    BY <1>8 DEF Return, Kill
  <1>9. ASSUME NEW d \in Drivers, NEW bytes \in Requests, Reserve(d, bytes)
        PROVE Closed' /\ charged' = charged
    BY <1>9 DEF Reserve
  <1> QED BY <1>1, <1>2, <1>3, <1>4, <1>5, <1>6, <1>7, <1>8, <1>9 DEF NextBudget, CallStep

LEMMA BudgetInvariant == SpecBudget => []BudgetInv
  BY BudgetInitially, BudgetKept, PTL DEF SpecBudget

-----------------------------------------------------------------------------
(* The drivers of a build use the counter through calls of `reserve` only: *)
(* each step of the streams is a step of the budget, or none.              *)
LEMMA StepsOfBudget ==
  ASSUME [Next]_vars
  PROVE [NextBudget]_budgetVars
  <1> USE StreamAssumption DEF StreamAssumption
  <1>1. CASE UNCHANGED vars
    BY <1>1 DEF vars
  <1>2. ASSUME NEW d \in Drivers, Open(d) \/ Opened(d)
        PROVE [NextBudget]_budgetVars
    BY <1>2 DEF Open, Opened, Answered, NextBudget
  <1>3. ASSUME NEW d \in Drivers, WorkLimit(d) \/ Observe(d) \/ RowAdmitted(d)
        PROVE [NextBudget]_budgetVars
    BY <1>3 DEF WorkLimit, Observe, RowAdmitted, Answered, NextBudget
  <1>4. ASSUME NEW d \in Drivers, Visit(d) \/ Located(d)
        PROVE [NextBudget]_budgetVars
    BY <1>4 DEF Visit, Located, Answered, NextBudget
  <1>5. ASSUME NEW d \in Drivers, Flush(d) \/ Flushed(d) \/ WriteIndex(d)
        PROVE [NextBudget]_budgetVars
    BY <1>5 DEF Flush, Flushed, WriteIndex, Answered, NextBudget
  <1>6. ASSUME NEW d \in Drivers, Call(d) \/ CallFails(d) \/ CompilerDies(d)
        PROVE [NextBudget]_budgetVars
    BY <1>6 DEF Call, CallFails, CompilerDies, NextBudget
  <1>7. ASSUME NEW s \in Sources, Edit(s)
        PROVE [NextBudget]_budgetVars
    BY <1>7 DEF Edit
  <1>8. CASE SessionStep
    BY <1>8 DEF SessionStep, BeginFinish, ReadStream
  <1> QED BY <1>1, <1>2, <1>3, <1>4, <1>5, <1>6, <1>7, <1>8 DEF Next, DriverStep

LEMMA ImplementsBudget == Spec => SpecBudget
  BY StepsOfBudget, PTL DEF Spec, SpecBudget, Init

(* The drivers of a build together are never granted more than the limit,  *)
(* and no counter on disk forgets bytes that were granted: whatever call   *)
(* of reserve failed, and wherever a driver was killed.                    *)
THEOREM BudgetNeverForgets == Spec => []NothingForgotten
  <1>1. BudgetInv => NothingForgotten
    BY DEF BudgetInv
  <1> QED BY <1>1, BudgetInvariant, ImplementsBudget, PTL

(* The counter is read and rewritten by one driver at a time.              *)
THEOREM OneDriverRewrites == Spec => []MutualExclusion
  <1>1. BudgetInv => MutualExclusion
    BY DEF BudgetInv, Rewriting, MutualExclusion
  <1> QED BY <1>1, BudgetInvariant, ImplementsBudget, PTL

(* An update of the counter that was interrupted closes the budget: no     *)
(* driver of the build is granted a byte from then on.                     *)
THEOREM InterruptionCloses == Spec => InterruptedStaysClosed
  <1>1. BudgetInv /\ [NextBudget]_budgetVars => [Closed => Closed' /\ charged' = charged]_budgetVars
    BY ClosedKept
  <1> QED BY <1>1, BudgetInvariant, ImplementsBudget, PTL DEF InterruptedStaysClosed, SpecBudget
-----------------------------------------------------------------------------
(* Streams: types.                                                         *)
Walking == {"open", "opening", "walk", "observing", "charging", "flush", "flushing", "index", "end"}
Stops == {"EndOfDomain", "WorkLimit", "OutputLimit", "SourceWorkLimit", "PublicationInterrupted"}
Gaps == {"context", "harness", "hir", "Unsupported", "SourceUnavailable", "TraversalWorkLimit",
         "OutputLimit", "SourceWorkLimit", "PublicationInterrupted"}
Pages == [Lists -> Seq(Rows)]
Writers ==
  [pc : Walking, buf : [Sources -> Nat], next : Nat, events : Nat, row : Rows \union {NONE},
   page : Pages, maxPages : Nat, sources : SUBSET (Sources \union Huge), stopped : BOOLEAN,
   stop : Stops, gaps : SUBSET Gaps, visited : [Lists -> Nat], unsupported : Nat]
Terminals ==
  [stop : Stops, gaps : SUBSET Gaps, visited : [Lists -> Nat], emitted : [Lists -> Nat],
   unsupported : Nat, pages : Nat, omitted : Int]
Outputs ==
  [dir : BOOLEAN, pages : Nat, rows : Pages, inputs : Seq(Inputs \union {NONE}),
   index : Terminals \union {NONE}]

(* A writer W at its place in the walk over D, with output O.  A row is    *)
(* only pending when its list is full, so the page is not empty then; a    *)
(* source that is too large ends the walk.                                 *)
WriterTyped(W, O, D) ==
  /\ W \in Writers /\ O \in Outputs
  /\ W.events <= MAX_TRAVERSAL_WORK
  /\ W.next \in 1..(Len(D) + 1)
  /\ \A k \in Lists : Len(W.page[k]) <= PAGE_ROWS
  /\ W.pc # "end" => O.pages <= W.maxPages
  /\ W.pc \in {"open", "opening"} => O.pages = 0 /\ W.row = NONE
  /\ W.pc = "flushing" => O.pages < W.maxPages
  /\ W.pc \in {"observing", "charging"} => W.next <= Len(D) /\ ~W.stopped
  /\ W.pc = "observing" => D[W.next].of # "hir"
  /\ W.pc = "charging" => D[W.next].of = "hir" /\ D[W.next].src \in Sources \union Huge
  /\ W.pc = "flush" => W.row # NONE
  /\ W.row # NONE => /\ W.pc \in {"flush", "flushing"} /\ W.next <= Len(D)
                     /\ W.row.list = D[W.next].list
                     /\ Len(W.page[W.row.list]) = PAGE_ROWS
  /\ W.sources \intersect Huge # {} => W.stopped

TypeInv ==
  /\ files \in [Sources -> 1..2]
  /\ edits \in 0..MaxEdits /\ faults \in 0..MaxFaults
  /\ w \in [Drivers -> Writers] /\ out \in [Drivers -> Outputs]
  /\ \A d \in Drivers : WriterTyped(w[d], out[d], Domain[d])

(* The total a driver has computed is under the limit.                     *)
TotalInv == BudgetInv /\ \A d \in Drivers : total[d] <= MAX_STREAM_BYTES

LEMMA TotalStep ==
  ASSUME TotalInv, [NextBudget]_budgetVars
  PROVE  TotalInv'
  <1>1. BudgetInv'
    BY BudgetKept DEF TotalInv
  <1>2. \/ total' = total
        \/ \E d \in Drivers : total' = [total EXCEPT ![d] = 0]
        \/ \E d \in Drivers : \E n \in Nat : total' = [total EXCEPT ![d] = n] /\ ~(n > MAX_STREAM_BYTES)
    <2>1. CASE UNCHANGED budgetVars
      BY <2>1 DEF budgetVars
    <2>2. ASSUME NEW d \in Drivers, ReadTotal(d)
          PROVE  \/ total' = total
                 \/ \E n \in Nat : total' = [total EXCEPT ![d] = n] /\ ~(n > MAX_STREAM_BYTES)
      <3> DEFINE used == IF counter = ABSENT THEN 0 ELSE counter
      <3>1. counter # EMPTY => used \in Nat
        BY DEF TotalInv, BudgetInv, BudgetTypeOK
      <3>2. asked[d] \in Nat
        BY DEF TotalInv, BudgetInv, BudgetTypeOK
      <3>3. \/ total' = total
            \/ counter # EMPTY /\ ~(used + asked[d] > MAX_STREAM_BYTES)
               /\ total' = [total EXCEPT ![d] = used + asked[d]]
        BY <2>2 DEF ReadTotal
      <3> HIDE DEF used
      <3> QED
        BY <3>1, <3>2, <3>3
    <2>3. ASSUME NEW d \in Drivers, TakeLock(d) \/ LockBusy(d) \/ Truncate(d) \/ WriteTotal(d) \/ Grant(d)
          PROVE  total' = total
      BY <2>3 DEF TakeLock, LockBusy, Truncate, WriteTotal, Grant
    <2>4. ASSUME NEW d \in Drivers, Fail(d) \/ Kill(d) \/ \E bytes \in Requests : Reserve(d, bytes)
          PROVE  total' = total
      BY <2>4 DEF Fail, Kill, Reserve
    <2>5. ASSUME NEW d \in Drivers, Return(d)
          PROVE  total' = [total EXCEPT ![d] = 0]
      BY <2>5 DEF Return
    <2> QED
      BY <2>1, <2>2, <2>3, <2>4, <2>5 DEF NextBudget, CallStep
  <1>3. \A d \in Drivers : total'[d] <= MAX_STREAM_BYTES
    BY <1>2, BudgetAssumption DEF TotalInv, BudgetInv, BudgetTypeOK, BudgetAssumption
  <1> QED
    BY <1>1, <1>3 DEF TotalInv

(* A finite set of numbers has a greatest one.                             *)
Below == {ss \in Nat \X Nat : ss[1] < ss[2]}

LEMMA BelowWellFounded == IsWellFoundedOn(Below, Nat)
  BY NatLessThanWellFounded, Zenon DEF OpToRel, Below

LEMMA Least ==
  ASSUME NEW S \in SUBSET Nat, S # {}
  PROVE  \E x \in S : \A y \in S : x <= y
  <1>1. PICK x \in S : \A y \in S : <<y, x>> \notin Below
    BY BelowWellFounded, WFMin
  <1>2. ASSUME NEW y \in S, y < x PROVE FALSE
    <2>1. <<y, x>> \in Nat \X Nat
      OBVIOUS
    <2>2. <<y, x>> \in Below
      BY <1>2, <2>1 DEF Below
    <2> QED
      BY <1>1, <2>2
  <1> QED
    BY <1>2

LEMMA Greatest ==
  ASSUME NEW n \in Nat, NEW S \in SUBSET (1..n), S # {}
  PROVE  Max(S) \in S /\ \A y \in S : y <= Max(S)
  <1> DEFINE T == {n - x : x \in S}
  <1>1. T \in SUBSET Nat /\ T # {}
    <2>1. \A x \in S : n - x \in Nat
      OBVIOUS
    <2>2. PICK x \in S : TRUE
      OBVIOUS
    <2>3. n - x \in T
      OBVIOUS
    <2> QED
      BY <2>1, <2>3
  <1>2. PICK t \in T : \A y \in T : t <= y
    BY <1>1, Least
  <1>3. PICK m \in S : t = n - m
    OBVIOUS
  <1>4. \A y \in S : y <= m
    <2> SUFFICES ASSUME NEW y \in S PROVE y <= m
      OBVIOUS
    <2>1. n - y \in T
      OBVIOUS
    <2> QED
      BY <1>2, <1>3, <2>1
  <1>5. \E x \in S : \A y \in S : x >= y
    BY <1>4
  <1> QED
    BY <1>5 DEF Max

-----------------------------------------------------------------------------
(* A writer at an item: what holds whatever is decided of the item.        *)
WriterAt(W, O, D) ==
  /\ W \in Writers /\ O \in Outputs
  /\ W.events <= MAX_TRAVERSAL_WORK
  /\ W.next \in 1..Len(D)
  /\ \A k \in Lists : Len(W.page[k]) <= PAGE_ROWS
  /\ O.pages <= W.maxPages
  /\ W.sources \intersect Huge # {} => W.stopped

LEMMA AtItemTyped ==
  ASSUME NEW W, NEW O, NEW D \in Seq(Items), WriterTyped(W, O, D), W.pc # "end",
         W.next <= Len(D)
  PROVE  WriterAt(W, O, D)
  BY DEF WriterTyped, WriterAt

LEMMA InterruptedAt ==
  ASSUME NEW W, NEW O, NEW D \in Seq(Items), WriterAt(W, O, D),
         NEW stop \in Stops, NEW gap \in Gaps
  PROVE  /\ WriterAt(Interrupted(W, stop, gap), O, D)
         /\ Interrupted(W, stop, gap).row = W.row /\ Interrupted(W, stop, gap).next = W.next
  BY DEF WriterAt, Interrupted, Gap, Writers

LEMMA UnsupportedAt ==
  ASSUME NEW W, NEW O, NEW D \in Seq(Items), WriterAt(W, O, D), NEW gap \in Gaps
  PROVE  /\ WriterAt(Unsupported(W, gap), O, D)
         /\ Unsupported(W, gap).row = W.row /\ Unsupported(W, gap).next = W.next
  <1> DEFINE G == Gap(W, gap)
             U == Unsupported(W, gap)
  <1>1. G \in Writers /\ WriterAt(G, O, D) /\ G.row = W.row /\ G.next = W.next
    BY DEF WriterAt, Gap, Writers
  <1>2. U = [G EXCEPT !.unsupported = G.unsupported + 1]
    BY DEF Unsupported
  <1> HIDE DEF G, U
  <1>3. U \in Writers
    <2>1. G.unsupported + 1 \in Nat
      BY <1>1 DEF Writers
    <2> QED
      BY <1>1, <1>2, <2>1 DEF Writers
  <1>4. /\ U.events = G.events /\ U.next = G.next /\ U.page = G.page /\ U.maxPages = G.maxPages
        /\ U.sources = G.sources /\ U.stopped = G.stopped /\ U.row = G.row
    BY <1>1, <1>2 DEF Writers
  <1>5. WriterAt(U, O, D)
    BY <1>1, <1>3, <1>4 DEF WriterAt
  <1> QED
    BY <1>1, <1>4, <1>5 DEF U

LEMMA VisitedAt ==
  ASSUME NEW W, NEW O, NEW D \in Seq(Items), WriterAt(W, O, D), NEW k \in Lists
  PROVE  /\ WriterAt([W EXCEPT !.visited[k] = @ + 1], O, D)
         /\ [W EXCEPT !.visited[k] = @ + 1].row = W.row
         /\ [W EXCEPT !.visited[k] = @ + 1].next = W.next
  <1> DEFINE visited == [W.visited EXCEPT ![k] = @ + 1]
             V == [W EXCEPT !.visited[k] = @ + 1]
  <1>1. W \in Writers /\ W.visited \in [Lists -> Nat]
    BY DEF WriterAt, Writers
  <1>2. visited \in [Lists -> Nat]
    BY <1>1
  <1>3. V = [W EXCEPT !.visited = visited]
    OBVIOUS
  <1> HIDE DEF visited, V
  <1>4. V \in Writers
    BY <1>1, <1>2, <1>3 DEF Writers
  <1>5. /\ V.events = W.events /\ V.next = W.next /\ V.page = W.page /\ V.maxPages = W.maxPages
        /\ V.sources = W.sources /\ V.stopped = W.stopped /\ V.row = W.row
    BY <1>1, <1>3 DEF Writers
  <1>6. WriterAt(V, O, D)
    BY <1>4, <1>5 DEF WriterAt
  <1> QED
    BY <1>5, <1>6 DEF V

LEMMA PushTyped ==
  ASSUME NEW W, NEW O, NEW D \in Seq(Items), WriterAt(W, O, D), W.row \in Rows,
         Len(W.page[W.row.list]) < PAGE_ROWS
  PROVE  WriterTyped(Push(W), O, D)
  <1> DEFINE page == [W.page EXCEPT ![W.row.list] = Append(@, W.row)]
             P == Push(W)
  <1>1. W.row.list \in Lists /\ W.page \in Pages
    BY DEF WriterAt, Writers, Rows
  <1>2. page \in Pages /\ \A k \in Lists : Len(page[k]) <= PAGE_ROWS
    <2>1. W.page[W.row.list] \in Seq(Rows)
      BY <1>1 DEF Pages
    <2>2. /\ Append(W.page[W.row.list], W.row) \in Seq(Rows)
          /\ Len(Append(W.page[W.row.list], W.row)) = Len(W.page[W.row.list]) + 1
      BY <2>1
    <2>3. page \in Pages
      BY <1>1, <2>2 DEF Pages
    <2>4. Len(W.page[W.row.list]) + 1 <= PAGE_ROWS
      BY <2>1, StreamAssumption DEF StreamAssumption
    <2>5. ASSUME NEW k \in Lists PROVE Len(page[k]) <= PAGE_ROWS
      <3>1. page[k] = IF k = W.row.list THEN Append(W.page[k], W.row) ELSE W.page[k]
        BY <1>1 DEF Pages
      <3> QED
        BY <2>2, <2>4, <3>1 DEF WriterAt
    <2> QED
      BY <2>3, <2>5
  <1>3. P = [W EXCEPT !.pc = "walk", !.next = W.next + 1, !.row = NONE, !.page = page]
    BY DEF Push
  <1> HIDE DEF page
  <1>4. /\ P \in Writers /\ P.pc = "walk" /\ P.next = W.next + 1 /\ P.row = NONE /\ P.page = page
        /\ P.events = W.events /\ P.maxPages = W.maxPages /\ P.sources = W.sources
        /\ P.stopped = W.stopped
    <2> HIDE DEF P
    <2>1. W \in Writers /\ W.next + 1 \in Nat
      BY DEF WriterAt
    <2>2. P \in Writers
      BY <1>2, <1>3, <2>1 DEF Writers, Walking
    <2> QED
      BY <1>3, <2>1, <2>2 DEF Writers
  <1> HIDE DEF P
  <1>5. Len(D) \in Nat /\ W.next \in 1..Len(D)
    BY DEF WriterAt
  <1>6. P.next \in 1..(Len(D) + 1)
    BY <1>4, <1>5
  <1>7. WriterTyped(P, O, D)
    BY <1>2, <1>4, <1>6 DEF WriterTyped, WriterAt
  <1> QED
    BY <1>7 DEF P

LEMMA PlaceTyped ==
  ASSUME NEW d \in Drivers, out[d] \in Outputs, NEW W, WriterAt(W, out[d], Domain[d]),
         W.row = NONE, W.next = w[d].next, NEW loc \in Inputs \union {NONE}
  PROVE  WriterTyped(Place(d, W, loc), out[d], Domain[d])
  <1> DEFINE D == Domain[d]
             k == Item(d).list
             row == [ord |-> Len(out[d].rows[k]) + Len(W.page[k]), pos |-> W.next, list |-> k,
                     loc |-> loc]
             P == [W EXCEPT !.row = row]
             F == [P EXCEPT !.pc = "flush"]
  <1>1. D \in Seq(Items) /\ PAGE_ROWS \in Nat \ {0} /\ NONE \notin Rows
    BY StreamAssumption DEF StreamAssumption
  <1>2. W.next \in 1..Len(D) /\ Item(d) = D[W.next] /\ D[W.next] \in Items
    BY <1>1 DEF WriterAt, Item
  <1>3. k \in Lists /\ k = D[W.next].list
    BY <1>2 DEF Items
  <1>4. W \in Writers /\ W.page[k] \in Seq(Rows) /\ out[d].rows[k] \in Seq(Rows)
    BY <1>3 DEF WriterAt, Writers, Pages, Outputs
  <1>5. row \in Rows
    <2>1. Len(out[d].rows[k]) + Len(W.page[k]) \in Nat
      <3>1. Len(out[d].rows[k]) \in Nat /\ Len(W.page[k]) \in Nat
        BY <1>4
      <3>2. PICK a \in Nat : a = Len(out[d].rows[k])
        BY <3>1
      <3>3. PICK b \in Nat : b = Len(W.page[k])
        BY <3>1
      <3>4. a + b \in Nat
        OBVIOUS
      <3> QED
        BY <3>2, <3>3, <3>4
    <2>2. W.next \in Nat
      BY <1>4 DEF Writers
    <2> QED
      BY <1>3, <2>1, <2>2 DEF Rows
  <1>6. row.list = k
    OBVIOUS
  <1>7. Place(d, W, loc) = IF Len(W.page[k]) < PAGE_ROWS THEN Push(P) ELSE F
    BY DEF Place
  <1> HIDE DEF row
  <1>8. /\ P \in Writers /\ P.row = row /\ P.events = W.events /\ P.next = W.next
        /\ P.page = W.page /\ P.maxPages = W.maxPages /\ P.sources = W.sources
        /\ P.stopped = W.stopped
    BY <1>4, <1>5 DEF Writers
  <1>9. WriterAt(P, out[d], D)
    BY <1>8 DEF WriterAt
  <1> HIDE DEF P
  <1>10. CASE Len(W.page[k]) < PAGE_ROWS
    <2>1. WriterTyped(Push(P), out[d], D)
      BY <1>1, <1>5, <1>6, <1>8, <1>9, <1>10, PushTyped
    <2> QED
      BY <1>7, <1>10, <2>1
  <1>11. CASE ~(Len(W.page[k]) < PAGE_ROWS)
    <2>1. Len(W.page[k]) = PAGE_ROWS
      BY <1>1, <1>3, <1>4, <1>11 DEF WriterAt
    <2>2. /\ F \in Writers /\ F.pc = "flush" /\ F.row = row /\ F.events = W.events
          /\ F.next = W.next /\ F.page = W.page /\ F.maxPages = W.maxPages
          /\ F.sources = W.sources /\ F.stopped = W.stopped
      BY <1>8 DEF Writers, Walking
    <2> HIDE DEF F
    <2>3. Len(D) \in Nat /\ F.next \in 1..(Len(D) + 1) /\ F.next <= Len(D)
      BY <1>1, <1>2, <2>2
    <2>4. row # NONE
      BY <1>1, <1>5
    <2>5. WriterTyped(F, out[d], D)
      BY <1>3, <1>6, <2>1, <2>2, <2>3, <2>4 DEF WriterTyped, WriterAt
    <2> QED
      BY <1>7, <1>11, <2>5
  <1> QED
    BY <1>10, <1>11

(* What is given up ends where the block of the item ends.                 *)
LEMMA BlockEnd ==
  ASSUME NEW d \in Drivers, w[d].next \in 1..Len(Domain[d])
  PROVE  LET m == Max(Observed(d, Item(d).of)) IN
         /\ m \in 1..Len(Domain[d]) /\ w[d].next <= m
         /\ Domain[d][m].of = Item(d).of
  <1> DEFINE D == Domain[d]
             S == Observed(d, Item(d).of)
  <1>1. D \in Seq(Items) /\ Len(D) \in Nat /\ DOMAIN D = 1..Len(D)
    BY StreamAssumption DEF StreamAssumption
  <1>2. S \in SUBSET (1..Len(D)) /\ w[d].next \in S
    BY <1>1 DEF Observed, Item
  <1>3. Max(S) \in S /\ \A y \in S : y <= Max(S)
    BY <1>1, <1>2, Greatest
  <1>4. \A i \in S : D[i].of = Item(d).of
    BY DEF Observed
  <1> QED
    BY <1>2, <1>3, <1>4

LEMMA GiveUpTyped ==
  ASSUME NEW d \in Drivers, NEW W, WriterAt(W, out[d], Domain[d]),
         W.row = NONE, W.next = w[d].next, Observational(d)
  PROVE  WriterTyped(GiveUp(d, W), out[d], Domain[d])
  <1> DEFINE D == Domain[d]
             U == Unsupported(W, Item(d).of)
             V == [U EXCEPT !.visited["ref"] = @ + 1]
             m == Max(Observed(d, Item(d).of))
             G == GiveUp(d, W)
  <1>1. D \in Seq(Items) /\ Len(D) \in Nat
    BY StreamAssumption DEF StreamAssumption
  <1>2. W.next \in 1..Len(D) /\ Item(d) \in Items
    BY <1>1 DEF WriterAt, Item
  <1>3. Item(d).of \in Gaps
    BY <1>2 DEF Items, Gaps
  <1>4. WriterAt(U, out[d], D) /\ U.row = W.row /\ U.next = W.next
    BY <1>1, <1>3, UnsupportedAt
  <1>5. WriterAt(V, out[d], D) /\ V.row = NONE /\ V.next = W.next
    <2>1. "ref" \in Lists
      BY DEF Lists
    <2> HIDE DEF U
    <2> QED
      BY <1>1, <1>4, <2>1, VisitedAt
  <1>6. m \in 1..Len(D)
    BY <1>2, BlockEnd
  <1>7. G = [V EXCEPT !.pc = "walk", !.next = m + 1]
    BY DEF GiveUp
  <1> HIDE DEF V, G, m
  <1>8. V \in Writers /\ m + 1 \in Nat /\ m + 1 \in 1..(Len(D) + 1)
    BY <1>1, <1>5, <1>6 DEF WriterAt
  <1>9. /\ G \in Writers /\ G.pc = "walk" /\ G.next = m + 1 /\ G.row = V.row /\ G.page = V.page
        /\ G.events = V.events /\ G.maxPages = V.maxPages /\ G.sources = V.sources
        /\ G.stopped = V.stopped
    BY <1>7, <1>8 DEF Writers, Walking
  <1>10. WriterTyped(G, out[d], D)
    BY <1>5, <1>8, <1>9 DEF WriterTyped, WriterAt
  <1> QED
    BY <1>10 DEF G

-----------------------------------------------------------------------------
LEMMA TypedKept ==
  ASSUME TypeInv, NEW d \in Drivers, NEW W, NEW O, WriterTyped(W, O, Domain[d]),
         w' = [w EXCEPT ![d] = W],
         out' = [out EXCEPT ![d] = O] \/ (out' = out /\ O = out[d]),
         files' = files, edits' = edits, faults' = faults \/ Fault
  PROVE  TypeInv'
  <1>1. W \in Writers /\ O \in Outputs
    BY DEF WriterTyped
  <1>2. w' \in [Drivers -> Writers] /\ out' \in [Drivers -> Outputs]
    BY <1>1 DEF TypeInv
  <1>3. \A e \in Drivers : w'[e] = (IF e = d THEN W ELSE w[e]) /\ out'[e] = (IF e = d THEN O ELSE out[e])
    BY DEF TypeInv
  <1>4. \A e \in Drivers : WriterTyped(w'[e], out'[e], Domain[e])
    BY <1>3 DEF TypeInv
  <1>5. faults' \in 0..MaxFaults
    BY StreamAssumption DEF StreamAssumption, TypeInv, Fault
  <1> QED
    BY <1>2, <1>4, <1>5 DEF TypeInv

LEMMA EndedTyped ==
  ASSUME NEW d \in Drivers, NEW O \in Outputs
  PROVE  WriterTyped(Ended, O, Domain[d])
  <1>1. Len(Domain[d]) \in Nat /\ PAGE_ROWS \in Nat /\ MAX_TRAVERSAL_WORK \in Nat
    BY StreamAssumption DEF StreamAssumption
  <1>2. NoRows \in Pages /\ \A k \in Lists : Len(NoRows[k]) = 0
    BY DEF NoRows, Pages
  <1>3. /\ Ended.pc = "end" /\ Ended.next = 1 /\ Ended.events = 0 /\ Ended.row = NONE
        /\ Ended.page = NoRows /\ Ended.sources = {}
    BY DEF Ended, NewWriter
  <1>4. Ended \in Writers
    BY <1>2 DEF Ended, NewWriter, Writers, Walking, Stops
  <1> HIDE DEF Ended
  <1> QED
    BY <1>1, <1>2, <1>3, <1>4 DEF WriterTyped

LEMMA OpenTyped ==
  ASSUME TypeInv, NEW d \in Drivers, Open(d)
  PROVE  TypeInv'
  <1> DEFINE W == [[w[d] EXCEPT !.buf = files] EXCEPT !.pc = "opening"]
  <1>1. /\ w[d] \in Writers /\ out[d] \in Outputs /\ w[d].pc = "open"
        /\ WriterTyped(w[d], out[d], Domain[d]) /\ files \in [Sources -> Nat]
    BY DEF TypeInv, Open, Idle
  <1>2. /\ W \in Writers /\ W.pc = "opening" /\ W.next = w[d].next /\ W.row = w[d].row
        /\ W.page = w[d].page /\ W.events = w[d].events /\ W.maxPages = w[d].maxPages
        /\ W.sources = w[d].sources /\ W.stopped = w[d].stopped
    BY <1>1 DEF Writers, Walking
  <1>3. \/ w' = [w EXCEPT ![d] = W] /\ faults' = faults
        \/ w' = [w EXCEPT ![d] = Ended] /\ Fault
    BY DEF Open, Becomes
  <1>4. out' = out /\ files' = files /\ edits' = edits
    BY DEF Open
  <1> HIDE DEF W
  <1>5. WriterTyped(W, out[d], Domain[d])
    BY <1>1, <1>2 DEF WriterTyped
  <1>6. WriterTyped(Ended, out[d], Domain[d])
    BY <1>1, EndedTyped
  <1> QED
    BY <1>3, <1>4, <1>5, <1>6, TypedKept

LEMMA OpenedTyped ==
  ASSUME TypeInv, TotalInv, NEW d \in Drivers, Opened(d)
  PROVE  TypeInv'
  <1> DEFINE n == (MAX_STREAM_BYTES - total[d]) \div MIN_PAGE_BYTES
             W == [w[d] EXCEPT !.pc = "walk", !.maxPages = n]
             O == [out[d] EXCEPT !.dir = TRUE]
  <1>1. /\ w[d] \in Writers /\ out[d] \in Outputs /\ w[d].pc = "opening"
        /\ WriterTyped(w[d], out[d], Domain[d])
    BY DEF TypeInv, Opened, Answered
  <1>2. n \in Nat
    <2>1. MAX_STREAM_BYTES \in Nat /\ total[d] \in Nat /\ total[d] <= MAX_STREAM_BYTES
      BY BudgetAssumption DEF BudgetAssumption, TotalInv, BudgetInv, BudgetTypeOK
    <2>2. MAX_STREAM_BYTES - total[d] \in Nat /\ MIN_PAGE_BYTES \in Nat \ {0}
      BY <2>1, StreamAssumption DEF StreamAssumption
    <2> QED
      BY <2>2
  <1>3. \/ w' = [w EXCEPT ![d] = W] /\ out' = [out EXCEPT ![d] = O] /\ faults' = faults
        \/ w' = [w EXCEPT ![d] = Ended] /\ out' = out /\ (faults' = faults \/ Fault)
    BY <1>1 DEF Opened, Becomes, TypeInv
  <1>4. files' = files /\ edits' = edits
    BY DEF Opened
  <1> HIDE DEF n
  <1>5. /\ W \in Writers /\ W.pc = "walk" /\ W.next = w[d].next /\ W.row = w[d].row
        /\ W.page = w[d].page /\ W.events = w[d].events /\ W.maxPages = n
        /\ W.sources = w[d].sources /\ W.stopped = w[d].stopped
    BY <1>1, <1>2 DEF Writers, Walking
  <1>6. O \in Outputs /\ O.pages = out[d].pages
    BY <1>1 DEF Outputs
  <1> HIDE DEF W, O
  <1>7. WriterTyped(W, O, Domain[d])
    BY <1>1, <1>2, <1>5, <1>6 DEF WriterTyped
  <1>8. WriterTyped(Ended, out[d], Domain[d])
    BY <1>1, EndedTyped
  <1> QED
    BY <1>3, <1>4, <1>7, <1>8, TypedKept

LEMMA WalkAt ==
  ASSUME TypeInv, NEW d \in Drivers, w[d].pc = "walk", AtItem(d)
  PROVE  /\ w[d] \in Writers /\ out[d] \in Outputs /\ WriterAt(w[d], out[d], Domain[d])
         /\ w[d].row = NONE /\ WriterTyped(w[d], out[d], Domain[d]) /\ ~w[d].stopped
         /\ Item(d) \in Items /\ Item(d) = Domain[d][w[d].next] /\ w[d].next <= Len(Domain[d])
  <1>1. Domain[d] \in Seq(Items) /\ Len(Domain[d]) \in Nat
    BY StreamAssumption DEF StreamAssumption
  <1>2. WriterTyped(w[d], out[d], Domain[d]) /\ w[d].next <= Len(Domain[d]) /\ ~w[d].stopped
    BY DEF TypeInv, AtItem
  <1>3. WriterAt(w[d], out[d], Domain[d]) /\ w[d].row = NONE
    BY <1>1, <1>2, AtItemTyped DEF WriterTyped
  <1> QED
    BY <1>1, <1>2, <1>3 DEF WriterAt, Item

LEMMA WorkLimitTyped ==
  ASSUME TypeInv, NEW d \in Drivers, WorkLimit(d)
  PROVE  TypeInv'
  <1> DEFINE W == Interrupted(w[d], "WorkLimit", "TraversalWorkLimit")
  <1>1. Domain[d] \in Seq(Items)
    BY StreamAssumption DEF StreamAssumption
  <1>2. /\ w[d].pc = "walk" /\ AtItem(d)
        /\ w' = [w EXCEPT ![d] = IF Observational(d) THEN GiveUp(d, W) ELSE W]
        /\ out' = out /\ files' = files /\ edits' = edits /\ faults' = faults
    BY DEF WorkLimit, Idle, Becomes
  <1>3. /\ WriterAt(w[d], out[d], Domain[d]) /\ w[d].row = NONE /\ w[d] \in Writers
        /\ WriterTyped(w[d], out[d], Domain[d])
    BY <1>2, WalkAt
  <1>4. WriterAt(W, out[d], Domain[d]) /\ W.row = NONE /\ W.next = w[d].next
    <2>1. "WorkLimit" \in Stops /\ "TraversalWorkLimit" \in Gaps
      BY DEF Stops, Gaps
    <2> QED
      BY <1>1, <1>3, <2>1, InterruptedAt
  <1>5. W.pc = "walk" /\ W.stopped
    BY <1>2, <1>3 DEF Interrupted, Gap, Writers
  <1> HIDE DEF W
  <1>6. WriterTyped(W, out[d], Domain[d])
    BY <1>3, <1>4, <1>5 DEF WriterTyped, WriterAt
  <1>7. Observational(d) => WriterTyped(GiveUp(d, W), out[d], Domain[d])
    BY <1>4, GiveUpTyped
  <1> QED
    BY <1>2, <1>6, <1>7, TypedKept

LEMMA ObserveTyped ==
  ASSUME TypeInv, NEW d \in Drivers, Observe(d)
  PROVE  TypeInv'
  <1> DEFINE W == [w[d] EXCEPT !.pc = "observing", !.events = @ + 1]
  <1>1. /\ w[d].pc = "walk" /\ AtItem(d) /\ Observational(d) /\ w[d].events < MAX_TRAVERSAL_WORK
        /\ w' = [w EXCEPT ![d] = W]
        /\ out' = out /\ files' = files /\ edits' = edits /\ faults' = faults
    BY DEF Observe, Idle, Becomes
  <1>2. /\ WriterTyped(w[d], out[d], Domain[d]) /\ w[d].row = NONE /\ w[d] \in Writers
        /\ ~w[d].stopped /\ Item(d) = Domain[d][w[d].next] /\ w[d].next <= Len(Domain[d])
    BY <1>1, WalkAt
  <1>3. w[d].events + 1 \in Nat /\ w[d].events + 1 <= MAX_TRAVERSAL_WORK
    BY <1>1, <1>2, StreamAssumption DEF StreamAssumption, Writers
  <1>4. /\ W \in Writers /\ W.pc = "observing" /\ W.next = w[d].next /\ W.row = w[d].row
        /\ W.page = w[d].page /\ W.events = w[d].events + 1 /\ W.maxPages = w[d].maxPages
        /\ W.sources = w[d].sources /\ W.stopped = w[d].stopped
    BY <1>2, <1>3 DEF Writers, Walking
  <1> HIDE DEF W
  <1>5. WriterTyped(W, out[d], Domain[d])
    BY <1>1, <1>2, <1>3, <1>4 DEF WriterTyped, Observational
  <1> QED
    BY <1>1, <1>5, TypedKept

LEMMA RowAdmittedTyped ==
  ASSUME TypeInv, NEW d \in Drivers, RowAdmitted(d)
  PROVE  TypeInv'
  <1> DEFINE D == Domain[d]
             I == Interrupted(w[d], "OutputLimit", "OutputLimit")
             V == [w[d] EXCEPT !.visited["ref"] = @ + 1]
  <1>1. D \in Seq(Items) /\ w[d].pc = "observing"
    BY StreamAssumption DEF StreamAssumption, RowAdmitted, Answered
  <1>2. WriterTyped(w[d], out[d], D) /\ out[d] \in Outputs
    BY DEF TypeInv
  <1>3. w[d].row = NONE /\ w[d].next <= Len(D) /\ D[w[d].next].of # "hir"
    BY <1>1, <1>2 DEF WriterTyped
  <1>4. WriterAt(w[d], out[d], D)
    BY <1>1, <1>2, <1>3, AtItemTyped
  <1>5. Observational(d)
    BY <1>3 DEF Observational, Item
  <1>6. WriterAt(I, out[d], D) /\ I.row = NONE /\ I.next = w[d].next
    <2>1. "OutputLimit" \in Stops /\ "OutputLimit" \in Gaps
      BY DEF Stops, Gaps
    <2> QED
      BY <1>1, <1>3, <1>4, <2>1, InterruptedAt
  <1>7. WriterAt(V, out[d], D) /\ V.row = NONE /\ V.next = w[d].next
    <2>1. "ref" \in Lists
      BY DEF Lists
    <2> QED
      BY <1>1, <1>3, <1>4, <2>1, VisitedAt
  <1>8. /\ \/ w' = [w EXCEPT ![d] = GiveUp(d, I)] \/ w' = [w EXCEPT ![d] = GiveUp(d, w[d])]
           \/ w' = [w EXCEPT ![d] = Place(d, V, NONE)]
        /\ out' = out /\ files' = files /\ edits' = edits /\ faults' = faults
    BY DEF RowAdmitted, Becomes
  <1> HIDE DEF I, V
  <1>9. WriterTyped(GiveUp(d, I), out[d], D) /\ WriterTyped(GiveUp(d, w[d]), out[d], D)
    BY <1>3, <1>4, <1>5, <1>6, GiveUpTyped
  <1>10. WriterTyped(Place(d, V, NONE), out[d], D)
    BY <1>2, <1>7, PlaceTyped
  <1> QED
    BY <1>8, <1>9, <1>10, TypedKept

LEMMA VisitTyped ==
  ASSUME TypeInv, NEW d \in Drivers, Visit(d)
  PROVE  TypeInv'
  <1> DEFINE D == Domain[d]
             s == Item(d).src
             E == [w[d] EXCEPT !.events = @ + 1]
             W == [w[d] EXCEPT !.events = @ + 1, !.visited[Item(d).list] = @ + 1]
             C == [W EXCEPT !.pc = "charging"]
             U == Unsupported(W, "Unsupported")
             N == [U EXCEPT !.next = @ + 1]
             A == Unsupported(W, "SourceUnavailable")
  <1>1. D \in Seq(Items) /\ Len(D) \in Nat /\ NONE \notin Sources \union Huge
    BY StreamAssumption DEF StreamAssumption
  <1>2. /\ w[d].pc = "walk" /\ AtItem(d) /\ ~Observational(d) /\ w[d].events < MAX_TRAVERSAL_WORK
        /\ \/ w' = [w EXCEPT ![d] = C] /\ s # NONE
           \/ w' = [w EXCEPT ![d] = N]
           \/ w' = [w EXCEPT ![d] = Place(d, A, NONE)]
           \/ w' = [w EXCEPT ![d] = Place(d, W, Input(d, s))] /\ s # NONE /\ s \in W.sources
        /\ out' = out /\ files' = files /\ edits' = edits /\ faults' = faults
    BY DEF Visit, Idle, Becomes
  <1>3. /\ w[d] \in Writers /\ out[d] \in Outputs /\ WriterAt(w[d], out[d], D)
        /\ w[d].row = NONE /\ ~w[d].stopped
        /\ Item(d) \in Items /\ Item(d) = D[w[d].next] /\ w[d].next <= Len(D)
    BY <1>2, WalkAt
  <1>4. Item(d).list \in Lists /\ s \in Sources \union Huge \union {NONE} /\ Item(d).of = "hir"
    BY <1>2, <1>3 DEF Items, Observational
  <1>5. /\ WriterAt(E, out[d], D) /\ E \in Writers /\ E.row = NONE /\ E.next = w[d].next
        /\ E.pc = "walk" /\ E.stopped = w[d].stopped /\ E.sources = w[d].sources
        /\ E.page = w[d].page
    <2>a. w[d].events \in Nat
      BY <1>3 DEF Writers
    <2>b. MAX_TRAVERSAL_WORK \in Nat
      BY StreamAssumption DEF StreamAssumption
    <2>1. w[d].events + 1 \in Nat /\ w[d].events + 1 <= MAX_TRAVERSAL_WORK
      BY <1>2, <2>a, <2>b
    <2>2. /\ E \in Writers /\ E.events = w[d].events + 1 /\ E.next = w[d].next
          /\ E.page = w[d].page /\ E.maxPages = w[d].maxPages /\ E.sources = w[d].sources
          /\ E.stopped = w[d].stopped /\ E.row = w[d].row /\ E.pc = w[d].pc
      BY <1>3, <2>1 DEF Writers
    <2> HIDE DEF E
    <2> QED
      BY <1>2, <1>3, <2>1, <2>2 DEF WriterAt
  <1>6. W = [E EXCEPT !.visited[Item(d).list] = @ + 1]
    BY <1>3 DEF Writers
  <1>7. WriterAt(W, out[d], D) /\ W.row = NONE /\ W.next = w[d].next
    <2> HIDE DEF E, W
    <2> QED
      BY <1>1, <1>4, <1>5, <1>6, VisitedAt
  <1>8. W \in Writers /\ W.stopped = w[d].stopped /\ W.sources = w[d].sources /\ W.pc = "walk"
    <2>1. W \in Writers
      BY <1>7 DEF WriterAt
    <2> QED
      BY <1>2, <1>3, <2>1 DEF Writers
  <1> HIDE DEF E, W
  <1>9. s # NONE => WriterTyped(C, out[d], D)
    <2>1. /\ C \in Writers /\ C.pc = "charging" /\ C.next = W.next /\ C.row = W.row
          /\ C.page = W.page /\ C.events = W.events /\ C.maxPages = W.maxPages
          /\ C.sources = W.sources /\ C.stopped = W.stopped
      BY <1>8 DEF Writers, Walking
    <2> HIDE DEF C
    <2> QED
      BY <1>1, <1>3, <1>4, <1>7, <1>8, <2>1 DEF WriterTyped, WriterAt
  <1>10. WriterAt(U, out[d], D) /\ U.row = NONE /\ U.next = w[d].next
    <2>1. "Unsupported" \in Gaps
      BY DEF Gaps
    <2> QED
      BY <1>1, <1>7, <2>1, UnsupportedAt
  <1>11. WriterAt(A, out[d], D) /\ A.row = NONE /\ A.next = w[d].next
    <2>1. "SourceUnavailable" \in Gaps
      BY DEF Gaps
    <2> QED
      BY <1>1, <1>7, <2>1, UnsupportedAt
  <1>12. U.pc = "walk"
    BY <1>8 DEF Unsupported, Gap, Writers
  <1> HIDE DEF U, A
  <1>13. WriterTyped(N, out[d], D)
    <2>1. U \in Writers /\ U.next + 1 \in Nat /\ U.next + 1 \in 1..(Len(D) + 1)
      BY <1>1, <1>10 DEF WriterAt
    <2>2. /\ N \in Writers /\ N.pc = "walk" /\ N.next = U.next + 1 /\ N.row = U.row
          /\ N.page = U.page /\ N.events = U.events /\ N.maxPages = U.maxPages
          /\ N.sources = U.sources /\ N.stopped = U.stopped
      BY <1>12, <2>1 DEF Writers
    <2> HIDE DEF N
    <2> QED
      BY <1>10, <2>1, <2>2 DEF WriterTyped, WriterAt
  <1>14. WriterTyped(Place(d, A, NONE), out[d], D)
    BY <1>3, <1>11, PlaceTyped
  <1>15. s # NONE /\ s \in W.sources => WriterTyped(Place(d, W, Input(d, s)), out[d], D)
    <2> HAVE s # NONE /\ s \in W.sources
    <2>1. s \in Sources
      BY <1>3, <1>4, <1>8 DEF WriterAt
    <2>2. Input(d, s) \in Inputs
      BY <1>3, <2>1 DEF Input, Inputs, Writers
    <2> QED
      BY <1>3, <1>7, <2>2, PlaceTyped
  <1> HIDE DEF C, N
  <1>16. CASE w' = [w EXCEPT ![d] = C] /\ s # NONE
    BY <1>2, <1>9, <1>16, TypedKept
  <1>17. CASE w' = [w EXCEPT ![d] = N]
    BY <1>2, <1>13, <1>17, TypedKept
  <1>18. CASE w' = [w EXCEPT ![d] = Place(d, A, NONE)]
    BY <1>2, <1>14, <1>18, TypedKept
  <1>19. CASE w' = [w EXCEPT ![d] = Place(d, W, Input(d, s))] /\ s # NONE /\ s \in W.sources
    BY <1>2, <1>15, <1>19, TypedKept
  <1> QED
    BY <1>2, <1>16, <1>17, <1>18, <1>19

LEMMA LocatedTyped ==
  ASSUME TypeInv, NEW d \in Drivers, Located(d)
  PROVE  TypeInv'
  <1> DEFINE D == Domain[d]
             s == Item(d).src
             W == [w[d] EXCEPT !.sources = @ \union {s}]
             R == Interrupted(w[d], "OutputLimit", "OutputLimit")
             A == Unsupported(R, "OutputLimit")
             H == Interrupted(W, "SourceWorkLimit", "SourceWorkLimit")
             B == Unsupported(H, "SourceUnavailable")
  <1>1. D \in Seq(Items) /\ w[d].pc = "charging"
    BY StreamAssumption DEF StreamAssumption, Located, Answered
  <1>2. /\ \/ w' = [w EXCEPT ![d] = Place(d, A, NONE)]
           \/ w' = [w EXCEPT ![d] = Place(d, B, NONE)] /\ s \in Huge
           \/ w' = [w EXCEPT ![d] = Place(d, W, Input(d, s))] /\ s \notin Huge
        /\ out' = out /\ files' = files /\ edits' = edits /\ faults' = faults
    BY DEF Located, Becomes
  <1>3. WriterTyped(w[d], out[d], D) /\ out[d] \in Outputs /\ w[d] \in Writers
    BY DEF TypeInv
  <1>4. /\ w[d].row = NONE /\ w[d].next <= Len(D) /\ s \in Sources \union Huge
        /\ ~w[d].stopped
    BY <1>1, <1>3 DEF WriterTyped, Item
  <1>5. WriterAt(w[d], out[d], D)
    BY <1>1, <1>3, <1>4, AtItemTyped
  <1>6. /\ "OutputLimit" \in Stops /\ "OutputLimit" \in Gaps /\ "SourceWorkLimit" \in Stops
        /\ "SourceWorkLimit" \in Gaps /\ "SourceUnavailable" \in Gaps
    BY DEF Stops, Gaps
  <1>7. /\ W \in Writers /\ W.pc = w[d].pc /\ W.next = w[d].next /\ W.row = NONE
        /\ W.page = w[d].page /\ W.events = w[d].events /\ W.maxPages = w[d].maxPages
        /\ W.sources = w[d].sources \union {s} /\ W.stopped = w[d].stopped
        /\ W.buf = w[d].buf
    BY <1>3, <1>4 DEF Writers
  <1>8. R.row = NONE /\ R.next = w[d].next /\ WriterAt(R, out[d], D)
    <2>1. ASSUME NEW stop \in Stops, NEW gap \in Gaps
          PROVE  /\ WriterAt(Interrupted(w[d], stop, gap), out[d], D)
                 /\ Interrupted(w[d], stop, gap).row = w[d].row
                 /\ Interrupted(w[d], stop, gap).next = w[d].next
      BY <1>1, <1>5, InterruptedAt
    <2> QED
      BY <1>4, <1>6, <2>1
  <1> HIDE DEF W, R
  <1>9. WriterTyped(Place(d, A, NONE), out[d], D)
    <2>1. A.row = NONE /\ A.next = w[d].next /\ WriterAt(A, out[d], D)
      BY <1>1, <1>6, <1>8, UnsupportedAt
    <2> QED
      BY <1>3, <2>1, PlaceTyped
  <1>10. s \in Huge => WriterTyped(Place(d, B, NONE), out[d], D)
    <2>1. /\ H \in Writers /\ H.next = W.next /\ H.row = W.row /\ H.page = W.page
          /\ H.events = W.events /\ H.maxPages = W.maxPages /\ H.stopped
      BY <1>6, <1>7 DEF Interrupted, Gap, Writers
    <2> HIDE DEF H
    <2>2. WriterAt(H, out[d], D)
      BY <1>5, <1>7, <2>1 DEF WriterAt
    <2>3. B.row = NONE /\ B.next = w[d].next /\ WriterAt(B, out[d], D)
      BY <1>1, <1>6, <1>7, <2>1, <2>2, UnsupportedAt
    <2> QED
      BY <1>3, <2>3, PlaceTyped
  <1>11. s \notin Huge => WriterTyped(Place(d, W, Input(d, s)), out[d], D)
    <2> HAVE s \notin Huge
    <2>1. WriterAt(W, out[d], D)
      BY <1>4, <1>5, <1>7 DEF WriterAt
    <2>2. Input(d, s) \in Inputs
      BY <1>3, <1>4 DEF Input, Inputs, Writers
    <2> QED
      BY <1>3, <1>7, <2>1, <2>2, PlaceTyped
  <1>12. CASE w' = [w EXCEPT ![d] = Place(d, A, NONE)]
    BY <1>2, <1>9, <1>12, TypedKept
  <1>13. CASE w' = [w EXCEPT ![d] = Place(d, B, NONE)] /\ s \in Huge
    BY <1>2, <1>10, <1>13, TypedKept
  <1>14. CASE w' = [w EXCEPT ![d] = Place(d, W, Input(d, s))] /\ s \notin Huge
    BY <1>2, <1>11, <1>14, TypedKept
  <1> QED
    BY <1>2, <1>12, <1>13, <1>14

(* A driver that flushes is over with the walk, or has a row pending.      *)
AboutToFlush(W, O, D) ==
  /\ W \in Writers /\ O \in Outputs
  /\ W.events <= MAX_TRAVERSAL_WORK
  /\ W.next \in 1..(Len(D) + 1)
  /\ \A k \in Lists : Len(W.page[k]) <= PAGE_ROWS
  /\ O.pages <= W.maxPages
  /\ W.row # NONE => W.next <= Len(D)
  /\ W.sources \intersect Huge # {} => W.stopped

LEMMA FlushTypes ==
  ASSUME NEW W, NEW O, NEW D, WriterTyped(W, O, D), W.pc \in {"walk", "flush", "flushing"}
  PROVE  AboutToFlush(W, O, D)
  BY DEF WriterTyped, AboutToFlush

LEMMA InterruptedFlush ==
  ASSUME NEW W, NEW O, NEW D, AboutToFlush(W, O, D), NEW stop \in Stops, NEW gap \in Gaps
  PROVE  AboutToFlush(Interrupted(W, stop, gap), O, D) /\ Interrupted(W, stop, gap).row = W.row
  BY DEF AboutToFlush, Interrupted, Gap, Writers

LEMMA AfterFlushTyped ==
  ASSUME NEW W, NEW O, NEW D \in Seq(Items), AboutToFlush(W, O, D), NEW ok \in BOOLEAN
  PROVE  WriterTyped(AfterFlush(W, ok), O, D)
  <1> DEFINE E == [W EXCEPT !.page = NoRows]
             X == [W EXCEPT !.pc = "index", !.page = NoRows]
             L == [W EXCEPT !.pc = "walk", !.next = @ + 1, !.row = NONE]
  <1>1. /\ W \in Writers /\ O \in Outputs /\ Len(D) \in Nat /\ PAGE_ROWS \in Nat \ {0}
        /\ W.row \in Rows \union {NONE}
    BY StreamAssumption DEF StreamAssumption, AboutToFlush, Writers
  <1>2. NoRows \in Pages /\ \A k \in Lists : Len(NoRows[k]) = 0
    BY DEF NoRows, Pages
  <1>3. AfterFlush(W, ok) = IF W.row = NONE THEN X ELSE IF ok THEN Push(E) ELSE L
    BY DEF AfterFlush
  <1>4. W.row = NONE => WriterTyped(X, O, D)
    <2>1. /\ X \in Writers /\ X.pc = "index" /\ X.next = W.next /\ X.row = W.row
          /\ X.page = NoRows /\ X.events = W.events /\ X.maxPages = W.maxPages
          /\ X.sources = W.sources /\ X.stopped = W.stopped
      BY <1>1, <1>2 DEF Writers, Walking
    <2> HIDE DEF X
    <2> QED
      BY <1>1, <1>2, <2>1 DEF WriterTyped, AboutToFlush
  <1>5. W.row # NONE => WriterTyped(Push(E), O, D)
    <2> HAVE W.row # NONE
    <2>1. /\ E \in Writers /\ E.next = W.next /\ E.row = W.row
          /\ E.page = NoRows /\ E.events = W.events /\ E.maxPages = W.maxPages
          /\ E.sources = W.sources /\ E.stopped = W.stopped
      BY <1>1, <1>2 DEF Writers
    <2> HIDE DEF E
    <2>2. W.row \in Rows /\ W.row.list \in Lists /\ W.next \in 1..Len(D)
      BY <1>1 DEF Rows, AboutToFlush
    <2>3. WriterAt(E, O, D)
      BY <1>1, <1>2, <2>1, <2>2 DEF WriterAt, AboutToFlush
    <2>4. Len(E.page[E.row.list]) < PAGE_ROWS
      BY <1>1, <1>2, <2>1, <2>2
    <2> QED
      BY <2>1, <2>2, <2>3, <2>4, PushTyped
  <1>6. W.row # NONE => WriterTyped(L, O, D)
    <2> HAVE W.row # NONE
    <2>1. W.next + 1 \in Nat /\ W.next + 1 \in 1..(Len(D) + 1)
      BY <1>1 DEF AboutToFlush
    <2>2. /\ L \in Writers /\ L.pc = "walk" /\ L.next = W.next + 1 /\ L.row = NONE
          /\ L.page = W.page /\ L.events = W.events /\ L.maxPages = W.maxPages
          /\ L.sources = W.sources /\ L.stopped = W.stopped
      BY <1>1, <2>1 DEF Writers, Walking
    <2> HIDE DEF L
    <2> QED
      BY <1>1, <2>1, <2>2 DEF WriterTyped, AboutToFlush
  <1> QED
    BY <1>3, <1>4, <1>5, <1>6

LEMMA FlushTyped ==
  ASSUME TypeInv, NEW d \in Drivers, Flush(d)
  PROVE  TypeInv'
  <1> DEFINE W == w[d]
             D == Domain[d]
             I == Interrupted(W, "OutputLimit", "OutputLimit")
             F == [w[d] EXCEPT !.pc = "flushing"]
  <1>1. D \in Seq(Items) /\ PAGE_ROWS \in Nat \ {0}
    BY StreamAssumption DEF StreamAssumption
  <1>2. /\ W \in Writers /\ WriterTyped(W, out[d], D) /\ W.pc \in {"flush", "walk"}
        /\ out[d] \in Outputs
    BY DEF TypeInv, Flush, Idle
  <1>3. /\ \/ w' = [w EXCEPT ![d] = AfterFlush(W, TRUE)]
           \/ w' = [w EXCEPT ![d] = AfterFlush(I, FALSE)]
           \/ w' = [w EXCEPT ![d] = F] /\ ~(out[d].pages >= W.maxPages)
        /\ out' = out /\ files' = files /\ edits' = edits /\ faults' = faults
    BY DEF Flush, Becomes, Goto
  <1>4. AboutToFlush(W, out[d], D)
    BY <1>2, FlushTypes
  <1>5. WriterTyped(AfterFlush(W, TRUE), out[d], D)
    BY <1>1, <1>4, AfterFlushTyped
  <1>6. AboutToFlush(I, out[d], D)
    <2>1. "OutputLimit" \in Stops /\ "OutputLimit" \in Gaps
      BY DEF Stops, Gaps
    <2> QED
      BY <1>4, <2>1, InterruptedFlush
  <1> HIDE DEF I
  <1>7. WriterTyped(AfterFlush(I, FALSE), out[d], D)
    BY <1>1, <1>6, AfterFlushTyped
  <1>8. ~(out[d].pages >= W.maxPages) => WriterTyped(F, out[d], D)
    <2>1. /\ F \in Writers /\ F.pc = "flushing" /\ F.next = W.next /\ F.row = W.row
          /\ F.page = W.page /\ F.events = W.events /\ F.maxPages = W.maxPages
          /\ F.sources = W.sources /\ F.stopped = W.stopped
      BY <1>2 DEF Writers, Walking
    <2>2. out[d].pages \in Nat /\ W.maxPages \in Nat
      BY <1>2 DEF Writers, Outputs
    <2> HIDE DEF F
    <2> QED
      BY <1>2, <2>1, <2>2 DEF WriterTyped
  <1> HIDE DEF F, W
  <1>9. CASE w' = [w EXCEPT ![d] = AfterFlush(W, TRUE)]
    BY <1>3, <1>5, <1>9, TypedKept
  <1>10. CASE w' = [w EXCEPT ![d] = AfterFlush(I, FALSE)]
    BY <1>3, <1>7, <1>10, TypedKept
  <1>11. CASE w' = [w EXCEPT ![d] = F] /\ ~(out[d].pages >= W.maxPages)
    BY <1>3, <1>8, <1>11, TypedKept
  <1> QED
    BY <1>3, <1>9, <1>10, <1>11

LEMMA WithPageTyped ==
  ASSUME NEW O \in Outputs, NEW page \in Pages
  PROVE  /\ WithPage(O, page) \in Outputs /\ WithPage(O, page).pages = O.pages + 1
         /\ WithPage(O, page).rows = [k \in Lists |-> O.rows[k] \o page[k]]
         /\ WithPage(O, page).inputs = O.inputs \o Places(page)
         /\ WithPage(O, page).dir = O.dir /\ WithPage(O, page).index = O.index
         /\ Places(page) \in Seq(Inputs \union {NONE})
         /\ \A i \in DOMAIN Places(page) : \E k \in Lists : \E j \in DOMAIN page[k] :
              Places(page)[i] = page[k][j].loc
  <1> DEFINE rows == [k \in Lists |-> O.rows[k] \o page[k]]
             both == page["def"] \o page["ref"]
             X == WithPage(O, page)
  <1>1. page["def"] \in Seq(Rows) /\ page["ref"] \in Seq(Rows)
    BY DEF Pages, Lists
  <1>2. /\ both \in Seq(Rows)
        /\ \A i \in DOMAIN both : (\E j \in DOMAIN page["def"] : both[i] = page["def"][j])
                               \/ (\E j \in DOMAIN page["ref"] : both[i] = page["ref"][j])
    <2>1. /\ both \in Seq(Rows) /\ Len(both) = Len(page["def"]) + Len(page["ref"])
          /\ \A i \in 1..(Len(page["def"]) + Len(page["ref"])) :
               both[i] = IF i <= Len(page["def"]) THEN page["def"][i]
                                                  ELSE page["ref"][i - Len(page["def"])]
      BY <1>1, ConcatProperties
    <2>2. PICK a \in Nat : a = Len(page["def"]) /\ DOMAIN page["def"] = 1..a
      BY <1>1
    <2>3. PICK b \in Nat : b = Len(page["ref"]) /\ DOMAIN page["ref"] = 1..b
      BY <1>1
    <2>4. DOMAIN both = 1..(a + b)
      BY <2>1, <2>2, <2>3
    <2>5. ASSUME NEW i \in 1..(a + b)
          PROVE  \/ \E j \in 1..a : both[i] = page["def"][j]
                 \/ \E j \in 1..b : both[i] = page["ref"][j]
      <3>1. CASE i <= a
        BY <2>1, <2>2, <2>3, <3>1
      <3>2. CASE ~(i <= a)
        <4>1. i - a \in 1..b
          BY <3>2
        <4>2. i \in 1..(Len(page["def"]) + Len(page["ref"])) /\ ~(i <= Len(page["def"]))
          BY <2>2, <2>3, <3>2
        <4>3. both[i] = page["ref"][i - a]
          BY <2>1, <2>2, <4>2
        <4> QED
          BY <4>1, <4>3
      <3> QED
        BY <3>1, <3>2
    <2> QED
      BY <2>1, <2>2, <2>3, <2>4, <2>5
  <1>3. Places(page) = [i \in DOMAIN both |-> both[i].loc]
    BY DEF Places
  <1> HIDE DEF both
  <1>4. Places(page) \in Seq(Inputs \union {NONE})
    <2>a. \A i \in DOMAIN both : both[i] \in Rows
      BY <1>2
    <2>1. \A i \in DOMAIN both : both[i].loc \in Inputs \union {NONE}
      BY <2>a DEF Rows
    <2>2. DOMAIN both = 1..Len(both) /\ Len(both) \in Nat
      BY <1>2
    <2>3. Places(page) \in [1..Len(both) -> Inputs \union {NONE}]
      BY <1>3, <2>1, <2>2
    <2> QED
      BY <2>2, <2>3
  <1>5. rows \in Pages
    <2>1. \A k \in Lists : O.rows[k] \in Seq(Rows) /\ page[k] \in Seq(Rows)
      BY DEF Outputs, Pages
    <2>2. \A k \in Lists : O.rows[k] \o page[k] \in Seq(Rows)
      BY <2>1
    <2> QED
      BY <2>2 DEF Pages
  <1>6. O.inputs \o Places(page) \in Seq(Inputs \union {NONE}) /\ O.pages + 1 \in Nat
    BY <1>4 DEF Outputs
  <1>7. X = [O EXCEPT !.pages = O.pages + 1, !.rows = rows, !.inputs = O.inputs \o Places(page)]
    BY DEF WithPage
  <1> HIDE DEF rows, X
  <1>8. /\ X \in Outputs /\ X.pages = O.pages + 1 /\ X.rows = rows
        /\ X.inputs = O.inputs \o Places(page) /\ X.dir = O.dir /\ X.index = O.index
    BY <1>5, <1>6, <1>7 DEF Outputs
  <1>9. \A i \in DOMAIN Places(page) : \E k \in Lists : \E j \in DOMAIN page[k] :
          Places(page)[i] = page[k][j].loc
    <2>1. "def" \in Lists /\ "ref" \in Lists
      BY DEF Lists
    <2> QED
      BY <1>2, <1>3, <2>1
  <1> QED
    BY <1>4, <1>8, <1>9 DEF X, rows

LEMMA FlushedTyped ==
  ASSUME TypeInv, NEW d \in Drivers, Flushed(d)
  PROVE  TypeInv'
  <1> DEFINE W == w[d]
             D == Domain[d]
             O == WithPage(out[d], W.page)
             I == Interrupted(W, "OutputLimit", "OutputLimit")
             J == Interrupted(W, "PublicationInterrupted", "PublicationInterrupted")
  <1>1. D \in Seq(Items)
    BY StreamAssumption DEF StreamAssumption
  <1>2. /\ W \in Writers /\ WriterTyped(W, out[d], D) /\ W.pc = "flushing"
        /\ out[d] \in Outputs
    BY DEF TypeInv, Flushed, Answered
  <1>3. /\ \/ /\ w' = [w EXCEPT ![d] = AfterFlush(W, TRUE)] /\ faults' = faults
              /\ out' = [out EXCEPT ![d] = O]
           \/ w' = [w EXCEPT ![d] = AfterFlush(J, FALSE)] /\ Fault /\ out' = out
           \/ w' = [w EXCEPT ![d] = AfterFlush(I, FALSE)] /\ faults' = faults /\ out' = out
        /\ files' = files /\ edits' = edits
    BY <1>2 DEF Flushed, Becomes, TypeInv
  <1>4. AboutToFlush(W, out[d], D)
    BY <1>2, FlushTypes
  <1>5. "OutputLimit" \in Stops /\ "OutputLimit" \in Gaps
        /\ "PublicationInterrupted" \in Stops /\ "PublicationInterrupted" \in Gaps
    BY DEF Stops, Gaps
  <1>6. AboutToFlush(I, out[d], D) /\ AboutToFlush(J, out[d], D)
    BY <1>4, <1>5, InterruptedFlush
  <1>7. AboutToFlush(W, O, D)
    <2>1. O \in Outputs /\ O.pages = out[d].pages + 1
      BY <1>2, WithPageTyped DEF Writers
    <2>2. out[d].pages < W.maxPages /\ out[d].pages \in Nat /\ W.maxPages \in Nat
      BY <1>2 DEF WriterTyped, Writers, Outputs
    <2>3. out[d].pages + 1 <= W.maxPages
      BY <2>2
    <2> HIDE DEF O
    <2> QED
      BY <1>4, <2>1, <2>3 DEF AboutToFlush
  <1> HIDE DEF I, J, O
  <1>8. /\ WriterTyped(AfterFlush(W, TRUE), O, D)
        /\ WriterTyped(AfterFlush(I, FALSE), out[d], D)
        /\ WriterTyped(AfterFlush(J, FALSE), out[d], D)
    BY <1>1, <1>6, <1>7, AfterFlushTyped
  <1> QED
    BY <1>3, <1>8, TypedKept

LEMMA WriteIndexTyped ==
  ASSUME TypeInv, NEW d \in Drivers, WriteIndex(d)
  PROVE  TypeInv'
  <1> DEFINE T == Terminal(d)
             O == [out[d] EXCEPT !.index = T]
  <1>1. w[d] \in Writers /\ out[d] \in Outputs
    BY DEF TypeInv
  <1>2. T \in Terminals
    <2>1. /\ w[d].visited \in [Lists -> Nat] /\ w[d].stop \in Stops /\ w[d].gaps \in SUBSET Gaps
          /\ w[d].unsupported \in Nat /\ out[d].pages \in Nat /\ out[d].rows \in Pages
      BY <1>1 DEF Writers, Outputs
    <2> DEFINE emitted == [k \in Lists |-> Len(out[d].rows[k])]
    <2>2. emitted \in [Lists -> Nat]
      BY <2>1 DEF Pages
    <2>3. T = [stop |-> w[d].stop, gaps |-> w[d].gaps, visited |-> w[d].visited,
               emitted |-> emitted, unsupported |-> w[d].unsupported, pages |-> out[d].pages,
               omitted |-> w[d].visited["def"] + w[d].visited["ref"] - emitted["def"] - emitted["ref"]]
      BY DEF Terminal
    <2> HIDE DEF emitted, T
    <2>4. \A v \in [Lists -> Nat] : v["def"] \in Nat /\ v["ref"] \in Nat
      BY DEF Lists
    <2>5. w[d].visited["def"] + w[d].visited["ref"] - emitted["def"] - emitted["ref"] \in Int
      BY <2>1, <2>2, <2>4
    <2> QED
      BY <2>1, <2>2, <2>3, <2>5 DEF Terminals
  <1> HIDE DEF T
  <1>3. O \in Outputs
    BY <1>1, <1>2 DEF Outputs
  <1>4. /\ w' = [w EXCEPT ![d] = Ended] /\ files' = files /\ edits' = edits
        /\ \/ out' = [out EXCEPT ![d] = O] /\ faults' = faults
           \/ out' = out /\ Fault
    BY DEF WriteIndex, Becomes, TypeInv, T
  <1> HIDE DEF O
  <1>5. WriterTyped(Ended, O, Domain[d]) /\ WriterTyped(Ended, out[d], Domain[d])
    BY <1>1, <1>3, EndedTyped
  <1> QED
    BY <1>4, <1>5, TypedKept

LEMMA TypedInitially == Init => TypeInv
  <1> SUFFICES ASSUME Init PROVE TypeInv
    OBVIOUS
  <1> DEFINE O == [dir |-> FALSE, pages |-> 0, rows |-> NoRows, inputs |-> <<>>, index |-> NONE]
  <1>1. NoRows \in Pages /\ \A k \in Lists : Len(NoRows[k]) = 0
    BY DEF NoRows, Pages
  <1>2. NewWriter \in Writers
    BY <1>1 DEF NewWriter, Writers, Walking, Stops
  <1>3. O \in Outputs /\ O.pages = 0
    BY <1>1 DEF Outputs
  <1>4. /\ NewWriter.pc = "open" /\ NewWriter.next = 1 /\ NewWriter.events = 0
        /\ NewWriter.row = NONE /\ NewWriter.page = NoRows /\ NewWriter.sources = {}
        /\ NewWriter.maxPages = 0
    BY DEF NewWriter
  <1>5. MaxEdits \in Nat /\ MaxFaults \in Nat /\ MAX_TRAVERSAL_WORK \in Nat /\ PAGE_ROWS \in Nat
    BY StreamAssumption DEF StreamAssumption
  <1>6. files \in [Sources -> 1..2] /\ edits \in 0..MaxEdits /\ faults \in 0..MaxFaults
    BY <1>5 DEF Init
  <1>7. \A d \in Drivers : w[d] = NewWriter /\ out[d] = O
    BY DEF Init
  <1>8. w \in [Drivers -> Writers] /\ out \in [Drivers -> Outputs]
    BY <1>2, <1>3 DEF Init
  <1> HIDE DEF O
  <1>9. ASSUME NEW d \in Drivers PROVE WriterTyped(NewWriter, O, Domain[d])
    <2>1. Len(Domain[d]) \in Nat
      BY StreamAssumption DEF StreamAssumption
    <2> QED
      BY <1>1, <1>2, <1>3, <1>4, <1>5, <2>1 DEF WriterTyped
  <1> QED
    BY <1>6, <1>7, <1>8, <1>9 DEF TypeInv

LEMMA TypedStep ==
  ASSUME TypeInv, TotalInv, [Next]_vars
  PROVE  TypeInv'
  <1>1. CASE UNCHANGED streamVars
    BY <1>1 DEF streamVars, TypeInv
  <1>2. CASE UNCHANGED vars
    BY <1>1, <1>2 DEF vars
  <1>3. ASSUME NEW d \in Drivers, DriverStep(d)
        PROVE  TypeInv'
    BY <1>1, <1>3, OpenTyped, OpenedTyped, WorkLimitTyped, ObserveTyped, RowAdmittedTyped,
       VisitTyped, LocatedTyped, FlushTyped, FlushedTyped, WriteIndexTyped DEF DriverStep, Call
  <1>4. ASSUME NEW d \in Drivers, CallFails(d) \/ CompilerDies(d)
        PROVE  TypeInv'
    <2>1. UNCHANGED <<files, edits, w, out>> /\ Fault
      BY <1>4 DEF CallFails, CompilerDies
    <2> QED
      BY <2>1, StreamAssumption DEF StreamAssumption, TypeInv, Fault
  <1>5. ASSUME NEW s \in Sources, Edit(s)
        PROVE  TypeInv'
    <2>1. files' \in [Sources -> 1..2]
      BY <1>5 DEF Edit, TypeInv
    <2>2. edits' \in 0..MaxEdits
      BY <1>5, StreamAssumption DEF StreamAssumption, Edit, TypeInv
    <2> QED
      BY <1>5, <2>1, <2>2 DEF Edit, TypeInv
  <1>6. CASE SessionStep
    BY <1>6 DEF SessionStep, BeginFinish, ReadStream, TypeInv
  <1> QED
    BY <1>2, <1>3, <1>4, <1>5, <1>6 DEF Next

LEMMA Typed == Spec => [](TypeInv /\ TotalInv)
  <1>1. Init => TypeInv /\ TotalInv
    <2>1. Init => TotalInv
      BY BudgetInitially, BudgetAssumption DEF Init, InitBudget, TotalInv, BudgetAssumption
    <2> QED
      BY <2>1, TypedInitially
  <1>2. TypeInv /\ TotalInv /\ [Next]_vars => (TypeInv /\ TotalInv)'
    BY TypedStep, TotalStep, StepsOfBudget
  <1> QED
    BY <1>1, <1>2, PTL DEF Spec

(* A driver's place in its walk, its page and its output keep within their *)
(* bounds, for any walks, budgets, edits and faults.                       *)
THEOREM StreamTypeCorrect == Spec => []TypeOK
  <1>1. TypeInv /\ TotalInv => TypeOK
    BY DEF TypeInv, TotalInv, BudgetInv, TypeOK, WriterTyped, Writers, Walking
  <1> QED
    BY <1>1, Typed, PTL

-----------------------------------------------------------------------------
(* The reader.  While it reads, all drivers are gone, so their output does *)
(* not change, and what it has seen includes every source as it is now and *)
(* every input it has checked.                                             *)
SessionFields == {"on", "todo", "checked", "seen", "work", "left", "attached", "lost"}

AllSeen(S, F) == \A s \in Sources : [src |-> s, version |-> F[s]] \in S.seen

ReadInv ==
  /\ DOMAIN session = SessionFields /\ session.on \in BOOLEAN
  /\ ~session.on => session.attached = {} /\ session.checked = {}
  /\ session.on => /\ \A d \in Drivers : Gone(d)
                   /\ AllSeen(session, files)
                   /\ session.checked \subseteq session.seen
  /\ AttachedFresh

LEMMA GoneForGood ==
  ASSUME NEW d \in Drivers, Gone(d),
         \/ Open(d) \/ Opened(d) \/ WorkLimit(d) \/ Observe(d) \/ RowAdmitted(d) \/ Visit(d)
         \/ Located(d) \/ Flush(d) \/ Flushed(d) \/ WriteIndex(d)
  PROVE  FALSE
  <1>1. at[d] # "dead" /\ w[d].pc # "end"
    BY DEF Open, Opened, WorkLimit, Observe, RowAdmitted, Visit, Located, Flush, Flushed, WriteIndex,
           Idle, Answered, Return
  <1> QED
    BY <1>1 DEF Gone

LEMMA InCallNotDead ==
  ASSUME BudgetInv, NEW d \in Drivers, CallStep(d) \/ Fail(d)
  PROVE  at[d] # "dead" /\ \A e \in Drivers : e # d => at'[e] = at[e]
  BY DEF BudgetInv, BudgetTypeOK, CallStep, TakeLock, LockBusy, ReadTotal, Truncate, WriteTotal,
         Grant, Fail

LEMMA ReadKept ==
  ASSUME ReadInv, session' = session, files' = files,
         session.on => out' = out /\ \A d \in Drivers : Gone(d)'
  PROVE  ReadInv'
  <1>1. AttachedFresh'
    BY DEF ReadInv, AttachedFresh
  <1> QED
    BY <1>1 DEF ReadInv

LEMMA ReadStreamKeeps ==
  ASSUME TypeInv, ReadInv, NEW d \in Drivers, ReadStream(d)
  PROVE  ReadInv'
  <1> DEFINE inputs == out[d].inputs
             R == {inputs[i] : i \in Passed(d)} \ (session.checked \union {NONE})
  <1>1. /\ session.on /\ out' = out /\ files' = files /\ w' = w /\ at' = at
        /\ DOMAIN session' = SessionFields /\ session'.on = session.on
        /\ session'.seen = session.seen
        /\ session'.checked = session.checked \/ session'.checked = session.checked \union R
        /\ \/ session'.attached = session.attached
           \/ session'.attached = session.attached \union {d} /\ Passed(d) = DOMAIN inputs
    <2> DEFINE Read(places) == {inputs[i] : i \in places} \ (session.checked \union {NONE})
               tried == {i \in DOMAIN inputs : 1..(i - 1) \subseteq Passed(d)}
               readable == at[d] # "dead" /\ out[d].index # NONE /\ Size(d) <= session.left
               accepted == readable /\ Passed(d) = DOMAIN inputs /\ Validates(d)
    <2>1. /\ session' = [session EXCEPT
               !.todo = @ \ {d},
               !.attached = IF accepted THEN @ \union {d} ELSE @,
               !.lost = IF accepted THEN @ ELSE @ \union {d},
               !.left = IF accepted THEN @ - Size(d) ELSE @,
               !.checked = IF readable THEN @ \union Read(Passed(d)) ELSE @,
               !.work = IF readable THEN Max({0, @ - Cardinality(Read(tried))}) ELSE @]
          /\ session.on /\ UNCHANGED <<budgetVars, files, edits, faults, w, out>>
      BY DEF ReadStream
    <2>2. Read(Passed(d)) = R /\ (accepted => Passed(d) = DOMAIN inputs)
      OBVIOUS
    <2> HIDE DEF Read, tried, readable, accepted, inputs, R
    <2> QED
      BY <2>1, <2>2 DEF ReadInv, SessionFields, budgetVars
  <1>2. DOMAIN inputs = 1..Len(inputs) /\ \A i \in DOMAIN inputs : inputs[i] \in Inputs \union {NONE}
    <2>1. inputs \in Seq(Inputs \union {NONE})
      BY DEF TypeInv, Outputs
    <2> QED
      BY <2>1
  <1>3. ASSUME NEW i \in Passed(d), inputs[i] \notin session.checked \union {NONE}
        PROVE  inputs[i] \in session.seen
    <2>1. i \in DOMAIN inputs /\ ~Refused(d, i)
      BY <1>2 DEF Passed
    <2>2. inputs[i] \in {inputs[j] : j \in 1..i} \ (session.checked \union {NONE})
      BY <1>2, <1>3, <2>1
    <2>3. files[inputs[i].src] = inputs[i].version
      BY <2>1, <2>2 DEF Refused
    <2>4. inputs[i] \in Inputs
      BY <1>2, <1>3, <2>1
    <2>5. inputs[i] = [src |-> inputs[i].src, version |-> files[inputs[i].src]]
          /\ inputs[i].src \in Sources
      BY <2>3, <2>4 DEF Inputs
    <2> QED
      BY <1>1, <2>5 DEF ReadInv, AllSeen
  <1>4. session.checked \subseteq session.seen /\ R \subseteq session.seen
    BY <1>1, <1>3 DEF ReadInv
  <1>5. session'.checked \subseteq session'.seen
    BY <1>1, <1>4
  <1>6. ASSUME Passed(d) = DOMAIN inputs
        PROVE  \A i \in DOMAIN inputs : inputs[i] \in session.seen \union {NONE}
    BY <1>3, <1>4, <1>6
  <1>7. AttachedFresh'
    <2> HIDE DEF R
    <2>1. \A e \in session'.attached : e \in session.attached \/ (e = d /\ Passed(d) = DOMAIN inputs)
      BY <1>1
    <2>2. ASSUME NEW e \in session'.attached
          PROVE  \A i \in DOMAIN out[e].inputs : out[e].inputs[i] \in session.seen \union {NONE}
      BY <1>6, <2>1 DEF ReadInv, AttachedFresh
    <2> QED
      BY <1>1, <2>2 DEF AttachedFresh
  <1>8. \A e \in Drivers : Gone(e)'
    BY <1>1 DEF ReadInv, Gone
  <1> QED
    BY <1>1, <1>5, <1>7, <1>8 DEF ReadInv, AllSeen

LEMMA ReadStep ==
  ASSUME TypeInv, TotalInv, ReadInv, [Next]_vars
  PROVE  ReadInv'
  <1>1. CASE UNCHANGED vars
    BY <1>1, ReadKept DEF vars, streamVars, budgetVars, ReadInv, Gone
  <1>2. ASSUME NEW d \in Drivers,
               \/ Open(d) \/ Opened(d) \/ WorkLimit(d) \/ Observe(d) \/ RowAdmitted(d) \/ Visit(d)
               \/ Located(d) \/ Flush(d) \/ Flushed(d) \/ WriteIndex(d)
        PROVE  ReadInv'
    <2>1. ~session.on
      BY <1>2, GoneForGood DEF ReadInv
    <2>2. session' = session /\ files' = files
      BY <1>2 DEF Open, Opened, WorkLimit, Observe, RowAdmitted, Visit, Located, Flush, Flushed,
                  WriteIndex
    <2> QED
      BY <2>1, <2>2, ReadKept
  <1>3. ASSUME NEW d \in Drivers, Call(d) \/ CallFails(d)
        PROVE  ReadInv'
    <2>1. session' = session /\ files' = files /\ out' = out /\ w' = w
      BY <1>3 DEF Call, CallFails, streamVars
    <2>2. at[d] # "dead" /\ \A e \in Drivers : e # d => at'[e] = at[e]
      BY <1>3, InCallNotDead DEF Call, CallFails, TotalInv
    <2>3. ASSUME session.on, NEW e \in Drivers PROVE Gone(e)'
      BY <2>1, <2>2, <2>3 DEF ReadInv, Gone
    <2> QED
      BY <2>1, <2>3, ReadKept
  <1>4. ASSUME NEW d \in Drivers, CompilerDies(d)
        PROVE  ReadInv'
    BY <1>4, ReadKept DEF CompilerDies
  <1>5. ASSUME NEW s \in Sources, Edit(s)
        PROVE  ReadInv'
    <2>1. /\ files' = [files EXCEPT ![s] = 3 - @] /\ files \in [Sources -> 1..2]
          /\ out' = out /\ w' = w /\ at' = at
      BY <1>5 DEF Edit, TypeInv, budgetVars
    <2>2. CASE ~session.on
      <3>1. session' = session
        BY <1>5, <2>2 DEF Edit
      <3> QED
        BY <2>2, <3>1 DEF ReadInv, AttachedFresh
    <2>3. CASE session.on
      <3> DEFINE now == [src |-> s, version |-> 3 - files[s]]
      <3>1. session' = [session EXCEPT !.seen = @ \union {now}]
        BY <1>5, <2>3 DEF Edit
      <3>2. /\ DOMAIN session' = SessionFields /\ session'.on = session.on
            /\ session'.seen = session.seen \union {now} /\ session'.checked = session.checked
            /\ session'.attached = session.attached
        BY <3>1 DEF ReadInv, SessionFields
      <3>3. ASSUME NEW t \in Sources
            PROVE  [src |-> t, version |-> files'[t]] \in session'.seen
        <4>1. CASE t = s
          BY <2>1, <3>2, <4>1
        <4>2. CASE t # s
          BY <2>1, <2>3, <3>2, <4>2 DEF ReadInv, AllSeen
        <4> QED
          BY <4>1, <4>2
      <3> HIDE DEF now
      <3>4. AttachedFresh'
        BY <2>1, <3>2 DEF ReadInv, AttachedFresh
      <3>5. \A e \in Drivers : Gone(e)'
        BY <2>1, <2>3 DEF ReadInv, Gone
      <3> QED
        BY <2>3, <3>2, <3>3, <3>4, <3>5 DEF ReadInv, AllSeen
    <2> QED
      BY <2>2, <2>3 DEF ReadInv
  <1>6. CASE BeginFinish
    <2> DEFINE all == {[src |-> s, version |-> files[s]] : s \in Sources}
    <2>1. /\ session' = [session EXCEPT !.on = TRUE, !.seen = all]
          /\ ~session.on /\ \A d \in Drivers : Gone(d)
          /\ files' = files /\ out' = out /\ w' = w /\ at' = at
      BY <1>6 DEF BeginFinish, budgetVars
    <2>2. /\ DOMAIN session' = SessionFields /\ session'.on = TRUE
          /\ session'.seen = all /\ session'.checked = {} /\ session'.attached = {}
      BY <2>1 DEF ReadInv, SessionFields
    <2>3. \A s \in Sources : [src |-> s, version |-> files'[s]] \in session'.seen
      BY <2>1, <2>2
    <2> HIDE DEF all
    <2>4. \A e \in Drivers : Gone(e)'
      BY <2>1 DEF Gone
    <2> QED
      BY <2>2, <2>3, <2>4 DEF ReadInv, AllSeen, AttachedFresh
  <1>7. ASSUME NEW d \in Drivers, ReadStream(d)
        PROVE  ReadInv'
    BY <1>7, ReadStreamKeeps
  <1> QED
    BY <1>1, <1>2, <1>3, <1>4, <1>5, <1>6, <1>7 DEF Next, DriverStep, SessionStep

(* The session attaches no place in a source that was edited since it was  *)
(* compiled: for any drivers and sources, whatever is edited meanwhile.    *)
THEOREM AttachedAlwaysFresh == Spec => []AttachedFresh
  <1>1. Init => ReadInv
    BY DEF Init, ReadInv, SessionFields, AttachedFresh
  <1>2. ReadInv => AttachedFresh
    BY DEF ReadInv
  <1> QED
    BY <1>1, <1>2, ReadStep, Typed, PTL DEF Spec


-----------------------------------------------------------------------------
(* What a published stream says of the walk.  A writer's rows, the written *)
(* ones and those of its page, are numbered in the order of the walk.      *)
Kept(W, O) == [k \in Lists |-> O.rows[k] \o W.page[k]]

Ordered(s, n) ==
  /\ \A i \in 1..Len(s) : s[i].ord = i - 1 /\ s[i].pos < n
  /\ \A i, j \in 1..Len(s) : i < j => s[i].pos < s[j].pos

Shows(s, i) == \E j \in 1..Len(s) : s[j].pos = i

Explained(A, gaps, D, i) ==
  \/ Shows(A[D[i].list], i)
  \/ D[i].of = "hir" /\ ~D[i].fits /\ "Unsupported" \in gaps
  \/ D[i].of # "hir" /\ D[i].of \in gaps

(* The counters of a writer whose rows are A: a visit is of a row, or owed *)
(* one (list names the row's list), or a gap tells; an item found          *)
(* unsupported was visited, with one that may still be found so (due).  A  *)
(* walk that was not interrupted has passed no item without a trace.       *)
Owed(k, list) == IF k = list THEN 1 ELSE 0

Counted(W, A, list, due) ==
  /\ \A k \in Lists :
       /\ Len(A[k]) + Owed(k, list) <= W.visited[k]
       /\ W.gaps = {} => W.visited[k] = Len(A[k]) + Owed(k, list)
  /\ W.unsupported + due <= W.visited["def"] + W.visited["ref"]

Honest(W, A, D) ==
  /\ \A k \in Lists : Ordered(A[k], W.next)
  /\ W.stopped => W.stop # "EndOfDomain"
  /\ W.stop # "EndOfDomain" => W.gaps # {}
  /\ W.stop = "EndOfDomain" => \A i \in 1..(W.next - 1) : Explained(A, W.gaps, D, i)

Owing(W, D) == IF W.pc = "charging" \/ W.row # NONE THEN D[W.next].list ELSE "none"
Due(W) == IF W.pc = "charging" THEN 1 ELSE 0
Through(W, D) == W.stop # "EndOfDomain" \/ W.next > Len(D)

Walked(W, O, D) ==
  W.pc # "end" =>
  /\ O.index = NONE
  /\ Honest(W, Kept(W, O), D) /\ Counted(W, Kept(W, O), Owing(W, D), Due(W))
  /\ W.row # NONE => W.row.ord = Len(Kept(W, O)[W.row.list]) /\ W.row.pos = W.next
  /\ W.pc = "index" => W.page = NoRows
  /\ W.pc = "index" \/ (W.pc = "flushing" /\ W.row = NONE) => Through(W, D)

WalkInv ==
  \A d \in Drivers :
    Walked(w[d], out[d], Domain[d]) /\ (out[d].index # NONE => Validates(d) /\ Told(d))

-----------------------------------------------------------------------------
LEMMA OrderedAppend ==
  ASSUME NEW s \in Seq(Rows), NEW n \in Nat, Ordered(s, n), NEW r \in Rows,
         r.ord = Len(s), r.pos = n
  PROVE  /\ Append(s, r) \in Seq(Rows) /\ Len(Append(s, r)) = Len(s) + 1
         /\ Ordered(Append(s, r), n + 1) /\ Shows(Append(s, r), n)
         /\ \A i \in Nat : Shows(s, i) => Shows(Append(s, r), i)
  <1> DEFINE t == Append(s, r)
  <1>1. /\ t \in Seq(Rows) /\ Len(t) = Len(s) + 1 /\ t[Len(s) + 1] = r
        /\ \A i \in 1..Len(s) : t[i] = s[i]
    BY AppendProperties
  <1>2. PICK m \in Nat : Len(s) = m
    BY LenProperties
  <1>3. \A i \in 1..m : s[i].pos \in Nat
    <2>1. \A i \in 1..m : s[i] \in Rows
      BY <1>2
    <2> QED
      BY <2>1 DEF Rows
  <1> HIDE DEF t
  <1>4. \A i \in 1..(m + 1) : t[i].ord = i - 1 /\ t[i].pos < n + 1
    <2> SUFFICES ASSUME NEW i \in 1..(m + 1) PROVE t[i].ord = i - 1 /\ t[i].pos < n + 1
      OBVIOUS
    <2>1. CASE i \in 1..m
      <3>1. t[i] = s[i] /\ s[i].ord = i - 1 /\ s[i].pos < n /\ s[i].pos \in Nat
        BY <1>1, <1>2, <1>3, <2>1 DEF Ordered
      <3> QED
        BY <3>1
    <2>2. CASE i = m + 1
      BY <1>1, <1>2, <2>2
    <2> QED
      BY <2>1, <2>2
  <1>5. \A i, j \in 1..(m + 1) : i < j => t[i].pos < t[j].pos
    <2> SUFFICES ASSUME NEW i \in 1..(m + 1), NEW j \in 1..(m + 1), i < j
                 PROVE  t[i].pos < t[j].pos
      OBVIOUS
    <2>1. i \in 1..m /\ t[i] = s[i] /\ s[i].pos < n
      BY <1>1, <1>2 DEF Ordered
    <2>2. CASE j \in 1..m
      BY <1>1, <1>2, <2>1, <2>2 DEF Ordered
    <2>3. CASE j = m + 1
      BY <1>1, <1>2, <2>1, <2>3
    <2> QED
      BY <2>2, <2>3
  <1>6. Ordered(t, n + 1)
    BY <1>1, <1>2, <1>4, <1>5 DEF Ordered
  <1>7. Shows(t, n)
    BY <1>1, <1>2 DEF Shows
  <1>8. ASSUME NEW i \in Nat, Shows(s, i) PROVE Shows(t, i)
    <2>1. PICK j \in 1..m : s[j].pos = i
      BY <1>2, <1>8 DEF Shows
    <2>2. j \in 1..(m + 1) /\ t[j].pos = i
      BY <1>1, <1>2, <2>1
    <2> QED
      BY <1>1, <1>2, <2>2 DEF Shows
  <1> QED
    BY <1>1, <1>6, <1>7, <1>8 DEF t

LEMMA OrderedMore ==
  ASSUME NEW s \in Seq(Rows), NEW n \in Nat, NEW m \in Nat, n <= m, Ordered(s, n)
  PROVE  Ordered(s, m)
  <1>1. \A i \in 1..Len(s) : s[i] \in Rows
    OBVIOUS
  <1>2. \A i \in 1..Len(s) : s[i].pos \in Nat
    BY <1>1 DEF Rows
  <1> QED
    BY <1>2 DEF Ordered

LEMMA OrderedFront ==
  ASSUME NEW s \in Seq(Rows), NEW t \in Seq(Rows), NEW n \in Nat, Ordered(s \o t, n)
  PROVE  Ordered(s, n) /\ Len(s) <= Len(s \o t)
  <1>1. /\ Len(s \o t) = Len(s) + Len(t)
        /\ \A i \in 1 .. Len(s) + Len(t) :
             (s \o t)[i] = IF i <= Len(s) THEN s[i] ELSE t[i - Len(s)]
    BY ConcatProperties
  <1>2. PICK a \in Nat, b \in Nat : Len(s) = a /\ Len(t) = b
    BY LenProperties
  <1>3. \A i \in 1..a : i \in 1..(a + b) /\ (s \o t)[i] = s[i]
    BY <1>1, <1>2
  <1>4. Ordered(s, n)
    BY <1>1, <1>2, <1>3 DEF Ordered
  <1> QED
    BY <1>1, <1>2, <1>4

LEMMA KeptIsPages ==
  ASSUME NEW W \in Writers, NEW O \in Outputs
  PROVE  /\ Kept(W, O) \in Pages
         /\ \A k \in Lists : Kept(W, O)[k] \in Seq(Rows) /\ Len(Kept(W, O)[k]) \in Nat
  <1>1. \A k \in Lists : O.rows[k] \in Seq(Rows) /\ W.page[k] \in Seq(Rows)
    BY DEF Outputs, Writers, Pages
  <1>2. \A k \in Lists : O.rows[k] \o W.page[k] \in Seq(Rows)
    BY <1>1, ConcatProperties
  <1>3. Kept(W, O) \in Pages
    BY <1>2 DEF Kept, Pages
  <1>4. \A k \in Lists : Kept(W, O)[k] = O.rows[k] \o W.page[k]
    BY DEF Kept
  <1>5. \A s \in Seq(Rows) : Len(s) \in Nat
    OBVIOUS
  <1> HIDE DEF Kept
  <1> QED
    BY <1>2, <1>3, <1>4, <1>5

-----------------------------------------------------------------------------
(* Steps of a writer that concern no row.                                  *)
LEMMA SameHonest ==
  ASSUME NEW W, NEW V, NEW A, NEW D, Honest(W, A, D),
         V.next = W.next, V.stopped = W.stopped, V.stop = W.stop, V.gaps = W.gaps
  PROVE  Honest(V, A, D)
  BY DEF Honest

LEMMA SameCounted ==
  ASSUME NEW W, NEW V, NEW A, NEW list, NEW due, Counted(W, A, list, due),
         V.visited = W.visited, V.gaps = W.gaps, V.unsupported = W.unsupported
  PROVE  Counted(V, A, list, due)
  BY DEF Counted

LEMMA SameKept ==
  ASSUME NEW W, NEW V, NEW O, V.page = W.page
  PROVE  Kept(V, O) = Kept(W, O)
  BY DEF Kept

LEMMA GapHonest ==
  ASSUME NEW W \in Writers, NEW gap \in Gaps, NEW A, NEW D, NEW list, NEW due
  PROVE  LET G == Gap(W, gap) IN
         /\ G \in Writers /\ G.pc = W.pc /\ G.next = W.next /\ G.row = W.row /\ G.page = W.page
         /\ G.stopped = W.stopped /\ G.stop = W.stop /\ G.gaps = W.gaps \union {gap}
         /\ G.visited = W.visited /\ G.unsupported = W.unsupported
         /\ Honest(W, A, D) => Honest(G, A, D)
         /\ Counted(W, A, list, due) => Counted(G, A, list, due)
  <1> DEFINE G == Gap(W, gap)
  <1>1. /\ G \in Writers /\ G.pc = W.pc /\ G.next = W.next /\ G.row = W.row /\ G.page = W.page
        /\ G.stopped = W.stopped /\ G.stop = W.stop /\ G.gaps = W.gaps \union {gap}
        /\ G.visited = W.visited /\ G.unsupported = W.unsupported
    BY DEF Gap, Writers
  <1> HIDE DEF G
  <1>2. \A i : Explained(A, W.gaps, D, i) => Explained(A, G.gaps, D, i)
    BY <1>1 DEF Explained
  <1>3. Honest(W, A, D) => Honest(G, A, D)
    BY <1>1, <1>2 DEF Honest
  <1>4. Counted(W, A, list, due) => Counted(G, A, list, due)
    BY <1>1 DEF Counted
  <1> QED
    BY <1>1, <1>3, <1>4 DEF G

LEMMA InterruptedHonest ==
  ASSUME NEW W \in Writers, NEW stop \in Stops, NEW gap \in Gaps, stop # "EndOfDomain",
         NEW A, NEW D, NEW list, NEW due
  PROVE  LET G == Interrupted(W, stop, gap) IN
         /\ G \in Writers /\ G.pc = W.pc /\ G.next = W.next /\ G.row = W.row /\ G.page = W.page
         /\ G.stop = stop
         /\ Honest(W, A, D) => Honest(G, A, D)
         /\ Counted(W, A, list, due) => Counted(G, A, list, due)
  <1> DEFINE F == Gap(W, gap)
             G == Interrupted(W, stop, gap)
  <1>1. /\ F \in Writers /\ F.pc = W.pc /\ F.next = W.next /\ F.row = W.row /\ F.page = W.page
        /\ F.gaps = W.gaps \union {gap} /\ F.visited = W.visited /\ F.unsupported = W.unsupported
        /\ Honest(W, A, D) => Honest(F, A, D)
        /\ Counted(W, A, list, due) => Counted(F, A, list, due)
    BY GapHonest
  <1>2. G = [F EXCEPT !.stopped = TRUE, !.stop = stop]
    BY DEF Interrupted
  <1> HIDE DEF F, G
  <1>3. /\ G \in Writers /\ G.pc = F.pc /\ G.next = F.next /\ G.row = F.row /\ G.page = F.page
        /\ G.stopped = TRUE /\ G.stop = stop /\ G.gaps = F.gaps
        /\ G.visited = F.visited /\ G.unsupported = F.unsupported
    BY <1>1, <1>2 DEF Writers
  <1>4. Honest(F, A, D) => Honest(G, A, D)
    BY <1>1, <1>3 DEF Honest
  <1>5. Counted(F, A, list, due) => Counted(G, A, list, due)
    BY <1>3, SameCounted
  <1> QED
    BY <1>1, <1>3, <1>4, <1>5 DEF G

(* A visit that was counted pays for what is found unsupported.            *)
LEMMA UnsupportedHonest ==
  ASSUME NEW W \in Writers, NEW gap \in Gaps, NEW A, NEW D, NEW list
  PROVE  LET G == Unsupported(W, gap) IN
         /\ G \in Writers /\ G.pc = W.pc /\ G.next = W.next /\ G.row = W.row /\ G.page = W.page
         /\ G.visited = W.visited /\ G.stopped = W.stopped /\ G.stop = W.stop
         /\ G.gaps = W.gaps \union {gap}
         /\ G.unsupported = W.unsupported + 1
         /\ Honest(W, A, D) => Honest(G, A, D)
         /\ Counted(W, A, list, 1) => Counted(G, A, list, 0)
  <1> DEFINE F == Gap(W, gap)
             G == Unsupported(W, gap)
  <1>1. /\ F \in Writers /\ F.pc = W.pc /\ F.next = W.next /\ F.row = W.row /\ F.page = W.page
        /\ F.stopped = W.stopped /\ F.stop = W.stop
        /\ F.gaps = W.gaps \union {gap} /\ F.visited = W.visited /\ F.unsupported = W.unsupported
        /\ Honest(W, A, D) => Honest(F, A, D)
        /\ Counted(W, A, list, 1) => Counted(F, A, list, 1)
    BY GapHonest
  <1>2. G = [F EXCEPT !.unsupported = F.unsupported + 1]
    BY DEF Unsupported
  <1> HIDE DEF F, G
  <1>3. F.unsupported \in Nat /\ F.unsupported + 1 \in Nat
    BY <1>1 DEF Writers
  <1>4. /\ G \in Writers /\ G.pc = F.pc /\ G.next = F.next /\ G.row = F.row /\ G.page = F.page
        /\ G.stopped = F.stopped /\ G.stop = F.stop /\ G.gaps = F.gaps
        /\ G.visited = F.visited /\ G.unsupported = F.unsupported + 1
    BY <1>1, <1>2, <1>3 DEF Writers
  <1>5. Honest(F, A, D) => Honest(G, A, D)
    BY <1>4, SameHonest
  <1>6. Counted(F, A, list, 1) => Counted(G, A, list, 0)
    <2>1. F.unsupported + 1 + 0 = F.unsupported + 1
      BY <1>3
    <2> QED
      BY <1>4, <2>1 DEF Counted
  <1> QED
    BY <1>1, <1>4, <1>5, <1>6 DEF G

LEMMA VisitedHonest ==
  ASSUME NEW W \in Writers, NEW k \in Lists, NEW A \in Pages, NEW D
  PROVE  LET G == [W EXCEPT !.visited[k] = @ + 1] IN
         /\ G \in Writers /\ G.pc = W.pc /\ G.next = W.next /\ G.row = W.row /\ G.page = W.page
         /\ G.stopped = W.stopped /\ G.stop = W.stop /\ G.gaps = W.gaps
         /\ G.unsupported = W.unsupported
         /\ Honest(W, A, D) => Honest(G, A, D)
         /\ Counted(W, A, "none", 0) => Counted(G, A, k, 1) /\ Counted(G, A, k, 0)
  <1> DEFINE visited == [W.visited EXCEPT ![k] = @ + 1]
             G == [W EXCEPT !.visited[k] = @ + 1]
  <1>1. visited \in [Lists -> Nat] /\ W.visited \in [Lists -> Nat]
    BY DEF Writers
  <1>2. G = [W EXCEPT !.visited = visited]
    OBVIOUS
  <1>a. \A l \in Lists : visited[l] = IF l = k THEN W.visited[l] + 1 ELSE W.visited[l]
    BY <1>1
  <1> HIDE DEF visited, G
  <1>3. /\ G \in Writers /\ G.pc = W.pc /\ G.next = W.next /\ G.row = W.row /\ G.page = W.page
        /\ G.stopped = W.stopped /\ G.stop = W.stop /\ G.gaps = W.gaps
        /\ G.visited = visited /\ G.unsupported = W.unsupported
    BY <1>1, <1>2 DEF Writers
  <1>4. Honest(W, A, D) => Honest(G, A, D)
    BY <1>3, SameHonest
  <1>5. ASSUME Counted(W, A, "none", 0)
        PROVE  Counted(G, A, k, 1) /\ Counted(G, A, k, 0)
    <2>1. \A l \in Lists : Len(A[l]) \in Nat
      <3>1. \A l \in Lists : A[l] \in Seq(Rows)
        BY DEF Pages
      <3> QED
        BY <3>1, LenProperties
    <2>2. ASSUME NEW l \in Lists
          PROVE  /\ Len(A[l]) + Owed(l, k) <= G.visited[l]
                 /\ G.gaps = {} => G.visited[l] = Len(A[l]) + Owed(l, k)
      <3>1. PICK a \in Nat : Len(A[l]) = a
        BY <2>1
      <3>2. l # "none" /\ Owed(l, "none") = 0
        BY DEF Owed, Lists
      <3>3. a + 0 <= W.visited[l] /\ (W.gaps = {} => W.visited[l] = a + 0) /\ W.visited[l] \in Nat
        BY <1>1, <1>5, <3>1, <3>2 DEF Counted
      <3>4. CASE l = k
        <4>1. Owed(l, k) = 1 /\ visited[l] = W.visited[l] + 1
          BY <1>a, <3>4 DEF Owed
        <4> QED
          BY <1>3, <3>1, <3>3, <4>1
      <3>5. CASE l # k
        <4>1. Owed(l, k) = 0 /\ visited[l] = W.visited[l]
          BY <1>a, <3>5 DEF Owed
        <4> QED
          BY <1>3, <3>1, <3>3, <4>1
      <3> QED
        BY <3>4, <3>5
    <2>3. W.unsupported + 0 <= W.visited["def"] + W.visited["ref"] /\ W.unsupported \in Nat
      BY <1>5 DEF Counted, Writers
    <2>4. "def" \in Lists /\ "ref" \in Lists /\ (k = "def" \/ k = "ref") /\ "def" # "ref"
      BY DEF Lists
    <2>5. W.visited["def"] \in Nat /\ W.visited["ref"] \in Nat
      BY <1>1, <2>4
    <2>6. visited["def"] + visited["ref"] = W.visited["def"] + W.visited["ref"] + 1
      BY <1>a, <2>4, <2>5
    <2>7. W.unsupported + 1 <= visited["def"] + visited["ref"]
          /\ W.unsupported + 0 <= visited["def"] + visited["ref"]
      BY <2>3, <2>5, <2>6
    <2> QED
      BY <1>3, <2>2, <2>7 DEF Counted
  <1> QED
    BY <1>3, <1>4, <1>5 DEF G

-----------------------------------------------------------------------------
(* Steps of a writer that concern a row.                                   *)
LEMMA ItemsListed ==
  ASSUME NEW D \in Seq(Items), NEW i \in 1..Len(D)
  PROVE  D[i] \in Items /\ D[i].list \in Lists
  <1>1. D[i] \in Items
    OBVIOUS
  <1> QED
    BY <1>1 DEF Items

LEMMA AppendAfter ==
  ASSUME NEW s \in Seq(Rows), NEW t \in Seq(Rows), NEW r \in Rows
  PROVE  s \o Append(t, r) = Append(s \o t, r)
  <1>1. s \o t \in Seq(Rows)
    BY ConcatProperties
  <1>2. Append(t, r) = t \o <<r>> /\ Append(s \o t, r) = (s \o t) \o <<r>>
    BY <1>1, AppendIsConcat
  <1>3. <<r>> \in Seq(Rows)
    OBVIOUS
  <1>4. (s \o t) \o <<r>> = s \o (t \o <<r>>)
    BY <1>3, ConcatAssociative
  <1> QED
    BY <1>2, <1>4

LEMMA PushWalked ==
  ASSUME NEW W \in Writers, NEW O \in Outputs, NEW D \in Seq(Items), W.next \in 1..Len(D),
         W.row \in Rows, W.row.list = D[W.next].list,
         W.row.ord = Len(Kept(W, O)[W.row.list]), W.row.pos = W.next,
         Honest(W, Kept(W, O), D), Counted(W, Kept(W, O), W.row.list, 0), O.index = NONE
  PROVE  Walked(Push(W), O, D)
  <1> DEFINE k == W.row.list
             page == [W.page EXCEPT ![k] = Append(@, W.row)]
             P == Push(W)
             A == Kept(W, O)
             B == Kept(P, O)
  <1>1. k \in Lists /\ W.page \in Pages /\ O.rows \in Pages
    BY DEF Writers, Rows, Outputs
  <1>2. /\ \A l \in Lists : O.rows[l] \in Seq(Rows) /\ W.page[l] \in Seq(Rows)
        /\ Append(W.page[k], W.row) \in Seq(Rows)
    <2>1. \A l \in Lists : O.rows[l] \in Seq(Rows) /\ W.page[l] \in Seq(Rows)
      BY <1>1 DEF Pages
    <2> QED
      BY <1>1, <2>1
  <1>3. page \in Pages /\ \A l \in Lists : page[l] = IF l = k THEN Append(W.page[k], W.row) ELSE W.page[l]
    BY <1>1, <1>2 DEF Pages
  <1>4. P = [W EXCEPT !.pc = "walk", !.next = W.next + 1, !.row = NONE, !.page = page]
    BY DEF Push
  <1> HIDE DEF page, P
  <1>5. W.next \in Nat /\ W.next + 1 \in Nat
    BY DEF Writers
  <1>6. /\ P \in Writers /\ P.pc = "walk" /\ P.next = W.next + 1 /\ P.row = NONE /\ P.page = page
        /\ P.stopped = W.stopped /\ P.stop = W.stop /\ P.gaps = W.gaps
        /\ P.visited = W.visited /\ P.unsupported = W.unsupported
    BY <1>3, <1>4, <1>5 DEF Writers, Walking
  <1>7. A \in Pages /\ \A l \in Lists : A[l] \in Seq(Rows) /\ Len(A[l]) \in Nat
    BY KeptIsPages
  <1>8. \A l \in Lists : B[l] = IF l = k THEN Append(A[k], W.row) ELSE A[l]
    <2> SUFFICES ASSUME NEW l \in Lists PROVE B[l] = IF l = k THEN Append(A[k], W.row) ELSE A[l]
      OBVIOUS
    <2>1. B[l] = O.rows[l] \o page[l] /\ A[l] = O.rows[l] \o W.page[l]
      BY <1>6 DEF Kept
    <2>2. CASE l # k
      BY <1>3, <2>1, <2>2
    <2>3. CASE l = k
      <3>1. O.rows[k] \o Append(W.page[k], W.row) = Append(O.rows[k] \o W.page[k], W.row)
        BY <1>1, <1>2, AppendAfter
      <3> QED
        BY <1>3, <2>1, <2>3, <3>1
    <2> QED
      BY <2>2, <2>3
  <1> HIDE DEF A, B
  <1>9. /\ Len(B[k]) = Len(A[k]) + 1 /\ Ordered(B[k], W.next + 1) /\ Shows(B[k], W.next)
        /\ \A i \in Nat : Shows(A[k], i) => Shows(B[k], i)
    <2>1. Ordered(A[k], W.next)
      BY <1>1 DEF Honest, A
    <2>2. W.row.ord = Len(A[k]) /\ W.row.pos = W.next /\ W.row \in Rows
      BY DEF A
    <2>3. B[k] = Append(A[k], W.row) /\ A[k] \in Seq(Rows)
      BY <1>1, <1>7, <1>8
    <2> HIDE DEF k
    <2>4. /\ Len(Append(A[k], W.row)) = Len(A[k]) + 1
          /\ Ordered(Append(A[k], W.row), W.next + 1) /\ Shows(Append(A[k], W.row), W.next)
          /\ \A i \in Nat : Shows(A[k], i) => Shows(Append(A[k], W.row), i)
      BY <1>5, <2>1, <2>2, <2>3, OrderedAppend
    <2> QED
      BY <2>3, <2>4
  <1>10. \A l \in Lists : Ordered(B[l], P.next)
    <2> SUFFICES ASSUME NEW l \in Lists PROVE Ordered(B[l], P.next)
      OBVIOUS
    <2>1. CASE l = k
      BY <1>6, <1>9, <2>1
    <2>2. CASE l # k
      <3>1. Ordered(A[l], W.next) /\ B[l] = A[l] /\ W.next <= W.next + 1
        BY <1>5, <1>8, <2>2 DEF Honest, A
      <3> QED
        BY <1>5, <1>6, <1>7, <3>1, OrderedMore
    <2> QED
      BY <2>1, <2>2
  <1>11. ASSUME P.stop = "EndOfDomain", NEW i \in 1..(P.next - 1)
         PROVE  Explained(B, P.gaps, D, i)
    <2>1. i \in Nat /\ i \in 1..Len(D) /\ (i \in 1..(W.next - 1) \/ i = W.next)
      BY <1>5, <1>6
    <2>2. D[i].list \in Lists
      BY <2>1, ItemsListed
    <2>3. CASE i = W.next
      BY <1>9, <2>3 DEF Explained
    <2>4. CASE i \in 1..(W.next - 1)
      <3>1. Explained(A, W.gaps, D, i)
        BY <1>6, <1>11, <2>4 DEF Honest, A
      <3>2. Shows(A[D[i].list], i) => Shows(B[D[i].list], i)
        BY <1>8, <1>9, <2>1, <2>2
      <3> QED
        BY <1>6, <3>1, <3>2 DEF Explained
    <2> QED
      BY <2>1, <2>3, <2>4
  <1>12. Honest(P, B, D)
    BY <1>6, <1>10, <1>11 DEF Honest, A
  <1>13. Counted(P, B, "none", 0)
    <2>1. ASSUME NEW l \in Lists
          PROVE  /\ Len(B[l]) + Owed(l, "none") <= P.visited[l]
                 /\ P.gaps = {} => P.visited[l] = Len(B[l]) + Owed(l, "none")
      <3>1. Owed(l, "none") = 0
        BY DEF Owed, Lists
      <3>2. PICK a \in Nat : Len(A[l]) = a
        BY <1>7
      <3>3. /\ a + Owed(l, k) <= W.visited[l]
            /\ W.gaps = {} => W.visited[l] = a + Owed(l, k)
        BY <3>2 DEF Counted, A
      <3>4. Len(B[l]) + 0 = a + Owed(l, k)
        <4>1. CASE l = k
          <5>1. Len(B[l]) = a + 1 /\ Owed(l, k) = 1
            BY <1>9, <3>2, <4>1 DEF Owed
          <5> QED
            BY <5>1
        <4>2. CASE l # k
          <5>1. Len(B[l]) = a /\ Owed(l, k) = 0
            BY <1>8, <3>2, <4>2 DEF Owed
          <5> QED
            BY <5>1
        <4> QED
          BY <4>1, <4>2
      <3> QED
        BY <1>6, <3>1, <3>3, <3>4
    <2> QED
      BY <1>6, <2>1 DEF Counted
  <1>14. Owing(P, D) = "none" /\ Due(P) = 0
    BY <1>6 DEF Owing, Due
  <1>15. Walked(P, O, D)
    BY <1>6, <1>12, <1>13, <1>14 DEF Walked, B
  <1> QED
    BY <1>15 DEF P

LEMMA PlaceWalked ==
  ASSUME NEW d \in Drivers, out[d] \in Outputs, NEW W \in Writers, W.next \in 1..Len(Domain[d]),
         W.row = NONE, W.next = w[d].next, NEW loc \in Inputs \union {NONE},
         Honest(W, Kept(W, out[d]), Domain[d]),
         Counted(W, Kept(W, out[d]), Item(d).list, 0), out[d].index = NONE
  PROVE  Walked(Place(d, W, loc), out[d], Domain[d])
  <1> DEFINE D == Domain[d]
             O == out[d]
             k == Item(d).list
             row == [ord |-> Len(O.rows[k]) + Len(W.page[k]), pos |-> W.next, list |-> k,
                     loc |-> loc]
             P == [W EXCEPT !.row = row]
             F == [P EXCEPT !.pc = "flush"]
  <1>1. D \in Seq(Items) /\ NONE \notin Rows
    BY StreamAssumption DEF StreamAssumption
  <1>2. Item(d) = D[W.next] /\ k \in Lists /\ k = D[W.next].list
    BY <1>1, ItemsListed DEF Item
  <1>3. Len(Kept(W, O)[k]) = Len(O.rows[k]) + Len(W.page[k]) /\ Len(Kept(W, O)[k]) \in Nat
    <2>1. O.rows[k] \in Seq(Rows) /\ W.page[k] \in Seq(Rows) /\ Kept(W, O)[k] = O.rows[k] \o W.page[k]
      BY <1>2 DEF Outputs, Writers, Pages, Kept
    <2>2. Len(O.rows[k] \o W.page[k]) = Len(O.rows[k]) + Len(W.page[k])
      BY <2>1, ConcatProperties
    <2>3. Len(Kept(W, O)[k]) \in Nat
      BY <1>2, KeptIsPages
    <2> HIDE DEF k
    <2> QED
      BY <2>1, <2>2, <2>3
  <1>4. row \in Rows /\ row.list = k /\ row.ord = Len(Kept(W, O)[k]) /\ row.pos = W.next
    <2>1. W.next \in Nat
      BY DEF Writers
    <2>2. row = [ord |-> Len(Kept(W, O)[k]), pos |-> W.next, list |-> k, loc |-> loc]
      BY <1>3
    <2> HIDE DEF row
    <2> QED
      BY <1>2, <1>3, <2>1, <2>2 DEF Rows
  <1>5. Place(d, W, loc) = IF Len(W.page[k]) < PAGE_ROWS THEN Push(P) ELSE F
    BY DEF Place
  <1> HIDE DEF row, k
  <1>6. /\ P \in Writers /\ P.row = row /\ P.next = W.next /\ P.page = W.page
        /\ P.stopped = W.stopped /\ P.stop = W.stop /\ P.gaps = W.gaps
        /\ P.visited = W.visited /\ P.unsupported = W.unsupported
    BY <1>4 DEF Writers
  <1> HIDE DEF P
  <1>7. /\ F.row = row /\ F.next = W.next /\ F.page = W.page /\ F.pc = "flush"
        /\ F.stopped = W.stopped /\ F.stop = W.stop /\ F.gaps = W.gaps
        /\ F.visited = W.visited /\ F.unsupported = W.unsupported
    BY <1>6 DEF Writers
  <1> HIDE DEF F
  <1>8. Kept(P, O) = Kept(W, O) /\ Kept(F, O) = Kept(W, O)
    BY <1>6, <1>7, SameKept
  <1>9. Honest(P, Kept(W, O), D) /\ Honest(F, Kept(W, O), D)
    BY <1>6, <1>7, SameHonest
  <1>10. Counted(P, Kept(W, O), k, 0) /\ Counted(F, Kept(W, O), k, 0)
    BY <1>6, <1>7, SameCounted DEF k
  <1>11. Walked(Push(P), O, D)
    <2>1. P.row \in Rows /\ P.row.list = D[P.next].list /\ P.row.ord = Len(Kept(P, O)[P.row.list])
          /\ P.row.pos = P.next /\ P.next \in 1..Len(D)
      BY <1>2, <1>4, <1>6, <1>8
    <2>2. Honest(P, Kept(P, O), D) /\ Counted(P, Kept(P, O), P.row.list, 0)
      BY <1>4, <1>6, <1>8, <1>9, <1>10
    <2> QED
      BY <1>1, <1>6, <2>1, <2>2, PushWalked
  <1>12. Walked(F, O, D)
    <2>1. F.row # NONE /\ Owing(F, D) = k /\ Due(F) = 0
      BY <1>1, <1>2, <1>4, <1>7 DEF Owing, Due
    <2> QED
      BY <1>4, <1>7, <1>8, <1>9, <1>10, <2>1 DEF Walked
  <1> QED
    BY <1>5, <1>11, <1>12

(* What is given up is the rest of a block, of which a gap tells.          *)
LEMMA GiveUpWalked ==
  ASSUME NEW d \in Drivers, out[d] \in Outputs, NEW W \in Writers,
         W.next \in 1..Len(Domain[d]), W.row = NONE, W.next = w[d].next, Observational(d),
         Honest(W, Kept(W, out[d]), Domain[d]),
         Counted(W, Kept(W, out[d]), "none", 0), out[d].index = NONE
  PROVE  Walked(GiveUp(d, W), out[d], Domain[d])
  <1> DEFINE D == Domain[d]
             O == out[d]
             block == Item(d).of
             A == Kept(W, O)
             V == [W EXCEPT !.visited["ref"] = @ + 1]
             U == Unsupported(W, block)
             X == [U EXCEPT !.visited["ref"] = @ + 1]
             m == Max(Observed(d, block))
             G == GiveUp(d, W)
  <1>1. D \in Seq(Items) /\ Len(D) \in Nat /\ "ref" \in Lists /\ A \in Pages
    BY StreamAssumption, KeptIsPages DEF StreamAssumption, Lists
  <1>2. Item(d) = D[W.next] /\ D[W.next] \in Items /\ block # "hir" /\ block \in Gaps
    <2>1. Item(d) = D[W.next] /\ D[W.next] \in Items
      BY <1>1, ItemsListed DEF Item
    <2> QED
      BY <2>1 DEF Items, Gaps, Observational
  <1>3. V.visited = [W.visited EXCEPT !["ref"] = @ + 1] /\ Counted(V, A, "ref", 1)
        /\ V.unsupported = W.unsupported
    <2>1. V.visited = [W.visited EXCEPT !["ref"] = @ + 1]
      BY DEF Writers
    <2>2. Counted(W, A, "none", 0)
      OBVIOUS
    <2> HIDE DEF A
    <2> QED
      BY <1>1, <2>1, <2>2, VisitedHonest
  <1>4. /\ U \in Writers /\ U.next = W.next /\ U.row = W.row /\ U.page = W.page
        /\ U.visited = W.visited /\ U.stopped = W.stopped /\ U.stop = W.stop
        /\ U.gaps = W.gaps \union {block} /\ U.unsupported = W.unsupported + 1
    <2> HIDE DEF block
    <2> QED
      BY <1>2, UnsupportedHonest
  <1> HIDE DEF U, V
  <1>5. /\ X \in Writers /\ X.next = W.next /\ X.row = NONE /\ X.page = W.page
        /\ X.stopped = W.stopped /\ X.stop = W.stop
        /\ X.gaps = W.gaps \union {block} /\ X.unsupported = W.unsupported + 1
        /\ X.visited = V.visited
    <2>1. X.visited = [U.visited EXCEPT !["ref"] = @ + 1]
      BY <1>4 DEF Writers
    <2> QED
      BY <1>1, <1>3, <1>4, <2>1, VisitedHonest
  <1>6. m \in 1..Len(D) /\ W.next <= m /\ D[m].of = block
    BY BlockEnd
  <1>7. G = [X EXCEPT !.pc = "walk", !.next = m + 1]
    BY DEF GiveUp, U
  <1> HIDE DEF X, G, m
  <1>8. /\ G.pc = "walk" /\ G.next = m + 1 /\ G.row = NONE /\ G.page = W.page
        /\ G.stopped = W.stopped /\ G.stop = W.stop
        /\ G.gaps = W.gaps \union {block} /\ G.unsupported = W.unsupported + 1
        /\ G.visited = V.visited
    BY <1>5, <1>7 DEF Writers
  <1>9. Kept(G, O) = A
    BY <1>8, SameKept
  <1>10. ASSUME NEW i \in W.next..m PROVE D[i].of = block
    <2>1. W.next \in Nat /\ DOMAIN D = 1..Len(D)
      BY <1>1 DEF Writers
    <2>2. i = W.next \/ i = m \/ (W.next < i /\ i < m)
      BY <1>1, <1>6, <2>1
    <2>3. CASE W.next < i /\ i < m
      <3>1. i \in DOMAIN D /\ W.next \in DOMAIN D /\ m \in DOMAIN D /\ D[W.next].of = D[m].of
        BY <1>1, <1>2, <1>6, <2>1, <2>3
      <3> QED
        BY <1>6, <2>3, <3>1, StreamAssumption DEF StreamAssumption
    <2> QED
      BY <1>2, <1>6, <2>2, <2>3
  <1>11. Honest(G, A, D)
    <2> HIDE DEF A, block
    <2>a. Honest(W, A, D)
      BY DEF A
    <2>1. W.next \in Nat /\ m + 1 \in Nat /\ W.next <= m + 1
      BY <1>1, <1>6 DEF Writers
    <2>2. \A k \in Lists : Ordered(A[k], m + 1)
      <3>1. \A k \in Lists : A[k] \in Seq(Rows) /\ Ordered(A[k], W.next)
        BY <1>1, <2>a DEF Pages, Honest
      <3> QED
        BY <2>1, <3>1, OrderedMore
    <2>3. ASSUME W.stop = "EndOfDomain", NEW i \in 1..(m + 1 - 1)
          PROVE  Explained(A, W.gaps \union {block}, D, i)
      <3>1. CASE i \in 1..(W.next - 1)
        <4>1. Explained(A, W.gaps, D, i)
          BY <2>a, <2>3, <3>1 DEF Honest
        <4> QED
          BY <4>1 DEF Explained
      <3>2. CASE i \in W.next..m
        BY <1>2, <1>10, <3>2 DEF Explained
      <3> QED
        BY <1>1, <1>6, <2>1, <2>3, <3>1, <3>2
    <2>4. G.stop = "EndOfDomain" => \A i \in 1..(G.next - 1) : Explained(A, G.gaps, D, i)
      <3>1. G.stop = W.stop /\ G.gaps = W.gaps \union {block} /\ G.next - 1 = m + 1 - 1
        BY <1>1, <1>6, <1>8
      <3>2. W.stop = "EndOfDomain" => \A i \in 1..(m + 1 - 1) : Explained(A, W.gaps \union {block}, D, i)
        BY <2>3
      <3> HIDE DEF D
      <3> QED
        BY <3>1, <3>2
    <2>5. G.gaps # {}
      BY <1>8
    <2> QED
      BY <1>8, <2>a, <2>2, <2>4, <2>5 DEF Honest
  <1>12. Counted(G, A, "none", 0)
    <2> HIDE DEF A
    <2>1. \A l \in Lists : Len(A[l]) \in Nat /\ Owed(l, "none") = 0 /\ Owed(l, "ref") \in {0, 1}
      BY KeptIsPages DEF A, Owed, Lists
    <2>2. \A l \in Lists : Len(A[l]) + Owed(l, "none") <= V.visited[l]
      <3> SUFFICES ASSUME NEW l \in Lists PROVE Len(A[l]) + Owed(l, "none") <= V.visited[l]
        OBVIOUS
      <3>1. Len(A[l]) + Owed(l, "ref") <= V.visited[l] /\ V.visited[l] \in Nat
        BY <1>1, <1>3 DEF Counted, Writers
      <3> QED
        BY <2>1, <3>1
    <2>3. W.unsupported + 1 + 0 <= V.visited["def"] + V.visited["ref"]
      <3>1. W.unsupported + 1 <= V.visited["def"] + V.visited["ref"] /\ W.unsupported \in Nat
        BY <1>3 DEF Counted, Writers
      <3> QED
        BY <3>1
    <2> QED
      BY <1>8, <2>2, <2>3 DEF Counted
  <1>13. Owing(G, D) = "none" /\ Due(G) = 0
    BY <1>8 DEF Owing, Due
  <1>14. Walked(G, O, D)
    BY <1>8, <1>9, <1>11, <1>12, <1>13 DEF Walked
  <1> QED
    BY <1>14 DEF G

LEMMA FewerCounted ==
  ASSUME NEW W \in Writers, NEW A \in Pages, NEW B \in Pages, NEW list, Counted(W, A, list, 0),
         W.gaps # {}, \A k \in Lists : Len(B[k]) <= Len(A[k])
  PROVE  Counted(W, B, "none", 0)
  <1> SUFFICES ASSUME NEW k \in Lists
               PROVE  Len(B[k]) + Owed(k, "none") <= W.visited[k]
    BY DEF Counted
  <1>1. Owed(k, "none") = 0 /\ Owed(k, list) \in {0, 1}
    BY DEF Owed, Lists
  <1>2. A[k] \in Seq(Rows) /\ B[k] \in Seq(Rows)
    BY DEF Pages
  <1>3. PICK a \in Nat, b \in Nat : Len(A[k]) = a /\ Len(B[k]) = b
    BY <1>2, LenProperties
  <1>4. a + Owed(k, list) <= W.visited[k] /\ W.visited[k] \in Nat /\ b <= a
    BY <1>3 DEF Counted, Writers
  <1> QED
    BY <1>1, <1>3, <1>4

(* The page was written, or there was none: N is the output now.           *)
LEMMA FlushedWalked ==
  ASSUME NEW W \in Writers, NEW O \in Outputs, NEW N \in Outputs, NEW D \in Seq(Items),
         N.index = NONE, \A k \in Lists : N.rows[k] = Kept(W, O)[k],
         W.next \in 1..(Len(D) + 1), W.pc # "charging",
         Honest(W, Kept(W, O), D), Counted(W, Kept(W, O), Owing(W, D), 0),
         W.row # NONE => /\ W.next <= Len(D) /\ W.row.list = D[W.next].list
                         /\ W.row.ord = Len(Kept(W, O)[W.row.list]) /\ W.row.pos = W.next,
         W.row = NONE => Through(W, D)
  PROVE  Walked(AfterFlush(W, TRUE), N, D)
  <1> DEFINE A == Kept(W, O)
             E == [W EXCEPT !.page = NoRows]
             X == [W EXCEPT !.pc = "index", !.page = NoRows]
  <1>1. NoRows \in Pages /\ \A k \in Lists : NoRows[k] = <<>>
    BY DEF NoRows, Pages
  <1>2. /\ E \in Writers /\ E.next = W.next /\ E.row = W.row /\ E.page = NoRows
        /\ E.stopped = W.stopped /\ E.stop = W.stop /\ E.gaps = W.gaps
        /\ E.visited = W.visited /\ E.unsupported = W.unsupported
    BY <1>1 DEF Writers
  <1>3. /\ X.pc = "index" /\ X.next = W.next /\ X.row = W.row /\ X.page = NoRows
        /\ X.stopped = W.stopped /\ X.stop = W.stop /\ X.gaps = W.gaps
        /\ X.visited = W.visited /\ X.unsupported = W.unsupported
    BY <1>1 DEF Writers
  <1>4. AfterFlush(W, TRUE) = IF W.row = NONE THEN X ELSE Push(E)
    BY DEF AfterFlush
  <1> HIDE DEF E, X
  <1>5. \A k \in Lists : N.rows[k] \o NoRows[k] = A[k]
    <2> SUFFICES ASSUME NEW k \in Lists PROVE N.rows[k] \o NoRows[k] = A[k]
      OBVIOUS
    <2>1. A[k] \in Seq(Rows)
      BY KeptIsPages
    <2> HIDE DEF A
    <2>2. A[k] \o <<>> = A[k]
      BY <2>1, ConcatEmptySeq
    <2> QED
      BY <1>1, <2>2 DEF A
  <1>6. Kept(E, N) = A /\ Kept(X, N) = A
    <2>1. A = [k \in Lists |-> A[k]]
      BY DEF Kept
    <2> HIDE DEF A
    <2>2. Kept(E, N) = [k \in Lists |-> N.rows[k] \o NoRows[k]]
          /\ Kept(X, N) = [k \in Lists |-> N.rows[k] \o NoRows[k]]
      BY <1>2, <1>3 DEF Kept
    <2>3. [k \in Lists |-> N.rows[k] \o NoRows[k]] = [k \in Lists |-> A[k]]
      BY <1>5
    <2> QED
      BY <2>1, <2>2, <2>3
  <1>7. Honest(E, A, D) /\ Honest(X, A, D)
    BY <1>2, <1>3, SameHonest
  <1>8. Counted(E, A, Owing(W, D), 0) /\ Counted(X, A, Owing(W, D), 0)
    BY <1>2, <1>3, SameCounted
  <1>9. CASE W.row = NONE
    <2>1. Owing(W, D) = "none" /\ Owing(X, D) = "none" /\ Due(X) = 0
      BY <1>3, <1>9 DEF Owing, Due
    <2>2. Through(X, D)
      BY <1>3, <1>9 DEF Through
    <2>3. Walked(X, N, D)
      BY <1>3, <1>6, <1>7, <1>8, <1>9, <2>1, <2>2 DEF Walked
    <2> QED
      BY <1>4, <1>9, <2>3
  <1>10. CASE W.row # NONE
    <2>1. Owing(W, D) = W.row.list
      BY <1>10 DEF Owing
    <2>2. E.row \in Rows /\ E.next \in 1..Len(D)
      BY <1>2, <1>10 DEF Writers
    <2>3. E.row.list = D[E.next].list /\ E.row.ord = Len(Kept(E, N)[E.row.list])
          /\ E.row.pos = E.next
      BY <1>2, <1>6, <1>10
    <2>4. Honest(E, Kept(E, N), D) /\ Counted(E, Kept(E, N), E.row.list, 0)
      BY <1>2, <1>6, <1>7, <1>8, <2>1
    <2>5. Walked(Push(E), N, D)
      BY <1>2, <2>2, <2>3, <2>4, PushWalked
    <2> QED
      BY <1>4, <1>10, <2>5
  <1> QED
    BY <1>9, <1>10

(* The page could not be written: the row that did not fit is lost, or the *)
(* page, and the stream says that it was interrupted.                      *)
LEMMA LostWalked ==
  ASSUME NEW W \in Writers, NEW O \in Outputs, NEW D \in Seq(Items), O.index = NONE,
         W.next \in 1..(Len(D) + 1), W.stop # "EndOfDomain",
         Honest(W, Kept(W, O), D), Counted(W, Kept(W, O), Owing(W, D), 0)
  PROVE  Walked(AfterFlush(W, FALSE), O, D)
  <1> DEFINE A == Kept(W, O)
             X == [W EXCEPT !.pc = "index", !.page = NoRows]
             L == [W EXCEPT !.pc = "walk", !.next = @ + 1, !.row = NONE]
  <1>1. NoRows \in Pages /\ \A k \in Lists : NoRows[k] = <<>>
    BY DEF NoRows, Pages
  <1>2. W.next \in Nat /\ W.next + 1 \in Nat /\ W.next <= W.next + 1
    BY DEF Writers
  <1>3. /\ X \in Writers /\ X.pc = "index" /\ X.next = W.next /\ X.row = W.row /\ X.page = NoRows
        /\ X.stopped = W.stopped /\ X.stop = W.stop /\ X.gaps = W.gaps
        /\ X.visited = W.visited /\ X.unsupported = W.unsupported
    BY <1>1 DEF Writers, Walking
  <1>4. /\ L.pc = "walk" /\ L.next = W.next + 1 /\ L.row = NONE /\ L.page = W.page
        /\ L.stopped = W.stopped /\ L.stop = W.stop /\ L.gaps = W.gaps
        /\ L.visited = W.visited /\ L.unsupported = W.unsupported
    BY <1>1, <1>2 DEF Writers
  <1>5. AfterFlush(W, FALSE) = IF W.row = NONE THEN X ELSE L
    BY DEF AfterFlush
  <1> HIDE DEF X, L
  <1>6. A \in Pages /\ (\A k \in Lists : A[k] \in Seq(Rows) /\ Len(A[k]) \in Nat)
    BY KeptIsPages
  <1>7. W.gaps # {} /\ \A k \in Lists : Ordered(A[k], W.next)
    BY DEF Honest
  <1>8. Walked(L, O, D)
    <2>1. Kept(L, O) = A
      BY <1>4, SameKept
    <2> HIDE DEF A
    <2>2. \A k \in Lists : Ordered(A[k], W.next + 1)
      BY <1>2, <1>6, <1>7, OrderedMore
    <2>3. Honest(L, A, D)
      BY <1>4, <1>7, <2>2 DEF Honest
    <2>4. Counted(W, A, "none", 0)
      <3>1. Counted(W, A, Owing(W, D), 0) /\ \A k \in Lists : Len(A[k]) <= Len(A[k])
        BY <1>6 DEF A
      <3> QED
        BY <1>6, <1>7, <3>1, FewerCounted
    <2>5. Counted(L, A, "none", 0)
      BY <1>4, <2>4, SameCounted
    <2>6. Owing(L, D) = "none" /\ Due(L) = 0
      BY <1>4 DEF Owing, Due
    <2> QED
      BY <1>4, <2>1, <2>3, <2>5, <2>6 DEF Walked
  <1>9. W.row = NONE => Walked(X, O, D)
    <2> HAVE W.row = NONE
    <2>1. Kept(X, O) \in Pages
      BY <1>3, KeptIsPages
    <2>2. \A k \in Lists : /\ Kept(X, O)[k] = O.rows[k] /\ O.rows[k] \in Seq(Rows)
                           /\ A[k] = O.rows[k] \o W.page[k] /\ W.page[k] \in Seq(Rows)
      <3> SUFFICES ASSUME NEW k \in Lists
                   PROVE  /\ Kept(X, O)[k] = O.rows[k] /\ O.rows[k] \in Seq(Rows)
                          /\ A[k] = O.rows[k] \o W.page[k] /\ W.page[k] \in Seq(Rows)
        OBVIOUS
      <3>1. O.rows[k] \in Seq(Rows) /\ W.page[k] \in Seq(Rows)
        BY DEF Outputs, Writers, Pages
      <3>2. O.rows[k] \o <<>> = O.rows[k]
        BY <3>1, ConcatEmptySeq
      <3>3. Kept(X, O)[k] = O.rows[k] \o NoRows[k] /\ A[k] = O.rows[k] \o W.page[k]
        BY <1>3 DEF Kept
      <3> QED
        BY <1>1, <3>1, <3>2, <3>3
    <2>3. \A k \in Lists : Ordered(O.rows[k], W.next) /\ Len(O.rows[k]) <= Len(A[k])
      BY <1>2, <1>7, <2>2, OrderedFront
    <2> HIDE DEF A
    <2>4. Honest(X, Kept(X, O), D)
      BY <1>3, <1>7, <2>2, <2>3 DEF Honest
    <2>5. Counted(X, Kept(X, O), "none", 0)
      <3>1. Counted(W, A, Owing(W, D), 0) /\ \A k \in Lists : Len(Kept(X, O)[k]) <= Len(A[k])
        BY <2>2, <2>3 DEF A
      <3>2. Counted(W, Kept(X, O), "none", 0)
        BY <1>6, <1>7, <2>1, <3>1, FewerCounted
      <3> QED
        BY <1>3, <3>2, SameCounted
    <2>6. Owing(X, D) = "none" /\ Due(X) = 0 /\ Through(X, D)
      BY <1>3 DEF Owing, Due, Through
    <2> QED
      BY <1>3, <2>4, <2>5, <2>6 DEF Walked
  <1> QED
    BY <1>5, <1>8, <1>9

-----------------------------------------------------------------------------
LEMMA WalkKept ==
  ASSUME WalkInv, TypeInv, NEW d \in Drivers, NEW W, NEW O, Walked(W, O, Domain[d]),
         O.index = NONE, w' = [w EXCEPT ![d] = W],
         out' = [out EXCEPT ![d] = O] \/ (out' = out /\ O = out[d])
  PROVE  WalkInv'
  <1>1. \A e \in Drivers : w'[e] = (IF e = d THEN W ELSE w[e]) /\ out'[e] = (IF e = d THEN O ELSE out[e])
    BY DEF TypeInv
  <1>2. ASSUME NEW e \in Drivers
        PROVE  Walked(w'[e], out'[e], Domain[e])
    BY <1>1 DEF WalkInv
  <1>3. ASSUME NEW e \in Drivers, out'[e].index # NONE
        PROVE  Validates(e)' /\ Told(e)'
    <2>1. e # d /\ out'[e] = out[e]
      BY <1>1, <1>3
    <2>2. Validates(e) /\ Told(e)
      BY <1>3, <2>1 DEF WalkInv
    <2>3. Validates(e)'
      BY <2>1, <2>2 DEF Validates, Observed
    <2>4. Told(e)'
      BY <2>1, <2>2 DEF Told
    <2> QED
      BY <2>3, <2>4
  <1> QED
    BY <1>2, <1>3 DEF WalkInv

LEMMA EndedWalked ==
  ASSUME NEW O, NEW D
  PROVE  Walked(Ended, O, D)
  BY DEF Walked, Ended, NewWriter

(* A driver at an item of its walk.                                        *)
LEMMA WalkHere ==
  ASSUME TypeInv, WalkInv, NEW d \in Drivers, w[d].pc = "walk", AtItem(d)
  PROVE  LET A == Kept(w[d], out[d]) IN
         /\ w[d] \in Writers /\ out[d] \in Outputs /\ out[d].index = NONE /\ A \in Pages
         /\ w[d].row = NONE /\ w[d].next \in 1..Len(Domain[d])
         /\ Domain[d] \in Seq(Items) /\ Item(d) = Domain[d][w[d].next]
         /\ Item(d) \in Items /\ Item(d).list \in Lists
         /\ Honest(w[d], A, Domain[d]) /\ Counted(w[d], A, "none", 0)
  <1> DEFINE A == Kept(w[d], out[d])
  <1>1. /\ w[d] \in Writers /\ out[d] \in Outputs /\ w[d].row = NONE
        /\ w[d].next <= Len(Domain[d]) /\ Item(d) = Domain[d][w[d].next]
        /\ WriterAt(w[d], out[d], Domain[d])
    BY WalkAt
  <1>2. w[d].next \in 1..Len(Domain[d]) /\ Domain[d] \in Seq(Items) /\ A \in Pages
    BY <1>1, KeptIsPages, StreamAssumption DEF StreamAssumption, WriterAt
  <1>3. Item(d) \in Items /\ Item(d).list \in Lists
    BY <1>1, <1>2, ItemsListed
  <1>4. Walked(w[d], out[d], Domain[d])
    BY DEF WalkInv
  <1>5. Owing(w[d], Domain[d]) = "none" /\ Due(w[d]) = 0
    BY <1>1 DEF Owing, Due
  <1>6. out[d].index = NONE /\ Honest(w[d], A, Domain[d]) /\ Counted(w[d], A, "none", 0)
    BY <1>4, <1>5 DEF Walked
  <1> QED
    BY <1>1, <1>2, <1>3, <1>6

(* A writer between items, whatever its place in the file of its calls.    *)
LEMMA BetweenItems ==
  ASSUME NEW W, NEW O, NEW D, W.pc \in {"walk", "observing"}, W.row = NONE, O.index = NONE,
         Honest(W, Kept(W, O), D), Counted(W, Kept(W, O), "none", 0)
  PROVE  Walked(W, O, D)
  <1>1. Owing(W, D) = "none" /\ Due(W) = 0
    BY DEF Owing, Due
  <1> QED
    BY <1>1 DEF Walked

LEMMA OpenWalked ==
  ASSUME TypeInv, WalkInv, NEW d \in Drivers, Open(d)
  PROVE  WalkInv'
  <1> DEFINE W == [[w[d] EXCEPT !.buf = files] EXCEPT !.pc = "opening"]
             D == Domain[d]
  <1>1. /\ w[d] \in Writers /\ w[d].pc = "open" /\ Walked(w[d], out[d], D) /\ w[d].row = NONE
    BY DEF TypeInv, WriterTyped, WalkInv, Open, Idle
  <1>2. /\ W.pc = "opening" /\ W.next = w[d].next /\ W.row = w[d].row /\ W.page = w[d].page
        /\ W.stopped = w[d].stopped /\ W.stop = w[d].stop /\ W.gaps = w[d].gaps
        /\ W.visited = w[d].visited /\ W.unsupported = w[d].unsupported
    BY <1>1 DEF Writers
  <1>3. w' = [w EXCEPT ![d] = W] \/ w' = [w EXCEPT ![d] = Ended]
    BY DEF Open, Becomes
  <1>4. out' = out
    BY DEF Open
  <1> HIDE DEF W
  <1>5. Kept(W, out[d]) = Kept(w[d], out[d])
    BY <1>2, SameKept
  <1>6. /\ out[d].index = NONE /\ Honest(w[d], Kept(w[d], out[d]), D)
        /\ Counted(w[d], Kept(w[d], out[d]), "none", 0)
    BY <1>1 DEF Walked, Owing, Due
  <1>7. Honest(W, Kept(W, out[d]), D) /\ Counted(W, Kept(W, out[d]), "none", 0)
    BY <1>2, <1>5, <1>6, SameHonest, SameCounted
  <1>8. Walked(W, out[d], D)
    BY <1>1, <1>2, <1>6, <1>7 DEF Walked, Owing, Due
  <1>9. Walked(Ended, out[d], D)
    BY EndedWalked
  <1> QED
    BY <1>3, <1>4, <1>6, <1>8, <1>9, WalkKept

LEMMA OpenedWalked ==
  ASSUME TypeInv, WalkInv, NEW d \in Drivers, Opened(d)
  PROVE  WalkInv'
  <1> DEFINE n == (MAX_STREAM_BYTES - total[d]) \div MIN_PAGE_BYTES
             W == [w[d] EXCEPT !.pc = "walk", !.maxPages = n]
             O == [out[d] EXCEPT !.dir = TRUE]
             D == Domain[d]
  <1>1. /\ w[d] \in Writers /\ out[d] \in Outputs /\ w[d].pc = "opening"
        /\ Walked(w[d], out[d], D) /\ w[d].row = NONE
    BY DEF TypeInv, WriterTyped, WalkInv, Opened, Answered
  <1>2. \/ w' = [w EXCEPT ![d] = W] /\ out' = [out EXCEPT ![d] = O]
        \/ w' = [w EXCEPT ![d] = Ended] /\ out' = out
    BY <1>1 DEF Opened, Becomes, TypeInv
  <1> HIDE DEF n
  <1>3. /\ W.pc = "walk" /\ W.next = w[d].next /\ W.row = w[d].row /\ W.page = w[d].page
        /\ W.stopped = w[d].stopped /\ W.stop = w[d].stop /\ W.gaps = w[d].gaps
        /\ W.visited = w[d].visited /\ W.unsupported = w[d].unsupported
    BY <1>1 DEF Writers
  <1>4. O.rows = out[d].rows /\ O.index = out[d].index
    BY <1>1 DEF Outputs
  <1> HIDE DEF W, O
  <1>5. Kept(W, O) = Kept(w[d], out[d])
    BY <1>3, <1>4 DEF Kept
  <1>6. /\ out[d].index = NONE /\ Honest(w[d], Kept(w[d], out[d]), D)
        /\ Counted(w[d], Kept(w[d], out[d]), "none", 0)
    BY <1>1 DEF Walked, Owing, Due
  <1>7. Honest(W, Kept(W, O), D) /\ Counted(W, Kept(W, O), "none", 0)
    BY <1>3, <1>5, <1>6, SameHonest, SameCounted
  <1>8. Walked(W, O, D)
    BY <1>1, <1>3, <1>4, <1>6, <1>7, BetweenItems
  <1>9. Walked(Ended, out[d], D)
    BY EndedWalked
  <1> QED
    BY <1>2, <1>4, <1>6, <1>8, <1>9, WalkKept

LEMMA WorkLimitWalked ==
  ASSUME TypeInv, WalkInv, NEW d \in Drivers, WorkLimit(d)
  PROVE  WalkInv'
  <1> DEFINE W == Interrupted(w[d], "WorkLimit", "TraversalWorkLimit")
             A == Kept(w[d], out[d])
             D == Domain[d]
  <1>1. /\ w[d].pc = "walk" /\ AtItem(d)
        /\ w' = [w EXCEPT ![d] = IF Observational(d) THEN GiveUp(d, W) ELSE W]
        /\ out' = out
    BY DEF WorkLimit, Idle, Becomes
  <1>2. /\ w[d] \in Writers /\ out[d] \in Outputs /\ out[d].index = NONE
        /\ w[d].row = NONE /\ w[d].next \in 1..Len(D)
        /\ Honest(w[d], A, D) /\ Counted(w[d], A, "none", 0)
    BY <1>1, WalkHere
  <1>3. /\ W \in Writers /\ W.pc = w[d].pc /\ W.next = w[d].next /\ W.row = w[d].row
        /\ W.page = w[d].page /\ Honest(W, A, D) /\ Counted(W, A, "none", 0)
    <2>1. "WorkLimit" \in Stops /\ "TraversalWorkLimit" \in Gaps /\ "WorkLimit" # "EndOfDomain"
      BY DEF Stops, Gaps
    <2> HIDE DEF A
    <2> QED
      BY <1>2, <2>1, InterruptedHonest
  <1> HIDE DEF W
  <1>4. Kept(W, out[d]) = A
    BY <1>3, SameKept
  <1>5. Walked(W, out[d], D)
    BY <1>1, <1>2, <1>3, <1>4, BetweenItems
  <1>6. Observational(d) => Walked(GiveUp(d, W), out[d], D)
    BY <1>2, <1>3, <1>4, GiveUpWalked
  <1> QED
    BY <1>1, <1>2, <1>5, <1>6, WalkKept

LEMMA ObserveWalked ==
  ASSUME TypeInv, WalkInv, NEW d \in Drivers, Observe(d)
  PROVE  WalkInv'
  <1> DEFINE W == [w[d] EXCEPT !.pc = "observing", !.events = @ + 1]
             A == Kept(w[d], out[d])
             D == Domain[d]
  <1>1. /\ w[d].pc = "walk" /\ AtItem(d) /\ w' = [w EXCEPT ![d] = W] /\ out' = out
    BY DEF Observe, Idle, Becomes
  <1>2. /\ w[d] \in Writers /\ out[d].index = NONE /\ w[d].row = NONE
        /\ Honest(w[d], A, D) /\ Counted(w[d], A, "none", 0)
    BY <1>1, WalkHere
  <1>3. /\ W.pc = "observing" /\ W.next = w[d].next /\ W.row = w[d].row /\ W.page = w[d].page
        /\ W.stopped = w[d].stopped /\ W.stop = w[d].stop /\ W.gaps = w[d].gaps
        /\ W.visited = w[d].visited /\ W.unsupported = w[d].unsupported
    BY <1>2 DEF Writers
  <1> HIDE DEF W
  <1>4. Kept(W, out[d]) = A
    BY <1>3, SameKept
  <1>5. Honest(W, A, D) /\ Counted(W, A, "none", 0)
    BY <1>2, <1>3, SameHonest, SameCounted
  <1>6. Walked(W, out[d], D)
    BY <1>2, <1>3, <1>4, <1>5, BetweenItems
  <1> QED
    BY <1>1, <1>2, <1>6, WalkKept

LEMMA RowAdmittedWalked ==
  ASSUME TypeInv, WalkInv, NEW d \in Drivers, RowAdmitted(d)
  PROVE  WalkInv'
  <1> DEFINE D == Domain[d]
             A == Kept(w[d], out[d])
             I == Interrupted(w[d], "OutputLimit", "OutputLimit")
             V == [w[d] EXCEPT !.visited["ref"] = @ + 1]
  <1>1. /\ w[d].pc = "observing" /\ D \in Seq(Items) /\ Len(D) \in Nat /\ DOMAIN D = 1..Len(D)
    BY StreamAssumption DEF StreamAssumption, RowAdmitted, Answered
  <1>2. /\ w[d] \in Writers /\ out[d] \in Outputs /\ w[d].row = NONE
        /\ w[d].next \in 1..Len(D) /\ D[w[d].next].of # "hir"
    BY <1>1 DEF TypeInv, WriterTyped
  <1>3. Observational(d) /\ Item(d).list = "ref"
    BY <1>1, <1>2, StreamAssumption DEF StreamAssumption, Observational, Item
  <1>4. out[d].index = NONE /\ Honest(w[d], A, D) /\ Counted(w[d], A, "none", 0)
    <2>1. Walked(w[d], out[d], D)
      BY DEF WalkInv
    <2> QED
      BY <1>1, <1>2, <2>1 DEF Walked, Owing, Due
  <1>5. /\ I \in Writers /\ I.next = w[d].next /\ I.row = w[d].row
        /\ I.page = w[d].page /\ Honest(I, A, D) /\ Counted(I, A, "none", 0)
    <2>1. "OutputLimit" \in Stops /\ "OutputLimit" \in Gaps /\ "OutputLimit" # "EndOfDomain"
      BY DEF Stops, Gaps
    <2> HIDE DEF A
    <2> QED
      BY <1>2, <1>4, <2>1, InterruptedHonest
  <1>6. /\ V \in Writers /\ V.next = w[d].next /\ V.row = w[d].row
        /\ V.page = w[d].page /\ Honest(V, A, D) /\ Counted(V, A, "ref", 0)
    <2>1. "ref" \in Lists /\ A \in Pages
      BY <1>2, KeptIsPages DEF Lists
    <2> HIDE DEF A
    <2> QED
      BY <1>2, <1>4, <2>1, VisitedHonest
  <1>7. /\ \/ w' = [w EXCEPT ![d] = GiveUp(d, I)] \/ w' = [w EXCEPT ![d] = GiveUp(d, w[d])]
           \/ w' = [w EXCEPT ![d] = Place(d, V, NONE)]
        /\ out' = out
    BY DEF RowAdmitted, Becomes
  <1> HIDE DEF I, V
  <1>8. Kept(I, out[d]) = A /\ Kept(V, out[d]) = A
    BY <1>5, <1>6, SameKept
  <1>9. Walked(GiveUp(d, I), out[d], D)
    BY <1>2, <1>3, <1>4, <1>5, <1>8, GiveUpWalked
  <1>10. Walked(GiveUp(d, w[d]), out[d], D)
    BY <1>2, <1>3, <1>4, GiveUpWalked
  <1>11. Walked(Place(d, V, NONE), out[d], D)
    BY <1>2, <1>3, <1>4, <1>6, <1>8, PlaceWalked
  <1> QED
    BY <1>4, <1>7, <1>9, <1>10, <1>11, WalkKept

LEMMA DueLess ==
  ASSUME NEW W \in Writers, NEW A, NEW list, Counted(W, A, list, 1)
  PROVE  Counted(W, A, list, 0)
  <1>1. W.unsupported + 1 <= W.visited["def"] + W.visited["ref"]
    BY DEF Counted
  <1>2. W.unsupported \in Nat /\ W.visited["def"] \in Nat /\ W.visited["ref"] \in Nat
    BY DEF Writers, Lists
  <1>3. W.unsupported + 0 <= W.visited["def"] + W.visited["ref"]
    BY <1>1, <1>2
  <1> QED
    BY <1>3 DEF Counted

LEMMA VisitWalked ==
  ASSUME TypeInv, WalkInv, NEW d \in Drivers, Visit(d)
  PROVE  WalkInv'
  <1> DEFINE D == Domain[d]
             A == Kept(w[d], out[d])
             s == Item(d).src
             k == Item(d).list
             E == [w[d] EXCEPT !.events = @ + 1]
             W == [w[d] EXCEPT !.events = @ + 1, !.visited[Item(d).list] = @ + 1]
             C == [W EXCEPT !.pc = "charging"]
             U == Unsupported(W, "Unsupported")
             N == [U EXCEPT !.next = @ + 1]
             B == Unsupported(W, "SourceUnavailable")
  <1>1. /\ w[d].pc = "walk" /\ AtItem(d) /\ ~Observational(d)
        /\ \/ w' = [w EXCEPT ![d] = C]
           \/ w' = [w EXCEPT ![d] = N] /\ ~Item(d).fits
           \/ w' = [w EXCEPT ![d] = Place(d, B, NONE)]
           \/ w' = [w EXCEPT ![d] = Place(d, W, Input(d, s))] /\ s # NONE /\ s \in W.sources
        /\ out' = out
    BY DEF Visit, Idle, Becomes
  <1>2. /\ w[d] \in Writers /\ out[d] \in Outputs /\ out[d].index = NONE /\ A \in Pages
        /\ w[d].row = NONE /\ w[d].next \in 1..Len(D) /\ D \in Seq(Items)
        /\ Item(d) = D[w[d].next] /\ Item(d) \in Items /\ k \in Lists
        /\ Honest(w[d], A, D) /\ Counted(w[d], A, "none", 0)
    BY <1>1, WalkHere
  <1>3. Item(d).of = "hir" /\ k = D[w[d].next].list
    BY <1>1, <1>2 DEF Observational
  <1>4. /\ E \in Writers /\ E.pc = "walk" /\ E.next = w[d].next /\ E.row = NONE
        /\ E.page = w[d].page /\ Honest(E, A, D) /\ Counted(E, A, "none", 0)
    <2>1. w[d].events + 1 \in Nat
      BY <1>2 DEF Writers
    <2>2. /\ E \in Writers /\ E.pc = "walk" /\ E.next = w[d].next /\ E.row = NONE
          /\ E.page = w[d].page /\ E.stopped = w[d].stopped /\ E.stop = w[d].stop
          /\ E.gaps = w[d].gaps /\ E.visited = w[d].visited /\ E.unsupported = w[d].unsupported
      BY <1>1, <1>2, <2>1 DEF Writers
    <2> HIDE DEF E, A
    <2> QED
      BY <1>2, <2>2, SameHonest, SameCounted
  <1>5. W = [E EXCEPT !.visited[Item(d).list] = @ + 1]
    BY <1>2 DEF Writers
  <1>6. /\ W \in Writers /\ W.pc = "walk" /\ W.next = w[d].next /\ W.row = NONE
        /\ W.page = w[d].page /\ Honest(W, A, D)
        /\ Counted(W, A, k, 1) /\ Counted(W, A, k, 0)
    <2> HIDE DEF E, W, A
    <2> QED
      BY <1>2, <1>4, <1>5, VisitedHonest
  <1>7. W.sources = w[d].sources
    BY <1>2 DEF Writers
  <1> HIDE DEF E, W
  <1>8. Walked(C, out[d], D)
    <2>1. /\ C.pc = "charging" /\ C.next = W.next /\ C.row = W.row /\ C.page = W.page
          /\ C.stopped = W.stopped /\ C.stop = W.stop /\ C.gaps = W.gaps
          /\ C.visited = W.visited /\ C.unsupported = W.unsupported
      BY <1>6 DEF Writers
    <2> HIDE DEF C
    <2>2. Kept(C, out[d]) = A
      BY <1>6, <2>1, SameKept
    <2> HIDE DEF A, k
    <2>3. Honest(C, A, D) /\ Counted(C, A, k, 1)
      BY <1>6, <2>1, SameHonest, SameCounted
    <2>4. Owing(C, D) = k /\ Due(C) = 1
      BY <1>3, <1>6, <2>1 DEF Owing, Due
    <2> QED
      BY <1>2, <1>6, <2>1, <2>2, <2>3, <2>4 DEF Walked
  <1>9. /\ U \in Writers /\ U.pc = W.pc /\ U.next = W.next /\ U.row = W.row /\ U.page = W.page
        /\ U.gaps = W.gaps \union {"Unsupported"} /\ Honest(U, A, D) /\ Counted(U, A, k, 0)
    <2>1. "Unsupported" \in Gaps
      BY DEF Gaps
    <2> HIDE DEF A, k
    <2> QED
      BY <1>6, <2>1, UnsupportedHonest
  <1>10. /\ B \in Writers /\ B.next = W.next /\ B.row = W.row /\ B.page = W.page
         /\ Honest(B, A, D) /\ Counted(B, A, k, 0)
    <2>1. "SourceUnavailable" \in Gaps
      BY DEF Gaps
    <2> HIDE DEF A, k
    <2> QED
      BY <1>6, <2>1, UnsupportedHonest
  <1> HIDE DEF U, B
  <1>11. ~Item(d).fits => Walked(N, out[d], D)
    <2> HAVE ~Item(d).fits
    <2>1. U.next \in Nat /\ U.next + 1 \in Nat /\ U.next <= U.next + 1 /\ U.next = w[d].next
      BY <1>6, <1>9 DEF Writers
    <2>2. /\ N \in Writers /\ N.pc = "walk" /\ N.next = U.next + 1 /\ N.row = NONE
          /\ N.page = w[d].page
          /\ N.stopped = U.stopped /\ N.stop = U.stop /\ N.gaps = U.gaps
          /\ N.visited = U.visited /\ N.unsupported = U.unsupported
      BY <1>6, <1>9, <2>1 DEF Writers
    <2> HIDE DEF N
    <2>3. Kept(N, out[d]) = A
      BY <2>2, SameKept
    <2> HIDE DEF A, k
    <2>4. \A l \in Lists : Ordered(A[l], U.next + 1)
      <3>1. \A l \in Lists : A[l] \in Seq(Rows) /\ Ordered(A[l], U.next)
        BY <1>2, <1>9 DEF Pages, Honest
      <3> QED
        BY <2>1, <3>1, OrderedMore
    <2>5. ASSUME U.stop = "EndOfDomain", NEW i \in 1..(U.next + 1 - 1)
          PROVE  Explained(A, U.gaps, D, i)
      <3>1. CASE i \in 1..(U.next - 1)
        BY <1>9, <2>5, <3>1 DEF Honest
      <3>2. CASE i = U.next
        BY <1>2, <1>3, <1>9, <2>1, <3>2 DEF Explained
      <3> QED
        BY <2>1, <2>5, <3>1, <3>2
    <2>6. N.next - 1 = U.next + 1 - 1
      BY <2>1, <2>2
    <2>7. Honest(N, A, D)
      BY <1>9, <2>2, <2>4, <2>5, <2>6 DEF Honest
    <2>8. Counted(N, A, "none", 0)
      <3>1. U.gaps # {} /\ \A l \in Lists : Len(A[l]) \in Nat
        BY <1>9, <1>2 DEF Pages
      <3>2. \A l \in Lists : Len(A[l]) <= Len(A[l])
        BY <3>1
      <3>3. Counted(U, A, "none", 0)
        BY <1>2, <1>9, <3>1, <3>2, FewerCounted
      <3> QED
        BY <2>2, <3>3, SameCounted
    <2> QED
      BY <1>2, <2>2, <2>3, <2>7, <2>8, BetweenItems
  <1> HIDE DEF C, N
  <1>12. Walked(Place(d, B, NONE), out[d], D)
    <2>1. Kept(B, out[d]) = A
      BY <1>6, <1>10, SameKept
    <2> QED
      BY <1>2, <1>6, <1>10, <2>1, PlaceWalked
  <1>13. s # NONE /\ s \in W.sources => Walked(Place(d, W, Input(d, s)), out[d], D)
    <2> HAVE s # NONE /\ s \in W.sources
    <2>1. Kept(W, out[d]) = A
      BY <1>6, SameKept
    <2>2. s \in Sources
      <3>1. WriterTyped(w[d], out[d], D) /\ ~w[d].stopped
        BY <1>1 DEF TypeInv, AtItem
      <3>2. s \in Sources \union Huge
        BY <1>2, <1>7 DEF Writers
      <3> QED
        BY <1>7, <3>1, <3>2 DEF WriterTyped
    <2>3. Input(d, s) \in Inputs
      BY <1>2, <2>2 DEF Input, Inputs, Writers
    <2> QED
      BY <1>2, <1>6, <2>1, <2>3, PlaceWalked
  <1>14. CASE w' = [w EXCEPT ![d] = C]
    BY <1>1, <1>2, <1>8, <1>14, WalkKept
  <1>15. CASE w' = [w EXCEPT ![d] = N] /\ ~Item(d).fits
    BY <1>1, <1>2, <1>11, <1>15, WalkKept
  <1>16. CASE w' = [w EXCEPT ![d] = Place(d, B, NONE)]
    BY <1>1, <1>2, <1>12, <1>16, WalkKept
  <1>17. CASE w' = [w EXCEPT ![d] = Place(d, W, Input(d, s))] /\ s # NONE /\ s \in W.sources
    BY <1>1, <1>2, <1>13, <1>17, WalkKept
  <1> QED
    BY <1>1, <1>14, <1>15, <1>16, <1>17

LEMMA LocatedWalked ==
  ASSUME TypeInv, WalkInv, NEW d \in Drivers, Located(d)
  PROVE  WalkInv'
  <1> DEFINE D == Domain[d]
             A == Kept(w[d], out[d])
             s == Item(d).src
             k == Item(d).list
             W == [w[d] EXCEPT !.sources = @ \union {s}]
             R == Interrupted(w[d], "OutputLimit", "OutputLimit")
             X == Unsupported(R, "OutputLimit")
             H == Interrupted(W, "SourceWorkLimit", "SourceWorkLimit")
             Y == Unsupported(H, "SourceUnavailable")
  <1>1. /\ D \in Seq(Items) /\ w[d].pc = "charging"
        /\ "OutputLimit" \in Stops /\ "OutputLimit" \in Gaps /\ "OutputLimit" # "EndOfDomain"
        /\ "SourceWorkLimit" \in Stops /\ "SourceWorkLimit" \in Gaps
        /\ "SourceWorkLimit" # "EndOfDomain" /\ "SourceUnavailable" \in Gaps
    BY StreamAssumption DEF StreamAssumption, Located, Answered, Stops, Gaps
  <1>2. /\ \/ w' = [w EXCEPT ![d] = Place(d, X, NONE)]
           \/ w' = [w EXCEPT ![d] = Place(d, Y, NONE)]
           \/ w' = [w EXCEPT ![d] = Place(d, W, Input(d, s))] /\ s \notin Huge
        /\ out' = out
    BY DEF Located, Becomes
  <1>3. WriterTyped(w[d], out[d], D) /\ out[d] \in Outputs /\ w[d] \in Writers
        /\ Walked(w[d], out[d], D)
    BY DEF TypeInv, WalkInv
  <1>4. /\ w[d].row = NONE /\ w[d].next \in 1..Len(D) /\ s \in Sources \union Huge
        /\ k = D[w[d].next].list
    BY <1>1, <1>3 DEF WriterTyped, Item
  <1>5. out[d].index = NONE /\ Honest(w[d], A, D) /\ Counted(w[d], A, k, 1)
    <2>1. Owing(w[d], D) = k /\ Due(w[d]) = 1
      BY <1>1, <1>4 DEF Owing, Due
    <2> QED
      BY <1>1, <1>3, <2>1 DEF Walked
  <1>6. /\ W \in Writers /\ W.next = w[d].next /\ W.row = NONE /\ W.page = w[d].page
        /\ Honest(W, A, D) /\ Counted(W, A, k, 1)
    <2>1. /\ W \in Writers /\ W.next = w[d].next /\ W.row = NONE /\ W.page = w[d].page
          /\ W.stopped = w[d].stopped /\ W.stop = w[d].stop /\ W.gaps = w[d].gaps
          /\ W.visited = w[d].visited /\ W.unsupported = w[d].unsupported
      BY <1>3, <1>4 DEF Writers
    <2> HIDE DEF W, A, k
    <2> QED
      BY <1>5, <2>1, SameHonest, SameCounted
  <1> HIDE DEF W
  <1>7. /\ R \in Writers /\ R.next = w[d].next /\ R.row = w[d].row /\ R.page = w[d].page
        /\ Honest(R, A, D) /\ Counted(R, A, k, 1)
    <2> HIDE DEF A, k
    <2> QED
      BY <1>1, <1>3, <1>5, InterruptedHonest
  <1>8. /\ H \in Writers /\ H.next = W.next /\ H.row = W.row /\ H.page = W.page
        /\ Honest(H, A, D) /\ Counted(H, A, k, 1)
    <2> HIDE DEF A, k
    <2> QED
      BY <1>1, <1>6, InterruptedHonest
  <1> HIDE DEF R, H
  <1>9. /\ X \in Writers /\ X.next = R.next /\ X.row = R.row /\ X.page = R.page
        /\ Honest(X, A, D) /\ Counted(X, A, k, 0)
    <2> HIDE DEF A, k
    <2> QED
      BY <1>1, <1>7, UnsupportedHonest
  <1>10. /\ Y \in Writers /\ Y.next = H.next /\ Y.row = H.row /\ Y.page = H.page
         /\ Honest(Y, A, D) /\ Counted(Y, A, k, 0)
    <2> HIDE DEF A, k
    <2> QED
      BY <1>1, <1>8, UnsupportedHonest
  <1> HIDE DEF X, Y
  <1>11. Counted(W, A, k, 0)
    BY <1>6, DueLess
  <1>12. Kept(X, out[d]) = A /\ Kept(Y, out[d]) = A /\ Kept(W, out[d]) = A
    BY <1>6, <1>7, <1>8, <1>9, <1>10, SameKept
  <1>13. Walked(Place(d, X, NONE), out[d], D)
    BY <1>3, <1>4, <1>5, <1>7, <1>9, <1>12, PlaceWalked
  <1>14. Walked(Place(d, Y, NONE), out[d], D)
    BY <1>3, <1>4, <1>5, <1>6, <1>8, <1>10, <1>12, PlaceWalked
  <1>15. s \notin Huge => Walked(Place(d, W, Input(d, s)), out[d], D)
    <2> HAVE s \notin Huge
    <2>1. Input(d, s) \in Inputs
      BY <1>3, <1>4 DEF Input, Inputs, Writers
    <2> QED
      BY <1>3, <1>4, <1>5, <1>6, <1>11, <1>12, <2>1, PlaceWalked
  <1>16. CASE w' = [w EXCEPT ![d] = Place(d, X, NONE)]
    BY <1>2, <1>5, <1>13, <1>16, WalkKept
  <1>17. CASE w' = [w EXCEPT ![d] = Place(d, Y, NONE)]
    BY <1>2, <1>5, <1>14, <1>17, WalkKept
  <1>18. CASE w' = [w EXCEPT ![d] = Place(d, W, Input(d, s))] /\ s \notin Huge
    BY <1>2, <1>5, <1>15, <1>18, WalkKept
  <1> QED
    BY <1>2, <1>16, <1>17, <1>18

(* A driver that is about to flush.                                        *)
LEMMA FlushHere ==
  ASSUME TypeInv, WalkInv, NEW d \in Drivers,
         w[d].pc \in {"flush", "flushing"} \/ (w[d].pc = "walk" /\ ~AtItem(d))
  PROVE  LET W == w[d]
             O == out[d]
             D == Domain[d]
             A == Kept(W, O) IN
         /\ W \in Writers /\ O \in Outputs /\ O.index = NONE /\ D \in Seq(Items)
         /\ W.next \in 1..(Len(D) + 1) /\ W.pc # "charging"
         /\ Honest(W, A, D) /\ Counted(W, A, Owing(W, D), 0)
         /\ W.row # NONE => /\ W.next <= Len(D) /\ W.row.list = D[W.next].list
                            /\ W.row.ord = Len(A[W.row.list]) /\ W.row.pos = W.next
         /\ W.row = NONE => Through(W, D)
  <1> DEFINE W == w[d]
             O == out[d]
             D == Domain[d]
             A == Kept(W, O)
  <1>1. /\ W \in Writers /\ O \in Outputs /\ D \in Seq(Items) /\ WriterTyped(W, O, D)
        /\ Walked(W, O, D)
    BY StreamAssumption DEF StreamAssumption, TypeInv, WalkInv
  <1>2. Due(W) = 0 /\ W.pc # "charging" /\ W.pc # "end"
    BY DEF Due
  <1>3. /\ O.index = NONE /\ Honest(W, A, D) /\ Counted(W, A, Owing(W, D), 0)
        /\ W.row # NONE => W.row.ord = Len(A[W.row.list]) /\ W.row.pos = W.next
        /\ W.pc = "flushing" /\ W.row = NONE => Through(W, D)
    BY <1>1, <1>2 DEF Walked
  <1>4. /\ W.next \in 1..(Len(D) + 1)
        /\ W.row # NONE => W.next <= Len(D) /\ W.row.list = D[W.next].list
        /\ W.pc = "flush" => W.row # NONE
    BY <1>1 DEF WriterTyped
  <1>5. W.pc = "walk" => Through(W, D)
    <2> HAVE W.pc = "walk"
    <2>1. W.stopped \/ ~(W.next <= Len(D))
      BY DEF AtItem
    <2>2. W.stopped => W.stop # "EndOfDomain"
      BY <1>3 DEF Honest
    <2>3. Len(D) \in Nat /\ W.next \in Nat
      BY <1>1 DEF Writers
    <2> HIDE DEF W, D
    <2> QED
      BY <2>1, <2>2, <2>3 DEF Through
  <1> QED
    BY <1>1, <1>2, <1>3, <1>4, <1>5

LEMMA InterruptedLost ==
  ASSUME NEW W \in Writers, NEW O \in Outputs, NEW D \in Seq(Items), O.index = NONE,
         W.next \in 1..(Len(D) + 1), NEW stop \in Stops, stop # "EndOfDomain", NEW gap \in Gaps,
         W.pc # "charging",
         Honest(W, Kept(W, O), D), Counted(W, Kept(W, O), Owing(W, D), 0)
  PROVE  Walked(AfterFlush(Interrupted(W, stop, gap), FALSE), O, D)
  <1> DEFINE I == Interrupted(W, stop, gap)
             A == Kept(W, O)
  <1>1. /\ I \in Writers /\ I.pc = W.pc /\ I.next = W.next /\ I.row = W.row /\ I.page = W.page
        /\ I.stop = stop /\ Honest(I, A, D) /\ Counted(I, A, Owing(W, D), 0)
    <2>1. Honest(W, A, D) /\ Counted(W, A, Owing(W, D), 0)
      OBVIOUS
    <2> HIDE DEF A
    <2> QED
      BY <2>1, InterruptedHonest
  <1> HIDE DEF I
  <1>2. Kept(I, O) = A /\ Owing(I, D) = Owing(W, D)
    BY <1>1, SameKept DEF Owing
  <1>3. Walked(AfterFlush(I, FALSE), O, D)
    BY <1>1, <1>2, LostWalked
  <1> QED
    BY <1>3 DEF I

LEMMA FlushWalked ==
  ASSUME TypeInv, WalkInv, NEW d \in Drivers, Flush(d)
  PROVE  WalkInv'
  <1> DEFINE W == w[d]
             O == out[d]
             D == Domain[d]
             A == Kept(W, O)
             I == Interrupted(W, "OutputLimit", "OutputLimit")
             F == [w[d] EXCEPT !.pc = "flushing"]
  <1>1. /\ w[d].pc = "flush" \/ (w[d].pc = "walk" /\ ~AtItem(d))
        /\ \/ w' = [w EXCEPT ![d] = AfterFlush(W, TRUE)] /\ W.page = NoRows
           \/ w' = [w EXCEPT ![d] = AfterFlush(I, FALSE)]
           \/ w' = [w EXCEPT ![d] = F]
        /\ out' = out
    BY DEF Flush, Becomes, Goto, Idle
  <1>2. /\ W \in Writers /\ O \in Outputs /\ O.index = NONE /\ D \in Seq(Items)
        /\ W.next \in 1..(Len(D) + 1) /\ W.pc # "charging"
        /\ Honest(W, A, D) /\ Counted(W, A, Owing(W, D), 0)
        /\ W.row # NONE => /\ W.next <= Len(D) /\ W.row.list = D[W.next].list
                           /\ W.row.ord = Len(A[W.row.list]) /\ W.row.pos = W.next
        /\ W.row = NONE => Through(W, D)
    BY <1>1, FlushHere
  <1>3. W.page = NoRows => Walked(AfterFlush(W, TRUE), O, D)
    <2> HAVE W.page = NoRows
    <2>1. \A k \in Lists : O.rows[k] = A[k]
      <3> SUFFICES ASSUME NEW k \in Lists PROVE O.rows[k] = A[k]
        OBVIOUS
      <3>1. O.rows[k] \in Seq(Rows) /\ NoRows[k] = <<>>
        BY <1>2 DEF Outputs, Pages, NoRows
      <3>2. A[k] = O.rows[k] \o NoRows[k]
        BY DEF Kept
      <3> QED
        BY <3>1, <3>2, ConcatEmptySeq
    <2> QED
      BY <1>2, <2>1, FlushedWalked
  <1>4. Walked(AfterFlush(I, FALSE), O, D)
    <2>1. "OutputLimit" \in Stops /\ "OutputLimit" \in Gaps /\ "OutputLimit" # "EndOfDomain"
      BY DEF Stops, Gaps
    <2> QED
      BY <1>2, <2>1, InterruptedLost
  <1>5. Walked(F, O, D)
    <2>1. /\ F.pc = "flushing" /\ F.next = W.next /\ F.row = W.row /\ F.page = W.page
          /\ F.stopped = W.stopped /\ F.stop = W.stop /\ F.gaps = W.gaps
          /\ F.visited = W.visited /\ F.unsupported = W.unsupported
      BY <1>2 DEF Writers
    <2> HIDE DEF F, W
    <2>2. Kept(F, O) = A
      BY <2>1, SameKept
    <2> HIDE DEF A
    <2>3. Honest(F, A, D) /\ Counted(F, A, Owing(W, D), 0)
      BY <1>2, <2>1, SameHonest, SameCounted
    <2>4. Owing(F, D) = Owing(W, D) /\ Due(F) = 0 /\ (W.row = NONE => Through(F, D))
      BY <1>2, <2>1 DEF Owing, Due, Through
    <2> QED
      BY <1>2, <2>1, <2>2, <2>3, <2>4 DEF Walked
  <1> HIDE DEF F, I
  <1> QED
    BY <1>1, <1>2, <1>3, <1>4, <1>5, WalkKept

LEMMA FlushedStep ==
  ASSUME TypeInv, WalkInv, NEW d \in Drivers, Flushed(d)
  PROVE  WalkInv'
  <1> DEFINE W == w[d]
             O == out[d]
             D == Domain[d]
             A == Kept(W, O)
             N == WithPage(O, W.page)
             I == Interrupted(W, "OutputLimit", "OutputLimit")
             J == Interrupted(W, "PublicationInterrupted", "PublicationInterrupted")
  <1>1. /\ w[d].pc = "flushing"
        /\ \/ w' = [w EXCEPT ![d] = AfterFlush(W, TRUE)] /\ out' = [out EXCEPT ![d] = N]
           \/ w' = [w EXCEPT ![d] = AfterFlush(J, FALSE)] /\ out' = out
           \/ w' = [w EXCEPT ![d] = AfterFlush(I, FALSE)] /\ out' = out
    BY DEF Flushed, Becomes, Answered, TypeInv
  <1>2. /\ W \in Writers /\ O \in Outputs /\ O.index = NONE /\ D \in Seq(Items)
        /\ W.next \in 1..(Len(D) + 1) /\ W.pc # "charging"
        /\ Honest(W, A, D) /\ Counted(W, A, Owing(W, D), 0)
        /\ W.row # NONE => /\ W.next <= Len(D) /\ W.row.list = D[W.next].list
                           /\ W.row.ord = Len(A[W.row.list]) /\ W.row.pos = W.next
        /\ W.row = NONE => Through(W, D)
    BY <1>1, FlushHere
  <1>3. N \in Outputs /\ N.index = NONE /\ \A k \in Lists : N.rows[k] = A[k]
    <2>1. /\ N \in Outputs /\ N.rows = [k \in Lists |-> O.rows[k] \o W.page[k]]
          /\ N.index = O.index
      BY <1>2, WithPageTyped DEF Writers
    <2> HIDE DEF N
    <2> QED
      BY <1>2, <2>1 DEF Kept
  <1> HIDE DEF N
  <1>4. Walked(AfterFlush(W, TRUE), N, D)
    BY <1>2, <1>3, FlushedWalked
  <1>5. Walked(AfterFlush(I, FALSE), O, D) /\ Walked(AfterFlush(J, FALSE), O, D)
    <2>1. /\ "OutputLimit" \in Stops /\ "OutputLimit" \in Gaps /\ "OutputLimit" # "EndOfDomain"
          /\ "PublicationInterrupted" \in Stops /\ "PublicationInterrupted" \in Gaps
          /\ "PublicationInterrupted" # "EndOfDomain"
      BY DEF Stops, Gaps
    <2> QED
      BY <1>2, <2>1, InterruptedLost
  <1> HIDE DEF I, J, W, D
  <1>6. CASE w' = [w EXCEPT ![d] = AfterFlush(W, TRUE)] /\ out' = [out EXCEPT ![d] = N]
    BY <1>3, <1>4, <1>6, WalkKept DEF D
  <1>7. CASE w' = [w EXCEPT ![d] = AfterFlush(J, FALSE)] /\ out' = out
    BY <1>2, <1>5, <1>7, WalkKept DEF D
  <1>8. CASE w' = [w EXCEPT ![d] = AfterFlush(I, FALSE)] /\ out' = out
    BY <1>2, <1>5, <1>8, WalkKept DEF D
  <1> QED
    BY <1>1, <1>6, <1>7, <1>8

(* The index of a writer that is through is one the session accepts.       *)
LEMMA WriteIndexWalked ==
  ASSUME TypeInv, WalkInv, NEW d \in Drivers, WriteIndex(d)
  PROVE  WalkInv'
  <1> DEFINE W == w[d]
             O == out[d]
             D == Domain[d]
             T == Terminal(d)
             N == [out[d] EXCEPT !.index = T]
  <1>1. /\ w' = [w EXCEPT ![d] = Ended]
        /\ out' = [out EXCEPT ![d] = N] \/ out' = out
        /\ W.pc = "index"
    BY DEF WriteIndex, Becomes, TypeInv, Idle
  <1>2. /\ W \in Writers /\ O \in Outputs /\ D \in Seq(Items) /\ DOMAIN D = 1..Len(D)
        /\ Len(D) \in Nat /\ Walked(W, O, D) /\ W.row = NONE
    <2>1. D \in Seq(Items)
      BY StreamAssumption DEF StreamAssumption
    <2>2. DOMAIN D = 1..Len(D) /\ Len(D) \in Nat
      BY <2>1
    <2>3. /\ W \in Writers /\ O \in Outputs /\ Walked(W, O, D) /\ WriterTyped(W, O, D)
      BY DEF TypeInv, WalkInv
    <2>4. W.row = NONE
      BY <1>1, <2>3 DEF WriterTyped
    <2> QED
      BY <2>1, <2>2, <2>3, <2>4
  <1>3. /\ O.index = NONE /\ Honest(W, Kept(W, O), D) /\ Counted(W, Kept(W, O), "none", 0)
        /\ W.page = NoRows /\ Through(W, D)
    BY <1>1, <1>2 DEF Walked, Owing, Due
  <1>4. Kept(W, O) = O.rows
    <2>1. \A k \in Lists : O.rows[k] \o NoRows[k] = O.rows[k]
      <3> SUFFICES ASSUME NEW k \in Lists PROVE O.rows[k] \o NoRows[k] = O.rows[k]
        OBVIOUS
      <3>1. O.rows[k] \in Seq(Rows) /\ NoRows[k] = <<>>
        BY <1>2 DEF Outputs, Pages, NoRows
      <3> QED
        BY <3>1, ConcatEmptySeq
    <2>2. O.rows = [k \in Lists |-> O.rows[k]]
      BY <1>2 DEF Outputs, Pages
    <2>3. Kept(W, O) = [k \in Lists |-> O.rows[k] \o NoRows[k]]
      BY <1>3 DEF Kept
    <2>4. [k \in Lists |-> O.rows[k] \o NoRows[k]] = [k \in Lists |-> O.rows[k]]
      BY <2>1
    <2> QED
      BY <2>2, <2>3, <2>4
  <1>5. /\ T.stop = W.stop /\ T.gaps = W.gaps /\ T.visited = W.visited
        /\ \A k \in Lists : T.emitted[k] = Len(O.rows[k])
        /\ T.unsupported = W.unsupported /\ T.pages = O.pages
        /\ T.omitted = W.visited["def"] + W.visited["ref"] - Len(O.rows["def"]) - Len(O.rows["ref"])
    BY DEF Terminal, Lists
  <1> HIDE DEF T
  <1>6. N.index = T /\ N.rows = O.rows /\ N.pages = O.pages
    BY <1>2 DEF Outputs
  <1>7. \A k \in Lists : O.rows[k] \in Seq(Rows) /\ Len(O.rows[k]) \in Nat
                         /\ DOMAIN O.rows[k] = 1..Len(O.rows[k]) /\ W.visited[k] \in Nat
    <2>1. \A k \in Lists : O.rows[k] \in Seq(Rows) /\ W.visited[k] \in Nat
      BY <1>2 DEF Outputs, Pages, Writers
    <2>2. \A s \in Seq(Rows) : Len(s) \in Nat /\ DOMAIN s = 1..Len(s)
      OBVIOUS
    <2> HIDE DEF O, W
    <2> QED
      BY <2>1, <2>2
  <1>8. /\ \A k \in Lists : Ordered(O.rows[k], W.next)
        /\ \A k \in Lists : /\ Len(O.rows[k]) <= W.visited[k]
                            /\ W.gaps = {} => W.visited[k] = Len(O.rows[k])
        /\ W.unsupported <= W.visited["def"] + W.visited["ref"]
        /\ W.stop # "EndOfDomain" => W.gaps # {}
        /\ W.stop = "EndOfDomain" => \A i \in 1..Len(D) : Explained(O.rows, W.gaps, D, i)
    <2>1. \A k \in Lists : Owed(k, "none") = 0
      BY DEF Owed, Lists
    <2>2. /\ Honest(W, O.rows, D) /\ Counted(W, O.rows, "none", 0)
      BY <1>3, <1>4
    <2>3. W.unsupported \in Nat /\ W.next \in Nat
      BY <1>2 DEF Writers
    <2>4. W.unsupported + 0 <= W.visited["def"] + W.visited["ref"]
      BY <2>2 DEF Counted
    <2>5. \A k \in Lists : /\ Len(O.rows[k]) + 0 <= W.visited[k]
                           /\ W.gaps = {} => W.visited[k] = Len(O.rows[k]) + 0
      BY <2>1, <2>2 DEF Counted
    <2> HIDE DEF O, W, D
    <2>6. W.stop = "EndOfDomain" => \A i \in 1..Len(D) : Explained(O.rows, W.gaps, D, i)
      <3> SUFFICES ASSUME W.stop = "EndOfDomain", NEW i \in 1..Len(D)
                   PROVE  Explained(O.rows, W.gaps, D, i)
        OBVIOUS
      <3>1. W.next > Len(D)
        BY <1>3 DEF Through
      <3>2. i \in 1..(W.next - 1)
        BY <1>2, <2>3, <3>1
      <3> QED
        BY <2>2, <3>2 DEF Honest
    <2> QED
      BY <1>7, <2>2, <2>3, <2>4, <2>5, <2>6 DEF Honest
  <1>9. ASSUME out' = [out EXCEPT ![d] = N]
        PROVE  out'[d].index = T /\ out'[d].rows = O.rows /\ out'[d].pages = O.pages
    BY <1>6, <1>9 DEF TypeInv
  <1>10. "def" \in Lists /\ "ref" \in Lists
    BY DEF Lists
  <1>11. ASSUME out' = [out EXCEPT ![d] = N]
         PROVE  Validates(d)'
    <2> DEFINE t == out'[d].index
               rows == out'[d].rows
    <2>1. \A k \in Lists : \A i \in DOMAIN rows[k] : rows[k][i].ord = i - 1
      BY <1>7, <1>8, <1>9, <1>11 DEF Ordered
    <2>2. /\ t.pages = out'[d].pages
          /\ \A k \in Lists : t.emitted[k] = Len(rows[k]) /\ t.visited[k] >= Len(rows[k])
          /\ t.unsupported <= t.visited["def"] + t.visited["ref"]
          /\ t.omitted = t.visited["def"] + t.visited["ref"] - Len(rows["def"]) - Len(rows["ref"])
      BY <1>5, <1>7, <1>8, <1>9, <1>11
    <2>3. t.stop # "EndOfDomain" \/ t.omitted # 0 => t.gaps # {}
      <3>1. SUFFICES ASSUME W.stop = "EndOfDomain", W.gaps = {} PROVE T.omitted = 0
        BY <1>5, <1>8, <1>9, <1>11
      <3>2. W.visited["def"] = Len(O.rows["def"]) /\ W.visited["ref"] = Len(O.rows["ref"])
        BY <1>8, <1>10, <3>1
      <3> QED
        BY <1>5, <1>7, <1>10, <3>2
    <2>4. ASSUME NEW block \in {"context", "harness"}
          PROVE  \/ \A i \in Observed(d, block) : \E j \in DOMAIN rows["ref"] : rows["ref"][j].pos = i
                 \/ t.stop # "EndOfDomain" \/ block \in t.gaps
      <3> SUFFICES ASSUME t.stop = "EndOfDomain", block \notin t.gaps, NEW i \in Observed(d, block)
                   PROVE  \E j \in DOMAIN rows["ref"] : rows["ref"][j].pos = i
        OBVIOUS
      <3>1. i \in 1..Len(D) /\ D[i].of = block
        BY <1>2 DEF Observed
      <3>2. D[i].of # "hir" /\ D[i].list = "ref"
        BY <1>2, <2>4, <3>1, StreamAssumption DEF StreamAssumption
      <3>3. Explained(O.rows, W.gaps, D, i) /\ block \notin W.gaps
        BY <1>5, <1>8, <1>9, <1>11, <3>1
      <3>4. Shows(O.rows["ref"], i)
        BY <3>1, <3>2, <3>3 DEF Explained
      <3> QED
        BY <1>7, <1>9, <1>10, <1>11, <3>4 DEF Shows
    <2>5. \A block : Observed(d, block)' = Observed(d, block)
      BY DEF Observed
    <2> QED
      BY <2>1, <2>2, <2>3, <2>4, <2>5 DEF Validates
  <1>12. ASSUME out' = [out EXCEPT ![d] = N]
         PROVE  Told(d)'
    <2> DEFINE t == out'[d].index
               rows == out'[d].rows
    <2>1. \A k \in Lists : \A i, j \in DOMAIN rows[k] : i < j => rows[k][i].pos < rows[k][j].pos
      BY <1>7, <1>8, <1>9, <1>12 DEF Ordered
    <2>2. ASSUME t.stop = "EndOfDomain", NEW i \in DOMAIN Domain[d]
          PROVE  \/ \E j \in DOMAIN rows[Domain[d][i].list] : rows[Domain[d][i].list][j].pos = i
                 \/ ~Domain[d][i].fits /\ "Unsupported" \in t.gaps
                 \/ Domain[d][i].of \in t.gaps
      <3>1. i \in 1..Len(D)
        BY <1>2, <2>2
      <3>2. Explained(O.rows, W.gaps, D, i) /\ T.gaps = W.gaps /\ D[i].list \in Lists
        BY <1>2, <1>5, <1>8, <1>9, <1>12, <2>2, <3>1, ItemsListed
      <3>3. Shows(O.rows[D[i].list], i) => \E j \in DOMAIN rows[D[i].list] : rows[D[i].list][j].pos = i
        BY <1>7, <1>9, <1>12, <3>2 DEF Shows
      <3> QED
        BY <1>9, <1>12, <3>2, <3>3 DEF Explained
    <2> QED
      BY <2>1, <2>2 DEF Told
  <1>13. CASE out' = out
    BY <1>1, <1>3, <1>13, EndedWalked, WalkKept
  <1>14. CASE out' = [out EXCEPT ![d] = N]
    <2>1. \A e \in Drivers : /\ w'[e] = IF e = d THEN Ended ELSE w[e]
                             /\ e # d => out'[e] = out[e]
      BY <1>1, <1>14 DEF TypeInv
    <2>2. ASSUME NEW e \in Drivers, e # d
          PROVE  Walked(w'[e], out'[e], Domain[e]) /\ (out'[e].index # NONE => Validates(e)' /\ Told(e)')
      <3>1. out'[e] = out[e] /\ w'[e] = w[e]
        BY <2>1, <2>2
      <3>2. Walked(w[e], out[e], Domain[e]) /\ (out[e].index # NONE => Validates(e) /\ Told(e))
        BY DEF WalkInv
      <3>3. Validates(e) => Validates(e)'
        BY <3>1 DEF Validates, Observed
      <3>4. Told(e) => Told(e)'
        BY <3>1 DEF Told
      <3> QED
        BY <3>1, <3>2, <3>3, <3>4
    <2>3. Walked(w'[d], out'[d], Domain[d])
      BY <2>1, EndedWalked
    <2> QED
      BY <1>11, <1>12, <1>14, <2>2, <2>3 DEF WalkInv
  <1> QED
    BY <1>1, <1>13, <1>14

LEMMA WalkInitially == Init => WalkInv
  <1> SUFFICES ASSUME Init, NEW d \in Drivers
               PROVE  /\ Walked(w[d], out[d], Domain[d])
                      /\ out[d].index = NONE
    BY DEF WalkInv
  <1>1. /\ w[d] = NewWriter /\ out[d].index = NONE /\ out[d].rows = NoRows
    BY DEF Init
  <1>2. /\ NewWriter.pc = "open" /\ NewWriter.next = 1 /\ NewWriter.row = NONE
        /\ NewWriter.page = NoRows /\ NewWriter.stopped = FALSE /\ NewWriter.stop = "EndOfDomain"
        /\ NewWriter.gaps = {} /\ NewWriter.visited = [k \in Lists |-> 0]
        /\ NewWriter.unsupported = 0
    BY DEF NewWriter
  <1>3. \A k \in Lists : Kept(NewWriter, out[d])[k] = <<>>
    <2>1. \A k \in Lists : NoRows[k] = <<>>
      BY DEF NoRows
    <2>2. <<>> \o <<>> = <<>>
      OBVIOUS
    <2> QED
      BY <1>1, <1>2, <2>1, <2>2 DEF Kept
  <1>4. Honest(NewWriter, Kept(NewWriter, out[d]), Domain[d])
    <2>1. \A s : s = <<>> => Ordered(s, 1)
      BY DEF Ordered
    <2> QED
      BY <1>2, <1>3, <2>1 DEF Honest
  <1>5. Counted(NewWriter, Kept(NewWriter, out[d]), "none", 0)
    <2>1. \A k \in Lists : Owed(k, "none") = 0
      BY DEF Owed, Lists
    <2> QED
      BY <1>2, <1>3, <2>1 DEF Counted, Lists
  <1> QED
    BY <1>1, <1>2, <1>4, <1>5 DEF Walked, Owing, Due

LEMMA WalkStep ==
  ASSUME TypeInv, WalkInv, [Next]_vars
  PROVE  WalkInv'
  <1>1. ASSUME UNCHANGED <<w, out>>
        PROVE  WalkInv'
    <2>1. \A e \in Drivers : (Validates(e) => Validates(e)') /\ (Told(e) => Told(e)')
      BY <1>1 DEF Validates, Observed, Told
    <2> QED
      BY <1>1, <2>1 DEF WalkInv
  <1>2. CASE UNCHANGED vars
    BY <1>1, <1>2 DEF vars, streamVars
  <1>3. ASSUME NEW d \in Drivers, DriverStep(d)
        PROVE  WalkInv'
    BY <1>1, <1>3, OpenWalked, OpenedWalked, WorkLimitWalked, ObserveWalked, RowAdmittedWalked,
       VisitWalked, LocatedWalked, FlushWalked, FlushedStep, WriteIndexWalked
       DEF DriverStep, Call, streamVars
  <1>4. ASSUME NEW d \in Drivers, CallFails(d) \/ CompilerDies(d)
        PROVE  WalkInv'
    BY <1>1, <1>4 DEF CallFails, CompilerDies
  <1>5. ASSUME NEW s \in Sources, Edit(s)
        PROVE  WalkInv'
    BY <1>1, <1>5 DEF Edit
  <1>6. CASE SessionStep
    BY <1>1, <1>6 DEF SessionStep, BeginFinish, ReadStream
  <1> QED
    BY <1>2, <1>3, <1>4, <1>5, <1>6 DEF Next

LEMMA WalkInvariant == Spec => []WalkInv
  BY WalkInitially, WalkStep, Typed, PTL DEF Spec

(* Whatever the walk comes to and wherever it is interrupted, the index a  *)
(* driver publishes and the pages it wrote pass the session's validation.  *)
THEOREM IndexAlwaysValidates == Spec => []IndexValidates
  <1>1. WalkInv => IndexValidates
    BY DEF WalkInv, IndexValidates
  <1> QED
    BY <1>1, WalkInvariant, PTL

(* Whatever page could not be written and whatever charge was refused, a   *)
(* published stream shows what was seen in the order of the walk, and what *)
(* it does not show it says is missing.                                    *)
THEOREM LossAlwaysTold == Spec => []LossIsTold
  <1>1. WalkInv => LossIsTold
    BY DEF WalkInv, LossIsTold
  <1> QED
    BY <1>1, WalkInvariant, PTL

-----------------------------------------------------------------------------
(* Sums.  SumFunction adds the values of a function, one argument after    *)
(* the other, as an iteration over the sets of arguments.                  *)
First(s) == CHOOSE x \in s : TRUE
Added(it, g, s) == IF s = {} THEN 0 ELSE g[First(s)] + it[s \ {First(s)}]
Iterates(it, g) == it = [s \in SUBSET DOMAIN g |-> Added(it, g, s)]

LEMMA SumIterates ==
  ASSUME NEW g, NEW it, Iterates(it, g)
  PROVE  \E jt : Iterates(jt, g) /\ SumFunction(g) = jt[DOMAIN g]
  <1>1. SumFunction(g) = (CHOOSE jt : Iterates(jt, g))[DOMAIN g]
    BY DEF SumFunction, SumFunctionOnSet, FoldFunctionOnSet, MapThenFoldSet, Iterates, Added, First
  <1> QED
    BY <1>1

LEMMA FirstOf ==
  ASSUME NEW S, IsFiniteSet(S), NEW s \in SUBSET S, s # {}
  PROVE  /\ First(s) \in s /\ s \ {First(s)} \in SUBSET S
         /\ Cardinality(s) \in Nat \ {0} /\ Cardinality(s \ {First(s)}) = Cardinality(s) - 1
  <1>1. First(s) \in s
    BY DEF First
  <1>2. IsFiniteSet(s)
    BY FS_Subset
  <1>3. Cardinality(s) \in Nat /\ Cardinality(s) # 0
    BY <1>2, FS_CardinalityType, FS_EmptySet
  <1>4. Cardinality(s \ {First(s)}) = Cardinality(s) - 1
    BY <1>1, <1>2, FS_RemoveElement
  <1> HIDE DEF First
  <1> QED
    BY <1>1, <1>3, <1>4

(* The iteration exists: by the sets' sizes.                               *)
LEMMA IterationExists ==
  ASSUME NEW g, IsFiniteSet(DOMAIN g)
  PROVE  \E it : Iterates(it, g)
  <1> DEFINE S == DOMAIN g
             N == Cardinality(S)
             Upto(n) == {s \in SUBSET S : Cardinality(s) <= n}
             Good(n) == \E it : it = [s \in Upto(n) |-> Added(it, g, s)]
             Bad == {n \in Nat : ~Good(n)}
  <1>1. N \in Nat /\ \A s \in SUBSET S : IsFiniteSet(s) /\ Cardinality(s) \in Nat /\ Cardinality(s) <= N
    BY FS_CardinalityType, FS_Subset
  <1>2. Good(0)
    <2> DEFINE it == [s \in Upto(0) |-> 0]
    <2>1. \A s \in Upto(0) : s = {}
      <3> SUFFICES ASSUME NEW s \in SUBSET S, Cardinality(s) <= 0 PROVE s = {}
        OBVIOUS
      <3>1. Cardinality(s) = 0 /\ IsFiniteSet(s)
        BY <1>1
      <3> QED
        BY <3>1, FS_EmptySet
    <2>2. \A s \in Upto(0) : Added(it, g, s) = 0
      BY <2>1 DEF Added
    <2>3. it = [s \in Upto(0) |-> Added(it, g, s)]
      <3> HIDE DEF Upto
      <3> QED
        BY <2>2
    <2> QED
      BY <2>3
  <1>3. ASSUME NEW n \in Nat, Good(n) PROVE Good(n + 1)
    <2>1. PICK it : it = [s \in Upto(n) |-> Added(it, g, s)]
      BY <1>3
    <2> DEFINE jt == [s \in Upto(n + 1) |-> Added(it, g, s)]
    <2>2. ASSUME NEW s \in Upto(n + 1), s # {}
          PROVE  s \ {First(s)} \in Upto(n) /\ s \ {First(s)} \in Upto(n + 1)
      <3>1. s \in SUBSET S /\ Cardinality(s) <= n + 1
        OBVIOUS
      <3>2. /\ s \ {First(s)} \in SUBSET S /\ Cardinality(s) \in Nat
            /\ Cardinality(s \ {First(s)}) = Cardinality(s) - 1
        BY <2>2, <3>1, FirstOf
      <3>3. Cardinality(s \ {First(s)}) <= n /\ Cardinality(s \ {First(s)}) <= n + 1
        BY <1>3, <3>1, <3>2
      <3> QED
        BY <3>2, <3>3
    <2>3. \A u \in Upto(n) : it[u] = Added(it, g, u)
      <3> HIDE DEF Upto
      <3> QED
        BY <2>1
    <2>4. \A u \in Upto(n) : u \in Upto(n + 1) => jt[u] = it[u]
      <3> HIDE DEF Upto
      <3> QED
        BY <2>3
    <2>5. \A s \in Upto(n + 1) : Added(jt, g, s) = Added(it, g, s)
      <3> HIDE DEF Upto, jt
      <3> QED
        BY <2>2, <2>4 DEF Added
    <2>6. jt = [s \in Upto(n + 1) |-> Added(jt, g, s)]
      <3>1. [s \in Upto(n + 1) |-> Added(jt, g, s)] = [s \in Upto(n + 1) |-> Added(it, g, s)]
        <4> HIDE DEF Upto, jt
        <4> QED
          BY <2>5
      <3> QED
        BY <3>1
    <2> QED
      BY <2>6
  <1>4. Bad = {}
    <2> SUFFICES ASSUME Bad # {} PROVE FALSE
      OBVIOUS
    <2> HIDE DEF Good
    <2>1. PICK n \in Bad : \A m \in Bad : n <= m
      BY Least
    <2>2. n \in Nat /\ n # 0
      BY <1>2
    <2>3. n - 1 \in Nat /\ n - 1 \notin Bad
      BY <2>1, <2>2
    <2>4. Good(n - 1)
      BY <2>3
    <2>5. Good(n - 1 + 1)
      BY <1>3, <2>3, <2>4
    <2>6. n - 1 + 1 = n
      BY <2>2
    <2> QED
      BY <2>5, <2>6
  <1>5. Good(N)
    <2> HIDE DEF Good
    <2> QED
      BY <1>1, <1>4
  <1>6. Upto(N) = SUBSET S
    BY <1>1
  <1> QED
    BY <1>5, <1>6 DEF Iterates

(* Induction over the sets: among those for which something fails, one is  *)
(* empty, or it holds for what the next step of the sum leaves.            *)
LEMMA SmallestSet ==
  ASSUME NEW S, IsFiniteSet(S), NEW Bad \in SUBSET (SUBSET S), Bad # {}
  PROVE  \E s \in Bad : s # {} => /\ First(s) \in s
                                  /\ s \ {First(s)} \in SUBSET S
                                  /\ s \ {First(s)} \notin Bad
  <1> DEFINE sizes == {Cardinality(s) : s \in Bad}
  <1>1. \A s \in SUBSET S : Cardinality(s) \in Nat
    BY FS_CardinalityType, FS_Subset
  <1>2. sizes \in SUBSET Nat /\ sizes # {}
    BY <1>1
  <1>3. PICK n \in sizes : \A m \in sizes : n <= m
    <2> HIDE DEF sizes
    <2> QED
      BY <1>2, Least
  <1>4. PICK s \in Bad : n = Cardinality(s)
    BY <1>3
  <1>5. ASSUME s # {}
        PROVE  /\ First(s) \in s /\ s \ {First(s)} \in SUBSET S
               /\ s \ {First(s)} \notin Bad
    <2>1. s \in SUBSET S
      OBVIOUS
    <2>2. /\ First(s) \in s /\ s \ {First(s)} \in SUBSET S
          /\ Cardinality(s) \in Nat /\ Cardinality(s \ {First(s)}) = Cardinality(s) - 1
      BY <1>5, <2>1, FirstOf
    <2>3. ASSUME s \ {First(s)} \in Bad PROVE FALSE
      <3>1. Cardinality(s \ {First(s)}) \in sizes
        BY <2>3
      <3>2. n <= Cardinality(s) - 1
        BY <1>3, <2>2, <3>1
      <3> QED
        BY <1>4, <2>2, <3>2
    <2> QED
      BY <2>2, <2>3
  <1> QED
    BY <1>5

(* An iteration over the subsets of S that adds up g.                      *)
Summing(it, g, S) ==
  /\ \A s \in SUBSET S : s = {} => it[s] = 0
  /\ \A s \in SUBSET S : s # {} => it[s] = g[First(s)] + it[s \ {First(s)}]

LEMMA SummingNat ==
  ASSUME NEW S, IsFiniteSet(S), NEW g \in [S -> Nat], NEW it, Summing(it, g, S)
  PROVE  \A s \in SUBSET S : it[s] \in Nat
  <1> DEFINE Bad == {s \in SUBSET S : it[s] \notin Nat}
  <1> SUFFICES ASSUME Bad # {} PROVE FALSE
    OBVIOUS
  <1>2. Bad \in SUBSET (SUBSET S)
    OBVIOUS
  <1>3. PICK s \in Bad : s # {} => /\ First(s) \in s
                                   /\ s \ {First(s)} \in SUBSET S
                                   /\ s \ {First(s)} \notin Bad
    <2> HIDE DEF Bad
    <2> QED
      BY <1>2, SmallestSet
  <1>4. s \in SUBSET S /\ it[s] \notin Nat /\ s # {}
    BY DEF Summing
  <1> DEFINE f == First(s)
             r == s \ {f}
  <1>5. f \in S /\ r \in SUBSET S /\ it[r] \in Nat
    BY <1>3, <1>4
  <1>6. it[s] = g[f] + it[r]
    BY <1>4 DEF Summing
  <1> HIDE DEF f, r, Bad
  <1>7. g[f] \in Nat
    BY <1>5
  <1> QED
    BY <1>4, <1>5, <1>6, <1>7

(* Every sum is the last value of such an iteration.                       *)
LEMMA SumIs ==
  ASSUME NEW S, IsFiniteSet(S), NEW g \in [S -> Nat]
  PROVE  \E it : SumFunction(g) = it[S] /\ Summing(it, g, S)
  <1>1. DOMAIN g = S
    OBVIOUS
  <1>2. PICK kt : Iterates(kt, g)
    BY <1>1, IterationExists
  <1>3. PICK it : Iterates(it, g) /\ SumFunction(g) = it[DOMAIN g]
    BY <1>2, SumIterates
  <1>4. \A s \in SUBSET S : it[s] = Added(it, g, s)
    BY <1>1, <1>3 DEF Iterates
  <1>5. Summing(it, g, S)
    BY <1>4 DEF Added, Summing
  <1> QED
    BY <1>1, <1>3, <1>5

LEMMA SumNat ==
  ASSUME NEW S, IsFiniteSet(S), NEW g \in [S -> Nat]
  PROVE  SumFunction(g) \in Nat
  BY SumIs, SummingNat

(* Where one function is zero, so is its sum; where it is at most another, *)
(* so is its sum; where it changes in one place, its sum changes by as     *)
(* much.                                                                   *)
LEMMA SumZero ==
  ASSUME NEW S, IsFiniteSet(S), NEW g \in [S -> Nat], \A d \in S : g[d] = 0
  PROVE  SumFunction(g) = 0
  <1>1. PICK it : SumFunction(g) = it[S] /\ Summing(it, g, S)
    BY SumIs
  <1> DEFINE Bad == {s \in SUBSET S : it[s] # 0}
  <1> SUFFICES ASSUME Bad # {} PROVE FALSE
    BY <1>1
  <1>2. Bad \in SUBSET (SUBSET S)
    OBVIOUS
  <1>3. PICK s \in Bad : s # {} => /\ First(s) \in s
                                   /\ s \ {First(s)} \in SUBSET S
                                   /\ s \ {First(s)} \notin Bad
    <2> HIDE DEF Bad
    <2> QED
      BY <1>2, SmallestSet
  <1>4. s \in SUBSET S /\ it[s] # 0 /\ s # {}
    BY <1>1 DEF Summing
  <1> DEFINE f == First(s)
             r == s \ {f}
  <1>5. f \in S /\ it[r] = 0
    BY <1>3, <1>4
  <1>6. it[s] = g[f] + it[r]
    BY <1>1, <1>4 DEF Summing
  <1> HIDE DEF f, r, Bad
  <1>7. g[f] = 0
    BY <1>5
  <1> QED
    BY <1>4, <1>5, <1>6, <1>7

LEMMA SumMonotone ==
  ASSUME NEW S, IsFiniteSet(S), NEW g \in [S -> Nat], NEW h \in [S -> Nat],
         \A d \in S : g[d] <= h[d]
  PROVE  SumFunction(g) <= SumFunction(h)
  <1>1. PICK it : SumFunction(g) = it[S] /\ Summing(it, g, S)
    BY SumIs
  <1>2. PICK jt : SumFunction(h) = jt[S] /\ Summing(jt, h, S)
    BY SumIs
  <1> DEFINE Bad == {s \in SUBSET S : ~(it[s] <= jt[s])}
  <1> SUFFICES ASSUME Bad # {} PROVE FALSE
    BY <1>1, <1>2
  <1>3. Bad \in SUBSET (SUBSET S)
    OBVIOUS
  <1>4. PICK s \in Bad : s # {} => /\ First(s) \in s
                                   /\ s \ {First(s)} \in SUBSET S
                                   /\ s \ {First(s)} \notin Bad
    <2> HIDE DEF Bad
    <2> QED
      BY <1>3, SmallestSet
  <1>5. s \in SUBSET S /\ ~(it[s] <= jt[s])
    OBVIOUS
  <1>6. s # {}
    <2>1. s = {} => it[s] = 0 /\ jt[s] = 0
      BY <1>1, <1>2, <1>5 DEF Summing
    <2> HIDE DEF Bad
    <2> QED
      BY <1>5, <2>1
  <1> DEFINE f == First(s)
             r == s \ {f}
  <1>7. f \in S /\ r \in SUBSET S /\ it[r] <= jt[r]
    BY <1>4, <1>5, <1>6
  <1>8. it[s] = g[f] + it[r] /\ jt[s] = h[f] + jt[r]
    BY <1>1, <1>2, <1>5, <1>6 DEF Summing
  <1> HIDE DEF f, r, Bad
  <1>9. it[r] \in Nat /\ jt[r] \in Nat
    BY <1>1, <1>2, <1>7, SummingNat
  <1>10. g[f] \in Nat /\ h[f] \in Nat /\ g[f] <= h[f]
    BY <1>7
  <1> QED
    BY <1>5, <1>7, <1>8, <1>9, <1>10

LEMMA SumChange ==
  ASSUME NEW S, IsFiniteSet(S), NEW g \in [S -> Nat], NEW h \in [S -> Nat], NEW d \in S,
         \A e \in S \ {d} : h[e] = g[e]
  PROVE  /\ SumFunction(g) \in Nat /\ SumFunction(h) \in Nat
         /\ SumFunction(h) + g[d] = SumFunction(g) + h[d]
  <1>1. PICK it : SumFunction(g) = it[S] /\ Summing(it, g, S)
    BY SumIs
  <1>2. PICK jt : SumFunction(h) = jt[S] /\ Summing(jt, h, S)
    BY SumIs
  <1>a. \A s \in SUBSET S : it[s] \in Nat /\ jt[s] \in Nat
    BY <1>1, <1>2, SummingNat
  <1> DEFINE Same(s) == IF d \in s THEN jt[s] + g[d] = it[s] + h[d] ELSE jt[s] = it[s]
             Bad == {s \in SUBSET S : ~Same(s)}
  <1> SUFFICES ASSUME Bad # {} PROVE FALSE
    <2>1. S \in SUBSET S
      OBVIOUS
    <2> QED
      BY <1>1, <1>2, <1>a, <2>1
  <1>3. Bad \in SUBSET (SUBSET S)
    OBVIOUS
  <1>4. PICK s \in Bad : s # {} => /\ First(s) \in s
                                   /\ s \ {First(s)} \in SUBSET S
                                   /\ s \ {First(s)} \notin Bad
    <2> HIDE DEF Bad
    <2> QED
      BY <1>3, SmallestSet
  <1>5. s \in SUBSET S /\ ~Same(s)
    OBVIOUS
  <1>6. s # {}
    <2>1. s = {} => it[s] = 0 /\ jt[s] = 0
      BY <1>1, <1>2, <1>5 DEF Summing
    <2> HIDE DEF Bad
    <2> QED
      BY <1>5, <2>1
  <1> DEFINE f == First(s)
             r == s \ {f}
  <1>7. f \in S /\ f \in s /\ r \in SUBSET S /\ Same(r)
    BY <1>4, <1>5, <1>6
  <1>b. \A e : e \in r <=> e \in s /\ e # f
    OBVIOUS
  <1>8. it[s] = g[f] + it[r] /\ jt[s] = h[f] + jt[r]
    BY <1>1, <1>2, <1>5, <1>6 DEF Summing
  <1> HIDE DEF f, r, Bad
  <1>9. it[r] \in Nat /\ jt[r] \in Nat
    BY <1>a, <1>7
  <1>10. g[f] \in Nat /\ h[f] \in Nat /\ g[d] \in Nat /\ h[d] \in Nat
    BY <1>7
  <1>11. CASE f = d
    <2>1. d \in s /\ d \notin r
      BY <1>7, <1>b, <1>11
    <2>2. jt[r] = it[r]
      BY <1>7, <2>1
    <2>3. jt[s] + g[d] = it[s] + h[d]
      BY <1>8, <1>9, <1>10, <1>11, <2>2
    <2> QED
      BY <1>5, <2>1, <2>3
  <1>12. CASE f # d
    <2>1. h[f] = g[f] /\ (d \in s <=> d \in r)
      BY <1>7, <1>b, <1>12
    <2>2. CASE d \in s
      <3>1. jt[r] + g[d] = it[r] + h[d]
        BY <1>7, <2>1, <2>2
      <3>2. jt[s] + g[d] = it[s] + h[d]
        BY <1>8, <1>9, <1>10, <2>1, <3>1
      <3> QED
        BY <1>5, <2>2, <3>2
    <2>3. CASE d \notin s
      <3>1. jt[r] = it[r]
        BY <1>7, <2>1, <2>3
      <3>2. jt[s] = it[s]
        BY <1>8, <2>1, <3>1
      <3> QED
        BY <1>5, <2>3, <3>2
    <2> QED
      BY <2>2, <2>3
  <1> QED
    BY <1>11, <1>12

-----------------------------------------------------------------------------
(* Streams: what is published was paid for.  A driver's claim on the bytes *)
(* granted is what it has published and, from a grant to the use of it,    *)
(* the bytes of that grant; all claims together never exceed the grants.   *)
Published(O) == IF O.dir THEN HEADER + PAGE * O.pages ELSE 0
Claim(O, step, bytes) == Published(O) + (IF step = "granted" THEN bytes ELSE 0)
Claims == [d \in Drivers |-> Claim(out[d], at[d], asked[d])]

(* While a call for a header or a page is on its way it is for the bytes   *)
(* of one.                                                                 *)
Asking(W, step, bytes) ==
  step \in {"try", "granted"} \union Critical =>
    /\ W.pc = "opening" => bytes = HEADER
    /\ W.pc = "flushing" => bytes = PAGE

PaidInv ==
  /\ SumFunction(Claims) <= charged
  /\ \A d \in Drivers : Asking(w[d], at[d], asked[d])

LEMMA PublishedNat == \A O \in Outputs : Published(O) \in Nat
  <1> SUFFICES ASSUME NEW O \in Outputs PROVE Published(O) \in Nat
    OBVIOUS
  <1>1. O.pages \in Nat /\ HEADER \in Nat /\ PAGE \in Nat
    BY StreamAssumption, BudgetAssumption DEF StreamAssumption, BudgetAssumption, Outputs
  <1>2. PAGE * O.pages \in Nat
    BY <1>1
  <1> QED
    BY <1>1, <1>2 DEF Published

LEMMA ClaimNat ==
  ASSUME NEW O \in Outputs, NEW step, NEW bytes \in Nat
  PROVE  Claim(O, step, bytes) \in Nat
  BY PublishedNat DEF Claim

(* A step of one driver whose claim grows by the bytes granted at most.    *)
LEMMA PaidKept ==
  ASSUME TypeInv, TotalInv, PaidInv, TypeInv', TotalInv', NEW d \in Drivers,
         \A e \in Drivers \ {d} : /\ out'[e] = out[e] /\ w'[e] = w[e]
                                  /\ at'[e] = at[e] /\ asked'[e] = asked[e],
         NEW bytes \in Nat, charged' = charged + bytes,
         Claim(out'[d], at'[d], asked'[d]) <= Claim(out[d], at[d], asked[d]) + bytes,
         Asking(w'[d], at'[d], asked'[d])
  PROVE  PaidInv'
  <1>1. Claims \in [Drivers -> Nat]
    <2>1. \A e \in Drivers : Claim(out[e], at[e], asked[e]) \in Nat
      BY ClaimNat DEF TypeInv, TotalInv, BudgetInv, BudgetTypeOK
    <2> QED
      BY <2>1 DEF Claims
  <1>2. Claims' \in [Drivers -> Nat]
    <2>1. \A e \in Drivers : Claim(out'[e], at'[e], asked'[e]) \in Nat
      BY ClaimNat DEF TypeInv, TotalInv, BudgetInv, BudgetTypeOK
    <2> QED
      BY <2>1 DEF Claims
  <1>3. \A e \in Drivers \ {d} : Claims'[e] = Claims[e]
    BY DEF Claims
  <1>4. Claims'[d] <= Claims[d] + bytes
    BY DEF Claims
  <1>5. IsFiniteSet(Drivers) /\ charged \in Nat
    BY StreamAssumption DEF StreamAssumption, TotalInv, BudgetInv, BudgetTypeOK
  <1> DEFINE g == Claims
             h == Claims'
  <1>6. /\ SumFunction(g) \in Nat /\ SumFunction(h) \in Nat
        /\ SumFunction(h) + g[d] = SumFunction(g) + h[d]
    <2> HIDE DEF g, h
    <2>1. g \in [Drivers -> Nat] /\ h \in [Drivers -> Nat] /\ \A e \in Drivers \ {d} : h[e] = g[e]
      BY <1>1, <1>2, <1>3 DEF g, h
    <2> QED
      BY <1>5, <2>1, SumChange
  <1>7. g[d] \in Nat /\ h[d] \in Nat /\ h[d] <= g[d] + bytes
    BY <1>1, <1>2, <1>4
  <1>8. SumFunction(g) <= charged
    BY DEF PaidInv
  <1>9. SumFunction(h) <= charged + bytes
    <2> HIDE DEF g, h
    <2> QED
      BY <1>5, <1>6, <1>7, <1>8
  <1>10. \A e \in Drivers : Asking(w'[e], at'[e], asked'[e])
    BY DEF PaidInv
  <1> QED
    BY <1>9, <1>10 DEF PaidInv

LEMMA IdleAsksNothing == \A W, bytes : Asking(W, "idle", bytes)
  BY DEF Asking

(* Steps that leave the output and the budget, between calls.              *)
LEMMA BetweenCalls ==
  ASSUME TypeInv, TotalInv, PaidInv, TypeInv', TotalInv', NEW d \in Drivers, NEW W,
         w' = [w EXCEPT ![d] = W], out' = out, at[d] = "idle", UNCHANGED budgetVars
  PROVE  PaidInv'
  <1>1. charged' = charged + 0 /\ at'[d] = "idle"
    BY DEF budgetVars, TotalInv, BudgetInv, BudgetTypeOK
  <1>2. Asking(w'[d], at'[d], asked'[d])
    BY <1>1, IdleAsksNothing
  <1>3. /\ \A e \in Drivers \ {d} : /\ out'[e] = out[e] /\ w'[e] = w[e]
                                    /\ at'[e] = at[e] /\ asked'[e] = asked[e]
        /\ Claim(out'[d], at'[d], asked'[d]) <= Claim(out[d], at[d], asked[d]) + 0
    <2>1. Claim(out[d], at[d], asked[d]) \in Nat
      BY ClaimNat DEF TypeInv, TotalInv, BudgetInv, BudgetTypeOK
    <2> QED
      BY <2>1 DEF budgetVars
  <1> QED
    BY <1>1, <1>2, <1>3, PaidKept

(* A call begins: for what it asks is told by where the writer then is.    *)
LEMMA CallBegins ==
  ASSUME TypeInv, TotalInv, PaidInv, TypeInv', TotalInv', NEW d \in Drivers, NEW W, NEW bytes,
         Reserve(d, bytes), w' = [w EXCEPT ![d] = W], out' = out,
         W.pc = "opening" => bytes = HEADER, W.pc = "flushing" => bytes = PAGE
  PROVE  PaidInv'
  <1>1. /\ at[d] = "idle" /\ at' = [at EXCEPT ![d] = "try"] /\ asked' = [asked EXCEPT ![d] = bytes]
        /\ charged' = charged + 0
    BY DEF Reserve, TotalInv, BudgetInv, BudgetTypeOK
  <1>2. at'[d] = "try" /\ asked'[d] = bytes /\ w'[d] = W /\ out'[d] = out[d]
    BY <1>1 DEF TypeInv, TotalInv, BudgetInv, BudgetTypeOK
  <1>3. Asking(w'[d], at'[d], asked'[d])
    BY <1>2 DEF Asking
  <1>4. Claim(out'[d], at'[d], asked'[d]) <= Claim(out[d], at[d], asked[d]) + 0
    <2>1. Published(out[d]) \in Nat
      BY PublishedNat DEF TypeInv
    <2> QED
      BY <1>1, <1>2, <2>1 DEF Claim
  <1>5. \A e \in Drivers \ {d} : /\ out'[e] = out[e] /\ w'[e] = w[e]
                                 /\ at'[e] = at[e] /\ asked'[e] = asked[e]
    BY <1>1
  <1> QED
    BY <1>1, <1>3, <1>4, <1>5, PaidKept

(* A call returns: what is published with it is covered by the grant.      *)
LEMMA CallReturns ==
  ASSUME TypeInv, TotalInv, PaidInv, TypeInv', TotalInv', NEW d \in Drivers, NEW W, NEW O,
         Return(d), w' = [w EXCEPT ![d] = W], out' = [out EXCEPT ![d] = O],
         \/ Published(O) = Published(out[d])
         \/ at[d] = "granted" /\ Published(O) <= Published(out[d]) + asked[d]
  PROVE  PaidInv'
  <1>1. /\ at' = [at EXCEPT ![d] = "idle"] /\ asked' = [asked EXCEPT ![d] = 0]
        /\ charged' = charged + 0
    BY DEF Return, TotalInv, BudgetInv, BudgetTypeOK
  <1>2. at'[d] = "idle" /\ out'[d] = O
    BY <1>1 DEF TypeInv, TotalInv, BudgetInv, BudgetTypeOK
  <1>3. Asking(w'[d], at'[d], asked'[d])
    BY <1>2, IdleAsksNothing
  <1>4. Claim(out'[d], at'[d], asked'[d]) <= Claim(out[d], at[d], asked[d]) + 0
    <2>1. Published(out[d]) \in Nat /\ Published(O) \in Nat /\ asked[d] \in Nat
      BY <1>2, PublishedNat DEF TypeInv, TotalInv, BudgetInv, BudgetTypeOK
    <2> QED
      BY <1>2, <2>1 DEF Claim
  <1>5. \A e \in Drivers \ {d} : /\ out'[e] = out[e] /\ w'[e] = w[e]
                                 /\ at'[e] = at[e] /\ asked'[e] = asked[e]
    BY <1>1
  <1> QED
    BY <1>1, <1>3, <1>4, <1>5, PaidKept

(* A call that is under way gives no claim, but by the grant of what it    *)
(* asked for.                                                              *)
LEMMA CallPaid ==
  ASSUME TypeInv, TotalInv, PaidInv, TypeInv', TotalInv', NEW d \in Drivers,
         CallStep(d) \/ Fail(d), w' = w, out' = out
  PROVE  PaidInv'
  <1>1. /\ at[d] \in {"try"} \union Critical /\ asked' = asked
        /\ \A e \in Drivers \ {d} : at'[e] = at[e]
    BY DEF CallStep, Fail, TakeLock, LockBusy, ReadTotal, Truncate, WriteTotal, Grant,
       TotalInv, BudgetInv, BudgetTypeOK
  <1>2. \/ charged' = charged /\ at'[d] # "granted"
        \/ charged' = charged + asked[d] /\ at'[d] = "granted"
    <2>1. at \in [Drivers -> Steps]
      BY DEF TotalInv, BudgetInv, BudgetTypeOK
    <2>2. CASE Grant(d)
      BY <2>1, <2>2 DEF Grant
    <2>3. CASE TakeLock(d) \/ LockBusy(d)
      BY <2>1, <2>3 DEF TakeLock, LockBusy
    <2>4. CASE ReadTotal(d)
      BY <2>1, <2>4 DEF ReadTotal
    <2>5. CASE Truncate(d) \/ WriteTotal(d) \/ Fail(d)
      BY <2>1, <2>5 DEF Truncate, WriteTotal, Fail
    <2> QED
      BY <2>2, <2>3, <2>4, <2>5 DEF CallStep
  <1>3. at[d] # "granted" /\ asked[d] \in Nat /\ Published(out[d]) \in Nat /\ charged \in Nat
    BY <1>1, PublishedNat DEF TypeInv, TotalInv, BudgetInv, BudgetTypeOK
  <1>4. Asking(w'[d], at'[d], asked'[d])
    BY <1>1 DEF PaidInv, Asking
  <1>5. Claim(out[d], at[d], asked[d]) = Published(out[d])
    BY <1>3 DEF Claim
  <1>6. \A e \in Drivers \ {d} : /\ out'[e] = out[e] /\ w'[e] = w[e]
                                 /\ at'[e] = at[e] /\ asked'[e] = asked[e]
    BY <1>1
  <1>7. CASE charged' = charged /\ at'[d] # "granted"
    <2>1. charged' = charged + 0
      BY <1>3, <1>7
    <2>2. Claim(out'[d], at'[d], asked'[d]) <= Claim(out[d], at[d], asked[d]) + 0
      BY <1>3, <1>5, <1>7 DEF Claim
    <2> QED
      BY <1>4, <1>6, <2>1, <2>2, PaidKept
  <1>8. CASE charged' = charged + asked[d] /\ at'[d] = "granted"
    <2>1. Claim(out'[d], at'[d], asked'[d]) <= Claim(out[d], at[d], asked[d]) + asked[d]
      BY <1>1, <1>3, <1>5, <1>8 DEF Claim
    <2> QED
      BY <1>3, <1>4, <1>6, <1>8, <2>1, PaidKept
  <1> QED
    BY <1>2, <1>7, <1>8

LEMMA OpenPaid ==
  ASSUME TypeInv, TotalInv, PaidInv, TypeInv', TotalInv', NEW d \in Drivers, Open(d)
  PROVE  PaidInv'
  <1> DEFINE W == [w[d] EXCEPT !.buf = files]
             V == [W EXCEPT !.pc = "opening"]
  <1>1. /\ out' = out /\ at[d] = "idle"
        /\ \/ Reserve(d, HEADER) /\ w' = [w EXCEPT ![d] = V]
           \/ w' = [w EXCEPT ![d] = Ended] /\ UNCHANGED budgetVars
    BY DEF Open, Idle, Becomes
  <1>2. V.pc = "opening"
    BY DEF TypeInv, Writers
  <1> HIDE DEF V
  <1>3. CASE Reserve(d, HEADER) /\ w' = [w EXCEPT ![d] = V]
    BY <1>1, <1>2, <1>3, CallBegins
  <1>4. CASE w' = [w EXCEPT ![d] = Ended] /\ UNCHANGED budgetVars
    BY <1>1, <1>4, BetweenCalls
  <1> QED
    BY <1>1, <1>3, <1>4

LEMMA OpenedPaid ==
  ASSUME TypeInv, TotalInv, PaidInv, TypeInv', TotalInv', NEW d \in Drivers, Opened(d)
  PROVE  PaidInv'
  <1> DEFINE O == [out[d] EXCEPT !.dir = TRUE]
  <1>1. /\ Return(d) /\ w[d].pc = "opening"
        /\ \/ at[d] = "granted" /\ out' = [out EXCEPT ![d] = O]
           \/ out' = [out EXCEPT ![d] = out[d]]
        /\ \E W : w' = [w EXCEPT ![d] = W]
    BY DEF Opened, Answered, Becomes, TypeInv
  <1>2. PICK W : w' = [w EXCEPT ![d] = W]
    BY <1>1
  <1>3. /\ out[d].pages = 0 /\ O.dir = TRUE /\ O.pages = out[d].pages
        /\ at[d] = "granted" => asked[d] = HEADER
    BY <1>1 DEF TypeInv, WriterTyped, Outputs, PaidInv, Asking
  <1>4. Published(O) = HEADER /\ Published(out[d]) \in Nat /\ HEADER \in Nat
    <2>1. PAGE \in Nat /\ HEADER \in Nat
      BY StreamAssumption, BudgetAssumption DEF StreamAssumption, BudgetAssumption
    <2>2. PAGE * 0 = 0
      BY <2>1
    <2>3. Published(out[d]) \in Nat
      BY PublishedNat DEF TypeInv
    <2> HIDE DEF O
    <2> QED
      BY <1>3, <2>1, <2>2, <2>3 DEF Published
  <1> HIDE DEF O
  <1>5. CASE at[d] = "granted" /\ out' = [out EXCEPT ![d] = O]
    <2>1. Published(O) <= Published(out[d]) + asked[d]
      BY <1>3, <1>4, <1>5
    <2> QED
      BY <1>1, <1>2, <1>5, <2>1, CallReturns
  <1>6. CASE out' = [out EXCEPT ![d] = out[d]]
    BY <1>1, <1>2, <1>6, CallReturns
  <1> QED
    BY <1>1, <1>5, <1>6

LEMMA WalkPaid ==
  ASSUME TypeInv, TotalInv, PaidInv, TypeInv', TotalInv', NEW d \in Drivers,
         WorkLimit(d) \/ Observe(d) \/ RowAdmitted(d) \/ Visit(d) \/ Located(d)
  PROVE  PaidInv'
  <1>1. CASE WorkLimit(d)
    BY <1>1, BetweenCalls DEF WorkLimit, Idle, Becomes
  <1>2. CASE Observe(d)
    <2> DEFINE W == [w[d] EXCEPT !.pc = "observing", !.events = @ + 1]
    <2>1. Reserve(d, ROW) /\ w' = [w EXCEPT ![d] = W] /\ out' = out
      BY <1>2 DEF Observe, Becomes
    <2>2. W.pc = "observing"
      BY DEF TypeInv, Writers
    <2> HIDE DEF W
    <2> QED
      BY <2>1, <2>2, CallBegins
  <1>3. CASE RowAdmitted(d) \/ Located(d)
    <2>1. Return(d) /\ out' = [out EXCEPT ![d] = out[d]] /\ \E W : w' = [w EXCEPT ![d] = W]
      BY <1>3 DEF RowAdmitted, Located, Answered, Becomes, TypeInv
    <2> QED
      BY <2>1, CallReturns
  <1>4. CASE Visit(d)
    <2> DEFINE W == [w[d] EXCEPT !.events = @ + 1, !.visited[Item(d).list] = @ + 1]
               V == [W EXCEPT !.pc = "charging"]
    <2>1. /\ out' = out /\ at[d] = "idle"
          /\ \/ Reserve(d, SOURCE) /\ w' = [w EXCEPT ![d] = V]
             \/ (\E U : w' = [w EXCEPT ![d] = U]) /\ UNCHANGED budgetVars
      BY <1>4 DEF Visit, Idle, Becomes
    <2>2. V.pc = "charging"
      BY DEF TypeInv, Writers
    <2> HIDE DEF V
    <2>3. CASE Reserve(d, SOURCE) /\ w' = [w EXCEPT ![d] = V]
      BY <2>1, <2>2, <2>3, CallBegins
    <2>4. CASE (\E U : w' = [w EXCEPT ![d] = U]) /\ UNCHANGED budgetVars
      BY <2>1, <2>4, BetweenCalls
    <2> QED
      BY <2>1, <2>3, <2>4
  <1> QED
    BY <1>1, <1>2, <1>3, <1>4

LEMMA FlushPaid ==
  ASSUME TypeInv, TotalInv, PaidInv, TypeInv', TotalInv', NEW d \in Drivers, Flush(d)
  PROVE  PaidInv'
  <1> DEFINE V == [w[d] EXCEPT !.pc = "flushing"]
  <1>1. /\ out' = out /\ at[d] = "idle"
        /\ \/ Reserve(d, PAGE) /\ w' = [w EXCEPT ![d] = V]
           \/ (\E U : w' = [w EXCEPT ![d] = U]) /\ UNCHANGED budgetVars
    BY DEF Flush, Idle, Becomes, Goto
  <1>2. V.pc = "flushing"
    BY DEF TypeInv, Writers
  <1> HIDE DEF V
  <1>3. CASE Reserve(d, PAGE) /\ w' = [w EXCEPT ![d] = V]
    BY <1>1, <1>2, <1>3, CallBegins
  <1>4. CASE (\E U : w' = [w EXCEPT ![d] = U]) /\ UNCHANGED budgetVars
    BY <1>1, <1>4, BetweenCalls
  <1> QED
    BY <1>1, <1>3, <1>4

LEMMA FlushedPaid ==
  ASSUME TypeInv, TotalInv, PaidInv, TypeInv', TotalInv', NEW d \in Drivers, Flushed(d)
  PROVE  PaidInv'
  <1> DEFINE O == WithPage(out[d], w[d].page)
  <1>1. /\ Return(d) /\ w[d].pc = "flushing"
        /\ \/ at[d] = "granted" /\ out' = [out EXCEPT ![d] = O]
           \/ out' = [out EXCEPT ![d] = out[d]]
        /\ \E W : w' = [w EXCEPT ![d] = W]
    BY DEF Flushed, Answered, Becomes, TypeInv
  <1>2. PICK W : w' = [w EXCEPT ![d] = W]
    BY <1>1
  <1>3. /\ out[d].pages \in Nat /\ O.dir = out[d].dir /\ O.pages = out[d].pages + 1
        /\ at[d] = "granted" => asked[d] = PAGE
    BY <1>1 DEF TypeInv, Outputs, WithPage, PaidInv, Asking
  <1>4. /\ Published(O) <= Published(out[d]) + PAGE
    <2>1. PAGE \in Nat /\ HEADER \in Nat
      BY StreamAssumption, BudgetAssumption DEF StreamAssumption, BudgetAssumption
    <2>2. \A n \in Nat : PAGE * (n + 1) = PAGE * n + PAGE /\ PAGE * n \in Nat
      BY <2>1
    <2> HIDE DEF O
    <2> QED
      BY <1>3, <2>1, <2>2 DEF Published
  <1> HIDE DEF O
  <1>5. CASE at[d] = "granted" /\ out' = [out EXCEPT ![d] = O]
    BY <1>1, <1>2, <1>3, <1>4, <1>5, CallReturns
  <1>6. CASE out' = [out EXCEPT ![d] = out[d]]
    BY <1>1, <1>2, <1>6, CallReturns
  <1> QED
    BY <1>1, <1>5, <1>6

LEMMA WriteIndexPaid ==
  ASSUME TypeInv, TotalInv, PaidInv, TypeInv', TotalInv', NEW d \in Drivers, WriteIndex(d)
  PROVE  PaidInv'
  <1>1. /\ at[d] = "idle" /\ UNCHANGED budgetVars /\ w' = [w EXCEPT ![d] = Ended]
        /\ out' = out \/ out' = [out EXCEPT ![d].index = Terminal(d)]
    BY DEF WriteIndex, Idle, Becomes
  <1>2. CASE out' = out
    BY <1>1, <1>2, BetweenCalls
  <1>3. CASE out' = [out EXCEPT ![d].index = Terminal(d)]
    <2>1. /\ at'[d] = "idle" /\ charged' = charged + 0
          /\ out'[d].dir = out[d].dir /\ out'[d].pages = out[d].pages
          /\ Published(out[d]) \in Nat
      BY <1>1, <1>3, PublishedNat DEF budgetVars, TypeInv, Outputs, TotalInv, BudgetInv, BudgetTypeOK
    <2>2. Asking(w'[d], at'[d], asked'[d])
      BY <2>1, IdleAsksNothing
    <2>3. Claim(out'[d], at'[d], asked'[d]) <= Claim(out[d], at[d], asked[d]) + 0
      BY <1>1, <2>1 DEF Claim, Published, budgetVars
    <2>4. \A e \in Drivers \ {d} : /\ out'[e] = out[e] /\ w'[e] = w[e]
                                   /\ at'[e] = at[e] /\ asked'[e] = asked[e]
      BY <1>1, <1>3 DEF budgetVars
    <2> QED
      BY <2>1, <2>2, <2>3, <2>4, PaidKept
  <1> QED
    BY <1>1, <1>2, <1>3

LEMMA DiesPaid ==
  ASSUME TypeInv, TotalInv, PaidInv, TypeInv', TotalInv', NEW d \in Drivers, CompilerDies(d)
  PROVE  PaidInv'
  <1>1. /\ out' = out /\ w' = w /\ asked' = asked /\ charged' = charged + 0
        /\ at' = [at EXCEPT ![d] = "dead"] /\ at'[d] = "dead"
    BY DEF CompilerDies, Kill, TotalInv, BudgetInv, BudgetTypeOK
  <1>2. Asking(w'[d], at'[d], asked'[d])
    BY <1>1 DEF Asking
  <1>3. Claim(out'[d], at'[d], asked'[d]) <= Claim(out[d], at[d], asked[d]) + 0
    <2>1. Published(out[d]) \in Nat /\ asked[d] \in Nat
      BY PublishedNat DEF TypeInv, TotalInv, BudgetInv, BudgetTypeOK
    <2> QED
      BY <1>1, <2>1 DEF Claim
  <1>4. \A e \in Drivers \ {d} : /\ out'[e] = out[e] /\ w'[e] = w[e]
                                 /\ at'[e] = at[e] /\ asked'[e] = asked[e]
    BY <1>1
  <1> QED
    BY <1>1, <1>2, <1>3, <1>4, PaidKept

LEMMA PaidInitially == Init => PaidInv
  <1> SUFFICES ASSUME Init PROVE PaidInv
    OBVIOUS
  <1>1. \A d \in Drivers : /\ at[d] = "idle" /\ out[d].dir = FALSE
                           /\ Claim(out[d], at[d], asked[d]) = 0
    <2>1. \A d \in Drivers : at[d] = "idle" /\ out[d].dir = FALSE /\ asked[d] = 0
      BY DEF Init, InitBudget
    <2>2. \A O, bytes : O.dir = FALSE => Claim(O, "idle", bytes) = 0
      BY DEF Claim, Published
    <2> QED
      BY <2>1, <2>2
  <1>2. charged = 0 /\ IsFiniteSet(Drivers)
    BY StreamAssumption DEF Init, InitBudget, StreamAssumption
  <1>3. Claims \in [Drivers -> Nat] /\ \A d \in Drivers : Claims[d] = 0
    BY <1>1 DEF Claims
  <1>4. SumFunction(Claims) = 0
    BY <1>2, <1>3, SumZero
  <1>5. SumFunction(Claims) <= charged
    BY <1>2, <1>4
  <1> QED
    BY <1>1, <1>5, IdleAsksNothing DEF PaidInv

LEMMA PaidStep ==
  ASSUME TypeInv, TotalInv, PaidInv, TypeInv', TotalInv', [Next]_vars
  PROVE  PaidInv'
  <1>1. ASSUME UNCHANGED <<w, out, at, asked, charged>>
        PROVE  PaidInv'
    BY <1>1 DEF PaidInv, Claims
  <1>2. CASE UNCHANGED vars
    BY <1>1, <1>2 DEF vars, streamVars, budgetVars
  <1>3. ASSUME NEW d \in Drivers, DriverStep(d)
        PROVE  PaidInv'
    <2>1. CASE Call(d)
      BY <2>1, CallPaid DEF Call, streamVars
    <2> QED
      BY <1>3, <2>1, OpenPaid, OpenedPaid, WalkPaid, FlushPaid, FlushedPaid, WriteIndexPaid
         DEF DriverStep
  <1>4. ASSUME NEW d \in Drivers, CallFails(d) \/ CompilerDies(d)
        PROVE  PaidInv'
    BY <1>4, CallPaid, DiesPaid DEF CallFails
  <1>5. ASSUME NEW s \in Sources, Edit(s)
        PROVE  PaidInv'
    BY <1>1, <1>5 DEF Edit, budgetVars
  <1>6. CASE SessionStep
    BY <1>1, <1>6 DEF SessionStep, BeginFinish, ReadStream, budgetVars
  <1> QED
    BY <1>2, <1>3, <1>4, <1>5, <1>6 DEF Next

(* The streams all drivers together have put on disk never exceed what was *)
(* granted, and so not the limit, for any number of drivers, however their *)
(* calls interleave, fail or are cut off by a kill.                        *)
THEOREM PublishedAlwaysPaidFor == Spec => []PublishedPaidFor
  <1>1. Init => PaidInv
    BY PaidInitially
  <1>2. (TypeInv /\ TotalInv) /\ (TypeInv /\ TotalInv)' /\ PaidInv /\ [Next]_vars => PaidInv'
    BY PaidStep
  <1>3. TypeInv /\ TotalInv /\ PaidInv => PublishedPaidFor
    <2> SUFFICES ASSUME TypeInv, TotalInv, PaidInv PROVE PublishedPaidFor
      OBVIOUS
    <2> DEFINE g == [d \in Drivers |-> IF out[d].dir THEN Size(d) ELSE 0]
    <2>1. /\ g \in [Drivers -> Nat] /\ Claims \in [Drivers -> Nat]
          /\ \A d \in Drivers : g[d] <= Claims[d]
      <3>1. \A d \in Drivers : /\ Published(out[d]) \in Nat /\ asked[d] \in Nat
                               /\ g[d] = Published(out[d])
                               /\ Claims[d] = Claim(out[d], at[d], asked[d])
        BY PublishedNat DEF Published, Size, Claims, TypeInv, TotalInv, BudgetInv, BudgetTypeOK
      <3>2. \A d \in Drivers : Claims[d] \in Nat /\ g[d] <= Claims[d]
        <4>1. \A O, step : \A bytes \in Nat : Published(O) \in Nat =>
                /\ Claim(O, step, bytes) \in Nat
                /\ Published(O) <= Claim(O, step, bytes)
          BY DEF Claim
        <4> HIDE DEF g
        <4> QED
          BY <3>1, <4>1
      <3> QED
        BY <3>1, <3>2 DEF Claims
    <2>2. SumFunction(g) <= SumFunction(Claims)
      <3> HIDE DEF g
      <3> QED
        BY <2>1, SumMonotone, StreamAssumption DEF StreamAssumption
    <2>3. SumFunction(g) \in Nat /\ SumFunction(Claims) \in Nat /\ charged \in Nat
      <3> HIDE DEF g
      <3>1. IsFiniteSet(Drivers) /\ charged \in Nat
        BY StreamAssumption DEF StreamAssumption, TotalInv, BudgetInv, BudgetTypeOK
      <3> QED
        BY <2>1, <3>1, SumNat
    <2>4. SumFunction(Claims) <= charged
      BY DEF PaidInv
    <2>5. SumFunction(g) <= charged
      <3> HIDE DEF g
      <3> QED
        BY <2>2, <2>3, <2>4
    <2> QED
      BY <2>5 DEF PublishedPaidFor
  <1> QED
    BY <1>1, <1>2, <1>3, Typed, PTL DEF Spec

(* All output directories of a build together stay under the limit on the  *)
(* bytes of its streams.                                                   *)
PublishedBytes == SumFunction([d \in Drivers |-> IF out[d].dir THEN Size(d) ELSE 0])

THEOREM StreamsStayBounded == Spec => [](PublishedBytes <= MAX_STREAM_BYTES)
  <1>1. /\ TypeInv /\ TotalInv /\ PublishedPaidFor /\ NothingForgotten
        => PublishedBytes <= MAX_STREAM_BYTES
    <2> SUFFICES ASSUME TypeInv, TotalInv, PublishedPaidFor, NothingForgotten
                 PROVE  PublishedBytes <= MAX_STREAM_BYTES
      OBVIOUS
    <2> DEFINE g == [d \in Drivers |-> IF out[d].dir THEN Size(d) ELSE 0]
    <2>1. g \in [Drivers -> Nat]
      BY PublishedNat DEF Published, Size, TypeInv
    <2>2. charged \in Nat /\ MAX_STREAM_BYTES \in Nat /\ IsFiniteSet(Drivers)
      BY BudgetAssumption, StreamAssumption
         DEF BudgetAssumption, StreamAssumption, TotalInv, BudgetInv, BudgetTypeOK
    <2>3. SumFunction(g) \in Nat
      <3> HIDE DEF g
      <3> QED
        BY <2>1, <2>2, SumNat
    <2>4. SumFunction(g) <= charged /\ charged <= MAX_STREAM_BYTES
      BY DEF PublishedPaidFor, NothingForgotten
    <2> HIDE DEF g
    <2>5. SumFunction(g) <= MAX_STREAM_BYTES
      BY <2>2, <2>3, <2>4
    <2> QED
      BY <2>5 DEF g, PublishedBytes
  <1> QED
    BY <1>1, Typed, PublishedAlwaysPaidFor, BudgetNeverForgets, PTL
=============================================================================
