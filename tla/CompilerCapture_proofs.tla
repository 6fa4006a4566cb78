----------------------- MODULE CompilerCapture_proofs -----------------------
(***************************************************************************)
(* A wrapper hands its child nothing but the controls it made itself, and  *)
(* records why occurrences are missing; every record in the attachment has *)
(* the version its compiler read; a unit is in the attachment or something *)
(* there says that it is missing; and the attachment is exact about its    *)
(* own losses: for any compilers, slots, limits and options, and any       *)
(* failures.  The argument is in three parts, each relative to the one     *)
(* before: what a wrapper's state may be (IInv: local to the wrapper, as   *)
(* no other process touches it), what it knows of its unit and where it    *)
(* files it (WrapperInv), and what the session keeps of what it read       *)
(* (SessionInv).                                                           *)
(***************************************************************************)
EXTENDS CompilerCapture, FiniteSetTheorems, TLAPS

Versions == Nat \union {NONE}
Steps == {"start", "claim", "observe", "request", "controls", "compile", "after", "accept",
          "write", "end"}
Requests == {"callback", "stream"}
Controls == [via : {"none", "path", "fd"}, of : Compilers \union {NONE, FOREIGN},
             pair : SUBSET Requests]
Gaps == {"UnstableFile", "ReadFailed", "BudgetExceeded", "OccurrenceCallbackRejected",
         "OccurrenceCallbackUnavailable"}

RunState ==
  [pc : Steps, next : Nat, slot : Slots \union {NONE}, request : SUBSET Requests,
   path : Compilers \union {NONE, FOREIGN}, fd : Compilers \union {NONE, FOREIGN},
   sealed : BOOLEAN, got : Controls, before : Versions, compiled : Versions, ok : BOOLEAN,
   after : Versions, written : Versions, occ : Versions, gaps : SUBSET Gaps]

Units == [of : Compilers, before : Versions, after : Versions, ok : BOOLEAN, occ : Versions,
          gaps : SUBSET Gaps]
Directories ==
  [slots : SUBSET Slots, units : [Slots -> {NONE, TORN} \union Units], marks : SUBSET Marks,
   torn : SUBSET Marks]

Wanted == {"callback"} \union (mode \intersect {"stream"})
Why == {"OccurrenceCallbackRejected", "OccurrenceCallbackUnavailable", "BudgetExceeded"}

(* The environment of a child, when it is started: its own controls or     *)
(* none; descriptors only for the whole pair; a held child has no paths    *)
(* without them.                                                           *)
Prepared(c, R) ==
  /\ R.path \in {c, NONE} /\ R.fd \in {c, NONE}
  /\ R.fd = c => R.request = Wanted
  /\ "held" \in mode /\ R.fd = NONE => R.path = NONE

Taken(c, R) ==
  /\ R.got.of \in {c, NONE}
  /\ "held" \in mode /\ R.got # NoControls => R.got.via = "fd" /\ R.got.pair = Wanted

Explained(R) == R.occ = NONE => R.gaps \intersect Why # {}

Fine(c, R) ==
  /\ R \in RunState
  /\ R.request \subseteq Wanted
  /\ R.pc = "compile" => Prepared(c, R)
  /\ R.pc = "write" => Explained(R)
  /\ Taken(c, R)

DirFine ==
  /\ dir \in Directories /\ dir.torn \subseteq dir.marks
  /\ \A i \in Slots : dir.units[i] \notin {NONE, TORN} => Explained(dir.units[i])

IInv ==
  /\ src \in Nat /\ DirFine
  /\ run \in [Compilers -> RunState] /\ \A c \in Compilers : Fine(c, run[c])

(* NONE stands for no compiler and no version.                             *)
LEMMA Distinct == NONE \notin Compilers /\ NONE \notin Nat
  BY CaptureAssumption DEF CaptureAssumption

(* The controls of a child that got none.                                  *)
LEMMA NoControlsTyped == NoControls \in Controls
  BY DEF NoControls, Controls

(* A wrapper starts fine, whatever its environment names.                  *)
LEMMA Initially == Init => IInv
<1> SUFFICES ASSUME Init PROVE IInv
  OBVIOUS
<1>1. NewRun \in RunState
  <2>1. NONE \in Versions /\ 0 \in Nat
    BY DEF Versions
  <2> QED
    BY <2>1, NoControlsTyped DEF NewRun, RunState, Steps
<1>2. ASSUME NEW c \in Compilers PROVE Fine(c, NewRun)
  BY <1>1 DEF Fine, NewRun, Taken, NoControls
<1>3. DirFine
  <2>1. dir = [slots |-> {}, units |-> [i \in Slots |-> NONE], marks |-> {}, torn |-> {}]
    BY DEF Init
  <2> QED
    BY <2>1 DEF Directories, DirFine
<1>4. run = [c \in Compilers |-> NewRun] /\ src \in Nat
  BY DEF Init
<1> QED
  BY <1>1, <1>2, <1>3, <1>4 DEF IInv

(* A step of one wrapper that leaves it fine, and the directory, preserves *)
(* the invariant.                                                          *)
LEMMA Local ==
  ASSUME IInv, NEW c \in Compilers, NEW R, Becomes(c, R), Fine(c, R),
         mode' = mode, src' = src, DirFine'
  PROVE  IInv'
<1>1. run' = [run EXCEPT ![c] = R] /\ R \in RunState
  BY DEF Becomes, Fine
<1>2. run' \in [Compilers -> RunState]
  BY <1>1 DEF IInv
<1>3. ASSUME NEW d \in Compilers PROVE Fine(d, run'[d])
  BY <1>1 DEF IInv
<1>4. ASSUME NEW d \in Compilers PROVE Fine(d, run[d])'
  BY <1>3 DEF Fine, Prepared, Taken, Wanted
<1> QED
  BY <1>2, <1>4 DEF IInv

(* Nothing but its marks and slots changes in a fine directory.            *)
LEMMA DirKept ==
  ASSUME DirFine,
         dir' = dir \/ \E s \in SUBSET Slots, m \in SUBSET Marks : \E t \in SUBSET m :
                         dir' = [dir EXCEPT !.slots = s, !.marks = m, !.torn = t]
  PROVE  DirFine'
BY DEF DirFine, Directories

(* A mark that is written, or torn, leaves the directory fine.             *)
LEMMA MarkKept ==
  ASSUME DirFine, NEW mark \in Marks, Marked(dir, mark)
  PROVE  DirFine'
<1>1. /\ dir \in Directories /\ dir.slots \in SUBSET Slots
      /\ dir.marks \in SUBSET Marks /\ dir.torn \in SUBSET dir.marks
  BY DEF DirFine, Directories
<1>2. PICK m \in SUBSET Marks, t \in SUBSET Marks :
        t \subseteq m /\ dir' = [dir EXCEPT !.slots = dir.slots, !.marks = m, !.torn = t]
  <2>1. CASE dir' = [dir EXCEPT !.marks = @ \union {mark}]
    <3>1. dir' = [dir EXCEPT !.slots = dir.slots, !.marks = dir.marks \union {mark},
                    !.torn = dir.torn]
      BY <1>1, <2>1 DEF Directories
    <3> QED
      BY <1>1, <3>1
  <2>2. ASSUME NEW torn \in SUBSET {mark},
               dir' = [dir EXCEPT !.marks = @ \union torn, !.torn = @ \union torn]
        PROVE  \E m \in SUBSET Marks, t \in SUBSET Marks :
                 t \subseteq m /\ dir' = [dir EXCEPT !.slots = dir.slots, !.marks = m, !.torn = t]
    <3>1. dir' = [dir EXCEPT !.slots = dir.slots, !.marks = dir.marks \union torn,
                    !.torn = dir.torn \union torn]
      BY <1>1, <2>2 DEF Directories
    <3> QED
      BY <1>1, <3>1
  <2> QED
    BY <2>1, <2>2 DEF Marked
<1> QED
  BY <1>1, <1>2, DirKept

(* Up to its compiler a wrapper changes nothing that its controls or its   *)
(* record depend on: it has taken none and written none.                   *)
LEMMA Quiet ==
  ASSUME IInv, NEW c \in Compilers, NEW pc \in Steps \ {"compile", "write"}
  PROVE  /\ Fine(c, [run[c] EXCEPT !.pc = pc])
         /\ \A i \in Nat : Fine(c, [run[c] EXCEPT !.next = i])
         /\ \A s \in Slots : Fine(c, [run[c] EXCEPT !.pc = pc, !.slot = s])
         /\ \A v \in Nat : Fine(c, [run[c] EXCEPT !.pc = pc, !.before = v])
         /\ \A q \in SUBSET Wanted : Fine(c, [run[c] EXCEPT !.pc = pc, !.request = q])
<1> USE DEF IInv
<1>0. run[c] \in RunState /\ Fine(c, run[c])
  OBVIOUS
<1>1. Fine(c, [run[c] EXCEPT !.pc = pc])
  <2> DEFINE R == [run[c] EXCEPT !.pc = pc]
  <2>1. R \in RunState
    BY <1>0 DEF RunState
  <2>2. R.pc = pc /\ R.request = run[c].request /\ R.got = run[c].got
    BY <1>0 DEF RunState
  <2> QED
    BY <1>0, <2>1, <2>2 DEF Fine, Taken
<1>2. ASSUME NEW i \in Nat PROVE Fine(c, [run[c] EXCEPT !.next = i])
  <2> DEFINE R == [run[c] EXCEPT !.next = i]
  <2>1. R \in RunState
    BY <1>0 DEF RunState
  <2>2. \A f \in {"pc", "path", "fd", "request", "got", "occ", "gaps"} : R[f] = run[c][f]
    BY <1>0 DEF RunState
  <2> QED
    BY <1>0, <2>1, <2>2 DEF Fine, Taken, Prepared, Explained
<1>3. ASSUME NEW s \in Slots PROVE Fine(c, [run[c] EXCEPT !.pc = pc, !.slot = s])
  <2> DEFINE R == [run[c] EXCEPT !.pc = pc, !.slot = s]
  <2>1. R \in RunState
    BY <1>0 DEF RunState
  <2>2. R.pc = pc /\ R.request = run[c].request /\ R.got = run[c].got
    BY <1>0 DEF RunState
  <2> QED
    BY <1>0, <2>1, <2>2 DEF Fine, Taken
<1>4. ASSUME NEW v \in Nat PROVE Fine(c, [run[c] EXCEPT !.pc = pc, !.before = v])
  <2> DEFINE R == [run[c] EXCEPT !.pc = pc, !.before = v]
  <2>1. R \in RunState
    BY <1>0 DEF RunState, Versions
  <2>2. R.pc = pc /\ R.request = run[c].request /\ R.got = run[c].got
    BY <1>0 DEF RunState
  <2> QED
    BY <1>0, <2>1, <2>2 DEF Fine, Taken
<1>5. ASSUME NEW q \in SUBSET Wanted PROVE Fine(c, [run[c] EXCEPT !.pc = pc, !.request = q])
  <2> DEFINE R == [run[c] EXCEPT !.pc = pc, !.request = q]
  <2>0. q \in SUBSET Requests
    BY DEF Wanted, Requests
  <2>1. R \in RunState
    BY <1>0, <2>0 DEF RunState
  <2>2. R.pc = pc /\ R.request = q /\ R.got = run[c].got
    BY <1>0 DEF RunState
  <2> QED
    BY <1>0, <2>1, <2>2 DEF Fine, Taken
<1> QED
  BY <1>1, <1>2, <1>3, <1>4, <1>5

(* Starting, claiming a slot, observing the inputs, writing the requests,  *)
(* and a kill.                                                             *)
LEMMA Claiming ==
  ASSUME IInv, NEW c \in Compilers,
         \/ Start(c) \/ Claim(c) \/ SlotTaken(c) \/ ClaimFails(c) \/ NoSlot(c) \/ Observe(c)
         \/ WriteRequests(c) \/ Kill(c)
  PROVE  IInv'
<1>1. /\ run[c] \in RunState /\ src \in Nat /\ dir \in Directories
      /\ dir.slots \in SUBSET Slots /\ dir.marks \in SUBSET Marks /\ dir.torn \in SUBSET dir.marks
  BY DEF IInv, DirFine, Directories
<1>2. run[c].next \in Nat
  BY <1>1 DEF RunState
<1>3. ASSUME NEW mark \in Marks, Marked(dir, mark) PROVE DirFine'
  BY <1>3, MarkKept DEF IInv
<1>4. ASSUME dir' = dir PROVE DirFine'
  BY <1>4, DirKept DEF IInv
<1>5. CASE Start(c)
  <2>1. Becomes(c, [run[c] EXCEPT !.pc = "claim"]) \/ Becomes(c, [run[c] EXCEPT !.pc = "controls"])
    BY <1>5 DEF Start
  <2>2. DirFine'
    <3>1. call[c] \in {"foreign", "long", "response"} => MarkOf(call[c]) \in Marks
      BY DEF MarkOf, Marks, Budgets
    <3> QED
      BY <1>3, <1>4, <1>5, <3>1 DEF Start
  <2>3. mode' = mode /\ src' = src
    BY <1>5 DEF Start
  <2>4. Fine(c, [run[c] EXCEPT !.pc = "claim"]) /\ Fine(c, [run[c] EXCEPT !.pc = "controls"])
    BY Quiet DEF Steps
  <2> QED
    BY <2>1, <2>2, <2>3, <2>4, Local
<1>6. CASE Claim(c)
  <2> DEFINE i == run[c].next
  <2>1. i \in Slots
    BY <1>2, <1>6, CaptureAssumption DEF Claim, Slots, CaptureAssumption
  <2>2. dir' = [dir EXCEPT !.slots = dir.slots \union {i}, !.marks = dir.marks, !.torn = dir.torn]
    BY <1>1, <1>6 DEF Claim, Directories
  <2>3. DirFine'
    BY <1>1, <2>1, <2>2, DirKept DEF IInv
  <2>4. Fine(c, [run[c] EXCEPT !.pc = "observe", !.slot = i])
    BY <2>1, Quiet DEF Steps
  <2> QED
    BY <1>6, <2>3, <2>4, Local DEF Claim
<1>7. CASE SlotTaken(c)
  <2>1. Fine(c, [run[c] EXCEPT !.next = run[c].next + 1])
    <3>1. run[c].next + 1 \in Nat
      BY <1>2
    <3>2. "start" \in Steps \ {"compile", "write"}
      BY DEF Steps
    <3>3. \A i \in Nat : Fine(c, [run[c] EXCEPT !.next = i])
      BY <3>2, Quiet
    <3> QED
      BY <3>1, <3>3
  <2>2. Becomes(c, [run[c] EXCEPT !.next = run[c].next + 1])
    BY <1>7 DEF SlotTaken
  <2> QED
    BY <1>4, <1>7, <2>1, <2>2, Local DEF SlotTaken
<1>8. CASE ClaimFails(c)
  <2> DEFINE i == run[c].next
  <2>1. i \in Slots
    <3>1. i < MAX_INVOCATIONS
      BY <1>8 DEF ClaimFails
    <3> QED
      BY <1>2, <3>1, CaptureAssumption DEF Slots, CaptureAssumption
  <2>2. PICK made \in SUBSET {i}, mark \in SUBSET {"observation-failed"} :
          dir' = [dir EXCEPT !.slots = @ \union made, !.marks = @ \union mark]
    BY <1>8 DEF ClaimFails
  <2>3. PICK s \in SUBSET Slots, m \in SUBSET Marks :
          s = dir.slots \union made /\ m = dir.marks \union mark
    <3>1. dir.slots \union made \in SUBSET Slots
      BY <1>1, <2>1
    <3>2. dir.marks \union mark \in SUBSET Marks
      BY <1>1 DEF Marks
    <3> QED
      BY <3>1, <3>2
  <2>4. DirFine'
    <3>1. dir' = [dir EXCEPT !.slots = s, !.marks = m, !.torn = dir.torn]
      BY <1>1, <2>2, <2>3 DEF Directories
    <3>2. dir.torn \in SUBSET m
      BY <1>1, <2>3
    <3> QED
      BY <3>1, <3>2, DirKept DEF IInv
  <2>5. Fine(c, [run[c] EXCEPT !.pc = "controls"])
    BY Quiet DEF Steps
  <2> QED
    BY <1>8, <2>4, <2>5, Local DEF ClaimFails
<1>9. CASE NoSlot(c)
  <2>1. Fine(c, [run[c] EXCEPT !.pc = "controls"])
    BY Quiet DEF Steps
  <2>2. DirFine'
    BY <1>3, <1>9 DEF NoSlot, Marks, Budgets
  <2> QED
    BY <1>9, <2>1, <2>2, Local DEF NoSlot
<1>10. CASE Observe(c)
  <2>1. Fine(c, [run[c] EXCEPT !.pc = "controls"])
    BY Quiet DEF Steps
  <2>2. Fine(c, [run[c] EXCEPT !.pc = "request", !.before = src])
    BY <1>1, Quiet DEF Steps
  <2>3. Becomes(c, [run[c] EXCEPT !.pc = "controls"])
          \/ Becomes(c, [run[c] EXCEPT !.pc = "request", !.before = src])
    BY <1>10 DEF Observe
  <2> QED
    BY <1>4, <1>10, <2>1, <2>2, <2>3, Local DEF Observe
<1>11. CASE WriteRequests(c)
  <2>1. PICK q \in SUBSET Wanted : Becomes(c, [run[c] EXCEPT !.pc = "controls", !.request = q])
    BY <1>11 DEF WriteRequests, Wanted
  <2>2. Fine(c, [run[c] EXCEPT !.pc = "controls", !.request = q])
    BY Quiet DEF Steps
  <2> QED
    BY <1>4, <1>11, <2>1, <2>2, Local DEF WriteRequests
<1>12. CASE Kill(c)
  <2>1. Fine(c, [run[c] EXCEPT !.pc = "end"])
    BY Quiet DEF Steps
  <2> QED
    BY <1>4, <1>12, <2>1, Local DEF Kill
<1> QED
  BY <1>5, <1>6, <1>7, <1>8, <1>9, <1>10, <1>11, <1>12

(* The environment a child is started in is prepared, whatever the wrapper *)
(* inherited: Cleared removes it all before anything is set.               *)
LEMMA Preparing ==
  ASSUME IInv, NEW c \in Compilers, Seal(c) \/ PassPaths(c)
  PROVE  IInv'
<1>1. run[c] \in RunState /\ Fine(c, run[c])
  BY DEF IInv
<1>2. dir' = dir /\ mode' = mode /\ src' = src /\ DirFine'
  BY DirKept DEF Seal, PassPaths, IInv
<1>3. ASSUME NEW gap \in Gaps, Unsealed(c, gap) PROVE IInv'
  <2>1. PICK g \in SUBSET Gaps :
          Becomes(c, [run[c] EXCEPT !.pc = "compile", !.path = NONE, !.fd = NONE, !.gaps = g])
    BY <1>1, <1>3 DEF Unsealed, Cleared, RunState
  <2> DEFINE R == [run[c] EXCEPT !.pc = "compile", !.path = NONE, !.fd = NONE, !.gaps = g]
  <2>2. R \in RunState
    BY <1>1 DEF RunState, Steps
  <2>3. /\ R.pc = "compile" /\ R.path = NONE /\ R.fd = NONE
        /\ R.request = run[c].request /\ R.got = run[c].got
    BY <1>1 DEF RunState
  <2>4. Fine(c, R)
    BY <1>1, <2>2, <2>3, Distinct DEF Fine, Prepared, Taken
  <2> QED
    BY <1>2, <2>1, <2>4, Local
<1>4. CASE Seal(c)
  <2>1. CASE Becomes(c, [Cleared(run[c]) EXCEPT !.path = c, !.fd = c, !.sealed = TRUE]) /\ PairReady(c)
    <3> DEFINE R == [run[c] EXCEPT !.pc = "compile", !.path = c, !.fd = c, !.sealed = TRUE]
    <3>1. Becomes(c, R)
      BY <1>1, <2>1 DEF Cleared, RunState
    <3>2. R \in RunState
      BY <1>1 DEF RunState, Steps
    <3>3. /\ R.pc = "compile" /\ R.path = c /\ R.fd = c
          /\ R.request = run[c].request /\ R.got = run[c].got
      BY <1>1 DEF RunState
    <3>4. run[c].request = Wanted
      BY <1>1, <2>1 DEF Fine, PairReady, Wanted
    <3>5. Fine(c, R)
      BY <1>1, <3>2, <3>3, <3>4, Distinct DEF Fine, Prepared, Taken
    <3> QED
      BY <1>2, <3>1, <3>5, Local
  <2>2. CASE Unsealed(c, "ReadFailed") \/ Unsealed(c, "BudgetExceeded")
    BY <1>3, <2>2 DEF Gaps
  <2> QED
    BY <1>4, <2>1, <2>2 DEF Seal
<1>5. CASE PassPaths(c)
  <2>1. PICK p \in {c, NONE} :
          Becomes(c, [run[c] EXCEPT !.pc = "compile", !.path = p, !.fd = NONE])
    <3>1. PICK p \in {c, NONE} : Becomes(c, [Cleared(run[c]) EXCEPT !.path = p])
      BY <1>5 DEF PassPaths
    <3> QED
      BY <1>1, <3>1 DEF Cleared, RunState
  <2> DEFINE R == [run[c] EXCEPT !.pc = "compile", !.path = p, !.fd = NONE]
  <2>2. R \in RunState
    BY <1>1 DEF RunState, Steps
  <2>3. /\ R.pc = "compile" /\ R.path = p /\ R.fd = NONE
        /\ R.request = run[c].request /\ R.got = run[c].got
    BY <1>1 DEF RunState
  <2>4. Fine(c, R)
    BY <1>1, <1>5, <2>2, <2>3, Distinct DEF Fine, Prepared, Taken, PassPaths
  <2> QED
    BY <1>2, <2>1, <2>4, Local
<1> QED
  BY <1>4, <1>5

(* The controls a child that was so started takes.                         *)
LEMMA Taking ==
  ASSUME IInv, NEW c \in Compilers, run[c].pc = "compile"
  PROVE  /\ Adopted(c) \in Controls
         /\ Adopted(c).of \in {c, NONE}
         /\ "held" \in mode /\ Adopted(c) # NoControls =>
              Adopted(c).via = "fd" /\ Adopted(c).pair = Wanted
<1>1. run[c] \in RunState /\ Fine(c, run[c]) /\ Prepared(c, run[c])
  BY DEF IInv, Fine
<1>2. run[c].request \in SUBSET Requests
  BY <1>1 DEF RunState
<1>3. CASE run[c].fd # NONE
  <2>1. run[c].fd = c
    BY <1>1, <1>3 DEF Prepared
  <2>2. Adopted(c) = [via |-> "fd", of |-> c, pair |-> run[c].request]
    BY <1>3, <2>1 DEF Adopted
  <2> QED
    BY <1>1, <1>2, <2>1, <2>2 DEF Controls, Prepared
<1>4. CASE run[c].fd = NONE /\ run[c].path # NONE
  <2>1. run[c].path = c /\ "held" \notin mode
    BY <1>1, <1>4 DEF Prepared
  <2>2. Adopted(c) = [via |-> "path", of |-> c, pair |-> run[c].request]
    BY <1>4, <2>1 DEF Adopted
  <2> QED
    BY <1>2, <2>1, <2>2 DEF Controls
<1>5. CASE run[c].fd = NONE /\ run[c].path = NONE
  <2>1. Adopted(c) = NoControls
    BY <1>5 DEF Adopted
  <2> QED
    BY <2>1, NoControlsTyped DEF NoControls
<1> QED
  BY <1>3, <1>4, <1>5

(* The compiler, and the inputs read again after it.                       *)
LEMMA Compiling ==
  ASSUME IInv, NEW c \in Compilers, Compile(c) \/ After(c)
  PROVE  IInv'
<1>1. run[c] \in RunState /\ Fine(c, run[c]) /\ src \in Versions /\ NONE \in Versions
  BY DEF IInv, Versions
<1>2. dir' = dir /\ mode' = mode /\ src' = src /\ DirFine'
  BY DirKept DEF Compile, After, IInv
<1>3. CASE Compile(c)
  <2>1. PICK got \in {Adopted(c), NoControls}, pc \in {"after", "end"}, ok \in BOOLEAN,
             w \in {src, NONE} :
          Becomes(c, [run[c] EXCEPT !.pc = pc, !.got = got, !.compiled = src, !.ok = ok, !.written = w])
    BY <1>3 DEF Compile
  <2> DEFINE R == [run[c] EXCEPT !.pc = pc, !.got = got, !.compiled = src, !.ok = ok, !.written = w]
  <2>2. run[c].pc = "compile"
    BY <1>3 DEF Compile
  <2>3. /\ got \in Controls /\ got.of \in {c, NONE}
        /\ "held" \in mode /\ got # NoControls => got.via = "fd" /\ got.pair = Wanted
    <3>1. CASE got = NoControls
      BY <3>1, NoControlsTyped DEF NoControls
    <3>2. CASE got = Adopted(c)
      BY <2>2, <3>2, Taking
    <3> QED
      BY <3>1, <3>2
  <2>4. R \in RunState
    BY <1>1, <2>3 DEF RunState, Steps
  <2>5. R.pc \in {"after", "end"} /\ R.request = run[c].request /\ R.got = got
    BY <1>1 DEF RunState
  <2>6. Fine(c, R)
    BY <1>1, <2>3, <2>4, <2>5 DEF Fine, Taken
  <2> QED
    BY <1>2, <2>1, <2>6, Local
<1>4. CASE After(c)
  <2>1. PICK g \in SUBSET Gaps :
          Becomes(c, [run[c] EXCEPT !.pc = "accept", !.after = src, !.gaps = g])
    BY <1>1, <1>4 DEF After, RunState, Gaps
  <2> DEFINE R == [run[c] EXCEPT !.pc = "accept", !.after = src, !.gaps = g]
  <2>2. R \in RunState
    BY <1>1 DEF RunState, Steps
  <2>3. R.pc = "accept" /\ R.request = run[c].request /\ R.got = run[c].got
    BY <1>1 DEF RunState
  <2>4. Fine(c, R)
    BY <1>1, <2>2, <2>3 DEF Fine, Taken
  <2> QED
    BY <1>2, <2>1, <2>4, Local
<1> QED
  BY <1>3, <1>4

(* A record gets the occurrences of the compiler, or a gap that explains   *)
(* why it has none.                                                        *)
LEMMA Accepting ==
  ASSUME IInv, NEW c \in Compilers, Accept(c)
  PROVE  IInv'
<1>1. run[c] \in RunState /\ Fine(c, run[c]) /\ src \in Versions /\ src # NONE
  BY Distinct DEF IInv, Versions
<1>2. dir' = dir /\ mode' = mode /\ src' = src /\ DirFine'
  BY DirKept DEF Accept, IInv
<1>3. CASE Becomes(c, [run[c] EXCEPT !.pc = "write", !.occ = src])
  <2> DEFINE R == [run[c] EXCEPT !.pc = "write", !.occ = src]
  <2>1. R \in RunState
    BY <1>1 DEF RunState, Steps
  <2>2. R.pc = "write" /\ R.request = run[c].request /\ R.got = run[c].got /\ R.occ = src
    BY <1>1 DEF RunState
  <2>3. Fine(c, R)
    BY <1>1, <2>1, <2>2 DEF Fine, Taken, Explained
  <2> QED
    BY <1>2, <1>3, <2>3, Local
<1>4. ASSUME NEW why \in Why, Becomes(c, [run[c] EXCEPT !.pc = "write", !.gaps = @ \union {why}])
      PROVE  IInv'
  <2> DEFINE R == [run[c] EXCEPT !.pc = "write", !.gaps = run[c].gaps \union {why}]
  <2>1. R \in RunState
    BY <1>1 DEF RunState, Steps, Why, Gaps
  <2>2. /\ R.pc = "write" /\ R.request = run[c].request /\ R.got = run[c].got
        /\ R.gaps = run[c].gaps \union {why}
    BY <1>1 DEF RunState
  <2>3. Fine(c, R)
    BY <1>1, <2>1, <2>2 DEF Fine, Taken, Explained
  <2>4. Becomes(c, R)
    BY <1>4
  <2> QED
    BY <1>2, <2>3, <2>4, Local
<1>5. \/ Becomes(c, [run[c] EXCEPT !.pc = "write", !.occ = src])
      \/ \E why \in Why : Becomes(c, [run[c] EXCEPT !.pc = "write", !.gaps = @ \union {why}])
  <2> DEFINE why == IF "callback" \in run[c].request THEN "OccurrenceCallbackRejected"
                    ELSE "OccurrenceCallbackUnavailable"
  <2>1. why \in Why /\ "BudgetExceeded" \in Why
    BY DEF Why
  <2> HIDE DEF why
  <2> QED
    BY <2>1 DEF Accept, why
<1> QED
  BY <1>3, <1>4, <1>5

(* What is written into the directory is the explained record, a torn one  *)
(* or nothing.                                                             *)
LEMMA Writing ==
  ASSUME IInv, NEW c \in Compilers, WriteUnit(c) \/ UnitTooLarge(c) \/ WriteUnitFails(c)
  PROVE  IInv'
<1>1. run[c] \in RunState /\ Fine(c, run[c]) /\ run[c].pc = "write"
  BY DEF IInv, WriteUnit, UnitTooLarge, WriteUnitFails
<1>2. mode' = mode /\ src' = src /\ Becomes(c, [run[c] EXCEPT !.pc = "end"])
  BY DEF WriteUnit, UnitTooLarge, WriteUnitFails
<1>3. Fine(c, [run[c] EXCEPT !.pc = "end"])
  BY Quiet DEF Steps
<1>4. Record(c) \in Units /\ Explained(Record(c))
  BY <1>1 DEF Record, Units, RunState, Fine, Explained
<1>5. dir \in Directories /\ dir.marks \in SUBSET Marks
  BY DEF IInv, DirFine, Directories
<1>6. ASSUME NEW there \in {NONE, TORN, Record(c)}, NEW m \in SUBSET Marks, dir.marks \subseteq m,
             dir' = [dir EXCEPT !.units[run[c].slot] = there, !.marks = m]
      PROVE  DirFine'
  <2> DEFINE u == [dir.units EXCEPT ![run[c].slot] = there]
  <2>1. dir' = [dir EXCEPT !.units = u, !.marks = m]
    BY <1>6
  <2>2. dir.units \in [Slots -> {NONE, TORN} \union Units]
    BY <1>5 DEF Directories
  <2>3. u \in [Slots -> {NONE, TORN} \union Units]
    BY <1>4, <2>2
  <2>4. \A i \in Slots : u[i] \notin {NONE, TORN} => Explained(u[i])
    BY <1>4, <2>2 DEF IInv, DirFine
  <2> HIDE DEF u
  <2>5. dir' \in Directories /\ dir'.units = u
    BY <1>5, <2>1, <2>3 DEF Directories
  <2>6. dir'.torn \subseteq dir'.marks
    BY <1>5, <1>6, <2>1 DEF IInv, DirFine, Directories
  <2> QED
    BY <2>4, <2>5, <2>6 DEF DirFine, Explained, Directories, Units
<1>7. CASE WriteUnit(c)
  <2>1. dir' = [dir EXCEPT !.units[run[c].slot] = Record(c), !.marks = dir.marks]
    BY <1>5, <1>7 DEF WriteUnit, Directories
  <2>2. DirFine'
    BY <1>5, <1>6, <2>1
  <2> QED
    BY <1>2, <1>3, <2>2, Local
<1>8. CASE UnitTooLarge(c)
  <2>1. "invocation_serialization" \in Marks /\ Marked(dir, "invocation_serialization")
    BY <1>8 DEF UnitTooLarge, Marks, Budgets
  <2>2. DirFine'
    BY <2>1, MarkKept DEF IInv
  <2> QED
    BY <1>2, <1>3, <2>2, Local
<1>9. CASE WriteUnitFails(c)
  <2>1. PICK there \in {NONE, TORN, Record(c)}, mark \in SUBSET {"observation-failed"} :
          dir' = [dir EXCEPT !.units[run[c].slot] = there, !.marks = @ \union mark]
    BY <1>9 DEF WriteUnitFails
  <2>2. dir' = [dir EXCEPT !.units[run[c].slot] = there, !.marks = dir.marks \union mark]
    BY <1>5, <2>1 DEF Directories
  <2>3. dir.marks \union mark \in SUBSET Marks /\ dir.marks \subseteq dir.marks \union mark
    BY <1>5 DEF Marks
  <2>4. DirFine'
    BY <1>6, <2>2, <2>3
  <2> QED
    BY <1>2, <1>3, <2>4, Local
<1> QED
  BY <1>7, <1>8, <1>9

(* The session reads what the wrappers left and changes none of it.        *)
LEMMA Elsewhere ==
  ASSUME IInv, Join \/ Edit \/ UNCHANGED vars
  PROVE  IInv'
<1>1. mode' = mode /\ dir' = dir /\ run' = run
  BY DEF Join, Finish, JoinUnit, UnitsJoined, JoinGenerator, GeneratorsJoined, JoinStream,
         StreamsJoined, Assemble, Publish, Edit, vars
<1>2. src' = src \/ src' = src + 1
  BY DEF Join, Finish, JoinUnit, UnitsJoined, JoinGenerator, GeneratorsJoined, JoinStream,
         StreamsJoined, Assemble, Publish, Edit, vars
<1>3. src' \in Nat
  BY <1>2 DEF IInv
<1>4. DirFine'
  BY <1>1, DirKept DEF IInv
<1>5. \A c \in Compilers : Fine(c, run[c])'
  BY <1>1 DEF IInv, Fine, Prepared, Taken, Wanted
<1> QED
  BY <1>1, <1>3, <1>4, <1>5 DEF IInv

(* What a child takes and a record tells follows from the invariant.       *)
LEMMA Held == IInv => HeldOrTold
BY DEF IInv, Fine, Taken, Wanted, DirFine, Explained, Why, HeldOrTold

(* Held callback controls (docs and compiler_observer.rs): whatever        *)
(* environment a wrapper inherited, its child takes the requests of its    *)
(* own wrapper or none, in held mode the whole pair through descriptors,   *)
(* and a record without occurrences says why.                              *)
THEOREM ControlsHeldOrTold == Spec => []HeldOrTold
<1>1. Init => IInv
  BY Initially
<1>2. IInv /\ [Next]_vars => IInv'
  <2> SUFFICES ASSUME IInv, [Next]_vars PROVE IInv'
    OBVIOUS
  <2>1. ASSUME NEW c \in Compilers, Wrapper(c) PROVE IInv'
    BY <2>1, Claiming, Preparing, Compiling, Accepting, Writing DEF Wrapper
  <2>2. CASE Join \/ Edit \/ UNCHANGED vars
    BY <2>2, Elsewhere
  <2> QED
    BY <2>1, <2>2 DEF Next
<1> QED
  BY <1>1, <1>2, Held, PTL DEF Spec

-----------------------------------------------------------------------------
(* What a wrapper knows of its unit.                                       *)

(* A record is of version v, or says that its input was unstable.          *)
TrueTo(R, v) ==
  /\ "UnstableFile" \in R.gaps \/ (R.before = v /\ R.after = v)
  /\ R.occ # NONE => R.ok /\ R.occ = v

(* What a wrapper has observed when the sources are at version s: its own  *)
(* observations around what its compiler read.                             *)
Chronicle(R, s) ==
  /\ R.before # NONE => R.before <= s
  /\ R.pc \in {"after", "accept", "write"} =>
       R.slot # NONE /\ R.before # NONE /\ R.compiled # NONE /\ R.compiled <= s
  /\ R.pc = "after" => R.before <= R.compiled
  /\ R.pc \in {"accept", "write"} =>
       "UnstableFile" \in R.gaps \/ (R.before = R.compiled /\ R.after = R.compiled)
  /\ R.pc \notin {"write", "end"} => R.occ = NONE
  /\ R.pc = "write" /\ R.occ # NONE => R.ok /\ R.occ = R.compiled
  /\ R.written # NONE => R.written = R.compiled

(* Without failures a wrapper called for a unit has a slot, or the budget  *)
(* marker says there was none.                                             *)
Noticed(R, called, failed, marks) ==
  failed = 0 /\ called \in {"unit", "unresolved"} /\ R.pc \notin {"start", "claim"} =>
    R.slot # NONE \/ "compiler_slots" \in marks

(* A record is in the slot of its wrapper, which has ended.                *)
Filed(R, i) ==
  run[R.of].pc = "end" /\ run[R.of].slot = i /\ TrueTo(R, run[R.of].compiled)

WrapperInv ==
  /\ <<call, mode>> \in Setups /\ edits \in Nat /\ src = 1 + edits /\ faults \in Nat
  /\ faults = 0 => dir.torn = {}
  /\ \A c \in Compilers :
       /\ run[c].slot \in dir.slots \union {NONE} /\ run[c].next \in 0..MAX_INVOCATIONS
       /\ Chronicle(run[c], src) /\ Noticed(run[c], call[c], faults, dir.marks)
  /\ \A c, d \in Compilers : run[c].slot = run[d].slot /\ run[c].slot # NONE => c = d
  /\ \A i \in Slots : dir.units[i] # NONE => i \in dir.slots
  /\ \A i \in Slots : dir.units[i] \notin {NONE, TORN} => Filed(dir.units[i], i)

-----------------------------------------------------------------------------
(* The joining session.                                                    *)
Told4 == {"MalformedObservation", "ReadFailed", "ConflictingUnit", "BudgetExceeded"}
AllGaps == Told4 \union {"CompilerIdentityUnavailable", "OccurrenceCallbackRejected"}

Records == [size : Nat, valid : BOOLEAN]
Results ==
  [inv : Seq(Units), gen : Seq(Records), str : Seq(Compilers), gaps : SUBSET AllGaps,
   truncations : SUBSET (Budgets \union Lost), bare : BOOLEAN]
Drops == [inv : Nat, gen : Nat, str : Nat]
Places == {"build", "units", "generators", "streams", "assemble", "done"}

(* The records that were listed and can be read.                           *)
Valid(S) == {i \in S.units : dir.units[i] # TORN}

(* Something in the attachment will say that a record is missing.          *)
KnownLoss(S) ==
  \/ Told4 \intersect S.result.gaps # {}
  \/ S.dropped.inv > 0
  \/ S.pc \in {"units", "generators"} /\ S.result.truncations # {}

(* A wrapper owes a record if the session saw its slot; without failures   *)
(* also if it could get none, and the witness of that cannot be missed.    *)
Owed(S, c, failed) ==
  \/ run[c].slot # NONE /\ S.slots = dir.slots
  \/ failed = 0 /\ Fits /\ call[c] \in {"unit", "unresolved"}

(* (The bytes of an attachment are a sum over sequences.)                  *)
Shaped(S) ==
  /\ S \in [pc : Places, units : SUBSET UnitFiles, slots : SUBSET dir.slots,
            files : SUBSET UnitFiles, todo : Seq(Records) \union Seq(Units),
            bytes : {S.bytes}, result : Results, dropped : Drops]
  /\ S.files \subseteq S.units

SessionTyped(S) ==
  /\ Shaped(S)
  /\ S.pc \in {"build", "units", "assemble"} => S.todo = <<>>
  /\ S.pc = "generators" => S.todo \in Seq(Records)
  /\ S.pc = "streams" => S.todo \in Seq(Units)
  /\ S.pc # "done" => ~S.result.bare
  /\ S.pc # "units" => S.files = {}
  /\ S.pc = "build" => S.units = {} /\ S.slots = {}

Started(S) ==
  IF S.pc = "build" THEN S.result = NewResult /\ S.dropped = [inv |-> 0, gen |-> 0, str |-> 0]
  ELSE \A c \in Compilers : run[c].pc = "end"

(* Every record in the attachment is one of those read from the directory. *)
FromFiles(S) ==
  \A k \in DOMAIN S.result.inv : \E i \in Valid(S) \ S.files : S.result.inv[k] = dir.units[i]

(* Every wrapper that owes a record has it there, or yet to be read, or    *)
(* the loss is known.                                                      *)
Covered(S, failed) ==
  S.pc # "build" => \A c \in Compilers : Owed(S, c, failed) =>
    \/ KnownLoss(S)
    \/ \E k \in DOMAIN S.result.inv : S.result.inv[k].of = c
    \/ S.pc = "units" /\ run[c].slot \in S.files

(* Of the first n generators every one is kept, counted, or not valid; and *)
(* one that is neither kept nor counted is told.                           *)
Made == Generators[mode]
Refused(n) == Cardinality({k \in 1..n : ~Made[k].valid})
Settled(r, d, n) ==
  /\ Len(r.gen) + d.gen <= n /\ n <= Len(r.gen) + d.gen + Refused(n)
  /\ Len(r.gen) + d.gen # n => "MalformedObservation" \in r.gaps
Following(t, n) ==
  Len(Made) = n + Len(t) /\ \A k \in DOMAIN t : k + n \in DOMAIN Made /\ t[k] = Made[k + n]

(* What is dropped is counted.                                             *)
Keys(I) == {Key[dir.units[i].of] : i \in I}
Counted(S) ==
  LET r == S.result
      d == S.dropped IN
  /\ S.pc # "build" /\ ~r.bare =>
       /\ Len(r.inv) + d.inv + Cardinality(Valid(S) \intersect S.files) <= Cardinality(Valid(S))
       /\ "MalformedObservation" \in r.gaps \/ Cardinality(Keys(Valid(S) \ S.files)) <= Len(r.inv) + d.inv
  /\ S.pc = "units" => Len(r.gen) + d.gen = 0
  /\ S.pc = "generators" => \E n \in Nat : Following(S.todo, n) /\ Settled(r, d, n)
  /\ S.pc \in {"streams", "assemble", "done"} /\ ~r.bare => Settled(r, d, Len(Made))
  /\ S.pc = "streams" /\ "stream" \in mode => Len(r.str) + d.str + Len(S.todo) >= Len(r.inv)
  /\ S.pc \in {"assemble", "done"} /\ ~r.bare /\ "stream" \in mode => Len(r.str) + d.str >= Len(r.inv)

(* Streams refer to invocations that are there.                            *)
Referred(S) ==
  LET r == S.result
      there(c) == \E i \in DOMAIN r.inv : r.inv[i].of = c IN
  /\ S.pc \in {"units", "generators"} => r.str = <<>>
  /\ \A k \in DOMAIN r.str : there(r.str[k])
  /\ S.pc = "streams" => \A k \in DOMAIN S.todo : there(S.todo[k].of)

(* What is published fits and tells its losses.                            *)
Witnessed(S) ==
  LET r == S.result
      d == S.dropped IN
  S.pc = "done" =>
    IF r.bare THEN Told4 \intersect r.gaps # {}
    ELSE /\ AttachmentSize(r) <= MAX_ATTACHMENT_BYTES
         /\ (d.inv > 0 \/ d.gen > 0 \/ d.str > 0) =>
              "BudgetExceeded" \in r.gaps /\ r.truncations \intersect Lost # {}

GoodFor(S, failed) ==
  /\ SessionTyped(S) /\ Started(S) /\ FromFiles(S) /\ Covered(S, failed) /\ Counted(S)
  /\ Referred(S) /\ Witnessed(S)
Good(S) == GoodFor(S, faults)

SessionInv == Good(session)
-----------------------------------------------------------------------------
(* Every wrapper keeps its chronicle.                                      *)

LEMMA WrapperInit == Init => WrapperInv
<1> SUFFICES ASSUME Init PROVE WrapperInv
  OBVIOUS
<1>1. /\ <<call, mode>> \in Setups /\ edits = 0 /\ src = 1 /\ faults = 0
      /\ dir = [slots |-> {}, units |-> [i \in Slots |-> NONE], marks |-> {},
                torn |-> {}]
      /\ run = [c \in Compilers |-> NewRun]
  <2>1. PICK s \in Setups : call = s[1] /\ mode = s[2]
    BY DEF Init
  <2>2. <<s[1], s[2]>> = s
    BY <2>1, CaptureAssumption DEF CaptureAssumption
  <2> QED
    BY <2>1, <2>2 DEF Init
<1>2. NewRun.slot = NONE /\ NewRun.next = 0 /\ Chronicle(NewRun, 1) /\ NewRun.pc = "start"
  BY DEF NewRun, Chronicle
<1>3. 0 \in 0..MAX_INVOCATIONS
  BY CaptureAssumption DEF CaptureAssumption
<1>4. \A i \in Slots : dir.units[i] = NONE
  BY <1>1
<1> QED
  BY <1>1, <1>2, <1>3, <1>4 DEF WrapperInv, Noticed

(* A step of wrapper c to state D: it adds slots and marks, takes one that *)
(* is new, and files nothing but its own record.                           *)
LEMMA Logged ==
  ASSUME IInv, WrapperInv, NEW c \in Compilers, NEW D, Becomes(c, D), run[c].pc # "end",
         UNCHANGED <<call, mode, src, edits>>, UNCHANGED faults \/ Fault,
         dir.slots \subseteq dir'.slots, dir.marks \subseteq dir'.marks,
         dir'.torn = dir.torn \/ faults' # 0,
         \A i \in Slots :
           \/ dir'.units[i] = dir.units[i]
           \/ /\ i \in dir.slots
              /\ \/ dir'.units[i] \in {NONE, TORN}
                 \/ /\ dir'.units[i].of = c /\ D.pc = "end" /\ D.slot = i
                    /\ TrueTo(dir'.units[i], D.compiled),
         D.slot = run[c].slot \/ D.slot \in dir'.slots \ dir.slots,
         D.next \in 0..MAX_INVOCATIONS, Chronicle(D, src),
         Noticed(D, call[c], faults', dir'.marks)
  PROVE  WrapperInv'
<1>1. \A d \in Compilers : run'[d] = IF d = c THEN D ELSE run[d]
  BY DEF IInv, Becomes
<1>2. faults' \in Nat /\ (faults' = 0 => faults = 0)
  BY DEF WrapperInv, Fault
<1>3. /\ <<call', mode'>> \in Setups /\ edits' \in Nat /\ src' = 1 + edits'
      /\ faults' = 0 => dir'.torn = {}
  BY <1>2 DEF WrapperInv
<1>4. ASSUME NEW d \in Compilers
      PROVE  /\ run'[d].slot \in dir'.slots \union {NONE} /\ run'[d].next \in 0..MAX_INVOCATIONS
             /\ Chronicle(run'[d], src') /\ Noticed(run'[d], call'[d], faults', dir'.marks)
  <2>1. CASE d = c
    BY <1>1, <2>1 DEF WrapperInv
  <2>2. CASE d # c
    BY <1>1, <1>2, <2>2 DEF WrapperInv, Noticed
  <2> QED
    BY <2>1, <2>2
<1>5. ASSUME NEW d \in Compilers, NEW e \in Compilers, run'[d].slot = run'[e].slot, run'[d].slot # NONE
      PROVE  d = e
  BY <1>1, <1>5 DEF WrapperInv
<1>6. \A i \in Slots : dir'.units[i] # NONE => i \in dir'.slots
  BY DEF WrapperInv
<1>7. ASSUME NEW i \in Slots, dir'.units[i] \notin {NONE, TORN}
      PROVE  Filed(dir.units[i], i)'
  <2>1. CASE dir'.units[i] = dir.units[i]
    <3>1. dir.units[i] \in Units /\ Filed(dir.units[i], i)
      BY <1>7, <2>1 DEF IInv, DirFine, Directories, WrapperInv
    <3>2. dir.units[i].of \in Compilers /\ dir.units[i].of # c
      BY <3>1 DEF Units, Filed
    <3>3. run'[dir.units[i].of] = run[dir.units[i].of]
      BY <1>1, <3>2
    <3> QED
      BY <2>1, <3>1, <3>3 DEF Filed
  <2>2. CASE dir'.units[i].of = c /\ D.pc = "end" /\ D.slot = i /\ TrueTo(dir'.units[i], D.compiled)
    BY <1>1, <2>2 DEF Filed
  <2> QED
    BY <1>7, <2>1, <2>2
<1> QED
  BY <1>2, <1>3, <1>4, <1>5, <1>6, <1>7 DEF WrapperInv

(* Until its compiler has run a wrapper has at most observed its inputs.   *)
LEMMA Early ==
  ASSUME NEW R, NEW D, NEW s, Chronicle(R, s), R.pc \notin {"write", "end"},
         D.pc \in {"claim", "observe", "request", "controls", "compile", "end"},
         D.before = R.before \/ D.before <= s,
         D.occ = R.occ, D.written = R.written, D.compiled = R.compiled
  PROVE  Chronicle(D, s)
BY DEF Chronicle

(* A step of a wrapper that claims nothing, in its early state.            *)
LEMMA EarlyLogged ==
  ASSUME IInv, WrapperInv, NEW c \in Compilers, NEW D, Becomes(c, D),
         run[c].pc \notin {"start", "claim", "write", "end"},
         D.pc \in {"request", "controls", "compile", "end"}, D.slot = run[c].slot, D.next = run[c].next,
         D.before = run[c].before \/ D.before <= src,
         D.occ = run[c].occ, D.written = run[c].written, D.compiled = run[c].compiled,
         UNCHANGED <<call, mode, src, dir, edits>>, UNCHANGED faults \/ Fault
  PROVE  WrapperInv'
<1>1. Chronicle(D, src)
  BY Early DEF WrapperInv
<1>2. Noticed(D, call[c], faults', dir'.marks)
  BY DEF WrapperInv, Noticed, Fault
<1>3. D.next \in 0..MAX_INVOCATIONS
  BY DEF WrapperInv
<1> QED
  BY <1>1, <1>2, <1>3, Logged

LEMMA FaultCounts ==
  ASSUME WrapperInv, Fault
  PROVE  faults' # 0
<1>1. faults \in Nat /\ faults' = faults + 1
  BY DEF WrapperInv, Fault
<1> QED
  BY <1>1

LEMMA ClaimingLogged ==
  ASSUME IInv, WrapperInv, NEW c \in Compilers,
         Start(c) \/ Claim(c) \/ SlotTaken(c) \/ ClaimFails(c) \/ NoSlot(c)
  PROVE  WrapperInv'
<1> DEFINE R == run[c]
<1>1. R \in RunState /\ dir \in Directories
  BY DEF IInv, DirFine
<1>2. /\ R.slot \in dir.slots \union {NONE} /\ R.next \in 0..MAX_INVOCATIONS /\ Chronicle(R, src)
      /\ Noticed(R, call[c], faults, dir.marks) /\ MAX_INVOCATIONS \in Nat
  BY CaptureAssumption DEF WrapperInv, CaptureAssumption
<1>3. R.pc \in {"start", "claim"} /\ UNCHANGED <<call, mode, src, edits>> /\ (UNCHANGED faults \/ Fault)
  BY DEF Start, Claim, SlotTaken, ClaimFails, NoSlot, Marked
<1>m. ASSUME NEW mark, Marked(dir, mark)
      PROVE  /\ dir.slots \subseteq dir'.slots /\ dir.marks \subseteq dir'.marks /\ dir'.units = dir.units
             /\ mark \in dir'.marks \/ faults' # 0
             /\ dir'.torn = dir.torn \/ faults' # 0
  BY <1>1, <1>m, FaultCounts DEF Marked, Directories
<1>4. CASE Start(c)
  <2>1. PICK pc \in {"claim", "controls"} :
          /\ Becomes(c, [R EXCEPT !.pc = pc])
          /\ pc = "controls" => call[c] \notin {"unit", "unresolved"} \/ Fault
    BY <1>4 DEF Start
  <2> DEFINE D == [R EXCEPT !.pc = pc]
  <2>2. /\ D.pc = pc /\ D.slot = R.slot /\ D.next = R.next /\ D.before = R.before
        /\ D.occ = R.occ /\ D.written = R.written /\ D.compiled = R.compiled
    BY <1>1 DEF RunState
  <2>3. /\ dir.slots \subseteq dir'.slots /\ dir.marks \subseteq dir'.marks /\ dir'.units = dir.units
        /\ dir'.torn = dir.torn \/ faults' # 0
    BY <1>4, <1>m DEF Start
  <2> HIDE DEF D
  <2>4. Chronicle(D, src)
    BY <1>2, <1>3, <2>2, Early
  <2>5. Noticed(D, call[c], faults', dir'.marks)
    BY <2>1, <2>2 DEF Noticed, Fault, WrapperInv
  <2> QED
    BY <1>2, <1>3, <2>1, <2>2, <2>3, <2>4, <2>5, Logged DEF D
<1>5. CASE Claim(c)
  <2> DEFINE i == R.next
             D == [R EXCEPT !.pc = "observe", !.slot = i]
  <2>1. /\ Becomes(c, D) /\ i \notin dir.slots
        /\ dir' = [dir EXCEPT !.slots = @ \union {i}]
    BY <1>5 DEF Claim
  <2>2. i \in Nat /\ i # NONE
    BY <1>2, Distinct
  <2>3. /\ D.pc = "observe" /\ D.slot = i /\ D.next = R.next /\ D.before = R.before
        /\ D.occ = R.occ /\ D.written = R.written /\ D.compiled = R.compiled
    BY <1>1 DEF RunState
  <2>4. /\ dir'.slots = dir.slots \union {i} /\ dir'.marks = dir.marks /\ dir'.units = dir.units
        /\ dir'.torn = dir.torn
    BY <1>1, <2>1 DEF Directories
  <2> HIDE DEF D, i
  <2>5. Chronicle(D, src)
    BY <1>2, <1>3, <2>3, Early
  <2>6. Noticed(D, call[c], faults', dir'.marks)
    BY <2>2, <2>3 DEF Noticed
  <2> QED
    BY <1>2, <1>3, <2>1, <2>3, <2>4, <2>5, <2>6, Logged
<1>6. CASE SlotTaken(c)
  <2> DEFINE D == [R EXCEPT !.next = R.next + 1]
  <2>1. Becomes(c, D) /\ R.next \in dir.slots /\ R.pc = "claim" /\ dir' = dir
    BY <1>6 DEF SlotTaken
  <2>2. R.next \in Slots
    BY <1>1, <2>1 DEF Directories
  <2>3. R.next + 1 \in 0..MAX_INVOCATIONS
    BY <1>2, <2>2 DEF Slots
  <2>4. /\ D.pc = "claim" /\ D.slot = R.slot /\ D.next = R.next + 1 /\ D.before = R.before
        /\ D.occ = R.occ /\ D.written = R.written /\ D.compiled = R.compiled
    BY <1>1, <2>1 DEF RunState
  <2> HIDE DEF D
  <2>5. Chronicle(D, src)
    BY <1>2, <1>3, <2>4, Early
  <2>6. Noticed(D, call[c], faults', dir'.marks)
    BY <2>4 DEF Noticed
  <2> QED
    BY <1>3, <2>1, <2>3, <2>4, <2>5, <2>6, Logged
<1>7. CASE ClaimFails(c) \/ NoSlot(c)
  <2> DEFINE D == [R EXCEPT !.pc = "controls"]
  <2>1. Becomes(c, D)
    BY <1>7 DEF ClaimFails, NoSlot
  <2>2. /\ D.pc = "controls" /\ D.slot = R.slot /\ D.next = R.next /\ D.before = R.before
        /\ D.occ = R.occ /\ D.written = R.written /\ D.compiled = R.compiled
    BY <1>1 DEF RunState
  <2>3. /\ dir.slots \subseteq dir'.slots /\ dir.marks \subseteq dir'.marks /\ dir'.units = dir.units
        /\ dir'.torn = dir.torn \/ faults' # 0
    BY <1>1, <1>7, <1>m DEF ClaimFails, NoSlot, Directories
  <2>4. faults' # 0 \/ "compiler_slots" \in dir'.marks
    <3>1. CASE ClaimFails(c)
      BY <3>1, FaultCounts DEF ClaimFails
    <3>2. CASE NoSlot(c)
      <4>1. Marked(dir, "compiler_slots")
        BY <3>2 DEF NoSlot
      <4> QED
        BY <4>1, <1>m
    <3> QED
      BY <1>7, <3>1, <3>2
  <2> HIDE DEF D
  <2>5. Chronicle(D, src)
    BY <1>2, <1>3, <2>2, Early
  <2>6. Noticed(D, call[c], faults', dir'.marks)
    BY <2>4 DEF Noticed
  <2> QED
    BY <1>2, <1>3, <2>1, <2>2, <2>3, <2>5, <2>6, Logged
<1> QED
  BY <1>4, <1>5, <1>6, <1>7
LEMMA PreparingLogged ==
  ASSUME IInv, WrapperInv, NEW c \in Compilers,
         Observe(c) \/ WriteRequests(c) \/ Seal(c) \/ PassPaths(c)
  PROVE  WrapperInv'
<1> DEFINE R == run[c]
<1>1. R \in RunState /\ src \in Nat
  BY DEF IInv
<1>2. /\ UNCHANGED <<call, mode, src, dir, edits>> /\ (UNCHANGED faults \/ Fault)
      /\ R.pc \in {"observe", "request", "controls"}
  BY DEF Observe, WriteRequests, Seal, PassPaths
<1>3. \E D : /\ Becomes(c, D) /\ D.pc \in {"request", "controls", "compile"} /\ D.slot = R.slot
             /\ D.next = R.next /\ (D.before = R.before \/ D.before <= src)
             /\ D.occ = R.occ /\ D.written = R.written /\ D.compiled = R.compiled
  <2>1. CASE Observe(c)
    <3> DEFINE D == [R EXCEPT !.pc = "controls"]
               E == [R EXCEPT !.pc = "request", !.before = src]
    <3>1. Becomes(c, D) \/ Becomes(c, E)
      BY <2>1 DEF Observe
    <3>2. /\ D.pc = "controls" /\ D.slot = R.slot /\ D.next = R.next /\ D.before = R.before
          /\ D.occ = R.occ /\ D.written = R.written /\ D.compiled = R.compiled
          /\ E.pc = "request" /\ E.slot = R.slot /\ E.next = R.next /\ E.before = src
          /\ E.occ = R.occ /\ E.written = R.written /\ E.compiled = R.compiled
      BY <1>1 DEF RunState
    <3>3. src <= src
      BY <1>1
    <3> HIDE DEF D, E
    <3> QED
      BY <3>1, <3>2, <3>3
  <2>2. CASE WriteRequests(c)
    <3>1. PICK q : Becomes(c, [R EXCEPT !.pc = "controls", !.request = q])
      BY <2>2 DEF WriteRequests
    <3> DEFINE D == [R EXCEPT !.pc = "controls", !.request = q]
    <3>2. /\ D.pc = "controls" /\ D.slot = R.slot /\ D.next = R.next /\ D.before = R.before
          /\ D.occ = R.occ /\ D.written = R.written /\ D.compiled = R.compiled
      BY <1>1 DEF RunState
    <3> HIDE DEF D
    <3> QED
      BY <3>1, <3>2 DEF D
  <2>3. CASE Seal(c)
    <3>1. ASSUME NEW gap, Unsealed(c, gap)
          PROVE  \E p, f, s, g : Becomes(c, [R EXCEPT !.pc = "compile", !.path = p, !.fd = f, !.sealed = s, !.gaps = g])
      <4>1. Becomes(c, [R EXCEPT !.pc = "compile", !.path = NONE, !.fd = NONE, !.sealed = R.sealed,
                          !.gaps = R.gaps \union (IF Captured(c) THEN {gap} ELSE {})])
        BY <1>1, <3>1 DEF Unsealed, Cleared, RunState
      <4> QED
        BY <4>1
    <3>2. Becomes(c, [Cleared(R) EXCEPT !.path = c, !.fd = c, !.sealed = TRUE]) =>
            \E p, f, s, g : Becomes(c, [R EXCEPT !.pc = "compile", !.path = p, !.fd = f, !.sealed = s, !.gaps = g])
      <4> SUFFICES ASSUME Becomes(c, [Cleared(R) EXCEPT !.path = c, !.fd = c, !.sealed = TRUE])
                   PROVE  \E p, f, s, g : Becomes(c, [R EXCEPT !.pc = "compile", !.path = p, !.fd = f, !.sealed = s, !.gaps = g])
        OBVIOUS
      <4>1. Becomes(c, [R EXCEPT !.pc = "compile", !.path = c, !.fd = c, !.sealed = TRUE, !.gaps = R.gaps])
        BY <1>1 DEF Cleared, RunState
      <4> QED
        BY <4>1
    <3>3. PICK p, f, s, g : Becomes(c, [R EXCEPT !.pc = "compile", !.path = p, !.fd = f, !.sealed = s, !.gaps = g])
      BY <2>3, <3>1, <3>2 DEF Seal
    <3> DEFINE D == [R EXCEPT !.pc = "compile", !.path = p, !.fd = f, !.sealed = s, !.gaps = g]
    <3>4. /\ D.pc = "compile" /\ D.slot = R.slot /\ D.next = R.next /\ D.before = R.before
          /\ D.occ = R.occ /\ D.written = R.written /\ D.compiled = R.compiled
      BY <1>1 DEF RunState
    <3> HIDE DEF D
    <3> QED
      BY <3>3, <3>4 DEF D
  <2>4. CASE PassPaths(c)
    <3>1. PICK p : Becomes(c, [Cleared(R) EXCEPT !.path = p])
      BY <2>4 DEF PassPaths
    <3> DEFINE D == [R EXCEPT !.pc = "compile", !.path = p, !.fd = NONE]
    <3>2. Becomes(c, D)
      BY <1>1, <3>1 DEF Cleared, RunState
    <3>3. /\ D.pc = "compile" /\ D.slot = R.slot /\ D.next = R.next /\ D.before = R.before
          /\ D.occ = R.occ /\ D.written = R.written /\ D.compiled = R.compiled
      BY <1>1 DEF RunState
    <3> HIDE DEF D
    <3> QED
      BY <3>2, <3>3
  <2> QED
    BY <2>1, <2>2, <2>3, <2>4
<1> QED
  BY <1>2, <1>3, EarlyLogged

(* From its compiler on a wrapper knows one version, or that there was     *)
(* more than one.                                                          *)
LEMMA CompilingLogged ==
  ASSUME IInv, WrapperInv, NEW c \in Compilers, Compile(c) \/ After(c) \/ Accept(c)
  PROVE  WrapperInv'
<1> DEFINE R == run[c]
<1>1. R \in RunState /\ src \in Nat /\ src # NONE
  BY Distinct DEF IInv
<1>2. /\ R.slot \in dir.slots \union {NONE} /\ R.next \in 0..MAX_INVOCATIONS /\ Chronicle(R, src)
      /\ Noticed(R, call[c], faults, dir.marks)
  BY DEF WrapperInv
<1>3. /\ UNCHANGED <<call, mode, src, dir, edits>> /\ (UNCHANGED faults \/ Fault)
      /\ R.pc \in {"compile", "after", "accept"}
  BY DEF Compile, After, Accept
<1>4. ASSUME NEW D, Becomes(c, D), D.slot = R.slot, D.next = R.next, Chronicle(D, src),
             D.pc \notin {"start", "claim"}
      PROVE  WrapperInv'
  <2>1. Noticed(D, call[c], faults', dir'.marks)
    BY <1>2, <1>3, <1>4 DEF Noticed, Fault, WrapperInv
  <2> QED
    BY <1>2, <1>3, <1>4, <2>1, Logged
<1>5. CASE Compile(c)
  <2>1. PICK got \in {Adopted(c), NoControls}, ok \in BOOLEAN, w \in {src, NONE} :
          Becomes(c, [R EXCEPT !.pc = IF Captured(c) THEN "after" ELSE "end", !.got = got,
                        !.compiled = src, !.ok = ok, !.written = w])
    BY <1>5 DEF Compile
  <2> DEFINE pc == IF Captured(c) THEN "after" ELSE "end"
             D == [R EXCEPT !.pc = pc, !.got = got, !.compiled = src, !.ok = ok, !.written = w]
  <2>2. /\ D.pc = pc /\ D.slot = R.slot /\ D.next = R.next /\ D.before = R.before
        /\ D.occ = R.occ /\ D.written = w /\ D.compiled = src
    BY <1>1 DEF RunState
  <2>3. pc = "end" \/ (pc = "after" /\ R.slot # NONE /\ R.before # NONE)
    BY DEF Captured
  <2>4. R.occ = NONE
    BY <1>2, <1>3 DEF Chronicle
  <2>5. src <= src
    BY <1>1
  <2> HIDE DEF D, pc
  <2>6. Chronicle(D, src)
    BY <1>1, <1>2, <2>2, <2>3, <2>4, <2>5 DEF Chronicle
  <2> QED
    BY <1>4, <2>1, <2>2, <2>3, <2>6 DEF D, pc
<1>6. CASE After(c)
  <2> DEFINE g == R.gaps \union (IF R.before # src THEN {"UnstableFile"} ELSE {})
             D == [R EXCEPT !.pc = "accept", !.after = src, !.gaps = g]
  <2>1. Becomes(c, D) /\ R.pc = "after"
    BY <1>6 DEF After
  <2>2. /\ D.pc = "accept" /\ D.slot = R.slot /\ D.next = R.next /\ D.before = R.before
        /\ D.occ = R.occ /\ D.written = R.written /\ D.compiled = R.compiled
        /\ D.after = src /\ D.gaps = g
    BY <1>1 DEF RunState
  <2>3. "UnstableFile" \in g \/ R.before = src
    OBVIOUS
  <2>4. R.before = src => R.compiled = src
    <3>1. R.compiled \in Nat /\ R.before <= R.compiled /\ R.compiled <= src
      BY <1>1, <1>2, <2>1 DEF Chronicle, RunState, Versions
    <3> QED
      BY <1>1, <3>1
  <2> HIDE DEF D, g
  <2>5. Chronicle(D, src)
    BY <1>2, <2>1, <2>2, <2>3, <2>4 DEF Chronicle
  <2> QED
    BY <1>4, <2>1, <2>2, <2>5
<1>7. CASE Accept(c)
  <2> DEFINE accepted == R.ok /\ "callback" \in R.request /\ R.written = src
             D == [R EXCEPT !.pc = "write", !.occ = src]
  <2>1. R.pc = "accept"
    BY <1>7 DEF Accept
  <2>2. \/ Becomes(c, D) /\ accepted
        \/ \E why : Becomes(c, [R EXCEPT !.pc = "write", !.gaps = @ \union {why}])
    BY <1>7 DEF Accept
  <2>3. CASE Becomes(c, D) /\ accepted
    <3>1. /\ D.pc = "write" /\ D.slot = R.slot /\ D.next = R.next /\ D.before = R.before
          /\ D.occ = src /\ D.written = R.written /\ D.compiled = R.compiled
          /\ D.after = R.after /\ D.gaps = R.gaps /\ D.ok = R.ok
      BY <1>1 DEF RunState
    <3> HIDE DEF D
    <3>2. Chronicle(D, src)
      BY <1>1, <1>2, <2>1, <2>3, <3>1 DEF Chronicle
    <3> QED
      BY <1>4, <2>3, <3>1, <3>2
  <2>4. CASE \E why : Becomes(c, [R EXCEPT !.pc = "write", !.gaps = @ \union {why}])
    <3>1. PICK why : Becomes(c, [R EXCEPT !.pc = "write", !.gaps = @ \union {why}])
      BY <2>4
    <3> DEFINE E == [R EXCEPT !.pc = "write", !.gaps = @ \union {why}]
    <3>2. /\ E.pc = "write" /\ E.slot = R.slot /\ E.next = R.next /\ E.before = R.before
          /\ E.occ = R.occ /\ E.written = R.written /\ E.compiled = R.compiled
          /\ E.after = R.after /\ E.gaps = R.gaps \union {why}
      BY <1>1 DEF RunState
    <3> HIDE DEF E
    <3>3. Chronicle(E, src)
      BY <1>2, <2>1, <3>2 DEF Chronicle
    <3> QED
      BY <1>4, <3>1, <3>2, <3>3 DEF E
  <2> QED
    BY <2>2, <2>3, <2>4
<1> QED
  BY <1>5, <1>6, <1>7

(* What it files is what it knows.                                         *)
LEMMA WritingLogged ==
  ASSUME IInv, WrapperInv, NEW c \in Compilers,
         WriteUnit(c) \/ UnitTooLarge(c) \/ WriteUnitFails(c) \/ Kill(c)
  PROVE  WrapperInv'
<1> DEFINE R == run[c]
           D == [R EXCEPT !.pc = "end"]
<1>1. R \in RunState /\ dir \in Directories /\ dir.slots \subseteq Slots
  BY DEF IInv, DirFine, Directories
<1>2. /\ R.slot \in dir.slots \union {NONE} /\ R.next \in 0..MAX_INVOCATIONS /\ Chronicle(R, src)
      /\ Noticed(R, call[c], faults, dir.marks)
  BY DEF WrapperInv
<1>3. Becomes(c, D) /\ UNCHANGED <<call, mode, src, edits>> /\ (UNCHANGED faults \/ Fault) /\ R.pc # "end"
  BY DEF WriteUnit, UnitTooLarge, WriteUnitFails, Kill, Marked
<1>4. /\ D.pc = "end" /\ D.slot = R.slot /\ D.next = R.next /\ D.before = R.before
      /\ D.occ = R.occ /\ D.written = R.written /\ D.compiled = R.compiled
  BY <1>1 DEF RunState
<1>5. Record(c).of = c /\ (R.pc = "write" => R.slot \in dir.slots /\ TrueTo(Record(c), R.compiled))
  BY <1>2 DEF Record, TrueTo, Chronicle
<1>6. R.pc = "start" \/ R.pc # "start"
  OBVIOUS
<1>7. /\ dir.slots \subseteq dir'.slots /\ dir.marks \subseteq dir'.marks
      /\ dir'.torn = dir.torn \/ faults' # 0
  <2>1. CASE WriteUnit(c) \/ WriteUnitFails(c) \/ Kill(c)
    BY <1>1, <2>1 DEF WriteUnit, WriteUnitFails, Kill, Directories
  <2>2. CASE UnitTooLarge(c)
    BY <1>1, <2>2, FaultCounts DEF UnitTooLarge, Marked, Directories
  <2> QED
    BY <2>1, <2>2
<1>8. \/ dir'.units = dir.units
      \/ R.pc = "write" /\ \E there \in {NONE, TORN, Record(c)} :
           dir'.units = [dir.units EXCEPT ![R.slot] = there]
  BY <1>1 DEF WriteUnit, UnitTooLarge, WriteUnitFails, Kill, Marked, Directories
<1> HIDE DEF D
<1>9. ASSUME NEW i \in Slots
      PROVE  \/ dir'.units[i] = dir.units[i]
             \/ /\ i \in dir.slots
                /\ \/ dir'.units[i] \in {NONE, TORN}
                   \/ dir'.units[i].of = c /\ D.pc = "end" /\ D.slot = i /\ TrueTo(dir'.units[i], D.compiled)
  BY <1>1, <1>4, <1>5, <1>8 DEF Directories
<1>10. Chronicle(D, src)
  BY <1>2, <1>4 DEF Chronicle
<1>11. CASE R.pc \notin {"start", "claim"} \/ faults' # 0
  <2>1. Noticed(D, call[c], faults', dir'.marks)
    BY <1>2, <1>3, <1>4, <1>7, <1>11 DEF Noticed, Fault, WrapperInv
  <2> QED
    BY <1>2, <1>3, <1>4, <1>7, <1>9, <1>10, <2>1, Logged
<1>12. R.pc \in {"start", "claim"} => faults' # 0
  BY FaultCounts DEF WriteUnit, UnitTooLarge, WriteUnitFails, Kill
<1> QED
  BY <1>11, <1>12

LEMMA AtMost ==
  ASSUME NEW a \in Nat, NEW b \in Nat, NEW d \in Nat, a <= b, b <= d
  PROVE  a <= d
OBVIOUS

LEMMA ElsewhereLogged ==
  ASSUME IInv, WrapperInv, Join \/ Edit \/ UNCHANGED vars
  PROVE  WrapperInv'
<1>1. /\ UNCHANGED <<call, mode, dir, run>> /\ (UNCHANGED faults \/ Fault)
      /\ UNCHANGED <<src, edits>> \/ (src' = src + 1 /\ edits' = edits + 1)
  BY DEF Join, Finish, JoinUnit, UnitsJoined, JoinGenerator, GeneratorsJoined, JoinStream,
         StreamsJoined, Assemble, Publish, Edit, vars
<1>2. src' \in Nat /\ src <= src' /\ edits' \in Nat /\ src' = 1 + edits'
  BY <1>1 DEF IInv, WrapperInv
<1>3. ASSUME NEW c \in Compilers PROVE Chronicle(run[c], src') /\ Noticed(run[c], call[c], faults', dir.marks)
  <2>1. run[c] \in RunState /\ Chronicle(run[c], src) /\ Noticed(run[c], call[c], faults, dir.marks)
    BY DEF IInv, WrapperInv
  <2>2. run[c].before \in Nat \union {NONE} /\ run[c].compiled \in Nat \union {NONE} /\ src \in Nat
    BY <2>1 DEF RunState, Versions, IInv
  <2>3. ASSUME NEW v \in Nat \union {NONE}, v # NONE, v <= src PROVE v <= src'
    <3>1. v \in Nat /\ src \in Nat /\ src' \in Nat /\ src <= src'
      BY <1>2, <2>2, <2>3
    <3> QED
      BY <2>3, <3>1, AtMost
  <2>4. Chronicle(run[c], src')
    BY <2>1, <2>2, <2>3 DEF Chronicle
  <2>5. Noticed(run[c], call[c], faults', dir.marks)
    BY <1>1, <2>1 DEF Noticed, Fault, WrapperInv
  <2> QED
    BY <2>4, <2>5
<1>4. faults' \in Nat /\ (faults' = 0 => dir'.torn = {})
  BY <1>1 DEF WrapperInv, Fault
<1> QED
  BY <1>1, <1>2, <1>3, <1>4 DEF WrapperInv, Filed
-----------------------------------------------------------------------------
(* Sets of slots, and sequences.                                           *)

LEMMA SlotsFinite ==
  ASSUME NEW I \in SUBSET Slots
  PROVE  IsFiniteSet(I) /\ Cardinality(I) \in Nat
<1>1. IsFiniteSet(0..(MAX_INVOCATIONS - 1))
  BY FS_Interval, CaptureAssumption DEF CaptureAssumption
<1>2. IsFiniteSet(I)
  BY <1>1, FS_Subset DEF Slots
<1> QED
  BY <1>2, FS_CardinalityType

LEMMA MarksFinite ==
  ASSUME NEW M \in SUBSET Marks
  PROVE  IsFiniteSet(M) /\ Cardinality(M) \in Nat
<1>1. \A S, x : IsFiniteSet(S) => IsFiniteSet(S \union {x})
  BY FS_AddElement
<1>2. IsFiniteSet(Marks)
  <2>1. IsFiniteSet({"argument_text_bytes"} \union {"compiler_slots"})
    BY <1>1, FS_Singleton
  <2>2. IsFiniteSet({"argument_text_bytes"} \union {"compiler_slots"} \union {"invocation_serialization"})
    BY <1>1, <2>1
  <2>3. IsFiniteSet({"argument_text_bytes"} \union {"compiler_slots"} \union {"invocation_serialization"}
                      \union {"compiler-unrecognized"})
    BY <1>1, <2>2
  <2>4. IsFiniteSet({"argument_text_bytes"} \union {"compiler_slots"} \union {"invocation_serialization"}
                      \union {"compiler-unrecognized"} \union {"observation-failed"})
    BY <1>1, <2>3
  <2>5. Marks = {"argument_text_bytes"} \union {"compiler_slots"} \union {"invocation_serialization"}
                  \union {"compiler-unrecognized"} \union {"observation-failed"}
    BY DEF Marks, Budgets
  <2> QED
    BY <2>4, <2>5
<1>3. IsFiniteSet(M)
  BY <1>2, FS_Subset
<1> QED
  BY <1>3, FS_CardinalityType

(* Without a missing record every slot has its file.                       *)
LEMMA SlotsFull ==
  ASSUME NEW slots \in SUBSET Slots, NEW files \in SUBSET slots, ~RecordMissing(slots, files)
  PROVE  files = slots
<1>1. IsFiniteSet(slots) /\ Cardinality(slots) \in Nat /\ Cardinality(files) \in Nat
  BY SlotsFinite
<1>2. Cardinality(files) <= Cardinality(slots)
  BY <1>1, FS_Subset
<1>3. Cardinality(slots) = Cardinality(files)
  BY <1>1, <1>2 DEF RecordMissing
<1> QED
  BY <1>1, <1>3, FS_Subset

(* The captured compilers have slots of their own, so they are finitely    *)
(* many, however many were called.                                         *)
LEMMA EntriesCounted ==
  ASSUME IInv, WrapperInv
  PROVE  Entries \in Int
<1> DEFINE K == {c \in Compilers : Captured(c)}
           f == [c \in K |-> run[c].slot]
<1>1. dir.slots \in SUBSET Slots /\ UnitFiles \in SUBSET Slots /\ dir.marks \in SUBSET Marks
  BY DEF IInv, DirFine, Directories, UnitFiles
<1>2. \A c \in K : run[c].slot # NONE /\ run[c].slot \in Slots
  BY <1>1 DEF Captured, WrapperInv
<1>3. f \in Injection(K, Slots)
  BY <1>2 DEF Injection, IsInjective, WrapperInv
<1>4. Cardinality(K) \in Nat
  <2>1. IsFiniteSet(Slots)
    BY SlotsFinite
  <2>2. IsFiniteSet(K)
    BY <1>3, <2>1, FS_Injection
  <2> QED
    BY <2>2, FS_CardinalityType
<1>5. Cardinality(dir.slots) \in Nat /\ Cardinality(UnitFiles) \in Nat
  BY <1>1, SlotsFinite
<1>6. Cardinality(dir.marks) \in Nat
  BY <1>1, MarksFinite
<1>7. Cardinality(mode \intersect {"stream"}) \in Nat
  <2>1. IsFiniteSet({"stream"})
    BY FS_Singleton
  <2>2. IsFiniteSet(mode \intersect {"stream"})
    BY <2>1, FS_Subset
  <2> QED
    BY <2>2, FS_CardinalityType
<1> HIDE DEF K, f
<1>8. PICK q \in Nat, k \in Nat : q = 1 + Cardinality(mode \intersect {"stream"}) /\ k = 1 + Cardinality(K)
  <2>1. 1 + Cardinality(mode \intersect {"stream"}) \in Nat /\ 1 + Cardinality(K) \in Nat
    BY <1>4, <1>7
  <2> QED
    BY <2>1
<1>9. 2 * q * k \in Nat
  BY <1>8
<1>10. Entries = 2 * q * k + Cardinality(dir.slots) + Cardinality(UnitFiles) + Cardinality(dir.marks)
  BY <1>8 DEF Entries, K
<1> QED
  BY <1>5, <1>6, <1>9, <1>10

(* No witness is missed in a directory that fits the listing.              *)
LEMMA AllSeen ==
  ASSUME IInv, WrapperInv, Fits, NEW m \in Seen
  PROVE  m = dir.marks
<1>1. dir.marks \in SUBSET Marks /\ m \in SUBSET dir.marks
  BY DEF IInv, DirFine, Directories, Seen
<1>2. IsFiniteSet(dir.marks \ m) /\ Cardinality(dir.marks \ m) \in Nat
  BY <1>1, MarksFinite
<1>3. CASE Cardinality(dir.marks \ m) <= Entries - LISTED
  <2>1. Entries \in Int /\ LISTED \in Int /\ Entries <= LISTED
    BY EntriesCounted, CaptureAssumption DEF LISTED, CaptureAssumption, Fits
  <2>2. Cardinality(dir.marks \ m) = 0
    BY <1>2, <1>3, <2>1
  <2>3. dir.marks \ m = {}
    BY <1>2, <2>2, FS_EmptySet
  <2> QED
    BY <1>1, <2>3
<1> QED
  BY <1>3 DEF Seen

LEMMA KeysCounted ==
  ASSUME NEW I \in SUBSET Slots, NEW i \in Slots
  PROVE  /\ Cardinality(Keys(I)) \in Nat /\ Cardinality(Keys(I \union {i})) \in Nat
         /\ Cardinality(Keys(I \union {i})) <= Cardinality(Keys(I)) + 1
         /\ Key[dir.units[i].of] \in Keys(I) => Keys(I \union {i}) = Keys(I)
<1> DEFINE f == [j \in I |-> Key[dir.units[j].of]]
<1>1. f \in Surjection(I, Keys(I))
  BY DEF Surjection, Keys
<1>2. IsFiniteSet(I)
  BY SlotsFinite
<1>3. IsFiniteSet(Keys(I))
  BY <1>1, <1>2, FS_Surjection
<1>4. Keys(I \union {i}) = Keys(I) \union {Key[dir.units[i].of]}
  BY DEF Keys
<1>5. /\ Cardinality(Keys(I)) \in Nat
      /\ Cardinality(Keys(I) \union {Key[dir.units[i].of]}) =
           IF Key[dir.units[i].of] \in Keys(I) THEN Cardinality(Keys(I)) ELSE Cardinality(Keys(I)) + 1
  BY <1>3, FS_CardinalityType, FS_AddElement
<1> HIDE DEF f
<1>6. CASE Key[dir.units[i].of] \in Keys(I)
  <2>1. Keys(I \union {i}) = Keys(I)
    BY <1>4, <1>6
  <2> QED
    BY <1>5, <2>1
<1>7. CASE Key[dir.units[i].of] \notin Keys(I)
  <2>1. Cardinality(Keys(I \union {i})) = Cardinality(Keys(I)) + 1
    BY <1>4, <1>5, <1>7
  <2> QED
    BY <1>5, <1>7, <2>1
<1> QED
  BY <1>6, <1>7

(* u is t without its last element.                                        *)
Shorter(u, t) ==
  /\ Len(t) \in Nat /\ Len(t) >= 1 /\ Len(u) = Len(t) - 1
  /\ \A k \in DOMAIN u : k \in DOMAIN t /\ u[k] = t[k]

LEMMA FrontOf ==
  ASSUME NEW T, NEW s \in Seq(T), s # <<>>
  PROVE  Front(s) \in Seq(T) /\ Shorter(Front(s), s)
<1>1. Len(s) \in Nat /\ Len(s) > 0 /\ Front(s) = SubSeq(s, 1, Len(s) - 1)
  BY DEF Front
<1>2. PICK n \in Nat : n = Len(s) - 1
  BY <1>1
<1>3. SubSeq(s, 1, n) = [k \in 1..n |-> s[k]]
  BY <1>1, <1>2
<1>4. \A k \in 1..n : k \in DOMAIN s /\ s[k] \in T
  BY <1>1, <1>2
<1>5. Front(s) \in Seq(T) /\ Len(Front(s)) = n /\ DOMAIN Front(s) = 1..n
  BY <1>1, <1>2, <1>4
<1>6. \A k \in 1..n : Front(s)[k] = s[k]
  BY <1>1, <1>2, <1>4
<1>7. \A k \in DOMAIN Front(s) : k \in DOMAIN s /\ Front(s)[k] = s[k]
  BY <1>4, <1>5, <1>6
<1>8. Len(s) >= 1 /\ Len(Front(s)) = Len(s) - 1
  BY <1>1, <1>2, <1>5
<1> QED
  BY <1>1, <1>5, <1>7, <1>8 DEF Shorter

(* u is t with one element more, x, at its end.                            *)
Grown(u, t, x) ==
  /\ Len(u) = Len(t) + 1
  /\ \A k \in DOMAIN t : k \in DOMAIN u /\ u[k] = t[k]
  /\ \E k \in DOMAIN u : u[k] = x
  /\ \A k \in DOMAIN u : k \in DOMAIN t \/ u[k] = x

LEMMA Appended ==
  ASSUME NEW T, NEW s \in Seq(T), NEW x \in T
  PROVE  Append(s, x) \in Seq(T) /\ Grown(Append(s, x), s, x)
<1>1. Len(s) \in Nat /\ DOMAIN s = 1..Len(s)
  OBVIOUS
<1>2. PICK u : u = Append(s, x)
  OBVIOUS
<1>3. /\ u \in Seq(T) /\ Len(u) = Len(s) + 1 /\ DOMAIN u = 1..(Len(s) + 1)
      /\ \A k \in 1..Len(s) : u[k] = s[k]
      /\ u[Len(s) + 1] = x
  BY <1>1, <1>2
<1>4. \A k \in 1..(Len(s) + 1) : k \in 1..Len(s) \/ k = Len(s) + 1
  BY <1>1
<1>5. Len(s) + 1 \in 1..(Len(s) + 1)
  BY <1>1
<1> QED
  BY <1>1, <1>2, <1>3, <1>4, <1>5 DEF Grown

LEMMA Rest ==
  ASSUME NEW T, NEW s \in Seq(T), s # <<>>
  PROVE  /\ Head(s) \in T /\ Tail(s) \in Seq(T) /\ Len(Tail(s)) = Len(s) - 1 /\ Len(s) \in Nat
         /\ 1 \in DOMAIN s /\ Head(s) = s[1]
         /\ \A k \in DOMAIN Tail(s) : k + 1 \in DOMAIN s /\ Tail(s)[k] = s[k + 1]
OBVIOUS

(* Reordering keeps the records and their number.                          *)
LEMMA Reordered ==
  ASSUME NEW T, NEW s \in Seq(T), NEW t \in ByKey(s)
  PROVE  /\ t \in Seq(T) /\ Len(t) = Len(s)
         /\ \A k \in DOMAIN t : \E j \in DOMAIN s : t[k] = s[j]
         /\ \A k \in DOMAIN s : \E j \in DOMAIN t : s[k] = t[j]
<1>1. PICK p \in Bijection(DOMAIN s, DOMAIN s) : t = [i \in DOMAIN s |-> s[p[i]]]
  BY DEF ByKey
<1>2. p \in [DOMAIN s -> DOMAIN s] /\ \A k \in DOMAIN s : \E j \in DOMAIN s : p[j] = k
  BY <1>1 DEF Bijection, Surjection, Injection
<1>3. DOMAIN s = 1..Len(s) /\ Len(s) \in Nat
  OBVIOUS
<1>4. t \in [1..Len(s) -> T]
  BY <1>1, <1>2, <1>3
<1>5. t \in Seq(T) /\ Len(t) = Len(s)
  BY <1>3, <1>4
<1> QED
  BY <1>1, <1>2, <1>5

-----------------------------------------------------------------------------
(* The session.                                                            *)

LEMMA NewResultTyped ==
  /\ NewResult \in Results /\ NewResult.inv = <<>> /\ NewResult.gen = <<>> /\ NewResult.str = <<>>
  /\ NewResult.gaps = {} /\ NewResult.truncations = {} /\ NewResult.bare = FALSE
BY DEF NewResult, Results

LEMMA SessionInit == Init => SessionInv
<1> SUFFICES ASSUME Init PROVE Good(session)
  BY DEF SessionInv
<1>1. session = [pc |-> "build", units |-> {}, slots |-> {}, files |-> {}, todo |-> <<>>,
                 bytes |-> 0, result |-> NewResult, dropped |-> [inv |-> 0, gen |-> 0, str |-> 0]]
  BY DEF Init
<1>2. SessionTyped(session) /\ Started(session)
  BY <1>1, NewResultTyped DEF SessionTyped, Shaped, Started, Places, Drops
<1>3. session.pc = "build" /\ session.result = NewResult
  BY <1>1
<1> QED
  BY <1>2, <1>3, NewResultTyped DEF Good, GoodFor, FromFiles, Covered, Counted, Referred, Witnessed

(* Nothing but the session changes once the wrappers have ended.           *)
LEMMA SessionSetFor ==
  ASSUME NEW S, session' = S, GoodFor(S, faults'), UNCHANGED <<call, mode, dir, run>>
  PROVE  SessionInv'
<1>1. UnitFiles' = UnitFiles /\ Valid(session)' = Valid(S) /\ \A I : Keys(I)' = Keys(I)
  BY DEF UnitFiles, Valid, Keys
<1>2. Made' = Made /\ \A n : Refused(n)' = Refused(n)
  BY DEF Made, Refused
<1>3. Fits' = Fits
  BY <1>1 DEF Fits, Entries, LISTED, Captured
<1>4. \A c \in Compilers : Owed(session, c, faults)' <=> Owed(S, c, faults')
  BY <1>3 DEF Owed
<1>5. SessionTyped(session)' /\ Started(session)' /\ FromFiles(session)'
  BY <1>1 DEF GoodFor, SessionTyped, Shaped, Started, FromFiles
<1>6. Covered(session, faults)' /\ Referred(session)' /\ Witnessed(session)'
  BY <1>4 DEF GoodFor, Covered, Referred, Witnessed, KnownLoss
<1>7. Counted(session)'
  BY <1>1, <1>2 DEF GoodFor, Counted, Following, Settled
<1> QED
  BY <1>5, <1>6, <1>7 DEF SessionInv, Good, GoodFor

LEMMA SessionSet ==
  ASSUME WrapperInv, NEW S, session' = S, Good(S), UNCHANGED <<call, mode, dir, run>>,
         UNCHANGED faults \/ Fault
  PROVE  SessionInv'
<1>1. faults' = 0 => faults = 0
  BY FaultCounts
<1>2. \A c \in Compilers : Owed(S, c, faults') => Owed(S, c, faults)
  BY <1>1 DEF Owed
<1>3. GoodFor(S, faults')
  BY <1>2 DEF Good, GoodFor, Covered
<1> QED
  BY <1>3, SessionSetFor

(* While the compilers run, the session holds nothing.                     *)
LEMMA Building ==
  ASSUME SessionInv, (\E c \in Compilers : Wrapper(c)) \/ Edit
  PROVE  SessionInv'
<1>1. session.pc = "build" /\ session' = session
  <2>1. CASE \E c \in Compilers : Wrapper(c)
    <3>1. \E c \in Compilers : run[c].pc # "end"
      BY <2>1 DEF Wrapper, Start, Claim, SlotTaken, ClaimFails, NoSlot, Observe, WriteRequests, Seal,
                  PassPaths, Compile, After, Accept, WriteUnit, UnitTooLarge, WriteUnitFails, Kill
    <3>2. session' = session
      BY <2>1 DEF Wrapper, Start, Claim, SlotTaken, ClaimFails, NoSlot, Observe, WriteRequests, Seal,
                  PassPaths, Compile, After, Accept, WriteUnit, UnitTooLarge, WriteUnitFails, Kill
    <3> QED
      BY <3>1, <3>2 DEF SessionInv, Good, GoodFor, Started
  <2>2. CASE Edit
    BY <2>2 DEF Edit
  <2> QED
    BY <2>1, <2>2
<1>2. SessionTyped(session) /\ Started(session) /\ session.result = NewResult /\ session.files = {}
  BY <1>1 DEF SessionInv, Good, GoodFor, Started, SessionTyped, Shaped
<1>3. SessionTyped(session)' /\ Started(session)'
  <2>1. Shaped(session)'
    BY <1>1, <1>2 DEF SessionTyped, Shaped
  <2> QED
    BY <1>1, <1>2, <2>1 DEF SessionTyped, Started
<1>4. session'.pc = "build" /\ session'.result = NewResult
  BY <1>1, <1>2
<1>5. FromFiles(session)' /\ Covered(session, faults)' /\ Counted(session)' /\ Referred(session)' /\ Witnessed(session)'
  BY <1>4, NewResultTyped DEF FromFiles, Covered, Counted, Referred, Witnessed
<1> QED
  BY <1>3, <1>5 DEF SessionInv, Good, GoodFor
-----------------------------------------------------------------------------
(* The steps of the session.                                               *)

(* What the session starts from: lists of what is there.  Without a        *)
(* failure the slots are complete, and the markers as far as they are      *)
(* looked for.                                                             *)
LEMMA Listing ==
  ASSUME IInv, WrapperInv, Finish
  PROVE  \E slots \in SUBSET dir.slots, files \in SUBSET UnitFiles, m \in SUBSET Marks, torn \in SUBSET Marks :
           /\ Listed(slots, files, m, torn)
           /\ faults' = 0 => slots = dir.slots /\ m \in Seen /\ torn = dir.torn
<1>1. dir.marks \in SUBSET Marks /\ dir.torn \in SUBSET Marks
  BY DEF IInv, DirFine, Directories
<1>2. ASSUME NEW m \in Seen, Listed(dir.slots, UnitFiles, m, dir.torn)
      PROVE  \E slots \in SUBSET dir.slots, files \in SUBSET UnitFiles, n \in SUBSET Marks, torn \in SUBSET Marks :
               /\ Listed(slots, files, n, torn)
               /\ faults' = 0 => slots = dir.slots /\ n \in Seen /\ torn = dir.torn
  <2>1. m \in SUBSET Marks
    BY <1>1 DEF Seen
  <2> QED
    BY <1>1, <1>2, <2>1
<1>3. ASSUME Fault, NEW slots \in SUBSET dir.slots, NEW files \in SUBSET UnitFiles,
             NEW m \in SUBSET dir.marks, NEW t \in SUBSET m, Listed(slots, files, m, dir.torn \union t)
      PROVE  \E n \in SUBSET Marks, torn \in SUBSET Marks :
               Listed(slots, files, n, torn) /\ faults' # 0
  BY <1>1, <1>3, FaultCounts
<1> QED
  BY <1>2, <1>3 DEF Finish

LEMMA Finishing ==
  ASSUME IInv, WrapperInv, SessionInv, Finish
  PROVE  SessionInv'
<1>1. /\ session.pc = "build" /\ session.todo = <<>> /\ session.result = NewResult
      /\ session.dropped = [inv |-> 0, gen |-> 0, str |-> 0] /\ session.dropped \in Drops
      /\ Shaped(session)
  BY DEF Finish, SessionInv, Good, GoodFor, SessionTyped, Started, Shaped
<1>2. PICK S : session' = S
  OBVIOUS
<1>3. PICK slots \in SUBSET dir.slots, files \in SUBSET UnitFiles, m \in SUBSET Marks, torn \in SUBSET Marks :
        /\ Listed(slots, files, m, torn)
        /\ faults' = 0 => slots = dir.slots /\ m \in Seen /\ torn = dir.torn
  BY Listing
<1>4. PICK W : /\ W = Witnesses(slots, files, m, torn)
               /\ W \in Results /\ W.inv = <<>> /\ W.gen = <<>> /\ W.str = <<>> /\ ~W.bare
               /\ RecordMissing(slots, files) => "MalformedObservation" \in W.gaps
               /\ "compiler_slots" \in m \ torn => W.truncations # {}
  <2>1. PICK W : W = Witnesses(slots, files, m, torn)
    OBVIOUS
  <2>2. W \in Results /\ W.inv = <<>> /\ W.gen = <<>> /\ W.str = <<>> /\ ~W.bare
    BY <2>1, NewResultTyped DEF Witnesses, NewResult, Results, Budgets, Lost, Told4, AllGaps
  <2>3. /\ RecordMissing(slots, files) => "MalformedObservation" \in W.gaps
        /\ "compiler_slots" \in m \ torn => W.truncations # {}
    BY <2>1, NewResultTyped DEF Witnesses, Results, Budgets
  <2> QED
    BY <2>1, <2>2, <2>3
<1>5. /\ Shaped(S)
      /\ S.pc = "units" /\ S.units = files /\ S.files = files /\ S.slots = slots /\ S.todo = <<>>
      /\ S.result = W /\ S.dropped = [inv |-> 0, gen |-> 0, str |-> 0] /\ S.dropped \in Drops
  <2>1. S = [session EXCEPT !.pc = "units", !.slots = slots, !.units = files, !.files = files,
                            !.result = W, !.bytes = AttachmentSize(W)]
    BY <1>2, <1>3, <1>4 DEF Listed
  <2> QED
    BY <1>1, <1>4, <2>1 DEF Places, Shaped
<1>6. \A c \in Compilers : run[c].pc = "end"
  BY DEF Finish
<1>7. SessionTyped(S) /\ Started(S)
  BY <1>4, <1>5, <1>6 DEF SessionTyped, Started
<1>8. FromFiles(S) /\ Referred(S) /\ Witnessed(S)
  BY <1>4, <1>5 DEF FromFiles, Referred, Witnessed
<1>9. ASSUME NEW c \in Compilers, Owed(S, c, faults') PROVE KnownLoss(S) \/ run[c].slot \in S.files
  <2>1. CASE run[c].slot # NONE /\ slots = dir.slots
    <3>1. run[c].slot \in slots /\ slots \in SUBSET Slots /\ files \in SUBSET slots
      BY <2>1 DEF WrapperInv, UnitFiles, IInv, DirFine, Directories
    <3>2. CASE RecordMissing(slots, files)
      BY <1>4, <1>5, <3>2 DEF KnownLoss, Told4
    <3> QED
      BY <1>5, <3>1, <3>2, SlotsFull
  <2>2. CASE faults' = 0 /\ Fits /\ call[c] \in {"unit", "unresolved"} /\ run[c].slot = NONE
    <3>1. faults = 0
      BY <2>2, FaultCounts DEF Finish
    <3>2. "compiler_slots" \in dir.marks /\ dir.torn = {}
      BY <1>6, <2>2, <3>1 DEF WrapperInv, Noticed
    <3>3. m = dir.marks /\ torn = {}
      BY <1>3, <2>2, <3>2, AllSeen
    <3> QED
      BY <1>4, <1>5, <3>2, <3>3 DEF KnownLoss
  <2> QED
    BY <1>3, <1>5, <1>9, <2>1, <2>2 DEF Owed
<1>10. Covered(S, faults')
  BY <1>5, <1>9 DEF Covered
<1>11. Counted(S)
  <2> DEFINE V == Valid(S)
  <2>1. V \in SUBSET Slots /\ V \intersect S.files = V /\ V \ S.files = {}
    BY <1>5 DEF Valid, UnitFiles
  <2> HIDE DEF V
  <2>2. Cardinality(V) \in Nat
    BY <2>1, SlotsFinite
  <2>3. Keys({}) = {} /\ Cardinality({}) = 0
    BY FS_EmptySet DEF Keys
  <2>4. Len(S.result.inv) = 0 /\ Len(S.result.gen) = 0 /\ S.dropped.inv = 0 /\ S.dropped.gen = 0
    BY <1>4, <1>5
  <2>5. Cardinality(V \intersect S.files) = Cardinality(V) /\ Cardinality(Keys(V \ S.files)) = 0
    BY <2>1, <2>3
  <2>6. 0 + 0 + Cardinality(V) <= Cardinality(V) /\ 0 <= 0 + 0 /\ 0 + 0 = 0
    BY <2>2
  <2> QED
    BY <1>5, <2>4, <2>5, <2>6 DEF Counted, V
<1> QED
  BY <1>2, <1>7, <1>8, <1>10, <1>11, SessionSetFor DEF GoodFor, Finish

(* What the session listed stays as it is.                                 *)
Same(S) == S.units = session.units /\ S.slots = session.slots

LEMMA SameListed ==
  ASSUME NEW S, Same(S)
  PROVE  Valid(S) = Valid(session) /\ \A c : Owed(S, c, faults) <=> Owed(session, c, faults)
BY DEF Same, Valid, Owed

(* One file more is read: of those that can be read, V, G are left of F    *)
(* without i.                                                              *)
OneLess(V, F, G, i) ==
  \E a, f, g, kf, kg \in Nat :
    /\ a = Cardinality(V)
    /\ f = Cardinality(V \intersect F) /\ g = Cardinality(V \intersect G)
    /\ kf = Cardinality(Keys(V \ F)) /\ kg = Cardinality(Keys(V \ G))
    /\ g <= f /\ (i \in V => g + 1 = f) /\ kg <= kf + 1
    /\ (Key[dir.units[i].of] \in Keys(V \ F) => kg = kf)

LEMMA OneRead ==
  ASSUME NEW V \in SUBSET Slots, NEW F \in SUBSET Slots, NEW i \in F, NEW G, G = F \ {i}
  PROVE  OneLess(V, F, G, i)
<1>1. V \in SUBSET Slots /\ i \in Slots /\ G \in SUBSET Slots
  OBVIOUS
<1>2. /\ Cardinality(V) \in Nat /\ IsFiniteSet(V \intersect F)
      /\ Cardinality(V \intersect F) \in Nat /\ Cardinality(V \intersect G) \in Nat
  BY <1>1, SlotsFinite
<1>3. /\ Cardinality(V \intersect G) <= Cardinality(V \intersect F)
      /\ i \in V => Cardinality(V \intersect G) + 1 = Cardinality(V \intersect F)
  <2>1. CASE i \in V
    <3>1. V \intersect G = (V \intersect F) \ {i} /\ i \in V \intersect F
      BY <2>1
    <3>2. PICK U : U = V \intersect F
      OBVIOUS
    <3>3. IsFiniteSet(U) /\ i \in U /\ Cardinality(U) \in Nat
      BY <1>2, <3>1, <3>2
    <3>4. Cardinality(U \ {i}) = Cardinality(U) - 1
      BY <3>3, FS_RemoveElement
    <3>5. V \intersect G = U \ {i}
      BY <3>1, <3>2
    <3>6. Cardinality(V \intersect G) = Cardinality(U) - 1
      BY <3>4, <3>5
    <3> QED
      BY <1>2, <3>2, <3>3, <3>6
  <2>2. CASE i \notin V
    <3>1. V \intersect G = V \intersect F
      BY <2>2
    <3> QED
      BY <1>2, <2>2, <3>1
  <2> QED
    BY <2>1, <2>2
<1>4. /\ V \ F \in SUBSET Slots /\ V \ F \subseteq V \ G
      /\ V \ G = (IF i \in V THEN (V \ F) \union {i} ELSE V \ F)
  BY <1>1
<1>5. /\ Cardinality(Keys(V \ G)) \in Nat /\ Cardinality(Keys(V \ F)) \in Nat
      /\ Cardinality(Keys(V \ G)) <= Cardinality(Keys(V \ F)) + 1
      /\ Key[dir.units[i].of] \in Keys(V \ F) => Keys(V \ G) = Keys(V \ F)
  <2>1. CASE i \in V
    <3>1. /\ Cardinality(Keys(V \ F)) \in Nat /\ Cardinality(Keys((V \ F) \union {i})) \in Nat
          /\ Cardinality(Keys((V \ F) \union {i})) <= Cardinality(Keys(V \ F)) + 1
          /\ Key[dir.units[i].of] \in Keys(V \ F) =>
               Keys((V \ F) \union {i}) = Keys(V \ F)
      BY <1>1, <1>4, KeysCounted
    <3> QED
      BY <1>4, <2>1, <3>1
  <2>2. CASE i \notin V
    <3>1. Cardinality(Keys(V \ F)) \in Nat
      BY <1>1, <1>4, KeysCounted
    <3>2. V \ G = V \ F
      BY <1>4, <2>2
    <3> QED
      BY <3>1, <3>2
  <2> QED
    BY <2>1, <2>2
<1> QED
  BY <1>1, <1>2, <1>3, <1>4, <1>5 DEF OneLess
(* What the session knows when it takes a record file.                     *)
LEMMA Reading ==
  ASSUME IInv, WrapperInv, SessionInv, session.pc = "units", NEW i \in session.files
  PROVE  /\ session.files \in SUBSET UnitFiles /\ i \in Slots
         /\ Shaped(session)
         /\ session.result \in Results /\ session.dropped \in Drops /\ session.todo = <<>>
         /\ ~session.result.bare
         /\ \A c \in Compilers : run[c].pc = "end"
         /\ FromFiles(session) /\ Covered(session, faults) /\ Counted(session) /\ Referred(session)
         /\ dir.units[i] # TORN =>
              /\ i \in Valid(session) /\ dir.units[i] \in Units
              /\ \A c \in Compilers : run[c].slot = i => c = dir.units[i].of
<1>1. /\ session.files \in SUBSET UnitFiles /\ session.files \subseteq session.units
      /\ i \in Slots /\ dir.units[i] # NONE
  BY DEF SessionInv, Good, GoodFor, SessionTyped, Shaped, UnitFiles
<1>2. dir.units[i] # TORN => i \in Valid(session) /\ dir.units[i] \in Units
  BY <1>1 DEF Valid, IInv, DirFine, Directories
<1>3. ASSUME dir.units[i] # TORN, NEW c \in Compilers, run[c].slot = i PROVE c = dir.units[i].of
  <2>1. dir.units[i].of \in Compilers /\ run[dir.units[i].of].slot = i
    BY <1>1, <1>2, <1>3 DEF Units, WrapperInv, Filed
  <2>2. i # NONE
    BY <1>1, Distinct, CaptureAssumption DEF Slots, CaptureAssumption
  <2> QED
    BY <1>3, <2>1, <2>2 DEF WrapperInv
<1> QED
  BY <1>1, <1>2, <1>3 DEF SessionInv, Good, GoodFor, SessionTyped, Started, Shaped

LEMMA OneMore ==
  ASSUME NEW l \in Nat, NEW d \in Nat, NEW a \in Nat, NEW g \in Nat, NEW f \in Nat,
         NEW kg \in Nat, NEW kf \in Nat, l + d + f <= a, g + 1 = f, kg <= kf + 1
  PROVE  l + (d + 1) + g <= a /\ (kf <= l + d => kg <= l + (d + 1))
OBVIOUS

(* A record that is not read, or not kept, is told.                        *)
LEMMA NotKept ==
  ASSUME IInv, WrapperInv, SessionInv, session.pc = "units", NEW i \in session.files,
         NEW S, Shaped(S), Same(S), S.pc = "units", S.files = session.files \ {i}, S.todo = <<>>,
         S.result.inv = session.result.inv, S.result.gen = session.result.gen,
         S.result.str = session.result.str, S.result.bare = session.result.bare,
         S.dropped.gen = session.dropped.gen, session.result.gaps \subseteq S.result.gaps,
         \/ /\ dir.units[i] # TORN /\ S.dropped.inv = session.dropped.inv + 1
         \/ /\ S.dropped.inv = session.dropped.inv /\ Told4 \intersect S.result.gaps # {}
            /\ \/ "MalformedObservation" \in S.result.gaps
               \/ Key[dir.units[i].of] \in Keys(Valid(session) \ session.files)
  PROVE  Good(S)
<1>1. PICK F \in SUBSET Slots : F = session.files /\ i \in F /\ i \in Slots
  BY Reading DEF UnitFiles
<1>v. PICK V \in SUBSET Slots : V = Valid(session) /\ V = Valid(S)
  <2>1. Valid(session) \in SUBSET Slots
    BY Reading DEF Valid, UnitFiles, Shaped
  <2> QED
    BY <2>1, SameListed
<1>2. PICK r : r = session.result /\ r \in Results /\ ~r.bare /\ r.str = <<>>
  BY Reading DEF Referred
<1>3. PICK d : d = session.dropped /\ d \in Drops /\ d.inv \in Nat
  BY Reading DEF Drops
<1>4. SessionTyped(S) /\ Started(S)
  BY <1>2, Reading DEF SessionTyped, Started
<1>5. FromFiles(S)
  <2>1. \A k \in DOMAIN r.inv : \E j \in V \ F : r.inv[k] = dir.units[j]
    BY <1>1, <1>v, <1>2, Reading DEF FromFiles
  <2>2. V \ F \subseteq V \ S.files
    BY <1>1
  <2> QED
    BY <1>v, <1>2, <2>1, <2>2 DEF FromFiles
<1>6. Covered(S, faults)
  <2>1. KnownLoss(S)
    BY <1>3 DEF KnownLoss
  <2> QED
    BY <2>1 DEF Covered
<1>7. Referred(S) /\ Witnessed(S)
  BY <1>2 DEF Referred, Witnessed
<1>8. Counted(S)
  <2>1. /\ Len(r.inv) \in Nat
        /\ Len(r.inv) + d.inv + Cardinality(V \intersect F) <= Cardinality(V)
        /\ "MalformedObservation" \in r.gaps \/ Cardinality(Keys(V \ F)) <= Len(r.inv) + d.inv
        /\ Len(r.gen) + d.gen = 0
    <3>1. Counted(session) /\ r.inv \in Seq(Units)
      BY <1>2, Reading DEF Results
    <3> QED
      BY <1>v, <1>1, <1>2, <1>3, <3>1 DEF Counted
  <2>2. dir.units[i] # TORN => i \in V
    BY <1>v, Reading
  <2>3. PICK G : G = F \ {i} /\ G = S.files
    BY <1>1
  <2>4. PICK a, f, g, kf, kg \in Nat :
           /\ a = Cardinality(V)
           /\ f = Cardinality(V \intersect F) /\ g = Cardinality(V \intersect G)
           /\ kf = Cardinality(Keys(V \ F)) /\ kg = Cardinality(Keys(V \ G))
           /\ g <= f /\ (i \in V => g + 1 = f) /\ kg <= kf + 1
           /\ (Key[dir.units[i].of] \in Keys(V \ F) => kg = kf)
    <3>1. OneLess(V, F, G, i)
      BY <1>1, <1>v, <2>3, OneRead
    <3> QED
      BY <3>1 DEF OneLess
  <2>5. PICK n, l, m \in Nat : n = S.dropped.inv /\ l = Len(r.inv) /\ m = d.inv
    <3>1. S.dropped.inv \in Nat /\ Len(r.inv) \in Nat
      BY <2>1 DEF Shaped, Same, Drops
    <3> QED
      BY <1>3, <3>1
  <2>6. l + m + f <= a /\ ("MalformedObservation" \in r.gaps \/ kf <= l + m)
    BY <2>1, <2>4, <2>5
  <2>7. /\ l + n + g <= a
        /\ "MalformedObservation" \in S.result.gaps \/ kg <= l + n
    <3>1. CASE n = m + 1 /\ i \in V
      <4>1. l + n + g <= a /\ (kf <= l + m => kg <= l + n)
        BY <2>4, <2>6, <3>1, OneMore
      <4> QED
        BY <1>2, <2>6, <4>1
    <3>2. CASE n = m
      <4>1. l + n + g <= a
        BY <2>4, <2>6, <3>2
      <4>2. \/ "MalformedObservation" \in S.result.gaps
            \/ kg = kf /\ "MalformedObservation" \notin r.gaps
        BY <1>1, <1>v, <1>2, <1>3, <2>4, <2>5, <3>2
      <4> QED
        BY <2>6, <3>2, <4>1, <4>2
    <3> QED
      BY <1>3, <2>2, <2>5, <3>1, <3>2
  <2> QED
    BY <1>v, <1>2, <1>3, <2>1, <2>3, <2>4, <2>5, <2>7 DEF Counted
<1> QED
  BY <1>4, <1>5, <1>6, <1>7, <1>8 DEF Good, GoodFor
(* A record that is kept is the one its wrapper owes.                      *)
LEMMA Kept ==
  ASSUME IInv, WrapperInv, SessionInv, session.pc = "units", NEW i \in session.files,
         dir.units[i] # TORN,
         NEW S, Shaped(S), Same(S), S.pc = "units", S.files = session.files \ {i}, S.todo = <<>>,
         Grown(S.result.inv, session.result.inv, dir.units[i]),
         S.result.gen = session.result.gen, S.result.str = session.result.str,
         S.result.bare = session.result.bare, S.result.gaps = session.result.gaps,
         S.result.truncations = session.result.truncations, S.dropped = session.dropped
  PROVE  Good(S)
<1>1. PICK F \in SUBSET Slots : F = session.files /\ i \in F /\ i \in Slots
  BY Reading DEF UnitFiles
<1>v. PICK V \in SUBSET Slots : V = Valid(session) /\ V = Valid(S)
  <2>1. Valid(session) \in SUBSET Slots
    BY Reading DEF Valid, UnitFiles, Shaped
  <2> QED
    BY <2>1, SameListed
<1>2. PICK r : r = session.result /\ r \in Results /\ ~r.bare /\ r.str = <<>>
  BY Reading DEF Referred
<1>3. PICK d : d = session.dropped /\ d \in Drops /\ d.inv \in Nat
  BY Reading DEF Drops
<1>4. PICK t : t = r.inv /\ t \in Seq(Units) /\ Len(t) \in Nat
  BY <1>2 DEF Results
<1>5. PICK R \in Units : R = dir.units[i] /\ i \in V
  BY <1>v, Reading
<1>6. PICK u : u = S.result.inv
  OBVIOUS
<1>7. /\ Len(u) = Len(t) + 1
      /\ \A k \in DOMAIN t : k \in DOMAIN u /\ u[k] = t[k]
      /\ \E k \in DOMAIN u : u[k] = R
      /\ \A k \in DOMAIN u : k \in DOMAIN t \/ u[k] = R
  BY <1>2, <1>4, <1>5, <1>6 DEF Grown
<1>8. SessionTyped(S) /\ Started(S)
  BY <1>2, Reading DEF SessionTyped, Started
<1>9. FromFiles(S)
  <2>1. \A k \in DOMAIN t : \E j \in V \ F : t[k] = dir.units[j]
    BY <1>1, <1>v, <1>2, <1>4, Reading DEF FromFiles
  <2>2. V \ F \subseteq V \ S.files /\ i \in V \ S.files
    BY <1>1, <1>5
  <2>3. ASSUME NEW k \in DOMAIN u PROVE \E j \in V \ S.files : u[k] = dir.units[j]
    BY <1>5, <1>7, <2>1, <2>2
  <2> QED
    BY <1>v, <1>6, <2>3 DEF FromFiles
<1>10. Covered(S, faults)
  <2> SUFFICES ASSUME NEW c \in Compilers, Owed(S, c, faults), ~KnownLoss(S)
               PROVE (\E k \in DOMAIN u : u[k].of = c) \/ run[c].slot \in S.files
    BY <1>6 DEF Covered
  <2>1. (\E k \in DOMAIN t : t[k].of = c) \/ run[c].slot \in F
    <3>1. ~KnownLoss(session)
      BY DEF KnownLoss
    <3> QED
      BY <1>1, <1>2, <1>4, <3>1, Reading, SameListed DEF Covered
  <2>2. CASE \E k \in DOMAIN t : t[k].of = c
    BY <1>7, <2>2
  <2>3. CASE run[c].slot = i
    <3>1. R.of = c
      BY <1>5, <2>3, Reading
    <3> QED
      BY <1>7, <3>1
  <2>4. CASE run[c].slot \in F \ {i}
    BY <1>1, <2>4
  <2> QED
    BY <2>1, <2>2, <2>3, <2>4
<1>11. Referred(S) /\ Witnessed(S)
  BY <1>2 DEF Referred, Witnessed
<1>12. Counted(S)
  <2>1. /\ Len(t) + d.inv + Cardinality(V \intersect F) <= Cardinality(V)
        /\ "MalformedObservation" \in r.gaps \/ Cardinality(Keys(V \ F)) <= Len(t) + d.inv
        /\ Len(r.gen) + d.gen = 0
    <3>1. Counted(session)
      BY Reading
    <3> QED
      BY <1>v, <1>1, <1>2, <1>3, <1>4, <3>1 DEF Counted
  <2>2. PICK G : G = F \ {i} /\ G = S.files
    BY <1>1
  <2>3. PICK a, f, g, kf, kg \in Nat :
           /\ a = Cardinality(V)
           /\ f = Cardinality(V \intersect F) /\ g = Cardinality(V \intersect G)
           /\ kf = Cardinality(Keys(V \ F)) /\ kg = Cardinality(Keys(V \ G))
           /\ g <= f /\ (i \in V => g + 1 = f) /\ kg <= kf + 1
           /\ (Key[dir.units[i].of] \in Keys(V \ F) => kg = kf)
    <3>1. OneLess(V, F, G, i)
      BY <1>1, <1>v, <2>2, OneRead
    <3> QED
      BY <3>1 DEF OneLess
  <2>4. PICK l \in Nat, n \in Nat : l = Len(t) /\ n = d.inv /\ Len(u) = l + 1
    <3>1. d.inv \in Nat
      BY <1>3
    <3>2. Len(t) \in Nat
      BY <1>4
    <3>3. Len(u) = Len(t) + 1
      BY <1>7
    <3> QED
      BY <3>1, <3>2, <3>3
  <2>5. l + (n + 1) + g <= a /\ (kf <= l + n => kg <= l + (n + 1))
    <3>1. l + n + f <= a /\ g + 1 = f
      BY <1>5, <2>1, <2>3, <2>4
    <3> QED
      BY <2>3, <3>1, OneMore
  <2>6. Len(u) + n = l + (n + 1)
    <3>1. l + 1 + n = l + (n + 1)
      OBVIOUS
    <3>2. Len(u) = l + 1
      BY <2>4
    <3> QED
      BY <3>1, <3>2
  <2>7. /\ Len(u) + d.inv + Cardinality(V \intersect G) <= Cardinality(V)
        /\ "MalformedObservation" \in r.gaps \/ Cardinality(Keys(V \ G)) <= Len(u) + d.inv
    BY <2>1, <2>3, <2>4, <2>5, <2>6
  <2> QED
    BY <1>v, <1>2, <1>3, <1>6, <2>1, <2>2, <2>7 DEF Counted
<1> QED
  BY <1>8, <1>9, <1>10, <1>11, <1>12 DEF Good, GoodFor

LEMMA JoiningUnit ==
  ASSUME IInv, WrapperInv, SessionInv, NEW i \in Slots, JoinUnit(i)
  PROVE  SessionInv'
<1>1. session.pc = "units" /\ i \in session.files
  BY DEF JoinUnit
<1>2. PICK S : session' = S
  OBVIOUS
<1>3. Good(S)
  <2> DEFINE r == session.result
             R == dir.units[i]
  <2>1. Shaped(session) /\ r \in Results /\ session.todo = <<>> /\ session.dropped \in Drops
    BY <1>1, Reading
  <2>2. CASE S = [session EXCEPT !.files = @ \ {i}, !.result = Told(r, "MalformedObservation")]
    <3>1. Shaped(S)
      BY <2>1, <2>2 DEF Shaped, Same, Told, Results, AllGaps, Told4
    <3>2. /\ Same(S) /\ S.pc = "units" /\ S.files = session.files \ {i} /\ S.todo = <<>>
          /\ S.dropped = session.dropped /\ S.result = Told(r, "MalformedObservation")
      BY <1>1, <2>1, <2>2 DEF Shaped, Same
    <3>3. /\ S.result.inv = r.inv /\ S.result.gen = r.gen /\ S.result.str = r.str
          /\ S.result.bare = r.bare /\ S.result.gaps = r.gaps \union {"MalformedObservation"}
      BY <2>1, <3>2 DEF Told, Results
    <3> QED
      BY <1>1, <3>1, <3>2, <3>3, NotKept DEF Told4
  <2>3. CASE R # TORN /\ S = [session EXCEPT !.files = @ \ {i}, !.dropped.inv = @ + 1]
    <3>1. Shaped(S)
      <4>1. [session.dropped EXCEPT !.inv = @ + 1] \in Drops
        BY <2>1 DEF Drops
      <4> QED
        BY <2>1, <2>3, <4>1 DEF Shaped, Same
    <3>2. /\ Same(S) /\ S.pc = "units" /\ S.files = session.files \ {i} /\ S.todo = <<>>
          /\ S.dropped.inv = session.dropped.inv + 1 /\ S.dropped.gen = session.dropped.gen
          /\ S.result = r
      BY <1>1, <2>1, <2>3 DEF Shaped, Same, Drops
    <3> QED
      BY <1>1, <2>3, <3>1, <3>2, NotKept
  <2>4. CASE /\ R # TORN /\ \E k \in DOMAIN r.inv : Key[r.inv[k].of] = Key[R.of]
             /\ S = [session EXCEPT !.files = @ \ {i}, !.result = Told(r, "ConflictingUnit")]
    <3>1. Shaped(S)
      BY <2>1, <2>4 DEF Shaped, Same, Told, Results, AllGaps, Told4
    <3>2. /\ Same(S) /\ S.pc = "units" /\ S.files = session.files \ {i} /\ S.todo = <<>>
          /\ S.dropped = session.dropped /\ S.result = Told(r, "ConflictingUnit")
      BY <1>1, <2>1, <2>4 DEF Shaped, Same
    <3>3. /\ S.result.inv = r.inv /\ S.result.gen = r.gen /\ S.result.str = r.str
          /\ S.result.bare = r.bare /\ S.result.gaps = r.gaps \union {"ConflictingUnit"}
      BY <2>1, <3>2 DEF Told, Results
    <3>4. Key[R.of] \in Keys(Valid(session) \ session.files)
      BY <1>1, <2>4, Reading DEF FromFiles, Keys
    <3> QED
      BY <1>1, <3>1, <3>2, <3>3, <3>4, NotKept DEF Told4
  <2>5. CASE /\ R # TORN
             /\ S = [session EXCEPT !.files = @ \ {i}, !.result.inv = Append(@, R),
                                    !.bytes = @ + InvSize(R)]
    <3>1. R \in Units /\ r.inv \in Seq(Units)
      BY <1>1, <2>1, <2>5, Reading DEF Results
    <3>5. Append(r.inv, R) \in Seq(Units) /\ Grown(Append(r.inv, R), r.inv, R)
      BY <3>1, Appended
    <3>2. Shaped(S)
      BY <2>1, <2>5, <3>5 DEF Shaped, Same, Results
    <3>3. /\ Same(S) /\ S.pc = "units" /\ S.files = session.files \ {i} /\ S.todo = <<>>
          /\ S.dropped = session.dropped /\ S.result = [r EXCEPT !.inv = Append(@, R)]
      BY <1>1, <2>1, <2>5 DEF Shaped, Same
    <3>4. /\ Grown(S.result.inv, r.inv, R) /\ S.result.gen = r.gen /\ S.result.str = r.str
          /\ S.result.bare = r.bare /\ S.result.gaps = r.gaps
          /\ S.result.truncations = r.truncations
      BY <2>1, <3>3, <3>5 DEF Results
    <3> QED
      BY <1>1, <2>5, <3>2, <3>3, <3>4, Kept
  <2> QED
    BY <1>2, <2>2, <2>3, <2>4, <2>5 DEF JoinUnit
<1> QED
  BY <1>2, <1>3, SessionSet DEF JoinUnit
(* The generators of the build.                                            *)
LEMMA MadeTyped ==
  ASSUME WrapperInv
  PROVE  Made \in Seq(Records) /\ Len(Made) \in Nat /\ DOMAIN Made = 1..Len(Made)
<1>1. mode \in SUBSET Options
  BY CaptureAssumption DEF WrapperInv, CaptureAssumption
<1>2. Made \in Seq(Records)
  BY <1>1, CaptureAssumption DEF Made, CaptureAssumption, Records
<1> QED
  BY <1>2

(* One generator more: refused, if it is not valid.                        *)
LEMMA RefusedCounted ==
  ASSUME NEW n \in Nat
  PROVE  /\ Refused(n) \in Nat /\ Refused(n + 1) \in Nat /\ Refused(n) <= Refused(n + 1)
         /\ ~Made[n + 1].valid => Refused(n + 1) = Refused(n) + 1
<1> DEFINE I(m) == {k \in 1..m : ~Made[k].valid}
<1>1. ASSUME NEW m \in Nat PROVE IsFiniteSet(I(m)) /\ Cardinality(I(m)) \in Nat
  <2>1. IsFiniteSet(1..m)
    BY FS_Interval
  <2>2. IsFiniteSet(I(m))
    BY <2>1, FS_Subset
  <2> QED
    BY <2>2, FS_CardinalityType
<1>2. PICK J, K : J = I(n) /\ K = I(n + 1)
  OBVIOUS
<1>3. IsFiniteSet(J) /\ IsFiniteSet(K) /\ Cardinality(J) \in Nat /\ Cardinality(K) \in Nat
  BY <1>1, <1>2
<1>4. Refused(n) = Cardinality(J) /\ Refused(n + 1) = Cardinality(K)
  BY <1>2 DEF Refused
<1>5. J \subseteq K /\ n + 1 \notin J
  BY <1>2
<1>6. Cardinality(J) <= Cardinality(K)
  BY <1>3, <1>5, FS_Subset
<1>7. ASSUME ~Made[n + 1].valid PROVE Cardinality(K) = Cardinality(J) + 1
  <2>1. K = J \union {n + 1}
    BY <1>2, <1>7
  <2> QED
    BY <1>3, <1>5, <2>1, FS_AddElement
<1> QED
  BY <1>3, <1>4, <1>6, <1>7

(* The next generator is kept, counted, or refused and told.               *)
LEMMA OneSettled ==
  ASSUME NEW r \in Results, NEW d \in Drops, NEW s \in Results, NEW e \in Drops, NEW n \in Nat,
         Settled(r, d, n), r.gaps \subseteq s.gaps,
         \/ Len(s.gen) + e.gen = Len(r.gen) + d.gen + 1
         \/ /\ Len(s.gen) + e.gen = Len(r.gen) + d.gen
            /\ ~Made[n + 1].valid /\ "MalformedObservation" \in s.gaps
  PROVE  Settled(s, e, n + 1)
<1>1. PICK a, b, u, v \in Nat :
        /\ a = Len(r.gen) + d.gen /\ b = Len(s.gen) + e.gen
        /\ u = Refused(n) /\ v = Refused(n + 1)
  <2>1. /\ Len(r.gen) \in Nat /\ d.gen \in Nat /\ Len(s.gen) \in Nat /\ e.gen \in Nat
    BY DEF Results, Drops
  <2>2. Len(r.gen) + d.gen \in Nat /\ Len(s.gen) + e.gen \in Nat
    BY <2>1
  <2> QED
    BY <2>2, RefusedCounted
<1>2. a <= n /\ n <= a + u /\ (a # n => "MalformedObservation" \in r.gaps)
  BY <1>1 DEF Settled
<1>3. u <= v /\ (~Made[n + 1].valid => v = u + 1)
  BY <1>1, RefusedCounted
<1>4. b <= n + 1 /\ n + 1 <= b + v /\ (b # n + 1 => "MalformedObservation" \in s.gaps)
  <2>1. CASE b = a + 1
    BY <1>2, <1>3, <2>1
  <2>2. CASE b = a /\ ~Made[n + 1].valid /\ "MalformedObservation" \in s.gaps
    BY <1>2, <1>3, <2>2
  <2> QED
    BY <1>1, <2>1, <2>2
<1> QED
  BY <1>1, <1>4 DEF Settled

(* What is settled stays so while gaps are added and nothing is lost.      *)
LEMMA StaysSettled ==
  ASSUME NEW r, NEW d, NEW s, NEW e, NEW n, Settled(r, d, n), r.gaps \subseteq s.gaps,
         Len(s.gen) + e.gen = Len(r.gen) + d.gen
  PROVE  Settled(s, e, n)
BY DEF Settled

LEMMA UnitsDone ==
  ASSUME IInv, WrapperInv, SessionInv, UnitsJoined
  PROVE  SessionInv'
<1>1. PICK S : session' = S
  OBVIOUS
<1>2. PICK r, d : r = session.result /\ d = session.dropped /\ r \in Results /\ d \in Drops
  BY DEF SessionInv, Good, GoodFor, SessionTyped, Shaped
<1>3. Shaped(session) /\ session.pc = "units" /\ session.files = {} /\ ~r.bare
  BY <1>2 DEF UnitsJoined, SessionInv, Good, GoodFor, SessionTyped
<1>4. Made \in Seq(Records) /\ Len(Made) \in Nat /\ DOMAIN Made = 1..Len(Made)
  BY MadeTyped
<1>5. /\ Shaped(S) /\ Same(S) /\ S.pc = "generators" /\ S.files = {} /\ S.todo = Made
      /\ S.result = r /\ S.dropped = d
  <2>1. S = [session EXCEPT !.pc = "generators", !.todo = Made]
    BY <1>1 DEF UnitsJoined, Made
  <2> QED
    BY <1>2, <1>3, <1>4, <2>1 DEF Shaped, Same, Places
<1>6. SessionTyped(S) /\ Started(S) /\ FromFiles(S)
  BY <1>2, <1>3, <1>4, <1>5, SameListed DEF SessionInv, Good, GoodFor, SessionTyped, Started, FromFiles
<1>7. Covered(S, faults)
  BY <1>2, <1>3, <1>5, SameListed DEF SessionInv, Good, GoodFor, Covered, KnownLoss
<1>8. Referred(S) /\ Witnessed(S)
  BY <1>2, <1>3, <1>5 DEF SessionInv, Good, GoodFor, Referred, Witnessed
<1>9. Counted(S)
  <2>1. Counted(session)
    BY DEF SessionInv, Good, GoodFor
  <2>2. Len(r.gen) + d.gen = 0
    BY <1>2, <1>3, <2>1 DEF Counted
  <2>3. Following(Made, 0)
    BY <1>4 DEF Following
  <2>4. Refused(0) \in Nat
    BY RefusedCounted
  <2>5. Settled(r, d, 0)
    BY <2>2, <2>4 DEF Settled
  <2> QED
    BY <1>2, <1>3, <1>5, <2>1, <2>3, <2>5, SameListed DEF Counted
<1> QED
  BY <1>1, <1>6, <1>7, <1>8, <1>9, SessionSet DEF Good, GoodFor, UnitsJoined

LEMMA OneOver ==
  ASSUME NEW a \in Nat, NEW b \in Nat, NEW c \in Nat, NEW k \in Nat, a + b + c = k
  PROVE  a + (b + 1) + (c - 1) = k /\ (a + 1) + b + (c - 1) = k
OBVIOUS

(* A generator is kept, counted, or refused.                               *)
LEMMA JoiningGenerator ==
  ASSUME IInv, WrapperInv, SessionInv, JoinGenerator
  PROVE  SessionInv'
<1>1. PICK S : session' = S
  OBVIOUS
<1>2. PICK r, d : r = session.result /\ d = session.dropped /\ r \in Results /\ d \in Drops
  BY DEF SessionInv, Good, GoodFor, SessionTyped, Shaped
<1>3. PICK t : t = session.todo /\ t \in Seq(Records) /\ t # <<>>
  BY DEF JoinGenerator, SessionInv, Good, GoodFor, SessionTyped
<1>4. Shaped(session) /\ session.pc = "generators" /\ session.files = {} /\ ~r.bare
  BY <1>2 DEF JoinGenerator, SessionInv, Good, GoodFor, SessionTyped
<1>5. /\ Head(t) \in Records /\ Tail(t) \in Seq(Records) /\ Len(Tail(t)) = Len(t) - 1 /\ Len(t) \in Nat
      /\ 1 \in DOMAIN t /\ Head(t) = t[1]
      /\ \A k \in DOMAIN Tail(t) : k + 1 \in DOMAIN t /\ Tail(t)[k] = t[k + 1]
  BY <1>3, Rest
<1>6. r.gen \in Seq(Records) /\ Len(r.gen) \in Nat /\ d.gen \in Nat
  BY <1>2 DEF Results, Drops
<1>7. PICK s, e :
        /\ S.result = s /\ S.dropped = e /\ s \in Results /\ e \in Drops
        /\ s.inv = r.inv /\ s.str = r.str /\ s.bare = r.bare /\ r.gaps \subseteq s.gaps
        /\ s.truncations = r.truncations /\ e.inv = d.inv
        /\ Shaped(S) /\ Same(S) /\ S.pc = "generators" /\ S.files = {} /\ S.todo = Tail(t)
        /\ \/ s.gen = r.gen /\ e.gen = d.gen + 1
           \/ Len(s.gen) = Len(r.gen) + 1 /\ e.gen = d.gen
           \/ s.gen = r.gen /\ e.gen = d.gen /\ ~Head(t).valid /\ "MalformedObservation" \in s.gaps
  <2>1. CASE S = [session EXCEPT !.todo = Tail(@), !.dropped.gen = @ + 1]
    <3>1. [d EXCEPT !.gen = @ + 1] \in Drops /\ [d EXCEPT !.gen = @ + 1].inv = d.inv
          /\ [d EXCEPT !.gen = @ + 1].gen = d.gen + 1
      BY <1>2, <1>6 DEF Drops
    <3>2. /\ Shaped(S) /\ Same(S) /\ S.pc = "generators" /\ S.files = {} /\ S.todo = Tail(t)
          /\ S.result = r /\ S.dropped = [d EXCEPT !.gen = @ + 1]
      BY <1>2, <1>3, <1>4, <1>5, <2>1, <3>1 DEF Shaped, Same
    <3> QED
      BY <1>2, <3>1, <3>2
  <2>2. CASE S = [session EXCEPT !.todo = Tail(@), !.result.gen = Append(@, Head(t)),
                                 !.bytes = @ + Head(t).size]
    <3>1. PICK g : g = Append(r.gen, Head(t)) /\ g \in Seq(Records) /\ Len(g) = Len(r.gen) + 1
      <4>1. Append(r.gen, Head(t)) \in Seq(Records) /\ Len(Append(r.gen, Head(t))) = Len(r.gen) + 1
        BY <1>5, <1>6
      <4> QED
        BY <4>1
    <3>2. PICK s : s = [r EXCEPT !.gen = g]
      OBVIOUS
    <3>3. /\ s \in Results /\ s.inv = r.inv /\ s.str = r.str /\ s.bare = r.bare
          /\ s.gaps = r.gaps /\ s.truncations = r.truncations /\ s.gen = g
      BY <1>2, <3>1, <3>2 DEF Results
    <3>4. S = [session EXCEPT !.todo = Tail(t), !.result = s, !.bytes = @ + Head(t).size]
      BY <1>2, <1>3, <1>4, <2>2, <3>1, <3>2
    <3>5. /\ Shaped(S) /\ Same(S) /\ S.pc = "generators" /\ S.files = {} /\ S.todo = Tail(t)
          /\ S.result = s /\ S.dropped = d
      BY <1>2, <1>4, <1>5, <3>3, <3>4 DEF Shaped, Same
    <3> QED
      BY <1>2, <3>1, <3>3, <3>5
  <2>3. CASE /\ ~Head(t).valid
             /\ S = [session EXCEPT !.todo = Tail(@), !.result = Told(@, "MalformedObservation")]
    <3>1. PICK s : s = Told(r, "MalformedObservation")
      OBVIOUS
    <3>2. /\ s \in Results /\ s.inv = r.inv /\ s.gen = r.gen /\ s.str = r.str /\ s.bare = r.bare
          /\ r.gaps \subseteq s.gaps /\ s.truncations = r.truncations
          /\ "MalformedObservation" \in s.gaps
      BY <1>2, <3>1 DEF Results, Told, AllGaps, Told4
    <3>3. S = [session EXCEPT !.todo = Tail(t), !.result = s]
      BY <1>2, <1>3, <1>4, <2>3, <3>1 DEF Shaped
    <3>4. /\ Shaped(S) /\ Same(S) /\ S.pc = "generators" /\ S.files = {} /\ S.todo = Tail(t)
          /\ S.result = s /\ S.dropped = d
      BY <1>2, <1>4, <1>5, <3>2, <3>3 DEF Shaped, Same
    <3> QED
      BY <1>2, <2>3, <3>2, <3>4
  <2> QED
    BY <1>1, <1>3, <2>1, <2>2, <2>3 DEF JoinGenerator
<1>8. SessionTyped(S) /\ Started(S) /\ FromFiles(S)
  BY <1>2, <1>4, <1>5, <1>7, SameListed DEF SessionInv, Good, GoodFor, SessionTyped, Started, FromFiles
<1>9. Covered(S, faults)
  BY <1>2, <1>4, <1>7, SameListed DEF SessionInv, Good, GoodFor, Covered, KnownLoss
<1>10. Referred(S) /\ Witnessed(S)
  BY <1>2, <1>4, <1>7 DEF SessionInv, Good, GoodFor, Referred, Witnessed
<1>11. Counted(S)
  <2>1. Counted(session)
    BY DEF SessionInv, Good, GoodFor
  <2>2. PICK n \in Nat : Following(t, n) /\ Settled(r, d, n)
    BY <1>2, <1>3, <1>4, <2>1 DEF Counted
  <2>3. Following(Tail(t), n + 1)
    <3>1. Len(Made) = n + 1 + Len(Tail(t))
      BY <1>5, <2>2 DEF Following
    <3>2. ASSUME NEW k \in DOMAIN Tail(t)
          PROVE  k + (n + 1) \in DOMAIN Made /\ Tail(t)[k] = Made[k + (n + 1)]
      <4>1. k \in Nat
        BY <1>5
      <4>2. (k + 1) + n \in DOMAIN Made /\ Tail(t)[k] = Made[(k + 1) + n]
        BY <1>5, <2>2 DEF Following
      <4>3. (k + 1) + n = k + (n + 1)
        BY <4>1
      <4> QED
        BY <4>2, <4>3
    <3> QED
      BY <3>1, <3>2 DEF Following
  <2>4. Head(t) = Made[n + 1]
    <3>1. t[1] = Made[1 + n] /\ 1 + n = n + 1
      BY <1>5, <2>2 DEF Following
    <3> QED
      BY <1>5, <3>1
  <2>5. Settled(s, e, n + 1)
    <3>1. CASE s.gen = r.gen /\ e.gen = d.gen + 1
      <4>1. Len(s.gen) + e.gen = Len(r.gen) + d.gen + 1
        BY <1>6, <3>1
      <4> QED
        BY <1>2, <1>7, <2>2, <4>1, OneSettled
    <3>2. CASE Len(s.gen) = Len(r.gen) + 1 /\ e.gen = d.gen
      <4>1. Len(s.gen) + e.gen = Len(r.gen) + d.gen + 1
        BY <1>6, <3>2
      <4> QED
        BY <1>2, <1>7, <2>2, <4>1, OneSettled
    <3>3. CASE s.gen = r.gen /\ e.gen = d.gen /\ ~Head(t).valid /\ "MalformedObservation" \in s.gaps
      <4>1. Len(s.gen) + e.gen = Len(r.gen) + d.gen /\ ~Made[n + 1].valid
        BY <2>4, <3>3
      <4> QED
        BY <1>2, <1>7, <2>2, <3>3, <4>1, OneSettled
    <3> QED
      BY <1>7, <3>1, <3>2, <3>3
  <2>6. n + 1 \in Nat
    OBVIOUS
  <2> QED
    BY <1>2, <1>4, <1>7, <2>1, <2>3, <2>5, <2>6, SameListed DEF Counted
<1> QED
  BY <1>1, <1>8, <1>9, <1>10, <1>11, SessionSet DEF Good, GoodFor, JoinGenerator
(* The invocations are sorted, and are the streams to be read.             *)
LEMMA GeneratorsDone ==
  ASSUME IInv, WrapperInv, SessionInv, GeneratorsJoined
  PROVE  SessionInv'
<1>1. PICK S : session' = S
  OBVIOUS
<1>2. PICK r, d : r = session.result /\ d = session.dropped /\ r \in Results /\ d \in Drops
  BY DEF SessionInv, Good, GoodFor, SessionTyped, Shaped
<1>3. PICK t : t = r.inv /\ t \in Seq(Units) /\ Len(t) \in Nat
  BY <1>2 DEF Results
<1>4. /\ Shaped(session) /\ session.pc = "generators" /\ session.files = {} /\ session.todo = <<>>
      /\ ~r.bare /\ r.str = <<>>
  BY <1>2 DEF GeneratorsJoined, SessionInv, Good, GoodFor, SessionTyped, Referred
<1>5. PICK m : /\ m = (IF r.truncations # {} THEN Told(r, "BudgetExceeded") ELSE r)
               /\ m \in Results /\ m.inv = t /\ m.gen = r.gen /\ m.str = <<>> /\ ~m.bare
               /\ r.gaps \subseteq m.gaps /\ (r.truncations # {} => "BudgetExceeded" \in m.gaps)
  <2>1. Told(r, "BudgetExceeded") \in Results
    BY <1>2 DEF Results, Told, AllGaps, Told4
  <2>2. /\ Told(r, "BudgetExceeded").inv = r.inv /\ Told(r, "BudgetExceeded").gen = r.gen
        /\ Told(r, "BudgetExceeded").str = r.str /\ Told(r, "BudgetExceeded").bare = r.bare
        /\ Told(r, "BudgetExceeded").gaps = r.gaps \union {"BudgetExceeded"}
    BY <1>2 DEF Results, Told
  <2> QED
    BY <1>2, <1>3, <1>4, <2>1, <2>2
<1>6. PICK u \in ByKey(t) :
        S = [session EXCEPT
              !.pc = "streams", !.result = [m EXCEPT !.inv = u], !.bytes = AttachmentSize(m),
              !.todo = IF "stream" \in mode THEN u ELSE <<>>]
  BY <1>1, <1>2, <1>3, <1>5 DEF GeneratorsJoined
<1>7. /\ u \in Seq(Units) /\ Len(u) = Len(t)
      /\ \A k \in DOMAIN u : \E j \in DOMAIN t : u[k] = t[j]
      /\ \A k \in DOMAIN t : \E j \in DOMAIN u : t[k] = u[j]
  BY <1>3, <1>6, Reordered
<1>8. PICK s : s = [m EXCEPT !.inv = u]
  OBVIOUS
<1>9. /\ s \in Results /\ s.inv = u /\ s.gen = r.gen /\ s.str = <<>> /\ ~s.bare
      /\ r.gaps \subseteq s.gaps /\ (r.truncations # {} => "BudgetExceeded" \in s.gaps)
  BY <1>5, <1>7, <1>8 DEF Results
<1>10. /\ Shaped(S) /\ Same(S) /\ S.pc = "streams" /\ S.files = {} /\ S.result = s /\ S.dropped = d
       /\ S.todo = (IF "stream" \in mode THEN u ELSE <<>>)
  <2>1. PICK w : w = (IF "stream" \in mode THEN u ELSE <<>>) /\ w \in Seq(Units)
    <3>1. u \in Seq(Units) /\ <<>> \in Seq(Units)
      BY <1>7
    <3> QED
      BY <3>1
  <2>2. S = [session EXCEPT !.pc = "streams", !.result = s, !.bytes = AttachmentSize(m), !.todo = w]
    BY <1>6, <1>8, <2>1
  <2> QED
    BY <1>2, <1>4, <1>9, <2>1, <2>2 DEF Shaped, Same, Places
<1>v. PICK V : V = Valid(session) /\ V = Valid(S)
  BY <1>10, SameListed
<1>11. SessionTyped(S) /\ Started(S)
  BY <1>4, <1>7, <1>9, <1>10 DEF SessionInv, Good, GoodFor, SessionTyped, Started
<1>12. FromFiles(S)
  <2>1. \A k \in DOMAIN t : \E i \in V \ {} : t[k] = dir.units[i]
    BY <1>v, <1>2, <1>3, <1>4 DEF SessionInv, Good, GoodFor, FromFiles
  <2>2. ASSUME NEW k \in DOMAIN u PROVE \E i \in V : u[k] = dir.units[i]
    <3>1. PICK j \in DOMAIN t : u[k] = t[j]
      BY <1>7
    <3> QED
      BY <2>1, <3>1
  <2>3. V \ S.files = V
    BY <1>10
  <2> QED
    BY <1>v, <1>9, <1>10, <2>2, <2>3 DEF FromFiles
<1>13. Covered(S, faults)
  <2> SUFFICES ASSUME NEW c \in Compilers, Owed(S, c, faults), ~KnownLoss(S)
               PROVE \E k \in DOMAIN u : u[k].of = c
    BY <1>9, <1>10 DEF Covered
  <2>1. ~KnownLoss(session)
    BY <1>2, <1>4, <1>9, <1>10 DEF KnownLoss, Told4
  <2>2. \E k \in DOMAIN t : t[k].of = c
    BY <1>2, <1>3, <1>4, <1>10, <2>1, SameListed DEF SessionInv, Good, GoodFor, Covered
  <2> QED
    BY <1>7, <2>2
<1>14. Referred(S) /\ Witnessed(S)
  BY <1>9, <1>10 DEF Referred, Witnessed
<1>15. Counted(S)
  <2>1. Counted(session)
    BY DEF SessionInv, Good, GoodFor
  <2>2. /\ Len(t) + d.inv + Cardinality(V \intersect {}) <= Cardinality(V)
        /\ "MalformedObservation" \in r.gaps \/ Cardinality(Keys(V \ {})) <= Len(t) + d.inv
    BY <1>v, <1>2, <1>3, <1>4, <2>1 DEF Counted
  <2>3. Settled(s, d, Len(Made))
    <3>1. PICK n \in Nat : Following(<<>>, n) /\ Settled(r, d, n)
      BY <1>2, <1>4, <2>1 DEF Counted
    <3>2. n = Len(Made)
      BY <3>1 DEF Following
    <3> QED
      BY <1>9, <3>1, <3>2, StaysSettled
  <2>4. "stream" \in mode => Len(s.str) + d.str + Len(S.todo) >= Len(u)
    <3>1. d.str \in Nat /\ Len(u) \in Nat /\ Len(s.str) = 0
      BY <1>2, <1>3, <1>7, <1>9 DEF Drops
    <3> QED
      BY <1>10, <3>1
  <2> QED
    BY <1>v, <1>7, <1>9, <1>10, <2>2, <2>3, <2>4 DEF Counted
<1> QED
  BY <1>1, <1>11, <1>12, <1>13, <1>14, <1>15, SessionSet DEF Good, GoodFor, GeneratorsJoined

LEMMA StreamsDone ==
  ASSUME IInv, WrapperInv, SessionInv, StreamsJoined
  PROVE  SessionInv'
<1>1. PICK S : session' = S
  OBVIOUS
<1>2. PICK r, d : r = session.result /\ d = session.dropped /\ r \in Results /\ d \in Drops
  BY DEF SessionInv, Good, GoodFor, SessionTyped, Shaped
<1>3. Shaped(session) /\ session.pc = "streams" /\ session.files = {} /\ session.todo = <<>> /\ ~r.bare
  BY <1>2 DEF StreamsJoined, SessionInv, Good, GoodFor, SessionTyped
<1>4. /\ Shaped(S) /\ Same(S) /\ S.pc = "assemble" /\ S.files = {} /\ S.todo = <<>>
      /\ S.result = r /\ S.dropped = d
  <2>1. S = [session EXCEPT !.pc = "assemble"]
    BY <1>1 DEF StreamsJoined
  <2> QED
    BY <1>2, <1>3, <2>1 DEF Shaped, Same, Places
<1>5. SessionTyped(S) /\ Started(S) /\ FromFiles(S)
  BY <1>2, <1>3, <1>4, SameListed DEF SessionInv, Good, GoodFor, SessionTyped, Started, FromFiles
<1>6. Covered(S, faults)
  BY <1>2, <1>3, <1>4, SameListed DEF SessionInv, Good, GoodFor, Covered, KnownLoss
<1>7. Referred(S) /\ Witnessed(S)
  BY <1>2, <1>3, <1>4 DEF SessionInv, Good, GoodFor, Referred, Witnessed
<1>8. Counted(S)
  <2>1. Counted(session)
    BY DEF SessionInv, Good, GoodFor
  <2>2. "stream" \in mode => Len(r.str) + d.str + Len(<<>>) >= Len(r.inv)
    BY <1>2, <1>3, <2>1 DEF Counted
  <2>3. Len(r.str) \in Nat /\ d.str \in Nat /\ Len(r.inv) \in Nat /\ Len(<<>>) = 0
    BY <1>2 DEF Results, Drops
  <2>4. "stream" \in mode => Len(r.str) + d.str >= Len(r.inv)
    BY <2>2, <2>3
  <2> QED
    BY <1>2, <1>3, <1>4, <2>1, <2>4, SameListed DEF Counted
<1> QED
  BY <1>1, <1>5, <1>6, <1>7, <1>8, SessionSet DEF Good, GoodFor, StreamsJoined
(* A stream is kept or counted, and it is of an invocation that is there.  *)
LEMMA JoiningStream ==
  ASSUME IInv, WrapperInv, SessionInv, JoinStream
  PROVE  SessionInv'
<1>1. PICK S : session' = S
  OBVIOUS
<1>2. PICK r, d : r = session.result /\ d = session.dropped /\ r \in Results /\ d \in Drops
  BY DEF SessionInv, Good, GoodFor, SessionTyped, Shaped
<1>3. PICK t : t = session.todo /\ t \in Seq(Units) /\ t # <<>>
  BY DEF JoinStream, SessionInv, Good, GoodFor, SessionTyped
<1>4. Shaped(session) /\ session.pc = "streams" /\ session.files = {} /\ ~r.bare
  BY <1>2 DEF JoinStream, SessionInv, Good, GoodFor, SessionTyped
<1>5. /\ Head(t) \in Units /\ Tail(t) \in Seq(Units) /\ Len(Tail(t)) = Len(t) - 1 /\ Len(t) \in Nat
      /\ 1 \in DOMAIN t /\ Head(t) = t[1]
      /\ \A k \in DOMAIN Tail(t) : k + 1 \in DOMAIN t /\ Tail(t)[k] = t[k + 1]
  BY <1>3, Rest
<1>6. PICK c \in Compilers : c = Head(t).of
  BY <1>5 DEF Units
<1>7. r.str \in Seq(Compilers) /\ Len(r.str) \in Nat /\ d.str \in Nat
  BY <1>2 DEF Results, Drops
<1>8. PICK s, e :
        /\ S.result = s /\ S.dropped = e /\ s \in Results /\ e \in Drops
        /\ s.inv = r.inv /\ s.gen = r.gen /\ s.bare = r.bare /\ r.gaps \subseteq s.gaps
        /\ s.truncations = r.truncations /\ e.inv = d.inv /\ e.gen = d.gen
        /\ Shaped(S) /\ Same(S) /\ S.pc = "streams" /\ S.files = {} /\ S.todo = Tail(t)
        /\ \/ s.str = r.str /\ e.str = d.str + 1
           \/ Grown(s.str, r.str, c) /\ e.str = d.str
  <2>1. PICK e : e = [d EXCEPT !.str = @ + 1]
    OBVIOUS
  <2>2. e \in Drops /\ e.inv = d.inv /\ e.gen = d.gen /\ e.str = d.str + 1
    BY <1>2, <1>7, <2>1 DEF Drops
  <2>3. CASE S = [session EXCEPT !.todo = Tail(t), !.dropped = e]
    <3>1. /\ Shaped(S) /\ Same(S) /\ S.pc = "streams" /\ S.files = {} /\ S.todo = Tail(t)
          /\ S.result = r /\ S.dropped = e
      BY <1>2, <1>4, <1>5, <2>2, <2>3 DEF Shaped, Same
    <3> QED
      BY <1>2, <2>2, <3>1
  <2>4. CASE S = [session EXCEPT !.todo = Tail(t), !.dropped = e,
                                 !.result = Told(r, "OccurrenceCallbackRejected")]
    <3>1. PICK s : s = Told(r, "OccurrenceCallbackRejected")
      OBVIOUS
    <3>2. /\ s \in Results /\ s.inv = r.inv /\ s.gen = r.gen /\ s.str = r.str
          /\ s.bare = r.bare /\ r.gaps \subseteq s.gaps /\ s.truncations = r.truncations
      BY <1>2, <3>1 DEF Results, Told, AllGaps
    <3>3. /\ Shaped(S) /\ Same(S) /\ S.pc = "streams" /\ S.files = {} /\ S.todo = Tail(t)
          /\ S.result = s /\ S.dropped = e
      BY <1>2, <1>4, <1>5, <2>2, <2>4, <3>1, <3>2 DEF Shaped, Same
    <3> QED
      BY <1>2, <2>2, <3>2, <3>3
  <2>5. CASE S = [session EXCEPT !.todo = Tail(t), !.result.str = Append(@, c), !.bytes = @ + StreamOf(c)]
    <3>1. Append(r.str, c) \in Seq(Compilers) /\ Grown(Append(r.str, c), r.str, c)
      BY <1>6, <1>7, Appended
    <3>2. PICK g : g = Append(r.str, c) /\ g \in Seq(Compilers) /\ Grown(g, r.str, c)
      BY <3>1
    <3>3. PICK s : s = [r EXCEPT !.str = g]
      OBVIOUS
    <3>4. /\ s \in Results /\ s.inv = r.inv /\ s.gen = r.gen /\ s.str = g
          /\ s.bare = r.bare /\ s.gaps = r.gaps /\ s.truncations = r.truncations
      BY <1>2, <3>2, <3>3 DEF Results
    <3>5. S = [session EXCEPT !.todo = Tail(t), !.result = s, !.bytes = @ + StreamOf(c)]
      BY <1>2, <1>4, <2>5, <3>2, <3>3
    <3>6. /\ Shaped(S) /\ Same(S) /\ S.pc = "streams" /\ S.files = {} /\ S.todo = Tail(t)
          /\ S.result = s /\ S.dropped = d
      BY <1>2, <1>4, <1>5, <3>4, <3>5 DEF Shaped, Same
    <3> QED
      BY <1>2, <3>2, <3>4, <3>6
  <2>6. \/ S = [session EXCEPT !.todo = Tail(t), !.dropped = e]
        \/ S = [session EXCEPT !.todo = Tail(t), !.dropped = e,
                               !.result = Told(r, "OccurrenceCallbackRejected")]
        \/ S = [session EXCEPT !.todo = Tail(t), !.result.str = Append(@, c), !.bytes = @ + StreamOf(c)]
    BY <1>1, <1>2, <1>3, <1>6, <2>1 DEF JoinStream
  <2> QED
    BY <2>3, <2>4, <2>5, <2>6
<1>9. SessionTyped(S) /\ Started(S) /\ FromFiles(S)
  BY <1>2, <1>4, <1>5, <1>8, SameListed DEF SessionInv, Good, GoodFor, SessionTyped, Started, FromFiles
<1>10. Covered(S, faults)
  <2>1. KnownLoss(session) => KnownLoss(S)
    BY <1>2, <1>4, <1>8 DEF KnownLoss
  <2> QED
    BY <1>2, <1>4, <1>8, <2>1, SameListed DEF SessionInv, Good, GoodFor, Covered
<1>11. Referred(S) /\ Witnessed(S)
  <2>1. /\ \A k \in DOMAIN r.str : \E i \in DOMAIN r.inv : r.inv[i].of = r.str[k]
        /\ \A k \in DOMAIN t : \E i \in DOMAIN r.inv : r.inv[i].of = t[k].of
    BY <1>2, <1>3, <1>4 DEF SessionInv, Good, GoodFor, Referred
  <2>2. ASSUME NEW k \in DOMAIN s.str PROVE \E i \in DOMAIN r.inv : r.inv[i].of = s.str[k]
    BY <1>5, <1>6, <1>8, <2>1, <2>2 DEF Grown
  <2>3. ASSUME NEW k \in DOMAIN Tail(t) PROVE \E i \in DOMAIN r.inv : r.inv[i].of = Tail(t)[k].of
    BY <1>5, <2>1, <2>3
  <2> QED
    BY <1>8, <2>2, <2>3 DEF Referred, Witnessed
<1>12. Counted(S)
  <2>1. Counted(session)
    BY DEF SessionInv, Good, GoodFor
  <2>2. "stream" \in mode => Len(r.str) + d.str + Len(t) >= Len(r.inv)
    BY <1>2, <1>3, <1>4, <2>1 DEF Counted
  <2>3. PICK a, b, n, m \in Nat : a = Len(r.str) /\ b = d.str /\ n = Len(t) /\ m = Len(r.inv)
    <3>1. Len(r.inv) \in Nat
      BY <1>2 DEF Results
    <3> QED
      BY <1>5, <1>7, <3>1
  <2>4. a + (b + 1) + (n - 1) = a + b + n /\ (a + 1) + b + (n - 1) = a + b + n
    BY OneOver
  <2>5. "stream" \in mode => Len(s.str) + e.str + Len(Tail(t)) >= Len(r.inv)
    <3>1. Len(Tail(t)) = n - 1
      BY <1>5, <2>3
    <3>2. CASE s.str = r.str /\ e.str = d.str + 1
      BY <2>2, <2>3, <2>4, <3>1, <3>2
    <3>3. CASE Len(s.str) = Len(r.str) + 1 /\ e.str = d.str
      BY <2>2, <2>3, <2>4, <3>1, <3>3
    <3> QED
      BY <1>8, <3>2, <3>3 DEF Grown
  <2>6. Settled(s, e, Len(Made))
    <3>1. Settled(r, d, Len(Made))
      BY <1>2, <1>4, <2>1 DEF Counted
    <3>2. Len(s.gen) + e.gen = Len(r.gen) + d.gen
      BY <1>8
    <3> QED
      BY <1>8, <3>1, <3>2, StaysSettled
  <2> QED
    BY <1>2, <1>4, <1>8, <2>1, <2>5, <2>6, SameListed DEF Counted
<1> QED
  BY <1>1, <1>9, <1>10, <1>11, <1>12, SessionSet DEF Good, GoodFor, JoinStream

-----------------------------------------------------------------------------
(* Assembly.                                                               *)

(* The losses are told, and nothing else changes.                          *)
LEMMA LossesTold ==
  ASSUME NEW r, NEW d, r = session.result, d = session.dropped, r \in Results, d \in Drops
  PROVE  /\ Losses \in Results /\ Losses.inv = r.inv /\ Losses.gen = r.gen /\ Losses.str = r.str
         /\ Losses.bare = r.bare /\ r.gaps \subseteq Losses.gaps
         /\ d.inv > 0 \/ d.gen > 0 \/ d.str > 0 =>
              "BudgetExceeded" \in Losses.gaps /\ Losses.truncations \intersect Lost # {}
<1>1. PICK t : t = (r.truncations \ Lost)
             \union (IF Dropped("inv") THEN {"assembled_invocations"} ELSE {})
             \union (IF Dropped("gen") THEN {"assembled_generators"} ELSE {})
             \union (IF Dropped("str") THEN {"assembled_semantic_streams"} ELSE {})
  OBVIOUS
<1>2. t \in SUBSET (Budgets \union Lost)
  BY <1>1 DEF Results, Lost
<1>3. d.inv > 0 \/ d.gen > 0 \/ d.str > 0 => t \intersect Lost # {}
  BY <1>1 DEF Dropped, Lost
<1>4. PICK g : g = r.gaps \union (IF t # {} THEN {"BudgetExceeded"} ELSE {}) /\ g \in SUBSET AllGaps
  <2>1. r.gaps \union (IF t # {} THEN {"BudgetExceeded"} ELSE {}) \in SUBSET AllGaps
    BY DEF Results, AllGaps, Told4
  <2> QED
    BY <2>1
<1>5. Losses = [r EXCEPT !.truncations = t, !.gaps = g]
  BY <1>1, <1>4 DEF Losses, Results
<1> QED
  BY <1>2, <1>3, <1>4, <1>5 DEF Results
LEMMA OneLost ==
  ASSUME NEW f, NEW t, Shorter(f, t), NEW b \in Nat
  PROVE  Len(f) + (b + 1) = Len(t) + b /\ Len(f) <= Len(t)
<1>1. PICK n, m : n = Len(t) /\ m = Len(f)
  OBVIOUS
<1>2. n \in Nat /\ n >= 1 /\ m = n - 1
  BY <1>1 DEF Shorter
<1>3. m + (b + 1) = n + b /\ m <= n
  BY <1>2
<1> QED
  BY <1>1, <1>3

(* What an eviction leaves: s of r and e of d.  An invocation goes only    *)
(* when no stream is left.                                                 *)
Evicts(s, e, r, d) ==
  /\ s \in Results /\ e \in Drops /\ s.bare = r.bare /\ r.gaps \subseteq s.gaps
  /\ \A k \in DOMAIN s.inv : k \in DOMAIN r.inv /\ s.inv[k] = r.inv[k]
  /\ \A k \in DOMAIN s.str : k \in DOMAIN r.str /\ s.str[k] = r.str[k]
  /\ \/ s.inv = r.inv /\ e.inv = d.inv
     \/ s.str = <<>> /\ e.inv = d.inv + 1
  /\ Len(s.inv) + e.inv = Len(r.inv) + d.inv /\ Len(s.inv) <= Len(r.inv)
  /\ Len(s.gen) + e.gen = Len(r.gen) + d.gen
  /\ Len(s.str) + e.str = Len(r.str) + d.str

LEMMA Evictions ==
  ASSUME NEW r, NEW d, r = session.result, d = session.dropped, r \in Results, d \in Drops,
         r.str # <<>> \/ r.gen # <<>> \/ r.inv # <<>>,
         NEW s, NEW e, NEW k, k = Evicted(r),
         s = [Losses EXCEPT ![k] = Front(@)], e = [d EXCEPT ![k] = @ + 1]
  PROVE  Evicts(s, e, r, d)
<1>1. PICK m : m = Losses
  OBVIOUS
<1>2. /\ m \in Results /\ m.inv = r.inv /\ m.gen = r.gen /\ m.str = r.str
      /\ m.bare = r.bare /\ r.gaps \subseteq m.gaps
  BY <1>1, LossesTold
<1>3. /\ r.inv \in Seq(Units) /\ r.gen \in Seq(Records) /\ r.str \in Seq(Compilers)
      /\ Len(r.inv) \in Nat /\ Len(r.gen) \in Nat /\ Len(r.str) \in Nat
  BY DEF Results
<1>4. d.inv \in Nat /\ d.gen \in Nat /\ d.str \in Nat
  BY DEF Drops
<1>5. CASE r.str # <<>>
  <2>1. PICK f : f = Front(r.str) /\ f \in Seq(Compilers) /\ Shorter(f, r.str)
    <3>1. Front(r.str) \in Seq(Compilers) /\ Shorter(Front(r.str), r.str)
      BY <1>3, <1>5, FrontOf
    <3> QED
      BY <3>1
  <2>2. s = [m EXCEPT !.str = f] /\ e = [d EXCEPT !.str = @ + 1]
    BY <1>1, <1>2, <1>5, <2>1 DEF Evicted
  <2>3. /\ s \in Results /\ s.inv = r.inv /\ s.gen = r.gen /\ s.str = f
        /\ s.bare = r.bare /\ r.gaps \subseteq s.gaps
    BY <1>2, <2>1, <2>2 DEF Results
  <2>4. e \in Drops /\ e.inv = d.inv /\ e.gen = d.gen /\ e.str = d.str + 1
    BY <1>4, <2>2 DEF Drops
  <2>5. Len(s.str) + e.str = Len(r.str) + d.str
    <3>1. Shorter(f, r.str) /\ d.str \in Nat
      BY <1>4, <2>1
    <3>2. Len(f) + (d.str + 1) = Len(r.str) + d.str /\ Len(f) <= Len(r.str)
      BY <3>1, OneLost
    <3> QED
      BY <2>3, <2>4, <3>2
  <2>6. Len(s.inv) <= Len(r.inv)
    BY <1>3, <2>3
  <2>7. \A j \in DOMAIN s.str : j \in DOMAIN r.str /\ s.str[j] = r.str[j]
    BY <2>1, <2>3 DEF Shorter
  <2> QED
    BY <2>3, <2>4, <2>5, <2>6, <2>7 DEF Evicts
<1>6. CASE r.str = <<>> /\ r.gen # <<>>
  <2>1. PICK f : f = Front(r.gen) /\ f \in Seq(Records) /\ Shorter(f, r.gen)
    <3>1. Front(r.gen) \in Seq(Records) /\ Shorter(Front(r.gen), r.gen)
      BY <1>3, <1>6, FrontOf
    <3> QED
      BY <3>1
  <2>2. s = [m EXCEPT !.gen = f] /\ e = [d EXCEPT !.gen = @ + 1]
    BY <1>1, <1>2, <1>6, <2>1 DEF Evicted
  <2>3. /\ s \in Results /\ s.inv = r.inv /\ s.gen = f /\ s.str = r.str
        /\ s.bare = r.bare /\ r.gaps \subseteq s.gaps
    BY <1>2, <2>1, <2>2 DEF Results
  <2>4. e \in Drops /\ e.inv = d.inv /\ e.gen = d.gen + 1 /\ e.str = d.str
    BY <1>4, <2>2 DEF Drops
  <2>5. Len(s.gen) + e.gen = Len(r.gen) + d.gen
    <3>1. Shorter(f, r.gen) /\ d.gen \in Nat
      BY <1>4, <2>1
    <3>2. Len(f) + (d.gen + 1) = Len(r.gen) + d.gen /\ Len(f) <= Len(r.gen)
      BY <3>1, OneLost
    <3> QED
      BY <2>3, <2>4, <3>2
  <2>6. Len(s.inv) <= Len(r.inv)
    BY <1>3, <2>3
  <2> QED
    BY <2>3, <2>4, <2>5, <2>6 DEF Evicts
<1>7. CASE r.str = <<>> /\ r.gen = <<>>
  <2>1. PICK f : f = Front(r.inv) /\ f \in Seq(Units) /\ Shorter(f, r.inv)
    <3>1. Front(r.inv) \in Seq(Units) /\ Shorter(Front(r.inv), r.inv)
      BY <1>3, <1>7, FrontOf
    <3> QED
      BY <3>1
  <2>2. s = [m EXCEPT !.inv = f] /\ e = [d EXCEPT !.inv = @ + 1]
    BY <1>1, <1>2, <1>7, <2>1 DEF Evicted
  <2>3. /\ s \in Results /\ s.inv = f /\ s.gen = r.gen /\ s.str = r.str
        /\ s.bare = r.bare /\ r.gaps \subseteq s.gaps
    BY <1>2, <2>1, <2>2 DEF Results
  <2>4. e \in Drops /\ e.inv = d.inv + 1 /\ e.gen = d.gen /\ e.str = d.str
    BY <1>4, <2>2 DEF Drops
  <2>5. Len(s.inv) + e.inv = Len(r.inv) + d.inv /\ Len(s.inv) <= Len(r.inv)
    <3>1. Shorter(f, r.inv) /\ d.inv \in Nat
      BY <1>4, <2>1
    <3>2. Len(f) + (d.inv + 1) = Len(r.inv) + d.inv /\ Len(f) <= Len(r.inv)
      BY <3>1, OneLost
    <3> QED
      BY <2>3, <2>4, <3>2
  <2>6. \A j \in DOMAIN s.inv : j \in DOMAIN r.inv /\ s.inv[j] = r.inv[j]
    BY <2>1, <2>3 DEF Shorter
  <2> QED
    BY <1>7, <2>3, <2>4, <2>5, <2>6 DEF Evicts
<1> QED
  BY <1>5, <1>6, <1>7

LEMMA Evicting ==
  ASSUME IInv, WrapperInv, SessionInv, session.pc = "assemble", UNCHANGED <<call, mode, dir, run, faults>>,
         session.result.str # <<>> \/ session.result.gen # <<>> \/ session.result.inv # <<>>,
         Evict(Evicted(session.result))
  PROVE  SessionInv'
<1>1. PICK S : session' = S
  OBVIOUS
<1>2. PICK r, d : r = session.result /\ d = session.dropped /\ r \in Results /\ d \in Drops
  BY DEF SessionInv, Good, GoodFor, SessionTyped, Shaped
<1>3. Shaped(session) /\ session.files = {} /\ session.todo = <<>> /\ ~r.bare
  BY <1>2 DEF SessionInv, Good, GoodFor, SessionTyped
<1>4. PICK k : k = Evicted(r)
  OBVIOUS
<1>5. PICK s, e : s = [Losses EXCEPT ![k] = Front(@)] /\ e = [d EXCEPT ![k] = @ + 1]
  OBVIOUS
<1>6. Evicts(s, e, r, d)
  BY <1>2, <1>4, <1>5, Evictions
<1>7. s \in Results /\ e \in Drops
  BY <1>6 DEF Evicts
<1>8. /\ Shaped(S) /\ Same(S) /\ S.pc = "assemble" /\ S.files = {} /\ S.todo = <<>>
      /\ S.result = s /\ S.dropped = e
  <2>1. k \in {"inv", "gen", "str"}
    BY <1>4 DEF Evicted
  <2>2. S = [session EXCEPT !.result = s, !.dropped = e]
    BY <1>1, <1>2, <1>3, <1>4, <1>5, <2>1 DEF Evict, Shaped
  <2> QED
    BY <1>3, <1>7, <2>2 DEF Shaped, Same
<1>v. PICK V : V = Valid(session) /\ V = Valid(S)
  BY <1>8, SameListed
<1>9. SessionTyped(S) /\ Started(S) /\ FromFiles(S)
  <2>1. ~s.bare
    BY <1>3, <1>6 DEF Evicts
  <2>2. FromFiles(S)
    BY <1>v, <1>2, <1>3, <1>6, <1>8 DEF SessionInv, Good, GoodFor, FromFiles, Evicts
  <2> QED
    BY <1>3, <1>8, <2>1, <2>2 DEF SessionInv, Good, GoodFor, SessionTyped, Started
<1>10. Covered(S, faults)
  <2>1. CASE e.inv = d.inv + 1
    <3>1. e.inv > 0
      BY <1>2, <2>1 DEF Drops
    <3> QED
      BY <1>8, <3>1 DEF Covered, KnownLoss
  <2>2. CASE s.inv = r.inv /\ e.inv = d.inv
    <3>1. KnownLoss(session) => KnownLoss(S)
      BY <1>2, <1>6, <1>8, <2>2 DEF KnownLoss, Evicts
    <3> QED
      BY <1>2, <1>8, <2>2, <3>1, SameListed DEF SessionInv, Good, GoodFor, Covered
  <2> QED
    BY <1>6, <2>1, <2>2 DEF Evicts
<1>11. Referred(S) /\ Witnessed(S)
  <2>1. \A j \in DOMAIN r.str : \E i \in DOMAIN r.inv : r.inv[i].of = r.str[j]
    BY <1>2 DEF SessionInv, Good, GoodFor, Referred
  <2>2. ASSUME NEW j \in DOMAIN s.str PROVE \E i \in DOMAIN s.inv : s.inv[i].of = s.str[j]
    <3>1. CASE s.str = <<>>
      BY <2>2, <3>1
    <3>2. CASE s.inv = r.inv
      BY <1>6, <2>1, <2>2, <3>2 DEF Evicts
    <3> QED
      BY <1>6, <3>1, <3>2 DEF Evicts
  <2> QED
    BY <1>8, <2>2 DEF Referred, Witnessed
<1>12. Counted(S)
  <2>1. Counted(session)
    BY DEF SessionInv, Good, GoodFor
  <2>2. "stream" \in mode => Len(s.str) + e.str >= Len(s.inv)
    <3>1. "stream" \in mode => Len(r.str) + d.str >= Len(r.inv)
      BY <1>2, <1>3, <2>1 DEF Counted
    <3>2. PICK a, b, n, m \in Nat : a = Len(r.str) /\ b = d.str /\ n = Len(r.inv) /\ m = Len(s.inv)
      <4>1. Len(r.str) \in Nat /\ d.str \in Nat /\ Len(r.inv) \in Nat /\ Len(s.inv) \in Nat
        <5>1. r.str \in Seq(Compilers) /\ r.inv \in Seq(Units) /\ s.inv \in Seq(Units)
          BY <1>2, <1>7 DEF Results
        <5>2. d.str \in Nat
          BY <1>2 DEF Drops
        <5> QED
          BY <5>1, <5>2
      <4> QED
        BY <4>1
    <3>3. Len(s.str) + e.str = a + b /\ m <= n
      BY <1>6, <3>2 DEF Evicts
    <3>4. "stream" \in mode => a + b >= m
      BY <3>1, <3>2, <3>3
    <3> QED
      BY <3>2, <3>3, <3>4
  <2>3. /\ Len(r.inv) + d.inv + Cardinality(V \intersect {}) <= Cardinality(V)
        /\ "MalformedObservation" \in r.gaps \/ Cardinality(Keys(V \ {})) <= Len(r.inv) + d.inv
        /\ Settled(r, d, Len(Made))
    BY <1>v, <1>2, <1>3, <2>1 DEF Counted
  <2>4. /\ Len(s.inv) + e.inv + Cardinality(V \intersect {}) <= Cardinality(V)
        /\ "MalformedObservation" \in s.gaps \/ Cardinality(Keys(V \ {})) <= Len(s.inv) + e.inv
    BY <1>6, <2>3 DEF Evicts
  <2>5. Settled(s, e, Len(Made))
    BY <1>6, <2>3, StaysSettled DEF Evicts
  <2> QED
    BY <1>v, <1>8, <2>2, <2>4, <2>5 DEF Counted
<1> QED
  BY <1>1, <1>9, <1>10, <1>11, <1>12, SessionSet DEF Good, GoodFor
(* A bare attachment says why.                                             *)
LEMMA GoingBare ==
  ASSUME IInv, WrapperInv, SessionInv, session.pc = "assemble", UNCHANGED <<call, mode, dir, run>>,
         UNCHANGED faults \/ Fault, NEW gap \in {"MalformedObservation", "BudgetExceeded"}, Bare(gap)
  PROVE  SessionInv'
<1>1. PICK S : session' = S
  OBVIOUS
<1>2. PICK r, d : r = session.result /\ d = session.dropped /\ r \in Results /\ d \in Drops
  BY DEF SessionInv, Good, GoodFor, SessionTyped, Shaped
<1>3. Shaped(session) /\ session.files = {} /\ session.todo = <<>>
  BY DEF SessionInv, Good, GoodFor, SessionTyped
<1>4. PICK m : m = Losses /\ m \in Results
  BY <1>2, LossesTold
<1>5. PICK s : s = [NewResult EXCEPT !.gaps = m.gaps \union {gap}, !.truncations = m.truncations,
                                     !.bare = TRUE]
  OBVIOUS
<1>6. s \in Results /\ s.inv = <<>> /\ s.str = <<>> /\ s.bare /\ gap \in s.gaps
  <2>1. PICK g, t : g = m.gaps \union {gap} /\ t = m.truncations
    OBVIOUS
  <2>2. g \in SUBSET AllGaps /\ t \in SUBSET (Budgets \union Lost) /\ gap \in g
    BY <1>4, <2>1 DEF Results, AllGaps, Told4
  <2>3. s = [NewResult EXCEPT !.gaps = g, !.truncations = t, !.bare = TRUE]
    BY <1>5, <2>1
  <2> QED
    BY <2>2, <2>3, NewResultTyped DEF Results
<1>7. /\ Shaped(S) /\ Same(S) /\ S.pc = "done" /\ S.files = {} /\ S.result = s
  <2>1. S = [session EXCEPT !.pc = "done", !.result = s]
    BY <1>1, <1>4, <1>5 DEF Bare
  <2> QED
    BY <1>3, <1>6, <2>1 DEF Shaped, Same, Places
<1>8. SessionTyped(S) /\ Started(S)
  BY <1>6, <1>7 DEF SessionInv, Good, GoodFor, SessionTyped, Started
<1>9. KnownLoss(S) /\ Witnessed(S)
  BY <1>6, <1>7 DEF KnownLoss, Witnessed, Told4
<1>10. FromFiles(S) /\ Covered(S, faults) /\ Referred(S)
  BY <1>6, <1>7, <1>9 DEF FromFiles, Covered, Referred
<1>11. Counted(S)
  BY <1>6, <1>7 DEF Counted
<1> QED
  BY <1>1, <1>8, <1>9, <1>10, <1>11, SessionSet DEF Good, GoodFor

(* What fits is published with its losses.                                 *)
LEMMA Publishing ==
  ASSUME IInv, WrapperInv, SessionInv, session.pc = "assemble",
         UNCHANGED <<call, mode, dir, run, faults>>, AttachmentSize(Losses) <= MAX_ATTACHMENT_BYTES,
         session' = [session EXCEPT !.pc = "done", !.result = Losses]
  PROVE  SessionInv'
<1>1. PICK S : session' = S
  OBVIOUS
<1>2. PICK r, d : r = session.result /\ d = session.dropped /\ r \in Results /\ d \in Drops
  BY DEF SessionInv, Good, GoodFor, SessionTyped, Shaped
<1>3. Shaped(session) /\ session.files = {} /\ session.todo = <<>> /\ ~r.bare
  BY <1>2 DEF SessionInv, Good, GoodFor, SessionTyped
<1>4. PICK s : /\ s = Losses /\ s \in Results /\ s.inv = r.inv /\ s.gen = r.gen /\ s.str = r.str
               /\ s.bare = r.bare /\ r.gaps \subseteq s.gaps
               /\ d.inv > 0 \/ d.gen > 0 \/ d.str > 0 =>
                    "BudgetExceeded" \in s.gaps /\ s.truncations \intersect Lost # {}
  BY <1>2, LossesTold
<1>5. /\ Shaped(S) /\ Same(S) /\ S.pc = "done" /\ S.files = {} /\ S.result = s /\ S.dropped = d
  <2>1. S = [session EXCEPT !.pc = "done", !.result = s]
    BY <1>1, <1>4
  <2> QED
    BY <1>2, <1>3, <1>4, <2>1 DEF Shaped, Same, Places
<1>6. SessionTyped(S) /\ Started(S) /\ FromFiles(S)
  BY <1>2, <1>3, <1>4, <1>5, SameListed DEF SessionInv, Good, GoodFor, SessionTyped, Started, FromFiles
<1>7. Covered(S, faults)
  <2>1. KnownLoss(session) => KnownLoss(S)
    BY <1>2, <1>4, <1>5 DEF KnownLoss
  <2> QED
    BY <1>2, <1>4, <1>5, <2>1, SameListed DEF SessionInv, Good, GoodFor, Covered
<1>8. Referred(S)
  BY <1>2, <1>4, <1>5 DEF SessionInv, Good, GoodFor, Referred
<1>9. Witnessed(S)
  <2>1. AttachmentSize(s) <= MAX_ATTACHMENT_BYTES
    BY <1>4
  <2> QED
    BY <1>3, <1>4, <1>5, <2>1 DEF Witnessed
<1>10. Counted(S)
  <2>1. Counted(session)
    BY DEF SessionInv, Good, GoodFor
  <2>2. Settled(s, d, Len(Made))
    <3>1. Settled(r, d, Len(Made))
      BY <1>2, <1>3, <2>1 DEF Counted
    <3> QED
      BY <1>4, <3>1, StaysSettled
  <2> QED
    BY <1>2, <1>3, <1>4, <1>5, <2>1, <2>2, SameListed DEF Counted
<1> QED
  BY <1>1, <1>6, <1>7, <1>8, <1>9, <1>10, SessionSet DEF Good, GoodFor

(* Every step of the session, and of anything else.                        *)
LEMMA Joining ==
  ASSUME IInv, WrapperInv, SessionInv, [Next]_vars
  PROVE  SessionInv'
<1>1. CASE Assemble
  BY <1>1, Evicting, GoingBare DEF Assemble
<1>2. CASE Publish
  BY <1>2, Publishing, GoingBare DEF Publish
<1>3. CASE Join
  BY <1>1, <1>2, <1>3, Finishing, JoiningUnit, UnitsDone, JoiningGenerator, GeneratorsDone,
     JoiningStream, StreamsDone DEF Join
<1>4. CASE (\E c \in Compilers : Wrapper(c)) \/ Edit
  BY <1>4, Building
<1>5. CASE UNCHANGED vars
  BY <1>5, SessionSet DEF vars, SessionInv
<1> QED
  BY <1>3, <1>4, <1>5 DEF Next
-----------------------------------------------------------------------------
(* The theorems.                                                           *)

(* Everything that is known of the wrappers and of the session.            *)
AllInv == IInv /\ WrapperInv /\ SessionInv

LEMMA AllKept == Spec => []AllInv
<1>1. Init => AllInv
  BY Initially, WrapperInit, SessionInit DEF AllInv
<1>2. AllInv /\ [Next]_vars => AllInv'
  <2> SUFFICES ASSUME IInv, WrapperInv, SessionInv, [Next]_vars PROVE IInv' /\ WrapperInv'
    BY Joining DEF AllInv
  <2>1. ASSUME NEW c \in Compilers, Wrapper(c) PROVE IInv'
    BY <2>1, Claiming, Preparing, Compiling, Accepting, Writing DEF Wrapper
  <2>2. ASSUME NEW c \in Compilers, Wrapper(c) PROVE WrapperInv'
    BY <2>2, ClaimingLogged, PreparingLogged, CompilingLogged, WritingLogged DEF Wrapper
  <2>3. CASE Join \/ Edit \/ UNCHANGED vars
    BY <2>3, Elsewhere, ElsewhereLogged
  <2> QED
    BY <2>1, <2>2, <2>3 DEF Next
<1> QED
  BY <1>1, <1>2, PTL DEF Spec

(* Every variable of the wrappers, the directory and the session has its   *)
(* type: slots are those of the directory, a record has its slot.          *)
THEOREM CaptureTypeCorrect == Spec => []CaptureTypeOK
<1>1. AllInv => CaptureTypeOK
  <2> SUFFICES ASSUME AllInv PROVE CaptureTypeOK
    OBVIOUS
  <2>1. /\ dir \in Directories /\ run \in [Compilers -> RunState]
        /\ session.result \in Results
    BY DEF AllInv, IInv, DirFine, SessionInv, Good, GoodFor, SessionTyped, Shaped
  <2>2. /\ dir.slots \subseteq Slots /\ DOMAIN dir.units = Slots
        /\ dir.torn \subseteq dir.marks /\ dir.marks \subseteq Marks
    BY <2>1 DEF Directories, AllInv, IInv, DirFine
  <2>3. UnitFiles \subseteq dir.slots
    BY DEF AllInv, WrapperInv, UnitFiles
  <2>4. ASSUME NEW i \in DOMAIN session.result.inv PROVE session.result.inv[i].of \in Compilers
    <3>1. session.result.inv \in Seq(Units)
      BY <2>1 DEF Results
    <3>2. session.result.inv[i] \in Units
      BY <3>1
    <3> QED
      BY <3>2 DEF Units
  <2>5. session.result.truncations \subseteq Budgets \union Lost
    BY <2>1 DEF Results
  <2>6. /\ session.slots \subseteq dir.slots /\ session.files \subseteq session.units
        /\ session.units \subseteq UnitFiles
    BY DEF AllInv, SessionInv, Good, GoodFor, SessionTyped, Shaped
  <2> QED
    BY <2>2, <2>3, <2>4, <2>5, <2>6 DEF CaptureTypeOK, AllInv, WrapperInv
<1> QED
  BY <1>1, AllKept, PTL

(* compiler_observer: a claimed slot is a tombstone.  Whatever befalls a   *)
(* wrapper after it claimed one, the attachment has its record or says     *)
(* that something is missing, if the session could list the slots; and     *)
(* without failures also for a wrapper that got none, if the directory has *)
(* no more entries than the session looks at for the witness of that: for  *)
(* any number of compilers and slots.                                      *)
THEOREM AlwaysCapturedOrTold == Spec => []CapturedOrTold
<1>1. AllInv => CapturedOrTold
  <2> SUFFICES ASSUME AllInv, session.pc = "done", NEW c \in Compilers, Owed(session, c, faults),
                      \A i \in DOMAIN session.result.inv : session.result.inv[i].of # c
               PROVE  Told4 \intersect session.result.gaps # {}
    BY DEF CapturedOrTold, Owed, Told4
  <2>1. KnownLoss(session) /\ Witnessed(session)
    BY DEF AllInv, SessionInv, Good, GoodFor, Covered
  <2>2. Told4 \intersect session.result.gaps # {} \/ session.dropped.inv > 0
    BY <2>1 DEF KnownLoss
  <2> QED
    BY <2>1, <2>2 DEF Witnessed, Told4
<1> QED
  BY <1>1, AllKept, PTL

(* A record in the attachment that does not say that its input was         *)
(* unstable has the version its compiler read, and its occurrences are of  *)
(* that version, however the sources were edited.                          *)
THEOREM RecordsAlwaysCompiled == Spec => []RecordsCompiled
<1>1. AllInv => RecordsCompiled
  <2> SUFFICES ASSUME AllInv, NEW k \in DOMAIN session.result.inv, NEW R, R = session.result.inv[k]
               PROVE  /\ "UnstableFile" \in R.gaps \/ {R.before, R.after} = {run[R.of].compiled}
                      /\ R.occ # NONE => R.ok /\ R.occ = run[R.of].compiled
    BY DEF RecordsCompiled
  <2>1. PICK i \in Valid(session) : R = dir.units[i]
    BY DEF AllInv, SessionInv, Good, GoodFor, FromFiles
  <2>2. Filed(R, i)
    BY <2>1 DEF Valid, UnitFiles, AllInv, WrapperInv, SessionInv, Good, GoodFor, SessionTyped, Shaped
  <2> QED
    BY <2>2 DEF Filed, TrueTo
<1> QED
  BY <1>1, AllKept, PTL

(* The attachment fits its limit with the witnesses of its own losses, and *)
(* those are exact but for generators that are not valid, which are told   *)
(* and not counted: for any limits and generators.                         *)
THEOREM AssemblyAlwaysExact == Spec => []AssemblyExact
<1>1. AllInv => AssemblyExact
  <2> SUFFICES ASSUME AllInv, session.pc = "done", ~session.result.bare PROVE AssemblyExact
    BY DEF AssemblyExact
  <2>1. PICK r, d : r = session.result /\ d = session.dropped /\ r \in Results /\ d \in Drops
    BY DEF AllInv, SessionInv, Good, GoodFor, SessionTyped, Shaped
  <2>2. Counted(session) /\ Referred(session) /\ Witnessed(session) /\ session.files = {}
    BY DEF AllInv, SessionInv, Good, GoodFor, SessionTyped
  <2>v. PICK V \in SUBSET Slots : V = Valid(session)
    BY DEF AllInv, SessionInv, Good, GoodFor, SessionTyped, Shaped, Valid, UnitFiles
  <2>3. Cardinality(V) \in Nat /\ Cardinality(Keys(V)) \in Nat
    <3>1. CASE V = {}
      BY <3>1, FS_EmptySet DEF Keys
    <3>2. CASE V # {}
      BY <3>2, SlotsFinite, KeysCounted
    <3> QED
      BY <3>1, <3>2, SlotsFinite
  <2>4. PICK n \in Nat : n = Len(r.inv) + d.inv
    <3>1. Len(r.inv) \in Nat /\ d.inv \in Nat
      BY <2>1 DEF Results, Drops
    <3> QED
      BY <3>1
  <2>5. /\ n <= Cardinality(V)
        /\ "MalformedObservation" \in r.gaps \/ Cardinality(Keys(V)) <= n
    <3>1. V \ {} = V /\ V \intersect {} = {} /\ Cardinality({}) = 0
      BY FS_EmptySet
    <3>2. n + 0 <= Cardinality(V)
      BY <2>v, <2>1, <2>2, <2>4, <3>1 DEF Counted
    <3> QED
      BY <2>v, <2>1, <2>2, <2>3, <2>4, <3>1, <3>2 DEF Counted
  <2>6. n \in (IF "MalformedObservation" \in r.gaps THEN 0 ELSE Cardinality(Keys(V)))
               .. Cardinality(V)
    BY <2>3, <2>4, <2>5
  <2>7. /\ AttachmentSize(r) <= MAX_ATTACHMENT_BYTES
        /\ Settled(r, d, Len(Made))
        /\ "stream" \in mode => Len(r.str) + d.str >= Len(r.inv)
        /\ \A k \in DOMAIN r.str : \E i \in DOMAIN r.inv : r.inv[i].of = r.str[k]
    BY <2>1, <2>2 DEF Counted, Referred, Witnessed
  <2>8. (\E k \in DOMAIN d : d[k] > 0) => "BudgetExceeded" \in r.gaps /\ r.truncations \intersect Lost # {}
    <3>1. DOMAIN d = {"inv", "gen", "str"}
      BY <2>1 DEF Drops
    <3>2. d.inv > 0 \/ d.gen > 0 \/ d.str > 0 => "BudgetExceeded" \in r.gaps /\ r.truncations \intersect Lost # {}
      BY <2>1, <2>2 DEF Witnessed
    <3> QED
      BY <3>1, <3>2
  <2>9. /\ Len(Made) - (Len(r.gen) + d.gen) \in 0..Cardinality({k \in DOMAIN Made : ~Made[k].valid})
        /\ Len(Made) - (Len(r.gen) + d.gen) # 0 => "MalformedObservation" \in r.gaps
    <3>1. Len(Made) \in Nat /\ DOMAIN Made = 1..Len(Made)
      BY MadeTyped DEF AllInv
    <3>2. Refused(Len(Made)) \in Nat
          /\ Refused(Len(Made)) = Cardinality({k \in DOMAIN Made : ~Made[k].valid})
      BY <3>1, RefusedCounted DEF Refused
    <3>3. PICK a, b, u \in Nat : a = Len(Made) /\ b = Len(r.gen) + d.gen /\ u = Refused(Len(Made))
      <4>1. Len(r.gen) \in Nat /\ d.gen \in Nat
        BY <2>1 DEF Results, Drops
      <4>2. Len(r.gen) + d.gen \in Nat
        BY <4>1
      <4> QED
        BY <3>1, <3>2, <4>2
    <3>4. b <= a /\ a <= b + u /\ (b # a => "MalformedObservation" \in r.gaps)
      BY <2>7, <3>3 DEF Settled
    <3>5. a - b \in 0..u /\ (a - b # 0 => b # a)
      BY <3>4
    <3> QED
      BY <3>2, <3>3, <3>4, <3>5
  <2>10. /\ V = {i \in session.units : dir.units[i] # TORN}
         /\ Keys(V) = {Key[dir.units[i].of] : i \in V}
    BY <2>v DEF Valid, Keys
  <2> QED
    BY <2>1, <2>4, <2>6, <2>7, <2>8, <2>9, <2>10 DEF AssemblyExact, Made
<1> QED
  BY <1>1, AllKept, PTL
=============================================================================
