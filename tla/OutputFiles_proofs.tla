-------------------------- MODULE OutputFiles_proofs --------------------------
(***************************************************************************)
(* Proofs about OutputFiles, for any number of writers and readers: the    *)
(* type invariant, that a file in place is never torn, that a file a       *)
(* reader has found stays there while the writers use one form, and that   *)
(* an undisturbed write leaves one graph, in one form, in every output.    *)
(***************************************************************************)
EXTENDS OutputFiles, FiniteSetTheorems, TLAPS

(* A reader about to read has found a file.                                *)
FoundInv == \A r \in Readers : reader[r].pc = "read" => reader[r].path \in Names

(* A writer past `create` is at a file, and its temporary file is whole    *)
(* once filled: no other process has that temporary file's name.           *)
FilledInv ==
  \A p \in Processes :
    /\ writer[p].stage # "create" => writer[p].pc \in {"data", "html", "report"}
    /\ writer[p].stage = "rename" => tmp[Tmp(p, Target(writer[p]))] \in Whole

IInv == TypeOK /\ FoundInv /\ FilledInv /\ NeverTorn

-----------------------------------------------------------------------------
LEMMA TargetType ==
  ASSUME NEW W, W.pc \in {"data", "html", "report"}
  PROVE  Target(W) \in Names
  BY OutputAssumption DEF OutputAssumption, Target, DataFile, OutputNames

LEMMA PayloadType ==
  ASSUME NEW W, W.doc \in AnyDoc
  PROVE  Payload(W) \in Whole
  BY DEF Payload, Whole, DataFile, AnyDoc

LEMMA InitInv == Init => IInv
  <1> SUFFICES ASSUME Init PROVE IInv
    OBVIOUS
  <1> USE DEF Init, InitOutput, InitFiles
  <1>1. IdleWriter \in WriterState /\ IdleReader \in ReaderState /\ writes \in WritesState
    BY OutputAssumption DEF OutputAssumption, IdleWriter, IdleReader, WriterState, ReaderState,
                            WritesState, Contents, AnyDoc
  <1>2. TypeOK
    BY <1>1 DEF TypeOK, Contents
  <1>3. FilledInv /\ FoundInv
    BY DEF FilledInv, FoundInv, IdleWriter, IdleReader
  <1>4. NeverTorn
    BY OutputAssumption DEF OutputAssumption, NeverTorn
  <1> QED
    BY <1>2, <1>3, <1>4 DEF IInv

(* What a step of a writer does to the temporary files: only its own, and  *)
(* those of other processes are where they were.                           *)
LEMMA OthersKept ==
  ASSUME TypeOK, NEW p \in Processes, NEW n \in Names, NEW c,
         tmp' = [tmp EXCEPT ![Tmp(p, n)] = c],
         NEW q \in Processes, q # p, NEW m
  PROVE  tmp'[Tmp(q, m)] = tmp[Tmp(q, m)]
  BY DEF TypeOK, Tmp

(* Every writer but p, and the part of the invariant about it, is kept.    *)
LEMMA FilledKept ==
  ASSUME FilledInv, NEW p \in Processes, NEW W, writer \in [Processes -> WriterState],
         writer' = [writer EXCEPT ![p] = W],
         \A q \in Processes \ {p} : \A m : tmp'[Tmp(q, m)] = tmp[Tmp(q, m)],
         W.stage # "create" => W.pc \in {"data", "html", "report"},
         W.stage = "rename" => tmp'[Tmp(p, Target(W))] \in Whole
  PROVE  FilledInv'
  <1> SUFFICES ASSUME NEW q \in Processes
               PROVE  /\ writer'[q].stage # "create" => writer'[q].pc \in {"data", "html", "report"}
                      /\ writer'[q].stage = "rename" => tmp'[Tmp(q, Target(writer'[q]))] \in Whole
    BY DEF FilledInv, Tmp, Target
  <1>1. CASE q = p
    BY <1>1
  <1>2. CASE q # p
    <2>1. writer'[q] = writer[q]
      BY <1>2
    <2>2. tmp'[Tmp(q, Target(writer[q]))] = tmp[Tmp(q, Target(writer[q]))]
      BY <1>2
    <2> QED
      BY <2>1, <2>2 DEF FilledInv
  <1> QED
    BY <1>1, <1>2

LEMMA BeginStep ==
  ASSUME IInv, UNCHANGED reader, NEW p \in Processes, NEW doc \in Docs, NEW form \in Forms,
         writes.begun < MaxWrites, BeginWrite(p, doc, form)
  PROVE  IInv'
  <1> DEFINE W == [pc |-> "data", stage |-> "create", doc |-> doc, form |-> form]
  <1>1. W \in WriterState
    BY DEF WriterState, AnyDoc
  <1>2. writes' \in WritesState
    <2> DEFINE b == writes.begun + 1
               g == writes.forms \union {form}
               k == Writing = {}
    <2>1. writes \in WritesState /\ b \in 0..MaxWrites /\ g \in SUBSET Forms
      BY OutputAssumption DEF OutputAssumption, IInv, TypeOK, WritesState
    <2>2. k \in BOOLEAN
      OBVIOUS
    <2>3. writes' = [writes EXCEPT !.begun = b, !.forms = g, !.clean = k]
      BY DEF BeginWrite
    <2> HIDE DEF b, g, k
    <2> QED
      BY <2>1, <2>2, <2>3 DEF WritesState
  <1>3. TypeOK'
    BY <1>1, <1>2 DEF BeginWrite, IInv, TypeOK
  <1>4. FilledInv'
    BY FilledKept DEF BeginWrite, IInv, TypeOK
  <1> QED
    BY <1>3, <1>4 DEF BeginWrite, IInv, NeverTorn, FoundInv

LEMMA CreateStep ==
  ASSUME IInv, UNCHANGED reader, NEW p \in Processes, Create(p)
  PROVE  IInv'
  <1> DEFINE n == Target(writer[p])
             W == [writer[p] EXCEPT !.stage = "fill"]
  <1>1. n \in Names
    BY TargetType DEF Create
  <1>2. /\ writer[p].pc \in {"data", "html", "report"}
        /\ tmp' = [tmp EXCEPT ![Tmp(p, n)] = TORN] /\ UNCHANGED <<files, writes>>
        /\ writer' = [writer EXCEPT ![p] = W]
    BY DEF Create, CreateTmp
  <1>3. W \in WriterState /\ W.stage = "fill" /\ W.pc = writer[p].pc
    BY DEF IInv, TypeOK, WriterState
  <1>4. TypeOK'
    BY <1>1, <1>2, <1>3 DEF IInv, TypeOK, Contents, Tmp
  <1>5. \A q \in Processes \ {p} : \A m : tmp'[Tmp(q, m)] = tmp[Tmp(q, m)]
    BY <1>1, <1>2, OthersKept DEF IInv
  <1>6. FilledInv'
    BY <1>2, <1>3, <1>5, FilledKept DEF IInv, TypeOK
  <1> QED
    BY <1>2, <1>4, <1>6 DEF IInv, NeverTorn, FoundInv

LEMMA FillStep ==
  ASSUME IInv, UNCHANGED reader, NEW p \in Processes, Fill(p)
  PROVE  IInv'
  <1> DEFINE n == Target(writer[p])
             W == [writer[p] EXCEPT !.stage = "rename"]
  <1>1. writer[p].pc \in {"data", "html", "report"} /\ n \in Names
    BY TargetType DEF Fill, IInv, FilledInv
  <1>2. /\ tmp' = [tmp EXCEPT ![Tmp(p, n)] = Payload(writer[p])] /\ UNCHANGED <<files, writes>>
        /\ writer' = [writer EXCEPT ![p] = W]
    BY DEF Fill, FillTmp
  <1>3. /\ W \in WriterState /\ W.stage = "rename"
        /\ W.pc = writer[p].pc /\ W.form = writer[p].form
    BY DEF IInv, TypeOK, WriterState
  <1>4. Payload(writer[p]) \in Whole
    BY PayloadType DEF IInv, TypeOK, WriterState
  <1>5. TypeOK'
    BY <1>1, <1>2, <1>3, <1>4 DEF IInv, TypeOK, Contents, Tmp
  <1>6. \A q \in Processes \ {p} : \A m : tmp'[Tmp(q, m)] = tmp[Tmp(q, m)]
    BY <1>1, <1>2, OthersKept DEF IInv
  <1>7. Target(W) = n
    BY <1>3 DEF Target
  <1>8. tmp'[Tmp(p, Target(W))] \in Whole
    BY <1>1, <1>2, <1>4, <1>7 DEF IInv, TypeOK, Tmp
  <1>9. FilledInv'
    BY <1>1, <1>2, <1>3, <1>6, <1>8, FilledKept DEF IInv, TypeOK
  <1> QED
    BY <1>2, <1>5, <1>9 DEF IInv, NeverTorn, FoundInv

LEMMA RenameStep ==
  ASSUME IInv, UNCHANGED reader, NEW p \in Processes, Rename(p)
  PROVE  IInv'
  <1> DEFINE n == Target(writer[p])
  <1>1. /\ writer[p].pc \in {"data", "html", "report"} /\ n \in Names
        /\ tmp[Tmp(p, n)] \in Whole
    BY TargetType DEF Rename, IInv, FilledInv
  <1>2. /\ files' = [files EXCEPT ![n] = tmp[Tmp(p, n)]]
        /\ tmp' = [tmp EXCEPT ![Tmp(p, n)] = NONE]
    BY DEF Rename, RenameTmp
  <1>3. PICK W \in WriterState : writer' = [writer EXCEPT ![p] = W] /\ W.stage = "create"
    <2> DEFINE V == [writer[p] EXCEPT !.stage = "create",
                       !.pc = IF writer[p].pc = "data" THEN "sweep" ELSE "report"]
    <2>1. V \in WriterState /\ V.stage = "create"
      BY DEF IInv, TypeOK, WriterState
    <2>2. IdleWriter \in WriterState /\ IdleWriter.stage = "create"
      BY DEF WriterState, IdleWriter, AnyDoc
    <2>3. writer' = [writer EXCEPT ![p] = V] \/ writer' = [writer EXCEPT ![p] = IdleWriter]
      BY DEF Rename, IInv, TypeOK, WriterState
    <2> QED
      BY <2>1, <2>2, <2>3
  <1>4. writes' \in WritesState
    <2> DEFINE f == writer[p].form
               d == writer[p].doc
    <2>1. f \in Forms \union {NONE} /\ d \in AnyDoc /\ writes \in WritesState
      BY DEF IInv, TypeOK, WriterState
    <2>2. \/ writes' = writes
          \/ writes' = [writes EXCEPT !.ok = writes.clean, !.doc = d, !.form = f]
      BY DEF Rename
    <2> HIDE DEF f, d
    <2>3. CASE writes' = [writes EXCEPT !.ok = writes.clean, !.doc = d, !.form = f]
      BY <2>1, <2>3 DEF WritesState
    <2> QED
      BY <2>1, <2>2, <2>3
  <1>5. TypeOK'
    BY <1>1, <1>2, <1>3, <1>4 DEF IInv, TypeOK, Contents, Tmp
  <1>6. \A q \in Processes \ {p} : \A m : tmp'[Tmp(q, m)] = tmp[Tmp(q, m)]
    BY <1>1, <1>2, OthersKept DEF IInv
  <1>7. FilledInv'
    BY <1>3, <1>6, FilledKept DEF IInv, TypeOK
  <1>8. NeverTorn'
    BY <1>1, <1>2, OutputAssumption DEF OutputAssumption, IInv, NeverTorn, TypeOK
  <1> QED
    BY <1>5, <1>7, <1>8 DEF IInv, FoundInv

LEMMA SweepStep ==
  ASSUME IInv, UNCHANGED reader, NEW p \in Processes, Sweep(p)
  PROVE  IInv'
  <1> DEFINE W == [writer[p] EXCEPT !.pc = "html"]
  <1>1. /\ writer[p].pc = "sweep" /\ UNCHANGED tmp
        /\ writes' = writes \/ writes' = [writes EXCEPT !.clean = FALSE]
        /\ writer' = [writer EXCEPT ![p] = W]
        /\ files' = files \/ files' = [files EXCEPT ![Stale(writer[p].form)] = NONE]
    BY DEF Sweep
  <1>2. /\ W \in WriterState /\ W.stage = "create"
        /\ writes' \in WritesState
    <2>1. writer[p] \in WriterState /\ writes \in WritesState /\ writer[p].stage = "create"
      BY <1>1 DEF IInv, TypeOK, FilledInv, WriterState
    <2>2. W \in WriterState /\ W.stage = "create"
      BY <2>1 DEF WriterState
    <2>3. writes' \in WritesState
      BY <1>1, <2>1 DEF WritesState
    <2> QED
      BY <2>2, <2>3
  <1>3. TypeOK'
    BY <1>1, <1>2 DEF IInv, TypeOK, Contents
  <1>4. FilledInv'
    BY <1>1, <1>2, FilledKept DEF IInv, TypeOK
  <1>5. NeverTorn'
    BY <1>1, OutputAssumption DEF OutputAssumption, IInv, NeverTorn, TypeOK
  <1> QED
    BY <1>3, <1>4, <1>5 DEF IInv, FoundInv

LEMMA FailStep ==
  ASSUME IInv, UNCHANGED reader, NEW p \in Processes, FailWrite(p)
  PROVE  IInv'
  <1>1. IdleWriter \in WriterState /\ IdleWriter.stage = "create"
    BY DEF WriterState, IdleWriter, AnyDoc
  <1>2. writes' \in WritesState
    BY DEF FailWrite, IInv, TypeOK, WritesState
  <1>3. TypeOK'
    BY <1>1, <1>2 DEF FailWrite, IInv, TypeOK
  <1>4. FilledInv'
    BY <1>1, FilledKept DEF FailWrite, IInv, TypeOK
  <1> QED
    BY <1>3, <1>4 DEF FailWrite, IInv, NeverTorn, FoundInv

(* A step of a reader leaves the directory alone. *)
LEMMA ReaderStep ==
  ASSUME IInv, NEW r \in Readers, Find(r) \/ Read(r)
  PROVE  IInv'
  <1>1. UNCHANGED outputVars
    BY DEF Find, Read, LookUp
  <1>2. TypeOK' /\ FoundInv'
    <2>1. CASE Find(r)
      <3>1. PICK R \in ReaderState : /\ reader' = [reader EXCEPT ![r] = R]
                                     /\ R.pc = "read" => R.path \in Names
        <4> DEFINE F(form) == [pc |-> "read", path |-> DataFile(form), got |-> NONE]
                   N(form) == [IdleReader EXCEPT !.pc = IF form = "gz" THEN "plain" ELSE "idle"]
        <4>1. \A form : F(form) \in ReaderState /\ F(form).path \in Names
          BY OutputAssumption DEF OutputAssumption, OutputNames, DataFile, ReaderState, Contents
        <4>2. \A form : N(form) \in ReaderState /\ N(form).pc # "read"
          BY DEF IdleReader, ReaderState, Contents
        <4>3. PICK form : LookUp(r, form)
          BY <2>1 DEF Find
        <4>4. reader' = [reader EXCEPT ![r] = F(form)] \/ reader' = [reader EXCEPT ![r] = N(form)]
          BY <4>3 DEF LookUp
        <4> QED
          BY <4>1, <4>2, <4>4
      <3> QED
        BY <1>1, <3>1 DEF IInv, TypeOK, FoundInv, outputVars
    <2>2. CASE Read(r)
      <3> DEFINE R == [reader[r] EXCEPT !.pc = "idle", !.got = files[reader[r].path]]
      <3>1. reader' = [reader EXCEPT ![r] = R]
        BY <2>2 DEF Read
      <3>2. files[reader[r].path] \in Contents
        BY <2>2 DEF Read, IInv, TypeOK, FoundInv
      <3>3. R \in ReaderState /\ R.pc = "idle"
        BY <3>2 DEF IInv, TypeOK, ReaderState
      <3> QED
        BY <1>1, <3>1, <3>3 DEF IInv, TypeOK, FoundInv, outputVars
    <2> QED
      BY <2>1, <2>2
  <1> QED
    BY <1>1, <1>2 DEF IInv, FilledInv, NeverTorn, outputVars, Tmp, Target

LEMMA StepInv == IInv /\ [Next]_vars => IInv'
  <1> SUFFICES ASSUME IInv, [Next]_vars PROVE IInv'
    OBVIOUS
  <1>1. CASE UNCHANGED vars
    BY <1>1 DEF IInv, TypeOK, FoundInv, FilledInv, NeverTorn, vars, outputVars, Tmp, Target
  <1>2. ASSUME NEW p \in Processes, UNCHANGED reader,
               writes.begun < MaxWrites, \E doc \in Docs, form \in Forms : BeginWrite(p, doc, form)
        PROVE  IInv'
    BY <1>2, BeginStep
  <1>3. ASSUME NEW p \in Processes, UNCHANGED reader, OutputStep(p) PROVE IInv'
    BY <1>3, CreateStep, FillStep, RenameStep, SweepStep, FailStep DEF OutputStep, WriteStep
  <1>4. ASSUME NEW r \in Readers, Find(r) \/ Read(r) PROVE IInv'
    BY <1>4, ReaderStep
  <1> QED
    BY <1>1, <1>2, <1>3, <1>4 DEF Next

LEMMA Invariance == Spec => []IInv
  BY InitInv, StepInv, PTL DEF Spec

(* The type invariant. *)
THEOREM OutputTypeCorrect == Spec => []TypeOK
  BY Invariance, PTL DEF IInv

(* However many writers overlap, fail and are killed, a graph, a viewer or *)
(* a report in place is never a partly written one.                        *)
THEOREM FilesNeverTorn == Spec => []NeverTorn
  BY Invariance, PTL DEF IInv

-----------------------------------------------------------------------------
(* With one form in use, the other form is never there, and a file a       *)
(* reader found stays.                                                     *)
OneFormInv(f) ==
  /\ \A p \in Processes : writer[p].pc # "idle" => writer[p].form = f
  /\ files[DataFile(Other(f))] = NONE
  /\ \A r \in Readers : reader[r].pc = "read" => /\ reader[r].path = DataFile(f)
                                                 /\ files[DataFile(f)] # NONE

LEMMA OneFormInit ==
  ASSUME NEW f \in {"gz", "plain"}, Init
  PROVE  OneFormInv(f)
  <1>1. DataFile(Other(f)) \in Names
    BY OutputAssumption DEF OutputAssumption, OutputNames, DataFile
  <1> QED
    BY <1>1 DEF OneFormInv, Init, InitOutput, InitFiles, IdleWriter, IdleReader

LEMMA OneFormWriter ==
  ASSUME NEW f \in {"gz", "plain"}, Forms = {f}, IInv, OneFormInv(f), UNCHANGED reader,
         NEW p \in Processes,
         (\E doc \in Docs, form \in Forms : BeginWrite(p, doc, form)) \/ OutputStep(p)
  PROVE  OneFormInv(f)'
  <1> DEFINE mine == DataFile(f)
             other == DataFile(Other(f))
  <1>1. mine \in Names /\ other \in Names /\ mine # other
    BY OutputAssumption DEF OutputAssumption, OutputNames, DataFile, Other
  <1>2. writer \in [Processes -> WriterState] /\ files \in [Names -> Contents]
    BY DEF IInv, TypeOK
  <1>3. \A q \in Processes : writer'[q].pc # "idle" => writer'[q].form = f
    <2>1. PICK W : writer' = [writer EXCEPT ![p] = W] /\ (W.pc # "idle" => W.form = f)
      <3> DEFINE A(s) == [writer[p] EXCEPT !.stage = s]
                 B(c) == [writer[p] EXCEPT !.stage = "create", !.pc = c]
                 C == [writer[p] EXCEPT !.pc = "html"]
                 D(doc) == [pc |-> "data", stage |-> "create", doc |-> doc, form |-> f]
      <3>1. /\ \A s : A(s).form = writer[p].form /\ A(s).pc = writer[p].pc
            /\ \A c : B(c).form = writer[p].form
            /\ C.form = writer[p].form
        BY <1>2 DEF WriterState
      <3>2. IdleWriter.pc = "idle" /\ \A doc : D(doc).form = f
        BY DEF IdleWriter
      <3>3. \/ \E s : writer' = [writer EXCEPT ![p] = A(s)]
            \/ writer[p].pc # "idle" /\ \E c : writer' = [writer EXCEPT ![p] = B(c)]
            \/ writer[p].pc # "idle" /\ writer' = [writer EXCEPT ![p] = C]
            \/ writer' = [writer EXCEPT ![p] = IdleWriter]
            \/ \E doc : writer' = [writer EXCEPT ![p] = D(doc)]
        <4>1. CASE \E doc \in Docs, form \in Forms : BeginWrite(p, doc, form)
          BY <4>1 DEF BeginWrite
        <4>2. CASE Create(p)
          BY <4>2 DEF Create
        <4>3. CASE Fill(p)
          BY <4>3 DEF Fill
        <4>4. CASE Rename(p)
          <5>1. CASE writer[p].pc \in {"data", "html"}
            <6> DEFINE c == IF writer[p].pc = "data" THEN "sweep" ELSE "report"
            <6>1. writer' = [writer EXCEPT ![p].stage = "create", ![p].pc = c]
              BY <4>4, <5>1 DEF Rename
            <6>2. writer' = [writer EXCEPT ![p] = B(c)]
              BY <6>1, <1>2 DEF WriterState
            <6> QED
              BY <5>1, <6>2
          <5>2. CASE writer[p].pc = "report"
            BY <4>4, <5>2 DEF Rename
          <5> QED
            BY <4>4, <5>1, <5>2 DEF Rename
        <4>5. CASE Sweep(p)
          BY <4>5 DEF Sweep
        <4>6. CASE FailWrite(p)
          BY <4>6 DEF FailWrite
        <4> QED
          BY <4>1, <4>2, <4>3, <4>4, <4>5, <4>6 DEF OutputStep, WriteStep
      <3>4. writer[p].pc # "idle" => writer[p].form = f
        BY DEF OneFormInv
      <3> HIDE DEF A, B, C, D
      <3> QED
        BY <3>1, <3>2, <3>3, <3>4
    <2> QED
      BY <1>2, <2>1 DEF OneFormInv
  <1>4. files'[other] = NONE /\ (files[mine] # NONE => files'[mine] # NONE)
    <2>1. CASE Rename(p)
      <3>1. /\ writer[p].pc \in {"data", "html", "report"}
            /\ tmp[Tmp(p, Target(writer[p]))] \in Whole
            /\ files' = [files EXCEPT ![Target(writer[p])] = tmp[Tmp(p, Target(writer[p]))]]
            /\ writer[p].form = f
        BY <2>1 DEF Rename, RenameTmp, IInv, FilledInv, OneFormInv
      <3>2. Target(writer[p]) # other
        BY <3>1 DEF Target, DataFile, Other
      <3>3. files[other] = NONE
        BY DEF OneFormInv
      <3> QED
        BY <1>1, <1>2, <3>1, <3>2, <3>3, OutputAssumption DEF OutputAssumption
    <2>2. CASE Sweep(p)
      <3>1. Stale(writer[p].form) = other
        BY <2>2 DEF Sweep, Stale, OneFormInv
      <3>2. files' = files \/ files' = [files EXCEPT ![other] = NONE]
        BY <2>2, <3>1 DEF Sweep
      <3> QED
        BY <1>1, <1>2, <3>2 DEF OneFormInv
    <2>3. CASE files' = files
      BY <2>3 DEF OneFormInv
    <2>4. Rename(p) \/ Sweep(p) \/ files' = files
      BY DEF OutputStep, WriteStep, BeginWrite, Create, CreateTmp, Fill, FillTmp, FailWrite
    <2> QED
      BY <2>1, <2>2, <2>3, <2>4
  <1> QED
    BY <1>3, <1>4 DEF OneFormInv

LEMMA OneFormReader ==
  ASSUME NEW f \in {"gz", "plain"}, IInv, OneFormInv(f), NEW r \in Readers, Find(r) \/ Read(r)
  PROVE  OneFormInv(f)'
  <1>1. UNCHANGED <<files, writer>>
    BY DEF Find, Read, LookUp, outputVars
  <1>2. PICK R : /\ reader' = [reader EXCEPT ![r] = R]
                 /\ R.pc = "read" => /\ R.path = DataFile(f)
                                     /\ files[DataFile(f)] # NONE
    <2>1. CASE Find(r)
      <3>1. PICK form \in {"gz", "plain"} : LookUp(r, form)
        BY <2>1 DEF Find
      <3>2. CASE files[DataFile(form)] # NONE
        <4> DEFINE R == [pc |-> "read", path |-> DataFile(form), got |-> NONE]
        <4>1. form = f
          BY <3>2 DEF OneFormInv, Other
        <4>2. reader' = [reader EXCEPT ![r] = R]
          BY <3>1, <3>2 DEF LookUp
        <4>3. R.path = DataFile(f) /\ files[DataFile(f)] # NONE
          BY <3>2, <4>1
        <4> QED
          BY <4>2, <4>3
      <3>3. CASE files[DataFile(form)] = NONE
        <4> DEFINE R == [IdleReader EXCEPT !.pc = IF form = "gz" THEN "plain" ELSE "idle"]
        <4>1. reader' = [reader EXCEPT ![r] = R]
          BY <3>1, <3>3 DEF LookUp
        <4>2. R.pc # "read"
          BY DEF IdleReader
        <4> QED
          BY <4>1, <4>2
      <3> QED
        BY <3>2, <3>3
    <2>2. CASE Read(r)
      <3> DEFINE R == [reader[r] EXCEPT !.pc = "idle", !.got = files[reader[r].path]]
      <3>1. reader' = [reader EXCEPT ![r] = R]
        BY <2>2 DEF Read
      <3>2. R.pc = "idle"
        BY DEF IInv, TypeOK, ReaderState
      <3> QED
        BY <3>1, <3>2
    <2> QED
      BY <2>1, <2>2
  <1> QED
    BY <1>1, <1>2 DEF OneFormInv, IInv, TypeOK

(* While all writers use one form (every build script does, and refreshes  *)
(* do unless their settings differ), the graph a reader has found is still *)
(* there when it reads it, whatever the writers do in between.             *)
THEOREM FoundAlwaysRead ==
  ASSUME NEW CONSTANT f \in {"gz", "plain"}, Forms = {f}
  PROVE  Spec => []FoundIsRead
  <1>1. Init => OneFormInv(f)
    BY OneFormInit
  <1>2. IInv /\ OneFormInv(f) /\ [Next]_vars => OneFormInv(f)'
    <2> SUFFICES ASSUME IInv, OneFormInv(f), [Next]_vars PROVE OneFormInv(f)'
      OBVIOUS
    <2>1. CASE UNCHANGED vars
      BY <2>1 DEF OneFormInv, vars, outputVars
    <2>2. ASSUME NEW p \in Processes, UNCHANGED reader,
                 (\E doc \in Docs, form \in Forms : BeginWrite(p, doc, form)) \/ OutputStep(p)
          PROVE  OneFormInv(f)'
      BY <2>2, OneFormWriter
    <2>3. ASSUME NEW r \in Readers, Find(r) \/ Read(r) PROVE OneFormInv(f)'
      BY <2>3, OneFormReader
    <2> QED
      BY <2>1, <2>2, <2>3 DEF Next
  <1>3. OneFormInv(f) => FoundIsRead
    BY DEF OneFormInv, FoundIsRead
  <1> QED
    BY <1>1, <1>2, <1>3, Invariance, PTL DEF Spec

-----------------------------------------------------------------------------
(* A write that nothing disturbed leaves one graph in all outputs.         *)
Data(doc) == [doc |-> doc, fetch |-> NONE]
Viewer(doc, form) == [doc |-> IF doc \in Large THEN NONE ELSE doc, fetch |-> DataFile(form)]

(* What a writer that was never disturbed has put in place so far.         *)
Progress(F, W) ==
  /\ W.pc \in {"sweep", "html", "report"} => F[DataFile(W.form)] = Data(W.doc)
  /\ W.pc \in {"html", "report"} => F[Stale(W.form)] = NONE
  /\ W.pc = "report" => F["graph.html"] = Viewer(W.doc, W.form)

Published ==
  /\ writes.form \in Forms
  /\ files[DataFile(writes.form)] = Data(writes.doc)
  /\ files[Stale(writes.form)] = NONE
  /\ files["graph.html"] = Viewer(writes.doc, writes.form)
  /\ files["GRAPH_REPORT.md"] = Data(writes.doc)

(* What each writer is about to rename.                                    *)
PendingInv ==
  \A p \in Processes :
    /\ writer[p].stage = "rename" => tmp[Tmp(p, Target(writer[p]))] = Payload(writer[p])
    /\ writer[p].pc # "idle" => writer[p].form \in Forms

CleanInv ==
  /\ writes.clean => \A p, q \in Processes : writer[p].pc # "idle" /\ writer[q].pc # "idle" => p = q
  /\ writes.clean => \A p \in Processes : Progress(files, writer[p])
  /\ (\A p \in Processes : writer[p].pc = "idle") /\ writes.ok => Published

LEMMA NamesDiffer ==
  ASSUME NEW f \in Forms
  PROVE  /\ DataFile(f) \in Names /\ Stale(f) \in Names /\ DataFile(f) # Stale(f)
         /\ {"graph.html", "GRAPH_REPORT.md"} \subseteq Names \ {DataFile(f), Stale(f)}
  BY OutputAssumption DEF OutputAssumption, OutputNames, DataFile, Stale, Other

LEMMA PendingKept ==
  ASSUME PendingInv, NEW p \in Processes, NEW W, writer \in [Processes -> WriterState],
         writer' = [writer EXCEPT ![p] = W],
         \A q \in Processes \ {p} : \A m : tmp'[Tmp(q, m)] = tmp[Tmp(q, m)],
         W.stage = "rename" => tmp'[Tmp(p, Target(W))] = Payload(W),
         W.pc # "idle" => W.form \in Forms
  PROVE  PendingInv'
  <1> SUFFICES ASSUME NEW q \in Processes
               PROVE  /\ writer'[q].stage = "rename" =>
                           tmp'[Tmp(q, Target(writer'[q]))] = Payload(writer'[q])
                      /\ writer'[q].pc # "idle" => writer'[q].form \in Forms
    BY DEF PendingInv, Tmp, Target, Payload
  <1>1. CASE q = p
    BY <1>1
  <1>2. CASE q # p
    <2>1. writer'[q] = writer[q]
      BY <1>2
    <2>2. tmp'[Tmp(q, Target(writer[q]))] = tmp[Tmp(q, Target(writer[q]))]
      BY <1>2
    <2> QED
      BY <2>1, <2>2 DEF PendingInv
  <1> QED
    BY <1>1, <1>2

LEMMA PendingStep ==
  ASSUME IInv, PendingInv, NEW p \in Processes,
         (\E doc \in Docs, form \in Forms : BeginWrite(p, doc, form)) \/ OutputStep(p)
  PROVE  PendingInv'
  <1>0. writer \in [Processes -> WriterState] /\ writer[p] \in WriterState
    BY DEF IInv, TypeOK
  <1>t. tmp' = tmp => \A q \in Processes \ {p} : \A m : tmp'[Tmp(q, m)] = tmp[Tmp(q, m)]
    OBVIOUS
  <1>1. CASE \E doc \in Docs, form \in Forms : BeginWrite(p, doc, form)
    <2>1. PICK doc \in Docs, form \in Forms : BeginWrite(p, doc, form)
      BY <1>1
    <2> QED
      BY <1>0, <1>t, <2>1, PendingKept DEF BeginWrite
  <1>2. CASE Create(p)
    <2> DEFINE W == [writer[p] EXCEPT !.stage = "fill"]
    <2>1. writer' = [writer EXCEPT ![p] = W] /\ tmp' = [tmp EXCEPT ![Tmp(p, Target(writer[p]))] = TORN]
      BY <1>2 DEF Create, CreateTmp
    <2>2. W.stage = "fill" /\ W.pc = writer[p].pc /\ W.form = writer[p].form
      BY <1>0 DEF WriterState
    <2>3. Target(writer[p]) \in Names
      BY <1>2, TargetType DEF Create
    <2>4. \A q \in Processes \ {p} : \A m : tmp'[Tmp(q, m)] = tmp[Tmp(q, m)]
      BY <2>1, <2>3, OthersKept DEF IInv
    <2> HIDE DEF W
    <2> QED
      BY <1>0, <2>1, <2>2, <2>4, PendingKept DEF PendingInv
  <1>3. CASE Fill(p)
    <2> DEFINE W == [writer[p] EXCEPT !.stage = "rename"]
    <2>1. /\ writer' = [writer EXCEPT ![p] = W]
          /\ tmp' = [tmp EXCEPT ![Tmp(p, Target(writer[p]))] = Payload(writer[p])]
      BY <1>3 DEF Fill, FillTmp
    <2>2. W.pc = writer[p].pc /\ W.form = writer[p].form /\ W.doc = writer[p].doc
      BY <1>0 DEF WriterState
    <2>3. Target(writer[p]) \in Names
      BY <1>3, TargetType DEF Fill, IInv, FilledInv
    <2>4. \A q \in Processes \ {p} : \A m : tmp'[Tmp(q, m)] = tmp[Tmp(q, m)]
      BY <2>1, <2>3, OthersKept DEF IInv
    <2>5. Target(W) = Target(writer[p]) /\ Payload(W) = Payload(writer[p])
      BY <2>2 DEF Target, Payload
    <2>6. tmp'[Tmp(p, Target(W))] = Payload(W)
      BY <2>1, <2>3, <2>5 DEF IInv, TypeOK, Tmp
    <2> HIDE DEF W
    <2> QED
      BY <1>0, <2>1, <2>2, <2>4, <2>6, PendingKept DEF PendingInv
  <1>4. CASE Rename(p)
    <2>1. tmp' = [tmp EXCEPT ![Tmp(p, Target(writer[p]))] = NONE]
      BY <1>4 DEF Rename, RenameTmp
    <2>2. Target(writer[p]) \in Names
      BY <1>4, TargetType DEF Rename, IInv, FilledInv
    <2>3. \A q \in Processes \ {p} : \A m : tmp'[Tmp(q, m)] = tmp[Tmp(q, m)]
      BY <2>1, <2>2, OthersKept DEF IInv
    <2>4. CASE writer[p].pc \in {"data", "html"}
      <3> DEFINE c == IF writer[p].pc = "data" THEN "sweep" ELSE "report"
                 W == [writer[p] EXCEPT !.stage = "create", !.pc = c]
      <3>1. writer' = [writer EXCEPT ![p] = W]
        BY <1>0, <1>4, <2>4 DEF Rename, WriterState
      <3>2. W.stage = "create" /\ W.form = writer[p].form
        BY <1>0 DEF WriterState
      <3> HIDE DEF W
      <3> QED
        BY <1>0, <2>3, <2>4, <3>1, <3>2, PendingKept DEF PendingInv
    <2>5. CASE writer[p].pc = "report"
      <3>1. writer' = [writer EXCEPT ![p] = IdleWriter]
        BY <1>4, <2>5 DEF Rename
      <3> QED
        BY <1>0, <2>3, <3>1, PendingKept DEF IdleWriter
    <2> QED
      BY <1>4, <2>4, <2>5 DEF Rename
  <1>5. CASE Sweep(p)
    <2> DEFINE W == [writer[p] EXCEPT !.pc = "html"]
    <2>1. writer' = [writer EXCEPT ![p] = W] /\ tmp' = tmp /\ writer[p].pc = "sweep"
      BY <1>5 DEF Sweep
    <2>2. W.stage = "create" /\ W.form = writer[p].form
      BY <1>0, <2>1 DEF WriterState, IInv, FilledInv
    <2> HIDE DEF W
    <2> QED
      BY <1>0, <1>t, <2>1, <2>2, PendingKept DEF PendingInv
  <1>6. CASE FailWrite(p)
    BY <1>0, <1>t, <1>6, PendingKept DEF FailWrite, IdleWriter
  <1> QED
    BY <1>1, <1>2, <1>3, <1>4, <1>5, <1>6 DEF OutputStep, WriteStep

(* A step of a writer that goes on: undisturbed, it is the only one.       *)
LEMMA CleanKept ==
  ASSUME CleanInv, NEW p \in Processes, NEW W, writer \in [Processes -> WriterState],
         writer' = [writer EXCEPT ![p] = W], writer[p].pc # "idle", W.pc # "idle",
         writes'.clean => writes.clean /\ Progress(files', W)
  PROVE  CleanInv'
  <1>1. writer'[p] = W /\ \A q \in Processes \ {p} : writer'[q] = writer[q]
    OBVIOUS
  <1>2. ASSUME writes'.clean, NEW q \in Processes, q # p PROVE writer'[q].pc = "idle"
    BY <1>1, <1>2 DEF CleanInv
  <1>3. ASSUME writes'.clean, NEW q \in Processes PROVE Progress(files', writer'[q])
    <2>1. CASE q = p
      BY <1>1, <1>3, <2>1
    <2>2. CASE q # p
      BY <1>2, <1>3, <2>2 DEF Progress
    <2> QED
      BY <2>1, <2>2
  <1>4. ~ \A q \in Processes : writer'[q].pc = "idle"
    BY <1>1
  <1> QED
    BY <1>1, <1>2, <1>3, <1>4 DEF CleanInv

LEMMA CleanBegin ==
  ASSUME IInv, CleanInv, NEW p \in Processes, NEW doc \in Docs, NEW form \in Forms,
         BeginWrite(p, doc, form)
  PROVE  CleanInv'
  <1> DEFINE W == [pc |-> "data", stage |-> "create", doc |-> doc, form |-> form]
  <1>1. writer' = [writer EXCEPT ![p] = W] /\ W.pc = "data"
    BY DEF BeginWrite
  <1>2. writes'.clean => Writing = {}
    BY DEF BeginWrite, IInv, TypeOK, WritesState
  <1> HIDE DEF W
  <1>3. writer'[p] = W /\ \A q \in Processes \ {p} : writer'[q] = writer[q]
    BY <1>1 DEF IInv, TypeOK
  <1>4. ASSUME writes'.clean, NEW q \in Processes, q # p PROVE writer'[q].pc = "idle"
    BY <1>2, <1>3, <1>4 DEF Writing
  <1>5. ASSUME writes'.clean, NEW q \in Processes PROVE Progress(files', writer'[q])
    BY <1>1, <1>3, <1>4, <1>5 DEF Progress
  <1> QED
    BY <1>1, <1>3, <1>4, <1>5 DEF CleanInv

LEMMA CleanSweep ==
  ASSUME IInv, PendingInv, CleanInv, NEW p \in Processes, Sweep(p)
  PROVE  CleanInv'
  <1> DEFINE W == [writer[p] EXCEPT !.pc = "html"]
  <1>1. /\ writer \in [Processes -> WriterState] /\ writer[p] \in WriterState
        /\ files \in [Names -> Contents] /\ writes \in WritesState
    BY DEF IInv, TypeOK
  <1>2. writer' = [writer EXCEPT ![p] = W] /\ writer[p].pc = "sweep"
    BY DEF Sweep
  <1>3. W.pc = "html" /\ W.doc = writer[p].doc /\ W.form = writer[p].form
    BY <1>1 DEF WriterState
  <1>4. writes'.clean => /\ writes.clean
                         /\ files' = [files EXCEPT ![Stale(writer[p].form)] = NONE]
    BY <1>1 DEF Sweep, WritesState
  <1>5. writer[p].form \in Forms
    BY <1>2 DEF PendingInv
  <1> HIDE DEF W
  <1>6. writes'.clean => Progress(files', W)
    BY <1>1, <1>2, <1>3, <1>4, <1>5, NamesDiffer DEF CleanInv, Progress
  <1> QED
    BY <1>1, <1>2, <1>3, <1>4, <1>6, CleanKept

LEMMA CleanRename ==
  ASSUME IInv, PendingInv, CleanInv, NEW p \in Processes, Rename(p)
  PROVE  CleanInv'
  <1> DEFINE V == writer[p]
             n == Target(V)
  <1>1. /\ writer \in [Processes -> WriterState] /\ V \in WriterState
        /\ files \in [Names -> Contents] /\ writes \in WritesState
    BY DEF IInv, TypeOK
  <1>2. V.pc \in {"data", "html", "report"} /\ V.form \in Forms /\ n \in Names
    BY TargetType DEF Rename, IInv, FilledInv, PendingInv
  <1>3. files' = [files EXCEPT ![n] = Payload(V)]
    BY DEF Rename, RenameTmp, PendingInv
  <1>4. files'[n] = Payload(V) /\ \A m \in Names \ {n} : files'[m] = files[m]
    BY <1>1, <1>2, <1>3
  <1>5. CASE V.pc \in {"data", "html"}
    <2> DEFINE c == IF V.pc = "data" THEN "sweep" ELSE "report"
               W == [V EXCEPT !.stage = "create", !.pc = c]
    <2>1. writer' = [writer EXCEPT ![p] = W] /\ writes' = writes
      BY <1>1, <1>5 DEF Rename, WriterState
    <2>2. W.pc = c /\ W.doc = V.doc /\ W.form = V.form
      BY <1>1 DEF WriterState
    <2> HIDE DEF W
    <2>3. writes.clean => Progress(files', W)
      <3>1. CASE V.pc = "data"
        BY <1>4, <2>2, <3>1 DEF Target, Payload, Data, Progress
      <3>2. CASE V.pc = "html"
        <4>1. n = "graph.html" /\ c = "report" /\ Payload(V) = Viewer(V.doc, V.form)
          BY <3>2 DEF Target, Payload, Viewer
        <4>2. writes.clean => files[DataFile(V.form)] = Data(V.doc) /\ files[Stale(V.form)] = NONE
          BY <3>2 DEF CleanInv, Progress
        <4> QED
          BY <1>2, <1>4, <2>2, <4>1, <4>2, NamesDiffer DEF Progress
      <3> QED
        BY <1>5, <3>1, <3>2
    <2> QED
      BY <1>1, <1>2, <1>5, <2>1, <2>2, <2>3, CleanKept
  <1>6. CASE V.pc = "report"
    <2>1. writer' = [writer EXCEPT ![p] = IdleWriter] /\ IdleWriter.pc = "idle"
      BY <1>6 DEF Rename, IdleWriter
    <2>2. /\ writes'.clean = writes.clean /\ writes'.ok = writes.clean
          /\ writes'.doc = V.doc /\ writes'.form = V.form
      BY <1>1, <1>6 DEF Rename, WritesState
    <2>3. \A q \in Processes : writer'[q] = IF q = p THEN IdleWriter ELSE writer[q]
      BY <1>1, <2>1
    <2>4. ASSUME writes.clean, NEW q \in Processes PROVE writer'[q].pc = "idle"
      BY <1>6, <2>1, <2>3, <2>4 DEF CleanInv
    <2>5. ASSUME writes.clean PROVE Published'
      <3>1. n = "GRAPH_REPORT.md" /\ Payload(V) = Data(V.doc)
        BY <1>6 DEF Target, Payload, Data
      <3>2. /\ files[DataFile(V.form)] = Data(V.doc) /\ files[Stale(V.form)] = NONE
            /\ files["graph.html"] = Viewer(V.doc, V.form)
        BY <1>6, <2>5 DEF CleanInv, Progress
      <3>3. /\ files'[DataFile(V.form)] = Data(V.doc) /\ files'[Stale(V.form)] = NONE
            /\ files'["graph.html"] = Viewer(V.doc, V.form)
            /\ files'["GRAPH_REPORT.md"] = Data(V.doc)
        BY <1>2, <1>4, <3>1, <3>2, NamesDiffer DEF OutputNames
      <3> QED
        BY <1>2, <2>2, <3>3 DEF Published, Data, Viewer, Stale, DataFile, Other
    <2>6. ASSUME writes.clean, NEW q \in Processes PROVE Progress(files', writer'[q])
      BY <2>4, <2>6 DEF Progress
    <2> QED
      BY <2>2, <2>4, <2>5, <2>6 DEF CleanInv
  <1> QED
    BY <1>2, <1>5, <1>6

LEMMA CleanStep ==
  ASSUME IInv, PendingInv, CleanInv, NEW p \in Processes,
         (\E doc \in Docs, form \in Forms : BeginWrite(p, doc, form)) \/ OutputStep(p)
  PROVE  CleanInv'
  <1>0. writer \in [Processes -> WriterState] /\ writer[p] \in WriterState /\ writes \in WritesState
    BY DEF IInv, TypeOK
  <1>1. CASE Create(p) \/ Fill(p)
    <2> DEFINE W(s) == [writer[p] EXCEPT !.stage = s]
    <2>1. PICK s \in {"fill", "rename"} : writer' = [writer EXCEPT ![p] = W(s)]
      BY <1>1 DEF Create, Fill
    <2>2. /\ W(s).pc = writer[p].pc /\ W(s).doc = writer[p].doc /\ W(s).form = writer[p].form
      BY <1>0 DEF WriterState
    <2>3. writes' = writes /\ files' = files /\ writer[p].pc # "idle"
      BY <1>1 DEF Create, CreateTmp, Fill, FillTmp, IInv, FilledInv
    <2> HIDE DEF W
    <2>4. writes.clean => Progress(files', W(s))
      BY <2>2, <2>3 DEF CleanInv, Progress
    <2> QED
      BY <1>0, <2>1, <2>2, <2>3, <2>4, CleanKept
  <1>2. CASE FailWrite(p)
    <2>1. /\ writer' = [writer EXCEPT ![p] = IdleWriter] /\ IdleWriter.pc = "idle" /\ files' = files
          /\ writes'.clean = writes.clean /\ writes'.ok = FALSE
      BY <1>0, <1>2 DEF FailWrite, IdleWriter, WritesState
    <2>2. \A q \in Processes : writer'[q] = IF q = p THEN IdleWriter ELSE writer[q]
      BY <1>0, <2>1
    <2> QED
      BY <2>1, <2>2 DEF CleanInv, Progress
  <1> QED
    BY <1>1, <1>2, CleanBegin, CleanSweep, CleanRename DEF OutputStep, WriteStep

LEMMA Undisturbed == Spec => [](IInv /\ PendingInv /\ CleanInv)
  <1>1. Init => PendingInv /\ CleanInv
    BY DEF Init, InitOutput, InitFiles, PendingInv, CleanInv, IdleWriter
  <1>2. IInv /\ PendingInv /\ CleanInv /\ [Next]_vars => PendingInv' /\ CleanInv'
    <2> SUFFICES ASSUME IInv, PendingInv, CleanInv, [Next]_vars PROVE PendingInv' /\ CleanInv'
      OBVIOUS
    <2>1. CASE UNCHANGED outputVars
      BY <2>1 DEF outputVars, PendingInv, CleanInv, Progress, Published, Tmp, Target, Payload
    <2>2. ASSUME NEW p \in Processes,
                 (\E doc \in Docs, form \in Forms : BeginWrite(p, doc, form)) \/ OutputStep(p)
          PROVE  PendingInv' /\ CleanInv'
      BY <2>2, PendingStep, CleanStep
    <2> QED
      BY <2>1, <2>2 DEF Next, vars, Find, Read, LookUp
  <1> QED
    BY <1>1, <1>2, Invariance, PTL DEF Spec

LEMMA IdlePublished ==
  ASSUME CleanInv, Writing = {}, writes.ok
  PROVE  Published
  BY DEF CleanInv, Writing

(* After a write that succeeded undisturbed, one form of the graph is in   *)
(* the directory, whatever overlapped, failed or was killed before it.     *)
THEOREM OneFormOnDisk == Spec => []OneForm
  <1>1. IInv /\ CleanInv => OneForm
    <2> SUFFICES ASSUME IInv, CleanInv, Writing = {}, writes.ok
                 PROVE  Cardinality({f \in {"gz", "plain"} : files[DataFile(f)] # NONE}) = 1
      BY DEF OneForm
    <2>1. Published
      BY IdlePublished
    <2>2. writes.doc \in AnyDoc /\ writes.form \in {"gz", "plain"}
      BY <2>1, OutputAssumption DEF OutputAssumption, IInv, TypeOK, WritesState, Published
    <2>3. Data(writes.doc) # NONE
      BY <2>2, OutputAssumption DEF OutputAssumption, Whole, Data
    <2>4. {f \in {"gz", "plain"} : files[DataFile(f)] # NONE} = {writes.form}
      BY <2>1, <2>2, <2>3 DEF Published, Stale, Other, DataFile
    <2> QED
      BY <2>4, FS_Singleton
  <1> QED
    BY <1>1, Undisturbed, PTL

(* After such a write the data, the report and what the viewer shows, from *)
(* its own text or from the data it fetches, are of the graph written.     *)
THEOREM OutputsOfOneGraph == Spec => []OutputsAgree
  <1>1. IInv /\ CleanInv => OutputsAgree
    <2> SUFFICES ASSUME IInv, CleanInv, Writing = {}, writes.ok PROVE OutputsAgree
      BY DEF OutputsAgree
    <2> DEFINE d == writes.doc
               f == writes.form
    <2>1. Published
      BY IdlePublished
    <2>2. d \in AnyDoc /\ f \in {"gz", "plain"}
      BY <2>1, OutputAssumption DEF OutputAssumption, IInv, TypeOK, WritesState, Published
    <2>3. Data(d) \in Whole /\ Viewer(d, f) \in Whole
      BY <2>2 DEF Data, Viewer, Whole, AnyDoc, DataFile
    <2>4. Shown(DataFile(f)) = d /\ Shown("GRAPH_REPORT.md") = d
      BY <2>1, <2>3, OutputAssumption DEF OutputAssumption, Published, Shown, Data
    <2>5. /\ Shown("graph.html") = IF d \in Large THEN NONE ELSE d
          /\ files["graph.html"].fetch = DataFile(f)
      BY <2>1, <2>3, OutputAssumption DEF OutputAssumption, Published, Shown, Viewer
    <2>6. Shown(IF Shown("graph.html") = NONE THEN files["graph.html"].fetch ELSE "graph.html") = d
      BY <2>4, <2>5
    <2> QED
      BY <2>4, <2>6 DEF OutputsAgree
  <1> QED
    BY <1>1, Undisturbed, PTL
=============================================================================
