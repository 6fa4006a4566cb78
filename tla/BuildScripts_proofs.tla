-------------------------- MODULE BuildScripts_proofs --------------------------
(***************************************************************************)
(* Proof that the scripts of a build, however many there are and however   *)
(* they interleave, leave one of them with the union of all fragments:     *)
(* the last one to put its fragment in place finds every other.            *)
(***************************************************************************)
EXTENDS BuildScripts, TLAPS

Written(c) == files[Frag[c]] = FragmentOf(c, version[c])

Shape ==
  /\ DOMAIN files = Names /\ DOMAIN tmp = Names \X Processes
  /\ version \in [Processes -> 1..MaxBuilds] /\ builds \in 1..MaxBuilds
  /\ \A c \in Processes : version[c] <= builds
  /\ batch \subseteq Processes
  /\ script \in [Processes -> ScriptState]

(* A fragment in place is of its crate and not of a later version.         *)
FragmentInv ==
  \A c \in Processes :
    files[Frag[c]] \in {NONE} \union {FragmentOf(c, v) : v \in 1..version[c]}

(* What a script's step says of its fragment and of what it has merged.    *)
ProgressInv ==
  \A c \in Processes :
    /\ script[c].pc \notin {"done", "failed"} => c \in batch
    /\ script[c].pc \in {"begin", "fill", "rename", "list"} => script[c].merged = {}
    /\ script[c].pc = "rename" => tmp[Tmp(c, Frag[c])] = FragmentOf(c, version[c])
    /\ script[c].pc \in {"list", "read", "output", "done"} => Written(c)
    /\ script[c].todo \subseteq {Frag[d] : d \in Processes}

(* Script c has merged, or is about to merge, all current fragments.       *)
Sees(c) ==
  \/ script[c].pc \in {"list", "failed"}
  \/ /\ script[c].pc = "read"
     /\ script[c].merged \subseteq Current
     /\ \A d \in Processes : <<d, version[d]>> \in script[c].merged \/ Frag[d] \in script[c].todo
  \/ script[c].pc \in {"output", "done"} /\ script[c].merged = Current

UnionInv == (\A c \in Processes : Written(c)) => \E c \in batch : Sees(c)

IInv == Shape /\ FragmentInv /\ ProgressInv /\ UnionInv

Injective == \A c, d \in Processes : Frag[c] = Frag[d] => c = d

-----------------------------------------------------------------------------
LEMMA FragmentWhole ==
  ASSUME NEW c \in Processes, NEW v \in 1..MaxBuilds
  PROVE  FragmentOf(c, v) \notin {NONE, TORN}
  <1>1. {<<c, v>>} \in Docs
    BY ScriptsAssumption DEF ScriptsAssumption
  <1>2. FragmentOf(c, v) \in Whole
    BY <1>1 DEF FragmentOf, Whole, AnyDoc
  <1> QED
    BY <1>2, OutputAssumption DEF OutputAssumption

LEMMA FragmentsDiffer ==
  ASSUME NEW c, NEW v, NEW w, FragmentOf(c, v) = FragmentOf(c, w)
  PROVE  v = w
  <1>1. FragmentOf(c, v).doc = FragmentOf(c, w).doc
    OBVIOUS
  <1>2. {<<c, v>>} = {<<c, w>>}
    BY <1>1 DEF FragmentOf
  <1>3. <<c, v>> \in {<<c, w>>}
    BY <1>2
  <1> QED
    BY <1>3

LEMMA InitInv == Processes # {} /\ InitScripts => IInv
  <1> SUFFICES ASSUME Processes # {}, InitScripts PROVE IInv
    OBVIOUS
  <1> USE DEF InitScripts, InitOutput, InitFiles
  <1>1. Begun \in ScriptState /\ Begun.pc = "begin" /\ Begun.merged = {} /\ Begun.todo = {}
    BY DEF Begun, NotRun, ScriptState
  <1>2. Shape
    BY <1>1, ScriptsAssumption DEF ScriptsAssumption, Shape
  <1>3. \A c \in Processes : files[Frag[c]] = NONE
    BY ScriptsAssumption DEF ScriptsAssumption
  <1>4. FragmentInv /\ ProgressInv
    BY <1>1, <1>3 DEF FragmentInv, ProgressInv
  <1>5. \A c \in Processes : ~Written(c)
    BY <1>2, <1>3, FragmentWhole DEF Written, Shape
  <1>6. UnionInv
    BY <1>5 DEF UnionInv
  <1> QED
    BY <1>2, <1>4, <1>6 DEF IInv

(* A step of script c that leaves the fragments in place alone preserves   *)
(* the invariant when the script's own part of it is preserved.            *)
LEMMA LocalStep ==
  ASSUME IInv, NEW c \in Processes, NEW S \in ScriptState,
         script' = [script EXCEPT ![c] = S], UNCHANGED <<version, builds, batch>>,
         DOMAIN files' = Names, DOMAIN tmp' = Names \X Processes,
         \A d \in Processes : files'[Frag[d]] = files[Frag[d]],
         \A d \in Processes \ {c} : tmp'[Tmp(d, Frag[d])] = tmp[Tmp(d, Frag[d])],
         S.pc \notin {"done", "failed"} => c \in batch,
         S.pc \in {"begin", "fill", "rename", "list"} => S.merged = {},
         S.pc = "rename" => tmp'[Tmp(c, Frag[c])] = FragmentOf(c, version[c]),
         S.pc \in {"list", "read", "output", "done"} => Written(c),
         S.todo \subseteq {Frag[d] : d \in Processes},
         Sees(c) /\ (\A d \in Processes : Written(d)) => Sees(c)'
  PROVE  IInv'
  <1>1. script' \in [Processes -> ScriptState] /\ script'[c] = S
        /\ \A d \in Processes \ {c} : script'[d] = script[d]
    BY DEF IInv, Shape
  <1>2. \A d \in Processes : Written(d)' <=> Written(d)
    BY DEF Written
  <1>3. Shape'
    BY <1>1 DEF IInv, Shape
  <1>4. FragmentInv'
    BY DEF IInv, FragmentInv
  <1>5. ProgressInv'
    <2> SUFFICES ASSUME NEW d \in Processes
                 PROVE  /\ script'[d].pc \notin {"done", "failed"} => d \in batch'
                        /\ script'[d].pc \in {"begin", "fill", "rename", "list"} => script'[d].merged = {}
                        /\ script'[d].pc = "rename" => tmp'[Tmp(d, Frag[d])] = FragmentOf(d, version'[d])
                        /\ script'[d].pc \in {"list", "read", "output", "done"} => Written(d)'
                        /\ script'[d].todo \subseteq {Frag[e] : e \in Processes}
      BY DEF ProgressInv, Tmp, FragmentOf
    <2>1. CASE d = c
      BY <1>1, <1>2, <2>1
    <2>2. CASE d # c
      BY <1>1, <1>2, <2>2 DEF IInv, ProgressInv
    <2> QED
      BY <2>1, <2>2
  <1>6. UnionInv'
    <2> SUFFICES ASSUME \A d \in Processes : Written(d) PROVE \E d \in batch : Sees(d)'
      BY <1>2 DEF UnionInv
    <2>1. PICK d \in batch : Sees(d)
      BY DEF IInv, UnionInv
    <2>2. d \in Processes
      BY <2>1 DEF IInv, Shape
    <2>3. CASE d = c
      BY <2>1, <2>3
    <2>4. CASE d # c
      BY <1>1, <2>1, <2>2, <2>4 DEF Sees, Current
    <2> QED
      BY <2>1, <2>3, <2>4
  <1> QED
    BY <1>3, <1>4, <1>5, <1>6 DEF IInv

-----------------------------------------------------------------------------
(* The steps of a script before its fragment is in place.                  *)
LEMMA CollectStep ==
  ASSUME IInv, Injective, NEW c \in Processes, Collect(c)
  PROVE  IInv'
  <1> DEFINE S == [script[c] EXCEPT !.pc = "fill"]
  <1>1. /\ S \in ScriptState /\ S.pc = "fill" /\ S.merged = script[c].merged
        /\ S.todo = script[c].todo
    BY DEF IInv, Shape, ScriptState
  <1>2. /\ script' = [script EXCEPT ![c] = S] /\ script[c].pc = "begin"
        /\ UNCHANGED <<files, version, builds, batch>>
        /\ tmp' = [tmp EXCEPT ![Tmp(c, Frag[c])] = TORN]
    BY DEF Collect, CreateTmp
  <1>3. \A d \in Processes \ {c} : tmp'[Tmp(d, Frag[d])] = tmp[Tmp(d, Frag[d])]
    BY <1>2 DEF Tmp
  <1>4. DOMAIN files' = Names /\ DOMAIN tmp' = Names \X Processes
    BY <1>2 DEF IInv, Shape
  <1>5. /\ c \in batch /\ S.merged = {} /\ S.todo \subseteq {Frag[d] : d \in Processes}
    BY <1>1, <1>2 DEF IInv, ProgressInv
  <1>6. ~Sees(c)
    BY <1>2 DEF Sees
  <1> QED
    BY <1>1, <1>2, <1>3, <1>4, <1>5, <1>6, LocalStep

LEMMA FillStep ==
  ASSUME IInv, Injective, NEW c \in Processes, FillFragment(c)
  PROVE  IInv'
  <1> DEFINE S == [script[c] EXCEPT !.pc = "rename"]
  <1>1. /\ S \in ScriptState /\ S.pc = "rename" /\ S.merged = script[c].merged
        /\ S.todo = script[c].todo
    BY DEF IInv, Shape, ScriptState
  <1>2. /\ script' = [script EXCEPT ![c] = S] /\ script[c].pc = "fill"
        /\ UNCHANGED <<files, version, builds, batch>>
        /\ tmp' = [tmp EXCEPT ![Tmp(c, Frag[c])] = FragmentOf(c, version[c])]
    BY DEF FillFragment, FillTmp
  <1>3. /\ \A d \in Processes \ {c} : tmp'[Tmp(d, Frag[d])] = tmp[Tmp(d, Frag[d])]
        /\ tmp'[Tmp(c, Frag[c])] = FragmentOf(c, version[c])
    BY <1>2, ScriptsAssumption DEF ScriptsAssumption, Tmp, IInv, Shape
  <1>4. DOMAIN files' = Names /\ DOMAIN tmp' = Names \X Processes
    BY <1>2 DEF IInv, Shape
  <1>5. /\ c \in batch /\ S.merged = {} /\ S.todo \subseteq {Frag[d] : d \in Processes}
    BY <1>1, <1>2 DEF IInv, ProgressInv
  <1>6. ~Sees(c)
    BY <1>2 DEF Sees
  <1> QED
    BY <1>1, <1>2, <1>3, <1>4, <1>5, <1>6, LocalStep

(* Putting a fragment in place: if it is the last one, its own script is   *)
(* one that has yet to look.                                               *)
LEMMA RenameStep ==
  ASSUME IInv, Injective, NEW c \in Processes, RenameFragment(c)
  PROVE  IInv'
  <1> DEFINE S == [script[c] EXCEPT !.pc = "list"]
             F == FragmentOf(c, version[c])
  <1>1. /\ S \in ScriptState /\ S.pc = "list" /\ S.merged = script[c].merged
        /\ S.todo = script[c].todo
    BY DEF IInv, Shape, ScriptState
  <1>2. /\ script' = [script EXCEPT ![c] = S] /\ script[c].pc = "rename"
        /\ UNCHANGED <<version, builds, batch>>
        /\ files' = [files EXCEPT ![Frag[c]] = tmp[Tmp(c, Frag[c])]]
        /\ tmp' = [tmp EXCEPT ![Tmp(c, Frag[c])] = NONE]
    BY DEF RenameFragment, RenameTmp
  <1>3. tmp[Tmp(c, Frag[c])] = F
    BY <1>2 DEF IInv, ProgressInv
  <1>4. \A d \in Processes : Frag[d] \in Names
    BY ScriptsAssumption DEF ScriptsAssumption
  <1>5. /\ files'[Frag[c]] = F
        /\ \A d \in Processes \ {c} : files'[Frag[d]] = files[Frag[d]]
        /\ \A d \in Processes \ {c} : tmp'[Tmp(d, Frag[d])] = tmp[Tmp(d, Frag[d])]
        /\ DOMAIN files' = Names /\ DOMAIN tmp' = Names \X Processes
    BY <1>2, <1>3, <1>4 DEF IInv, Shape, Injective, Tmp
  <1>6. /\ script' \in [Processes -> ScriptState] /\ script'[c] = S
        /\ \A d \in Processes \ {c} : script'[d] = script[d]
    BY <1>1, <1>2 DEF IInv, Shape
  <1>7. Shape'
    BY <1>2, <1>5, <1>6 DEF IInv, Shape
  <1>8. FragmentInv'
    <2>1. version[c] \in 1..version[c]
      BY ScriptsAssumption DEF ScriptsAssumption, IInv, Shape
    <2> QED
      BY <1>2, <1>5, <2>1 DEF IInv, FragmentInv, FragmentOf
  <1>9. ProgressInv'
    <2> SUFFICES ASSUME NEW d \in Processes
                 PROVE  /\ script'[d].pc \notin {"done", "failed"} => d \in batch'
                        /\ script'[d].pc \in {"begin", "fill", "rename", "list"} => script'[d].merged = {}
                        /\ script'[d].pc = "rename" => tmp'[Tmp(d, Frag[d])] = FragmentOf(d, version'[d])
                        /\ script'[d].pc \in {"list", "read", "output", "done"} => Written(d)'
                        /\ script'[d].todo \subseteq {Frag[e] : e \in Processes}
      BY DEF ProgressInv, Tmp, FragmentOf
    <2>1. CASE d = c
      BY <1>1, <1>2, <1>5, <1>6, <2>1 DEF IInv, ProgressInv, Written
    <2>2. CASE d # c
      BY <1>2, <1>5, <1>6, <2>2 DEF IInv, ProgressInv, Written
    <2> QED
      BY <2>1, <2>2
  <1>10. UnionInv'
    <2>1. c \in batch'
      BY <1>2 DEF IInv, ProgressInv
    <2>2. Sees(c)'
      BY <1>1, <1>6 DEF Sees
    <2> QED
      BY <2>1, <2>2 DEF UnionInv
  <1> QED
    BY <1>7, <1>8, <1>9, <1>10 DEF IInv

(* Looking for the fragments, and reading them one by one. *)
LEMMA ListStep ==
  ASSUME IInv, NEW c \in Processes, ListFragments(c)
  PROVE  IInv'
  <1> DEFINE S == [script[c] EXCEPT !.pc = "read", !.todo = Listed]
  <1>1. Listed \subseteq Names /\ Listed \subseteq {Frag[d] : d \in Processes}
    BY ScriptsAssumption DEF ScriptsAssumption, Listed
  <1>2. /\ S \in ScriptState /\ S.pc = "read" /\ S.merged = script[c].merged
        /\ S.todo = Listed
    BY <1>1 DEF IInv, Shape, ScriptState
  <1>3. /\ script' = [script EXCEPT ![c] = S] /\ script[c].pc = "list"
        /\ UNCHANGED <<files, tmp, version, builds, batch>>
    BY DEF ListFragments, outputVars
  <1>4. /\ c \in batch /\ S.merged = {} /\ Written(c)
    BY <1>2, <1>3 DEF IInv, ProgressInv
  <1>5. ASSUME \A d \in Processes : Written(d) PROVE Sees(c)'
    <2>1. \A d \in Processes : files[Frag[d]] # NONE
      BY <1>5, FragmentWhole DEF IInv, Shape, Written
    <2>2. \A d \in Processes : Frag[d] \in Listed
      BY <2>1 DEF Listed
    <2>3. script'[c] = S
      BY <1>3 DEF IInv, Shape
    <2> QED
      BY <1>2, <1>4, <2>2, <2>3 DEF Sees
  <1>6. DOMAIN files' = Names /\ DOMAIN tmp' = Names \X Processes
    BY <1>3 DEF IInv, Shape
  <1> QED
    BY <1>1, <1>2, <1>3, <1>4, <1>5, <1>6, LocalStep

LEMMA ReadStep ==
  ASSUME IInv, Injective, NEW c \in Processes, NEW n \in script[c].todo, ReadFragment(c, n)
  PROVE  IInv'
  <1> DEFINE M == IF files[n] \in {NONE, TORN} THEN script[c].merged
                  ELSE script[c].merged \union files[n].doc
             S == [script[c] EXCEPT !.todo = @ \ {n}, !.merged = M]
  <1>1. PICK q \in Processes : n = Frag[q]
    BY DEF IInv, ProgressInv
  <1>2. M \in SUBSET (Processes \X (1..MaxBuilds))
    <2>1. script[c].merged \in SUBSET (Processes \X (1..MaxBuilds))
      BY DEF IInv, Shape, ScriptState
    <2>2. CASE files[n] \in {NONE, TORN}
      BY <2>1, <2>2
    <2>3. CASE files[n] \notin {NONE, TORN}
      <3>1. PICK v \in 1..version[q] : files[n] = FragmentOf(q, v)
        BY <1>1, <2>3 DEF IInv, FragmentInv
      <3>2. v \in 1..MaxBuilds
        BY ScriptsAssumption DEF ScriptsAssumption, IInv, Shape
      <3>3. files[n].doc = {<<q, v>>}
        BY <3>1 DEF FragmentOf
      <3> QED
        BY <2>1, <2>3, <3>2, <3>3
    <2> QED
      BY <2>2, <2>3
  <1> HIDE DEF M
  <1>3. /\ S \in ScriptState /\ S.pc = script[c].pc /\ S.merged = M
        /\ S.todo = script[c].todo \ {n}
    BY <1>2 DEF IInv, Shape, ScriptState
  <1>4. /\ script' = [script EXCEPT ![c] = S] /\ script[c].pc = "read"
        /\ UNCHANGED <<files, tmp, version, builds, batch>>
    BY DEF ReadFragment, outputVars, M
  <1>5. c \in batch /\ Written(c) /\ S.todo \subseteq {Frag[d] : d \in Processes}
    BY <1>3, <1>4 DEF IInv, ProgressInv
  <1>6. ASSUME Sees(c), \A d \in Processes : Written(d) PROVE Sees(c)'
    <2>1. files[n] = FragmentOf(q, version[q]) /\ files[n] \notin {NONE, TORN}
      BY <1>1, <1>6, FragmentWhole DEF Written, IInv, Shape
    <2>2. M = script[c].merged \union {<<q, version[q]>>}
      BY <2>1 DEF M, FragmentOf
    <2>3. /\ script[c].merged \subseteq Current
          /\ \A d \in Processes : <<d, version[d]>> \in script[c].merged \/ Frag[d] \in script[c].todo
      BY <1>4, <1>6 DEF Sees
    <2>4. M \subseteq Current
      BY <2>2, <2>3 DEF Current
    <2>5. \A d \in Processes : <<d, version[d]>> \in M \/ Frag[d] \in script[c].todo \ {n}
      BY <1>1, <2>2, <2>3 DEF Injective
    <2>6. script'[c] = S /\ version' = version /\ Current' = Current
      BY <1>4 DEF IInv, Shape, Current
    <2>7. S.pc = "read"
      BY <1>3, <1>4
    <2> HIDE DEF S
    <2>8. /\ script'[c].pc = "read" /\ script'[c].merged \subseteq Current'
          /\ \A d \in Processes : <<d, version'[d]>> \in script'[c].merged \/ Frag[d] \in script'[c].todo
      BY <1>3, <2>4, <2>5, <2>6, <2>7
    <2> QED
      BY <2>8 DEF Sees
  <1>7. DOMAIN files' = Names /\ DOMAIN tmp' = Names \X Processes
    BY <1>4 DEF IInv, Shape
  <1> QED
    BY <1>3, <1>4, <1>5, <1>6, <1>7, LocalStep

LEMMA UnionStep ==
  ASSUME IInv, NEW c \in Processes, WriteUnion(c)
  PROVE  IInv'
  <1> DEFINE S == [script[c] EXCEPT !.pc = "output"]
  <1>1. /\ S \in ScriptState /\ S.pc = "output" /\ S.merged = script[c].merged
        /\ S.todo = script[c].todo
    BY DEF IInv, Shape, ScriptState
  <1>2. /\ script' = [script EXCEPT ![c] = S] /\ script[c].pc = "read" /\ script[c].todo = {}
        /\ UNCHANGED <<files, tmp, version, builds, batch>>
    BY DEF WriteUnion, BeginWrite
  <1>3. c \in batch /\ Written(c) /\ S.todo \subseteq {Frag[d] : d \in Processes}
    BY <1>1, <1>2 DEF IInv, ProgressInv
  <1>4. ASSUME Sees(c) PROVE Sees(c)'
    <2>1. script[c].merged = Current
      BY <1>2, <1>4 DEF Sees, Current
    <2>2. script'[c] = S /\ Current' = Current
      BY <1>2 DEF IInv, Shape, Current
    <2> QED
      BY <1>1, <2>1, <2>2 DEF Sees
  <1>5. DOMAIN files' = Names /\ DOMAIN tmp' = Names \X Processes
    BY <1>2 DEF IInv, Shape
  <1> QED
    BY <1>1, <1>2, <1>3, <1>4, <1>5, LocalStep

(* Writing the outputs leaves the fragments alone. *)
LEMMA OutputScriptStep ==
  ASSUME IInv, NEW c \in Processes, Output(c)
  PROVE  IInv'
  <1>1. PICK pc \in {"output", "done", "failed"} :
          script' = [script EXCEPT ![c] = [script[c] EXCEPT !.pc = pc]]
    <2>1. CASE script' = [script EXCEPT ![c].pc = IF writer'[c].pc = "idle" THEN "done" ELSE "output"]
      BY <2>1
    <2>2. CASE script' = [script EXCEPT ![c].pc = "failed"]
      BY <2>2
    <2> QED
      BY <2>1, <2>2 DEF Output
  <1> DEFINE S == [script[c] EXCEPT !.pc = pc]
  <1>2. /\ S \in ScriptState /\ S.pc = pc /\ S.merged = script[c].merged
        /\ S.todo = script[c].todo
    BY DEF IInv, Shape, ScriptState
  <1>3. script[c].pc = "output" /\ OutputStep(c) /\ UNCHANGED <<version, builds, batch>>
    BY DEF Output, OutputStep
  <1>4. c \in batch /\ Written(c) /\ S.todo \subseteq {Frag[d] : d \in Processes}
    BY <1>2, <1>3 DEF IInv, ProgressInv
  <1>5. /\ DOMAIN files' = Names /\ DOMAIN tmp' = Names \X Processes
        /\ \A d \in Processes : files'[Frag[d]] = files[Frag[d]]
        /\ \A d \in Processes \ {c} : tmp'[Tmp(d, Frag[d])] = tmp[Tmp(d, Frag[d])]
    <2>1. Target(writer[c]) \in OutputNames /\ Stale(writer[c].form) \in OutputNames
      BY DEF Target, Stale, DataFile, OutputNames
    <2>2. \/ files' = files
          \/ \E n \in OutputNames : \E x : files' = [files EXCEPT ![n] = x]
      BY <1>3, <2>1 DEF OutputStep, WriteStep, Create, CreateTmp, Fill,
                            FillTmp, Rename, RenameTmp, Sweep, FailWrite
    <2>3. \/ tmp' = tmp
          \/ \E n \in OutputNames : \E x : tmp' = [tmp EXCEPT ![Tmp(c, n)] = x]
      BY <1>3, <2>1 DEF OutputStep, WriteStep, Create, CreateTmp, Fill,
                            FillTmp, Rename, RenameTmp, Sweep, FailWrite
    <2>4. \A d \in Processes : Frag[d] \notin OutputNames
      BY ScriptsAssumption DEF ScriptsAssumption
    <2>5. DOMAIN files' = Names /\ \A d \in Processes : files'[Frag[d]] = files[Frag[d]]
      <3>1. CASE files' = files
        BY <3>1 DEF IInv, Shape
      <3>2. ASSUME NEW n \in OutputNames, NEW x, files' = [files EXCEPT ![n] = x]
            PROVE  DOMAIN files' = Names /\ \A d \in Processes : files'[Frag[d]] = files[Frag[d]]
        <4>1. \A d \in Processes : Frag[d] \in Names /\ Frag[d] # n
          BY <2>4, ScriptsAssumption DEF ScriptsAssumption
        <4> QED
          BY <3>2, <4>1 DEF IInv, Shape
      <3> QED
        BY <2>2, <3>1, <3>2
    <2>6. DOMAIN tmp' = Names \X Processes
          /\ \A d \in Processes \ {c} : tmp'[Tmp(d, Frag[d])] = tmp[Tmp(d, Frag[d])]
      <3>1. CASE tmp' = tmp
        BY <3>1 DEF IInv, Shape, Tmp
      <3>2. ASSUME NEW n \in OutputNames, NEW x, tmp' = [tmp EXCEPT ![<<n, c>>] = x]
            PROVE  DOMAIN tmp' = Names \X Processes
                   /\ \A d \in Processes \ {c} : tmp'[<<Frag[d], d>>] = tmp[<<Frag[d], d>>]
        <4>1. \A d \in Processes \ {c} : /\ <<Frag[d], d>> \in Names \X Processes
                                         /\ <<Frag[d], d>> # <<n, c>>
          BY ScriptsAssumption DEF ScriptsAssumption
        <4> QED
          BY <3>2, <4>1 DEF IInv, Shape
      <3> QED
        BY <2>3, <3>1, <3>2 DEF Tmp
    <2> QED
      BY <2>5, <2>6
  <1>6. ASSUME Sees(c) PROVE Sees(c)'
    <2>1. script[c].merged = Current
      BY <1>3, <1>6 DEF Sees
    <2>2. script'[c] = S /\ Current' = Current
      BY <1>1, <1>3 DEF IInv, Shape, Current
    <2> QED
      BY <1>2, <2>1, <2>2 DEF Sees
  <1> HIDE DEF S
  <1> QED
    BY <1>1, <1>2, <1>3, <1>4, <1>5, <1>6, LocalStep DEF S

LEMMA FailScriptStep ==
  ASSUME IInv, NEW c \in Processes, FailScript(c)
  PROVE  IInv'
  <1> DEFINE S == [pc |-> "failed", todo |-> {}, merged |-> {}]
  <1>1. S \in ScriptState
    BY DEF ScriptState
  <1>2. /\ script' = [script EXCEPT ![c] = S]
        /\ UNCHANGED <<files, tmp, version, builds, batch>>
    <2>1. [NotRun EXCEPT !.pc = "failed"] = S
      BY DEF NotRun
    <2> QED
      BY <2>1 DEF FailScript, outputVars
  <1>3. Sees(c)'
    BY <1>2 DEF Sees, IInv, Shape
  <1>4. DOMAIN files' = Names /\ DOMAIN tmp' = Names \X Processes
    BY <1>2 DEF IInv, Shape
  <1> QED
    BY <1>1, <1>2, <1>3, <1>4, LocalStep

(* The next build: the fragments of the changed crates are out of date. *)
LEMMA RebuildStep ==
  ASSUME IInv, Rebuild
  PROVE  IInv'
  <1>1. /\ batch' \in (SUBSET Processes) \ {{}} /\ UNCHANGED <<files, tmp>>
        /\ version' = [c \in Processes |-> IF c \in batch' THEN version[c] + 1 ELSE version[c]]
        /\ script' = [c \in Processes |-> IF c \in batch' THEN Begun ELSE script[c]]
        /\ \A c \in Processes : script[c].pc \in {"done", "failed"}
        /\ builds < MaxBuilds /\ builds' = builds + 1
    BY DEF Rebuild, outputVars
  <1>2. Begun \in ScriptState /\ Begun.pc = "begin" /\ Begun.merged = {} /\ Begun.todo = {}
    BY DEF Begun, NotRun, ScriptState
  <1>3. /\ version' \in [Processes -> 1..MaxBuilds] /\ builds' \in 1..MaxBuilds
        /\ \A c \in Processes : version'[c] <= builds' /\ version[c] \in 1..version'[c]
        /\ \A c \in batch' : version'[c] \notin 1..version[c]
    BY <1>1, ScriptsAssumption DEF ScriptsAssumption, IInv, Shape
  <1>4. Shape'
    BY <1>1, <1>2, <1>3 DEF IInv, Shape
  <1>5. FragmentInv'
    <2> SUFFICES ASSUME NEW c \in Processes
                 PROVE  files[Frag[c]] \in {NONE} \union {FragmentOf(c, v) : v \in 1..version'[c]}
      BY <1>1 DEF FragmentInv, FragmentOf
    <2>1. CASE files[Frag[c]] = NONE
      BY <2>1
    <2>2. CASE files[Frag[c]] # NONE
      <3>1. PICK v \in 1..version[c] : files[Frag[c]] = FragmentOf(c, v)
        BY <2>2 DEF IInv, FragmentInv
      <3>2. v \in 1..version'[c]
        BY <1>3, ScriptsAssumption DEF ScriptsAssumption, IInv, Shape
      <3> QED
        BY <3>1, <3>2
    <2> QED
      BY <2>1, <2>2
  <1>6. ProgressInv'
    <2> SUFFICES ASSUME NEW c \in Processes
                 PROVE  /\ script'[c].pc \notin {"done", "failed"} => c \in batch'
                        /\ script'[c].pc \in {"begin", "fill", "rename", "list"} => script'[c].merged = {}
                        /\ script'[c].pc = "rename" => tmp'[Tmp(c, Frag[c])] = FragmentOf(c, version'[c])
                        /\ script'[c].pc \in {"list", "read", "output", "done"} => Written(c)'
                        /\ script'[c].todo \subseteq {Frag[d] : d \in Processes}
      BY DEF ProgressInv, Tmp, FragmentOf
    <2>1. CASE c \in batch'
      BY <1>1, <1>2, <2>1
    <2>2. CASE c \notin batch'
      <3>1. script'[c] = script[c] /\ version'[c] = version[c] /\ files' = files
        BY <1>1, <2>2
      <3> QED
        BY <1>1, <3>1 DEF IInv, ProgressInv, Written
    <2> QED
      BY <2>1, <2>2
  <1>7. UnionInv'
    <2>1. PICK c \in batch' : c \in Processes
      BY <1>1
    <2>2. files[Frag[c]] # FragmentOf(c, version'[c])
      <3>1. CASE files[Frag[c]] = NONE
        BY <1>3, <2>1, <3>1, FragmentWhole
      <3>2. CASE files[Frag[c]] # NONE
        <4>1. PICK v \in 1..version[c] : files[Frag[c]] = FragmentOf(c, v)
          BY <2>1, <3>2 DEF IInv, FragmentInv
        <4>2. v # version'[c]
          BY <1>3, <2>1, <4>1
        <4> QED
          BY <4>1, <4>2, FragmentsDiffer
      <3> QED
        BY <3>1, <3>2
    <2>3. ~Written(c)'
      BY <1>1, <2>2 DEF Written
    <2> QED
      BY <2>1, <2>3 DEF UnionInv
  <1> QED
    BY <1>4, <1>5, <1>6, <1>7 DEF IInv

LEMMA StepInv == Injective /\ IInv /\ [NextScripts]_allVars => IInv'
  <1> SUFFICES ASSUME Injective, IInv, [NextScripts]_allVars PROVE IInv'
    OBVIOUS
  <1>1. CASE UNCHANGED allVars
    <2>1. UNCHANGED <<files, tmp, version, builds, batch, script>>
      BY <1>1 DEF allVars, vars, outputVars, scriptVars
    <2>2. Shape' /\ FragmentInv'
      BY <2>1 DEF IInv, Shape, FragmentInv, FragmentOf
    <2>3. ProgressInv'
      BY <2>1 DEF IInv, ProgressInv, Written, Tmp, FragmentOf
    <2>4. UnionInv'
      BY <2>1 DEF IInv, UnionInv, Written, Sees, Current, FragmentOf
    <2> QED
      BY <2>2, <2>3, <2>4 DEF IInv
  <1>2. ASSUME NEW c \in Processes, Script(c) PROVE IInv'
    BY <1>2, CollectStep, FillStep, RenameStep, ListStep, ReadStep, UnionStep, OutputScriptStep
       DEF Script
  <1>3. ASSUME NEW c \in Processes, FailScript(c) PROVE IInv'
    BY <1>3, FailScriptStep
  <1> QED
    BY <1>1, <1>2, <1>3, RebuildStep DEF NextScripts

(* When the fragment files are distinct, then however many scripts a build *)
(* runs and however they interleave and fail, some script of the build     *)
(* has merged the current fragments of all crates once all have succeeded. *)
THEOREM SomeScriptMergesAll ==
  ASSUME Processes # {}, Injective
  PROVE  ScriptsSpec => []UnionMerged
  <1>1. InitScripts => IInv
    BY InitInv
  <1>2. IInv /\ [NextScripts]_allVars => IInv'
    BY StepInv
  <1>3. IInv => UnionMerged
    <2> SUFFICES ASSUME IInv, AllDone PROVE \E c \in batch : script[c].merged = Current
      BY DEF UnionMerged
    <2>1. \A c \in Processes : Written(c)
      BY DEF IInv, ProgressInv, AllDone
    <2>2. PICK c \in batch : Sees(c)
      BY <2>1 DEF IInv, UnionInv
    <2>3. script[c].pc = "done"
      BY <2>2 DEF IInv, Shape, AllDone
    <2> QED
      BY <2>2, <2>3 DEF Sees
  <1> QED
    BY <1>1, <1>2, <1>3, PTL DEF ScriptsSpec
=============================================================================
