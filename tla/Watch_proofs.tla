----------------------------- MODULE Watch_proofs -----------------------------
(* Proof that the watcher never chases its own build, for any files. *)
EXTENDS Watch, TLAPS

(* While nothing was saved since the last scan, nothing has moved; and a   *)
(* watcher that waits for files to settle has a save to show for it.       *)
IInv ==
  /\ pc \in {"refresh", "rescan", "failed", "poll", "settle"}
  /\ pc = "poll" /\ noticed = {} => mtime = last
  /\ pc = "settle" => noticed # {}

(* However the build touches generated files and saves fall, a refresh     *)
(* begins only after a save the last scan had not seen.                    *)
THEOREM RefreshesAreTriggered == Spec => OnlySavesTrigger
  <1> USE DEF IInv
  <1>1. Init => IInv
    BY DEF Init
  <1>2. IInv /\ [Next]_vars => IInv'
    <2> SUFFICES ASSUME IInv, [Next]_vars PROVE IInv'
      OBVIOUS
    <2>1. CASE UNCHANGED vars
      BY <2>1 DEF vars
    <2>2. ASSUME NEW f \in Files, Extract(f) PROVE IInv'
      BY <2>2 DEF Extract
    <2>3. CASE EndRefresh
      BY <2>3 DEF EndRefresh
    <2>4. CASE Rescan
      BY <2>4 DEF Rescan, WorkspaceFingerprint
    <2>5. CASE Poll
      BY <2>5 DEF Poll, WorkspaceFingerprint
    <2>6. CASE Settle
      BY <2>6 DEF Settle
    <2>7. ASSUME NEW f \in Files, Touch(f) PROVE IInv'
      BY <2>7 DEF Touch
    <2>8. ASSUME NEW f \in Files, Save(f) PROVE IInv'
      BY <2>8 DEF Save
    <2> QED
      BY <2>1, <2>2, <2>3, <2>4, <2>5, <2>6, <2>7, <2>8 DEF Next, Watcher
  <1>3. IInv => (pc = "settle" /\ pc' = "refresh" => noticed # {})
    OBVIOUS
  <1> QED
    BY <1>1, <1>2, <1>3, PTL DEF Spec, OnlySavesTrigger
=============================================================================
