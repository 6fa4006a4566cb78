-------------------------------- MODULE Watch --------------------------------
(***************************************************************************)
(* `cargo build-graph watch`: refresh once, then poll a fingerprint of the *)
(* workspace's sources; when it has changed, wait for it to stand still    *)
(* for an interval, refresh every layer, and take the fingerprint again.   *)
(* Files are saved at any time, and the build of a refresh may itself      *)
(* rewrite generated ones.  A file's modification time is the number of    *)
(* times it was written; a fingerprint is the times of all files.          *)
(***************************************************************************)
EXTENDS Naturals

CONSTANTS
  Files,       \* watched sources and manifests
  Generated,   \* those the build rewrites
  MaxSaves,    \* bound: saves
  MaxTouches   \* bound: rewrites of generated files

ASSUME WatchAssumption ==
  /\ Generated \subseteq Files
  /\ MaxSaves \in Nat /\ MaxTouches \in Nat

VARIABLES
  mtime,     \* modification time of each file
  saves,     \* saves so far
  touches,   \* rewrites so far
  pc,        \* the watcher's step
  fp,        \* the fingerprint that is settling
  last,      \* the fingerprint of the last refresh
  todo,      \* files the refresh has yet to read
  reading,   \* what it has read
  shown,     \* what the graph shows of each file
  noticed    \* what the watcher has to notice: saves since `last` was taken

vars == <<mtime, saves, touches, pc, fp, last, todo, reading, shown, noticed>>

Unseen == [f \in Files |-> 0]

Init ==
  /\ mtime = [f \in Files |-> 1]
  /\ saves = 0 /\ touches = 0
  /\ pc = "refresh"
  /\ fp = Unseen /\ last = Unseen
  /\ todo = Files
  /\ reading = Unseen /\ shown = Unseen
  /\ noticed = {}

WorkspaceFingerprint == mtime

(* The build of a refresh rewrites a generated file. *)
Touch(f) ==
  /\ pc = "refresh" /\ f \in Generated
  /\ touches < MaxTouches
  /\ touches' = touches + 1
  /\ mtime' = [mtime EXCEPT ![f] = @ + 1]
  /\ UNCHANGED <<saves, pc, fp, last, todo, reading, shown, noticed>>

(* It reads the files one after the other. *)
Extract(f) ==
  /\ pc = "refresh" /\ f \in todo
  /\ todo' = todo \ {f}
  /\ reading' = [reading EXCEPT ![f] = mtime[f]]
  /\ UNCHANGED <<mtime, saves, touches, pc, fp, last, shown, noticed>>

(* A refresh that fails is reported, and is not tried again before the     *)
(* next change.                                                            *)
EndRefresh ==
  /\ pc = "refresh"
  /\ \/ todo = {} /\ shown' = reading /\ pc' = "rescan"
     \/ UNCHANGED shown /\ pc' = "failed"
  /\ UNCHANGED <<mtime, saves, touches, fp, last, todo, reading, noticed>>

(* Mutant: the fingerprint that settled is kept instead. *)
Rescan_Settled ==
  /\ pc \in {"rescan", "failed"}
  /\ last' = fp
  /\ noticed' = {}
  /\ pc' = "poll"
  /\ UNCHANGED <<mtime, saves, touches, fp, todo, reading, shown>>

(* After the refresh, so that what the build touched does not trigger. *)
Rescan ==
  /\ pc \in {"rescan", "failed"}
  /\ last' = WorkspaceFingerprint
  /\ noticed' = {}
  /\ pc' = "poll"
  /\ UNCHANGED <<mtime, saves, touches, fp, todo, reading, shown>>

Poll ==
  /\ pc = "poll"
  /\ WorkspaceFingerprint # last
  /\ fp' = WorkspaceFingerprint
  /\ pc' = "settle"
  /\ UNCHANGED <<mtime, saves, touches, last, todo, reading, shown, noticed>>

(* Mutant: a change while settling ends the wait without a refresh. *)
Settle_Abandon ==
  /\ pc = "settle"
  /\ IF WorkspaceFingerprint = fp
     THEN pc' = "refresh" /\ todo' = Files /\ UNCHANGED <<fp, last>>
     ELSE pc' = "poll" /\ last' = WorkspaceFingerprint /\ UNCHANGED <<fp, todo>>
  /\ UNCHANGED <<mtime, saves, touches, reading, shown, noticed>>

(* One more interval: refresh if nothing moved, else keep waiting. *)
Settle ==
  /\ pc = "settle"
  /\ IF WorkspaceFingerprint = fp
     THEN pc' = "refresh" /\ todo' = Files /\ UNCHANGED fp
     ELSE fp' = WorkspaceFingerprint /\ UNCHANGED <<pc, todo>>
  /\ UNCHANGED <<mtime, saves, touches, last, reading, shown, noticed>>

Save(f) ==
  /\ saves < MaxSaves
  /\ saves' = saves + 1
  /\ mtime' = [mtime EXCEPT ![f] = @ + 1]
  /\ noticed' = noticed \union {f}
  /\ UNCHANGED <<touches, pc, fp, last, todo, reading, shown>>

Watcher ==
  \/ \E f \in Files : Extract(f)
  \/ EndRefresh \/ Rescan \/ Poll \/ Settle

Next ==
  \/ Watcher
  \/ \E f \in Files : Touch(f) \/ Save(f)

Spec == Init /\ [][Next]_vars

(* The watcher's loop keeps running: it sleeps, scans and refreshes, and   *)
(* nothing in it waits for another process but the build, which ends.      *)
FairSpec == Spec /\ WF_vars(Watcher)

-----------------------------------------------------------------------------
(* A refresh is started by a save: what the build of the previous refresh  *)
(* touched does not start another, so the watcher does not chase its own   *)
(* build.                                                                  *)
OnlySavesTrigger == [][pc = "settle" /\ pc' = "refresh" => noticed # {}]_vars

(* A save made while the watcher polls or settles reaches the graph, when  *)
(* saves come to an end, unless a refresh fails first.                     *)
NoticedSavesLand ==
  \A f \in Files, v \in 1..(1 + MaxSaves + MaxTouches) :
    (pc \in {"poll", "settle"} /\ f \in noticed /\ mtime[f] = v) ~> (shown[f] >= v \/ pc = "failed")

(* "re-run the incremental refresh whenever a .rs or Cargo.toml file       *)
(* changes": every save reaches the graph, unless a refresh fails first.   *)
EverySaveLands ==
  \A f \in Files, v \in 1..(1 + MaxSaves + MaxTouches) :
    (mtime[f] = v) ~> (shown[f] >= v \/ pc = "failed")
=============================================================================
