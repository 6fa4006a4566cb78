---------------------------- MODULE LaunchCustody ----------------------------
(***************************************************************************)
(* What the launch intent channel promises, without its protocol: a child  *)
(* runs only after its operation was approved and while nothing has failed, *)
(* one child exists at a time, and a failure is final.                     *)
(*                                                                         *)
(* LaunchObserver implements this specification.                           *)
(***************************************************************************)
EXTENDS Naturals

CONSTANT Ordinals

VARIABLES
  approved,  \* operations whose final intent was acknowledged
  child,     \* the child process of each operation
  fenced     \* a failure was observed

vars == <<approved, child, fenced>>

Exists(n) == child[n] \in {"running", "exited"}

Init ==
  /\ approved = {}
  /\ child = [n \in Ordinals |-> "none"]
  /\ fenced = FALSE

Approve(n) ==
  /\ approved' = approved \union {n}
  /\ UNCHANGED <<child, fenced>>

(* A child that starts may fail to be reported in the same step. *)
Spawn(n) ==
  /\ ~fenced
  /\ n \in approved
  /\ child[n] = "none"
  /\ \A m \in Ordinals : ~Exists(m)
  /\ child' = [child EXCEPT ![n] = "running"]
  /\ UNCHANGED <<approved, fenced>>

Exit(n) ==
  /\ child[n] = "running"
  /\ child' = [child EXCEPT ![n] = "exited"]
  /\ UNCHANGED <<approved, fenced>>

Reap(n) ==
  /\ child[n] = "exited"
  /\ child' = [child EXCEPT ![n] = "reaped"]
  /\ UNCHANGED <<approved, fenced>>

Fence ==
  /\ ~fenced
  /\ fenced' = TRUE
  /\ UNCHANGED <<approved, child>>

Next ==
  \/ \E n \in Ordinals : Approve(n) \/ Spawn(n) \/ Exit(n) \/ Reap(n)
  \/ Fence

Spec == Init /\ [][Next]_vars

OneChild ==
  \A m, n \in Ordinals : Exists(m) /\ Exists(n) => m = n

Approved ==
  \A n \in Ordinals : child[n] # "none" => n \in approved
=============================================================================
