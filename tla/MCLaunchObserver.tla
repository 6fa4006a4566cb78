-------------------------- MODULE MCLaunchObserver --------------------------
(* Small instances of LaunchObserver for TLC. *)
EXTENDS LaunchObserver, TLC

CONSTANTS n1, n2, plain, bad, tools

MCNonces == {n1, n2}
MCOverlays == {plain, bad, tools}
MCInvalid == {bad}
MCSelection == {tools}
Symmetry == Permutations(MCNonces)
=============================================================================
