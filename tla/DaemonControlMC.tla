-------------------------- MODULE DaemonControlMC --------------------------
(* Small instances of DaemonControl for TLC.                               *)
EXTENDS DaemonControl, TLC

CONSTANTS p1, p2, p3, s1, s2

Symmetry == Permutations(Pids) \union Permutations(Stops)
=============================================================================
