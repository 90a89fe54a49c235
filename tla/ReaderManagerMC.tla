-------------------------- MODULE ReaderManagerMC --------------------------
(* Small instances of ReaderManager for TLC.                               *)
EXTENDS ReaderManager, TLC

CONSTANTS r1, r2, r3

\* The readers a driver accepts and that never fail by themselves are alike.
Symmetry == Permutations(Supported \ Broken)

\* At the start the plugged readers have the first places of pcscd's table.
GapFreeInit == Init /\ NoGap

GapFreeSpec == GapFreeInit /\ [][Next]_vars
=============================================================================
