----------------------------- MODULE TagPollMC -----------------------------
(* Small instances of TagPoll for TLC.                                     *)
EXTENDS TagPoll, TLC

CONSTANTS t1, t2, t3, b1, b2, b3

\* UIDs are only compared and blocks are only chosen among the free ones.
Symmetry == Permutations(Tags) \union Permutations(Blocks)
=============================================================================
