---------------------------- MODULE AcrDriverMC ----------------------------
(* A small instance of AcrDriver for TLC.                                  *)
EXTENDS AcrDriver

CONSTANTS t1, t2, t3
=============================================================================
