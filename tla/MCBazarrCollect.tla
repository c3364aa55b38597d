-------------------------- MODULE MCBazarrCollect --------------------------
(* Up to three batches by two workers.                                      *)
EXTENDS BazarrCollect, TLC

CONSTANTS b1, b2, b3
=============================================================================
