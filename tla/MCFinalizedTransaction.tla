---------------------- MODULE MCFinalizedTransaction ----------------------
(* Instance for TLC: two heights and two replaced suffixes are enough for a *)
(* transaction to be moved, dropped, finalized under another block, and for *)
(* the head to shrink; two attempts relate the snapshots of two attempts.   *)
EXTENDS FinalizedTransaction
=============================================================================
