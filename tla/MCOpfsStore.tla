---------------------------- MODULE MCOpfsStore ----------------------------
(* Small instances of the range store for TLC.                              *)
EXTENDS OpfsStore, TLC

CONSTANTS k1, k2, k3, k4
============================================================================
