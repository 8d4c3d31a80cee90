----------------------------- MODULE MCNetwork -----------------------------
(* Small instances of the network for TLC.                                  *)
EXTENDS Network, TLC

CONSTANTS p1, p2
============================================================================
