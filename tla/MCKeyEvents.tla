---------------------------- MODULE MCKeyEvents ----------------------------
(* A small instance of the key queue for TLC.                               *)
EXTENDS KeyEvents, TLC

CONSTANTS k1, k2
============================================================================
