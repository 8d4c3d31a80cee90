----------------------------- MODULE MCDebugMcp -----------------------------
(* A small instance of the debugger's control client for TLC.               *)
EXTENDS DebugMcp, TLC
============================================================================
