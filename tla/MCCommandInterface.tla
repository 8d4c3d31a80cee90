------------------------- MODULE MCCommandInterface -------------------------
(* A small instance of a session for TLC.                                    *)
EXTENDS CommandInterface, TLC

CONSTANTS c1, c2

============================================================================
