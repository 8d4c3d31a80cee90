---------------------------- MODULE MCSockdrive ----------------------------
(* A plain range, a small range and a range published as zeros, for TLC.    *)
EXTENDS Sockdrive, TLC

CONSTANTS r1, d1, s1, o1, o2, zero, one

MCBase == [r \in Ranges |-> [o \in Offsets |-> IF r = d1 THEN zero ELSE one]]

\* Both values to a plain range, so that a write can replace a persisted one.
MCWrites == [r \in Ranges |-> IF r = d1 THEN {one} ELSE {zero, one}]

\* Liveness: all three kinds of range, and writes only to the zeros.
MCLiveRanges == {r1, s1, d1}
MCLiveWrites == [r \in Ranges |-> IF r = d1 THEN {one} ELSE {}]

\* The published image and the constants treat the sectors of a range alike.
Symmetry == Permutations(Offsets)
============================================================================
