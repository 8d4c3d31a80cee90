----------------------------- MODULE RangeStore -----------------------------
(***************************************************************************)
(* What the store of fetched ranges promises a drive: a range it holds is   *)
(* the range that was put, in this session or in an earlier one, and stays  *)
(* for the session.  It does not promise that a put succeeds (its failure   *)
(* is logged and nothing else), nor that a range is there again in the next *)
(* session.                                                                 *)
(***************************************************************************)

CONSTANTS
  Key,      \* the ranges
  Image,    \* the content that is put for each of them
  Nothing   \* the store does not hold the range

VARIABLES
  store,    \* what the store holds, of each range
  open      \* is there a session?

svars == <<store, open>>

Init ==
  /\ store = [k \in Key |-> Nothing]
  /\ open = FALSE

\* Puts of the ranges K, with their content in data; any of them may fail.
Written(K, data) ==
  \E done \in SUBSET K : store' = [k \in Key |-> IF k \in done THEN data[k] ELSE store[k]]

\* What a session finds: the files may have been emptied, or be of no use.
Found == \E kept \in SUBSET Key : store' = [k \in Key |-> IF k \in kept THEN store[k] ELSE Nothing]

Open == ~ open /\ open' = TRUE /\ Found

Put == open /\ Written(Key, Image) /\ UNCHANGED open

Close == open /\ open' = FALSE /\ UNCHANGED store

Next == Open \/ Put \/ Close

Spec == Init /\ [][Next]_svars
=============================================================================
