---------------------------- MODULE BlockDevice ----------------------------
(***************************************************************************)
(* What a sockdrive promises the guest operating system: a disk image whose *)
(* sectors read back as they were last written, that starts every session   *)
(* as the image that was last persisted, and that starts as the published   *)
(* image when nothing was persisted or the saved changes were discarded.    *)
(***************************************************************************)

CONSTANTS
  Sector,     \* the sectors of the image
  Value,      \* what a sector can hold
  Published,  \* the image on the server, [Sector -> Value]
  NoData      \* nothing was read yet

VARIABLES
  disk,       \* the image the guest works on
  saved,      \* the image the next session starts from
  answer      \* the last sector read and what the read returned

dvars == <<disk, saved, answer>>

Init ==
  /\ disk = Published
  /\ saved = Published
  /\ answer = NoData

Read(s) ==
  /\ answer' = [sector |-> s, value |-> disk[s]]
  /\ UNCHANGED <<disk, saved>>

Write(s, v) ==
  /\ disk' = [disk EXCEPT ![s] = v]
  /\ UNCHANGED <<saved, answer>>

Persist ==
  /\ saved' = disk
  /\ UNCHANGED <<disk, answer>>

\* The session ends, or the guest unmounts the drive: what was not persisted is gone.
Revert ==
  /\ disk' = saved
  /\ answer' = NoData
  /\ UNCHANGED saved

\* Between two sessions the user throws the saved changes away.
Discard ==
  /\ disk' = Published
  /\ saved' = Published
  /\ UNCHANGED answer

Next ==
  \/ \E s \in Sector : Read(s)
  \/ \E s \in Sector, v \in Value : Write(s, v)
  \/ Persist
  \/ Revert
  \/ Discard

Spec == Init /\ [][Next]_dvars
============================================================================
