--------------------------- MODULE MCSyncCollection ---------------------------
(* Instances of SyncCollection for TLC.                                     *)
EXTENDS SyncCollection

MCDistinct == [i \in Jobs |-> i]

\* The first and the last device of the list have the same name.
MCSameName == [i \in Jobs |-> IF i = N THEN 1 ELSE i]

=============================================================================
