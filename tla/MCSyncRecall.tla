---------------------------- MODULE MCSyncRecall ----------------------------
(* Instances of SyncRecall for TLC.  The second service is the dynamic one. *)
EXTENDS SyncRecall

CONSTANTS d1, d2    \* the subs of a dynamic service

SubsOf2 == [c \in Subs |-> 2]

TwoPriorities == {-1, 0}
=============================================================================
