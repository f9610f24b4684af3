------------------------------- MODULE QuitLatch -------------------------------
(***************************************************************************)
(* What CallIdsVecThreadSafe promises: calls are admitted until the latch  *)
(* shuts, each at most once; it shuts only when no admitted call is open,  *)
(* and then nothing is admitted and nothing opens again.                   *)
(***************************************************************************)
CONSTANT Calls

VARIABLES
  admitted,   \* the calls registered so far
  open,       \* those of them whose answer may still be used
  shut        \* the request has quit

vars == <<admitted, open, shut>>

Init == admitted = {} /\ open = {} /\ shut = FALSE

\* Calls are registered together; some may have ended before.
Admit(new) ==
  /\ ~shut /\ new # {} /\ new \cap admitted = {}
  /\ admitted' = admitted \cup new
  /\ \E o \in SUBSET new : open' = open \cup o
  /\ UNCHANGED shut

\* Calls end, are cancelled, or are abandoned.
Settle ==
  /\ \E gone \in SUBSET open : open' = open \ gone
  /\ UNCHANGED <<admitted, shut>>

Shut ==
  /\ open = {}
  /\ shut' = TRUE
  /\ UNCHANGED <<admitted, open>>

Next == (\E new \in SUBSET Calls : Admit(new)) \/ Settle \/ Shut

Spec == Init /\ [][Next]_vars
=============================================================================
