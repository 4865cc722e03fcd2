---------------------------- MODULE FirmwareStore ----------------------------
(***************************************************************************)
(* What an over-the-air update promises: the image that boots next changes *)
(* to one whose checksum, and digest if there is one, are those that were  *)
(* asked for, and to nothing else; the device runs what it booted.         *)
(* OtaUpdate is the code; it is shown to implement this module.            *)
(***************************************************************************)
CONSTANTS
  Image,     \* what a partition may hold
  Bootable(_),
  Verified(_, _)   \* Verified(i, w): image i is what w asks for

VARIABLES
  running,   \* the image that runs
  next,      \* the image that would boot
  wanted     \* what the update in progress asks for

storeVars == <<running, next, wanted>>

StoreInit == running \in Image /\ Bootable(running) /\ next = running

\* A new update is asked for.
Ask == UNCHANGED <<running, next>>

Commit ==
  /\ Bootable(next') /\ Verified(next', wanted)
  /\ UNCHANGED <<running, wanted>>

\* An image that was committed and not booted yet is overwritten by the next update.
Withdraw ==
  /\ next' = running
  /\ UNCHANGED <<running, wanted>>

\* The device restarts, or loses power and comes back.
Reboot ==
  /\ running' = next
  /\ UNCHANGED next

StoreNext == Ask \/ Withdraw \/ Reboot \/ Commit

StoreSpec == StoreInit /\ [][StoreNext]_storeVars

=============================================================================
