------------------------------ MODULE MCKernel ------------------------------
(* Kernel on a few processes.  They play the same part, so symmetry is      *)
(* sound in the runs that check no liveness.                                *)
EXTENDS Kernel

\* The message type of the programs' own, next to REPLY, INTERRUPT, TIMEOUT.
PING == 5

IpcFilters == {ANY, REPLY, PING}

\* A type for calls, which no receive with a timeout accepts.
CALL == 6

DeviceFilters == {ANY, INTERRUPT}

Perms == Permutations(Proc)
=============================================================================
