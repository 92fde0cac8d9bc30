------------------------- MODULE MCDurableFileLock -------------------------
(***************************************************************************)
(* Instances of DurableFileLock for TLC: the owner that dies, and two that  *)
(* reap its lock.                                                          *)
(***************************************************************************)
EXTENDS DurableFileLock, TLC

\* Processes are interchangeable; used only where no liveness is checked.
ProcSymmetry == Permutations(Proc)
=============================================================================
