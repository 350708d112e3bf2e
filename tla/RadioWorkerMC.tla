--------------------------- MODULE RadioWorkerMC ---------------------------
(***************************************************************************)
(* Instances of RadioWorker for TLC: which calls may fail.                 *)
(***************************************************************************)
EXTENDS RadioWorker

\* What the two backends of the repository can throw: startReceive fails only
\* when the backend is not open, stopReceive never.
DeviceFaults == {"open", "receive", "transmit", "thread", "other"}
AllFaults    == FaultKinds
=============================================================================
