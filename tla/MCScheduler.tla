---------------------------- MODULE MCScheduler ----------------------------
(* Scheduler on a small machine, for TLC *)
EXTENDS Scheduler, TLC

(* The CPUs, and the processes other than init, are interchangeable *)
Interchangeable == Permutations(Cpu) \cup Permutations(Proc \ {InitProc})
=============================================================================
