---------------------------- MODULE MCCPUMonitor ----------------------------
(* Two goroutines of one container: its listed start and its live one, or *)
(* those of a container and of its restart.                                *)
EXTENDS CPUMonitor, TLC

CONSTANTS c1, w1, w2

OneContainer == {c1}
TwoWorkers == {w1, w2}
WorkerSymmetry == Permutations(Worker)
=============================================================================
