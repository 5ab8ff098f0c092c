------------------------ MODULE MCContainerRepository ------------------------
(* The two subscribers of main.go, and two event streams, so that a leaked *)
(* forwarder competes with its successor.                                  *)
EXTENDS ContainerRepository, TLC

CONSTANTS c1, cpu, net

OneContainer == {c1}
Monitors == {cpu, net}
OneMonitor == {cpu}
Symmetry == Permutations(Monitors)
=============================================================================
