---------------------------- MODULE MCNetMonitor ----------------------------
(* Two containers and two interfaces: a container is restarted, or the     *)
(* index of the other's interface begins with that of its own.             *)
EXTENDS NetMonitor, TLC

CONSTANTS c1, c2

TwoContainers == {c1, c2}
OnePrefix == {<<1, 2>>}
Symmetry == Permutations(Container)
=============================================================================
