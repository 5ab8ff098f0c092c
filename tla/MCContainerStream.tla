-------------------------- MODULE MCContainerStream --------------------------
(* Two containers, two event streams: a container can be started and       *)
(* stopped on either stream, in the gap between them, and around the       *)
(* listing, while the other one's events share the queues.                 *)
EXTENDS ContainerStream

CONSTANTS c1, c2

MCContainer == {c1, c2}
=============================================================================
