---------------------------- MODULE MCRequests ----------------------------
(* Two containers, one of them labelled and with a limit. *)
EXTENDS Requests, TLC

CONSTANTS c1, c2

MCUsage == {[memory |-> 2, swap |-> 0], [memory |-> 1, swap |-> 0], [memory |-> 1, swap |-> 1]}
MCLimit == (c1 :> 2) @@ (c2 :> Unlimited)

Line(h, v) == [header |-> h, value |-> v, unit |-> "kB"]
Swapless == <<Line("MemTotal", 2048), Line("MemFree", 1024), Line("Cached", 1024)>>

\* A readable file, one with a bad value, one with a bad unit, and none.
MCMemInfoFile ==
    {Swapless, Append(Swapless, Line("SwapTotal", -1)),
     <<[header |-> "MemTotal", value |-> 2, unit |-> "MB"]>> \o Swapless, Unreadable}
=============================================================================
