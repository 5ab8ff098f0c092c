----------------------------- MODULE MCCgroupIO -----------------------------
(* One device that comes and goes, and the number of one that is long gone *)
(* but still has entries in the cgroup.                                    *)
EXTENDS CgroupIO

CONSTANTS d1, n1, n2

MCDevice == {d1}
MCNumber == {n1, n2}
MCNumberOf == [d \in MCDevice |-> n1]

E(named, n, o, u) ==
    [number |-> n, device |-> IF n \in named THEN <<n>> ELSE None, op |-> o, unit |-> u]

(* Three entries, of which the first two are bytes: of one device or of    *)
(* two, with a name or without, and with an operation that does not count. *)
MCV1Stats ==
    {<<E({n1}, n1, "read", "bytes"), E({n1}, m, "write", "bytes"), E({n1}, n1, "read", "ios")>> :
        m \in MCNumber}
    \cup {<<E({}, n1, "read", "bytes"), E({}, n2, "read", "bytes"), E({}, k, p, "ios")>> :
             k \in MCNumber, p \in {"write", "total"}}

(* One entry per device. *)
MCV2Stats ==
    LET e(n) == [number |-> n, device |-> None, op |-> "all", unit |-> "all"]
    IN  {<<>>, <<e(n2), e(n1)>>}
=============================================================================
