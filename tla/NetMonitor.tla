----------------------------- MODULE NetMonitor -----------------------------
(***************************************************************************)
(* net.NetMonitor, composed with the container stream it subscribes to.    *)
(* listeningNewInterfaces finds the host side of a started container's     *)
(* veth pair and files the container under it; the poller (Start) samples  *)
(* the counters of all interfaces, looks each one up in that map and       *)
(* shifts the container's last two samples.  The two goroutines share the  *)
(* maps under two mutexes, and the poller works on a snapshot.             *)
(* One counter stands for the four that GetUsage treats alike.             *)
(***************************************************************************)
EXTENDS ContainerStream, Integers, FiniteSetsExt

CONSTANTS
    NoContainer,
    Host,        \* owner of the interfaces that are no container's
    MaxIface,    \* bound: interfaces created
    MaxBytes,    \* bound: the counter of an interface
    PrefixOf     \* pairs of interface indexes, the first a decimal prefix
                 \* of the second (as 4 is of 42)

ASSUME NoContainerAssumption == NoContainer \notin Container
ASSUME HostAssumption == Host \notin Container \cup {NoContainer}
ASSUME NetBounds == MaxIface \in Nat \ {0} /\ MaxBytes \in Nat \ {0}
ASSUME PrefixAssumption ==
    PrefixOf \in SUBSET ((1..MaxIface) \X (1..MaxIface)) /\ \A p \in PrefixOf : p[1] < p[2]

VARIABLES
    iface,            \* iface[c]: index of the host interface of c, 0: none
    owner,            \* owner[i]: the container i was created for, or Host
    bytes,            \* bytes[i]: the counter of i
    listener,         \* listeningNewInterfaces: "recv", "netns" or "iplink"
    handling,         \* the container whose start it handles
    ifaceID,          \* the index it found in the container's namespace
    containerIfaces,  \* the container filed under an interface
    poller,           \* Start: "tick", "lookup" or "store"
    rows,             \* the samples of the snapshot it has yet to handle
    row,              \* the interface it is handling
    target,           \* the container it looked up
    netUsages, previousNetUsages,
    unresolved,       \* history: running containers whose lookup failed
    outlived          \* history: containers whose interface was gone when
                      \* the lines of "ip link show" were matched with it

linkVars == <<iface, owner, bytes>>
listenerVars == <<listener, handling, ifaceID, containerIfaces, unresolved, outlived>>
pollerVars == <<poller, rows, row, target, netUsages, previousNetUsages>>
netVars == <<linkVars, listenerVars, pollerVars>>
allVars == <<vars, netVars>>

Iface == 1..MaxIface
Modulus == 16 * MaxBytes         \* of the uint64 counters
ZeroStat == [iface |-> 0, bytes |-> 0]
Created == {i \in Iface : owner[i] # NoContainer}
Existing == {i \in Iface : owner[i] = Host \/ \E c \in running : iface[c] = i}

(* At first the running containers have their interfaces, and the host its *)
(* own (eth0, docker0).                                                    *)
NetInit ==
    /\ Init
    /\ owner \in [Iface -> running \cup {Host, NoContainer}]
    /\ \E k \in 0..MaxIface : Created = 1..k
    /\ iface \in [Container -> 0..MaxIface]
    /\ \A c \in Container : IF c \in running THEN \A i \in Iface : owner[i] = c <=> iface[c] = i
                                              ELSE iface[c] = 0
    /\ \A c \in running : iface[c] # 0
    /\ bytes = [i \in Iface |-> 0]
    /\ listener = "recv"
    /\ handling = NoContainer
    /\ ifaceID = 0
    /\ containerIfaces = [i \in Iface |-> NoContainer]
    /\ poller = "tick"
    /\ rows = [i \in {} |-> 0]
    /\ row = 0
    /\ target = NoContainer
    /\ netUsages = [c \in Container |-> ZeroStat]
    /\ previousNetUsages = [c \in Container |-> ZeroStat]
    /\ unresolved = {}
    /\ outlived = {}

-----------------------------------------------------------------------------
(* The environment: docker, the kernel and the traffic.                    *)

(* A started container gets a new veth pair, with the next index. *)
ContainerStarts(c) ==
    LET i == Cardinality(Created) + 1 IN
    /\ i <= MaxIface
    /\ DockerStart(c)
    /\ iface' = [iface EXCEPT ![c] = i]
    /\ owner' = [owner EXCEPT ![i] = c]
    /\ UNCHANGED <<bytes, listenerVars, pollerVars>>

(* The pair goes with the container. *)
ContainerEnds(c) ==
    /\ DockerStop(c) \/ DockerDie(c)
    /\ iface' = [iface EXCEPT ![c] = 0]
    /\ UNCHANGED <<owner, bytes, listenerVars, pollerVars>>

(* The host may get more interfaces of its own; they stay. *)
HostIfaceAppears ==
    LET i == Cardinality(Created) + 1 IN
    /\ i <= MaxIface
    /\ owner' = [owner EXCEPT ![i] = Host]
    /\ UNCHANGED <<vars, iface, bytes, listenerVars, pollerVars>>

Traffic(i) ==
    /\ bytes[i] < MaxBytes
    /\ bytes' = [bytes EXCEPT ![i] = @ + 1]
    /\ UNCHANGED <<vars, iface, owner, listenerVars, pollerVars>>

Environment ==
    \/ \E c \in Container : ContainerStarts(c) \/ ContainerEnds(c)
    \/ HostIfaceAppears
    \/ \E i \in Existing : Traffic(i)
    \/ (Open \/ \E n \in 0..MaxPending : Close(n)) /\ UNCHANGED netVars

-----------------------------------------------------------------------------
(* listeningNewInterfaces                                                  *)

(* Mutant: nothing is done for a container that is filed already. *)
StartMonitoringContainerOnce(c) ==
    IF \E i \in Iface : containerIfaces[i] = c THEN UNCHANGED netVars
    ELSE /\ listener' = "netns"
         /\ handling' = c
         /\ unresolved' = unresolved \ {c}
         /\ UNCHANGED <<linkVars, ifaceID, containerIfaces, outlived, pollerVars>>

(* A start event: the lookup begins. *)
StartMonitoringContainer(c) ==
    /\ listener' = "netns"
    /\ handling' = c
    /\ unresolved' = unresolved \ {c}
    /\ UNCHANGED <<linkVars, ifaceID, containerIfaces, outlived, pollerVars>>

(* A stop event: ONE of the interfaces c is filed under is removed, in the *)
(* random order of a Go map, and the usages stay.                          *)
CleanMonitoringData(c) ==
    /\ \/ \E i \in Iface :
             /\ containerIfaces[i] = c
             /\ containerIfaces' = [containerIfaces EXCEPT ![i] = NoContainer]
       \/ /\ \A i \in Iface : containerIfaces[i] # c
          /\ UNCHANGED containerIfaces
    /\ UNCHANGED <<linkVars, listener, handling, ifaceID, unresolved, outlived, pollerVars>>

NetReceivesLive(g) ==
    /\ listener = "recv"
    /\ ReceiveLive(g)
    /\ IF ~Subscribed THEN UNCHANGED netVars
       ELSE LET e == Head(live[g]) IN
            IF e.action = "start" THEN StartMonitoringContainer(e.id)
                                  ELSE CleanMonitoringData(e.id)

NetReceivesListed(c) ==
    /\ listener = "recv"
    /\ ReceiveListed(c)
    /\ StartMonitoringContainer(c)

NetRegisters == (Subscribe \/ Snapshot \/ SnapshotFails) /\ UNCHANGED netVars

(* Any step of the lookup may fail: the container is not filed. *)
LookupFails ==
    /\ listener # "recv"
    /\ listener' = "recv"
    /\ handling' = NoContainer
    /\ ifaceID' = 0
    /\ unresolved' = unresolved \cup ({handling} \cap running)
    /\ UNCHANGED <<vars, linkVars, containerIfaces, outlived, pollerVars>>

(* eth0 in the container's namespace names the index of its peer. *)
GetContainerIfaceID ==
    /\ listener = "netns"
    /\ handling \in running
    /\ ifaceID' = iface[handling]
    /\ listener' = "iplink"
    /\ UNCHANGED <<vars, linkVars, handling, containerIfaces, unresolved, outlived, pollerVars>>

(* The lines of "ip link show" that begin with the index. *)
Matching == {i \in Existing : i = ifaceID \/ <<ifaceID, i>> \in PrefixOf}

(* Mutant: the last such line. *)
GetContainerIfaceLast ==
    /\ listener = "iplink"
    /\ Matching # {}
    /\ containerIfaces' = [containerIfaces EXCEPT ![Max(Matching)] = handling]
    /\ outlived' = IF ifaceID \in Existing THEN outlived ELSE outlived \cup {handling}
    /\ listener' = "recv"
    /\ handling' = NoContainer
    /\ ifaceID' = 0
    /\ UNCHANGED <<vars, linkVars, unresolved, pollerVars>>

(* The first such line, in the order of the indexes, names the interface. *)
GetContainerIface ==
    /\ listener = "iplink"
    /\ Matching # {}
    /\ containerIfaces' = [containerIfaces EXCEPT ![Min(Matching)] = handling]
    /\ outlived' = IF ifaceID \in Existing THEN outlived ELSE outlived \cup {handling}
    /\ listener' = "recv"
    /\ handling' = NoContainer
    /\ ifaceID' = 0
    /\ UNCHANGED <<vars, linkVars, unresolved, pollerVars>>

-----------------------------------------------------------------------------
(* Start: the poller                                                       *)

(* A tick and netstat.Stats(); when that fails, the next tick tries. *)
ReadStats ==
    /\ poller = "tick"
    /\ rows' = [i \in Existing |-> bytes[i]]
    /\ poller' = "lookup"
    /\ UNCHANGED <<vars, linkVars, listenerVars, row, target, netUsages, previousNetUsages>>

Without(f, i) == [j \in DOMAIN f \ {i} |-> f[j]]

(* Which container is filed under the interface; none: continue. *)
LookupContainer(i) ==
    /\ poller = "lookup"
    /\ IF containerIfaces[i] = NoContainer
       THEN /\ rows' = Without(rows, i)
            /\ UNCHANGED <<poller, row, target>>
       ELSE /\ poller' = "store"
            /\ row' = i
            /\ target' = containerIfaces[i]
            /\ UNCHANGED rows
    /\ UNCHANGED <<vars, linkVars, listenerVars, netUsages, previousNetUsages>>

(* Mutant: the counter is added to the previous sample. *)
StoreUsageAdded ==
    /\ poller = "store"
    /\ previousNetUsages' = [previousNetUsages EXCEPT ![target] = netUsages[target]]
    /\ netUsages' = [netUsages EXCEPT ![target] = [iface |-> row, bytes |-> @.bytes + rows[row]]]
    /\ rows' = Without(rows, row)
    /\ poller' = "lookup"
    /\ row' = 0
    /\ target' = NoContainer
    /\ UNCHANGED <<vars, linkVars, listenerVars>>

StoreUsage ==
    /\ poller = "store"
    /\ previousNetUsages' = [previousNetUsages EXCEPT ![target] = netUsages[target]]
    /\ netUsages' = [netUsages EXCEPT ![target] = [iface |-> row, bytes |-> rows[row]]]
    /\ rows' = Without(rows, row)
    /\ poller' = "lookup"
    /\ row' = 0
    /\ target' = NoContainer
    /\ UNCHANGED <<vars, linkVars, listenerVars>>

PollDone ==
    /\ poller = "lookup"
    /\ DOMAIN rows = {}
    /\ poller' = "tick"
    /\ UNCHANGED <<vars, linkVars, listenerVars, rows, row, target, netUsages, previousNetUsages>>

Poller ==
    \/ ReadStats
    \/ \E i \in DOMAIN rows : LookupContainer(i)
    \/ StoreUsage
    \/ PollDone

NetNext ==
    \/ Environment
    \/ NetRegisters
    \/ \E g \in Conn : NetReceivesLive(g)
    \/ \E c \in Container : NetReceivesListed(c)
    \/ LookupFails
    \/ GetContainerIfaceID
    \/ GetContainerIface
    \/ Poller

NetSpec == NetInit /\ [][NetNext]_allVars

-----------------------------------------------------------------------------

(* Mutant: the difference is taken the wrong way round. *)
GetUsageReversed(c) ==
    IF previousNetUsages[c].bytes > 0
    THEN (previousNetUsages[c].bytes - netUsages[c].bytes) % Modulus
    ELSE 0

(* GetUsage: the difference of two unsigned counters, once there is a      *)
(* previous one.  (The division by the refresh time is left out.)          *)
GetUsage(c) ==
    IF previousNetUsages[c].bytes > 0
    THEN (netUsages[c].bytes - previousNetUsages[c].bytes) % Modulus
    ELSE 0

-----------------------------------------------------------------------------

NetStat == [iface : 0..MaxIface, bytes : 0..MaxBytes]

(* The values the variables of the monitor take. *)
NetTypeOK ==
    /\ iface \in [Container -> 0..MaxIface]
    /\ owner \in [Iface -> Container \cup {Host, NoContainer}]
    /\ bytes \in [Iface -> 0..MaxBytes]
    /\ listener \in {"recv", "netns", "iplink"}
    /\ handling \in Container \cup {NoContainer}
    /\ ifaceID \in 0..MaxIface
    /\ containerIfaces \in [Iface -> Container \cup {NoContainer}]
    /\ poller \in {"tick", "lookup", "store"}
    /\ \A i \in DOMAIN rows : i \in Iface /\ rows[i] \in 0..MaxBytes
    /\ row \in 0..MaxIface
    /\ target \in Container \cup {NoContainer}
    /\ netUsages \in [Container -> NetStat]
    /\ previousNetUsages \in [Container -> NetStat]
    /\ unresolved \in SUBSET Container
    /\ outlived \in SUBSET Container

(* c was gone before the second step of its lookup, and i begins with the  *)
(* index of an interface that was its own.                                 *)
Mistaken(c, i) ==
    c \in outlived /\ \E j \in Iface : owner[j] = c /\ <<j, i>> \in PrefixOf

(* A container is charged with the traffic of interfaces that were created *)
(* for it, never with that of another container or of the host, although   *)
(* the poller uses a snapshot of the counters and looks containers up      *)
(* later, and an index may begin with another one.  The exception is a     *)
(* container that ended between the two steps of its lookup: the textual   *)
(* match of "ip link show" may then pick the interface of another owner.   *)
ChargedForOwnTraffic ==
    \A c \in Container :
        LET i == netUsages[c].iface IN i # 0 => owner[i] = c \/ Mistaken(c, i)

(* Between two samples of the same interface the rate is the traffic: the  *)
(* unsigned difference wraps only when the samples are of two interfaces.  *)
RateIsTraffic ==
    \A c \in Container :
        previousNetUsages[c].iface = netUsages[c].iface =>
            GetUsage(c) <= MaxBytes

(* A running container that the listener has heard all about is filed      *)
(* under its current interface, or being looked up, though a stop removes  *)
(* an arbitrary one of the interfaces its container is filed under and a   *)
(* lookup may end after the container was restarted.  (Not so when the     *)
(* stream gave cause for doubt, the lookup failed, or the interface was    *)
(* taken for that of another container, gone during its own lookup.)       *)
RunningContainerFiled ==
    \A c \in running \ (doubtful \cup unresolved) :
        Listed /\ Silent(c) /\ c \notin listed =>
            \/ handling = c
            \/ containerIfaces[iface[c]] = c
            \/ \E d \in Container \ {c} : Mistaken(d, iface[c])
=============================================================================
