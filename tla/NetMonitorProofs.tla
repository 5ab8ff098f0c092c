-------------------------- MODULE NetMonitorProofs --------------------------
(***************************************************************************)
(* For any containers, interfaces, prefixes and bounds: the network        *)
(* monitor is a subscriber as ContainerStream describes them, charges a    *)
(* container with its own traffic unless it ended during its lookup,       *)
(* reports the traffic between two samples, and files a running container  *)
(* it has heard all about.                                                 *)
(***************************************************************************)
EXTENDS NetMonitor, ContainerStreamProofs, FiniteSetTheorems, WellFoundedInduction

(* Indexes are given out one after the other and never again, and the      *)
(* interface of a running container is its own.                            *)
Links ==
    /\ \E k \in 0..MaxIface : Created = 1..k
    /\ \A c \in running : iface[c] \in Iface /\ owner[iface[c]] = c

(* What c may be charged with. *)
Charged(c, i) == owner[i] = c \/ Mistaken(c, i)

(* The interface i of c was taken for one of another container. *)
Taken(c, i) == \E d \in Container \ {c} : Mistaken(d, i)

(* What is being looked up, and what was found, belongs to its container. *)
Lookups ==
    /\ listener = "recv" <=> handling = NoContainer
    /\ listener = "iplink" => ifaceID \in Iface /\ owner[ifaceID] = handling
    /\ \A i \in Iface : containerIfaces[i] # NoContainer => Charged(containerIfaces[i], i)

(* The row being stored is left in the snapshot, and belongs to its target. *)
Charges ==
    /\ poller = "store" => row \in DOMAIN rows /\ target \in Container /\ Charged(target, row)
    /\ \A c \in Container : netUsages[c].iface # 0 => Charged(c, netUsages[c].iface)

(* The samples of an interface grow: those stored, those of the snapshot   *)
(* still to be stored, the counter.                                        *)
Growing ==
    /\ \A i \in DOMAIN rows : rows[i] <= bytes[i]
    /\ \A c \in Container, i \in Iface :
          netUsages[c].iface = i =>
              /\ netUsages[c].bytes <= bytes[i]
              /\ i \in DOMAIN rows => netUsages[c].bytes <= rows[i]
    /\ \A c \in Container :
          previousNetUsages[c].iface = netUsages[c].iface =>
              previousNetUsages[c].bytes <= netUsages[c].bytes

(* All there is to hear of the running container c was heard and handled. *)
Heard(c) ==
    c \in (running \cap view) \ (doubtful \cup unresolved \cup listed) /\ Silent(c)

(* It is filed or being looked up, not under a former interface. *)
Attended(c) ==
    \/ handling = c /\ (listener = "iplink" => ifaceID = iface[c])
    \/ containerIfaces[iface[c]] = c
    \/ Taken(c, iface[c])

HeardIsFiled == \A c \in Container : Heard(c) => Attended(c)

-----------------------------------------------------------------------------

(* A step of the composition is a step of the stream or leaves it alone. *)
LEMMA NetStepIsStreamStep ==
    ASSUME [NetNext]_allVars
    PROVE  [Next]_vars
<1>1. CASE Environment
  BY <1>1 DEF Environment, ContainerStarts, ContainerEnds, HostIfaceAppears, Traffic, Next, Docker
<1>2. CASE NetRegisters
  BY <1>2 DEF NetRegisters, Next
<1>3. ASSUME NEW g \in Conn, NetReceivesLive(g) PROVE Next
  BY <1>3 DEF NetReceivesLive, Next
<1>4. ASSUME NEW c \in Container, NetReceivesListed(c) PROVE Next
  BY <1>4 DEF NetReceivesListed, Next
<1>5. CASE LookupFails \/ GetContainerIfaceID \/ GetContainerIface
  BY <1>5 DEF LookupFails, GetContainerIfaceID, GetContainerIface
<1>6. CASE Poller
  BY <1>6 DEF Poller, ReadStats, LookupContainer, StoreUsage, PollDone
<1>7. CASE UNCHANGED allVars
  BY <1>7 DEF allVars
<1>8. QED
  BY <1>1, <1>2, <1>3, <1>4, <1>5, <1>6, <1>7 DEF NetNext

(* The network monitor is a subscriber of the stream: all that is proved   *)
(* of ContainerStream holds of its registration.                           *)
THEOREM NetIsSubscriber == NetSpec => Spec
<1>1. NetInit => Init
  BY DEF NetInit
<1>2. [NetNext]_allVars => [Next]_vars
  BY NetStepIsStreamStep
<1>3. QED
  BY <1>1, <1>2, PTL DEF NetSpec, Spec

-----------------------------------------------------------------------------
(* Interfaces, their indexes and the containers they belong to.            *)

(* The least line of "ip link show" that matches is one of them. *)
LEMMA MinIsElement ==
    ASSUME NEW S \in SUBSET Nat, S # {}
    PROVE  Min(S) \in S /\ \A i \in S : Min(S) <= i
<1> DEFINE R == OpToRel(<, Nat)
<1>1. R = {ss \in Nat \X Nat : ss[1] < ss[2]}
  BY DEF OpToRel
<1>2. IsWellFoundedOn(R, Nat)
  BY NatLessThanWellFounded
<1> HIDE DEF R
<1>3. PICK x \in S : \A y \in S : ~(<<y, x>> \in R)
  BY <1>2, WFMin
<1>4. ASSUME NEW y \in S, y < x PROVE FALSE
  <2>1. <<y, x>> \in Nat \X Nat /\ <<y, x>>[1] < <<y, x>>[2]
    BY <1>4
  <2> QED
    BY <1>1, <1>3, <2>1
<1>5. \A y \in S : x <= y
  BY <1>4
<1> QED
  BY <1>5 DEF Min

(* The next index is one that no interface had. *)
LEMMA NextIndexIsFresh ==
    ASSUME NetTypeOK, Links, Cardinality(Created) + 1 <= MaxIface
    PROVE  /\ Cardinality(Created) + 1 \in Iface
           /\ owner[Cardinality(Created) + 1] = NoContainer
           /\ Created \cup {Cardinality(Created) + 1} = 1..(Cardinality(Created) + 1)
<1>1. PICK k \in 0..MaxIface : Created = 1..k
  BY DEF Links
<1>2. k \in Nat /\ MaxIface \in Nat
  BY NetBounds
<1>3. Cardinality(1..k) = k
  BY <1>2, FS_Interval
<1>4. Cardinality(Created) = k
  BY <1>1, <1>3
<1>5. k + 1 \in Iface /\ k + 1 \notin Created /\ Created \cup {k + 1} = 1..(k + 1)
  BY <1>1, <1>2, <1>4 DEF Iface
<1>6. owner[k + 1] = NoContainer
  BY <1>5 DEF Created
<1> QED
  BY <1>4, <1>5, <1>6

(* Ownership is for ever, and so is an interface mistaken for another. *)
LEMMA OwnershipKept ==
    ASSUME \A i \in Iface : owner[i] # NoContainer => owner'[i] = owner[i],
           outlived \subseteq outlived'
    PROVE  /\ \A c \in Container : \A i : Mistaken(c, i) => Mistaken(c, i)'
           /\ \A c \in Container : \A i \in Iface : Charged(c, i) => Charged(c, i)'
           /\ \A c \in Container : \A i : Taken(c, i) => Taken(c, i)'
<1>1. \A c \in Container : \A i : Mistaken(c, i) => Mistaken(c, i)'
  BY NoContainerAssumption DEF Mistaken
<1> QED
  BY <1>1, NoContainerAssumption DEF Charged, Taken

(* What the monitor keeps true of its own variables. *)
NetInv == NetTypeOK /\ Links /\ Lookups /\ Charges /\ Growing

(* At first the interfaces are those of the running containers. *)
LEMMA NetInvInit == NetInit => NetInv
<1> SUFFICES ASSUME NetInit PROVE NetInv
  OBVIOUS
<1> USE NoContainerAssumption, NetBounds
<1>1. /\ iface \in [Container -> 0..MaxIface]
      /\ running \subseteq Container
      /\ owner \in [Iface -> running \cup {Host, NoContainer}]
  BY DEF NetInit, Init
<1>2. Links
  <2>1. ASSUME NEW c \in running PROVE iface[c] \in Iface /\ owner[iface[c]] = c
    <3>1. iface[c] \in Iface
      BY <1>1 DEF NetInit, Iface
    <3> QED
      BY <1>1, <3>1 DEF NetInit
  <2> QED
    BY <2>1 DEF NetInit, Links
<1>8. NetTypeOK
  <2>1. owner \in [Iface -> Container \cup {Host, NoContainer}]
    BY <1>1
  <2>2. DOMAIN rows = {}
    BY DEF NetInit
  <2>3. ZeroStat \in NetStat
    BY DEF ZeroStat, NetStat
  <2>4. bytes \in [Iface -> 0..MaxBytes]
    BY DEF NetInit
  <2>5. netUsages \in [Container -> NetStat] /\ previousNetUsages \in [Container -> NetStat]
    BY <2>3 DEF NetInit
  <2>6. containerIfaces \in [Iface -> Container \cup {NoContainer}]
    BY DEF NetInit
  <2>7. row \in 0..MaxIface /\ ifaceID \in 0..MaxIface
    BY DEF NetInit
  <2> QED
    BY <1>1, <2>1, <2>2, <2>4, <2>5, <2>6, <2>7 DEF NetInit, NetTypeOK
<1>9. Lookups
  BY DEF NetInit, Lookups
<1>10. Charges
  BY DEF NetInit, Charges, ZeroStat
<1>11. Growing
  BY DEF NetInit, Growing, ZeroStat, Iface
<1> QED
  BY <1>2, <1>8, <1>9, <1>10, <1>11 DEF NetInv

-----------------------------------------------------------------------------
(* The environment.                                                        *)

(* Nothing of what anybody owns is taken away by a new interface, of a     *)
(* container or of the host.                                               *)
LEMMA NewInterfaceOwned ==
    ASSUME NetInv, NEW o \in Container \cup {Host}, NEW i, i = Cardinality(Created) + 1,
           i <= MaxIface, owner' = [owner EXCEPT ![i] = o],
           UNCHANGED <<bytes, listenerVars, pollerVars>>
    PROVE  /\ i \in Iface /\ owner'[i] = o
           /\ owner' \in [Iface -> Container \cup {Host, NoContainer}]
           /\ \A j \in Iface : owner[j] # NoContainer => owner'[j] = owner[j]
           /\ \E k \in 0..MaxIface : Created' = 1..k
           /\ Lookups' /\ Charges' /\ Growing'
<1> USE NoContainerAssumption, HostAssumption, NetBounds
<1>1. i \in Iface /\ owner[i] = NoContainer /\ Created \cup {i} = 1..i
  BY NextIndexIsFresh DEF NetInv
<1>2. owner' \in [Iface -> Container \cup {Host, NoContainer}] /\ owner'[i] = o
  BY <1>1 DEF NetInv, NetTypeOK
<1>3. \A j \in Iface : owner[j] # NoContainer => owner'[j] = owner[j]
  BY <1>1 DEF NetInv, NetTypeOK
<1>4. \E k \in 0..MaxIface : Created' = 1..k
  <2>1. Created' = Created \cup {i}
    BY <1>1 DEF Created, NetInv, NetTypeOK
  <2>2. i \in 0..MaxIface
    BY <1>1 DEF Iface
  <2> QED
    BY <1>1, <2>1, <2>2
<1>5. \A d \in Container : \A j \in Iface : Charged(d, j) => Charged(d, j)'
  BY <1>3, OwnershipKept DEF listenerVars
<1>6. Lookups'
  BY <1>3, <1>5 DEF NetInv, NetTypeOK, Lookups, listenerVars
<1>7. Charges'
  <2>1. \A c \in Container : netUsages[c].iface # 0 => netUsages[c].iface \in Iface
    BY DEF NetInv, NetTypeOK, NetStat, Iface
  <2>2. poller = "store" => row \in Iface
    BY DEF NetInv, NetTypeOK, Charges
  <2> QED
    BY <1>5, <2>1, <2>2 DEF NetInv, Charges, pollerVars
<1>8. Growing'
  BY DEF NetInv, Growing, pollerVars
<1> QED
  BY <1>1, <1>2, <1>3, <1>4, <1>6, <1>7, <1>8

(* A started container gets an interface of its own. *)
LEMMA NewInterfaceKept ==
    ASSUME TypeOK, NetInv, NEW c \in Container, ContainerStarts(c)
    PROVE  NetInv'
<1> DEFINE i == Cardinality(Created) + 1
<1>1. /\ i <= MaxIface
      /\ running' = running \cup {c}
      /\ iface' = [iface EXCEPT ![c] = i]
      /\ owner' = [owner EXCEPT ![i] = c]
      /\ UNCHANGED <<bytes, listenerVars, pollerVars>>
  BY DEF ContainerStarts, DockerStart
<1>2. /\ i \in Iface /\ owner'[i] = c
      /\ owner' \in [Iface -> Container \cup {Host, NoContainer}]
      /\ \A j \in Iface : owner[j] # NoContainer => owner'[j] = owner[j]
      /\ \E k \in 0..MaxIface : Created' = 1..k
      /\ Lookups' /\ Charges' /\ Growing'
  BY <1>1, NewInterfaceOwned
<1> HIDE DEF i
<1>3. NetTypeOK'
  BY <1>1, <1>2 DEF NetInv, NetTypeOK, listenerVars, pollerVars, Iface
<1>4. Links'
  <2>1. ASSUME NEW d \in running' PROVE iface'[d] \in Iface /\ owner'[iface'[d]] = d
    <3>1. CASE d = c
      BY <1>1, <1>2, <3>1 DEF NetInv, NetTypeOK
    <3>2. CASE d # c
      <4>1. d \in running /\ d \in Container
        BY <1>1, <2>1, <3>2 DEF TypeOK
      <4>2. iface[d] \in Iface /\ owner[iface[d]] = d
        BY <4>1 DEF NetInv, Links
      <4> QED
        BY <1>1, <1>2, <3>2, <4>1, <4>2, NoContainerAssumption DEF NetInv, NetTypeOK
    <3> QED
      BY <3>1, <3>2
  <2> QED
    BY <1>2, <2>1 DEF Links
<1> QED
  BY <1>2, <1>3, <1>4 DEF NetInv

(* So does the host. *)
LEMMA HostInterfaceKept ==
    ASSUME TypeOK, NetInv, HostIfaceAppears
    PROVE  NetInv'
<1> DEFINE i == Cardinality(Created) + 1
<1>1. /\ i <= MaxIface
      /\ owner' = [owner EXCEPT ![i] = Host]
      /\ UNCHANGED <<running, iface, bytes, listenerVars, pollerVars>>
  BY DEF HostIfaceAppears, vars, dockerVars
<1>2. /\ owner' \in [Iface -> Container \cup {Host, NoContainer}]
      /\ \A j \in Iface : owner[j] # NoContainer => owner'[j] = owner[j]
      /\ \E k \in 0..MaxIface : Created' = 1..k
      /\ Lookups' /\ Charges' /\ Growing'
  BY <1>1, NewInterfaceOwned
<1> HIDE DEF i
<1>3. NetTypeOK'
  BY <1>1, <1>2 DEF NetInv, NetTypeOK, listenerVars, pollerVars
<1>4. Links'
  BY <1>1, <1>2, NoContainerAssumption DEF NetInv, Links, TypeOK
<1> QED
  BY <1>2, <1>3, <1>4 DEF NetInv

(* A container that ends takes its interface along, not what it owned. *)
LEMMA InterfaceGoneKept ==
    ASSUME TypeOK, NetInv, NEW c \in Container, ContainerEnds(c)
    PROVE  NetInv'
<1> USE NetBounds
<1>1. /\ running' = running \ {c}
      /\ iface' = [iface EXCEPT ![c] = 0]
      /\ UNCHANGED <<owner, bytes, listenerVars, pollerVars>>
  BY DEF ContainerEnds, DockerStop, DockerDie
<1>2. NetTypeOK'
  BY <1>1 DEF NetInv, NetTypeOK, listenerVars, pollerVars
<1>3. Links'
  BY <1>1 DEF NetInv, NetTypeOK, Links, Created, TypeOK
<1>4. Lookups' /\ Charges'
  BY <1>1 DEF NetInv, Lookups, Charges, Charged, Mistaken, listenerVars, pollerVars
<1>5. Growing'
  BY <1>1 DEF NetInv, Growing, pollerVars
<1> QED
  BY <1>2, <1>3, <1>4, <1>5 DEF NetInv

(* Counters only grow. *)
LEMMA TrafficKept ==
    ASSUME NetInv, NEW i \in Iface, Traffic(i)
    PROVE  NetInv'
<1> USE NetBounds
<1>1. /\ bytes[i] < MaxBytes
      /\ bytes' = [bytes EXCEPT ![i] = @ + 1]
      /\ UNCHANGED <<running, iface, owner, listenerVars, pollerVars>>
  BY DEF Traffic, vars, dockerVars
<1>2. NetTypeOK'
  BY <1>1 DEF NetInv, NetTypeOK, listenerVars, pollerVars
<1>3. Links' /\ Lookups' /\ Charges'
  BY <1>1 DEF NetInv, Links, Created, Lookups, Charges, Charged, Mistaken,
              listenerVars, pollerVars
<1>4. Growing'
  <2>1. \A j \in Iface : bytes[j] <= bytes'[j] /\ bytes[j] \in Nat /\ bytes'[j] \in Nat
    BY <1>1 DEF NetInv, NetTypeOK
  <2>2. \A j \in DOMAIN rows : j \in Iface /\ rows[j] \in Nat
    BY DEF NetInv, NetTypeOK
  <2>3. \A c \in Container : netUsages[c].bytes \in Nat
    BY DEF NetInv, NetTypeOK, NetStat
  <2>4. UNCHANGED <<rows, netUsages, previousNetUsages>>
    BY <1>1 DEF pollerVars
  <2> QED
    BY <2>1, <2>2, <2>3, <2>4 DEF NetInv, Growing
<1> QED
  BY <1>2, <1>3, <1>4 DEF NetInv

-----------------------------------------------------------------------------
(* The listener.                                                           *)

(* Its steps leave interfaces and samples alone. *)
LEMMA ListenerKept ==
    ASSUME NetInv, UNCHANGED <<running, linkVars, pollerVars>>, NetTypeOK', Lookups',
           outlived \subseteq outlived'
    PROVE  NetInv'
<1>1. Links' /\ Growing'
  BY DEF NetInv, Links, Created, Growing, linkVars, pollerVars
<1>2. \A c \in Container : \A i \in Iface : Charged(c, i) => Charged(c, i)'
  BY OwnershipKept DEF linkVars
<1>3. Charges'
  <2>1. \A c \in Container : netUsages[c].iface # 0 => netUsages[c].iface \in Iface
    BY DEF NetInv, NetTypeOK, NetStat, Iface
  <2>2. poller = "store" => row \in Iface
    BY DEF NetInv, NetTypeOK, Charges
  <2> QED
    BY <1>2, <2>1, <2>2 DEF NetInv, Charges, pollerVars
<1> QED
  BY <1>1, <1>3 DEF NetInv

LEMMA LookupBegins ==
    ASSUME NetInv, NEW c \in Container, StartMonitoringContainer(c), UNCHANGED running
    PROVE  NetInv'
<1>1. /\ listener' = "netns" /\ handling' = c /\ unresolved' = unresolved \ {c}
      /\ UNCHANGED <<linkVars, ifaceID, containerIfaces, outlived, pollerVars>>
  BY DEF StartMonitoringContainer
<1>2. NetTypeOK'
  BY <1>1 DEF NetInv, NetTypeOK, linkVars, pollerVars
<1>3. Lookups'
  BY <1>1, NoContainerAssumption DEF NetInv, Lookups, Charged, Mistaken, linkVars
<1> QED
  BY <1>1, <1>2, <1>3, ListenerKept

LEMMA CleanKept ==
    ASSUME NetInv, NEW c \in Container, CleanMonitoringData(c), UNCHANGED running
    PROVE  NetInv'
<1>1. /\ \A i \in Iface : containerIfaces'[i] \in {containerIfaces[i], NoContainer}
      /\ containerIfaces' \in [Iface -> Container \cup {NoContainer}]
      /\ UNCHANGED <<linkVars, listener, handling, ifaceID, unresolved, outlived, pollerVars>>
  BY DEF CleanMonitoringData, NetInv, NetTypeOK
<1>2. NetTypeOK'
  BY <1>1 DEF NetInv, NetTypeOK, linkVars, pollerVars
<1>3. Lookups'
  BY <1>1 DEF NetInv, Lookups, Charged, Mistaken, linkVars
<1> QED
  BY <1>1, <1>2, <1>3, ListenerKept

(* While the interface exists, its own line is the first that begins with  *)
(* its index; the others have greater ones.                                *)
LEMMA FirstLine ==
    ASSUME TypeOK, NetInv, listener = "iplink", Matching # {}
    PROVE  /\ Min(Matching) \in Iface
           /\ Min(Matching) = ifaceID \/ <<ifaceID, Min(Matching)>> \in PrefixOf
           /\ ifaceID \in Existing => Min(Matching) = ifaceID
           /\ ifaceID \in Iface /\ owner[ifaceID] = handling /\ handling \in Container
<1> DEFINE m == Min(Matching)
<1>1. Matching \in SUBSET Nat /\ Matching \subseteq Iface
  BY NetBounds DEF Matching, Existing, Iface
<1>2. m \in Matching /\ \A i \in Matching : m <= i
  BY <1>1, MinIsElement
<1>3. ifaceID \in Iface /\ owner[ifaceID] = handling /\ handling \in Container
  BY DEF NetInv, NetTypeOK, Lookups
<1> HIDE DEF m
<1>4. m = ifaceID \/ <<ifaceID, m>> \in PrefixOf
  BY <1>2 DEF Matching
<1>5. ASSUME ifaceID \in Existing, <<ifaceID, m>> \in PrefixOf PROVE FALSE
  <2>1. ifaceID \in Matching
    BY <1>5 DEF Matching
  <2>2. <<ifaceID, m>>[1] < <<ifaceID, m>>[2]
    BY <1>5, PrefixAssumption
  <2> QED
    BY <1>1, <1>2, <2>1, <2>2
<1> QED
  BY <1>1, <1>2, <1>3, <1>4, <1>5 DEF m

LEMMA LookupKept ==
    ASSUME TypeOK, NetInv, LookupFails \/ GetContainerIfaceID \/ GetContainerIface
    PROVE  NetInv'
<1>1. UNCHANGED <<running, linkVars, pollerVars>>
  BY DEF LookupFails, GetContainerIfaceID, GetContainerIface, vars, dockerVars
<1>2. CASE LookupFails
  <2>1. NetTypeOK'
    BY <1>1, <1>2, NetBounds DEF LookupFails, NetInv, NetTypeOK, TypeOK, linkVars, pollerVars
  <2>2. Lookups'
    BY <1>1, <1>2 DEF LookupFails, NetInv, Lookups, Charged, Mistaken, linkVars
  <2> QED
    BY <1>1, <1>2, <2>1, <2>2, ListenerKept DEF LookupFails
<1>3. CASE GetContainerIfaceID
  <2>1. NetTypeOK'
    BY <1>1, <1>3 DEF GetContainerIfaceID, NetInv, NetTypeOK, TypeOK, linkVars, pollerVars
  <2>2. Lookups'
    BY <1>1, <1>3 DEF GetContainerIfaceID, NetInv, Lookups, Links, Charged, Mistaken, linkVars
  <2> QED
    BY <1>1, <1>3, <2>1, <2>2, ListenerKept DEF GetContainerIfaceID
<1>4. CASE GetContainerIface
  <2> DEFINE i == Min(Matching)
  <2>1. /\ listener = "iplink" /\ Matching # {}
        /\ containerIfaces' = [containerIfaces EXCEPT ![i] = handling]
        /\ outlived' = IF ifaceID \in Existing THEN outlived ELSE outlived \cup {handling}
        /\ listener' = "recv" /\ handling' = NoContainer /\ ifaceID' = 0
        /\ UNCHANGED <<unresolved>>
    BY <1>4 DEF GetContainerIface
  <2>2. /\ i \in Iface
        /\ i = ifaceID \/ <<ifaceID, i>> \in PrefixOf
        /\ ifaceID \in Existing => i = ifaceID
        /\ ifaceID \in Iface /\ owner[ifaceID] = handling /\ handling \in Container
    BY <2>1, FirstLine
  <2> HIDE DEF i
  <2>3. NetTypeOK'
    BY <1>1, <2>1, <2>2, NetBounds DEF NetInv, NetTypeOK, linkVars, pollerVars
  <2>4. Lookups'
    <3>1. owner' = owner /\ outlived \subseteq outlived'
      BY <1>1, <2>1 DEF linkVars
    <3>2. \A d \in Container : \A j \in Iface : Charged(d, j) => Charged(d, j)'
      BY <3>1, OwnershipKept
    <3>3. \A j \in Iface : containerIfaces'[j] = IF j = i THEN handling ELSE containerIfaces[j]
      BY <2>1, <2>2 DEF NetInv, NetTypeOK
    <3>4. ASSUME NEW j \in Iface, NEW d \in Container, containerIfaces'[j] = d
          PROVE  Charged(d, j)'
      <4>1. CASE j = i
        <5>1. d = handling
          BY <3>3, <3>4, <4>1
        <5>2. owner[ifaceID] = d /\ (d \in outlived' \/ j = ifaceID)
          BY <2>1, <2>2, <4>1, <5>1
        <5>3. j = ifaceID \/ <<ifaceID, j>> \in PrefixOf
          BY <2>2, <4>1
        <5> QED
          BY <2>2, <3>1, <5>2, <5>3 DEF Charged, Mistaken
      <4>2. CASE j # i
        <5>1. containerIfaces[j] = d
          BY <3>3, <3>4, <4>2
        <5>2. Charged(d, j)
          BY <5>1, NoContainerAssumption DEF NetInv, Lookups
        <5> QED
          BY <3>2, <5>2
      <4> QED
        BY <4>1, <4>2
    <3>5. \A j \in Iface : containerIfaces'[j] \in Container \cup {NoContainer}
      BY <2>3 DEF NetTypeOK
    <3> QED
      BY <2>1, <3>4, <3>5 DEF Lookups
  <2> QED
    BY <1>1, <2>1, <2>3, <2>4, ListenerKept
<1> QED
  BY <1>2, <1>3, <1>4

-----------------------------------------------------------------------------
(* The poller.                                                             *)

LEMMA PollerKept ==
    ASSUME NetInv, UNCHANGED <<running, linkVars, listenerVars>>, NetTypeOK', Charges', Growing'
    PROVE  NetInv'
<1>1. Links'
  BY DEF NetInv, Links, Created, linkVars
<1>2. Lookups'
  BY DEF NetInv, Lookups, Charged, Mistaken, linkVars, listenerVars
<1> QED
  BY <1>1, <1>2 DEF NetInv

LEMMA PollKept ==
    ASSUME TypeOK, NetInv, Poller
    PROVE  NetInv'
<1>1. UNCHANGED <<running, linkVars, listenerVars>>
  BY DEF Poller, ReadStats, LookupContainer, StoreUsage, PollDone, vars, dockerVars
<1>2. \A d, j : Charged(d, j)' <=> Charged(d, j)
  BY <1>1 DEF Charged, Mistaken, linkVars, listenerVars
<1>3. CASE ReadStats
  <2>1. /\ rows' = [i \in Existing |-> bytes[i]] /\ poller' = "lookup"
        /\ UNCHANGED <<row, target, netUsages, previousNetUsages, bytes>>
    BY <1>1, <1>3 DEF ReadStats, linkVars
  <2>2. Existing \subseteq Iface /\ \A i \in Iface : bytes[i] \in Nat
    BY NetBounds DEF Existing, NetInv, NetTypeOK
  <2>3. NetTypeOK'
    BY <1>1, <2>1, <2>2 DEF NetInv, NetTypeOK, linkVars, listenerVars
  <2>4. Charges'
    BY <1>2, <2>1 DEF NetInv, Charges
  <2>5. Growing'
    BY <2>1, <2>2 DEF NetInv, Growing
  <2> QED
    BY <1>1, <2>3, <2>4, <2>5, PollerKept
<1>4. ASSUME NEW i \in DOMAIN rows, LookupContainer(i) PROVE NetInv'
  <2>1. UNCHANGED <<netUsages, previousNetUsages, bytes>> /\ i \in Iface
    BY <1>1, <1>4 DEF LookupContainer, linkVars, NetInv, NetTypeOK
  <2>2. CASE containerIfaces[i] = NoContainer
    <3>1. rows' = Without(rows, i) /\ poller' = poller /\ UNCHANGED <<row, target>>
          /\ poller = "lookup"
      BY <1>4, <2>2 DEF LookupContainer
    <3>2. DOMAIN rows' = DOMAIN rows \ {i} /\ \A j \in DOMAIN rows' : rows'[j] = rows[j]
      BY <3>1 DEF Without
    <3>3. NetTypeOK'
      BY <1>1, <2>1, <3>1, <3>2 DEF NetInv, NetTypeOK, linkVars, listenerVars
    <3>4. Charges'
      BY <1>2, <2>1, <3>1 DEF NetInv, Charges
    <3>5. Growing'
      BY <2>1, <3>2 DEF NetInv, Growing
    <3> QED
      BY <1>1, <3>3, <3>4, <3>5, PollerKept
  <2>3. CASE containerIfaces[i] # NoContainer
    <3>1. rows' = rows /\ poller' = "store" /\ row' = i /\ target' = containerIfaces[i]
      BY <1>4, <2>3 DEF LookupContainer
    <3>2. target' \in Container /\ Charged(target', i)
      BY <2>1, <2>3, <3>1 DEF NetInv, NetTypeOK, Lookups
    <3>3. NetTypeOK'
      BY <1>1, <2>1, <3>1, <3>2 DEF NetInv, NetTypeOK, linkVars, listenerVars, Iface
    <3>4. Charges'
      BY <1>2, <2>1, <3>1, <3>2 DEF NetInv, Charges
    <3>5. Growing'
      BY <2>1, <3>1 DEF NetInv, Growing
    <3> QED
      BY <1>1, <3>3, <3>4, <3>5, PollerKept
  <2> QED
    BY <2>2, <2>3
<1>5. CASE StoreUsage
  <2> DEFINE new == [iface |-> row, bytes |-> rows[row]]
  <2>1. /\ previousNetUsages' = [previousNetUsages EXCEPT ![target] = netUsages[target]]
        /\ netUsages' = [netUsages EXCEPT ![target] = new]
        /\ rows' = Without(rows, row) /\ poller = "store" /\ poller' = "lookup"
        /\ row' = 0 /\ target' = NoContainer /\ UNCHANGED bytes
    BY <1>1, <1>5 DEF StoreUsage, linkVars
  <2>2. /\ row \in DOMAIN rows /\ target \in Container /\ Charged(target, row)
        /\ row \in Iface /\ rows[row] \in 0..MaxBytes
    BY <2>1 DEF NetInv, NetTypeOK, Charges
  <2>3. new.iface = row /\ new.bytes = rows[row] /\ new \in NetStat
    BY <2>2 DEF NetStat, Iface
  <2> HIDE DEF new
  <2>4. DOMAIN rows' = DOMAIN rows \ {row} /\ \A j \in DOMAIN rows' : rows'[j] = rows[j]
    BY <2>1 DEF Without
  <2>5. \A c \in Container :
          /\ netUsages'[c] = IF c = target THEN new ELSE netUsages[c]
          /\ previousNetUsages'[c] = IF c = target THEN netUsages[c] ELSE previousNetUsages[c]
    BY <2>1 DEF NetInv, NetTypeOK
  <2>6. NetTypeOK'
    BY <1>1, <2>1, <2>2, <2>3, <2>4, NetBounds DEF NetInv, NetTypeOK, linkVars, listenerVars
  <2>7. Charges'
    BY <1>2, <2>1, <2>2, <2>3, <2>5 DEF NetInv, Charges
  <2>8. Growing'
    <3>1. \A i \in DOMAIN rows' : rows'[i] <= bytes'[i]
      BY <2>1, <2>4 DEF NetInv, Growing
    <3>2. ASSUME NEW c \in Container, NEW i \in Iface, netUsages'[c].iface = i
          PROVE  /\ netUsages'[c].bytes <= bytes'[i]
                 /\ i \in DOMAIN rows' => netUsages'[c].bytes <= rows'[i]
      <4>1. CASE c = target
        BY <2>1, <2>2, <2>3, <2>4, <2>5, <3>2, <4>1 DEF NetInv, Growing
      <4>2. CASE c # target
        BY <2>1, <2>4, <2>5, <3>2, <4>2 DEF NetInv, Growing
      <4> QED
        BY <4>1, <4>2
    <3>3. ASSUME NEW c \in Container, previousNetUsages'[c].iface = netUsages'[c].iface
          PROVE  previousNetUsages'[c].bytes <= netUsages'[c].bytes
      <4>1. CASE c = target
        BY <2>2, <2>3, <2>5, <3>3, <4>1 DEF NetInv, Growing
      <4>2. CASE c # target
        BY <2>5, <3>3, <4>2 DEF NetInv, Growing
      <4> QED
        BY <4>1, <4>2
    <3> QED
      BY <3>1, <3>2, <3>3 DEF Growing
  <2> QED
    BY <1>1, <2>6, <2>7, <2>8, PollerKept
<1>6. CASE PollDone
  <2>1. poller' = "tick" /\ UNCHANGED <<rows, row, target, netUsages, previousNetUsages, bytes>>
    BY <1>1, <1>6 DEF PollDone, linkVars
  <2>2. NetTypeOK'
    BY <1>1, <2>1 DEF NetInv, NetTypeOK, linkVars, listenerVars
  <2>3. Charges' /\ Growing'
    BY <1>2, <2>1 DEF NetInv, Charges, Growing
  <2> QED
    BY <1>1, <2>2, <2>3, PollerKept
<1> QED
  BY <1>3, <1>4, <1>5, <1>6 DEF Poller

-----------------------------------------------------------------------------

LEMMA RestKept ==
    ASSUME NetInv, UNCHANGED <<running, netVars>>
    PROVE  NetInv'
<1>1. NetTypeOK'
  BY DEF NetInv, NetTypeOK, netVars, linkVars, listenerVars, pollerVars
<1>2. Lookups'
  BY DEF NetInv, Lookups, Charged, Mistaken, netVars, linkVars, listenerVars
<1> QED
  BY <1>1, <1>2, ListenerKept DEF netVars, listenerVars

LEMMA NetInvKept ==
    ASSUME TypeOK, NetInv, [NetNext]_allVars
    PROVE  NetInv'
<1>1. CASE Environment
  BY <1>1, NewInterfaceKept, HostInterfaceKept, InterfaceGoneKept, TrafficKept, RestKept
     DEF Environment, Existing, Open, Close
<1>2. CASE NetRegisters
  BY <1>2, RestKept DEF NetRegisters, Subscribe, Snapshot, SnapshotFails, dockerVars
<1>3. ASSUME NEW g \in Conn, NetReceivesLive(g) PROVE NetInv'
  <2>1. Head(live[g]).id \in Container /\ UNCHANGED running
    BY <1>3, TailAbout DEF NetReceivesLive, ReceiveLive, TypeOK, Event, dockerVars
  <2> QED
    BY <1>3, <2>1, LookupBegins, CleanKept, RestKept DEF NetReceivesLive
<1>4. ASSUME NEW c \in Container, NetReceivesListed(c) PROVE NetInv'
  BY <1>4, LookupBegins DEF NetReceivesListed, ReceiveListed, dockerVars
<1>5. CASE LookupFails \/ GetContainerIfaceID \/ GetContainerIface
  BY <1>5, LookupKept
<1>6. CASE Poller
  BY <1>6, PollKept
<1>7. CASE UNCHANGED allVars
  BY <1>7, RestKept DEF allVars, vars, dockerVars
<1> QED
  BY <1>1, <1>2, <1>3, <1>4, <1>5, <1>6, <1>7 DEF NetNext

(* The invariant holds of every behaviour. *)
LEMMA NetInductive == NetSpec => []NetInv
<1>1. NetInit => NetInv
  BY NetInvInit
<1>2. TypeOK /\ NetInv /\ [NetNext]_allVars => NetInv'
  BY NetInvKept
<1> QED
  BY <1>1, <1>2, NetIsSubscriber, TypeCorrect, PTL DEF NetSpec

(* The variables of the network monitor always have their types: the       *)
(* poller has a container and a row in hand when it stores.                *)
THEOREM NetTypeCorrect == NetSpec => []NetTypeOK
<1>1. NetInv => NetTypeOK
  BY DEF NetInv
<1> QED
  BY <1>1, NetInductive, PTL

(* However the listener's lookups, the restarts of containers and the      *)
(* poller's snapshots interleave, a container is charged with the traffic  *)
(* of interfaces created for it; only one that ended between the two steps *)
(* of its lookup may be charged with that of another owner, whose index    *)
(* begins with its own.                                                    *)
THEOREM OwnTraffic == NetSpec => []ChargedForOwnTraffic
<1>1. NetInv => ChargedForOwnTraffic
  BY DEF NetInv, Charges, Charged, ChargedForOwnTraffic
<1> QED
  BY <1>1, NetInductive, PTL

(* For any bound on the counters: as long as a container keeps its         *)
(* interface, the unsigned difference of its samples does not wrap.        *)
THEOREM RateCorrect == NetSpec => []RateIsTraffic
<1>1. NetInv => RateIsTraffic
  <2> SUFFICES ASSUME NetInv, NEW c \in Container,
                      previousNetUsages[c].iface = netUsages[c].iface
               PROVE  GetUsage(c) <= MaxBytes
    BY DEF RateIsTraffic
  <2> DEFINE p == previousNetUsages[c].bytes
             b == netUsages[c].bytes
  <2>1. p \in 0..MaxBytes /\ b \in 0..MaxBytes /\ p <= b
    BY DEF NetInv, NetTypeOK, NetStat, Growing
  <2>2. GetUsage(c) = IF p > 0 THEN (b - p) % Modulus ELSE 0
    BY DEF GetUsage
  <2> HIDE DEF p, b
  <2>3. b - p \in 0..(Modulus - 1) /\ b - p <= MaxBytes /\ Modulus \in Nat \ {0}
    BY <2>1, NetBounds DEF Modulus
  <2>4. (b - p) % Modulus = b - p
    BY <2>3
  <2> QED
    BY <2>1, <2>2, <2>3, <2>4, NetBounds
<1> QED
  BY <1>1, NetInductive, PTL

-----------------------------------------------------------------------------
(* RunningContainerFiled is inductive once it says which lookups count,    *)
(* and is said of the containers in the view.                              *)

(* What was to be heard is still to be heard after one more event. *)
LEMMA AppendMentions ==
    ASSUME NEW s \in Seq(Event), NEW e \in Event
    PROVE  /\ Mentions(Append(s, e), e.id)
           /\ \A c : Mentions(s, c) => Mentions(Append(s, e), c)
<1> DEFINE t == Append(s, e)
<1>1. /\ Len(t) = Len(s) + 1
      /\ t[Len(s) + 1] = e
      /\ \A i \in 1..Len(s) : t[i] = s[i]
      /\ Len(s) \in Nat
  OBVIOUS
<1> HIDE DEF t
<1>2. Mentions(t, e.id) /\ \A c : Mentions(s, c) => Mentions(t, c)
  BY <1>1 DEF Mentions
<1> QED
  BY <1>2 DEF t

(* The next event is removed, and what is left is still to be heard. *)
LEMMA TailMentions ==
    ASSUME NEW s \in Seq(Event), s # <<>>
    PROVE  \A c : Mentions(s, c) => Head(s).id = c \/ Mentions(Tail(s), c)
<1> DEFINE t == Tail(s)
<1>1. /\ Len(t) = Len(s) - 1
      /\ Head(s) = s[1]
      /\ \A i \in 1..Len(t) : t[i] = s[i + 1]
      /\ Len(s) \in Nat /\ Len(s) >= 1
  OBVIOUS
<1> HIDE DEF t
<1>2. ASSUME NEW c, Mentions(s, c), Head(s).id # c PROVE Mentions(t, c)
  <2>1. PICK i \in 1..Len(s) : s[i].id = c
    BY <1>2 DEF Mentions
  <2>2. i # 1
    BY <1>1, <1>2, <2>1
  <2>3. i - 1 \in 1..Len(t) /\ t[i - 1] = s[i]
    BY <1>1, <2>1, <2>2
  <2> QED
    BY <2>1, <2>3 DEF Mentions
<1> QED
  BY <1>2 DEF t

(* An event about another container, published or not. *)
LEMMA PublishMentions ==
    ASSUME TypeOK, NEW e \in Event, Publish(e)
    PROVE  /\ open => ~Silent(e.id)'
           /\ \A d : Silent(d)' => Silent(d)
<1>1. CASE ~open
  BY <1>1 DEF Publish, Silent
<1>2. CASE open
  <2>1. gen \in Conn /\ live[gen] \in Seq(Event)
    BY <1>2, MaxConnAssumption DEF TypeOK, Conn
  <2>2. \A g \in Conn : live'[g] = IF g = gen THEN Append(live[g], e) ELSE live[g]
    BY <1>2, <2>1 DEF Publish, TypeOK
  <2>3. Mentions(live'[gen], e.id)
    BY <2>1, <2>2, AppendMentions
  <2>4. \A g \in Conn : \A d : Mentions(live[g], d) => Mentions(live'[g], d)
    BY <2>1, <2>2, AppendMentions
  <2>5. ~Silent(e.id)'
    BY <2>1, <2>3 DEF Silent
  <2>6. ASSUME NEW d, Silent(d)' PROVE Silent(d)
    BY <2>4, <2>6 DEF Silent
  <2> QED
    BY <2>5, <2>6
<1> QED
  BY <1>1, <1>2

(* Docker starts or ends a container: it is to be heard of, in doubt or    *)
(* unknown, and the others are left alone.                                 *)
LEMMA DockerFiled ==
    ASSUME TypeOK, NetInv, HeardIsFiled, NEW c \in Container,
           ContainerStarts(c) \/ ContainerEnds(c)
    PROVE  HeardIsFiled'
<1> SUFFICES ASSUME NEW d \in Container, Heard(d)' PROVE Attended(d)'
  BY DEF HeardIsFiled
<1>1. UNCHANGED <<listing, listed, view, listenerVars>>
  BY DEF ContainerStarts, ContainerEnds, DockerStart, DockerStop, DockerDie
<1>2. d # c
  <2> SUFFICES ASSUME d = c PROVE FALSE
    OBVIOUS
  <2>1. ContainerStarts(c)
    BY DEF ContainerEnds, DockerStop, DockerDie, Heard
  <2> DEFINE e == [id |-> c, action |-> "start"]
  <2>2. e \in Event /\ e.id = c /\ Publish(e) /\ Doubt(c, StartDoubt(c))
    BY <2>1 DEF ContainerStarts, DockerStart, Event
  <2>3. ~open
    BY <2>2, PublishMentions DEF Heard
  <2>4. ~StartDoubt(c)
    BY <2>2 DEF Doubt, Heard
  <2> QED
    BY <1>1, <2>3, <2>4 DEF StartDoubt, Heard
<1>3. Heard(d)
  <2>1. Silent(d)
    <3>1. CASE ContainerStarts(c)
      <4>1. [id |-> c, action |-> "start"] \in Event /\ Publish([id |-> c, action |-> "start"])
        BY <3>1 DEF ContainerStarts, DockerStart, Event
      <4> QED
        BY <4>1, PublishMentions DEF Heard
    <3>2. CASE ContainerEnds(c) /\ DockerStop(c)
      <4>1. [id |-> c, action |-> "stop"] \in Event /\ Publish([id |-> c, action |-> "stop"])
        BY <3>2 DEF DockerStop, Event
      <4> QED
        BY <4>1, PublishMentions DEF Heard
    <3>3. CASE ContainerEnds(c) /\ DockerDie(c)
      BY <3>3 DEF DockerDie, Heard, Silent
    <3> QED
      BY <3>1, <3>2, <3>3 DEF ContainerEnds
  <2>2. d \in running /\ d \notin doubtful
    BY <1>2 DEF ContainerStarts, ContainerEnds, DockerStart, DockerStop, DockerDie, Doubt, Heard
  <2> QED
    BY <1>1, <2>1, <2>2 DEF Heard, listenerVars
<1>4. Attended(d)
  BY <1>3 DEF HeardIsFiled
<1>5. iface'[d] = iface[d]
  BY <1>2 DEF ContainerStarts, ContainerEnds, NetInv, NetTypeOK
<1>6. \A j \in Iface : owner[j] # NoContainer => owner'[j] = owner[j]
  BY NewInterfaceOwned DEF ContainerStarts, ContainerEnds
<1>7. Taken(d, iface[d]) => Taken(d, iface[d])'
  <2>1. \A i : Taken(d, i) => Taken(d, i)'
    BY <1>1, <1>6, OwnershipKept DEF listenerVars
  <2> QED
    BY <1>5, <2>1
<1> QED
  BY <1>1, <1>4, <1>5, <1>7 DEF Attended, listenerVars

(* What is lost with a connection is in doubt. *)
LEMMA CloseHeard ==
    ASSUME TypeOK, NEW n \in 0..MaxPending, Close(n), NEW d \in Container,
           d \notin doubtful', Silent(d)'
    PROVE  Silent(d)
<1> DEFINE s == live[gen]
<1>1. gen \in Conn /\ s \in Seq(Event) /\ n \in Nat /\ n <= Len(s)
  BY MaxConnAssumption, MaxPendingAssumption DEF Close, TypeOK, Conn
<1>2. \A g \in Conn : live'[g] = IF g = gen THEN SubSeq(s, 1, n) ELSE live[g]
  BY <1>1 DEF Close, TypeOK
<1>3. ~\E i \in (n + 1)..Len(s) : s[i].id = d
  BY DEF Close
<1> HIDE DEF s
<1>4. Len(SubSeq(s, 1, n)) = n /\ (\A i \in 1..n : SubSeq(s, 1, n)[i] = s[i]) /\ Len(s) \in Nat
  BY <1>1
<1>5. Mentions(s, d) => Mentions(SubSeq(s, 1, n), d)
  BY <1>1, <1>3, <1>4 DEF Mentions
<1> QED
  BY <1>1, <1>2, <1>5 DEF Silent, s

(* Nothing that concerns the listener is changed but, perhaps, what is     *)
(* still to come: a container heard of then was heard of before.           *)
LEMMA StreamFiled ==
    ASSUME HeardIsFiled, UNCHANGED <<iface, owner, listenerVars>>,
           \A d \in Container : Heard(d)' => Heard(d)
    PROVE  HeardIsFiled'
<1> SUFFICES ASSUME NEW d \in Container, Heard(d)' PROVE Attended(d)'
  BY DEF HeardIsFiled
<1>1. Attended(d)
  BY DEF HeardIsFiled
<1>2. Taken(d, iface[d]) => Taken(d, iface[d])'
  BY DEF Taken, Mistaken, listenerVars
<1> QED
  BY <1>1, <1>2 DEF Attended, listenerVars

(* The daemon's connection and the registration. *)
LEMMA ConnectionFiled ==
    ASSUME TypeOK, HeardIsFiled, UNCHANGED netVars,
           \/ Open
           \/ \E n \in 0..MaxPending : Close(n)
           \/ Subscribe \/ Snapshot \/ SnapshotFails
    PROVE  HeardIsFiled'
<1>1. UNCHANGED <<iface, owner, listenerVars, unresolved>>
  BY DEF netVars, linkVars, listenerVars
<1> SUFFICES ASSUME NEW d \in Container, Heard(d)' PROVE Heard(d)
  BY <1>1, StreamFiled
<1>2. CASE Open \/ Subscribe
  BY <1>1, <1>2 DEF Open, Subscribe, streamVars, dockerVars, Heard, Silent
<1>3. ASSUME NEW n \in 0..MaxPending, Close(n) PROVE Heard(d)
  <2>1. Silent(d)
    BY <1>3, CloseHeard DEF Heard
  <2> QED
    BY <1>1, <1>3, <2>1 DEF Close, Heard
<1>4. CASE Snapshot
  BY <1>4 DEF Snapshot, dockerVars, Heard
<1>5. CASE SnapshotFails
  BY <1>1, <1>5 DEF SnapshotFails, dockerVars, Heard, Silent
<1> QED
  BY <1>2, <1>3, <1>4, <1>5

(* A lookup begins while none is under way: the containers filed stay so. *)
LEMMA LookupBeginsFiled ==
    ASSUME NetInv, HeardIsFiled, listener = "recv", NEW c \in Container,
           StartMonitoringContainer(c),
           \A d \in Container \ {c} : Heard(d)' => Heard(d)
    PROVE  HeardIsFiled'
<1> SUFFICES ASSUME NEW d \in Container, Heard(d)' PROVE Attended(d)'
  BY DEF HeardIsFiled
<1>1. CASE d = c
  BY <1>1 DEF StartMonitoringContainer, Attended
<1>2. CASE d # c
  <2>1. Attended(d)
    BY <1>2 DEF HeardIsFiled
  <2>2. handling # d
    BY NoContainerAssumption DEF NetInv, Lookups
  <2>3. UNCHANGED <<iface, owner, containerIfaces, outlived>>
    BY DEF StartMonitoringContainer, linkVars
  <2>4. Taken(d, iface[d]) => Taken(d, iface[d])'
    BY <2>3 DEF Taken, Mistaken
  <2> QED
    BY <2>1, <2>2, <2>3, <2>4 DEF Attended
<1> QED
  BY <1>1, <1>2

(* A stop event: only entries of the stopped container are removed. *)
LEMMA CleanFiled ==
    ASSUME NetInv, HeardIsFiled, NEW c \in Container, CleanMonitoringData(c),
           c \notin view',
           \A d \in Container \ {c} : Heard(d)' => Heard(d)
    PROVE  HeardIsFiled'
<1> SUFFICES ASSUME NEW d \in Container, Heard(d)' PROVE Attended(d)'
  BY DEF HeardIsFiled
<1>1. d # c
  BY DEF Heard
<1>2. Attended(d) /\ iface[d] \in Iface
  BY <1>1 DEF HeardIsFiled, Heard, NetInv, Links
<1>3. UNCHANGED <<iface, owner, listener, handling, ifaceID, outlived>>
  BY DEF CleanMonitoringData, linkVars
<1>4. containerIfaces[iface[d]] = d => containerIfaces'[iface[d]] = d
  BY <1>1, <1>2 DEF CleanMonitoringData, NetInv, NetTypeOK
<1>5. Taken(d, iface[d]) => Taken(d, iface[d])'
  BY <1>3 DEF Taken, Mistaken
<1> QED
  BY <1>2, <1>3, <1>4, <1>5 DEF Attended

(* An event of the daemon reaches the listener. *)
LEMMA LiveFiled ==
    ASSUME TypeOK, ListedAfterSubscribing, NetInv, HeardIsFiled,
           NEW g \in Conn, NetReceivesLive(g)
    PROVE  HeardIsFiled'
<1> DEFINE e == Head(live[g])
<1>1. /\ live[g] \in Seq(Event) /\ live[g] # <<>>
      /\ e \in Event /\ e.id \in Container /\ e.action \in {"start", "stop"}
  BY TailAbout DEF NetReceivesLive, ReceiveLive, TypeOK, Event
<1>2. \A h \in Conn : live'[h] = IF h = g THEN Tail(live[g]) ELSE live[h]
  BY DEF NetReceivesLive, ReceiveLive, TypeOK
<1>3. UNCHANGED <<running, doubtful, listed>>
  BY DEF NetReceivesLive, ReceiveLive, dockerVars
<1>4. view' = IF Subscribed THEN Apply(view, e) ELSE view
  BY DEF NetReceivesLive, ReceiveLive
<1>5. listener = "recv"
  BY DEF NetReceivesLive
<1>6. \A c : Mentions(live[g], c) => e.id = c \/ Mentions(Tail(live[g]), c)
  BY <1>1, TailMentions
<1> HIDE DEF e
<1>7. ASSUME NEW d \in Container, d # e.id, Silent(d)' PROVE Silent(d)
  BY <1>2, <1>6, <1>7 DEF Silent
<1>8. CASE ~Subscribed
  <2>1. UNCHANGED <<iface, owner, listenerVars>> /\ view' = {}
    BY <1>4, <1>8 DEF NetReceivesLive, netVars, linkVars, ListedAfterSubscribing
  <2>2. \A d \in Container : ~Heard(d)'
    BY <2>1 DEF Heard
  <2> QED
    BY <2>1, <2>2, StreamFiled
<1>9. CASE Subscribed /\ e.action = "start"
  <2>1. StartMonitoringContainer(e.id)
    BY <1>9 DEF NetReceivesLive, e
  <2>2. ASSUME NEW d \in Container \ {e.id}, Heard(d)' PROVE Heard(d)
    <3>1. d \in view /\ d \notin unresolved
      BY <1>4, <1>9, <2>1, <2>2 DEF Apply, Heard, StartMonitoringContainer
    <3> QED
      BY <1>3, <1>7, <2>2, <3>1 DEF Heard
  <2> QED
    BY <1>1, <1>5, <2>1, <2>2, LookupBeginsFiled
<1>10. CASE Subscribed /\ e.action # "start"
  <2>1. CleanMonitoringData(e.id) /\ e.id \notin view'
    BY <1>4, <1>10 DEF NetReceivesLive, Apply, e
  <2>2. ASSUME NEW d \in Container \ {e.id}, Heard(d)' PROVE Heard(d)
    <3>1. d \in view /\ d \notin unresolved
      BY <1>4, <1>10, <2>1, <2>2 DEF Apply, Heard, CleanMonitoringData
    <3> QED
      BY <1>3, <1>7, <2>2, <3>1 DEF Heard
  <2> QED
    BY <1>1, <2>1, <2>2, CleanFiled
<1> QED
  BY <1>8, <1>9, <1>10

(* A start of the listing reaches the listener. *)
LEMMA ListedFiled ==
    ASSUME NetInv, HeardIsFiled, NEW c \in Container, NetReceivesListed(c)
    PROVE  HeardIsFiled'
<1>1. listener = "recv" /\ StartMonitoringContainer(c)
  BY DEF NetReceivesListed
<1>2. ASSUME NEW d \in Container \ {c}, Heard(d)' PROVE Heard(d)
  BY <1>1, <1>2 DEF NetReceivesListed, ReceiveListed, StartMonitoringContainer,
                    dockerVars, Heard, Silent
<1> QED
  BY <1>1, <1>2, LookupBeginsFiled

(* The two steps of a lookup, and its failure.  The first line that        *)
(* matches the index of the container's own interface is that interface;   *)
(* an entry of another container is overwritten only when the interface    *)
(* looked for is gone.                                                     *)
LEMMA LookupFiled ==
    ASSUME TypeOK, NetInv, HeardIsFiled,
           LookupFails \/ GetContainerIfaceID \/ GetContainerIface
    PROVE  HeardIsFiled'
<1> SUFFICES ASSUME NEW d \in Container, Heard(d)' PROVE Attended(d)'
  BY DEF HeardIsFiled
<1>1. /\ UNCHANGED <<running, view, doubtful, listed, live, iface, owner>>
      /\ unresolved \subseteq unresolved' /\ outlived \subseteq outlived'
  BY DEF LookupFails, GetContainerIfaceID, GetContainerIface, vars, dockerVars,
         streamVars, linkVars
<1>2. Heard(d) /\ Attended(d) /\ d \in running
  BY <1>1 DEF Heard, Silent, HeardIsFiled
<1>3. Taken(d, iface[d]) => Taken(d, iface[d])'
  BY <1>1 DEF Taken, Mistaken
<1>4. iface[d] \in Iface /\ owner[iface[d]] = d
  BY <1>2 DEF NetInv, Links
<1>5. CASE LookupFails
  <2>1. handling # d
    BY <1>2, <1>5 DEF LookupFails, Heard
  <2> QED
    BY <1>1, <1>2, <1>3, <1>5, <2>1 DEF Attended, LookupFails
<1>6. CASE GetContainerIfaceID
  BY <1>1, <1>2, <1>3, <1>6 DEF Attended, GetContainerIfaceID
<1>7. CASE GetContainerIface
  <2> DEFINE m == Min(Matching)
  <2>1. /\ listener = "iplink" /\ Matching # {}
        /\ containerIfaces' = [containerIfaces EXCEPT ![m] = handling]
        /\ outlived' = IF ifaceID \in Existing THEN outlived ELSE outlived \cup {handling}
    BY <1>7 DEF GetContainerIface
  <2>2. /\ m \in Iface
        /\ m = ifaceID \/ <<ifaceID, m>> \in PrefixOf
        /\ ifaceID \in Existing => m = ifaceID
        /\ ifaceID \in Iface /\ owner[ifaceID] = handling /\ handling \in Container
    BY <2>1, FirstLine
  <2> HIDE DEF m
  <2>3. \A i \in Iface : containerIfaces'[i] = IF i = m THEN handling ELSE containerIfaces[i]
    BY <2>1 DEF NetInv, NetTypeOK
  <2>4. CASE handling = d /\ ifaceID = iface[d]
    <3>1. ifaceID \in Existing
      BY <1>2, <1>4, <2>4 DEF Existing
    <3> QED
      BY <1>1, <1>4, <2>2, <2>3, <2>4, <3>1 DEF Attended
  <2>5. CASE containerIfaces[iface[d]] = d
    <3>1. CASE iface[d] # m \/ handling = d
      BY <1>1, <1>4, <2>3, <2>5, <3>1 DEF Attended
    <3>2. CASE iface[d] = m /\ handling # d
      <4>1. ifaceID # m
        BY <1>4, <2>2, <3>2
      <4>2. handling \in outlived' /\ <<ifaceID, iface[d]>> \in PrefixOf
        BY <2>1, <2>2, <3>2, <4>1
      <4>3. PICK h \in Container \ {d} : h = handling
        BY <2>2, <3>2
      <4>4. PICK n \in Iface : n = iface[d]
        BY <1>4
      <4>5. Mistaken(h, n)'
        BY <1>1, <2>2, <4>2, <4>3, <4>4 DEF Mistaken
      <4>6. Taken(d, n)'
        BY <4>5 DEF Taken
      <4> QED
        BY <1>1, <4>4, <4>6 DEF Attended
    <3> QED
      BY <3>1, <3>2
  <2>6. CASE Taken(d, iface[d])
    BY <1>1, <1>3, <2>6 DEF Attended
  <2> QED
    BY <1>2, <2>1, <2>4, <2>5, <2>6 DEF Attended
<1> QED
  BY <1>5, <1>6, <1>7

(* An interface of the host appears: nobody loses anything. *)
LEMMA HostInterfaceFiled ==
    ASSUME NetInv, HeardIsFiled, HostIfaceAppears
    PROVE  HeardIsFiled'
<1> SUFFICES ASSUME NEW d \in Container, Heard(d)' PROVE Attended(d)'
  BY DEF HeardIsFiled
<1>1. UNCHANGED <<vars, iface, bytes, listenerVars, pollerVars>>
  BY DEF HostIfaceAppears
<1>2. Heard(d)
  BY <1>1 DEF Heard, Silent, vars, dockerVars, streamVars, listenerVars
<1>3. \A j \in Iface : owner[j] # NoContainer => owner'[j] = owner[j]
  BY NewInterfaceOwned DEF HostIfaceAppears
<1>4. \A i : Taken(d, i) => Taken(d, i)'
  BY <1>1, <1>3, OwnershipKept DEF listenerVars
<1> QED
  BY <1>1, <1>2, <1>4 DEF HeardIsFiled, Attended, listenerVars

LEMMA HeardIsFiledKept ==
    ASSUME TypeOK, ListedAfterSubscribing, NetInv, HeardIsFiled, [NetNext]_allVars
    PROVE  HeardIsFiled'
<1>1. ASSUME NEW c \in Container, ContainerStarts(c) \/ ContainerEnds(c)
      PROVE  HeardIsFiled'
  BY <1>1, DockerFiled
<1>2. CASE \/ (Open \/ \E n \in 0..MaxPending : Close(n)) /\ UNCHANGED netVars
           \/ NetRegisters
  BY <1>2, ConnectionFiled DEF NetRegisters
<1>3. ASSUME UNCHANGED <<vars, iface, owner, listenerVars>> PROVE HeardIsFiled'
  <2>1. UNCHANGED <<running, view, doubtful, listed, live, unresolved>>
    BY <1>3 DEF vars, dockerVars, streamVars, listenerVars
  <2>2. \A d \in Container : Heard(d)' => Heard(d)
    BY <2>1 DEF Heard, Silent
  <2> QED
    BY <1>3, <2>2, StreamFiled
<1>4. ASSUME NEW g \in Conn, NetReceivesLive(g) PROVE HeardIsFiled'
  BY <1>4, LiveFiled
<1>5. ASSUME NEW c \in Container, NetReceivesListed(c) PROVE HeardIsFiled'
  BY <1>5, ListedFiled
<1>6. CASE LookupFails \/ GetContainerIfaceID \/ GetContainerIface
  BY <1>6, LookupFiled
<1>7. ASSUME (\E i \in Existing : Traffic(i)) \/ Poller \/ UNCHANGED allVars
      PROVE  UNCHANGED <<vars, iface, owner, listenerVars>>
  BY <1>7 DEF Traffic, Poller, ReadStats, LookupContainer, StoreUsage, PollDone,
              linkVars, allVars, netVars
<1>8. CASE Environment
  BY <1>1, <1>2, <1>3, <1>7, <1>8, HostInterfaceFiled DEF Environment
<1> QED
  BY <1>2, <1>3, <1>4, <1>5, <1>6, <1>7, <1>8 DEF NetNext

(* For any number of containers and interfaces, restarts and lookups: a    *)
(* running container that the listener has heard all about is filed under  *)
(* its current interface or being looked up, unless the stream gave cause  *)
(* for doubt, the lookup failed, or its interface was taken for that of a  *)
(* container gone during its own lookup.                                   *)
THEOREM HeardOfIsFiled == NetSpec => []RunningContainerFiled
<1>1. NetInit => HeardIsFiled
  BY DEF NetInit, Init, HeardIsFiled, Heard
<1>2. TypeOK /\ ListedAfterSubscribing /\ NetInv /\ HeardIsFiled /\ [NetNext]_allVars
        => HeardIsFiled'
  BY HeardIsFiledKept
<1>3. IInv => TypeOK /\ ListedAfterSubscribing
  BY DEF IInv
<1>4. TypeOK /\ BeliefIsTruth /\ HeardIsFiled => RunningContainerFiled
  <2> SUFFICES ASSUME TypeOK, BeliefIsTruth, HeardIsFiled,
                      NEW c \in running \ (doubtful \cup unresolved),
                      Listed, Silent(c), c \notin listed
               PROVE  Attended(c)
    BY DEF RunningContainerFiled, Attended, Taken
  <2>1. c \in Container
    BY DEF TypeOK
  <2>2. c \in view
    BY <2>1 DEF BeliefIsTruth
  <2> QED
    BY <2>1, <2>2 DEF HeardIsFiled, Heard
<1> QED
  BY <1>1, <1>2, <1>3, <1>4, NetInductive, NetIsSubscriber, Inductive, BeliefCorrect, PTL
     DEF NetSpec
=============================================================================
