--------------------------- MODULE CgroupIOProofs ---------------------------
(***************************************************************************)
(* For any devices and numbers: the maps of MountInfo are true when        *)
(* nothing changed since the refresh that filled them began, and so is the *)
(* answer to a request for the block I/O of a container, which reads them  *)
(* in several calls.  The inductive invariant of the maps says what an     *)
(* undisturbed refresh has got right at each step.                         *)
(***************************************************************************)
EXTENDS CgroupIO, TLAPS

(* What the locals of Refresh hold at each step, whatever happens around. *)
Progress ==
    /\ refresher \in {"wait", "mapper"} => paths = Nothing
    /\ refresher # "links" => links = {}
    /\ refresher # "block" => entries = {} /\ found = Nothing

(* The aliases resolved so far: all but the links left. *)
AliasesRead ==
    \A n \in Number : IF With(aliases \ links, n) = {} THEN paths[n] = None
                      ELSE paths[n] \in With(aliases, n)

(* The devices resolved so far: all but the entries left. *)
DevicesRead ==
    \A n \in Number : IF n \in entries THEN TRUE ELSE TruePath(n, found[n])

(* A refresh that nothing has disturbed so far is right so far. *)
Undisturbed ==
    refresher # "wait" /\ ~changed =>
        /\ \A n \in Number : TrueMount(n, infos[n])
        /\ refresher \in {"links", "block"} => AliasesRead
        /\ refresher = "block" => DevicesRead /\ entries \subseteq Numbers(plugged)

IInv == MountTypeOK /\ Progress /\ Undisturbed /\ SettledMapsAreTrue

-----------------------------------------------------------------------------

(* The invariant holds of the empty maps that NewMountInfoReader makes. *)
LEMMA InitIInv == MountInit => IInv
<1>1. SUFFICES ASSUME MountInit PROVE IInv
  OBVIOUS
<1>2. MountTypeOK
  BY <1>1 DEF MountInit, MountTypeOK, Nothing
<1>3. Progress /\ Undisturbed /\ SettledMapsAreTrue
  BY <1>1 DEF MountInit, Progress, Undisturbed, SettledMapsAreTrue
<1> QED
  BY <1>2, <1>3 DEF IInv

(* A change of the world leaves the reader alone, and every claim about    *)
(* what it read is dropped.                                                *)
LEMMA WorldIInv == IInv /\ World => IInv'
<1>1. SUFFICES ASSUME IInv, World PROVE IInv'
  OBVIOUS
<1>2. /\ WorldChanges
      /\ plugged' \in SUBSET Device
      /\ aliases' \in SUBSET Device
      /\ mounts' \in SUBSET Device
      /\ readable' \in BOOLEAN
  <2>1. ASSUME NEW d \in Device,
               Plug(d) \/ Unplug(d) \/ Link(d) \/ Unlink(d) \/ Mount(d) \/ Unmount(d)
        PROVE <1>2!1 /\ <1>2!2 /\ <1>2!3 /\ <1>2!4 /\ <1>2!5
    BY <1>1, <2>1 DEF IInv, MountTypeOK, Plug, Unplug, Link, Unlink, Mount, Unmount
  <2>2. ASSUME Access PROVE <1>2!1 /\ <1>2!2 /\ <1>2!3 /\ <1>2!4 /\ <1>2!5
    BY <1>1, <2>2 DEF IInv, MountTypeOK, Access
  <2> QED
    BY <1>1, <2>1, <2>2 DEF World
<1>3. MountTypeOK'
  BY <1>1, <1>2 DEF IInv, MountTypeOK, WorldChanges, progress, maps
<1>4. Progress'
  BY <1>1, <1>2 DEF IInv, Progress, WorldChanges, progress, Nothing
<1>5. Undisturbed' /\ SettledMapsAreTrue'
  BY <1>2 DEF Undisturbed, SettledMapsAreTrue, WorldChanges
<1> QED
  BY <1>3, <1>4, <1>5 DEF IInv

(* What the failure of a step drops is what a new refresh starts from. *)
LEMMA FailIInv == IInv /\ RefreshFails => IInv'
<1>1. SUFFICES ASSUME IInv, RefreshFails PROVE IInv'
  OBVIOUS
<1>2. MountTypeOK'
  BY <1>1 DEF IInv, MountTypeOK, RefreshFails, world, maps, Nothing
<1>3. Progress' /\ Undisturbed'
  BY <1>1 DEF Progress, Undisturbed, RefreshFails
<1>4. SettledMapsAreTrue'
  BY <1>1 DEF IInv, SettledMapsAreTrue, MapsTrue, TrueMount, TruePath, With, Numbers,
              RefreshFails, world, maps
<1> QED
  BY <1>2, <1>3, <1>4 DEF IInv

(* The steps of Refresh, each one right if the ones before it were and     *)
(* nothing changed in between.                                             *)
LEMMA RefreshIInv == IInv /\ Refresh => IInv'
<1> SUFFICES ASSUME IInv, Refresh PROVE IInv'
  OBVIOUS
<1> USE NumberAssumption, NoneAssumption
<1>1. CASE GetMountInfos
  <2>1. MountTypeOK'
    BY <1>1 DEF IInv, MountTypeOK, GetMountInfos, ByNumber, world, maps
  <2>2. Progress'
    BY <1>1 DEF IInv, Progress, GetMountInfos, Nothing
  <2>3. Undisturbed'
    BY <1>1 DEF Undisturbed, GetMountInfos, ByNumber, TrueMount, With, world
  <2>4. SettledMapsAreTrue'
    BY <1>1 DEF IInv, SettledMapsAreTrue, MapsTrue, TrueMount, TruePath, With, Numbers,
                GetMountInfos, world, maps
  <2> QED
    BY <2>1, <2>2, <2>3, <2>4 DEF IInv
<1>2. CASE ReadMapperDir
  <2>1. MountTypeOK'
    BY <1>2 DEF IInv, MountTypeOK, ReadMapperDir, world, maps
  <2>2. Progress'
    BY <1>2 DEF IInv, Progress, ReadMapperDir, Nothing
  <2>3. AliasesRead'
    <3>1. paths' = Nothing /\ links' = aliases'
      BY <1>2 DEF IInv, Progress, ReadMapperDir, world
    <3> QED
      BY <3>1 DEF AliasesRead, With, Nothing
  <2>4. Undisturbed'
    BY <1>2, <2>3 DEF IInv, Undisturbed, ReadMapperDir, TrueMount, With, world
  <2>5. SettledMapsAreTrue'
    BY <1>2 DEF IInv, SettledMapsAreTrue, MapsTrue, TrueMount, TruePath, With, Numbers,
                ReadMapperDir, world, maps
  <2> QED
    BY <2>1, <2>2, <2>4, <2>5 DEF IInv
<1>3. ASSUME NEW d \in Device, ResolveLink(d) PROVE IInv'
  <2>1. MountTypeOK'
    BY <1>3 DEF IInv, MountTypeOK, ResolveLink, world, maps
  <2>2. Progress'
    BY <1>3 DEF IInv, Progress, ResolveLink, Nothing
  <2>3. ASSUME AliasesRead PROVE AliasesRead'
    <3> SUFFICES ASSUME NEW n \in Number
                 PROVE IF With(aliases' \ links', n) = {} THEN paths'[n] = None
                       ELSE paths'[n] \in With(aliases', n)
      BY DEF AliasesRead, With
    <3>1. aliases' = aliases /\ links' = links \ {d} /\ d \in aliases
      BY <1>3 DEF ResolveLink, world
    <3>2. CASE n = NumberOf[d]
      <4>1. paths'[n] = d
        BY <1>3, <3>2 DEF ResolveLink, IInv, MountTypeOK
      <4>2. d \in With(aliases' \ links', n) /\ d \in With(aliases', n)
        BY <3>1, <3>2 DEF With
      <4> QED
        BY <4>1, <4>2
    <3>3. CASE n # NumberOf[d]
      <4>1. paths'[n] = paths[n]
        BY <1>3, <3>3 DEF ResolveLink, IInv, MountTypeOK
      <4>2. With(aliases' \ links', n) = With(aliases \ links, n)
        BY <3>1, <3>3 DEF With
      <4> QED
        BY <2>3, <3>1, <4>1, <4>2 DEF AliasesRead
    <3> QED
      BY <3>2, <3>3
  <2>4. Undisturbed'
    BY <1>3, <2>3 DEF IInv, Undisturbed, ResolveLink, TrueMount, With, world
  <2>5. SettledMapsAreTrue'
    BY <1>3 DEF IInv, SettledMapsAreTrue, MapsTrue, TrueMount, TruePath, With, Numbers,
                ResolveLink, world, maps
  <2> QED
    BY <2>1, <2>2, <2>4, <2>5 DEF IInv
<1>4. CASE ReadBlockDir
  <2>1. MountTypeOK'
    BY <1>4 DEF IInv, MountTypeOK, ReadBlockDir, Numbers, world, maps
  <2>2. Progress'
    BY <1>4 DEF IInv, Progress, ReadBlockDir, Nothing
  <2>3. DevicesRead' /\ (entries \subseteq Numbers(plugged))'
    <3>1. found' = Nothing /\ entries' = Numbers(plugged) /\ plugged' = plugged
      BY <1>4 DEF IInv, Progress, ReadBlockDir, world
    <3> QED
      BY <3>1 DEF DevicesRead, TruePath, Nothing, Numbers
  <2>4. AliasesRead => AliasesRead'
    BY <1>4 DEF AliasesRead, With, ReadBlockDir, world
  <2>5. Undisturbed'
    BY <1>4, <2>3, <2>4 DEF IInv, Undisturbed, ReadBlockDir, TrueMount, With, world
  <2>6. SettledMapsAreTrue'
    BY <1>4 DEF IInv, SettledMapsAreTrue, MapsTrue, TrueMount, TruePath, With, Numbers,
                ReadBlockDir, world, maps
  <2> QED
    BY <2>1, <2>2, <2>5, <2>6 DEF IInv
<1>5. ASSUME NEW n \in Number, ResolveDevice(n) PROVE IInv'
  <2>1. MountTypeOK'
    BY <1>5 DEF IInv, MountTypeOK, ResolveDevice, world, maps
  <2>2. Progress'
    BY <1>5 DEF IInv, Progress, ResolveDevice, Nothing
  <2>3. ASSUME AliasesRead, DevicesRead PROVE DevicesRead'
    <3> SUFFICES ASSUME NEW m \in Number, m \notin entries' PROVE TruePath(m, found[m])'
      BY DEF DevicesRead
    <3>1. CASE m = n
      <4>1. n \in Numbers(plugged) /\ links = {} /\ paths[n] \in Device \cup {None}
        BY <1>5 DEF ResolveDevice, IInv, Progress, MountTypeOK
      <4>2. found'[n] = IF paths[n] # None THEN paths[n] ELSE n
        BY <1>5 DEF ResolveDevice, IInv, MountTypeOK
      <4>3. IF With(aliases, n) = {} THEN paths[n] = None ELSE paths[n] \in With(aliases, n)
        BY <2>3, <4>1 DEF AliasesRead, With
      <4>4. With(aliases, n) # {} => paths[n] # None
        BY <4>3 DEF With, IInv, MountTypeOK
      <4> QED
        BY <1>5, <3>1, <4>1, <4>2, <4>3, <4>4 DEF TruePath, With, Numbers, ResolveDevice, world
    <3>2. CASE m # n
      <4>1. found'[m] = found[m] /\ m \notin entries
        BY <1>5, <3>2 DEF ResolveDevice, IInv, MountTypeOK
      <4> QED
        BY <1>5, <2>3, <4>1 DEF DevicesRead, TruePath, With, Numbers, ResolveDevice, world
    <3> QED
      BY <3>1, <3>2
  <2>4. AliasesRead => AliasesRead'
    BY <1>5 DEF AliasesRead, With, ResolveDevice, world
  <2>5. Undisturbed'
    BY <1>5, <2>3, <2>4 DEF IInv, Undisturbed, ResolveDevice, TrueMount, With, Numbers, world
  <2>6. SettledMapsAreTrue'
    BY <1>5 DEF IInv, SettledMapsAreTrue, MapsTrue, TrueMount, TruePath, With, Numbers,
                ResolveDevice, world, maps
  <2> QED
    BY <2>1, <2>2, <2>5, <2>6 DEF IInv
<1>6. CASE StepFails
  BY <1>6, FailIInv DEF StepFails
<1>7. CASE Store
  <2>1. MountTypeOK'
    BY <1>7 DEF IInv, MountTypeOK, Store, world, Nothing
  <2>2. Progress' /\ Undisturbed'
    BY <1>7 DEF IInv, Progress, Undisturbed, Store, Nothing
  <2>3. SettledMapsAreTrue'
    <3>1. CASE changed
      BY <1>7, <3>1 DEF SettledMapsAreTrue, Store
    <3>2. CASE ~changed
      <4>1. \A n \in Number : TrueMount(n, infos[n]) /\ TruePath(n, found[n])
        BY <1>7, <3>2 DEF IInv, Undisturbed, DevicesRead, Store
      <4> QED
        BY <1>7, <4>1 DEF SettledMapsAreTrue, MapsTrue, TrueMount, TruePath, With, Numbers,
                          Store, world
    <3> QED
      BY <3>1, <3>2
  <2> QED
    BY <2>1, <2>2, <2>3 DEF IInv
<1> QED
  BY <1>1, <1>2, <1>3, <1>4, <1>5, <1>6, <1>7 DEF Refresh

(* The invariant depends on the variables of the module only. *)
LEMMA StutterIInv == IInv /\ UNCHANGED mountVars => IInv'
<1>1. SUFFICES ASSUME IInv, UNCHANGED mountVars PROVE IInv'
  OBVIOUS
<1>2. MountTypeOK'
  BY <1>1 DEF IInv, MountTypeOK, mountVars, world, progress, maps
<1>3. Progress'
  BY <1>1 DEF IInv, Progress, Nothing, mountVars, world, progress, maps
<1>4. Undisturbed'
  BY <1>1 DEF IInv, Undisturbed, AliasesRead, DevicesRead, TrueMount, TruePath, With, Numbers,
              mountVars, world, progress, maps
<1>5. SettledMapsAreTrue'
  BY <1>1 DEF IInv, SettledMapsAreTrue, MapsTrue, TrueMount, TruePath, With, Numbers,
              mountVars, world, progress, maps
<1> QED
  BY <1>2, <1>3, <1>4, <1>5 DEF IInv

(* For any set of devices and numbers, whatever is plugged, linked and     *)
(* mounted while Refresh reads, and whatever refreshes are abandoned: the  *)
(* maps are true when nothing changed since the refresh that filled them   *)
(* began.                                                                  *)
THEOREM SettledMaps == MountSpec => []SettledMapsAreTrue
<1>1. MountInit => IInv
  BY InitIInv
<1>2. IInv /\ [MountNext]_mountVars => IInv'
  BY WorldIInv, RefreshIInv, StutterIInv DEF MountNext
<1>3. IInv => SettledMapsAreTrue
  BY DEF IInv
<1> QED
  BY <1>1, <1>2, <1>3, PTL DEF MountSpec

(* The variables of the reader keep their types. *)
THEOREM MountTypeCorrect == MountSpec => []MountTypeOK
<1>1. MountInit => IInv
  BY InitIInv
<1>2. IInv /\ [MountNext]_mountVars => IInv'
  BY WorldIInv, RefreshIInv, StutterIInv DEF MountNext
<1>3. IInv => MountTypeOK
  BY DEF IInv
<1> QED
  BY <1>1, <1>2, <1>3, PTL DEF MountSpec

-----------------------------------------------------------------------------
(* The requests that read the maps.                                        *)

(* A step of the composition is a step of the reader or leaves it alone. *)
LEMMA StepIsMountStep ==
    ASSUME [IONext]_allVars
    PROVE  [MountNext]_mountVars
BY DEF IONext, MountNext, GetStats, SkipEntry, UpdateDevice, DevicePath, Mountpoint, Return,
       Respond, allVars

(* Requests leave the maps alone: all that is proved of MountInfo holds    *)
(* while they are served.                                                  *)
THEOREM RequestsOnlyRead == IOSpec => MountSpec
<1>1. IOInit => MountInit
  BY DEF IOInit
<1>2. [IONext]_allVars => [MountNext]_mountVars
  BY StepIsMountStep
<1> QED
  BY <1>1, <1>2, PTL DEF IOSpec, MountSpec

(* A refresh that begins or ends while the maps are true leaves them true. *)
CalmMeansSettled == (~stale => ~changed) /\ (calm => ~stale)

(* Where the request is, and the shape of what it has gathered. *)
RequestTyped ==
    /\ call \in {"entry", "mountpoint"} =>
          /\ pos \in Nat \ {0}
          /\ Len(stat) \in Nat
          /\ \A i \in 1..Len(stat) : stat[i].number \in Number
    /\ call = "mountpoint" => pos <= Len(stat)
    /\ call = "idle" => Len(usage) = 0
    /\ \E S : usage \in Seq(S)
    /\ \A i \in 1..Len(usage) : {"key", "number", "path", "mountpoint", "count"} \subseteq DOMAIN usage[i]

(* All that was read from the maps since the request came is true. *)
ReadTrue ==
    calm =>
        /\ call = "mountpoint" => TruePath(stat[pos].number, path)
        /\ \A i \in 1..Len(usage) :
              /\ TruePath(usage[i].number, usage[i].path)
              /\ TrueMount(usage[i].number, usage[i].mountpoint)

ReportInv == CalmMeansSettled /\ RequestTyped /\ ReadTrue

-----------------------------------------------------------------------------

(* What is true of the world stays so while the world rests. *)
LEMMA TruthRests ==
    ASSUME UNCHANGED world
    PROVE  \A n, v : (TruePath(n, v) => TruePath(n, v)') /\ (TrueMount(n, v) => TrueMount(n, v)')
BY DEF TruePath, TrueMount, With, Numbers, world

(* A refresh, finished or not, leaves a request and the world alone. *)
LEMMA RefreshReport == ReportInv /\ Refresh /\ UNCHANGED ioVars => ReportInv'
<1> SUFFICES ASSUME ReportInv, Refresh, UNCHANGED ioVars PROVE ReportInv'
  OBVIOUS
<1>1. UNCHANGED world /\ (~stale => ~changed)
  BY DEF ReportInv, CalmMeansSettled, Refresh, GetMountInfos, ReadMapperDir, ResolveLink,
         ReadBlockDir, ResolveDevice, StepFails, RefreshFails, Store
<1>2. CalmMeansSettled'
  BY DEF ReportInv, CalmMeansSettled, Refresh, GetMountInfos, ReadMapperDir, ResolveLink,
         ReadBlockDir, ResolveDevice, StepFails, RefreshFails, Store, ioVars
<1>3. RequestTyped'
  BY DEF ReportInv, RequestTyped, ioVars, callVars
<1>4. ReadTrue'
  BY <1>1, TruthRests DEF ReportInv, ReadTrue, ioVars, callVars
<1> QED
  BY <1>2, <1>3, <1>4 DEF ReportInv

(* A change of the world ends the calm. *)
LEMMA WorldReport ==
    ReportInv /\ World /\ calm' = FALSE /\ UNCHANGED <<v2, callVars>> => ReportInv'
<1> SUFFICES ASSUME ReportInv, World, calm' = FALSE, UNCHANGED <<v2, callVars>>
             PROVE  ReportInv'
  OBVIOUS
<1>1. CalmMeansSettled'
  BY DEF CalmMeansSettled, World, Plug, Unplug, Link, Unlink, Mount, Unmount, Access, WorldChanges
<1>2. RequestTyped'
  BY DEF ReportInv, RequestTyped, callVars
<1>3. ReadTrue'
  BY DEF ReadTrue
<1> QED
  BY <1>1, <1>2, <1>3 DEF ReportInv

(* Every device gathered keeps its number, path and mount point when an    *)
(* entry is added to it.                                                   *)
LEMMA AddEntryKeeps ==
    ASSUME NEW d, {"key", "number", "path", "mountpoint", "count"} \subseteq DOMAIN d
    PROVE  /\ {"key", "number", "path", "mountpoint", "count"} \subseteq DOMAIN AddEntry(d)
           /\ AddEntry(d).key = d.key
           /\ AddEntry(d).number = d.number
           /\ AddEntry(d).path = d.path
           /\ AddEntry(d).mountpoint = d.mountpoint
BY DEF AddEntry

(* What a list is after one more element. *)
LEMMA AppendIsSeq == \A S : \A s \in Seq(S) : \A e : \E T : Append(s, e) \in Seq(T)
<1> SUFFICES ASSUME NEW S, NEW s \in Seq(S), NEW e PROVE \E T : Append(s, e) \in Seq(T)
  OBVIOUS
<1>1. s \in Seq(S \cup {e}) /\ e \in S \cup {e}
  OBVIOUS
<1>2. Append(s, e) \in Seq(S \cup {e})
  BY <1>1
<1> QED
  BY <1>2

LEMMA AppendElements ==
    \A S : \A s \in Seq(S) : \A e :
        /\ Len(s) \in Nat
        /\ Len(Append(s, e)) = Len(s) + 1
        /\ \A i \in 1..Len(s) : Append(s, e)[i] = s[i]
        /\ Append(s, e)[Len(s) + 1] = e
<1> SUFFICES ASSUME NEW S, NEW s \in Seq(S), NEW e
             PROVE  /\ Len(s) \in Nat
                    /\ Len(Append(s, e)) = Len(s) + 1
                    /\ \A i \in 1..Len(s) : Append(s, e)[i] = s[i]
                    /\ Append(s, e)[Len(s) + 1] = e
  OBVIOUS
<1>1. s \in Seq(S \cup {e}) /\ e \in S \cup {e}
  OBVIOUS
<1> QED
  BY <1>1

(* A request reads maps that are true as long as it is calm, and keeps     *)
(* what it read with the device it was read for.                           *)
LEMMA RequestReport ==
    ASSUME IInv, ReportInv,
           \/ \E s \in (IF v2 THEN V2Stats ELSE V1Stats) : GetStats(s)
           \/ SkipEntry \/ UpdateDevice \/ DevicePath \/ Mountpoint \/ Return \/ Respond
    PROVE  ReportInv'
<1>1. UNCHANGED mountVars /\ UNCHANGED world
  BY DEF GetStats, SkipEntry, UpdateDevice, DevicePath, Mountpoint, Return, Respond, mountVars
<1>2. calm => \A n \in Number : TrueMount(n, mountInfos[n]) /\ TruePath(n, devices[n])
  BY DEF IInv, SettledMapsAreTrue, MapsTrue, ReportInv, CalmMeansSettled
<1>3. CalmMeansSettled'
  <2>1. calm' => calm \/ ~stale
    BY DEF GetStats, SkipEntry, UpdateDevice, DevicePath, Mountpoint, Return, Respond
  <2>2. UNCHANGED <<stale, changed>>
    BY <1>1 DEF mountVars
  <2> QED
    BY <2>1, <2>2 DEF ReportInv, CalmMeansSettled
<1>4. CASE \E s \in (IF v2 THEN V2Stats ELSE V1Stats) : GetStats(s)
  <2>1. PICK s \in V1Stats \cup V2Stats : GetStats(s)
    BY <1>4
  <2>2. RequestTyped'
    BY <2>1, StatsAssumption DEF ReportInv, RequestTyped, GetStats
  <2>3. ReadTrue'
    <3>1. usage' = usage /\ Len(usage) = 0 /\ call' = "entry"
      BY <2>1 DEF ReportInv, RequestTyped, GetStats
    <3> QED
      BY <3>1 DEF ReadTrue
  <2> QED
    BY <1>3, <2>2, <2>3 DEF ReportInv
<1>5. CASE SkipEntry
  <2>1. RequestTyped'
    BY <1>5 DEF ReportInv, RequestTyped, SkipEntry, AtEntry
  <2>2. ReadTrue'
    BY <1>1, <1>5, TruthRests DEF ReportInv, ReadTrue, SkipEntry, AtEntry
  <2> QED
    BY <1>3, <2>1, <2>2 DEF ReportInv
<1>6. CASE UpdateDevice
  <2>1. PICK S : usage \in Seq(S)
    BY DEF ReportInv, RequestTyped
  <2>2. Len(usage) \in Nat
    BY <2>1
  <2>3. /\ usage' = [i \in 1..Len(usage) |->
                      IF usage[i].key = Key(stat[pos]) THEN AddEntry(usage[i]) ELSE usage[i]]
        /\ pos' = pos + 1
        /\ call' = "entry" /\ call = "entry"
        /\ UNCHANGED <<stat, path, calm>>
    BY <1>6 DEF UpdateDevice, AtEntry
  <2>4. \E T : usage' \in Seq(T)
    <3> DEFINE T == {usage'[i] : i \in 1..Len(usage)}
    <3>1. usage' \in [1..Len(usage) -> T]
      BY <2>3
    <3>2. usage' \in Seq(T)
      BY <2>2, <3>1
    <3> QED
      BY <3>2
  <2>5. Len(usage') = Len(usage)
    BY <2>2, <2>3, <2>4
  <2>6. \A i \in 1..Len(usage) :
          /\ {"key", "number", "path", "mountpoint", "count"} \subseteq DOMAIN usage'[i]
          /\ usage'[i].number = usage[i].number
          /\ usage'[i].path = usage[i].path
          /\ usage'[i].mountpoint = usage[i].mountpoint
    <3> SUFFICES ASSUME NEW i \in 1..Len(usage)
                 PROVE /\ {"key", "number", "path", "mountpoint", "count"} \subseteq DOMAIN usage'[i]
                       /\ usage'[i].number = usage[i].number
                       /\ usage'[i].path = usage[i].path
                       /\ usage'[i].mountpoint = usage[i].mountpoint
      OBVIOUS
    <3>1. {"key", "number", "path", "mountpoint", "count"} \subseteq DOMAIN usage[i]
      BY DEF ReportInv, RequestTyped
    <3>2. usage'[i] = AddEntry(usage[i]) \/ usage'[i] = usage[i]
      BY <2>3
    <3> QED
      BY <3>1, <3>2, AddEntryKeeps
  <2>7. RequestTyped'
    <3>1. /\ pos' \in Nat \ {0}
          /\ Len(stat') \in Nat
          /\ \A i \in 1..Len(stat') : stat'[i].number \in Number
      BY <2>3 DEF ReportInv, RequestTyped
    <3>2. \A i \in 1..Len(usage') :
            {"key", "number", "path", "mountpoint", "count"} \subseteq DOMAIN usage'[i]
      BY <2>5, <2>6
    <3> QED
      BY <2>3, <2>4, <3>1, <3>2 DEF RequestTyped
  <2>8. ReadTrue'
    BY <1>1, <2>3, <2>5, <2>6, TruthRests DEF ReportInv, ReadTrue
  <2> QED
    BY <1>3, <2>7, <2>8 DEF ReportInv
<1>7. CASE DevicePath
  <2>1. RequestTyped'
    BY <1>7 DEF ReportInv, RequestTyped, DevicePath, AtEntry
  <2>2. stat[pos].number \in Number
    BY <1>7 DEF ReportInv, RequestTyped, DevicePath, AtEntry
  <2>3. ReadTrue'
    BY <1>1, <1>2, <1>7, <2>2, TruthRests DEF ReportInv, ReadTrue, DevicePath, AtEntry
  <2> QED
    BY <1>3, <2>1, <2>3 DEF ReportInv
<1>8. CASE Mountpoint
  <2>1. PICK S : usage \in Seq(S)
    BY DEF ReportInv, RequestTyped
  <2> DEFINE d == [key |-> Key(stat[pos]), number |-> stat[pos].number, path |-> path,
                   mountpoint |-> mountInfos[stat[pos].number], count |-> [x \in Counter |-> [i \in 1..Len(stat) |-> 0]]]
  <2>2. /\ usage' = Append(usage, AddEntry(d))
        /\ pos' = pos + 1
        /\ call = "mountpoint" /\ call' = "entry"
        /\ UNCHANGED <<stat, calm>>
    BY <1>8 DEF Mountpoint
  <2>3. /\ d.number = stat[pos].number
        /\ d.path = path
        /\ d.mountpoint = mountInfos[stat[pos].number]
        /\ {"key", "number", "path", "mountpoint", "count"} \subseteq DOMAIN d
    OBVIOUS
  <2> HIDE DEF d
  <2>4. /\ {"key", "number", "path", "mountpoint", "count"} \subseteq DOMAIN AddEntry(d)
        /\ AddEntry(d).number = stat[pos].number
        /\ AddEntry(d).path = path
        /\ AddEntry(d).mountpoint = mountInfos[stat[pos].number]
    BY <2>3, AddEntryKeeps
  <2> DEFINE e == AddEntry(d)
  <2> HIDE DEF e
  <2>10. \E T : usage' \in Seq(T)
    BY <2>1, <2>2, AppendIsSeq DEF e
  <2>5. /\ Len(usage) \in Nat
        /\ Len(usage') = Len(usage) + 1
        /\ \A i \in 1..Len(usage) : usage'[i] = usage[i]
        /\ usage'[Len(usage) + 1] = e
    <3>1. /\ Len(usage) \in Nat
          /\ Len(Append(usage, e)) = Len(usage) + 1
          /\ \A i \in 1..Len(usage) : Append(usage, e)[i] = usage[i]
          /\ Append(usage, e)[Len(usage) + 1] = e
      BY <2>1, AppendElements
    <3>2. usage' = Append(usage, e)
      BY <2>2 DEF e
    <3> QED
      BY <3>1, <3>2
  <2>6. pos \in Nat \ {0} /\ Len(stat) \in Nat /\ (\A i \in 1..Len(stat) : stat[i].number \in Number)
        /\ stat[pos].number \in Number
    BY <2>2 DEF ReportInv, RequestTyped
  <2>7. \A i \in 1..Len(usage') : i \in 1..Len(usage) \/ i = Len(usage) + 1
    BY <2>5
  <2>8. RequestTyped'
    <3>1. \A i \in 1..Len(usage') :
            {"key", "number", "path", "mountpoint", "count"} \subseteq DOMAIN usage'[i]
      BY <2>4, <2>5, <2>7 DEF ReportInv, RequestTyped, e
    <3>2. pos' \in Nat \ {0}
      BY <2>2, <2>6
    <3> QED
      BY <2>2, <2>10, <2>6, <3>1, <3>2 DEF RequestTyped
  <2>9. ReadTrue'
    <3> SUFFICES ASSUME calm, NEW i \in 1..Len(usage')
                 PROVE (TruePath(usage[i].number, usage[i].path)
                          /\ TrueMount(usage[i].number, usage[i].mountpoint))'
      BY <2>2 DEF ReadTrue
    <3>1. CASE i \in 1..Len(usage)
      BY <1>1, <2>5, <3>1, TruthRests DEF ReportInv, ReadTrue
    <3>2. CASE i = Len(usage) + 1
      BY <1>1, <1>2, <2>2, <2>4, <2>5, <2>6, <3>2, TruthRests DEF ReportInv, ReadTrue, e
    <3> QED
      BY <2>7, <3>1, <3>2
  <2> QED
    BY <1>3, <2>8, <2>9 DEF ReportInv
<1>9. CASE Return
  <2>1. RequestTyped'
    BY <1>9 DEF ReportInv, RequestTyped, Return
  <2>2. ReadTrue'
    BY <1>1, <1>9, TruthRests DEF ReportInv, ReadTrue, Return
  <2> QED
    BY <1>3, <2>1, <2>2 DEF ReportInv
<1>10. CASE Respond
  <2>1. RequestTyped'
    <3>1. usage' = <<>> /\ call' = "idle"
      BY <1>10 DEF Respond
    <3>2. usage' \in Seq({}) /\ Len(usage') = 0
      BY <3>1
    <3> QED
      BY <3>1, <3>2 DEF RequestTyped
  <2>2. ReadTrue'
    BY <1>10 DEF ReadTrue, Respond
  <2> QED
    BY <1>3, <2>1, <2>2 DEF ReportInv
<1> QED
  BY <1>4, <1>5, <1>6, <1>7, <1>8, <1>9, <1>10

(* Nothing has been read before the first request. *)
LEMMA InitReport == IOInit => ReportInv
<1> SUFFICES ASSUME IOInit PROVE ReportInv
  OBVIOUS
<1>1. usage \in Seq({}) /\ Len(usage) = 0 /\ call = "idle"
  BY DEF IOInit
<1>2. CalmMeansSettled
  BY DEF IOInit, MountInit, CalmMeansSettled
<1>3. RequestTyped
  BY <1>1 DEF RequestTyped
<1>4. ReadTrue
  BY DEF IOInit, ReadTrue
<1> QED
  BY <1>2, <1>3, <1>4 DEF ReportInv

LEMMA StutterReport == ReportInv /\ UNCHANGED allVars => ReportInv'
<1> SUFFICES ASSUME ReportInv, UNCHANGED allVars PROVE ReportInv'
  OBVIOUS
<1>1. UNCHANGED world /\ UNCHANGED <<stale, changed>> /\ UNCHANGED ioVars
  BY DEF allVars, mountVars
<1>2. CalmMeansSettled'
  BY <1>1 DEF ReportInv, CalmMeansSettled, ioVars
<1>3. RequestTyped'
  BY <1>1 DEF ReportInv, RequestTyped, ioVars, callVars
<1>4. ReadTrue'
  BY <1>1, TruthRests DEF ReportInv, ReadTrue, ioVars, callVars
<1> QED
  BY <1>2, <1>3, <1>4 DEF ReportInv

LEMMA ReportInvKept ==
    ASSUME IInv, ReportInv, [IONext]_allVars
    PROVE  IInv' /\ ReportInv'
<1>1. IInv'
  BY StepIsMountStep, WorldIInv, RefreshIInv, StutterIInv DEF MountNext
<1>2. CASE UNCHANGED allVars
  BY <1>1, <1>2, StutterReport
<1>3. CASE World /\ calm' = FALSE /\ UNCHANGED <<v2, callVars>>
  BY <1>1, <1>3, WorldReport
<1>4. CASE Refresh /\ UNCHANGED ioVars
  BY <1>1, <1>4, RefreshReport
<1>5. CASE \/ \E s \in (IF v2 THEN V2Stats ELSE V1Stats) : GetStats(s)
           \/ SkipEntry \/ UpdateDevice \/ DevicePath \/ Mountpoint \/ Return \/ Respond
  BY <1>1, <1>5, RequestReport
<1> QED
  BY <1>1, <1>2, <1>3, <1>4, <1>5 DEF IONext

(* For any devices, numbers and cgroup entries: the path and the mount     *)
(* point GetStats reports for each device, read in two calls while the     *)
(* maps are being refreshed, are those of the world if the maps were true  *)
(* when the request came and nothing changed since.                        *)
THEOREM TrueReport == IOSpec => []ReportIsTrue
<1>1. IOInit => IInv /\ ReportInv
  BY InitIInv, InitReport DEF IOInit
<1>2. IInv /\ ReportInv /\ [IONext]_allVars => IInv' /\ ReportInv'
  BY ReportInvKept
<1>3. ReportInv => ReportIsTrue
  BY DEF ReportInv, ReadTrue, ReportIsTrue
<1> QED
  BY <1>1, <1>2, <1>3, PTL DEF IOSpec

-----------------------------------------------------------------------------
(* The sums of the entries.                                                *)

(* The entries that belong to a device of the answer, and those of the     *)
(* device n handled so far, as a sum in the counter x.                     *)
Relevant(p) == v2 \/ stat[p].op \in Op
Tally(n, x) == [p \in 1..Len(stat) |-> IF p < pos /\ p \in Entries(n, x) THEN 1 ELSE 0]

(* Where the loop over the entries is; a device is made for a new key. *)
InLoop ==
    /\ stat \in (IF v2 THEN V2Stats ELSE V1Stats)
    /\ pos \in Nat \ {0}
    /\ call = "mountpoint" => pos <= Len(stat) /\ Relevant(pos) /\ (v2 \/ ~Known)
    /\ call = "done" => pos > Len(stat)

(* The devices are those of the entries handled so far, each one once. *)
Devices ==
    /\ \A i \in 1..Len(usage) : \E p \in 1..Len(stat) :
          /\ p < pos /\ Relevant(p)
          /\ usage[i].number = stat[p].number
          /\ usage[i].key = Key(stat[p])
    /\ \A p \in 1..Len(stat) :
          p < pos /\ Relevant(p) => \E i \in 1..Len(usage) : usage[i].number = stat[p].number
    /\ \A i, j \in 1..Len(usage) : usage[i].number = usage[j].number => i = j

(* Their counters hold the entries handled so far. *)
Tallies ==
    \A i \in 1..Len(usage) :
        usage[i].count = [x \in Counter |-> Tally(usage[i].number, x)]

Gathered == call # "idle" => InLoop /\ Devices /\ Tallies

(* Devices have the same key when they have the same number. *)
LEMMA KeyIsNumber ==
    ASSUME NEW s \in V1Stats, NEW i \in 1..Len(s), NEW j \in 1..Len(s)
    PROVE  Key(s[i]) = Key(s[j]) <=> s[i].number = s[j].number
<1>1. s[i].number \in Number /\ s[j].number \in Number
  BY StatsAssumption
<1>2. /\ s[i].device \notin Number /\ s[j].device \notin Number
      /\ s[i].number = s[j].number => s[i].device = s[j].device
      /\ s[i].device = s[j].device /\ s[i].device # None => s[i].number = s[j].number
  BY DeviceAssumption
<1> QED
  BY <1>1, <1>2 DEF Key

(* An entry of another device, or of an operation that is not counted,     *)
(* leaves a sum as it is.                                                  *)
LEMMA TallyKept ==
    ASSUME pos \in Nat, Len(stat) \in Nat, pos' = pos + 1, stat' = stat, v2' = v2
    PROVE  \A n, x : pos \notin Entries(n, x) => Tally(n, x)' = Tally(n, x)
<1> SUFFICES ASSUME NEW n, NEW x, pos \notin Entries(n, x) PROVE Tally(n, x)' = Tally(n, x)
  OBVIOUS
<1>1. Entries(n, x)' = Entries(n, x)
  BY DEF Entries, Counts
<1>2. \A p \in 1..Len(stat) :
         (IF p < pos + 1 /\ p \in Entries(n, x) THEN 1 ELSE 0)
           = (IF p < pos /\ p \in Entries(n, x) THEN 1 ELSE 0)
  OBVIOUS
<1> QED
  BY <1>1, <1>2 DEF Tally

(* The entry that is handled is added once to the sums it counts for. *)
LEMMA TallyGrows ==
    ASSUME pos \in 1..Len(stat), Len(stat) \in Nat, pos' = pos + 1, stat' = stat, v2' = v2
    PROVE  \A x : LET t == Tally(stat[pos].number, x) IN
              (\A n : n = stat[pos].number => Tally(n, x)' =
                  IF Counts(stat[pos], x) THEN [t EXCEPT ![pos] = @ + 1] ELSE t)
<1> SUFFICES ASSUME NEW x, NEW n, n = stat[pos].number
             PROVE  Tally(n, x)' = IF Counts(stat[pos], x)
                                   THEN [Tally(n, x) EXCEPT ![pos] = @ + 1] ELSE Tally(n, x)
  OBVIOUS
<1>1. Entries(n, x)' = Entries(n, x)
  BY DEF Entries, Counts
<1>2. pos \in Entries(n, x) <=> Counts(stat[pos], x)
  BY DEF Entries
<1>3. CASE ~Counts(stat[pos], x)
  BY <1>2, <1>3, TallyKept
<1>4. CASE Counts(stat[pos], x)
  <2>1. Tally(n, x) = [p \in 1..Len(stat) |-> IF p < pos /\ p \in Entries(n, x) THEN 1 ELSE 0]
    BY DEF Tally
  <2>2. Tally(n, x)' = [p \in 1..Len(stat) |-> IF p < pos + 1 /\ p \in Entries(n, x) THEN 1 ELSE 0]
    BY <1>1 DEF Tally
  <2>3. Tally(n, x)[pos] + 1 = 1
    BY <2>1
  <2>4. \A p \in 1..Len(stat) :
           (IF p < pos + 1 /\ p \in Entries(n, x) THEN 1 ELSE 0)
             = IF p = pos THEN 1 ELSE Tally(n, x)[p]
    BY <1>2, <1>4, <2>1
  <2>5. [Tally(n, x) EXCEPT ![pos] = @ + 1]
          = [p \in 1..Len(stat) |-> IF p = pos THEN 1 ELSE Tally(n, x)[p]]
    BY <2>1, <2>3
  <2> QED
    BY <1>4, <2>2, <2>4, <2>5
<1> QED
  BY <1>3, <1>4

LEMMA AddTally ==
    ASSUME pos \in 1..Len(stat), Len(stat) \in Nat, pos' = pos + 1, stat' = stat, v2' = v2,
           NEW d, "count" \in DOMAIN d,
           d.count = [x \in Counter |-> Tally(stat[pos].number, x)]
    PROVE  \A n : n = stat[pos].number =>
              AddEntry(d).count = [x \in Counter |-> Tally(n, x)']
<1> SUFFICES ASSUME NEW n, n = stat[pos].number
             PROVE  AddEntry(d).count = [x \in Counter |-> Tally(n, x)']
  OBVIOUS
<1>1. AddEntry(d).count =
        [x \in Counter |-> IF Counts(stat[pos], x) THEN [d.count[x] EXCEPT ![pos] = @ + 1]
                                                   ELSE d.count[x]]
  BY DEF AddEntry
<1>2. \A x \in Counter : d.count[x] = Tally(n, x)
  OBVIOUS
<1>3. \A x \in Counter :
        Tally(n, x)' = IF Counts(stat[pos], x) THEN [d.count[x] EXCEPT ![pos] = @ + 1]
                                               ELSE d.count[x]
  BY <1>2, TallyGrows
<1> QED
  BY <1>1, <1>3

(* No device is made and no sum changed by the entry that is handled. *)
LEMMA EntrySkipped ==
    ASSUME RequestTyped, InLoop, Devices, Tallies, SkipEntry
    PROVE  Devices' /\ Tallies'
<1>1. /\ pos \in 1..Len(stat) /\ Len(stat) \in Nat /\ pos' = pos + 1
      /\ stat' = stat /\ v2' = v2 /\ usage' = usage
      /\ ~v2 /\ stat[pos].op \notin Op
  BY DEF SkipEntry, AtEntry, RequestTyped, InLoop
<1>2. \A n, x : x \in Counter => pos \notin Entries(n, x)
  BY <1>1 DEF Entries, Counts, Counter
<1>3. \A n : \A x \in Counter : Tally(n, x)' = Tally(n, x)
  BY <1>1, <1>2, TallyKept
<1>4. Tallies'
  BY <1>1, <1>3 DEF Tallies
<1>5. \A p \in 1..Len(stat) : Relevant(p)' = Relevant(p)
  BY <1>1 DEF Relevant
<1>6. \A p \in 1..Len(stat) : p < pos + 1 /\ Relevant(p) <=> p < pos /\ Relevant(p)
  BY <1>1 DEF Relevant
<1>7. Devices'
  BY <1>1, <1>5, <1>6 DEF Devices, Key, Relevant
<1> QED
  BY <1>4, <1>7

(* An entry of a device that is known is added to that device only. *)
LEMMA EntryAdded ==
    ASSUME RequestTyped, InLoop, Devices, Tallies, UpdateDevice
    PROVE  Devices' /\ Tallies'
<1>1. /\ pos \in 1..Len(stat) /\ Len(stat) \in Nat /\ pos' = pos + 1
      /\ stat' = stat /\ v2' = v2
      /\ ~v2 /\ stat \in V1Stats
  BY DEF UpdateDevice, AtEntry, RequestTyped, InLoop
<1>2. Known /\ stat[pos].op \in Op
  BY DEF UpdateDevice
<1>3. PICK S : usage \in Seq(S)
  BY DEF RequestTyped
<1>4. usage' = [i \in 1..Len(usage) |->
                  IF usage[i].key = Key(stat[pos]) THEN AddEntry(usage[i]) ELSE usage[i]]
  BY DEF UpdateDevice
<1>5. Len(usage) \in Nat /\ Len(usage') = Len(usage)
  <2>1. Len(usage) \in Nat
    BY <1>3
  <2> DEFINE T == {usage'[i] : i \in 1..Len(usage)}
  <2>2. usage' \in [1..Len(usage) -> T]
    BY <1>4
  <2>3. usage' \in Seq(T)
    BY <2>1, <2>2
  <2> QED
    BY <2>1, <2>2, <2>3
<1>6. \A i \in 1..Len(usage) : usage[i].key = Key(stat[pos]) <=> usage[i].number = stat[pos].number
  <2> SUFFICES ASSUME NEW i \in 1..Len(usage)
               PROVE  usage[i].key = Key(stat[pos]) <=> usage[i].number = stat[pos].number
    OBVIOUS
  <2>1. PICK p \in 1..Len(stat) : usage[i].number = stat[p].number /\ usage[i].key = Key(stat[p])
    BY DEF Devices
  <2> QED
    BY <1>1, <2>1, KeyIsNumber
<1>7. \A i \in 1..Len(usage) :
         {"key", "number", "path", "mountpoint", "count"} \subseteq DOMAIN usage[i]
  BY DEF RequestTyped
<1>8. \A i \in 1..Len(usage) : usage'[i].number = usage[i].number /\ usage'[i].key = usage[i].key
  BY <1>4, <1>7, AddEntryKeeps
<1>9. ASSUME NEW i \in 1..Len(usage)
      PROVE  usage'[i].count = [x \in Counter |-> Tally(usage[i].number, x)']
  <2>1. usage[i].count = [x \in Counter |-> Tally(usage[i].number, x)]
    BY DEF Tallies
  <2>2. PICK n : n = usage[i].number /\ n = usage'[i].number
    BY <1>8
  <2>3. CASE n = stat[pos].number
    <3>1. usage'[i] = AddEntry(usage[i])
      BY <1>4, <1>6, <2>2, <2>3
    <3>2. AddEntry(usage[i]).count = [x \in Counter |-> Tally(n, x)']
      BY <1>1, <1>7, <2>1, <2>2, <2>3, AddTally
    <3> QED
      BY <2>2, <3>1, <3>2
  <2>4. CASE n # stat[pos].number
    <3>1. usage'[i] = usage[i]
      BY <1>4, <1>6, <2>2, <2>4
    <3>2. \A x : pos \notin Entries(n, x)
      BY <2>4 DEF Entries
    <3>3. \A x : Tally(n, x)' = Tally(n, x)
      BY <1>1, <3>2, TallyKept
    <3> QED
      BY <2>1, <2>2, <3>1, <3>3
  <2> QED
    BY <2>3, <2>4
<1>10. Tallies'
  BY <1>5, <1>9 DEF Tallies
<1>11. PICK k \in 1..Len(usage) : usage[k].number = stat[pos].number
  BY <1>2, <1>6 DEF Known
<1>12. \A p \in 1..Len(stat) : p < pos + 1 => p < pos \/ p = pos
  BY <1>1
<1>13. \A p \in 1..Len(stat) : p < pos => p < pos + 1
  BY <1>1
<1>14. \A p : Relevant(p)' <=> Relevant(p)
  BY <1>1 DEF Relevant
<1>15. Devices'
  <2>1. ASSUME NEW i \in 1..Len(usage)
        PROVE  \E p \in 1..Len(stat) : /\ p < pos + 1 /\ Relevant(p)'
                                       /\ usage'[i].number = stat[p].number
                                       /\ usage'[i].key = Key(stat[p])
    <3>1. PICK p \in 1..Len(stat) : /\ p < pos /\ Relevant(p)
                                   /\ usage[i].number = stat[p].number
                                   /\ usage[i].key = Key(stat[p])
      BY DEF Devices
    <3> QED
      BY <1>8, <1>13, <1>14, <3>1
  <2>2. ASSUME NEW p \in 1..Len(stat), p < pos + 1, Relevant(p)'
        PROVE  \E i \in 1..Len(usage) : usage'[i].number = stat[p].number
    <3>1. CASE p = pos
      BY <1>8, <1>11, <3>1
    <3>2. CASE p < pos
      <4>1. PICK i \in 1..Len(usage) : usage[i].number = stat[p].number
        BY <1>14, <2>2, <3>2 DEF Devices
      <4> QED
        BY <1>8, <4>1
    <3> QED
      BY <1>12, <2>2, <3>1, <3>2
  <2>3. \A i, j \in 1..Len(usage') : usage'[i].number = usage'[j].number => i = j
    BY <1>5, <1>8 DEF Devices
  <2> QED
    BY <1>1, <1>5, <2>1, <2>2, <2>3 DEF Devices, Key
<1> QED
  BY <1>10, <1>15

(* A device is made for an entry whose number no device has: no entry of   *)
(* it was handled before.                                                  *)
LEMMA DeviceMade ==
    ASSUME RequestTyped, InLoop, Devices, Tallies, Mountpoint
    PROVE  Devices' /\ Tallies'
<1> DEFINE m == stat[pos].number
           d == [key |-> Key(stat[pos]), number |-> m, path |-> path,
                 mountpoint |-> mountInfos[m],
                 count |-> [x \in Counter |-> [i \in 1..Len(stat) |-> 0]]]
           e == AddEntry(d)
<1>1. /\ pos \in 1..Len(stat) /\ Len(stat) \in Nat /\ pos' = pos + 1
      /\ stat' = stat /\ v2' = v2
      /\ Relevant(pos) /\ (v2 \/ ~Known)
      /\ stat \in (IF v2 THEN V2Stats ELSE V1Stats)
  BY DEF Mountpoint, RequestTyped, InLoop
<1>2. PICK S : usage \in Seq(S)
  BY DEF RequestTyped
<1>3. usage' = Append(usage, e)
  BY DEF Mountpoint
<1>4. \A i \in 1..Len(usage) : usage[i].number # m
  <2> SUFFICES ASSUME NEW i \in 1..Len(usage), usage[i].number = m PROVE FALSE
    OBVIOUS
  <2>1. PICK p \in 1..Len(stat) :
           p < pos /\ usage[i].number = stat[p].number /\ usage[i].key = Key(stat[p])
    BY DEF Devices
  <2>2. CASE v2
    <3>1. p = pos
      BY <1>1, <2>1, <2>2, DeviceAssumption
    <3> QED
      BY <1>1, <2>1, <3>1
  <2>3. CASE ~v2
    <3>1. usage[i].key = Key(stat[pos])
      BY <1>1, <2>1, <2>3, KeyIsNumber
    <3> QED
      BY <1>1, <2>3, <3>1 DEF Known
  <2> QED
    BY <2>2, <2>3
<1>5. \A p \in 1..Len(stat) : p < pos /\ Relevant(p) => stat[p].number # m
  BY <1>4 DEF Devices
<1>6. d.count = [x \in Counter |-> Tally(m, x)]
  <2>1. ASSUME NEW x \in Counter PROVE Tally(m, x) = [i \in 1..Len(stat) |-> 0]
    <3>1. \A p \in 1..Len(stat) : p \in Entries(m, x) => Relevant(p) /\ stat[p].number = m
      BY DEF Entries, Counts, Relevant, Counter
    <3>2. \A p \in 1..Len(stat) : (IF p < pos /\ p \in Entries(m, x) THEN 1 ELSE 0) = 0
      BY <1>5, <3>1
    <3> QED
      BY <3>2 DEF Tally
  <2> QED
    BY <2>1
<1>7. /\ {"key", "number", "path", "mountpoint", "count"} \subseteq DOMAIN d
      /\ d.number = m /\ d.key = Key(stat[pos])
  OBVIOUS
<1> HIDE DEF d
<1>8. e.number = m /\ e.key = Key(stat[pos])
  BY <1>7, AddEntryKeeps
<1>9. \A n : n = m => e.count = [x \in Counter |-> Tally(n, x)']
  BY <1>1, <1>6, <1>7, AddTally
<1> HIDE DEF e
<1>10. /\ Len(usage) \in Nat /\ Len(usage') = Len(usage) + 1
       /\ \A i \in 1..Len(usage) : usage'[i] = usage[i]
       /\ usage'[Len(usage) + 1] = e
  <2>1. /\ Len(usage) \in Nat
        /\ Len(Append(usage, e)) = Len(usage) + 1
        /\ \A i \in 1..Len(usage) : Append(usage, e)[i] = usage[i]
        /\ Append(usage, e)[Len(usage) + 1] = e
    BY <1>2, AppendElements
  <2> QED
    BY <1>3, <2>1
<1>11. \A i \in 1..Len(usage') : i \in 1..Len(usage) \/ i = Len(usage) + 1
  BY <1>10
<1>12. Len(usage) + 1 \in 1..Len(usage') /\ \A i \in 1..Len(usage) : i \in 1..Len(usage')
  BY <1>10
<1>13. \A p : Relevant(p)' <=> Relevant(p)
  BY <1>1 DEF Relevant
<1>14. ASSUME NEW i \in 1..Len(usage')
       PROVE  usage'[i].count = [x \in Counter |-> Tally(usage[i].number, x)']
  <2>1. CASE i \in 1..Len(usage)
    <3>1. PICK n : n = usage[i].number /\ n = usage'[i].number
      BY <1>10, <2>1
    <3>2. \A x : pos \notin Entries(n, x)
      BY <1>4, <2>1, <3>1 DEF Entries
    <3>3. \A x : Tally(n, x)' = Tally(n, x)
      BY <1>1, <3>2, TallyKept
    <3>4. usage[i].count = [x \in Counter |-> Tally(usage[i].number, x)]
      BY <2>1 DEF Tallies
    <3> QED
      BY <1>10, <2>1, <3>1, <3>3, <3>4
  <2>2. CASE i = Len(usage) + 1
    <3>1. PICK n : n = m /\ n = usage'[i].number
      BY <1>8, <1>10, <2>2
    <3>2. usage'[i].count = [x \in Counter |-> Tally(n, x)']
      BY <1>9, <1>10, <2>2, <3>1
    <3> QED
      BY <3>1, <3>2
  <2> QED
    BY <1>11, <2>1, <2>2
<1>15. Tallies'
  BY <1>14 DEF Tallies
<1>16. ASSUME NEW i \in 1..Len(usage')
       PROVE  \E p \in 1..Len(stat) : /\ p < pos + 1 /\ Relevant(p)'
                                      /\ usage'[i].number = stat[p].number
                                      /\ usage'[i].key = Key(stat[p])
  <2>1. CASE i \in 1..Len(usage)
    <3>1. PICK p \in 1..Len(stat) : /\ p < pos /\ Relevant(p)
                                    /\ usage[i].number = stat[p].number
                                    /\ usage[i].key = Key(stat[p])
      BY <2>1 DEF Devices
    <3>2. p < pos + 1
      BY <1>1, <3>1
    <3> QED
      BY <1>10, <1>13, <2>1, <3>1, <3>2
  <2>2. CASE i = Len(usage) + 1
    <3>1. pos < pos + 1
      BY <1>1
    <3> QED
      BY <1>1, <1>8, <1>10, <1>13, <2>2, <3>1
  <2> QED
    BY <1>11, <2>1, <2>2
<1>17. ASSUME NEW p \in 1..Len(stat), p < pos + 1, Relevant(p)'
       PROVE  \E i \in 1..Len(usage') : usage'[i].number = stat[p].number
  <2>1. CASE p = pos
    BY <1>8, <1>10, <1>12, <2>1
  <2>2. CASE p < pos
    <3>1. PICK i \in 1..Len(usage) : usage[i].number = stat[p].number
      BY <1>13, <1>17, <2>2 DEF Devices
    <3> QED
      BY <1>10, <1>12, <3>1
  <2>3. p = pos \/ p < pos
    BY <1>1, <1>17
  <2> QED
    BY <2>1, <2>2, <2>3
<1>18. ASSUME NEW i \in 1..Len(usage'), NEW j \in 1..Len(usage'),
              usage'[i].number = usage'[j].number
       PROVE  i = j
  BY <1>4, <1>8, <1>10, <1>11, <1>18 DEF Devices
<1>19. Devices'
  BY <1>1, <1>16, <1>17, <1>18 DEF Devices, Key
<1> QED
  BY <1>15, <1>19

(* The sums are kept whatever the maps, the world and the request do. *)
LEMMA GatheredKept ==
    ASSUME RequestTyped, Gathered, [IONext]_allVars
    PROVE  Gathered'
<1>1. ASSUME UNCHANGED <<v2, stat, pos, usage>>, InLoop, Devices, Tallies
      PROVE  Devices' /\ Tallies'
  <2>1. \A n, x : Tally(n, x)' = Tally(n, x)
    BY <1>1 DEF Tally, Entries, Counts
  <2>2. \A p : Relevant(p)' <=> Relevant(p)
    BY <1>1 DEF Relevant
  <2>3. Tallies'
    BY <1>1, <2>1 DEF Tallies
  <2>4. Devices'
    BY <1>1, <2>2 DEF Devices, Key
  <2> QED
    BY <2>3, <2>4
<1>2. ASSUME UNCHANGED <<v2, callVars>> PROVE Gathered'
  <2>1. UNCHANGED <<v2, call, stat, pos, usage>>
    BY <1>2 DEF callVars
  <2>2. InLoop => InLoop'
    BY <2>1 DEF InLoop, Relevant, Known, Key
  <2> QED
    BY <1>1, <2>1, <2>2 DEF Gathered
<1>3. ASSUME NEW s \in (IF v2 THEN V2Stats ELSE V1Stats), GetStats(s) PROVE Gathered'
  <2>1. /\ Len(usage') = 0 /\ stat' = s /\ pos' = 1 /\ v2' = v2 /\ call' = "entry"
    BY <1>3 DEF GetStats, RequestTyped
  <2>2. InLoop'
    BY <1>3, <2>1 DEF InLoop
  <2>3. Len(s) \in Nat
    BY <1>3, StatsAssumption
  <2>4. Devices' /\ Tallies'
    BY <2>1, <2>3 DEF Devices, Tallies
  <2> QED
    BY <2>2, <2>4 DEF Gathered
<1>4. ASSUME SkipEntry \/ UpdateDevice \/ Mountpoint PROVE Gathered'
  <2>1. call # "idle" /\ call' = "entry" /\ pos' = pos + 1 /\ stat' = stat /\ v2' = v2
    BY <1>4 DEF SkipEntry, UpdateDevice, Mountpoint, AtEntry
  <2>2. InLoop /\ Devices /\ Tallies
    BY <2>1 DEF Gathered
  <2>3. InLoop'
    BY <2>1, <2>2 DEF InLoop
  <2>4. Devices' /\ Tallies'
    BY <1>4, <2>2, EntrySkipped, EntryAdded, DeviceMade
  <2> QED
    BY <2>3, <2>4 DEF Gathered
<1>5. ASSUME DevicePath \/ Return PROVE Gathered'
  <2>1. call = "entry" /\ UNCHANGED <<v2, stat, pos, usage>>
    BY <1>5 DEF DevicePath, Return, AtEntry
  <2>2. InLoop /\ Devices /\ Tallies
    BY <2>1 DEF Gathered
  <2>3. InLoop'
    <3>1. CASE DevicePath
      <4>1. /\ pos <= Len(stat) /\ Relevant(pos) /\ (v2 \/ ~Known)
            /\ call' = "mountpoint"
        BY <3>1 DEF DevicePath, AtEntry, Relevant
      <4> QED
        BY <2>1, <2>2, <4>1 DEF InLoop, Relevant, Known, Key
    <3>2. CASE Return
      BY <2>1, <2>2, <3>2 DEF InLoop, Return
    <3> QED
      BY <1>5, <3>1, <3>2
  <2> QED
    BY <1>1, <2>1, <2>2, <2>3 DEF Gathered
<1>6. CASE Respond
  BY <1>6 DEF Respond, Gathered
<1>7. CASE UNCHANGED allVars \/ (World /\ calm' = FALSE /\ UNCHANGED <<v2, callVars>>)
             \/ (Refresh /\ UNCHANGED ioVars)
  BY <1>2, <1>7 DEF allVars, ioVars
<1> QED
  BY <1>3, <1>4, <1>5, <1>6, <1>7 DEF IONext

(* For any cgroup entries, however those of several devices, operations    *)
(* and files are interleaved: GetStats reports each device with a read or  *)
(* a write once, each of its counters the sum of exactly its own entries.  *)
THEOREM ExactSums == IOSpec => []IOUsageExact
<1>1. IOInit => IInv /\ ReportInv /\ Gathered
  BY InitIInv, InitReport DEF IOInit, Gathered
<1>2. ASSUME IInv, ReportInv, Gathered, [IONext]_allVars PROVE IInv' /\ ReportInv' /\ Gathered'
  <2>1. Gathered'
    BY <1>2, GatheredKept DEF ReportInv
  <2> QED
    BY <1>2, <2>1, ReportInvKept
<1>3. Gathered => IOUsageExact
  <2> SUFFICES ASSUME InLoop, Devices, Tallies, call = "done" PROVE IOUsageExact
    BY DEF Gathered, IOUsageExact
  <2>1. stat \in V1Stats \cup V2Stats /\ (v2 \/ stat \in V1Stats)
    BY DEF InLoop
  <2>2. Len(stat) \in Nat /\ \A p \in 1..Len(stat) : stat[p].number \in Number
    BY <2>1, StatsAssumption
  <2>3. \A p \in 1..Len(stat) : p < pos
    BY <2>2 DEF InLoop
  <2>4. \A n : \A x \in Counter :
           Tally(n, x) = [p \in 1..Len(stat) |-> IF p \in Entries(n, x) THEN 1 ELSE 0]
    BY <2>3 DEF Tally
  <2>5. \A i \in 1..Len(usage), x \in Counter :
           usage[i].count[x] = [p \in 1..Len(stat) |->
                                  IF p \in Entries(usage[i].number, x) THEN 1 ELSE 0]
    <3> SUFFICES ASSUME NEW i \in 1..Len(usage), NEW x \in Counter
                 PROVE  usage[i].count[x] = [p \in 1..Len(stat) |->
                                               IF p \in Entries(usage[i].number, x) THEN 1 ELSE 0]
      OBVIOUS
    <3>1. usage[i].count[x] = Tally(usage[i].number, x)
      BY DEF Tallies
    <3> QED
      BY <2>4, <3>1
  <2>6. \A p \in 1..Len(stat) : Relevant(p) <=> \E x \in Counter : Counts(stat[p], x)
    <3> SUFFICES ASSUME NEW p \in 1..Len(stat)
                 PROVE  Relevant(p) <=> \E x \in Counter : Counts(stat[p], x)
      OBVIOUS
    <3>1. CASE v2
      <4>1. <<"bytes", "read">> \in Counter
        BY DEF Counter, Unit, Op
      <4> QED
        BY <3>1, <4>1 DEF Relevant, Counts
    <3>2. CASE ~v2
      <4>1. stat[p].unit \in Unit
        BY <2>1, <3>2, DeviceAssumption DEF Unit
      <4>2. stat[p].op \in Op => <<stat[p].unit, stat[p].op>> \in Counter
        BY <4>1 DEF Counter
      <4>3. Counts(stat[p], <<stat[p].unit, stat[p].op>>)
        BY DEF Counts
      <4>4. \A x \in Counter : Counts(stat[p], x) => stat[p].op \in Op
        BY <3>2 DEF Counts, Counter
      <4> QED
        BY <3>2, <4>2, <4>3, <4>4 DEF Relevant
    <3> QED
      BY <3>1, <3>2
  <2>7. {usage[i].number : i \in 1..Len(usage)} =
           {n \in Number : \E x \in Counter : Entries(n, x) # {}}
    <3>1. ASSUME NEW i \in 1..Len(usage)
          PROVE  /\ usage[i].number \in Number
                 /\ \E x \in Counter : Entries(usage[i].number, x) # {}
      <4>1. PICK p \in 1..Len(stat) : Relevant(p) /\ usage[i].number = stat[p].number
        BY DEF Devices
      <4>2. PICK x \in Counter : Counts(stat[p], x)
        BY <2>6, <4>1
      <4>3. p \in Entries(usage[i].number, x)
        BY <4>1, <4>2 DEF Entries
      <4> QED
        BY <2>2, <4>1, <4>3
    <3>2. ASSUME NEW n \in Number, NEW x \in Counter, Entries(n, x) # {}
          PROVE  \E i \in 1..Len(usage) : usage[i].number = n
      <4>1. PICK p \in 1..Len(stat) : stat[p].number = n /\ Counts(stat[p], x)
        BY <3>2 DEF Entries
      <4>2. Relevant(p)
        BY <2>6, <4>1
      <4> QED
        BY <2>3, <4>1, <4>2 DEF Devices
    <3> QED
      BY <3>1, <3>2
  <2> QED
    BY <2>5, <2>7 DEF IOUsageExact, Devices
<1> QED
  BY <1>1, <1>2, <1>3, PTL DEF IOSpec
=============================================================================
