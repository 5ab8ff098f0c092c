----------------------------- MODULE MountInfo -----------------------------
(***************************************************************************)
(* procfs.MountInfoReader: every 30 s the mounts, the aliases of           *)
(* /dev/mapper and the block devices of /sys/dev/block are read, one after *)
(* the other and entry by entry, while devices come and go; when all of it *)
(* succeeded the two maps that Mountpoint and DevicePath read are replaced *)
(* under the mutex, and when any step failed nothing is.                   *)
(*                                                                         *)
(* A device number (major:minor) outlives its device: the next one to be   *)
(* plugged may get the same number.  The path of a device is either the    *)
(* one under /dev that goes with its number (modelled by the number) or an *)
(* alias under /dev/mapper (modelled by the device it was made for).       *)
(***************************************************************************)
EXTENDS Naturals, FiniteSets

CONSTANTS
    Device,     \* block devices
    Number,     \* major:minor numbers
    NumberOf,   \* the number a device has when it is plugged
    None        \* the empty string: no path, no mount point

ASSUME NumberAssumption == NumberOf \in [Device -> Number]
ASSUME NoneAssumption == None \notin Device \cup Number

VARIABLES
    plugged,     \* the devices that are there
    aliases,     \* the devices with a link in /dev/mapper
    mounts,      \* the devices that are mounted
    readable,    \* the directories and the mount table can be read
    refresher,   \* the step Refresh is at; "wait": the next tick
    infos,       \* the mount point of each number, as read by this refresh
    links,       \* the links of /dev/mapper it has yet to resolve
    paths,       \* mapperPaths: the alias of each number
    entries,     \* the entries of /sys/dev/block it has yet to resolve
    found,       \* devicePaths: the path of each number
    mountInfos,  \* the map of Mountpoint
    devices,     \* the map of DevicePath
    changed,     \* history: the world changed since this refresh began
    stale        \* history: ... since the refresh that filled the maps began

world == <<plugged, aliases, mounts, readable>>
progress == <<infos, links, paths, entries, found>>
maps == <<mountInfos, devices>>
mountVars == <<world, refresher, progress, maps, changed, stale>>

Numbers(S) == {NumberOf[d] : d \in S}
With(S, n) == {d \in S : NumberOf[d] = n}
Nothing == [n \in Number |-> None]

MountInit ==
    /\ plugged = {}
    /\ aliases = {}
    /\ mounts = {}
    /\ readable = TRUE
    /\ refresher = "wait"
    /\ infos = Nothing
    /\ links = {}
    /\ paths = Nothing
    /\ entries = {}
    /\ found = Nothing
    /\ mountInfos = Nothing
    /\ devices = Nothing
    /\ changed = FALSE
    /\ stale = TRUE

-----------------------------------------------------------------------------
(* The world: devices, udev's links and mounts.  A link or a mount may     *)
(* outlive its device for a while.                                         *)

WorldChanges ==
    /\ changed' = TRUE
    /\ stale' = TRUE
    /\ UNCHANGED <<refresher, progress, maps>>

Plug(d) ==
    /\ NumberOf[d] \notin Numbers(plugged)
    /\ plugged' = plugged \cup {d}
    /\ WorldChanges
    /\ UNCHANGED <<aliases, mounts, readable>>

Unplug(d) ==
    /\ d \in plugged
    /\ plugged' = plugged \ {d}
    /\ WorldChanges
    /\ UNCHANGED <<aliases, mounts, readable>>

Link(d) ==
    /\ d \in plugged \ aliases
    /\ aliases' = aliases \cup {d}
    /\ WorldChanges
    /\ UNCHANGED <<plugged, mounts, readable>>

Unlink(d) ==
    /\ d \in aliases
    /\ aliases' = aliases \ {d}
    /\ WorldChanges
    /\ UNCHANGED <<plugged, mounts, readable>>

Mount(d) ==
    /\ d \in plugged \ mounts
    /\ mounts' = mounts \cup {d}
    /\ WorldChanges
    /\ UNCHANGED <<plugged, aliases, readable>>

Unmount(d) ==
    /\ d \in mounts
    /\ mounts' = mounts \ {d}
    /\ WorldChanges
    /\ UNCHANGED <<plugged, aliases, readable>>

Access ==
    /\ readable' = ~readable
    /\ WorldChanges
    /\ UNCHANGED <<plugged, aliases, mounts>>

World ==
    \/ \E d \in Device : Plug(d) \/ Unplug(d) \/ Link(d) \/ Unlink(d) \/ Mount(d) \/ Unmount(d)
    \/ Access

-----------------------------------------------------------------------------
(* Refresh                                                                 *)

(* A map with an entry for the number of every device of S; of several     *)
(* devices with one number, the last one read wins.                        *)
ByNumber(S) ==
    {f \in [Number -> S \cup {None}] :
        \A n \in Number : IF With(S, n) = {} THEN f[n] = None ELSE f[n] \in With(S, n)}

(* Any error ends the refresh: what was read is dropped. *)
RefreshFails ==
    /\ refresher' = "wait"
    /\ infos' = Nothing
    /\ links' = {}
    /\ paths' = Nothing
    /\ entries' = {}
    /\ found' = Nothing
    /\ UNCHANGED <<world, maps, changed, stale>>

(* Mutant: the mounts are filed the wrong way round. *)
GetMountInfosInverted ==
    /\ refresher = "wait"
    /\ readable
    /\ infos' = [d \in mounts |-> NumberOf[d]]
    /\ refresher' = "mapper"
    /\ changed' = FALSE
    /\ UNCHANGED <<world, links, paths, entries, found, maps, stale>>

(* A tick: the mount table is read. *)
GetMountInfos ==
    /\ refresher = "wait"
    /\ readable
    /\ infos' \in ByNumber(mounts)
    /\ refresher' = "mapper"
    /\ changed' = FALSE
    /\ UNCHANGED <<world, links, paths, entries, found, maps, stale>>

(* mapperPaths: the names in /dev/mapper, then what each one links to. *)
ReadMapperDir ==
    /\ refresher = "mapper"
    /\ readable
    /\ links' = aliases
    /\ refresher' = "links"
    /\ UNCHANGED <<world, infos, paths, entries, found, maps, changed, stale>>

ResolveLink(d) ==
    /\ refresher = "links"
    /\ d \in links
    /\ d \in aliases
    /\ NumberOf[d] \in Numbers(plugged)
    /\ paths' = [paths EXCEPT ![NumberOf[d]] = d]
    /\ links' = links \ {d}
    /\ UNCHANGED <<world, refresher, infos, entries, found, maps, changed, stale>>

(* devicePaths: the names in /sys/dev/block, then what each one links to. *)
ReadBlockDir ==
    /\ refresher = "links"
    /\ links = {}
    /\ readable
    /\ entries' = Numbers(plugged)
    /\ refresher' = "block"
    /\ UNCHANGED <<world, infos, links, paths, found, maps, changed, stale>>

ResolveDevice(n) ==
    /\ refresher = "block"
    /\ n \in entries
    /\ n \in Numbers(plugged)
    /\ found' = [found EXCEPT ![n] = IF paths[n] # None THEN paths[n] ELSE n]
    /\ entries' = entries \ {n}
    /\ UNCHANGED <<world, refresher, infos, links, paths, maps, changed, stale>>

(* A directory cannot be read, or a link leads nowhere any more. *)
Failing ==
    \/ refresher = "mapper" /\ ~readable
    \/ refresher = "links" /\ links = {} /\ ~readable
    \/ \E d \in links : d \notin aliases \/ NumberOf[d] \notin Numbers(plugged)
    \/ \E n \in entries : n \notin Numbers(plugged)

(* Mutant: the step that failed is tried again, for ever. *)
StepFailsRetried == Failing /\ UNCHANGED mountVars

StepFails == Failing /\ RefreshFails

(* Mutant: what is gone stays in the map. *)
StoreMerged ==
    /\ refresher = "block"
    /\ entries = {}
    /\ mountInfos' = infos
    /\ devices' = [n \in Number |-> IF found[n] # None THEN found[n] ELSE devices[n]]
    /\ refresher' = "wait"
    /\ infos' = Nothing
    /\ paths' = Nothing
    /\ found' = Nothing
    /\ stale' = changed
    /\ UNCHANGED <<world, links, entries, changed>>

(* Both maps are replaced, under the mutex. *)
Store ==
    /\ refresher = "block"
    /\ entries = {}
    /\ mountInfos' = infos
    /\ devices' = found
    /\ refresher' = "wait"
    /\ infos' = Nothing
    /\ paths' = Nothing
    /\ found' = Nothing
    /\ stale' = changed
    /\ UNCHANGED <<world, links, entries, changed>>

Refresh ==
    \/ GetMountInfos
    \/ ReadMapperDir
    \/ \E d \in Device : ResolveLink(d)
    \/ ReadBlockDir
    \/ \E n \in Number : ResolveDevice(n)
    \/ StepFails
    \/ Store

MountNext == World \/ Refresh

MountSpec == MountInit /\ [][MountNext]_mountVars

-----------------------------------------------------------------------------

(* The values the variables take. *)
MountTypeOK ==
    /\ plugged \in SUBSET Device
    /\ aliases \in SUBSET Device
    /\ mounts \in SUBSET Device
    /\ readable \in BOOLEAN
    /\ refresher \in {"wait", "mapper", "links", "block"}
    /\ infos \in [Number -> Device \cup {None}]
    /\ links \in SUBSET Device
    /\ paths \in [Number -> Device \cup {None}]
    /\ entries \in SUBSET Number
    /\ found \in [Number -> Device \cup Number \cup {None}]
    /\ mountInfos \in [Number -> Device \cup {None}]
    /\ devices \in [Number -> Device \cup Number \cup {None}]
    /\ changed \in BOOLEAN
    /\ stale \in BOOLEAN

TrueMount(n, m) == IF With(mounts, n) = {} THEN m = None ELSE m \in With(mounts, n)

TruePath(n, p) ==
    IF n \notin Numbers(plugged) THEN p = None
    ELSE IF With(aliases, n) = {} THEN p = n ELSE p \in With(aliases, n)

(* The maps agree with the world. *)
MapsTrue ==
    \A n \in Number : TrueMount(n, mountInfos[n]) /\ TruePath(n, devices[n])

(* Refresh reads mounts, aliases and devices at different moments and      *)
(* keeps nothing from before: when nothing changed since the refresh that  *)
(* filled them began, the maps are the truth, whatever refreshes were      *)
(* abandoned in between.                                                   *)
SettledMapsAreTrue == ~stale => MapsTrue

(* No link of /dev/mapper leads nowhere. *)
NoDanglingLink == Numbers(aliases) \subseteq Numbers(plugged)

(* An abandoned refresh is made up for: once the world rests the maps      *)
(* become true and stay so, if /dev/mapper exists and none of its links    *)
(* dangles (a single one makes every refresh fail).                        *)
MapsConverge ==
    <>[][UNCHANGED world]_mountVars /\ <>[](readable /\ NoDanglingLink) => <>[]MapsTrue
=============================================================================
