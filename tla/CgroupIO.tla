------------------------------ MODULE CgroupIO ------------------------------
(***************************************************************************)
(* The answer to a request for the block I/O of a container: GetStats      *)
(* turns the entries of the cgroup into one usage per device, and asks the *)
(* maps of MountInfo for the path and the mount point of each, in two      *)
(* calls, while they are being refreshed.                                  *)
(*                                                                         *)
(* With cgroup v1 there is an entry per device, operation and file (first  *)
(* the bytes, then the operations), to be added up; with v2 there is one   *)
(* entry per device.  A sum is kept as the number of times that each entry *)
(* was added to it.                                                        *)
(***************************************************************************)
EXTENDS MountInfo, Sequences

CONSTANTS
    V1Stats,   \* the blkio entries a v1 cgroup may have
    V2Stats    \* the io entries a v2 cgroup may have

ASSUME StatsAssumption ==
    \A s \in V1Stats \cup V2Stats :
        Len(s) \in Nat /\ \A i \in 1..Len(s) : s[i].number \in Number

(* In one reading, a number has one name or none, and no other number has  *)
(* it; with v2 a number has one entry.                                     *)
ASSUME DeviceAssumption ==
    /\ \A s \in V1Stats : \A i, j \in 1..Len(s) :
          /\ s[i].unit \in {"bytes", "ios"}
          /\ s[i].device \notin Number
          /\ s[i].number = s[j].number => s[i].device = s[j].device
          /\ s[i].device = s[j].device /\ s[i].device # None => s[i].number = s[j].number
    /\ \A s \in V2Stats : \A i, j \in 1..Len(s) : s[i].number = s[j].number => i = j

VARIABLES
    v2,      \* config.IsUsingCgroupV2
    call,    \* "idle", "entry", "mountpoint" or "done"
    stat,    \* the entries
    pos,     \* the entry being handled
    path,    \* the device path read for it
    usage,   \* the devices found so far, in order
    calm     \* history: since the call, the maps were true to the world

callVars == <<call, stat, pos, path, usage>>
ioVars == <<v2, callVars, calm>>
allVars == <<mountVars, ioVars>>

Unit == {"bytes", "ios"}
Op == {"read", "write"}
Counter == Unit \X Op

IOInit ==
    /\ MountInit
    /\ v2 \in BOOLEAN
    /\ call = "idle"
    /\ stat = <<>>
    /\ pos = 0
    /\ path = None
    /\ usage = <<>>
    /\ calm = FALSE

(* A request: the cgroup is read (else the request ends with an error). *)
GetStats(s) ==
    /\ call = "idle"
    /\ call' = "entry"
    /\ stat' = s
    /\ pos' = 1
    /\ calm' = ~stale
    /\ UNCHANGED <<mountVars, v2, path, usage>>

(* Mutant: an unnamed device is not told apart. *)
KeyByName(e) == e.device

(* Devices are told apart by their name, or by their number if they have   *)
(* none in /proc/diskstats.                                                *)
Key(e) == IF e.device # None THEN e.device ELSE e.number

Known == \E i \in 1..Len(usage) : usage[i].key = Key(stat[pos])

Counts(e, x) == v2 \/ (e.unit = x[1] /\ e.op = x[2])

AddEntry(device) ==
    LET count == device.count IN
    [device EXCEPT !.count =
        [x \in Counter |-> IF Counts(stat[pos], x) THEN [count[x] EXCEPT ![pos] = @ + 1]
                                                   ELSE count[x]]]

AtEntry == call = "entry" /\ pos <= Len(stat)

(* Entries of other operations ("Total", "Sync"...) are left out. *)
SkipEntry ==
    /\ AtEntry
    /\ ~v2
    /\ stat[pos].op \notin Op
    /\ pos' = pos + 1
    /\ UNCHANGED <<mountVars, v2, call, stat, path, usage, calm>>

UpdateDevice ==
    /\ AtEntry
    /\ ~v2
    /\ stat[pos].op \in Op
    /\ Known
    /\ usage' = [i \in 1..Len(usage) |->
                   IF usage[i].key = Key(stat[pos]) THEN AddEntry(usage[i]) ELSE usage[i]]
    /\ pos' = pos + 1
    /\ UNCHANGED <<mountVars, v2, call, stat, path, calm>>

(* A new device: its path is read under the lock of the maps... *)
DevicePath ==
    /\ AtEntry
    /\ v2 \/ (stat[pos].op \in Op /\ ~Known)
    /\ path' = devices[stat[pos].number]
    /\ call' = "mountpoint"
    /\ UNCHANGED <<mountVars, v2, stat, pos, usage, calm>>

(* Mutant: the mount point is looked up by the path. *)
MountpointOfPath ==
    /\ call = "mountpoint"
    /\ usage' = Append(usage, AddEntry([key |-> Key(stat[pos]), number |-> stat[pos].number,
                                        path |-> path,
                                        mountpoint |-> IF path \in Number THEN mountInfos[path] ELSE None,
                                        count |-> [x \in Counter |-> [i \in 1..Len(stat) |-> 0]]]))
    /\ pos' = pos + 1
    /\ call' = "entry"
    /\ path' = None
    /\ UNCHANGED <<mountVars, v2, stat, calm>>

(* ... and its mount point under the same lock, taken again. *)
Mountpoint ==
    /\ call = "mountpoint"
    /\ usage' = Append(usage, AddEntry([key |-> Key(stat[pos]), number |-> stat[pos].number,
                                        path |-> path,
                                        mountpoint |-> mountInfos[stat[pos].number],
                                        count |-> [x \in Counter |-> [i \in 1..Len(stat) |-> 0]]]))
    /\ pos' = pos + 1
    /\ call' = "entry"
    /\ path' = None
    /\ UNCHANGED <<mountVars, v2, stat, calm>>

Return ==
    /\ call = "entry"
    /\ pos > Len(stat)
    /\ call' = "done"
    /\ UNCHANGED <<mountVars, v2, stat, pos, path, usage, calm>>

(* The handler writes the answer. *)
Respond ==
    /\ call = "done"
    /\ call' = "idle"
    /\ stat' = <<>>
    /\ pos' = 0
    /\ usage' = <<>>
    /\ calm' = FALSE
    /\ UNCHANGED <<mountVars, v2, path>>

IONext ==
    \/ World /\ calm' = FALSE /\ UNCHANGED <<v2, callVars>>
    \/ Refresh /\ UNCHANGED ioVars
    \/ \E s \in (IF v2 THEN V2Stats ELSE V1Stats) : GetStats(s)
    \/ SkipEntry
    \/ UpdateDevice
    \/ DevicePath
    \/ Mountpoint
    \/ Return
    \/ Respond

IOSpec == IOInit /\ [][IONext]_allVars

(* The ticker goes on, whatever became of the last refresh. *)
IOFairSpec == IOSpec /\ WF_allVars(Refresh /\ UNCHANGED ioVars)

-----------------------------------------------------------------------------

(* The positions of the entries that count for x on the device numbered n. *)
Entries(n, x) == {i \in 1..Len(stat) : stat[i].number = n /\ Counts(stat[i], x)}

(* Each device with a read or a write is reported exactly once, with the   *)
(* sum of exactly its own entries in each of the four counters, however    *)
(* the entries of several devices, operations and files are interleaved.   *)
IOUsageExact ==
    call = "done" =>
        /\ {usage[i].number : i \in 1..Len(usage)} =
              {n \in Number : \E x \in Counter : Entries(n, x) # {}}
        /\ \A i, j \in 1..Len(usage) : usage[i].number = usage[j].number => i = j
        /\ \A i \in 1..Len(usage), x \in Counter :
              usage[i].count[x] = [p \in 1..Len(stat) |->
                                     IF p \in Entries(usage[i].number, x) THEN 1 ELSE 0]

(* Although path and mount point are read in two calls, and refreshes may  *)
(* replace the maps between them, an answer is true to the world if the    *)
(* maps were when the request came and the world did not change since.     *)
ReportIsTrue ==
    call = "done" /\ calm =>
        \A i \in 1..Len(usage) :
            /\ TruePath(usage[i].number, usage[i].path)
            /\ TrueMount(usage[i].number, usage[i].mountpoint)
=============================================================================
