------------------------------ MODULE Requests ------------------------------
(***************************************************************************)
(* A request: a method of the HTTP client, the handler that serves it and  *)
(* the reads of the cgroups it makes, while containers start, stop and use *)
(* memory.  The handlers list the containers at one moment, and read the   *)
(* cgroup of each one, file after file, later.                             *)
(*                                                                         *)
(* The state of a cgroup is its memory and its swap; a container that does *)
(* not run has none.  CPU and network usage are lookups in the maps of the *)
(* monitors (CPUMonitor, NetMonitor), which answer for any container.      *)
(***************************************************************************)
EXTENDS Integers, Sequences, FiniteSetsExt

CONSTANTS
    Container,
    Usage,        \* the states of a cgroup, [memory, swap]
    NoCgroup,
    Limit,        \* Limit[c]: the memory limit of c
    Modulus,      \* 2^64, of the integers of the usages
    Unlimited,    \* the limit of a container without one
    Labelled,     \* the containers with the label of the query
    MemInfoFile,  \* the contents of /proc/meminfo, Unreadable among them
    Unreadable,
    None          \* nothing read, nothing answered

ASSUME UsageAssumption ==
    /\ NoCgroup \notin Usage
    /\ Usage \subseteq [memory : 0..(Modulus - 1), swap : 0..(Modulus - 1)]
ASSUME LimitAssumption == Limit \in [Container -> Nat] /\ {Modulus, Unlimited} \subseteq Nat /\ Unlimited < Modulus
ASSUME LabelAssumption == Labelled \subseteq Container
ASSUME NoneAssumption == None \notin [status : Nat, body : {"data", "error", "text", "empty"}]
ASSUME MemInfoAssumption == \A file \in MemInfoFile \ {Unreadable} : Len(file) \in Nat

VARIABLES
    cgroup,      \* cgroup[c]: the state of the cgroup of c
    v2,          \* config.IsUsingCgroupV2
    kind,        \* the method of the client that is called
    phase,       \* "idle", "sent", "memory", "list", "containers" or "done"
    memInfo,     \* what the host handler has read from /proc/meminfo
    todo,        \* the containers yet to be read
    half,        \* the read under way: the memory is read, the swap is not
    answer,      \* what was read of each container
    response,    \* the status and the body of the response
    during,      \* history: during[c], the states of c since the request came
    failed       \* history: the running containers that could not be read

requestVars == <<kind, phase, memInfo, todo, half, answer, response, failed>>
vars == <<cgroup, v2, requestVars, during>>

Host == {"host", "labelled"}                      \* HostUsage, without and with a label
Single == {"mem", "io", "cpu", "net", "usage"}    \* of one container

RequestInit ==
    /\ cgroup \in [Container -> Usage \cup {NoCgroup}]
    /\ v2 \in BOOLEAN
    /\ kind = None
    /\ phase = "idle"
    /\ memInfo = None
    /\ todo = {}
    /\ half = None
    /\ answer = <<>>
    /\ response = None
    /\ during = [c \in Container |-> {}]
    /\ failed = {}

-----------------------------------------------------------------------------

(* Containers start, stop, and use more or less memory and swap. *)
CgroupChanges(c) ==
    /\ \E u \in Usage \cup {NoCgroup} : u # cgroup[c] /\ cgroup' = [cgroup EXCEPT ![c] = u]
    /\ during' = IF phase \in {"idle", "done"} THEN during
                 ELSE [during EXCEPT ![c] = @ \cup {cgroup'[c]}]
    /\ UNCHANGED <<v2, requestVars>>

(* The client sends a request, of one container or not. *)
Send(k, ids) ==
    /\ phase = "idle"
    /\ phase' = "sent"
    /\ kind' = k
    /\ todo' = ids
    /\ during' = [c \in Container |-> {cgroup[c]}]
    /\ UNCHANGED <<cgroup, v2, memInfo, half, answer, response, failed>>

(* The response; body "error" is an object with a string "error", "text"   *)
(* is not JSON, "empty" is no body at all.  The error of a handler becomes *)
(* text: the client sends no Accept header.                                *)
Respond(status, body) ==
    /\ response' = [status |-> status, body |-> body]
    /\ phase' = "done"
    /\ half' = None
    /\ UNCHANGED <<cgroup, v2, kind, memInfo, todo, answer, during, failed>>

(* The credentials are wrong (the client says that it sends JSON, and is   *)
(* answered in JSON), or there are none.                                   *)
Unauthorized == phase = "sent" /\ (Respond(401, "error") \/ Respond(401, "empty"))

(* An empty id makes a path without a handler.  (Not for Usage: its path   *)
(* is then that of all containers.  Left out.)                             *)
NoSuchPath == kind \in Single /\ todo = {}

NotFound == phase = "sent" /\ NoSuchPath /\ Respond(404, "error")

(* The router picks the handler.  Those of CPU and network usage look it   *)
(* up in the maps of the monitors, whatever the id.                        *)
Route ==
    /\ phase = "sent"
    /\ ~NoSuchPath
    /\ phase' = IF kind \in Host THEN "memory" ELSE IF kind = "all" THEN "list" ELSE "containers"
    /\ todo' = IF kind \in {"cpu", "net"} THEN {} ELSE todo
    /\ UNCHANGED <<cgroup, v2, kind, memInfo, half, answer, response, during, failed>>

-----------------------------------------------------------------------------
(* /proc/meminfo, a sequence of lines [header, value, unit].               *)

(* Lines with a header only, or with another unit, and values that are not *)
(* unsigned numbers stop the reader.  For the former the error wraps a nil *)
(* one, and cannot be printed.                                             *)
Malformed(line) == line.unit \notin {"kB", ""}
NotUnsigned(line) == line.value \notin 0..(Modulus - 1)

Bytes(line) == IF line.unit = "kB" THEN (line.value * 1024) % Modulus ELSE line.value

(* FillStruct: the last line of a header counts, a missing one is zero. *)
Field(file, header) ==
    LET lines == {i \in 1..Len(file) : file[i].header = header}
    IN  IF lines = {} THEN 0 ELSE Bytes(file[Max(lines)])

MiB(bytes) == (bytes \div 1024) \div 1024

HostMemory(file) ==
    [free |-> MiB((Field(file, "MemFree") + Field(file, "Buffers") + Field(file, "Cached")) % Modulus),
     total |-> MiB(Field(file, "MemTotal")),
     swap |-> MiB((Field(file, "SwapTotal") - Field(file, "SwapFree")) % Modulus)]

(* A host has at least 1 MiB of memory. *)
ASSUME TotalAssumption ==
    \A file \in MemInfoFile \ {Unreadable} :
        (\A i \in 1..Len(file) : ~Malformed(file[i]) /\ ~NotUnsigned(file[i])) => HostMemory(file).total > 0

(* GetHostUsage and the queue's Read come first, and return no error the   *)
(* handler passes on.                                                      *)
ReadMemInfo(file) ==
    /\ phase = "memory"
    /\ file # Unreadable
    /\ \A i \in 1..Len(file) : ~Malformed(file[i]) /\ ~NotUnsigned(file[i])
    /\ memInfo' = HostMemory(file)
    /\ phase' = "list"
    /\ UNCHANGED <<cgroup, v2, kind, todo, half, answer, response, during, failed>>

(* A bad line ends the reading, with an error or, when that of a malformed *)
(* line is printed, with a panic; the middleware writes the text of either. *)
ReadMemInfoFails(file) ==
    /\ phase = "memory"
    /\ file # Unreadable =>
          \E i \in 1..Len(file) : Malformed(file[i]) \/ NotUnsigned(file[i])
    /\ Respond(500, "text")

-----------------------------------------------------------------------------
(* The containers.                                                         *)

Included(c) == kind = "labelled" => c \in Labelled

ListContainers ==
    /\ phase = "list"
    /\ phase' = "containers"
    /\ todo' = {c \in Container : cgroup[c] # NoCgroup /\ Included(c)}
    /\ UNCHANGED <<cgroup, v2, kind, memInfo, half, answer, response, during, failed>>

ListContainersFails == phase = "list" /\ Respond(500, "text")

Memory(u) == IF u = NoCgroup THEN 0 ELSE u.memory
Swap(u) == IF u = NoCgroup THEN 0 ELSE u.swap
MemorySwap(u) == Memory(u) + Swap(u)

(* A v1 cgroup that is gone cannot be read; with v2 it reads as zeros. *)
Readable(c) == v2 \/ cgroup[c] # NoCgroup

(* GetStats of the next container: the files about memory... *)
ReadMemory(c) ==
    /\ phase = "containers"
    /\ half = None
    /\ c \in todo
    /\ Readable(c)
    /\ half' = [id |-> c, memory |-> Memory(cgroup[c]),
                limit |-> IF cgroup[c] = NoCgroup THEN 0 ELSE Limit[c]]
    /\ UNCHANGED <<cgroup, v2, kind, phase, memInfo, todo, answer, response, during, failed>>

(* Mutant: the difference is not guarded. *)
SwapMetricWrapping(memoryAndSwap, memory) == (memoryAndSwap - memory) % Modulus

(* cgroupV1SwapMetric *)
SwapMetric(memoryAndSwap, memory) ==
    IF memoryAndSwap < memory THEN 0 ELSE memoryAndSwap - memory

MemoryUsageFromStats(stats, swap) ==
    [memory |-> stats.memory, limit |-> stats.limit, swap |-> swap]

(* ... then those about swap, which with v1 count the memory too. *)
ReadSwap ==
    /\ half # None
    /\ Readable(half.id)
    /\ LET u == cgroup[half.id]
           swap == IF v2 THEN Swap(u) ELSE SwapMetric(MemorySwap(u), half.memory)
           usage == MemoryUsageFromStats(half, swap)
       IN  answer' = [c \in DOMAIN answer \cup {half.id} |->
                         IF c = half.id THEN usage ELSE answer[c]]
    /\ half' = None
    /\ todo' = todo \ {half.id}
    /\ UNCHANGED <<cgroup, v2, kind, phase, memInfo, response, during, failed>>

GetStatsFails(c) ==
    /\ phase = "containers"
    /\ c \in todo
    /\ half # None => half.id = c

(* A file cannot be read.  A handler of one container passes the error on... *)
PassError(c) == kind \in Single /\ GetStatsFails(c) /\ Respond(500, "text")

(* Mutant: the loop is left at the first container that cannot be read. *)
BreakAtContainer(c) ==
    /\ kind \notin Single
    /\ GetStatsFails(c)
    /\ todo' = {}
    /\ half' = None
    /\ failed' = failed \cup {d \in {c} : cgroup[d] # NoCgroup}
    /\ UNCHANGED <<cgroup, v2, kind, phase, memInfo, answer, response, during>>

(* Mutant: the loop goes on with the empty usage that came with the error. *)
KeepContainer(c) ==
    /\ kind \notin Single
    /\ GetStatsFails(c)
    /\ todo' = todo \ {c}
    /\ half' = None
    /\ answer' = [d \in DOMAIN answer \cup {c} |->
                     IF d = c THEN [memory |-> 0, limit |-> 0, swap |-> 0] ELSE answer[d]]
    /\ failed' = failed \cup {d \in {c} : cgroup[d] # NoCgroup}
    /\ UNCHANGED <<cgroup, v2, kind, phase, memInfo, response, during>>

(* ... the others go on without the container. *)
SkipContainer(c) ==
    /\ kind \notin Single
    /\ GetStatsFails(c)
    /\ todo' = todo \ {c}
    /\ half' = None
    /\ failed' = failed \cup {d \in {c} : cgroup[d] # NoCgroup}
    /\ UNCHANGED <<cgroup, v2, kind, phase, memInfo, answer, response, during>>

(* All is read.  A host usage that is not a number (see HostCPU) cannot be *)
(* encoded: the status is written, and no body.                            *)
Encode ==
    /\ phase = "containers"
    /\ half = None
    /\ todo = {}
    /\ Respond(200, "data") \/ (kind \in Host /\ Respond(200, "empty"))

(* The connection is lost before the response has arrived. *)
ConnectionLost == phase \notin {"idle", "done"} /\ Respond(0, "empty")

(* The client has decoded the response. *)
Return ==
    /\ phase = "done"
    /\ phase' = "idle"
    /\ kind' = None
    /\ memInfo' = None
    /\ todo' = {}
    /\ answer' = <<>>
    /\ response' = None
    /\ during' = [c \in Container |-> {}]
    /\ failed' = {}
    /\ UNCHANGED <<cgroup, v2, half>>

RequestNext ==
    \/ \E c \in Container :
          \/ CgroupChanges(c)
          \/ \E k \in Single : Send(k, {c}) \/ (k # "usage" /\ Send(k, {}))
          \/ ReadMemory(c)
          \/ PassError(c)
          \/ SkipContainer(c)
    \/ \E k \in Host \cup {"all"} : Send(k, {})
    \/ Unauthorized
    \/ NotFound
    \/ Route
    \/ \E file \in MemInfoFile : ReadMemInfo(file) \/ ReadMemInfoFails(file)
    \/ ListContainers
    \/ ListContainersFails
    \/ ReadSwap
    \/ Encode
    \/ ConnectionLost
    \/ Return

RequestSpec == RequestInit /\ [][RequestNext]_vars

-----------------------------------------------------------------------------
(* What is answered, and what the client makes of it.                      *)

(* The sum of f over the containers of a set, the others counting zero. *)
SumOver(set, f) == MapThenSumSet(LAMBDA c : IF c \in set THEN f[c] ELSE 0, Container)

Answers(field) == SumOver(DOMAIN answer, [c \in DOMAIN answer |-> answer[c][field]]) % Modulus

(* Mutant: the limits are summed twice. *)
HostUsageSummingLimits ==
    [host |-> memInfo,
     memoryUsage |-> Answers("limit"),
     memoryCommitted |-> Answers("limit"),
     swapUsage |-> Answers("swap")]

(* The sums of the host handler, in uint64; those of the limits of swap    *)
(* and of the maxima are alike.                                            *)
HostUsage ==
    [host |-> memInfo,
     memoryUsage |-> Answers("memory"),
     memoryCommitted |-> Answers("limit"),
     swapUsage |-> Answers("swap")]

ZeroHostUsage ==
    [host |-> [free |-> 0, total |-> 0, swap |-> 0],
     memoryUsage |-> 0, memoryCommitted |-> 0, swapUsage |-> 0]

(* Mutant: IOUsage too hands a nil pointer to the decoder. *)
NilPointerForIO == {"mem", "cpu", "net", "io"}

(* The methods that hand a nil pointer to the decoder, which leaves it nil. *)
NilPointer == {"mem", "cpu", "net"}

(* An object with a string "error" decodes into a structure without fields *)
(* of that name, but not into a map of usages; the status is not looked at. *)
ClientError == response.body \in {"empty", "text"} \/ (response.body = "error" /\ kind = "all")

Zero == IF kind \in Host THEN ZeroHostUsage ELSE <<>>

(* The value the method returns when it returns no error. *)
ClientValue ==
    CASE kind \in NilPointer -> None
      [] response.body = "error" -> Zero
      [] OTHER -> IF kind \in Host THEN HostUsage ELSE answer

-----------------------------------------------------------------------------
(* What is checked.                                                        *)

RequestTypeOK ==
    /\ cgroup \in [Container -> Usage \cup {NoCgroup}]
    /\ v2 \in BOOLEAN
    /\ kind \in Host \cup Single \cup {"all", None}
    /\ phase \in {"idle", "sent", "memory", "list", "containers", "done"}
    /\ memInfo = None \/ memInfo \in [free : 0..Modulus, total : 0..Modulus, swap : 0..Modulus]
    /\ todo \subseteq Container
    /\ half = None \/ (half.id \in todo /\ phase = "containers")
    /\ DOMAIN answer \subseteq Container \ todo
    /\ response = None <=> phase # "done"
    /\ during \in [Container -> SUBSET (Usage \cup {NoCgroup})]
    /\ failed \subseteq Container \ DOMAIN answer

Answered == phase = "done" /\ response = [status |-> 200, body |-> "data"]
Wanted(c) == kind = "labelled" => c \in Labelled
Throughout == {c \in Container : Wanted(c) /\ NoCgroup \notin during[c]}
Sometime == {c \in Container : Wanted(c) /\ during[c] # {NoCgroup}}

(* An answer about many containers is about all those of the query that    *)
(* ran from its beginning to its end and could be read, whichever others   *)
(* stopped between the listing and their reads or could not be read, and   *)
(* about no container that ran at no moment of it.                         *)
AnswerComplete ==
    Answered /\ kind \notin Single =>
        /\ Throughout \ failed \subseteq DOMAIN answer
        /\ DOMAIN answer \subseteq Sometime

Least == [c \in Container |-> Min({Memory(u) : u \in during[c]})]
Most == [c \in Container |-> Max({Memory(u) : u \in during[c]})]
MostWithSwap == [c \in Container |-> Max({MemorySwap(u) : u \in during[c]})]

(* The memory of all containers together, and their limits where they have *)
(* one, are below 2^64.                                                    *)
ASSUME SizeAssumption ==
    /\ IsFiniteSet(Container)
    /\ \A use \in [Container -> Usage \cup {NoCgroup}] :
          SumOver(Container, [c \in Container |-> Memory(use[c])]) < Modulus
    /\ SumOver({c \in Container : Limit[c] # Unlimited}, Limit) < Modulus

(* The sums of the host handler lie between what the containers of the     *)
(* query used at the least and at the most during the request, though they *)
(* are read one after the other while some of them stop.  The committed    *)
(* memory is a sum of limits only when every container has one.            *)
HostSums ==
    Answered /\ kind \in Host =>
        /\ SumOver(Throughout \ failed, Least) <= ClientValue.memoryUsage
        /\ ClientValue.memoryUsage <= SumOver(Sometime, Most)
        /\ ClientValue.swapUsage <= SumOver(Sometime, MostWithSwap)
        /\ (\A c \in Sometime : Limit[c] # Unlimited) =>
              /\ SumOver(Throughout \ failed, Limit) <= ClientValue.memoryCommitted
              /\ ClientValue.memoryCommitted <= SumOver(Sometime, Limit)

(* The swap reported for a container is never more than the memory and     *)
(* swap it had at some moment, though with cgroup v1 it is the difference  *)
(* of two files read one after the other, and it is exact when the         *)
(* container did not change meanwhile.                                     *)
SwapReported ==
    \A c \in DOMAIN answer :
        /\ \E u \in during[c] : answer[c].swap <= MemorySwap(u)
        /\ \A u \in Usage : during[c] = {u} => answer[c].swap = u.swap

(* A caller of AllContainersUsage, HostUsage, Usage or IOUsage can tell a  *)
(* failure: it gets no error and a value that is not the zero value only   *)
(* and always for an answer with data.  (The status of a response is not   *)
(* looked at, so an error does come back as a zero value.)                 *)
ClientTellsFailure ==
    phase = "done" /\ kind \in Host \cup {"all", "usage", "io"} =>
        (Answered <=> ~ClientError /\ (kind # "all" => kind \notin NilPointer /\ ClientValue # Zero))
=============================================================================
