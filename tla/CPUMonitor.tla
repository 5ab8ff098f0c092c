----------------------------- MODULE CPUMonitor -----------------------------
(***************************************************************************)
(* cpu.CPUUsageMonitor for containers, composed with the container stream  *)
(* it subscribes to.  Start receives the events of the stream and keeps    *)
(* one cancel function per container; every start event spawns a goroutine *)
(* monitorContainerCPU, even when one already monitors that container, so  *)
(* goroutines of the same container may overlap: they share the maps, and  *)
(* each one deletes the entries of its container when it ends.             *)
(***************************************************************************)
EXTENDS ContainerStream, Integers

CONSTANTS
    Worker,     \* bound: monitorContainerCPU goroutines alive at a time
    NoWorker,
    NoStats,    \* a key absent from a map of samples
    NumCPU,
    CgroupV2,   \* config.IsUsingCgroupV2
    MaxTime     \* bound: the clock

ASSUME WorkerAssumption == NoWorker \notin Worker
ASSUME NoStatsAssumption == NoStats \notin Nat
ASSUME CgroupAssumption == CgroupV2 \in BOOLEAN
ASSUME CPUAssumption == NumCPU \in Nat \ {0} /\ MaxTime \in Nat \ {0}

VARIABLES
    cancels,    \* Start's local map; NoWorker: no entry
    pc,         \* pc[w]: where the goroutine w is, "idle" when there is none
    job,        \* job[w]: the container w monitors
    cancelled,  \* workers whose context is cancelled
    stats,      \* stats[w]: what w read from the cgroup (0 once out of scope)
    system,     \* system[w]: what w read from /proc/stat (0 once out of scope)
    currentContainerStats, previousContainerStats,
    currentSystemUsage, previousSystemUsage,
    now,        \* CPU time of the host, all CPUs and idle included
    used,       \* used[c]: CPU time of the current cgroup of c
    samples,    \* history: samples[c] committed since c's data was created
    skewed,     \* history: time passed between the two reads of a sample
    gaveUp      \* history: running containers whose cgroup could not be read

mapVars == <<currentContainerStats, previousContainerStats, currentSystemUsage,
             previousSystemUsage, samples>>
workerVars == <<pc, job, cancelled, stats, system>>
worldVars == <<now, used, skewed>>
monitorVars == <<cancels, workerVars, mapVars, worldVars, gaveUp>>
allVars == <<vars, monitorVars>>

MonitorInit ==
    /\ Init
    /\ cancels = [c \in Container |-> NoWorker]
    /\ pc = [w \in Worker |-> "idle"]
    /\ job \in [Worker -> Container]
    /\ cancelled = {}
    /\ stats = [w \in Worker |-> 0]
    /\ system = [w \in Worker |-> 0]
    /\ currentContainerStats = [c \in Container |-> NoStats]
    /\ previousContainerStats = [c \in Container |-> NoStats]
    /\ currentSystemUsage = [c \in Container |-> 0]
    /\ previousSystemUsage = [c \in Container |-> 0]
    /\ now = 1
    /\ used \in [Container -> {0, 1}]
    /\ samples = [c \in Container |-> 0]
    /\ skewed = FALSE
    /\ gaveUp = {}

-----------------------------------------------------------------------------
(* The environment: docker, and CPU time passing.                          *)

(* Time passes; of the running containers, those in S use the CPU. *)
Advance(S) ==
    /\ now < MaxTime
    /\ now' = now + 1
    /\ used' = [c \in Container |-> IF c \in S THEN used[c] + 1 ELSE used[c]]
    /\ skewed' = (skewed \/ \E w \in Worker : pc[w] = "read")
    /\ UNCHANGED <<vars, cancels, workerVars, mapVars, gaveUp>>

(* A started container has a new cgroup. *)
ContainerStarts(c) ==
    /\ DockerStart(c)
    /\ used' = [used EXCEPT ![c] = 0]
    /\ UNCHANGED <<cancels, workerVars, mapVars, now, skewed, gaveUp>>

Environment ==
    \/ \E c \in Container : ContainerStarts(c)
    \/ /\ \/ \E c \in Container : DockerStop(c) \/ DockerDie(c)
          \/ Open
          \/ \E n \in 0..MaxPending : Close(n)
       /\ UNCHANGED monitorVars
    \/ \E S \in SUBSET running : Advance(S)

-----------------------------------------------------------------------------
(* Start: the receiving loop.                                              *)

(* Mutant: no goroutine for a container that has a cancel function. *)
StartMonitoringOnce(c) ==
    IF cancels[c] # NoWorker THEN UNCHANGED monitorVars
    ELSE \E w \in Worker :
        /\ pc[w] = "idle"
        /\ \A d \in Container : cancels[d] # w
        /\ cancels' = [cancels EXCEPT ![c] = w]
        /\ pc' = [pc EXCEPT ![w] = "select"]
        /\ job' = [job EXCEPT ![w] = c]
        /\ cancelled' = cancelled \ {w}
        /\ gaveUp' = gaveUp \ {c}
        /\ UNCHANGED <<stats, system, mapVars, worldVars>>

(* A start event: a goroutine that no cancel function refers to. *)
StartMonitoring(c) ==
    \E w \in Worker :
        /\ pc[w] = "idle"
        /\ \A d \in Container : cancels[d] # w
        /\ cancels' = [cancels EXCEPT ![c] = w]
        /\ pc' = [pc EXCEPT ![w] = "select"]
        /\ job' = [job EXCEPT ![w] = c]
        /\ cancelled' = cancelled \ {w}
        /\ gaveUp' = gaveUp \ {c}
        /\ UNCHANGED <<stats, system, mapVars, worldVars>>

(* Mutant: the cancel function is called without looking whether it is there. *)
StopMonitoringUnchecked(c) ==
    /\ cancelled' = cancelled \cup {cancels[c]}
    /\ cancels' = [cancels EXCEPT ![c] = NoWorker]
    /\ UNCHANGED <<pc, job, stats, system, mapVars, worldVars, gaveUp>>

(* Mutant: the cancel function is not deleted from the map. *)
StopMonitoringKeepsCancel(c) ==
    /\ cancelled' = cancelled \cup ({cancels[c]} \ {NoWorker})
    /\ UNCHANGED <<cancels, pc, job, stats, system, mapVars, worldVars, gaveUp>>

(* A stop event: cancel the latest goroutine of c, if there is one. *)
StopMonitoring(c) ==
    /\ cancelled' = cancelled \cup ({cancels[c]} \ {NoWorker})
    /\ cancels' = [cancels EXCEPT ![c] = NoWorker]
    /\ UNCHANGED <<pc, job, stats, system, mapVars, worldVars, gaveUp>>

HandleEvent(e) ==
    IF e.action = "start" THEN StartMonitoring(e.id) ELSE StopMonitoring(e.id)

MonitorReceivesLive(g) ==
    /\ ReceiveLive(g)
    /\ IF Subscribed THEN HandleEvent(Head(live[g])) ELSE UNCHANGED monitorVars

MonitorReceivesListed(c) ==
    /\ ReceiveListed(c)
    /\ StartMonitoring(c)

MonitorRegisters == (Subscribe \/ Snapshot \/ SnapshotFails) /\ UNCHANGED monitorVars

-----------------------------------------------------------------------------
(* monitorContainerCPU: the steps of the goroutine w.                      *)

(* The case ctx.Done() of the select. *)
ContextDone(w) ==
    /\ pc[w] = "select"
    /\ w \in cancelled
    /\ pc' = [pc EXCEPT ![w] = "clean"]
    /\ UNCHANGED <<vars, cancels, job, cancelled, stats, system, mapVars, worldVars, gaveUp>>

(* The case tick.C (also when the context is done: select picks at random) *)
(* and a successful GetStats.  With cgroup v2 the files of a cgroup that   *)
(* is gone are read as zeros, without an error.                            *)
GetStats(w) ==
    /\ pc[w] = "select"
    /\ job[w] \in running \/ CgroupV2
    /\ stats' = [stats EXCEPT ![w] = IF job[w] \in running THEN used[job[w]] ELSE 0]
    /\ pc' = [pc EXCEPT ![w] = "read"]
    /\ UNCHANGED <<vars, cancels, job, cancelled, system, mapVars, worldVars, gaveUp>>

(* Mutant: the goroutine ends without deleting its data. *)
GetStatsFailsUncleaned(w) ==
    /\ pc[w] = "select"
    /\ pc' = [pc EXCEPT ![w] = "idle"]
    /\ gaveUp' = gaveUp \cup ({job[w]} \cap running)
    /\ UNCHANGED <<vars, cancels, job, cancelled, stats, system, mapVars, worldVars>>

(* Mutant: the error is logged and the goroutine goes on. *)
GetStatsFailsIgnored(w) ==
    /\ pc[w] = "select"
    /\ pc' = [pc EXCEPT ![w] = "select"]
    /\ gaveUp' = gaveUp \cup ({job[w]} \cap running)
    /\ UNCHANGED <<vars, cancels, job, cancelled, stats, system, mapVars, worldVars>>

(* The case tick.C and a GetStats that fails: always without a v1 cgroup,  *)
(* and perhaps with one; every failure is a StatsReaderError, and ends w.  *)
GetStatsFails(w) ==
    /\ pc[w] = "select"
    /\ pc' = [pc EXCEPT ![w] = "clean"]
    /\ gaveUp' = gaveUp \cup ({job[w]} \cap running)
    /\ UNCHANGED <<vars, cancels, job, cancelled, stats, system, mapVars, worldVars>>

ReadSystemUsage(w) ==
    /\ pc[w] = "read"
    /\ system' = [system EXCEPT ![w] = now]
    /\ pc' = [pc EXCEPT ![w] = "commit"]
    /\ UNCHANGED <<vars, cancels, job, cancelled, stats, mapVars, worldVars, gaveUp>>

(* /proc/stat cannot be read: w goes on with the next tick. *)
ReadSystemUsageFails(w) ==
    /\ pc[w] = "read"
    /\ pc' = [pc EXCEPT ![w] = "select"]
    /\ stats' = [stats EXCEPT ![w] = 0]
    /\ UNCHANGED <<vars, cancels, job, cancelled, system, mapVars, worldVars, gaveUp>>

(* What a Go map of samples gives for c: the zero value without an entry. *)
Sample(m, c) == IF m[c] = NoStats THEN 0 ELSE m[c]

(* Mutant: the previous sample of the container is not replaced. *)
CommitKeepsPrevious(w) ==
    LET c == job[w] IN
    /\ pc[w] = "commit"
    /\ pc' = [pc EXCEPT ![w] = "select"]
    /\ previousContainerStats' =
          [previousContainerStats EXCEPT ![c] = Sample(previousContainerStats, c)]
    /\ currentContainerStats' = [currentContainerStats EXCEPT ![c] = stats[w]]
    /\ previousSystemUsage' = [previousSystemUsage EXCEPT ![c] = currentSystemUsage[c]]
    /\ currentSystemUsage' = [currentSystemUsage EXCEPT ![c] = system[w]]
    /\ samples' = [samples EXCEPT ![c] = IF @ < 2 THEN @ + 1 ELSE @]
    /\ stats' = [stats EXCEPT ![w] = 0]
    /\ system' = [system EXCEPT ![w] = 0]
    /\ UNCHANGED <<vars, cancels, job, cancelled, worldVars, gaveUp>>

Commit(w) ==
    LET c == job[w] IN
    /\ pc[w] = "commit"
    /\ pc' = [pc EXCEPT ![w] = "select"]
    /\ previousContainerStats' =
          [previousContainerStats EXCEPT ![c] = Sample(currentContainerStats, c)]
    /\ currentContainerStats' = [currentContainerStats EXCEPT ![c] = stats[w]]
    /\ previousSystemUsage' = [previousSystemUsage EXCEPT ![c] = currentSystemUsage[c]]
    /\ currentSystemUsage' = [currentSystemUsage EXCEPT ![c] = system[w]]
    /\ samples' = [samples EXCEPT ![c] = IF @ < 2 THEN @ + 1 ELSE @]
    /\ stats' = [stats EXCEPT ![w] = 0]
    /\ system' = [system EXCEPT ![w] = 0]
    /\ UNCHANGED <<vars, cancels, job, cancelled, worldVars, gaveUp>>

(* The system usages are not deleted. *)
CleanMonitoringData(w) ==
    LET c == job[w] IN
    /\ pc[w] = "clean"
    /\ pc' = [pc EXCEPT ![w] = "idle"]
    /\ currentContainerStats' = [currentContainerStats EXCEPT ![c] = NoStats]
    /\ previousContainerStats' = [previousContainerStats EXCEPT ![c] = NoStats]
    /\ samples' = [samples EXCEPT ![c] = 0]
    /\ UNCHANGED <<vars, cancels, job, cancelled, stats, system, currentSystemUsage,
                   previousSystemUsage, worldVars, gaveUp>>

WorkerStep(w) ==
    \/ ContextDone(w)
    \/ GetStats(w)
    \/ GetStatsFails(w)
    \/ ReadSystemUsage(w)
    \/ ReadSystemUsageFails(w)
    \/ Commit(w)
    \/ CleanMonitoringData(w)

MonitorNext ==
    \/ Environment
    \/ MonitorRegisters
    \/ \E g \in Conn : MonitorReceivesLive(g)
    \/ \E c \in Container : MonitorReceivesListed(c)
    \/ \E w \in Worker : WorkerStep(w)

MonitorSpec == MonitorInit /\ [][MonitorNext]_allVars

(* The goroutines run.  A select with two ready cases picks one at random: *)
(* a done context is not passed over for ever.                             *)
MonitorFairness ==
    /\ WF_allVars(MonitorRegisters /\ Subscribed)
    /\ \A g \in Conn : WF_allVars(MonitorReceivesLive(g))
    /\ \A c \in Container : WF_allVars(MonitorReceivesListed(c))
    /\ \A w \in Worker : WF_allVars(WorkerStep(w)) /\ SF_allVars(ContextDone(w))

MonitorFairSpec == MonitorSpec /\ MonitorFairness

-----------------------------------------------------------------------------

GetContainerUsage(c) ==
    LET deltaCPUUsage == Sample(currentContainerStats, c) - Sample(previousContainerStats, c)
        deltaSystemCPUUsage == currentSystemUsage[c] - previousSystemUsage[c]
    IN  IF /\ previousContainerStats[c] # NoStats
           /\ deltaCPUUsage > 0
           /\ deltaSystemCPUUsage > 0
        THEN (deltaCPUUsage * 100 * NumCPU) \div deltaSystemCPUUsage
        ELSE 0

-----------------------------------------------------------------------------

Stats == Nat \cup {NoStats}

(* The values the variables of the monitor take. *)
MonitorTypeOK ==
    /\ cancels \in [Container -> Worker \cup {NoWorker}]
    /\ pc \in [Worker -> {"idle", "select", "read", "commit", "clean"}]
    /\ job \in [Worker -> Container]
    /\ cancelled \in SUBSET Worker
    /\ stats \in [Worker -> Nat]
    /\ system \in [Worker -> Nat]
    /\ currentContainerStats \in [Container -> Stats]
    /\ previousContainerStats \in [Container -> Stats]
    /\ currentSystemUsage \in [Container -> Nat]
    /\ previousSystemUsage \in [Container -> Nat]
    /\ now \in 1..MaxTime
    /\ used \in [Container -> Nat]
    /\ samples \in [Container -> 0..2]
    /\ skewed \in BOOLEAN
    /\ gaveUp \in SUBSET Container

Alive(w) == pc[w] # "idle"
Monitors(w, c) == Alive(w) /\ job[w] = c

(* The usage of a container is kept only while a goroutine of that         *)
(* container is alive, which will delete it: overlapping goroutines and    *)
(* late deletions leak no data.                                            *)
DataHasOwner ==
    \A c \in Container :
        currentContainerStats[c] # NoStats \/ previousContainerStats[c] # NoStats
            => \E w \in Worker : Monitors(w, c)

(* Start can cancel a goroutine of every container it believes to run, and *)
(* of no other: a cancel function belongs to the container it is filed     *)
(* under, and is not shared.                                               *)
CancelsMatchView ==
    \A c \in Container :
        /\ c \in view <=> cancels[c] # NoWorker
        /\ cancels[c] # NoWorker => job[cancels[c]] = c /\ cancels[c] \notin cancelled

(* Once two samples are there, and each was read in one instant, the usage *)
(* is within what the host has, however the goroutines of the container    *)
(* interleave and wherever their containers restart.                       *)
UsageWithinCapacity ==
    \A c \in Container :
        samples[c] >= 2 /\ ~skewed => GetContainerUsage(c) <= 100 * NumCPU

(* With cgroup v1, a container that has stopped for good is forgotten,     *)
(* though its stop event may be lost, or overtaken by a listed start, or   *)
(* its goroutine be without a cancel function.                             *)
StoppedContainerForgotten ==
    \A c \in Container :
        <>[](c \notin running) => <>[](currentContainerStats[c] = NoStats)

(* A container that keeps running is eventually monitored by a goroutine   *)
(* that nothing will cancel, unless the stream gave cause for doubt or its *)
(* cgroup could not be read.                                               *)
RunningContainerMonitored ==
    \A c \in Container :
        <>[](c \in running /\ c \notin doubtful \cup gaveUp /\ Subscribed)
            => <>[](\E w \in Worker : Monitors(w, c) /\ w \notin cancelled)

(* "Correctly handle error when CPU monitoring fails because cgroup has    *)
(* been deleted (container stopped)" (CHANGELOG.md), together with         *)
(* "Compatibility with cgroup v2": the goroutines of a container that has  *)
(* stopped for good end, also when no stop event tells them to.            *)
DeletedCgroupEndsMonitoring ==
    \A c \in Container :
        <>[](c \notin running) => <>[](\A w \in Worker : ~Monitors(w, c))
=============================================================================
