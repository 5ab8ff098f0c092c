-------------------------- MODULE CPUMonitorProofs --------------------------
(***************************************************************************)
(* For any containers, any number of goroutines and any bounds: the CPU    *)
(* monitor is a subscriber as ContainerStream describes them, its cancel   *)
(* functions are those of the containers it believes to run, and it keeps  *)
(* no data that no goroutine will delete.                                  *)
(***************************************************************************)
EXTENDS CPUMonitor, ContainerStreamProofs

(* A step of the composition is a step of the stream or leaves it alone. *)
LEMMA StepIsStreamStep ==
    ASSUME [MonitorNext]_allVars
    PROVE  [Next]_vars
<1>1. CASE Environment
  BY <1>1 DEF Environment, ContainerStarts, Advance, Next, Docker
<1>2. CASE MonitorRegisters
  BY <1>2 DEF MonitorRegisters, Next
<1>3. ASSUME NEW g \in Conn, MonitorReceivesLive(g)
      PROVE  Next
  BY <1>3 DEF MonitorReceivesLive, Next
<1>4. ASSUME NEW c \in Container, MonitorReceivesListed(c)
      PROVE  Next
  BY <1>4 DEF MonitorReceivesListed, Next
<1>5. ASSUME NEW w \in Worker, WorkerStep(w)
      PROVE  UNCHANGED vars
  BY <1>5 DEF WorkerStep, ContextDone, GetStats, GetStatsFails, ReadSystemUsage,
              ReadSystemUsageFails, Commit, CleanMonitoringData
<1>6. CASE UNCHANGED allVars
  BY <1>6 DEF allVars
<1>7. QED
  BY <1>1, <1>2, <1>3, <1>4, <1>5, <1>6 DEF MonitorNext

(* The CPU monitor is a subscriber of the stream: all that is proved of    *)
(* ContainerStream holds of its registration.                              *)
THEOREM MonitorIsSubscriber == MonitorSpec => Spec
<1>1. MonitorInit => Init
  BY DEF MonitorInit
<1>2. [MonitorNext]_allVars => [Next]_vars
  BY StepIsStreamStep
<1>3. QED
  BY <1>1, <1>2, PTL DEF MonitorSpec, Spec

-----------------------------------------------------------------------------

(* What a start event does, whichever goroutine it spawns. *)
LEMMA StartTyped ==
    ASSUME MonitorTypeOK, NEW c \in Container, StartMonitoring(c)
    PROVE  MonitorTypeOK'
BY DEF StartMonitoring, MonitorTypeOK, mapVars, worldVars

LEMMA StopTyped ==
    ASSUME MonitorTypeOK, NEW c \in Container, StopMonitoring(c)
    PROVE  MonitorTypeOK'
<1>1. cancelled' \in SUBSET Worker /\ cancels' \in [Container -> Worker \cup {NoWorker}]
  BY DEF StopMonitoring, MonitorTypeOK
<1>2. QED
  BY <1>1 DEF StopMonitoring, MonitorTypeOK, mapVars, worldVars

(* The variables of the monitor always have their types. *)
THEOREM MonitorTypeCorrect == MonitorSpec => []MonitorTypeOK
<1>1. MonitorInit => MonitorTypeOK
  <2> SUFFICES ASSUME MonitorInit
               PROVE  MonitorTypeOK
    OBVIOUS
  <2>1. used \in [Container -> Nat]
    BY DEF MonitorInit
  <2>2. now \in 1..MaxTime
    BY CPUAssumption DEF MonitorInit
  <2>3. /\ cancels \in [Container -> Worker \cup {NoWorker}]
        /\ pc \in [Worker -> {"idle", "select", "read", "commit", "clean"}]
        /\ job \in [Worker -> Container]
        /\ cancelled \in SUBSET Worker
        /\ gaveUp \in SUBSET Container
        /\ skewed \in BOOLEAN
    BY DEF MonitorInit
  <2>4. /\ stats \in [Worker -> Nat]
        /\ system \in [Worker -> Nat]
        /\ currentSystemUsage \in [Container -> Nat]
        /\ previousSystemUsage \in [Container -> Nat]
        /\ samples \in [Container -> 0..2]
    BY DEF MonitorInit
  <2>5. /\ currentContainerStats \in [Container -> Stats]
        /\ previousContainerStats \in [Container -> Stats]
    BY DEF MonitorInit, Stats
  <2>6. QED
    BY <2>1, <2>2, <2>3, <2>4, <2>5 DEF MonitorTypeOK
<1>2. ASSUME MonitorTypeOK, TypeOK, [MonitorNext]_allVars
      PROVE  MonitorTypeOK'
  <2> USE <1>2
  <2>1. CASE Environment
    <3>1. ASSUME NEW c \in Container, ContainerStarts(c)
          PROVE  MonitorTypeOK'
      BY <3>1 DEF ContainerStarts, MonitorTypeOK, workerVars, mapVars
    <3>2. ASSUME NEW S \in SUBSET running, Advance(S)
          PROVE  MonitorTypeOK'
      <4>1. now' \in 1..MaxTime
        BY <3>2, CPUAssumption DEF Advance, MonitorTypeOK
      <4>2. used' \in [Container -> Nat]
        BY <3>2 DEF Advance, MonitorTypeOK
      <4>3. skewed' \in BOOLEAN
        BY <3>2 DEF Advance
      <4>4. QED
        BY <3>2, <4>1, <4>2, <4>3 DEF Advance, MonitorTypeOK, workerVars, mapVars
    <3>3. CASE UNCHANGED monitorVars
      BY <3>3 DEF MonitorTypeOK, monitorVars, workerVars, mapVars, worldVars
    <3>4. QED
      BY <2>1, <3>1, <3>2, <3>3 DEF Environment
  <2>2. CASE UNCHANGED monitorVars
    BY <2>2 DEF MonitorTypeOK, monitorVars, workerVars, mapVars, worldVars
  <2>3. ASSUME NEW g \in Conn, MonitorReceivesLive(g)
        PROVE  MonitorTypeOK'
    <3>1. Head(live[g]).id \in Container
      BY <2>3, TailAbout DEF MonitorReceivesLive, ReceiveLive, TypeOK, Event
    <3>2. QED
      BY <2>2, <2>3, <3>1, StartTyped, StopTyped DEF MonitorReceivesLive, HandleEvent
  <2>4. ASSUME NEW c \in Container, MonitorReceivesListed(c)
        PROVE  MonitorTypeOK'
    BY <2>4, StartTyped DEF MonitorReceivesListed
  <2>5. ASSUME NEW w \in Worker, WorkerStep(w)
        PROVE  MonitorTypeOK'
    <3> USE DEF MonitorTypeOK, mapVars, worldVars, Stats
    <3>1. CASE ContextDone(w)
      BY <3>1 DEF ContextDone
    <3>2. CASE GetStats(w)
      BY <3>2 DEF GetStats
    <3>3. CASE GetStatsFails(w)
      BY <3>3 DEF GetStatsFails
    <3>4. CASE ReadSystemUsage(w)
      BY <3>4, CPUAssumption DEF ReadSystemUsage
    <3>5. CASE ReadSystemUsageFails(w)
      BY <3>5 DEF ReadSystemUsageFails
    <3>6. CASE Commit(w)
      BY <3>6 DEF Commit, Sample
    <3>7. CASE CleanMonitoringData(w)
      BY <3>7 DEF CleanMonitoringData
    <3>8. QED
      BY <2>5, <3>1, <3>2, <3>3, <3>4, <3>5, <3>6, <3>7 DEF WorkerStep
  <2>6. QED
    BY <2>1, <2>2, <2>3, <2>4, <2>5 DEF MonitorNext, MonitorRegisters, allVars
<1>3. QED
  BY <1>1, <1>2, MonitorIsSubscriber, TypeCorrect, PTL DEF MonitorSpec

-----------------------------------------------------------------------------

(* The maps are written by two actions only. *)
LEMMA OwnerKept ==
    ASSUME MonitorTypeOK, TypeOK, DataHasOwner, [MonitorNext]_allVars
    PROVE  DataHasOwner'
<1> USE DEF DataHasOwner, Monitors, Alive
<1> DEFINE Maps == <<currentContainerStats, previousContainerStats>>
<1>1. ASSUME UNCHANGED Maps,
             \A w \in Worker : pc[w] # "idle" => pc'[w] # "idle" /\ job'[w] = job[w]
      PROVE  DataHasOwner'
  BY <1>1
<1>2. ASSUME NEW c \in Container, StartMonitoring(c) \/ StopMonitoring(c)
      PROVE  DataHasOwner'
  BY <1>1, <1>2 DEF StartMonitoring, StopMonitoring, MonitorTypeOK, mapVars
<1>3. CASE UNCHANGED <<workerVars, mapVars>>
  BY <1>1, <1>3 DEF workerVars, mapVars
<1>4. CASE Environment
  BY <1>3, <1>4 DEF Environment, ContainerStarts, Advance, monitorVars
<1>5. ASSUME NEW g \in Conn, MonitorReceivesLive(g)
      PROVE  DataHasOwner'
  <2>1. Head(live[g]).id \in Container
    BY <1>5, TailAbout DEF MonitorReceivesLive, ReceiveLive, TypeOK, Event
  <2>2. QED
    BY <1>2, <1>3, <1>5, <2>1 DEF MonitorReceivesLive, HandleEvent, monitorVars
<1>6. ASSUME NEW c \in Container, MonitorReceivesListed(c)
      PROVE  DataHasOwner'
  BY <1>2, <1>6 DEF MonitorReceivesListed
<1>7. ASSUME NEW w \in Worker, WorkerStep(w)
      PROVE  DataHasOwner'
  <2>1. CASE \/ ContextDone(w) \/ GetStats(w) \/ GetStatsFails(w)
             \/ ReadSystemUsage(w) \/ ReadSystemUsageFails(w)
    BY <1>1, <2>1 DEF ContextDone, GetStats, GetStatsFails, ReadSystemUsage,
                      ReadSystemUsageFails, MonitorTypeOK, mapVars
  <2>2. CASE Commit(w)
    BY <2>2 DEF Commit, MonitorTypeOK
  <2>3. CASE CleanMonitoringData(w)
    BY <2>3 DEF CleanMonitoringData, MonitorTypeOK
  <2>4. QED
    BY <1>7, <2>1, <2>2, <2>3 DEF WorkerStep
<1>8. QED
  BY <1>3, <1>4, <1>5, <1>6, <1>7 DEF MonitorNext, MonitorRegisters, allVars, monitorVars

(* However goroutines of a container overlap, whichever of them a stop     *)
(* cancels and however late each one deletes, no entry of the usage maps   *)
(* is left without a goroutine that will delete it.                        *)
THEOREM NoOrphanedData == MonitorSpec => []DataHasOwner
<1>1. MonitorInit => DataHasOwner
  BY DEF MonitorInit, DataHasOwner
<1>2. MonitorTypeOK /\ TypeOK /\ DataHasOwner /\ [MonitorNext]_allVars => DataHasOwner'
  BY OwnerKept
<1>3. QED
  BY <1>1, <1>2, MonitorTypeCorrect, MonitorIsSubscriber, TypeCorrect, PTL DEF MonitorSpec

-----------------------------------------------------------------------------

(* A start of c files the new goroutine under c. *)
LEMMA StartFiled ==
    ASSUME MonitorTypeOK, CancelsMatchView, NEW c \in Container, StartMonitoring(c),
           view' = view \cup {c}
    PROVE  CancelsMatchView'
BY WorkerAssumption DEF StartMonitoring, MonitorTypeOK, CancelsMatchView

(* A stop of c cancels c's goroutine, which is filed under c alone. *)
LEMMA StopFiled ==
    ASSUME MonitorTypeOK, CancelsMatchView, NEW c \in Container, StopMonitoring(c),
           view' = view \ {c}
    PROVE  CancelsMatchView'
BY WorkerAssumption DEF StopMonitoring, MonitorTypeOK, CancelsMatchView

LEMMA FilesKept ==
    ASSUME MonitorTypeOK, TypeOK, CancelsMatchView, [MonitorNext]_allVars
    PROVE  CancelsMatchView'
<1>1. CASE UNCHANGED <<cancels, job, cancelled, view>>
  BY <1>1 DEF CancelsMatchView
<1>2. CASE Environment
  <2>1. UNCHANGED <<cancels, job, cancelled>>
    BY <1>2 DEF Environment, ContainerStarts, Advance, monitorVars, workerVars
  <2>2. UNCHANGED view
    BY <1>2 DEF Environment, ContainerStarts, Advance, DockerStart, DockerStop, DockerDie,
                Open, Close, vars, streamVars
  <2>3. QED
    BY <1>1, <2>1, <2>2
<1>3. CASE MonitorRegisters
  BY <1>1, <1>3 DEF MonitorRegisters, Subscribe, Snapshot, SnapshotFails, monitorVars,
                    workerVars
<1>4. ASSUME NEW g \in Conn, MonitorReceivesLive(g)
      PROVE  CancelsMatchView'
  <2>1. Head(live[g]).id \in Container
    BY <1>4, TailAbout DEF MonitorReceivesLive, ReceiveLive, TypeOK, Event
  <2>2. CASE ~Subscribed
    BY <1>1, <1>4, <2>2 DEF MonitorReceivesLive, ReceiveLive, monitorVars, workerVars
  <2>3. CASE Subscribed
    BY <1>4, <2>1, <2>3, StartFiled, StopFiled
       DEF MonitorReceivesLive, ReceiveLive, HandleEvent, Apply
  <2>4. QED
    BY <2>2, <2>3
<1>5. ASSUME NEW c \in Container, MonitorReceivesListed(c)
      PROVE  CancelsMatchView'
  BY <1>5, StartFiled DEF MonitorReceivesListed, ReceiveListed
<1>6. ASSUME NEW w \in Worker, WorkerStep(w)
      PROVE  CancelsMatchView'
  BY <1>1, <1>6 DEF WorkerStep, ContextDone, GetStats, GetStatsFails, ReadSystemUsage,
                    ReadSystemUsageFails, Commit, CleanMonitoringData, vars, streamVars
<1>7. QED
  BY <1>1, <1>2, <1>3, <1>4, <1>5, <1>6
     DEF MonitorNext, allVars, vars, streamVars, monitorVars, workerVars

(* Start holds a live cancel function for exactly the containers it        *)
(* believes to run, each filed under the container its goroutine monitors, *)
(* although a second start overwrites the first one's.                     *)
THEOREM CancelsCorrect == MonitorSpec => []CancelsMatchView
<1>1. MonitorInit => CancelsMatchView
  BY DEF MonitorInit, Init, CancelsMatchView
<1>2. MonitorTypeOK /\ TypeOK /\ CancelsMatchView /\ [MonitorNext]_allVars => CancelsMatchView'
  BY FilesKept
<1>3. QED
  BY <1>1, <1>2, MonitorTypeCorrect, MonitorIsSubscriber, TypeCorrect, PTL DEF MonitorSpec

-----------------------------------------------------------------------------
(* UsageWithinCapacity compares two samples that goroutines took and filed *)
(* in any order.  What makes it inductive: of any two readings of a        *)
(* container, taken in the life of any of its cgroups and filed or still   *)
(* on the way, the later one exceeds the earlier one by at most the time   *)
(* in between.                                                             *)

(* What GetStats would read now. *)
Busy(c) == IF c \in running THEN used[c] ELSE 0

(* u, read at time t, is in the hands of a goroutine of c or in the maps. *)
Reading(c, u, t) ==
    \/ \E w \in Worker :
          /\ job[w] = c
          /\ u = stats[w]
          /\ (pc[w] = "read" /\ t = now) \/ (pc[w] = "commit" /\ t = system[w])
    \/ samples[c] >= 1 /\ u = Sample(currentContainerStats, c) /\ t = currentSystemUsage[c]
    \/ samples[c] >= 2 /\ u = Sample(previousContainerStats, c) /\ t = previousSystemUsage[c]

(* Readings of one instant may differ (the container may have restarted),  *)
(* but then the time used so far is the smallest of them.                  *)
ReadingsBelowBusy ==
    \A c \in Container, u, t \in Nat :
        Reading(c, u, t) => t <= now /\ Busy(c) - u <= now - t

ReadingsWithinTime ==
    \A c \in Container, u1, t1, u2, t2 \in Nat :
        Reading(c, u1, t1) /\ Reading(c, u2, t2) /\ t1 < t2 => u2 - u1 <= t2 - t1

CapacityInv == ~skewed => ReadingsBelowBusy /\ ReadingsWithinTime

(* A share of the time that passed is a share of the CPUs. *)
LEMMA ShareOfCapacity ==
    ASSUME NEW d \in Nat, NEW s \in Nat, NEW n \in Nat, 0 < s, d <= s
    PROVE  (d * 100 * n) \div s <= 100 * n
<1> DEFINE a == 100 * n
<1>1. a \in Nat /\ d * 100 * n = a * d
  OBVIOUS
<1> HIDE DEF a
<1>2. a * d <= a * s
  BY <1>1
<1>3. (a * d) \div s <= a
  BY <1>1, <1>2
<1> QED
  BY <1>1, <1>3 DEF a

(* A step that lets no time pass: the only new reading is what the         *)
(* container has used by now, which may have dropped.                      *)
LEMMA ReadingsAtRest ==
    ASSUME MonitorTypeOK, MonitorTypeOK', CapacityInv, ~skewed' => ~skewed, now' = now,
           \A c \in Container : Busy(c)' <= Busy(c),
           \A c \in Container, u, t \in Nat :
               Reading(c, u, t)' => Reading(c, u, t) \/ (u = Busy(c) /\ t = now)
    PROVE  CapacityInv'
<1> SUFFICES ASSUME ~skewed' PROVE ReadingsBelowBusy' /\ ReadingsWithinTime'
  BY DEF CapacityInv
<1>1. ReadingsBelowBusy /\ ReadingsWithinTime
  BY DEF CapacityInv
<1>2. now \in Nat /\ now' \in Nat /\ \A c \in Container : Busy(c) \in Nat /\ Busy(c)' \in Nat
  BY CPUAssumption DEF MonitorTypeOK, Busy
<1>3. ReadingsBelowBusy'
  BY <1>1, <1>2 DEF ReadingsBelowBusy
<1>4. ReadingsWithinTime'
  BY <1>1, <1>2 DEF ReadingsBelowBusy, ReadingsWithinTime
<1> QED
  BY <1>3, <1>4

(* Time passes while no goroutine is between its two reads. *)
LEMMA ReadingsOverTime ==
    ASSUME MonitorTypeOK, MonitorTypeOK', CapacityInv, ~skewed' => ~skewed, now' = now + 1,
           \A c \in Container : Busy(c)' <= Busy(c) + 1,
           ~skewed' => \A c \in Container, u, t \in Nat : Reading(c, u, t)' => Reading(c, u, t)
    PROVE  CapacityInv'
<1> SUFFICES ASSUME ~skewed' PROVE ReadingsBelowBusy' /\ ReadingsWithinTime'
  BY DEF CapacityInv
<1>1. ReadingsBelowBusy /\ ReadingsWithinTime
  BY DEF CapacityInv
<1>2. now \in Nat /\ now' \in Nat /\ \A c \in Container : Busy(c) \in Nat /\ Busy(c)' \in Nat
  BY CPUAssumption DEF MonitorTypeOK, Busy
<1>3. ReadingsBelowBusy'
  BY <1>1, <1>2 DEF ReadingsBelowBusy
<1>4. ReadingsWithinTime'
  BY <1>1 DEF ReadingsWithinTime
<1> QED
  BY <1>3, <1>4

LEMMA CapacityKept ==
    ASSUME TypeOK, MonitorTypeOK, MonitorTypeOK', CapacityInv, [MonitorNext]_allVars
    PROVE  CapacityInv'
<1>0. \A c \in Container : Busy(c) \in Nat
  BY DEF MonitorTypeOK, Busy
<1>1. ASSUME UNCHANGED <<workerVars, mapVars, now, skewed>>,
             \A c \in Container : Busy(c)' <= Busy(c)
      PROVE  CapacityInv'
  <2>1. \A c \in Container, u, t \in Nat : Reading(c, u, t)' => Reading(c, u, t)
    BY <1>1 DEF Reading, Sample, workerVars, mapVars
  <2> QED
    BY <1>1, <2>1, ReadingsAtRest
<1>2. CASE Environment
  <2>1. ASSUME NEW S \in SUBSET running, Advance(S) PROVE CapacityInv'
    <3>1. now' = now + 1 /\ UNCHANGED <<vars, workerVars, mapVars>> /\ (~skewed' => ~skewed)
          /\ (~skewed' => \A w \in Worker : pc[w] # "read")
      BY <2>1 DEF Advance
    <3>2. \A c \in Container : Busy(c)' <= Busy(c) + 1
      BY <2>1 DEF Advance, Busy, MonitorTypeOK, vars, dockerVars
    <3>3. ~skewed' => \A c \in Container, u, t \in Nat : Reading(c, u, t)' => Reading(c, u, t)
      BY <3>1 DEF Reading, Sample, workerVars, mapVars
    <3> QED
      BY <3>1, <3>2, <3>3, ReadingsOverTime
  <2>2. ASSUME NEW c \in Container, ContainerStarts(c) PROVE CapacityInv'
    <3>1. \A d \in Container : Busy(d)' <= Busy(d)
      BY <1>0, <2>2 DEF ContainerStarts, DockerStart, Busy, MonitorTypeOK
    <3> QED
      BY <1>1, <2>2, <3>1 DEF ContainerStarts
  <2>3. ASSUME UNCHANGED monitorVars, running' \subseteq running PROVE CapacityInv'
    <3>1. \A d \in Container : Busy(d)' <= Busy(d)
      BY <1>0, <2>3 DEF Busy, MonitorTypeOK, monitorVars, worldVars
    <3> QED
      BY <1>1, <2>3, <3>1 DEF monitorVars, worldVars
  <2> QED
    BY <1>2, <2>1, <2>2, <2>3 DEF Environment, DockerStop, DockerDie, Open, Close
<1>3. ASSUME NEW c \in Container, StartMonitoring(c) \/ StopMonitoring(c), UNCHANGED running
      PROVE  CapacityInv'
  <2>1. \A d \in Container : Busy(d)' <= Busy(d)
    BY <1>0, <1>3 DEF StartMonitoring, StopMonitoring, worldVars, Busy
  <2>2. \A d \in Container, u, t \in Nat : Reading(d, u, t)' => Reading(d, u, t)
    BY <1>3 DEF StartMonitoring, StopMonitoring, MonitorTypeOK, worldVars, mapVars, Reading, Sample
  <2>3. now' = now /\ skewed' = skewed
    BY <1>3 DEF StartMonitoring, StopMonitoring, worldVars
  <2> QED
    BY <2>1, <2>2, <2>3, ReadingsAtRest
<1>4. CASE UNCHANGED <<monitorVars, running>>
  <2>1. \A d \in Container : Busy(d)' <= Busy(d)
    BY <1>0, <1>4 DEF Busy, monitorVars, worldVars
  <2> QED
    BY <1>1, <1>4, <2>1 DEF monitorVars, worldVars
<1>5. ASSUME NEW g \in Conn, MonitorReceivesLive(g) PROVE CapacityInv'
  <2>1. Head(live[g]).id \in Container /\ UNCHANGED running
    BY <1>5, TailAbout DEF MonitorReceivesLive, ReceiveLive, TypeOK, Event, dockerVars
  <2> QED
    BY <1>3, <1>4, <1>5, <2>1 DEF MonitorReceivesLive, HandleEvent
<1>6. ASSUME NEW c \in Container, MonitorReceivesListed(c) PROVE CapacityInv'
  BY <1>3, <1>6 DEF MonitorReceivesListed, ReceiveListed, dockerVars
<1>7. CASE MonitorRegisters
  BY <1>4, <1>7 DEF MonitorRegisters, Subscribe, Snapshot, SnapshotFails, dockerVars
<1>8. ASSUME NEW w \in Worker, WorkerStep(w) PROVE CapacityInv'
  <2>1. UNCHANGED <<vars, worldVars, job>>
    BY <1>8 DEF WorkerStep, ContextDone, GetStats, GetStatsFails, ReadSystemUsage,
                ReadSystemUsageFails, Commit, CleanMonitoringData
  <2>2. \A c \in Container : Busy(c)' <= Busy(c)
    BY <1>0, <2>1 DEF Busy, vars, dockerVars, worldVars
  <2>3. ASSUME NEW c \in Container, NEW u \in Nat, NEW t \in Nat, Reading(c, u, t)'
        PROVE  Reading(c, u, t) \/ (u = Busy(c) /\ t = now)
    <3> USE <2>1, <2>3 DEF Reading, Sample, MonitorTypeOK, worldVars
    <3>1. CASE ContextDone(w) \/ GetStatsFails(w)
      BY <3>1 DEF ContextDone, GetStatsFails, mapVars
    <3>2. CASE GetStats(w)
      BY <3>2 DEF GetStats, mapVars, Busy
    <3>3. CASE ReadSystemUsage(w)
      BY <3>3 DEF ReadSystemUsage, mapVars
    <3>4. CASE ReadSystemUsageFails(w)
      BY <3>4 DEF ReadSystemUsageFails, mapVars
    <3>5. CASE Commit(w)
      BY <3>5, NoStatsAssumption DEF Commit, Stats
    <3>6. CASE CleanMonitoringData(w)
      BY <3>6 DEF CleanMonitoringData
    <3> QED
      BY <1>8, <3>1, <3>2, <3>3, <3>4, <3>5, <3>6 DEF WorkerStep
  <2> QED
    BY <2>1, <2>2, <2>3, ReadingsAtRest DEF worldVars
<1> QED
  BY <1>2, <1>4, <1>5, <1>6, <1>7, <1>8 DEF MonitorNext, allVars, vars, dockerVars

(* For any number of containers and of overlapping goroutines, and however *)
(* containers restart: two samples, each read in one instant, never give a *)
(* usage beyond what the host has, though they may come from different     *)
(* goroutines and from different cgroups.                                  *)
THEOREM WithinCapacity == MonitorSpec => []UsageWithinCapacity
<1>1. MonitorInit => CapacityInv
  BY DEF MonitorInit, CapacityInv, ReadingsBelowBusy, ReadingsWithinTime, Reading
<1>2. TypeOK /\ MonitorTypeOK /\ MonitorTypeOK' /\ CapacityInv /\ [MonitorNext]_allVars
        => CapacityInv'
  BY CapacityKept
<1>3. MonitorTypeOK /\ CapacityInv => UsageWithinCapacity
  <2> SUFFICES ASSUME MonitorTypeOK, CapacityInv,
                      NEW c \in Container, samples[c] >= 2, ~skewed
               PROVE  GetContainerUsage(c) <= 100 * NumCPU
    BY DEF UsageWithinCapacity
  <2> DEFINE u1 == Sample(previousContainerStats, c)
             u2 == Sample(currentContainerStats, c)
             t1 == previousSystemUsage[c]
             t2 == currentSystemUsage[c]
  <2>1. u1 \in Nat /\ u2 \in Nat /\ t1 \in Nat /\ t2 \in Nat
    BY DEF MonitorTypeOK, Sample, Stats
  <2>2. Reading(c, u1, t1) /\ Reading(c, u2, t2)
    BY DEF Reading, MonitorTypeOK
  <2>3. GetContainerUsage(c) =
          IF previousContainerStats[c] # NoStats /\ u2 - u1 > 0 /\ t2 - t1 > 0
          THEN ((u2 - u1) * 100 * NumCPU) \div (t2 - t1) ELSE 0
    BY DEF GetContainerUsage
  <2> HIDE DEF u1, u2, t1, t2
  <2>4. t1 < t2 => u2 - u1 <= t2 - t1
    BY <2>1, <2>2 DEF CapacityInv, ReadingsWithinTime
  <2>5. CASE u2 - u1 > 0 /\ t2 - t1 > 0
    <3>1. ((u2 - u1) * 100 * NumCPU) \div (t2 - t1) <= 100 * NumCPU
      BY <2>1, <2>4, <2>5, ShareOfCapacity, CPUAssumption
    <3> QED
      BY <2>3, <3>1, CPUAssumption
  <2>6. CASE ~(u2 - u1 > 0 /\ t2 - t1 > 0)
    BY <2>3, <2>6, CPUAssumption
  <2> QED
    BY <2>5, <2>6
<1> QED
  BY <1>1, <1>2, <1>3, MonitorTypeCorrect, MonitorIsSubscriber, TypeCorrect, PTL
     DEF MonitorSpec
=============================================================================
