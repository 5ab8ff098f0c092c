# acadock-monitoring in TLA+

acadock-monitoring is an HTTP service that runs on a docker host and answers
with the CPU, memory, block I/O and network usage of the host and of every
container. This directory models the parts of it that keep state and run
concurrently, checks them with TLC on small instances, and proves the central
results with TLAPS for every value of the constants.

Run a check with `tlc -workers 2 -config <file>.cfg <module>`, a proof with
`tlapm <module>.tla`. `PROJECT.json` lists components, runs, mutants, findings,
hazards and theorems, and maps each definition to the lines it stands for.

## The system

| Component | State | Operations | Talks to |
|---|---|---|---|
| container repository (`docker/container_repository.go`, `list.go`) | the registered channels, under a mutex; the event stream of the moment; one forwarder per stream ever opened | listen, forward, dispatch, register, list | docker daemon; the two monitors, by channels of capacity 1 |
| CPU monitor, containers (`cpu/cpu.go`) | two samples per container and of the system, under a mutex; cancel functions, local to `Start` | start/stop events, one sampling goroutine per start event, `GetContainerUsage` | repository, cgroups, `/proc/stat`, handlers |
| CPU monitor, host (`cpu/cpu.go`, `procfs/cpu_stat.go`) | the last two samples | sample every second, `GetHostUsage` | `/proc/stat`, handlers |
| network monitor (`net/net.go`, `iface.go`) | interface to container, under one mutex; two samples per container, under another | start/stop events and interface lookup, poll, `GetUsage` | repository, netlink, `ip link`, handlers |
| mount information (`procfs/mountinfo.go`) | number to mount point, number to device path, under an RW mutex | refresh every 30 s, two lookups | `/proc`, `/sys/dev/block`, `/dev/mapper` |
| cgroup statistics, resources (`cgroup/`, `resources/`) | none | `GetStats`, per request | cgroups, mount information |
| run queue smoothing (`filters/`) | a bounded queue of averages, a stop flag | sample, average, read | `/proc/loadavg`, host handler |
| web handlers (`webserver/`) | none | one per endpoint | everything above |
| `/proc` parsers (`procfs/`) | none | `Read`, per sample or request | the monitors, the filter, the host handler |
| HTTP client (`client/`) | none | one method per endpoint | handlers, over HTTP |
| configuration, start-up, docker client | none | | |

Where it is hard:

* **Listing and events race.** A subscriber is registered, then lists once, in
  a goroutine of its own that sends on the same channel as the dispatcher. A
  listed start may come after the stop of the same container.
* **Streams end.** A lost event stream is reopened without `Since` and without
  a new listing. Its forwarder is never stopped, and may deliver old events
  after newer ones of its successor.
* **A slow subscriber holds a mutex.** The dispatcher sends to full channels
  with `registrationMutex` held.
* **Goroutines of one container overlap.** A second start event overwrites the
  cancel function; the goroutine of a stopped container deletes its data late,
  after the restarted container stored some.
* **What is read is stale when used.** The network poller looks interfaces up
  after its snapshot of the counters; `GetHostUsage` copies the struct before
  it locks the mutex; a refresh of the mount information reads three places one
  after the other; its readers take the lock twice.
* **An answer is of no single moment.** A handler lists the containers, then
  reads their cgroups one after the other, file by file, while they start, stop
  and allocate. With cgroup v2 one that is gone reads as zeros.
* **Failures pass through several layers.** A handler returns an error or
  writes a status first and fails to encode the body; the client never looks at
  the status.
* **Numbers.** A missing map entry reads as zero, differences and sums are
  unsigned.

What makes each part correct is stated as the properties below.

## The modules

| Module | Models | EXTENDS |
|---|---|---|
| `ContainerStream` | what the repository promises to one subscriber (abstract) | |
| `ContainerStreamProofs` | theorems about it | `ContainerStream` |
| `ContainerRepository` | the repository, goroutine by goroutine | (instantiates `ContainerStream`) |
| `ContainerRepositoryProofs` | theorems about it | `ContainerRepository` (instantiates `ContainerStreamProofs`) |
| `CPUMonitor` | container CPU usage, composed with its subscription | `ContainerStream` |
| `CPUMonitorProofs` | theorems about it | `CPUMonitor`, `ContainerStreamProofs` |
| `HostCPU` | host CPU usage | |
| `HostCPUProofs` | theorems about it | `HostCPU` |
| `NetMonitor` | network usage, composed with its subscription | `ContainerStream` |
| `NetMonitorProofs` | theorems about it | `NetMonitor`, `ContainerStreamProofs` |
| `MountInfo` | refresh of mount points and device paths | |
| `CgroupIO` | block I/O requests, composed with the refreshes | `MountInfo` |
| `CgroupIOProofs` | theorems about both | `CgroupIO` |
| `Smoothing` | the filter over the length of the run queue | |
| `SmoothingProofs` | theorems about it | `Smoothing` |
| `Requests` | client, routes, handlers, memory and swap of the cgroups, `/proc/meminfo` | |
| `RequestsProofs` | theorems about it | `Requests` |
| `MC...` | the small instances | |

A definition commented "Mutant" is a plausible bug of the definition after it;
substituted for it, it must make the named property fail (see `PROJECT.json`).
Mutants are part of no specification.

### ContainerStream

One subscriber and the docker daemon. `running` is the truth, `view` what the
subscriber believes (the containers it would have in `cancels` or look up).
`live[g]` holds the events of the g-th stream that have yet to arrive, in
order; nothing orders two streams, because their forwarders compete.
`listing`/`listed` are the registration, its one listing, and the starts
that the lister has yet to send, in any order relative to `live`.

The service cannot always be right, and `doubtful` says precisely when it may
be wrong about a container: the container exits by itself (`die` is filtered
out of the stream); it changes while no stream is connected and nobody will
list; the connection broke with its event on the way; an event of an older
stream is still under way; it stops with its listed start under way; the
listing failed. A later event on a healthy stream removes the doubt.
`doubtful` is a history variable: no action depends on it.

* `NoContainerForgotten`: a container without cause for doubt is known to the
  subscriber or about to be, by events of one stream.
* `BeliefIsTruth`: having heard all there is about a container, the
  subscriber believes it runs iff docker runs it.
* `BeliefConverges` (liveness): what docker leaves alone becomes known.

### ContainerRepository

The listener (`dialing`, `streaming`, `exited`), the events on the wire
(`stream`), the forwarders (`held[g]`), the dispatcher (receive, lock, one
send per registered channel, unlock), `registrationMutex`, the channels
of capacity 1, and for each subscriber its registration, its lister and its
receiving loop. `Stream(k)` is `ContainerStream` for the subscriber `k`: `live`
is the concatenation of what is in the channel, owed by the dispatcher, held by
the forwarder and on the wire; the `doubtful` of the instance is kept by the
same rules.

* `ImplementsStream`: every behaviour is one of `ContainerStream` for every
  subscriber at once. (`\A k : Stream(k)!Spec` is stated as its initial
  predicate and its step predicate, the form TLC accepts.)
* `RegistrationCompletes`, `EverySubscriberConverges` (liveness): sending to
  full channels with the mutex held blocks neither registrations nor
  deliveries for ever.

### CPUMonitor

`ContainerStream` with the receiving loop of `Start` in place of `view`'s
abstract receiver, and a bounded pool of `monitorContainerCPU` goroutines
(`pc`, `job`, `cancelled`). Every start event spawns one. A goroutine selects
between its context and its ticker (both may be ready), reads the cgroup,
reads `/proc/stat`, commits both under the mutex, and deletes the entries of
its container when it ends. A restarted container has a new cgroup, with a
counter that starts anew. When the cgroup is gone, `GetStats` fails with
cgroup v1 and answers zeros with v2 (`CgroupV2`; the vendored library reads
missing files as zeros and never looks whether the directory exists).

* `DataHasOwner`: usage data exists only while a goroutine is alive that will
  delete it, however many overlap.
* `CancelsMatchView`: `Start` holds a cancel function for exactly the
  containers it believes to run, of a goroutine of that container.
* `UsageWithinCapacity`: from the second sample on, the usage is at most
  `100 * NumCPU` percent, if each sample was read in one instant. (The first
  sample has to be left out, whatever the comment in `GetContainerUsage` says
  about first values: it is stored next to the zero of a missing map entry, and
  the CPU time since the creation of the container is charged to it.)
* `StoppedContainerForgotten` (with cgroup v1), `RunningContainerMonitored`
  (liveness).

### HostCPU

The sampling goroutine and one `GetHostUsage` call that copies the words of the
struct one by one, without the mutex. This is a data race with the writer,
which moves the two pointers in two steps: either word may be copied before,
between and after them, in either order. The writer's stores are seen in the
order of the program, as on x86, for which alone the service is released
(`.goreleaser.yml`: 386 and amd64). A copy is `torn` when a store fell between its words or
when a word was copied between the two stores, where both pointers are equal.
The usage is kept as a fraction. Of the kernel's counters, idle and iowait may
go back (`busy` stands for all but idle, and goes back with iowait).

* `FractionOfHost`: from a copy that is not torn, of two samples with different
  sums, the answer is at most 1, whatever went back. It is negative only if
  the time that is not idle went back, which `GetHostUsage` does not look at.
* `TornCopyIsFractionOrNaN`: while no counter goes back and time goes on, a
  torn copy yields a fraction between 0 and 1, or 0/0, and one that is not
  torn never 0/0.

### NetMonitor

`ContainerStream` with `listeningNewInterfaces` as the receiver (namespace,
then `ip link show`, then the map) and the poller (snapshot; per row a lookup
under one mutex and a shift of the samples under the other). The textual prefix
match of interface indexes is the constant `PrefixOf`; `ip link show` is taken
to list the interfaces in the order of their indexes. Each interface was
created for a container, with which it goes, or is the host's own (`eth0`,
`docker0`), and all of them are listed and sampled. One counter stands for
the four that are treated alike, and samples remember their interface.

`Mistaken(c, i)` is the one way to the wrong interface: the container ended
between the two steps of its lookup (the history `outlived`), and `i` is the
interface of somebody else whose index begins with that of the one that went.

* `ChargedForOwnTraffic`: a container is charged with interfaces that were
  created for it, or was mistaken.
* `RunningContainerFiled`: a running container that the listener heard all
  about is filed under its current interface or being looked up, though a
  stop removes an arbitrary one of several; or another was mistaken for it.
* `RateIsTraffic`: the unsigned rate wraps only between two interfaces.

### MountInfo, CgroupIO

`MountInfo`: devices are plugged, unplugged, linked in `/dev/mapper`, mounted;
a number may pass from one device to another, links and mounts may outlive
their device. `Refresh` reads the mounts, the link directory, each link, the
device directory and each device in steps of their own, fails as a whole when
one fails, and replaces both maps at once.

* `SettledMapsAreTrue`: the maps are true when nothing changed since the
  refresh that filled them began.
* `MapsConverge` (liveness): once the world rests they become true. The
  property has to exclude a dangling link of `/dev/mapper`: one is
  enough to make every refresh fail.

`CgroupIO`: a request reads the entries of a v1 or v2 cgroup one by one and
looks the path and the mount point of each new device up under two locks. A
sum is kept as the number of times each entry was added to it, so that it shows
what went into it whatever the values are.

* `IOUsageExact`: one usage per device, with exactly the sum of its entries.
* `ReportIsTrue`: with true maps and no change during the request, the answer
  is true although refreshes replace the maps between the two lookups.

### Smoothing

The goroutine of `Start` (wait for the next slot, copy the stop flag, check the
copy, read a sample, close the average if the interval is over), `Stop`, and
`Read` as a function of the queue, which it copies under the mutex. Times are
kept as the time since, in ticks, and not counted beyond the interval. Wake-ups
may be late, reads may take time and fail. An average is its sum and its number
of samples, a fraction; `exponentialSmoothing` is computed on fractions, with
`1/alpha` taken to be an integer.

* `WindowBounded`: however late or slow, an average is over at most the
  samples that fit into the interval, and two more.
* `StopTakesEffect`: `isStopped` has a value receiver, so the flag is copied
  before the mutex is locked; still at most one sample is read after `Stop`.
  (`Stop` is exported, but nothing in the repository calls it.)
* `SmoothedWithinRange`: what `Read` answers lies between the lowest and the
  highest average.
* `QueueFills`, `StopEndsSampling` (liveness).

### Requests

One request, from the method of the client to the value it returns. `cgroup[c]`
is the memory and swap of a container, or `NoCgroup`; it changes at any time.
The router refuses or picks the handler; the host handler reads
`/proc/meminfo` (lines with a header, a value and a unit; a value that is no unsigned number of
64 bits is an error), lists, filters by
label, and reads the memory and then the swap of each container in steps of
their own; a handler of one container passes an error on, the others skip the
container. `response` is the status and what the body is: the data, an object
with an error, text, or nothing. The middleware turns the error of a handler
into text, since the client sends no `Accept` header; objects with an error
come from the refusal of wrong credentials and from unknown paths.
`ClientError` and `ClientValue` are what the method makes of it. `during` and `failed` are history. The handlers of requests
that overlap share no state, so one request is enough.

* `AnswerComplete`: an answer about many containers is about all those that ran
  throughout and could be read, and about none that ran at no moment of it.
* `HostSums`: the sums lie between what the containers used at the least and at
  the most. The committed memory is meant only if every container has a limit:
  "no limit" is a number near 2^64 (2^63 with v1), and the sum wraps.
* `SwapReported`: with v1 swap is the difference of two files that are read one
  after the other; it never wraps, and is exact if nothing changed meanwhile.
* `ClientTellsFailure`: no error and a value other than the zero value is
  returned for an answer with data, and for nothing else. An error object does
  come back as a zero value without an error, since the status is not looked
  at. `Memory`, `CpuUsage` and `NetUsage` are left out: they hand a nil pointer
  to the decoder and return nil whatever the response.

## The runs

| Run | Checks | Instance |
|---|---|---|
| `stream` | `TypeOK`, `BeliefIsTruth`, `NoContainerForgotten`, `BeliefConverges` | 2 containers, 2 streams, 2 events per stream |
| `repository` | `TypeOK`, `ImplementsStream` | 1 container, 2 subscribers, 2 streams |
| `repository_live` | `RegistrationCompletes`, `EverySubscriberConverges` | 1 container, 2 subscribers, 1 stream |
| `docker_restart` | `ResilientToDockerRestart` is violated | 1 subscriber, 2 streams |
| `cpu` | `MonitorTypeOK`, `DataHasOwner`, `CancelsMatchView`, `UsageWithinCapacity` | 1 container, 2 goroutines, clock up to 3 |
| `cpu_live` | `StoppedContainerForgotten`, `RunningContainerMonitored` | the same, 2 streams, clock up to 1 |
| `cgroup_deleted` | `DeletedCgroupEndsMonitoring` is violated | the same, 1 stream, cgroup v2 |
| `host_cpu` | `TypeOK`, `FractionOfHost`, `TornCopyIsFractionOrNaN` | 3 units of CPU time |
| `net` | `NetTypeOK`, `ChargedForOwnTraffic`, `RunningContainerFiled`, `RateIsTraffic` | 2 containers and the host, 2 interfaces, the index of one a prefix of the other's, counters up to 2 |
| `io` | `MountTypeOK`, `SettledMapsAreTrue`, `IOUsageExact`, `ReportIsTrue`, `MapsConverge` | 1 device, 2 numbers, 3 entries (v1), up to 2 (v2) |
| `smoothing` | `SmoothingTypeOK`, `WindowBounded`, `StopTakesEffect`, `SmoothedWithinRange`, `QueueFills`, `StopEndsSampling` | 2 samples in an interval of 2 ticks, 2 averages, loads 0 and 1 |
| `requests` | `RequestTypeOK`, `AnswerComplete`, `HostSums`, `SwapReported`, `ClientTellsFailure` | 2 containers, 3 states of a cgroup, 4 files |

Why the bounds are enough. Containers do not interact in the repository or in
the CPU monitor except by sharing queues, which `stream` covers with two. Two
streams are needed for a gap and for a leaked forwarder that competes with its
successor. Two goroutines are what overlap takes, and the theorems cover any
number. Three units of time give a goroutine two samples with a
restart in between. Three units of CPU time give three different samples, as
many as the pointers and the copy of one can hold with the next one read. Two
interfaces give one restart, or two owners at once of which one's index is a
prefix of the other's; that a container was filed under two interfaces when it
stopped, and starts again, is covered by the theorems of `NetMonitorProofs`
only. One device that comes and goes, and
the entries of one that is long gone, are what a refresh and a request can
disagree about; a number that passes from one device to another is covered by
the theorems of `CgroupIOProofs`. Two samples per interval are the least that
can be early or late within a window, and the bound of `WindowBounded` is
reached. Two containers, one of them labelled and one without a limit, let one
of them stop while the other is read; memory 2 and 1 and swap 0 and 1 let memory
with swap be read below memory. `Modulus` stands for 2^64 and is chosen above
all sums but those with a missing limit. Where an instance is smaller than one would
like it is because the product with the environment grows quickly: streams are
bounded by 1 in `repository_live`, `cpu` and `net`, so reconnections are checked
by `stream`, `repository` and `cpu_live` only. Deadlock is not checked where the
bounds (streams opened, clock) let a behaviour end; it is in `host_cpu`, `io`,
`smoothing` and `requests`.

### Fairness

Only what the service does itself is fair. The daemon may do nothing, lose
the connection and refuse to reopen it; it only has to answer a listing, with
a result or an error. Weak fairness stands for a goroutine that can run and
eventually does. Strong fairness is assumed where several goroutines compete
for something that comes and goes: Go serves blocked senders of a channel in
order, and hands a mutex to a waiter that starved for a millisecond. For
`ContextDone` it stands for `select`, which picks among ready cases at random.
`Refresh` is weakly fair because its ticker goes on whatever the last refresh
came to. In `Smoothing` time goes on, the goroutine wakes up, and `/proc/loadavg`
is read again and again (strongly fair: a read that keeps failing would leave
the queue short, as it should).

### What disagrees with the documentation

* `docker_restart`: the changelog has "Make service resilient to docker
  restart". A container started between two streams is never announced: the
  stream is reopened without `Since` and nobody lists again.
* `cgroup_deleted`: the changelog has "Correctly handle error when CPU
  monitoring fails because cgroup has been deleted (container stopped)". With
  cgroup v2 there is no error: the goroutine of a container that exited by
  itself samples zeros for ever.

A third disagreement has no run of its own. The changelog has "Ignore first
values of net/cpu monitoring to avoid extreme values (return 0 instead)"
(`CHANGELOG.md:106`), and the comment at `cpu/cpu.go:195` "If both values are
positive, the first values are over". But the first sample is stored next to
the zero values of missing map entries (`cpu.go:145`), so `GetContainerUsage`
finds an entry in `previousContainerStats`, both differences are positive, and
the answer is the CPU time of the container since its creation over that of the
host since boot, not 0. When a late deletion removed the entries of the
container but not those of the system (`cpu.go:156`), the second is the time of
one interval only, and the answer exceeds the capacity of the host. This is why
`UsageWithinCapacity` asks for two samples: TLC refutes it with one.

## The theorems

For every set of containers, workers, devices and numbers, every configuration
of the filter, and every bound:

* `ContainerStreamProofs`: `TypeCorrect`, `NeverForgotten`, `BeliefCorrect`
  (`Spec => []` of `TypeOK`, `NoContainerForgotten`, `BeliefIsTruth`).
  `NoContainerForgotten` is nearly inductive: it needs the types and
  `ListedAfterSubscribing` (nothing is listed or believed before the
  registration). Lemmas say what `Append`, `Tail` and `SubSeq` do to the events
  about one container; then there is one step per action, and under it the
  container of the action and the others. `BeliefIsTruth` follows: when nothing
  is left to be heard, only `Known` remains.
* `ContainerRepositoryProofs`: `RepositoryTypeCorrect`,
  `RepositoryImplementsStream` (`Spec => ImplementsStream`, for any number of
  subscribers) and `SubscriberBelievesTruth` (`BeliefIsTruth` of the stream of
  any one subscriber, the constant `me`). The inductive invariant
  `RepositoryInv` says that a stream is read to its end before the next one is
  opened, that each slot (forwarder, dispatcher, channel) holds at most one
  event of the sources it may come from, that the dispatcher has the mutex
  exactly while it sends and then starts with the first channel, that every
  subscriber is registered once, and that a lister's message is the start of a
  container it will not send again. A lemma per action (`Sim...`) says which
  step of the stream it is. Most of them only move an event from one slot to
  the next: `Live(k)` is the concatenation of the slots and does not change.
  Three are worth knowing: `DispatcherLocks` is where a subscriber that has not
  registered misses the event for good; a registration while the dispatcher
  waits for the mutex still gets it; and `ConnectionLost(n)` closes the stream
  with `n` events and those in the slots. The last theorem takes
  `BeliefCorrect` from an instance of `ContainerStreamProofs`.
* `CPUMonitorProofs`: `MonitorIsSubscriber` (every step of the monitor is a
  step of `ContainerStream` or leaves it alone, so the theorems above hold of
  its subscription), `MonitorTypeCorrect`, `NoOrphanedData`, `CancelsCorrect`,
  `WithinCapacity`. `DataHasOwner` and `CancelsMatchView` are each inductive
  relative to the types: lemmas say what a start, a stop and each step of a
  goroutine keep. `UsageWithinCapacity` needs `CapacityInv`, about all
  readings in the maps or in the hands of a goroutine: of any two the later one
  exceeds the earlier by no more than the time between them, and so does the
  time the container has used by now.
* `HostCPUProofs`: `HostTypeCorrect`, `UntornFraction`, `TornFraction`. The
  invariant orders the samples, by the time that is not idle if that never went
  back (`worked`), and by both counters if these behaved (`steady`): those
  stored, where both pointers hold the same one between the two stores, and
  those the unlocked copy has taken so far, depending on the word it began with
  and on where the writer was.
* `NetMonitorProofs`: `NetIsSubscriber`, `NetTypeCorrect`, `OwnTraffic`,
  `RateCorrect`, `HeardOfIsFiled`. What is filed belongs to its container or
  was mistaken, the index being looked up belongs to it (`Lookups`), and so does
  the row the poller is about to store (`Charges`); ownership never changes
  hands, and by `FirstLine` the least of the matching lines is the interface
  itself as long as it exists. The samples of an interface, stored, in the snapshot and of the
  kernel, only grow (`Growing`). `RunningContainerFiled` is
  the conjunction of an invariant about the map (`HeardIsFiled`: who is believed
  to run is filed or being looked up) and of `BeliefCorrect` of the stream.
* `CgroupIOProofs`: `SettledMaps`, `MountTypeCorrect`, `RequestsOnlyRead` (a
  request leaves the mount information alone, so the first two hold with
  requests running), `TrueReport`, `ExactSums`. For the first the invariant says
  what an undisturbed refresh has got right so far: the mounts, the aliases but
  for the links left, the devices but for the entries left. For `IOUsageExact`
  it is `Gathered`: at each point of the loop there is one usage for each device
  of the entries passed, and in it each of its entries was added once.
* `SmoothingProofs`: `SmoothingTypeCorrect`, `WindowTheorem`, `StopTheorem`,
  `SmoothedRange`. The count of samples is bounded through
  the clocks: `SamplesApart` says that n samples of a window took n - 1 times
  `TimeBetweenSamples`, and what has passed since the last of them, of the time
  since the last average, unless the interval is over and time no longer
  counted. Lemmas say what `appendToQueue` keeps of the queue and what each
  action does to the clocks. `StopTakesEffect` needs that a sample read after
  `Stop` leaves no copy of the flag that still says otherwise. `SmoothedRange`
  is by induction over the recursion: `Weighted` of two fractions lies between
  them (`WeightedBetween`), and the order of fractions is total and transitive.
* `RequestsProofs`: `RequestTypeCorrect`, `CompleteAnswer`, `SwapCorrect`,
  `SumsCorrect`, `FailureTold`. `AnswerComplete` is strengthened to the loop
  (`ListComplete`: what is answered or yet to be read) by the fact that the
  history holds the present (`Present`). `SwapReported` needs `HalfRead`: the
  memory read first is one of the history. `HostSums` follows from `AnswersRead`
  (what was read of each container lies in its history) by monotonicity:
  `SumOver` counts a zero for the containers that are left out, so all sums run
  over the same set in the same order and are compared container by container
  (`SumMonotone`). `ClientTellsFailure` needs `ClientInv`: data comes with
  status 200, past `/proc/meminfo` some memory is known, and a handler of one
  container loses it only with an error.

They rest on the named assumptions only: bounds are positive naturals; the
"none" values are no members of the sets they are added to; the entries of a
cgroup have numbers of devices, a name per number and a number per name, and
with v2 one entry per number (`DeviceAssumption`); one interface index is a
prefix of another only if it is smaller (`PrefixAssumption`); the host is no
container (`HostAssumption`); a host has at least 1 MiB of memory
(`TotalAssumption`); the containers are finitely many, and their memory
together, and their limits where they have one, is below 2^64
(`SizeAssumption`).

Induction over data. The induction theorems of the library take an operator as
a parameter, which the provers cannot instantiate. Where a recursive definition
had to be reasoned about, induction is restated for sets (`UpTo`, `BySize`: a
set that contains the first and, with each, the next contains all), from the
existence of a least element, and the existence of the recursive function is
proved from it (`Recursion`, `SumsExist`).

Model-checked only: all liveness (`BeliefConverges`, `RegistrationCompletes`,
`EverySubscriberConverges` and the others) and with it the fairness, which are
out of the prover's reach. Every invariant and every step property of a passing
run is a theorem.

## Not modelled

* Opening files, `sysconf`, the building of a docker client: no state, and
  their failures are actions of the modules that call them.
* The environment, read once before any goroutine runs. The order in which
  `main` starts the goroutines is among the interleavings of
  `ContainerRepository`; profiling routes are left out.
* The context of `main` is never cancelled before the process ends, so the
  branches on it are left out. So is `Usage` of the client with an empty id,
  which is served as the usage of all containers.
* With cgroup v1 a subsystem whose directory is missing is skipped without an
  error as long as another one is left (`cgroup1/cgroup.go:105`). A cgroup is
  there or gone as a whole in the model.
* Text: the lines of `/proc/stat`, `/proc/loadavg` and `/proc/self/mountinfo`
  are numbers and maps from the start; those of `/proc/meminfo` are split.

## Plan

1. Done: all components with state or concurrency, see the table of modules.
2. Done: theorems for every invariant of the repository, of the monitors, of
   the filter, of the mount information and of the requests, and for the
   refinement of `ContainerStream`.
