------------------------- MODULE ContainerRepository -------------------------
(***************************************************************************)
(* docker.ContainerRepositoryImpl, goroutine by goroutine:                 *)
(*   - the listener (listenToDockerEvents) opens one event stream after    *)
(*     the other, and starts for each one a forwarder that is never        *)
(*     stopped: the Messages channel of a lost stream is not closed;       *)
(*   - the dispatcher (the goroutine of StartListeningToNewContainers)     *)
(*     receives an event of any forwarder from the unbuffered eventsChan   *)
(*     and sends it to every registered channel while it holds             *)
(*     registrationMutex;                                                  *)
(*   - a registration appends a channel of capacity 1 under the mutex and  *)
(*     starts a lister, which sends to that channel without the mutex.     *)
(* The subscribers' receiving loops are reduced to the set of containers   *)
(* they believe to run.                                                    *)
(***************************************************************************)
EXTENDS Naturals, Sequences

CONSTANTS
    Container,    \* container IDs
    Subscriber,   \* callers of RegisterToContainersStream
    MaxConn,      \* bound: event streams opened during a behaviour
    MaxPending    \* bound: events between the daemon and the forwarder

ASSUME RepositoryBounds == MaxConn \in Nat \ {0} /\ MaxPending \in Nat \ {0}

VARIABLES
    running,     \* the containers that docker runs
    gen,         \* event streams opened so far
    open,        \* the latest one is connected
    listener,    \* listenToDockerEvents: "dialing", "streaming" or "exited"
    stream,      \* its events that Messages has yet to deliver
    held,        \* held[g]: the event forwarder g is sending to eventsChan
    dispatcher,  \* "recv", "lock" or "send"
    cur,         \* the event the dispatcher is delivering
    next,        \* index in registeredChans of the channel to send to
    registrationMutex, \* held by the dispatcher
    registeredChans,
    channel,     \* channel[k]: what the channel of capacity 1 of k holds
    lister,      \* k's registration and its listing
    todo,        \* containers the lister of k has yet to send
    view,        \* containers k believes to run
    doubtful     \* history, see ContainerStream

dockerVars == <<running, gen, open, listener, stream>>
dispVars == <<dispatcher, cur, next, registrationMutex>>
regVars == <<registeredChans, lister, todo, view>>
vars == <<dockerVars, held, dispVars, regVars, channel, doubtful>>

Conn == 1..MaxConn
Event == [id : Container, action : {"start", "stop"}]
Message == [src : 0..MaxConn, event : Event]   \* src 0: sent by a lister
Capacity == 1                                  \* of a registration channel
AtMost(n, S) == {q \in Seq(S) : Len(q) <= n}

-----------------------------------------------------------------------------
(* What the subscriber k has yet to receive, as ContainerStream sees it.   *)

(* The dispatcher has yet to send its event to k.  An event received but   *)
(* not yet locked for will reach whoever registers in between.             *)
Owed(k) ==
    \/ dispatcher = "lock"
    \/ dispatcher = "send" /\ \E i \in next..Len(registeredChans) : registeredChans[i] = k

From(q, g) == IF q # <<>> /\ Head(q).src = g THEN <<Head(q).event>> ELSE <<>>

Live(k) ==
    [g \in Conn |-> From(channel[k], g)
                    \o (IF Owed(k) THEN From(cur, g) ELSE <<>>)
                    \o From(held[g], g)
                    \o (IF g = gen THEN stream ELSE <<>>)]

ListedFor(k) == todo[k] \cup {m.id : m \in {e \in Event : From(channel[k], 0) = <<e>>}}

Stream(k) == INSTANCE ContainerStream WITH
    MaxPending <- MaxPending + 3, live <- Live(k), listing <- lister[k],
    listed <- ListedFor(k), view <- view[k], doubtful <- doubtful[k]

-----------------------------------------------------------------------------

Init ==
    /\ running \in SUBSET Container
    /\ gen = 0
    /\ open = FALSE
    /\ listener = "dialing"
    /\ stream = <<>>
    /\ held = [g \in Conn |-> <<>>]
    /\ dispatcher = "recv"
    /\ cur = <<>>
    /\ next = 1
    /\ registrationMutex = FALSE
    /\ registeredChans = <<>>
    /\ channel = [k \in Subscriber |-> <<>>]
    /\ lister = [k \in Subscriber |-> "no"]
    /\ todo = [k \in Subscriber |-> {}]
    /\ view = [k \in Subscriber |-> {}]
    /\ doubtful = [k \in Subscriber |-> {}]

(* Docker starts or stops c: the filters keep these two actions only.  D   *)
(* are the subscribers it leaves in doubt.                                 *)
DockerEvent(c, action, D) ==
    /\ open => Len(stream) < MaxPending
    /\ stream' = IF open THEN Append(stream, [id |-> c, action |-> action]) ELSE stream
    /\ doubtful' = [k \in Subscriber |-> IF k \in D THEN doubtful[k] \cup {c}
                                                    ELSE doubtful[k] \ {c}]
    /\ UNCHANGED <<gen, open, listener, held, dispVars, regVars, channel>>

DockerStart(c) ==
    /\ c \notin running
    /\ running' = running \cup {c}
    /\ DockerEvent(c, "start", {k \in Subscriber : Stream(k)!StartDoubt(c)})

DockerStop(c) ==
    /\ c \in running
    /\ running' = running \ {c}
    /\ DockerEvent(c, "stop", {k \in Subscriber : Stream(k)!StopDoubt(c)})

(* A container exits by itself: "die" passes no filter. *)
DockerDie(c) ==
    /\ c \in running
    /\ running' = running \ {c}
    /\ doubtful' = [k \in Subscriber |-> doubtful[k] \cup {c}]
    /\ UNCHANGED <<gen, open, listener, stream, held, dispVars, regVars, channel>>

(* The docker client cannot be made: the listener returns for good. *)
ListenerExits ==
    /\ listener = "dialing"
    /\ gen = 0
    /\ listener' = "exited"
    /\ UNCHANGED <<running, gen, open, stream, held, dispVars, regVars, channel, doubtful>>

(* client.Events connects and a forwarder is started.  A failed attempt    *)
(* only sleeps and tries again.                                            *)
OpenStream ==
    /\ listener = "dialing"
    /\ gen < MaxConn
    /\ gen' = gen + 1
    /\ open' = TRUE
    /\ listener' = "streaming"
    /\ UNCHANGED <<running, stream, held, dispVars, regVars, channel, doubtful>>

(* The daemon goes away; n of the events under way can still be decoded. *)
ConnectionLost(n) ==
    /\ open
    /\ gen < MaxConn
    /\ n <= Len(stream)
    /\ open' = FALSE
    /\ stream' = SubSeq(stream, 1, n)
    /\ doubtful' = [k \in Subscriber |-> doubtful[k] \cup
                      {c \in Container : \E i \in (n + 1)..Len(stream) : stream[i].id = c}]
    /\ UNCHANGED <<running, gen, listener, held, dispVars, regVars, channel>>

(* Err is read once everything decoded was delivered; then sleep and loop. *)
StreamEnds ==
    /\ listener = "streaming"
    /\ ~open
    /\ stream = <<>>
    /\ listener' = "dialing"
    /\ UNCHANGED <<running, gen, open, stream, held, dispVars, regVars, channel, doubtful>>

(* The forwarder of the stream takes an event from Messages. *)
Forward ==
    /\ stream # <<>>
    /\ held[gen] = <<>>
    /\ held' = [held EXCEPT ![gen] = <<[src |-> gen, event |-> Head(stream)]>>]
    /\ stream' = Tail(stream)
    /\ UNCHANGED <<running, gen, open, listener, dispVars, regVars, channel, doubtful>>

(* eventsChan is unbuffered: forwarder g and the dispatcher meet. *)
DispatcherReceives(g) ==
    /\ dispatcher = "recv"
    /\ held[g] # <<>>
    /\ cur' = held[g]
    /\ held' = [held EXCEPT ![g] = <<>>]
    /\ dispatcher' = "lock"
    /\ UNCHANGED <<dockerVars, next, registrationMutex, regVars, channel, doubtful>>

DispatcherLocks ==
    /\ dispatcher = "lock"
    /\ ~registrationMutex
    /\ registrationMutex' = TRUE
    /\ dispatcher' = "send"
    /\ UNCHANGED <<dockerVars, held, cur, next, regVars, channel, doubtful>>

(* Mutant: the channel's capacity is not respected. *)
DispatcherSendsUnbounded ==
    /\ dispatcher = "send"
    /\ next <= Len(registeredChans)
    /\ channel' = [channel EXCEPT ![registeredChans[next]] = @ \o cur]
    /\ next' = next + 1
    /\ UNCHANGED <<dockerVars, held, dispatcher, cur, registrationMutex, regVars, doubtful>>

(* Mutant: a select with a default drops the event when the channel is full. *)
DispatcherSendsOrDrops ==
    /\ dispatcher = "send"
    /\ next <= Len(registeredChans)
    /\ channel' = [channel EXCEPT ![registeredChans[next]] =
                      IF Len(@) < Capacity THEN @ \o cur ELSE @]
    /\ next' = next + 1
    /\ UNCHANGED <<dockerVars, held, dispatcher, cur, registrationMutex, regVars, doubtful>>

(* The send blocks, the mutex held, while the channel is full. *)
DispatcherSends ==
    /\ dispatcher = "send"
    /\ next <= Len(registeredChans)
    /\ Len(channel[registeredChans[next]]) < Capacity
    /\ channel' = [channel EXCEPT ![registeredChans[next]] = @ \o cur]
    /\ next' = next + 1
    /\ UNCHANGED <<dockerVars, held, dispatcher, cur, registrationMutex, regVars, doubtful>>

(* Mutant: the mutex is not unlocked. *)
DispatcherKeepsLock ==
    /\ dispatcher = "send"
    /\ next > Len(registeredChans)
    /\ dispatcher' = "recv"
    /\ cur' = <<>>
    /\ next' = 1
    /\ UNCHANGED <<dockerVars, held, registrationMutex, regVars, channel, doubtful>>

DispatcherUnlocks ==
    /\ dispatcher = "send"
    /\ next > Len(registeredChans)
    /\ registrationMutex' = FALSE
    /\ dispatcher' = "recv"
    /\ cur' = <<>>
    /\ next' = 1
    /\ UNCHANGED <<dockerVars, held, regVars, channel, doubtful>>

(* Lock, append, start the lister, unlock: nothing in between blocks. *)
RegisterToContainersStream(k) ==
    /\ lister[k] = "no"
    /\ ~registrationMutex
    /\ registeredChans' = Append(registeredChans, k)
    /\ lister' = [lister EXCEPT ![k] = "pending"]
    /\ UNCHANGED <<dockerVars, held, dispVars, todo, view, channel, doubtful>>

ListContainers(k) ==
    /\ lister[k] = "pending"
    /\ lister' = [lister EXCEPT ![k] = "done"]
    /\ todo' = [todo EXCEPT ![k] = running]
    /\ doubtful' = [doubtful EXCEPT ![k] = @ \ {c \in running : Stream(k)!Silent(c)}]
    /\ UNCHANGED <<dockerVars, held, dispVars, registeredChans, view, channel>>

(* The lister logs and returns; nobody lists again. *)
ListContainersFails(k) ==
    /\ lister[k] = "pending"
    /\ lister' = [lister EXCEPT ![k] = "failed"]
    /\ doubtful' = [doubtful EXCEPT
                      ![k] = @ \cup {c \in running \ view[k] : Stream(k)!Silent(c)}]
    /\ UNCHANGED <<dockerVars, held, dispVars, registeredChans, todo, view, channel>>

ListerSends(k, c) ==
    /\ c \in todo[k]
    /\ Len(channel[k]) < Capacity
    /\ channel' = [channel EXCEPT
                      ![k] = Append(@, [src |-> 0, event |-> [id |-> c, action |-> "start"]])]
    /\ todo' = [todo EXCEPT ![k] = @ \ {c}]
    /\ UNCHANGED <<dockerVars, held, dispVars, registeredChans, lister, view, doubtful>>

(* The receiving loop of k takes an event and applies it. *)
SubscriberReceives(k) ==
    /\ channel[k] # <<>>
    /\ channel' = [channel EXCEPT ![k] = Tail(@)]
    /\ LET e == Head(channel[k]).event IN
       view' = [view EXCEPT ![k] = IF e.action = "start" THEN @ \cup {e.id} ELSE @ \ {e.id}]
    /\ UNCHANGED <<dockerVars, held, dispVars, registeredChans, lister, todo, doubtful>>

Next ==
    \/ \E c \in Container : DockerStart(c) \/ DockerStop(c) \/ DockerDie(c)
    \/ ListenerExits
    \/ OpenStream
    \/ \E n \in 0..MaxPending : ConnectionLost(n)
    \/ StreamEnds
    \/ Forward
    \/ \E g \in Conn : DispatcherReceives(g)
    \/ DispatcherLocks
    \/ DispatcherSends
    \/ DispatcherUnlocks
    \/ \E k \in Subscriber :
          \/ RegisterToContainersStream(k)
          \/ ListContainers(k)
          \/ ListContainersFails(k)
          \/ \E c \in Container : ListerSends(k, c)
          \/ SubscriberReceives(k)

Spec == Init /\ [][Next]_vars

(* Goroutines that can run do run.  Blocked senders of a Go channel are    *)
(* served in the order they came, and a mutex is handed to its oldest      *)
(* waiter: hence strong fairness where several compete.  Nothing is asked  *)
(* of docker but an answer, good or bad, to a listing.                     *)
Fairness ==
    /\ WF_vars(Forward)
    /\ \A g \in Conn : SF_vars(DispatcherReceives(g))
    /\ WF_vars(DispatcherLocks)
    /\ SF_vars(DispatcherSends)
    /\ WF_vars(DispatcherUnlocks)
    /\ \A k \in Subscriber :
          /\ SF_vars(RegisterToContainersStream(k))
          /\ WF_vars(ListContainers(k) \/ ListContainersFails(k))
          /\ \A c \in Container : SF_vars(ListerSends(k, c))
          /\ WF_vars(SubscriberReceives(k))

FairSpec == Spec /\ Fairness

-----------------------------------------------------------------------------

(* The values the variables take. *)
TypeOK ==
    /\ running \in SUBSET Container
    /\ gen \in 0..MaxConn
    /\ open \in BOOLEAN
    /\ listener \in {"dialing", "streaming", "exited"}
    /\ stream \in Seq(Event)
    /\ held \in [Conn -> AtMost(1, Message)]
    /\ dispatcher \in {"recv", "lock", "send"}
    /\ cur \in AtMost(1, Message)
    /\ next \in 1..(Len(registeredChans) + 1)
    /\ registrationMutex \in BOOLEAN
    /\ registeredChans \in Seq(Subscriber)
    /\ channel \in [Subscriber -> AtMost(Capacity, Message)]
    /\ lister \in [Subscriber -> {"no", "pending", "done", "failed"}]
    /\ todo \in [Subscriber -> SUBSET Container]
    /\ view \in [Subscriber -> SUBSET Container]
    /\ doubtful \in [Subscriber -> SUBSET Container]

(* For every subscriber, whatever the others do, the goroutines implement  *)
(* the promise of ContainerStream: no event is lost, duplicated or         *)
(* reordered within a stream between Messages and the subscriber.          *)
(* This is \A k \in Subscriber : Stream(k)!Spec, in the form TLC takes.    *)
ImplementsStream ==
    /\ \A k \in Subscriber : Stream(k)!Init
    /\ [][\A k \in Subscriber : [Stream(k)!Next]_(Stream(k)!vars)]_vars

(* ... and they do not block each other for ever: what docker leaves alone *)
(* is eventually known to every subscriber that has no cause for doubt.    *)
EverySubscriberConverges == \A k \in Subscriber : Stream(k)!BeliefConverges

(* A registration is never held up for ever by the dispatcher, which keeps *)
(* the mutex while it waits for slow subscribers.                          *)
RegistrationCompletes == \A k \in Subscriber : <>(lister[k] \in {"done", "failed"})

(* "Make service resilient to docker restart" (CHANGELOG.md): when the     *)
(* service was connected before it listed, a container that keeps running  *)
(* while the service is connected again is eventually known to every       *)
(* subscriber.                                                             *)
ResilientToDockerRestart ==
    \A k \in Subscriber, c \in Container :
        [](lister[k] # "no" => gen # 0)
            => (<>[](c \in running /\ open /\ lister[k] = "done") => <>[](c \in view[k]))
=============================================================================
