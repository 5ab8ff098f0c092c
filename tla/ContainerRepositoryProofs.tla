---------------------- MODULE ContainerRepositoryProofs ----------------------
(***************************************************************************)
(* The goroutines of the repository implement ContainerStream for each of  *)
(* any number of subscribers: first the inductive invariant of the         *)
(* repository, then the queue that each subscriber sees, then one lemma    *)
(* per action (Sim...) that says which step of the stream it is, and last  *)
(* what follows for a subscriber from what is proved of ContainerStream.   *)
(***************************************************************************)
EXTENDS ContainerRepository, SequenceTheorems, TLAPS

Slot(s, e) == <<[src |-> s, event |-> e]>>

(* A slot is empty or holds one event of one of the sources. *)
Holds(q, sources) == q = <<>> \/ \E s \in sources, e \in Event : q = Slot(s, e)

(* A stream is only read to its end, and the next one opened then. *)
Listening ==
    /\ open => listener = "streaming"
    /\ listener = "streaming" => gen # 0
    /\ listener # "streaming" => stream = <<>>
    /\ Len(stream) <= MaxPending

(* A forwarder holds events of its own stream. *)
Forwarding == \A g \in Conn : Holds(held[g], {g})

(* The dispatcher has the mutex exactly while it sends, and starts with    *)
(* the first channel.                                                      *)
Dispatching ==
    /\ Holds(cur, Conn)
    /\ cur = <<>> <=> dispatcher = "recv"
    /\ registrationMutex <=> dispatcher = "send"
    /\ dispatcher # "send" => next = 1

(* Every subscriber registers once. *)
Registering ==
    /\ \A i, j \in 1..Len(registeredChans) : registeredChans[i] = registeredChans[j] => i = j
    /\ \A k \in Subscriber :
          lister[k] # "no" <=> \E i \in 1..Len(registeredChans) : registeredChans[i] = k

(* What a lister has sent is a start, of a container it will not send      *)
(* again; nothing is sent to a subscriber that has not registered.         *)
Receiving ==
    \A k \in Subscriber :
        /\ Holds(channel[k], 0..MaxConn)
        /\ \A e \in Event : channel[k] = Slot(0, e) =>
              /\ e.action = "start" /\ e.id \notin todo[k]
              /\ lister[k] \in {"done", "failed"}
        /\ lister[k] = "no" => channel[k] = <<>>
        /\ lister[k] \in {"no", "pending"} => todo[k] = {}

RepositoryInv == TypeOK /\ Listening /\ Forwarding /\ Dispatching /\ Registering /\ Receiving

-----------------------------------------------------------------------------

(* The head and the rest of a slot. *)
LEMMA SlotHead ==
    ASSUME NEW s, NEW e
    PROVE  /\ Slot(s, e) # <<>> /\ Tail(Slot(s, e)) = <<>> /\ Len(Slot(s, e)) = 1
           /\ Head(Slot(s, e)).src = s /\ Head(Slot(s, e)).event = e
BY DEF Slot

LEMMA HoldsTyped ==
    ASSUME NEW sources \in SUBSET (0..MaxConn), NEW q, Holds(q, sources)
    PROVE  q \in AtMost(1, Message)
<1>1. CASE q = <<>>
  BY <1>1 DEF AtMost
<1>2. ASSUME NEW s \in sources, NEW e \in Event, q = Slot(s, e) PROVE q \in AtMost(1, Message)
  <2> DEFINE m == [src |-> s, event |-> e]
  <2>1. m \in Message
    BY DEF Message
  <2>2. q = <<m>>
    BY <1>2 DEF Slot
  <2> HIDE DEF m
  <2> QED
    BY <2>1, <2>2 DEF AtMost
<1> QED
  BY <1>1, <1>2 DEF Holds

LEMMA InitInv == Init => RepositoryInv
<1> SUFFICES ASSUME Init PROVE RepositoryInv
  OBVIOUS
<1> USE RepositoryBounds
<1>1. <<>> \in AtMost(1, Message)
  BY DEF AtMost
<1>2. TypeOK
  <2>1. held \in [Conn -> AtMost(1, Message)] /\ channel \in [Subscriber -> AtMost(1, Message)]
    BY <1>1 DEF Init
  <2>2. stream \in Seq(Event) /\ registeredChans \in Seq(Subscriber) /\ Len(registeredChans) = 0
    BY DEF Init
  <2>3. next \in 1..(Len(registeredChans) + 1)
    BY <2>2 DEF Init
  <2>4. /\ lister \in [Subscriber -> {"no", "pending", "done", "failed"}]
        /\ todo \in [Subscriber -> SUBSET Container]
        /\ view \in [Subscriber -> SUBSET Container]
        /\ doubtful \in [Subscriber -> SUBSET Container]
    BY DEF Init
  <2>5. /\ open \in BOOLEAN /\ registrationMutex \in BOOLEAN /\ cur \in AtMost(1, Message)
        /\ listener \in {"dialing", "streaming", "exited"} /\ dispatcher \in {"recv", "lock", "send"}
        /\ running \in SUBSET Container
    BY <1>1 DEF Init
  <2>6. gen \in 0..MaxConn
    BY DEF Init
  <2> QED
    BY <2>1, <2>2, <2>3, <2>4, <2>5, <2>6 DEF TypeOK, Capacity
<1>3. Listening /\ Forwarding
  BY DEF Init, Listening, Forwarding, Holds
<1>4. Dispatching /\ Registering
  BY DEF Init, Dispatching, Registering, Holds
<1>5. Receiving
  BY SlotHead DEF Init, Receiving, Holds
<1> QED
  BY <1>2, <1>3, <1>4, <1>5 DEF RepositoryInv

(* What a step leaves alone stays as it is. *)
LEMMA Same ==
    ASSUME RepositoryInv
    PROVE  /\ UNCHANGED dockerVars => Listening'
           /\ UNCHANGED held => Forwarding'
           /\ UNCHANGED dispVars => Dispatching'
           /\ UNCHANGED <<registeredChans, lister>> => Registering'
           /\ UNCHANGED <<lister, todo, channel>> => Receiving'
<1>1. UNCHANGED dockerVars => Listening'
  BY DEF RepositoryInv, Listening, dockerVars
<1>2. UNCHANGED held => Forwarding'
  BY DEF RepositoryInv, Forwarding, Holds, Slot
<1>3. UNCHANGED dispVars => Dispatching'
  BY DEF RepositoryInv, Dispatching, Holds, Slot, dispVars
<1>4. UNCHANGED <<registeredChans, lister>> => Registering'
  BY DEF RepositoryInv, Registering
<1>5. UNCHANGED <<lister, todo, channel>> => Receiving'
  BY DEF RepositoryInv, Receiving, Holds, Slot
<1> QED
  BY <1>1, <1>2, <1>3, <1>4, <1>5

(* The daemon and the listener: only running, the streams, the listener    *)
(* and the history change.                                                 *)
LEMMA DockerKeeps ==
    ASSUME RepositoryInv, UNCHANGED <<held, dispVars, regVars, channel>>,
           running' \in SUBSET Container, gen' \in 0..MaxConn, open' \in BOOLEAN,
           listener' \in {"dialing", "streaming", "exited"}, stream' \in Seq(Event),
           doubtful' \in [Subscriber -> SUBSET Container], Listening'
    PROVE  RepositoryInv'
<1> USE DEF dispVars, regVars
<1>1. TypeOK'
  BY DEF RepositoryInv, TypeOK
<1>2. Forwarding' /\ Dispatching'
  BY Same
<1>3. Registering' /\ Receiving'
  BY Same
<1> QED
  BY <1>1, <1>2, <1>3 DEF RepositoryInv

LEMMA EventKept ==
    ASSUME RepositoryInv, NEW c \in Container, NEW action \in {"start", "stop"},
           NEW D, running' \in SUBSET Container, DockerEvent(c, action, D)
    PROVE  RepositoryInv'
<1> DEFINE e == [id |-> c, action |-> action]
<1>1. /\ open => Len(stream) < MaxPending
      /\ stream' = IF open THEN Append(stream, e) ELSE stream
      /\ doubtful' = [k \in Subscriber |-> IF k \in D THEN doubtful[k] \cup {c}
                                                       ELSE doubtful[k] \ {c}]
      /\ UNCHANGED <<gen, open, listener, held, dispVars, regVars, channel>>
  BY DEF DockerEvent
<1>2. e \in Event
  BY DEF Event
<1> HIDE DEF e
<1>3. stream \in Seq(Event) /\ Append(stream, e) \in Seq(Event)
      /\ Len(Append(stream, e)) = Len(stream) + 1
  BY <1>2, AppendProperties DEF RepositoryInv, TypeOK
<1>4. doubtful' \in [Subscriber -> SUBSET Container]
  BY <1>1 DEF RepositoryInv, TypeOK
<1>5. Listening'
  BY <1>1, <1>3, RepositoryBounds DEF RepositoryInv, TypeOK, Listening
<1> QED
  BY <1>1, <1>3, <1>4, <1>5, DockerKeeps DEF RepositoryInv, TypeOK

LEMMA LostKept ==
    ASSUME RepositoryInv, NEW n \in 0..MaxPending, ConnectionLost(n)
    PROVE  RepositoryInv'
<1>1. /\ open /\ n <= Len(stream) /\ open' = FALSE /\ stream' = SubSeq(stream, 1, n)
      /\ doubtful' = [k \in Subscriber |-> doubtful[k] \cup
                      {c \in Container : \E i \in (n + 1)..Len(stream) : stream[i].id = c}]
      /\ UNCHANGED <<running, gen, listener, held, dispVars, regVars, channel>>
  BY DEF ConnectionLost
<1>2. stream \in Seq(Event) /\ Len(stream) \in Nat /\ n \in Nat
  BY RepositoryBounds DEF RepositoryInv, TypeOK
<1>3. stream' \in Seq(Event) /\ Len(stream') = n
  BY <1>1, <1>2
<1>4. doubtful' \in [Subscriber -> SUBSET Container]
  BY <1>1 DEF RepositoryInv, TypeOK
<1>5. Listening'
  BY <1>1, <1>2, <1>3, RepositoryBounds DEF RepositoryInv, Listening
<1> QED
  BY <1>1, <1>3, <1>4, <1>5, DockerKeeps DEF RepositoryInv, TypeOK

LEMMA ListenerKept ==
    ASSUME RepositoryInv, ListenerExits \/ OpenStream \/ StreamEnds
    PROVE  RepositoryInv'
<1> USE RepositoryBounds
<1>1. CASE ListenerExits
  BY <1>1, DockerKeeps DEF ListenerExits, RepositoryInv, TypeOK, Listening
<1>2. CASE OpenStream
  BY <1>2, DockerKeeps DEF OpenStream, RepositoryInv, TypeOK, Listening
<1>3. CASE StreamEnds
  BY <1>3, DockerKeeps DEF StreamEnds, RepositoryInv, TypeOK, Listening
<1> QED
  BY <1>1, <1>2, <1>3

-----------------------------------------------------------------------------
(* The forwarders and the dispatcher.                                      *)

LEMMA ConnNat == MaxConn \in Nat /\ Conn \subseteq 0..MaxConn /\ Conn \subseteq Nat /\ 0 \notin Conn
BY RepositoryBounds DEF Conn

LEMMA ForwardKept ==
    ASSUME RepositoryInv, Forward
    PROVE  RepositoryInv'
<1>1. /\ stream # <<>> /\ held[gen] = <<>>
      /\ held' = [held EXCEPT ![gen] = Slot(gen, Head(stream))]
      /\ stream' = Tail(stream)
      /\ UNCHANGED <<running, gen, open, listener, dispVars, regVars, channel, doubtful>>
  BY DEF Forward, Slot
<1>2. gen \in Conn /\ listener = "streaming"
  BY <1>1 DEF RepositoryInv, Listening, TypeOK, Conn
<1>3. Head(stream) \in Event /\ Tail(stream) \in Seq(Event) /\ Len(Tail(stream)) <= MaxPending
  BY <1>1, RepositoryBounds DEF RepositoryInv, TypeOK, Listening
<1>4. Listening'
  BY <1>1, <1>2, <1>3 DEF RepositoryInv, Listening
<1>5. Forwarding'
  <2>1. Holds(Slot(gen, Head(stream)), {gen})
    BY <1>3 DEF Holds
  <2> QED
    BY <1>1, <1>2, <2>1 DEF RepositoryInv, TypeOK, Forwarding
<1>6. TypeOK'
  <2>1. Slot(gen, Head(stream)) \in AtMost(1, Message)
    BY <1>2, <1>3, ConnNat, HoldsTyped DEF Holds
  <2>2. held' \in [Conn -> AtMost(1, Message)]
    BY <1>1, <2>1 DEF RepositoryInv, TypeOK
  <2> QED
    BY <1>1, <1>3, <2>2 DEF RepositoryInv, TypeOK, dispVars, regVars
<1>7. Dispatching' /\ Registering' /\ Receiving'
  BY <1>1, Same DEF regVars
<1> QED
  BY <1>4, <1>5, <1>6, <1>7 DEF RepositoryInv

LEMMA DispatcherKept ==
    ASSUME RepositoryInv,
           (\E g \in Conn : DispatcherReceives(g)) \/ DispatcherLocks \/ DispatcherUnlocks
    PROVE  RepositoryInv'
<1>1. UNCHANGED <<dockerVars, regVars, channel, doubtful>>
  BY DEF DispatcherReceives, DispatcherLocks, DispatcherUnlocks
<1>2. Listening' /\ Registering' /\ Receiving'
  BY <1>1, Same DEF regVars
<1>3. ASSUME NEW g \in Conn, DispatcherReceives(g) PROVE RepositoryInv'
  <2>1. /\ dispatcher = "recv" /\ dispatcher' = "lock" /\ held[g] # <<>> /\ cur' = held[g]
        /\ held' = [held EXCEPT ![g] = <<>>] /\ UNCHANGED <<next, registrationMutex>>
    BY <1>3 DEF DispatcherReceives
  <2>2. Holds(cur', Conn)
    BY <2>1 DEF RepositoryInv, Forwarding, Holds, Slot
  <2>3. Dispatching'
    BY <2>1, <2>2 DEF RepositoryInv, Dispatching
  <2>4. Forwarding'
    BY <2>1 DEF RepositoryInv, TypeOK, Forwarding, Holds, Slot
  <2>5. TypeOK'
    BY <1>1, <2>1 DEF RepositoryInv, TypeOK, dockerVars, regVars, AtMost
  <2> QED
    BY <1>2, <2>3, <2>4, <2>5 DEF RepositoryInv
<1>4. CASE DispatcherLocks
  <2>1. /\ dispatcher = "lock" /\ dispatcher' = "send" /\ registrationMutex' = TRUE
        /\ UNCHANGED <<held, cur, next>>
    BY <1>4 DEF DispatcherLocks
  <2>2. Holds(cur, Conn)' /\ (cur' = <<>> <=> FALSE)
    BY <2>1 DEF RepositoryInv, Dispatching, Holds, Slot
  <2>3. Dispatching'
    BY <2>1, <2>2 DEF Dispatching
  <2>4. TypeOK'
    BY <1>1, <2>1 DEF RepositoryInv, TypeOK, dockerVars, regVars
  <2> QED
    BY <1>2, <2>1, <2>3, <2>4, Same DEF RepositoryInv
<1>5. CASE DispatcherUnlocks
  <2>1. /\ dispatcher' = "recv" /\ registrationMutex' = FALSE /\ cur' = <<>> /\ next' = 1
        /\ UNCHANGED held
    BY <1>5 DEF DispatcherUnlocks
  <2>2. Dispatching'
    BY <2>1 DEF Dispatching, Holds
  <2>3. next' \in 1..(Len(registeredChans) + 1) /\ cur' \in AtMost(1, Message)
    BY <2>1 DEF RepositoryInv, TypeOK, AtMost
  <2>4. TypeOK'
    BY <1>1, <2>1, <2>3 DEF RepositoryInv, TypeOK, dockerVars, regVars
  <2> QED
    BY <1>2, <2>1, <2>2, <2>4, Same DEF RepositoryInv
<1> QED
  BY <1>3, <1>4, <1>5

(* The capacity is that of one event, so there is one if any. *)
LEMMA EmptyChannel ==
    ASSUME RepositoryInv, NEW k \in Subscriber, Len(channel[k]) < Capacity
    PROVE  channel[k] = <<>>
<1>1. ASSUME NEW s, NEW e, channel[k] = Slot(s, e) PROVE FALSE
  BY <1>1, SlotHead DEF Capacity
<1> QED
  BY <1>1 DEF RepositoryInv, Receiving, Holds

LEMMA SendsKept ==
    ASSUME RepositoryInv, DispatcherSends
    PROVE  RepositoryInv'
<1> DEFINE d == registeredChans[next]
<1>1. /\ dispatcher = "send" /\ next <= Len(registeredChans) /\ Len(channel[d]) < Capacity
      /\ channel' = [channel EXCEPT ![d] = channel[d] \o cur]
      /\ next' = next + 1
      /\ UNCHANGED <<dockerVars, held, dispatcher, cur, registrationMutex, regVars, doubtful>>
  BY DEF DispatcherSends
<1>2. next \in 1..Len(registeredChans) /\ d \in Subscriber
  BY <1>1 DEF RepositoryInv, TypeOK
<1>3. PICK g \in Conn, e \in Event : cur = Slot(g, e)
  BY <1>1 DEF RepositoryInv, Dispatching, Holds
<1>4. channel[d] = <<>> /\ channel[d] \o cur = cur
  <2>1. channel[d] = <<>>
    BY <1>1, <1>2, EmptyChannel
  <2>2. cur \in Seq(Message)
    BY DEF RepositoryInv, TypeOK, AtMost
  <2> QED
    BY <2>1, <2>2, ConcatEmptySeq
<1>5. channel' = [channel EXCEPT ![d] = cur]
  BY <1>1, <1>4
<1>6. lister[d] # "no"
  BY <1>2 DEF RepositoryInv, Registering
<1> HIDE DEF d
<1>7. TypeOK'
  <2>1. next' \in 1..(Len(registeredChans) + 1)
    BY <1>1, <1>2
  <2>2. channel' \in [Subscriber -> AtMost(Capacity, Message)]
    BY <1>5 DEF RepositoryInv, TypeOK, Capacity
  <2> QED
    BY <1>1, <2>1, <2>2 DEF RepositoryInv, TypeOK, dockerVars, regVars
<1>8. Listening' /\ Forwarding' /\ Registering' /\ Dispatching'
  <2>1. Dispatching'
    BY <1>1 DEF RepositoryInv, Dispatching, Holds, Slot
  <2> QED
    BY <1>1, <2>1, Same DEF regVars
<1>9. Receiving'
  <2> SUFFICES ASSUME NEW k \in Subscriber
               PROVE  /\ Holds(channel'[k], 0..MaxConn)
                      /\ \A f \in Event : channel'[k] = Slot(0, f) =>
                            /\ f.action = "start" /\ f.id \notin todo[k]
                            /\ lister[k] \in {"done", "failed"}
                      /\ lister[k] = "no" => channel'[k] = <<>>
                      /\ lister[k] \in {"no", "pending"} => todo[k] = {}
    BY <1>1 DEF Receiving, regVars, Holds, Slot
  <2>1. CASE k # d
    <3>1. channel'[k] = channel[k]
      BY <1>5, <2>1 DEF RepositoryInv, TypeOK
    <3> QED
      BY <3>1 DEF RepositoryInv, Receiving
  <2>2. CASE k = d
    <3>1. channel'[k] = Slot(g, e)
      BY <1>3, <1>5, <2>2 DEF RepositoryInv, TypeOK
    <3>2. Head(Slot(g, e)).src # 0 /\ \A f : Head(Slot(0, f)).src = 0
      BY ConnNat, SlotHead
    <3>3. \A f : channel'[k] # Slot(0, f)
      BY <3>1, <3>2
    <3>4. Holds(channel'[k], 0..MaxConn)
      BY <3>1, ConnNat DEF Holds
    <3> QED
      BY <1>6, <2>2, <3>3, <3>4 DEF RepositoryInv, Receiving
  <2> QED
    BY <2>1, <2>2
<1> QED
  BY <1>7, <1>8, <1>9 DEF RepositoryInv

-----------------------------------------------------------------------------
(* The subscribers.                                                        *)

LEMMA RegisterKept ==
    ASSUME RepositoryInv, NEW k \in Subscriber, RegisterToContainersStream(k)
    PROVE  RepositoryInv'
<1> DEFINE n == Len(registeredChans)
<1>1. /\ lister[k] = "no" /\ ~registrationMutex
      /\ registeredChans' = Append(registeredChans, k)
      /\ lister' = [lister EXCEPT ![k] = "pending"]
      /\ UNCHANGED <<dockerVars, held, dispVars, todo, view, channel, doubtful>>
  BY DEF RegisterToContainersStream
<1>2. /\ registeredChans' \in Seq(Subscriber) /\ Len(registeredChans') = n + 1 /\ n \in Nat
      /\ \A i \in 1..n : registeredChans'[i] = registeredChans[i]
      /\ registeredChans'[n + 1] = k
  BY <1>1, AppendProperties DEF RepositoryInv, TypeOK
<1>3. /\ lister' \in [Subscriber -> {"no", "pending", "done", "failed"}]
      /\ lister'[k] = "pending" /\ \A d \in Subscriber \ {k} : lister'[d] = lister[d]
  BY <1>1 DEF RepositoryInv, TypeOK
<1>4. \A i \in 1..n : registeredChans[i] # k
  BY <1>1 DEF RepositoryInv, Registering
<1>5. TypeOK'
  <2>1. next' \in 1..(Len(registeredChans') + 1)
    BY <1>1, <1>2 DEF RepositoryInv, TypeOK, dispVars
  <2> QED
    BY <1>1, <1>2, <1>3, <2>1 DEF RepositoryInv, TypeOK, dockerVars, dispVars
<1>6. Registering'
  <2>1. \A i \in 1..(n + 1) : i \in 1..n \/ i = n + 1
    BY <1>2
  <2>2. ASSUME NEW i \in 1..(n + 1), NEW j \in 1..(n + 1), registeredChans'[i] = registeredChans'[j]
        PROVE  i = j
    BY <1>2, <1>4, <2>1, <2>2 DEF RepositoryInv, Registering
  <2>3. ASSUME NEW d \in Subscriber
        PROVE  lister'[d] # "no" <=> \E i \in 1..(n + 1) : registeredChans'[i] = d
    <3>1. CASE d = k
      <4>1. n + 1 \in 1..(n + 1)
        BY <1>2
      <4> QED
        BY <1>2, <1>3, <3>1, <4>1
    <3>2. CASE d # k
      <4>1. lister[d] # "no" <=> \E i \in 1..n : registeredChans[i] = d
        BY DEF RepositoryInv, Registering
      <4>2. (\E i \in 1..n : registeredChans[i] = d) <=> \E i \in 1..(n + 1) : registeredChans'[i] = d
        BY <1>2, <2>1, <3>2
      <4> QED
        BY <1>3, <3>2, <4>1, <4>2
    <3> QED
      BY <3>1, <3>2
  <2> HIDE DEF n
  <2> QED
    BY <1>2, <2>2, <2>3 DEF Registering
<1>7. Receiving'
  <2>1. channel[k] = <<>> /\ todo[k] = {}
    BY <1>1 DEF RepositoryInv, Receiving
  <2> SUFFICES ASSUME NEW d \in Subscriber
               PROVE  /\ Holds(channel[d], 0..MaxConn)
                      /\ \A f \in Event : channel[d] = Slot(0, f) =>
                            /\ f.action = "start" /\ f.id \notin todo[d]
                            /\ lister'[d] \in {"done", "failed"}
                      /\ lister'[d] = "no" => channel[d] = <<>>
                      /\ lister'[d] \in {"no", "pending"} => todo[d] = {}
    BY <1>1 DEF Receiving, Holds, Slot
  <2>2. CASE d = k
    BY SlotHead, <1>3, <2>1, <2>2 DEF Holds
  <2>3. CASE d # k
    BY <1>3, <2>3 DEF RepositoryInv, Receiving
  <2> QED
    BY <2>2, <2>3
<1> QED
  BY <1>1, <1>5, <1>6, <1>7, Same DEF RepositoryInv

(* What the lister and the receiving loop of k do to Receiving. *)
LEMMA OneReceiving ==
    ASSUME RepositoryInv, NEW k \in Subscriber, lister'[k] # "no",
           \A d \in Subscriber \ {k} : /\ channel'[d] = channel[d] /\ lister'[d] = lister[d]
                                       /\ todo'[d] = todo[d],
           Holds(channel'[k], 0..MaxConn),
           \A e \in Event : channel'[k] = Slot(0, e) =>
                /\ e.action = "start" /\ e.id \notin todo'[k]
                /\ lister'[k] \in {"done", "failed"},
           lister'[k] = "pending" => todo'[k] = {}
    PROVE  Receiving'
<1> SUFFICES ASSUME NEW d \in Subscriber
             PROVE  /\ Holds(channel'[d], 0..MaxConn)
                    /\ \A e \in Event : channel'[d] = Slot(0, e) =>
                          /\ e.action = "start" /\ e.id \notin todo'[d]
                          /\ lister'[d] \in {"done", "failed"}
                    /\ lister'[d] = "no" => channel'[d] = <<>>
                    /\ lister'[d] \in {"no", "pending"} => todo'[d] = {}
  BY DEF Receiving, Holds, Slot
<1>1. CASE d = k
  BY <1>1
<1>2. CASE d # k
  BY <1>2 DEF RepositoryInv, Receiving
<1> QED
  BY <1>1, <1>2

LEMMA ListKept ==
    ASSUME RepositoryInv, NEW k \in Subscriber, ListContainers(k) \/ ListContainersFails(k)
    PROVE  RepositoryInv'
<1>1. /\ lister[k] = "pending" /\ UNCHANGED <<dockerVars, held, dispVars, registeredChans, view, channel>>
      /\ \E a \in {"done", "failed"} : lister' = [lister EXCEPT ![k] = a]
      /\ todo' = [todo EXCEPT ![k] = running] \/ todo' = todo
  BY DEF ListContainers, ListContainersFails
<1>2. doubtful' \in [Subscriber -> SUBSET Container]
  <2>1. CASE ListContainers(k)
    BY <2>1 DEF ListContainers, RepositoryInv, TypeOK
  <2>2. CASE ListContainersFails(k)
    BY <2>2 DEF ListContainersFails, RepositoryInv, TypeOK
  <2> QED
    BY <2>1, <2>2
<1>3. /\ lister' \in [Subscriber -> {"no", "pending", "done", "failed"}]
      /\ lister'[k] \in {"done", "failed"} /\ \A d \in Subscriber \ {k} : lister'[d] = lister[d]
  BY <1>1 DEF RepositoryInv, TypeOK
<1>4. todo' \in [Subscriber -> SUBSET Container] /\ \A d \in Subscriber \ {k} : todo'[d] = todo[d]
  BY <1>1 DEF RepositoryInv, TypeOK
<1>5. TypeOK'
  BY <1>1, <1>2, <1>3, <1>4 DEF RepositoryInv, TypeOK, dockerVars, dispVars
<1>6. Registering'
  <2>1. \A d \in Subscriber : lister'[d] # "no" <=> lister[d] # "no"
    BY <1>1, <1>3
  <2> QED
    BY <1>1, <2>1 DEF RepositoryInv, Registering
<1>7. Receiving'
  <2>1. Holds(channel[k], 0..MaxConn) /\ \A e \in Event : channel[k] # Slot(0, e)
    BY <1>1 DEF RepositoryInv, Receiving
  <2> QED
    BY <1>1, <1>3, <1>4, <2>1, OneReceiving
<1> QED
  BY <1>1, <1>5, <1>6, <1>7, Same DEF RepositoryInv

LEMMA ListerKept ==
    ASSUME RepositoryInv, NEW k \in Subscriber, NEW c \in Container, ListerSends(k, c)
    PROVE  RepositoryInv'
<1> DEFINE e == [id |-> c, action |-> "start"]
<1>1. /\ c \in todo[k] /\ Len(channel[k]) < Capacity
      /\ channel' = [channel EXCEPT ![k] = Append(channel[k], [src |-> 0, event |-> e])]
      /\ todo' = [todo EXCEPT ![k] = todo[k] \ {c}]
      /\ UNCHANGED <<dockerVars, held, dispVars, registeredChans, lister, view, doubtful>>
  BY DEF ListerSends
<1>2. e \in Event /\ e.action = "start" /\ e.id = c
  BY DEF Event
<1> HIDE DEF e
<1>3. channel' = [channel EXCEPT ![k] = Slot(0, e)]
  <2>1. channel[k] = <<>>
    BY <1>1, EmptyChannel
  <2>2. Append(<<>>, [src |-> 0, event |-> e]) = Slot(0, e)
    BY DEF Slot
  <2> QED
    BY <1>1, <2>1, <2>2
<1>4. Holds(Slot(0, e), 0..MaxConn) /\ Slot(0, e) \in AtMost(1, Message)
  <2>1. Holds(Slot(0, e), 0..MaxConn)
    BY <1>2, ConnNat DEF Holds
  <2> QED
    BY <2>1, HoldsTyped
<1>5. TypeOK'
  <2>1. channel' \in [Subscriber -> AtMost(Capacity, Message)]
    BY <1>3, <1>4 DEF RepositoryInv, TypeOK, Capacity
  <2>2. todo' \in [Subscriber -> SUBSET Container]
    BY <1>1 DEF RepositoryInv, TypeOK
  <2> QED
    BY <1>1, <2>1, <2>2 DEF RepositoryInv, TypeOK, dockerVars, dispVars
<1>6. lister[k] \in {"done", "failed"}
  BY <1>1 DEF RepositoryInv, TypeOK, Receiving
<1>7. Receiving'
  <2>1. channel'[k] = Slot(0, e) /\ todo'[k] = todo[k] \ {c}
        /\ \A d \in Subscriber \ {k} : channel'[d] = channel[d] /\ todo'[d] = todo[d]
    BY <1>1, <1>3 DEF RepositoryInv, TypeOK
  <2>2. \A f \in Event : channel'[k] = Slot(0, f) => f = e
    BY <2>1 DEF Slot
  <2> QED
    BY <1>1, <1>2, <1>4, <1>6, <2>1, <2>2, OneReceiving
<1> QED
  BY <1>1, <1>5, <1>7, Same DEF RepositoryInv

LEMMA ReceivesKept ==
    ASSUME RepositoryInv, NEW k \in Subscriber, SubscriberReceives(k)
    PROVE  RepositoryInv'
<1>1. /\ channel[k] # <<>> /\ channel' = [channel EXCEPT ![k] = Tail(channel[k])]
      /\ LET e == Head(channel[k]).event IN
         view' = [view EXCEPT ![k] = IF e.action = "start" THEN view[k] \cup {e.id} ELSE view[k] \ {e.id}]
      /\ UNCHANGED <<dockerVars, held, dispVars, registeredChans, lister, todo, doubtful>>
  BY DEF SubscriberReceives
<1>2. PICK s \in 0..MaxConn, e \in Event : channel[k] = Slot(s, e)
  BY <1>1 DEF RepositoryInv, Receiving, Holds
<1>3. Head(channel[k]).event = e /\ Tail(channel[k]) = <<>>
  BY <1>2, SlotHead
<1>4. channel' = [channel EXCEPT ![k] = <<>>]
  BY <1>1, <1>3
<1>5. e.id \in Container
  BY DEF Event
<1>6. TypeOK'
  <2>1. view' \in [Subscriber -> SUBSET Container]
    BY <1>1, <1>3, <1>5 DEF RepositoryInv, TypeOK
  <2>2. <<>> \in AtMost(Capacity, Message)
    BY DEF AtMost, Capacity
  <2>3. channel' \in [Subscriber -> AtMost(Capacity, Message)]
    BY <1>4, <2>2 DEF RepositoryInv, TypeOK
  <2> QED
    BY <1>1, <2>1, <2>3 DEF RepositoryInv, TypeOK, dockerVars, dispVars
<1>7. Receiving'
  <2>1. channel'[k] = <<>> /\ \A d \in Subscriber \ {k} : channel'[d] = channel[d]
    BY <1>4 DEF RepositoryInv, TypeOK
  <2>2. lister[k] # "no" /\ (lister[k] = "pending" => todo[k] = {})
    BY <1>1 DEF RepositoryInv, Receiving
  <2>3. \A f : channel'[k] # Slot(0, f)
    BY <2>1, SlotHead
  <2>4. Holds(channel'[k], 0..MaxConn)
    BY <2>1 DEF Holds
  <2> QED
    BY <1>1, <2>1, <2>2, <2>3, <2>4, OneReceiving
<1> QED
  BY <1>1, <1>6, <1>7, Same DEF RepositoryInv

LEMMA StepKeeps ==
    ASSUME RepositoryInv, [Next]_vars
    PROVE  RepositoryInv'
<1>1. ASSUME NEW c \in Container, DockerStart(c) \/ DockerStop(c) \/ DockerDie(c) PROVE RepositoryInv'
  <2>1. CASE DockerStart(c)
    <3>1. running' \in SUBSET Container
      BY <2>1 DEF DockerStart, RepositoryInv, TypeOK
    <3> QED
      BY <2>1, <3>1, EventKept DEF DockerStart
  <2>2. CASE DockerStop(c)
    <3>1. running' \in SUBSET Container
      BY <2>2 DEF DockerStop, RepositoryInv, TypeOK
    <3> QED
      BY <2>2, <3>1, EventKept DEF DockerStop
  <2>3. CASE DockerDie(c)
    <3>1. running' \in SUBSET Container /\ doubtful' \in [Subscriber -> SUBSET Container]
      BY <2>3 DEF DockerDie, RepositoryInv, TypeOK
    <3>2. Listening'
      BY <2>3 DEF DockerDie, RepositoryInv, Listening
    <3> QED
      BY <2>3, <3>1, <3>2, DockerKeeps DEF DockerDie, RepositoryInv, TypeOK
  <2> QED
    BY <1>1, <2>1, <2>2, <2>3
<1>2. CASE ListenerExits \/ OpenStream \/ StreamEnds
  BY <1>2, ListenerKept
<1>3. ASSUME NEW n \in 0..MaxPending, ConnectionLost(n) PROVE RepositoryInv'
  BY <1>3, LostKept
<1>4. CASE Forward
  BY <1>4, ForwardKept
<1>5. CASE (\E g \in Conn : DispatcherReceives(g)) \/ DispatcherLocks \/ DispatcherUnlocks
  BY <1>5, DispatcherKept
<1>6. CASE DispatcherSends
  BY <1>6, SendsKept
<1>7. ASSUME NEW k \in Subscriber, RegisterToContainersStream(k) PROVE RepositoryInv'
  BY <1>7, RegisterKept
<1>8. ASSUME NEW k \in Subscriber, ListContainers(k) \/ ListContainersFails(k) PROVE RepositoryInv'
  BY <1>8, ListKept
<1>9. ASSUME NEW k \in Subscriber, NEW c \in Container, ListerSends(k, c) PROVE RepositoryInv'
  BY <1>9, ListerKept
<1>10. ASSUME NEW k \in Subscriber, SubscriberReceives(k) PROVE RepositoryInv'
  BY <1>10, ReceivesKept
<1>11. CASE UNCHANGED vars
  <2>1. Listening'
    BY <1>11, Same DEF vars
  <2> QED
    BY <1>11, <2>1, DockerKeeps DEF vars, dockerVars, RepositoryInv, TypeOK
<1> QED
  BY <1>1, <1>2, <1>3, <1>4, <1>5, <1>6, <1>7, <1>8, <1>9, <1>10, <1>11 DEF Next

LEMMA InvHolds == Spec => []RepositoryInv
<1>1. Init => RepositoryInv
  BY InitInv
<1>2. RepositoryInv /\ [Next]_vars => RepositoryInv'
  BY StepKeeps
<1> QED
  BY <1>1, <1>2, PTL DEF Spec

(* The variables of the repository have their types; in particular a       *)
(* channel of capacity 1 never holds more than one event.                  *)
THEOREM RepositoryTypeCorrect == Spec => []TypeOK
<1>1. RepositoryInv => TypeOK
  BY DEF RepositoryInv
<1> QED
  BY <1>1, InvHolds, PTL

-----------------------------------------------------------------------------
(* What a subscriber has yet to receive of the stream g: what is in the    *)
(* hands of the goroutines, then what Messages has yet to deliver.         *)

Given(k, g) == IF Owed(k) THEN From(cur, g) ELSE <<>>
Front(k, g) == From(channel[k], g) \o Given(k, g) \o From(held[g], g)
Rest(g) == IF g = gen THEN stream ELSE <<>>

LEMMA LiveIs ==
    ASSUME NEW k
    PROVE  /\ Live(k) = [g \in Conn |-> Live(k)[g]]
           /\ \A g \in Conn : Live(k)[g] = Front(k, g) \o Rest(g)
           /\ \A g \in Conn : Live(k)'[g] = Front(k, g)' \o Rest(g)'
BY DEF Live, Front, Given, Rest

LEMMA LiveBecomes ==
    ASSUME NEW k, NEW F, F = [g \in Conn |-> F[g]],
           \A g \in Conn : F[g] = Front(k, g)' \o Rest(g)'
    PROVE  Live(k)' = F
<1>1. Live(k)' = [g \in Conn |-> Live(k)'[g]]
  BY DEF Live
<1>2. \A g \in Conn : Live(k)'[g] = F[g]
  BY LiveIs
<1> HIDE DEF Live
<1> QED
  BY <1>1, <1>2

LEMMA LiveSame ==
    ASSUME NEW k, \A g \in Conn : Front(k, g)' \o Rest(g)' = Front(k, g) \o Rest(g)
    PROVE  Live(k)' = Live(k)
<1>1. \A g \in Conn : Live(k)[g] = Front(k, g)' \o Rest(g)'
  BY LiveIs
<1> QED
  BY <1>1, LiveIs, LiveBecomes

LEMMA FromEmpty ==
    ASSUME NEW g
    PROVE  From(<<>>, g) = <<>>
BY DEF From

LEMMA FromSlot ==
    ASSUME NEW s, NEW e, NEW g
    PROVE  /\ s = g => From(Slot(s, e), g) = <<e>>
           /\ s # g => From(Slot(s, e), g) = <<>>
BY SlotHead DEF From

LEMMA FromTyped ==
    ASSUME NEW q, NEW sources, Holds(q, sources), NEW g
    PROVE  From(q, g) \in Seq(Event) /\ Len(From(q, g)) \in Nat /\ Len(From(q, g)) <= 1
<1>1. CASE q = <<>>
  <2>1. From(q, g) = <<>>
    BY <1>1 DEF From
  <2>2. <<>> \in Seq(Event) /\ Len(<<>>) = 0
    OBVIOUS
  <2> QED
    BY <2>1, <2>2
<1>2. ASSUME NEW s \in sources, NEW e \in Event, q = Slot(s, e)
      PROVE  From(q, g) \in Seq(Event) /\ Len(From(q, g)) \in Nat /\ Len(From(q, g)) <= 1
  <2>1. CASE s = g
    <3>1. From(q, g) = <<e>>
      BY <1>2, <2>1, FromSlot
    <3> QED
      BY <3>1
  <2>2. CASE s # g
    <3>1. From(Slot(s, e), g) = <<>>
      BY <2>2, FromSlot
    <3>2. From(q, g) = <<>>
      BY <1>2, <3>1
    <3> QED
      BY <3>2
  <2> QED
    BY <2>1, <2>2
<1> QED
  BY <1>1, <1>2 DEF Holds

LEMMA FrontTyped ==
    ASSUME RepositoryInv, NEW k \in Subscriber, NEW g \in Conn
    PROVE  /\ From(channel[k], g) \in Seq(Event)
           /\ Given(k, g) \in Seq(Event)
           /\ From(held[g], g) \in Seq(Event)
           /\ Front(k, g) \in Seq(Event)
           /\ Len(Front(k, g)) \in Nat
           /\ Len(Front(k, g)) <= 3
           /\ Rest(g) \in Seq(Event)
<1> DEFINE a == From(channel[k], g)  b == Given(k, g)  c == From(held[g], g)
<1>1. a \in Seq(Event) /\ Len(a) \in Nat /\ Len(a) <= 1
  BY FromTyped DEF RepositoryInv, Receiving
<1>2. b \in Seq(Event) /\ Len(b) \in Nat /\ Len(b) <= 1
  <2>1. From(cur, g) \in Seq(Event) /\ Len(From(cur, g)) \in Nat /\ Len(From(cur, g)) <= 1
    BY FromTyped DEF RepositoryInv, Dispatching
  <2> QED
    BY <2>1 DEF Given
<1>3. c \in Seq(Event) /\ Len(c) \in Nat /\ Len(c) <= 1
  BY FromTyped DEF RepositoryInv, Forwarding
<1>4. Front(k, g) = a \o b \o c
  BY DEF Front
<1>5. Rest(g) \in Seq(Event)
  BY DEF Rest, RepositoryInv, TypeOK
<1> HIDE DEF a, b, c
<1>6. a \o b \in Seq(Event) /\ Len(a \o b) = Len(a) + Len(b)
  BY <1>1, <1>2, ConcatProperties
<1>7. (a \o b) \o c \in Seq(Event) /\ Len((a \o b) \o c) = Len(a) + Len(b) + Len(c)
  BY <1>3, <1>6, ConcatProperties
<1>8. Len(a \o b \o c) \in Nat /\ Len(a \o b \o c) <= 3
  BY <1>1, <1>2, <1>3, <1>7
<1> QED
  BY <1>1, <1>2, <1>3, <1>4, <1>5, <1>7, <1>8 DEF a, b, c

LEMMA LiveTyped ==
    ASSUME RepositoryInv, NEW k \in Subscriber
    PROVE  Live(k) \in [Conn -> Seq(Event)]
<1>1. \A g \in Conn : Front(k, g) \o Rest(g) \in Seq(Event)
  BY FrontTyped, ConcatProperties
<1>2. \A g \in Conn : Live(k)[g] \in Seq(Event)
  BY <1>1, LiveIs
<1> QED
  BY <1>2, LiveIs

(* How concatenation goes with the operators that the steps use. *)
LEMMA ConcatAppend ==
    ASSUME NEW S, NEW s \in Seq(S), NEW t \in Seq(S), NEW e \in S
    PROVE  s \o Append(t, e) = Append(s \o t, e)
<1>1. <<e>> \in Seq(S)
  OBVIOUS
<1>2. Append(t, e) = t \o <<e>>
  BY AppendIsConcat
<1>3. s \o t \in Seq(S) /\ Append(s \o t, e) = (s \o t) \o <<e>>
  BY AppendIsConcat, ConcatProperties
<1> QED
  BY <1>1, <1>2, <1>3, ConcatAssociative

LEMMA ConcatSubSeq ==
    ASSUME NEW S, NEW s \in Seq(S), NEW t \in Seq(S), NEW n \in Nat, n <= Len(t)
    PROVE  SubSeq(s \o t, 1, Len(s) + n) = s \o SubSeq(t, 1, n)
<1> DEFINE u == SubSeq(t, 1, n)
<1>1. u \in Seq(S) /\ Len(u) = n /\ \A i \in 1..n : u[i] = t[i]
  OBVIOUS
<1>2. Len(s) \in Nat /\ Len(t) \in Nat
  OBVIOUS
<1>3. /\ s \o t \in Seq(S) /\ Len(s \o t) = Len(s) + Len(t)
      /\ \A i \in 1..Len(s) : (s \o t)[i] = s[i]
      /\ \A i \in (Len(s) + 1)..(Len(s) + Len(t)) : (s \o t)[i] = t[i - Len(s)]
  OBVIOUS
<1> HIDE DEF u
<1>4. /\ s \o u \in Seq(S) /\ Len(s \o u) = Len(s) + n
      /\ \A i \in 1..Len(s) : (s \o u)[i] = s[i]
      /\ \A i \in (Len(s) + 1)..(Len(s) + n) : (s \o u)[i] = u[i - Len(s)]
  BY <1>1
<1> DEFINE w == s \o t  m == Len(s) + n
<1>5. w \in Seq(S) /\ m \in Nat /\ m <= Len(w)
  BY <1>2, <1>3
<1> HIDE DEF w, m
<1>6. /\ SubSeq(w, 1, m) \in Seq(S) /\ Len(SubSeq(w, 1, m)) = m
      /\ \A i \in 1..m : SubSeq(w, 1, m)[i] = w[i]
  BY <1>5
<1>7. ASSUME NEW i \in 1..m PROVE w[i] = (s \o u)[i]
  <2>0. i \in Int /\ Len(s) \in Int
    BY <1>2
  <2>1. CASE i <= Len(s)
    BY <1>2, <1>3, <1>4, <2>1 DEF w, m
  <2>2. CASE i > Len(s)
    <3>1. i \in (Len(s) + 1)..(Len(s) + n) /\ i \in (Len(s) + 1)..(Len(s) + Len(t)) /\ i - Len(s) \in 1..n
      BY <1>2, <2>2 DEF m
    <3> QED
      BY <1>1, <1>3, <1>4, <3>1 DEF w
  <2> QED
    <3>1. i <= Len(s) \/ i > Len(s)
      BY <2>0
    <3> QED
      BY <2>1, <2>2, <3>1, Zenon
<1>8. SubSeq(w, 1, m) = s \o u
  BY <1>4, <1>6, <1>7, SeqEqual DEF m
<1> QED
  BY <1>8 DEF w, m, u

LEMMA ConcatHead ==
    ASSUME NEW S, NEW e \in S, NEW t \in Seq(S)
    PROVE  <<e>> \o t # <<>> /\ Head(<<e>> \o t) = e /\ Tail(<<e>> \o t) = t
<1>1. <<e>> \in Seq(S) /\ Len(<<e>>) = 1 /\ <<e>>[1] = e
  OBVIOUS
<1> DEFINE w == <<e>> \o t
<1>2. /\ w \in Seq(S) /\ Len(w) = 1 + Len(t) /\ Len(t) \in Nat /\ w[1] = e
      /\ \A i \in 1..Len(t) : w[i + 1] = t[i]
  BY <1>1, ConcatProperties
<1> HIDE DEF w
<1>3. w # <<>> /\ Head(w) = e
  BY <1>2
<1>4. Tail(w) \in Seq(S) /\ Len(Tail(w)) = Len(t) /\ \A i \in 1..Len(t) : Tail(w)[i] = w[i + 1]
  BY <1>2, <1>3
<1>5. Tail(w) = t
  BY <1>2, <1>4, SeqEqual
<1> QED
  BY <1>3, <1>5 DEF w

-----------------------------------------------------------------------------
(* A step of the repository is a step of the stream of k or leaves it      *)
(* alone.                                                                  *)

(* What is left to hear of a listing when the slot is q and T unsent. *)
Unheard(q, T) == T \cup {m.id : m \in {e \in Event : From(q, 0) = <<e>>}}

LEMMA ListedIs ==
    ASSUME NEW k
    PROVE  ListedFor(k) = Unheard(channel[k], todo[k]) /\ ListedFor(k)' = Unheard(channel'[k], todo'[k])
BY DEF ListedFor, Unheard, From

LEMMA UnheardIs ==
    ASSUME NEW T, NEW s, NEW e \in Event
    PROVE  /\ Unheard(<<>>, T) = T
           /\ s # 0 => Unheard(Slot(s, e), T) = T
           /\ Unheard(Slot(0, e), T) = T \cup {e.id}
<1>1. \A f : <<>> # <<f>>
  OBVIOUS
<1>2. \A f : <<e>> = <<f>> => f = e
  OBVIOUS
<1>3. Unheard(<<>>, T) = T
  BY <1>1, FromEmpty DEF Unheard
<1>4. ASSUME s # 0 PROVE Unheard(Slot(s, e), T) = T
  BY <1>1, <1>4, FromSlot DEF Unheard
<1>5. Unheard(Slot(0, e), T) = T \cup {e.id}
  <2>1. From(Slot(0, e), 0) = <<e>>
    BY FromSlot
  <2>2. {f \in Event : From(Slot(0, e), 0) = <<f>>} = {e}
    BY <1>2, <2>1
  <2> QED
    BY <2>2 DEF Unheard
<1> QED
  BY <1>3, <1>4, <1>5

LEMMA Stutters ==
    ASSUME NEW k, UNCHANGED <<running, gen, open>>, Live(k)' = Live(k), lister'[k] = lister[k],
           ListedFor(k)' = ListedFor(k), view'[k] = view[k], doubtful'[k] = doubtful[k]
    PROVE  UNCHANGED Stream(k)!vars
BY DEF Stream!vars, Stream!dockerVars, Stream!streamVars

(* What the daemon and the listener do is invisible to the goroutines. *)
LEMMA FrontSame ==
    ASSUME UNCHANGED <<held, dispVars, registeredChans>>, NEW k, channel'[k] = channel[k], NEW g
    PROVE  Front(k, g)' = Front(k, g)
BY DEF Front, Given, From, Owed, dispVars

LEMMA SimInit ==
    ASSUME Init, NEW k \in Subscriber
    PROVE  Stream(k)!Init
<1>1. /\ channel[k] = <<>> /\ ~Owed(k) /\ stream = <<>> /\ \A g \in Conn : held[g] = <<>>
      /\ lister[k] = "no" /\ todo[k] = {} /\ view[k] = {} /\ doubtful[k] = {}
  BY DEF Init, Owed
<1>2. \A g \in Conn : Front(k, g) = <<>> \o <<>> \o <<>> /\ Rest(g) = <<>>
  BY <1>1, FromEmpty DEF Front, Given, Rest
<1>3. <<>> \o <<>> = <<>>
  BY ConcatEmptySeq, EmptySeq
<1>4. Live(k) = [g \in Conn |-> <<>>]
  <2>1. \A g \in Conn : Live(k)[g] = <<>>
    BY <1>2, <1>3, LiveIs
  <2> QED
    BY <2>1, LiveIs
<1>5. ListedFor(k) = {}
  <2>1. \A f : <<>> # <<f>>
    OBVIOUS
  <2> QED
    BY <1>1, <2>1, FromEmpty DEF ListedFor
<1> QED
  BY <1>1, <1>4, <1>5 DEF Init, Stream!Init, Stream!Conn, Conn

LEMMA SimPublish ==
    ASSUME RepositoryInv, NEW k \in Subscriber, NEW c \in Container, NEW action \in {"start", "stop"},
           NEW D, DockerEvent(c, action, D)
    PROVE  /\ Stream(k)!Room
           /\ Stream(k)!Publish([id |-> c, action |-> action])
           /\ doubtful'[k] = IF k \in D THEN doubtful[k] \cup {c} ELSE doubtful[k] \ {c}
           /\ gen' = gen /\ open' = open /\ lister'[k] = lister[k]
           /\ ListedFor(k)' = ListedFor(k) /\ view'[k] = view[k]
<1> DEFINE e == [id |-> c, action |-> action]
<1>1. /\ open => Len(stream) < MaxPending
      /\ stream' = IF open THEN Append(stream, e) ELSE stream
      /\ doubtful' = [d \in Subscriber |-> IF d \in D THEN doubtful[d] \cup {c}
                                                       ELSE doubtful[d] \ {c}]
      /\ UNCHANGED <<gen, open, held, dispVars, regVars, channel>>
  BY DEF DockerEvent
<1>2. e \in Event
  BY DEF Event
<1> HIDE DEF e
<1>3. /\ gen' = gen /\ open' = open /\ lister'[k] = lister[k] /\ view'[k] = view[k]
      /\ ListedFor(k)' = ListedFor(k) /\ \A g \in Conn : Front(k, g)' = Front(k, g)
  <2>1. UNCHANGED <<registeredChans, lister, todo, view>>
    BY <1>1 DEF regVars
  <2> QED
    BY <1>1, <2>1, FrontSame, ListedIs
<1>4. open => gen \in Conn
  BY DEF RepositoryInv, TypeOK, Listening, Conn
<1>5. stream \in Seq(Event)
  BY DEF RepositoryInv, TypeOK
<1>6. CASE open
  <2>1. Live(k)[gen] = Front(k, gen) \o stream
    BY <1>4, <1>6, LiveIs DEF Rest
  <2>2. Len(Live(k)[gen]) = Len(Front(k, gen)) + Len(stream)
    BY <1>4, <1>5, <1>6, <2>1, FrontTyped, ConcatProperties
  <2>3. Len(Live(k)[gen]) < MaxPending + 3
    BY <1>1, <1>4, <1>5, <1>6, <2>2, FrontTyped, RepositoryBounds
  <2>4. Live(k)' = [Live(k) EXCEPT ![gen] = Append(Live(k)[gen], e)]
    <3>1. Front(k, gen) \o Append(stream, e) = Append(Front(k, gen) \o stream, e)
      BY <1>2, <1>4, <1>5, <1>6, FrontTyped, ConcatAppend
    <3>2. ASSUME NEW g \in Conn
          PROVE  [Live(k) EXCEPT ![gen] = Append(Live(k)[gen], e)][g] = Front(k, g)' \o Rest(g)'
      <4>1. CASE g = gen
        <5>1. Rest(g)' = Append(stream, e) /\ Front(k, g)' = Front(k, gen)
          BY <1>1, <1>3, <1>6, <4>1 DEF Rest
        <5> QED
          BY <2>1, <3>1, <4>1, <5>1, LiveTyped
      <4>2. CASE g # gen
        <5>1. Rest(g)' = Rest(g) /\ Front(k, g)' = Front(k, g)
          BY <1>1, <1>3, <4>2 DEF Rest
        <5> QED
          BY <4>2, <5>1, LiveTyped, LiveIs
      <4> QED
        BY <4>1, <4>2
    <3> QED
      BY <3>2, LiveBecomes, LiveTyped
  <2> QED
    BY <1>1, <1>3, <1>6, <2>3, <2>4 DEF Stream!Room, Stream!Publish, e
<1>7. CASE ~open
  <2>1. \A g : Rest(g)' = Rest(g)
    BY <1>1, <1>7 DEF Rest
  <2>2. Live(k)' = Live(k)
    BY <1>3, <2>1, LiveSame
  <2> QED
    BY <1>1, <1>3, <1>7, <2>2 DEF Stream!Room, Stream!Publish
<1> QED
  BY <1>6, <1>7

LEMMA SimDocker ==
    ASSUME RepositoryInv, NEW k \in Subscriber, NEW c \in Container
    PROVE  /\ DockerStart(c) => Stream(k)!DockerStart(c)
           /\ DockerStop(c) => Stream(k)!DockerStop(c)
           /\ DockerDie(c) => Stream(k)!DockerDie(c)
<1>1. ASSUME DockerStart(c) PROVE Stream(k)!DockerStart(c)
  <2> DEFINE D == {d \in Subscriber : Stream(d)!StartDoubt(c)}
  <2>1. DockerEvent(c, "start", D)
    BY <1>1 DEF DockerStart
  <2>2. k \in D <=> Stream(k)!StartDoubt(c)
    OBVIOUS
  <2> HIDE DEF D
  <2>3. Stream(k)!Doubt(c, Stream(k)!StartDoubt(c))
    BY <2>1, <2>2, SimPublish DEF Stream!Doubt
  <2> QED
    BY <1>1, <2>1, <2>3, SimPublish DEF DockerStart, Stream!DockerStart
<1>2. ASSUME DockerStop(c) PROVE Stream(k)!DockerStop(c)
  <2> DEFINE D == {d \in Subscriber : Stream(d)!StopDoubt(c)}
  <2>1. DockerEvent(c, "stop", D)
    BY <1>2 DEF DockerStop
  <2>2. k \in D <=> Stream(k)!StopDoubt(c)
    OBVIOUS
  <2> HIDE DEF D
  <2>3. Stream(k)!Doubt(c, Stream(k)!StopDoubt(c))
    BY <2>1, <2>2, SimPublish DEF Stream!Doubt
  <2> QED
    BY <1>2, <2>1, <2>3, SimPublish DEF DockerStop, Stream!DockerStop
<1>3. ASSUME DockerDie(c) PROVE Stream(k)!DockerDie(c)
  <2>1. /\ c \in running /\ running' = running \ {c} /\ doubtful'[k] = doubtful[k] \cup {c}
        /\ UNCHANGED <<gen, open, stream, held, dispVars, registeredChans, lister, todo, view, channel>>
    BY <1>3 DEF DockerDie, regVars
  <2>2. /\ \A g : Front(k, g)' = Front(k, g) /\ Rest(g)' = Rest(g)
        /\ ListedFor(k)' = ListedFor(k)
    BY <2>1, FrontSame, ListedIs DEF Rest
  <2>3. Live(k)' = Live(k)
    BY <2>2, LiveSame
  <2> QED
    BY <2>1, <2>2, <2>3 DEF Stream!DockerDie
<1> QED
  BY <1>1, <1>2, <1>3

LEMMA SimListener ==
    ASSUME RepositoryInv, NEW k \in Subscriber
    PROVE  /\ OpenStream => Stream(k)!Open
           /\ ListenerExits \/ StreamEnds => UNCHANGED Stream(k)!vars
<1>1. ASSUME OpenStream \/ ListenerExits \/ StreamEnds
      PROVE  /\ Live(k)' = Live(k) /\ ListedFor(k)' = ListedFor(k) /\ stream = <<>>
             /\ UNCHANGED <<running, lister, view, doubtful>>
  <2>1. UNCHANGED <<running, stream, held, dispVars, registeredChans, lister, todo, view, channel, doubtful>>
    BY <1>1 DEF OpenStream, ListenerExits, StreamEnds, regVars
  <2>2. stream = <<>>
    BY <1>1 DEF OpenStream, ListenerExits, StreamEnds, RepositoryInv, Listening
  <2>3. \A g : Front(k, g)' = Front(k, g) /\ Rest(g)' = Rest(g)
    BY <2>1, <2>2, FrontSame DEF Rest
  <2>4. Live(k)' = Live(k)
    BY <2>3, LiveSame
  <2> QED
    BY <2>1, <2>2, <2>4, ListedIs
<1>2. ASSUME OpenStream PROVE Stream(k)!Open
  <2>1. ~open /\ gen < MaxConn /\ gen' = gen + 1 /\ open' = TRUE
    BY <1>2 DEF OpenStream, RepositoryInv, Listening
  <2> QED
    BY <1>1, <1>2, <2>1 DEF Stream!Open, Stream!streamVars
<1>3. ASSUME ListenerExits \/ StreamEnds PROVE UNCHANGED Stream(k)!vars
  <2>1. UNCHANGED <<gen, open>>
    BY <1>3 DEF ListenerExits, StreamEnds
  <2> QED
    BY <1>1, <1>3, <2>1, Stutters
<1> QED
  BY <1>2, <1>3

(* The events in the hands of the goroutines survive a lost connection. *)
LEMMA SimLost ==
    ASSUME RepositoryInv, NEW k \in Subscriber, NEW n \in 0..MaxPending, ConnectionLost(n)
    PROVE  \E m \in 0..(MaxPending + 3) : Stream(k)!Close(m)
<1> DEFINE F == Front(k, gen)  m == Len(F) + n
<1>1. /\ open /\ gen < MaxConn /\ n <= Len(stream) /\ open' = FALSE /\ stream' = SubSeq(stream, 1, n)
      /\ doubtful' = [d \in Subscriber |-> doubtful[d] \cup
                      {c \in Container : \E i \in (n + 1)..Len(stream) : stream[i].id = c}]
      /\ UNCHANGED <<running, gen, held, dispVars, registeredChans, lister, todo, view, channel>>
  BY DEF ConnectionLost, regVars
<1>2. gen \in Conn /\ stream \in Seq(Event) /\ n \in Nat /\ Len(stream) \in Nat
  BY <1>1, RepositoryBounds DEF RepositoryInv, TypeOK, Listening, Conn
<1>3. F \in Seq(Event) /\ Len(F) \in Nat /\ Len(F) <= 3
  BY <1>2, FrontTyped
<1>4. Live(k)[gen] = F \o stream
  BY <1>2, LiveIs DEF Rest
<1> HIDE DEF F
<1>5. m \in 0..(MaxPending + 3) /\ m \in Nat
  BY <1>2, <1>3, RepositoryBounds
<1>6. /\ F \o stream \in Seq(Event)
      /\ Len(F \o stream) = Len(F) + Len(stream)
      /\ \A i \in 1..(Len(F) + Len(stream)) : (F \o stream)[i] = IF i <= Len(F) THEN F[i] ELSE stream[i - Len(F)]
  BY <1>2, <1>3, ConcatProperties
<1>7. m <= Len(Live(k)[gen])
  BY <1>1, <1>2, <1>3, <1>4, <1>6
<1>8. Live(k)' = [Live(k) EXCEPT ![gen] = SubSeq(Live(k)[gen], 1, m)]
  <2>1. SubSeq(F \o stream, 1, m) = F \o SubSeq(stream, 1, n)
    BY <1>1, <1>2, <1>3, ConcatSubSeq
  <2>2. ASSUME NEW g \in Conn
        PROVE  [Live(k) EXCEPT ![gen] = SubSeq(Live(k)[gen], 1, m)][g] = Front(k, g)' \o Rest(g)'
    <3>1. CASE g = gen
      <4>1. Rest(g)' = SubSeq(stream, 1, n) /\ Front(k, g)' = F
        BY <1>1, <3>1, FrontSame DEF Rest, F
      <4> QED
        BY <1>4, <2>1, <3>1, <4>1, LiveTyped
    <3>2. CASE g # gen
      <4>1. Rest(g)' = Rest(g) /\ Front(k, g)' = Front(k, g)
        BY <1>1, <3>2, FrontSame DEF Rest
      <4> QED
        BY <3>2, <4>1, LiveTyped, LiveIs
    <3> QED
      BY <3>1, <3>2
  <2> HIDE DEF m
  <2> QED
    BY <2>2, LiveBecomes, LiveTyped
<1>9. ASSUME NEW c
      PROVE  (\E i \in (n + 1)..Len(stream) : stream[i].id = c)
                <=> \E i \in (m + 1)..Len(Live(k)[gen]) : Live(k)[gen][i].id = c
  <2>1. ASSUME NEW i \in (n + 1)..Len(stream)
        PROVE  Len(F) + i \in (m + 1)..Len(Live(k)[gen]) /\ Live(k)[gen][Len(F) + i] = stream[i]
    BY <1>2, <1>3, <1>4, <1>6
  <2>2. ASSUME NEW i \in (m + 1)..Len(Live(k)[gen])
        PROVE  i - Len(F) \in (n + 1)..Len(stream) /\ Live(k)[gen][i] = stream[i - Len(F)]
    BY <1>2, <1>3, <1>4, <1>6
  <2> HIDE DEF m
  <2> QED
    BY <2>1, <2>2
<1>10. doubtful'[k] = doubtful[k] \cup
          {c \in Container : \E i \in (m + 1)..Len(Live(k)[gen]) : Live(k)[gen][i].id = c}
  <2> HIDE DEF m
  <2> QED
    BY <1>1, <1>9
<1>11. ListedFor(k)' = ListedFor(k)
  BY <1>1, ListedIs
<1> HIDE DEF m
<1>12. Stream(k)!Close(m)
  BY <1>1, <1>7, <1>8, <1>10, <1>11 DEF Stream!Close
<1> QED
  BY <1>5, <1>12

(* An event moves on to the forwarder. *)
LEMMA SimForward ==
    ASSUME RepositoryInv, NEW k \in Subscriber, Forward
    PROVE  UNCHANGED Stream(k)!vars
<1> DEFINE e == Head(stream)  a == From(channel[k], gen) \o Given(k, gen)
<1>1. /\ stream # <<>> /\ held[gen] = <<>> /\ held' = [held EXCEPT ![gen] = Slot(gen, e)]
      /\ stream' = Tail(stream)
      /\ UNCHANGED <<running, gen, open, dispVars, registeredChans, lister, todo, view, channel, doubtful>>
  BY DEF Forward, Slot, regVars
<1>2. gen \in Conn /\ stream \in Seq(Event) /\ e \in Event /\ Tail(stream) \in Seq(Event)
  BY <1>1 DEF RepositoryInv, TypeOK, Listening, Conn
<1>3. a \in Seq(Event)
  BY <1>2, FrontTyped, ConcatProperties
<1>4. \A g \in Conn : From(channel'[k], g) \o Given(k, g)' = From(channel[k], g) \o Given(k, g)
  BY <1>1 DEF Given, Owed, From, dispVars
<1>5. ASSUME NEW g \in Conn PROVE Front(k, g)' \o Rest(g)' = Front(k, g) \o Rest(g)
  <2>1. CASE g # gen
    <3>1. held'[g] = held[g] /\ Rest(g)' = Rest(g)
      BY <1>1, <2>1 DEF RepositoryInv, TypeOK, Rest
    <3>2. Front(k, g)' = Front(k, g)
      BY <1>4, <3>1 DEF Front, From
    <3> QED
      BY <3>1, <3>2
  <2>2. CASE g = gen
    <3>1. From(held[g], g) = <<>> /\ From(held'[g], g) = <<e>>
      BY <1>1, <1>2, <2>2, FromEmpty, FromSlot DEF RepositoryInv, TypeOK
    <3>2. Front(k, g) = a \o <<>> /\ Front(k, g)' = a \o <<e>>
      BY <1>4, <2>2, <3>1 DEF Front, From
    <3>3. Rest(g) = stream /\ Rest(g)' = Tail(stream)
      BY <1>1, <2>2 DEF Rest
    <3>4. <<e>> \in Seq(Event) /\ <<e>> \o Tail(stream) = stream
      <4>1. <<e>> \in Seq(Event)
        BY <1>2
      <4>2. stream = <<Head(stream)>> \o Tail(stream)
        BY <1>1, <1>2
      <4> QED
        BY <4>1, <4>2
    <3> HIDE DEF a, e
    <3>5. a \o <<>> = a
      BY <1>3, ConcatEmptySeq
    <3>6. (a \o <<e>>) \o Tail(stream) = a \o (<<e>> \o Tail(stream))
      BY <1>2, <1>3, <3>4, ConcatAssociative
    <3> QED
      BY <3>2, <3>3, <3>4, <3>5, <3>6
  <2> QED
    BY <2>1, <2>2
<1>6. Live(k)' = Live(k)
  BY <1>5, LiveSame
<1> QED
  BY <1>1, <1>6, ListedIs, Stutters

-----------------------------------------------------------------------------
(* An event passes through the dispatcher's hands. *)

LEMMA SimReceives ==
    ASSUME RepositoryInv, NEW k \in Subscriber, NEW h \in Conn, DispatcherReceives(h)
    PROVE  UNCHANGED Stream(k)!vars
<1>1. /\ dispatcher = "recv" /\ held[h] # <<>> /\ cur' = held[h]
      /\ held' = [held EXCEPT ![h] = <<>>] /\ dispatcher' = "lock"
      /\ UNCHANGED <<running, gen, open, stream, lister, todo, view, channel, doubtful>>
  BY DEF DispatcherReceives, dockerVars, regVars
<1>2. ~Owed(k) /\ Owed(k)'
  BY <1>1 DEF Owed
<1>3. PICK e \in Event : held[h] = Slot(h, e)
  BY <1>1 DEF RepositoryInv, Forwarding, Holds
<1>4. ASSUME NEW g \in Conn PROVE Front(k, g)' \o Rest(g)' = Front(k, g) \o Rest(g)
  <2> DEFINE a == From(channel[k], g)  b == From(held[g], g)
  <2>1. a \in Seq(Event) /\ b \in Seq(Event)
    BY FrontTyped
  <2>2. Front(k, g) = a \o <<>> \o b
    BY <1>2 DEF Front, Given
  <2>3. Front(k, g)' = a \o From(held[h], g) \o From(held'[g], g)
    BY <1>1, <1>2 DEF Front, Given, From
  <2>4. Rest(g)' = Rest(g)
    BY <1>1 DEF Rest
  <2>5. a \o <<>> = a /\ a \o b \in Seq(Event)
    BY <2>1, ConcatEmptySeq, ConcatProperties
  <2>6. CASE g = h
    <3>1. From(held'[g], g) = <<>>
      BY <1>1, <2>6, FromEmpty DEF RepositoryInv, TypeOK
    <3>2. Front(k, g)' = a \o b \o <<>>
      BY <2>3, <2>6, <3>1
    <3>3. a \o b \o <<>> = a \o b
      BY <2>5, ConcatEmptySeq
    <3> QED
      BY <2>2, <2>4, <2>5, <3>2, <3>3
  <2>7. CASE g # h
    <3>1. held'[g] = held[g]
      BY <1>1, <2>7 DEF RepositoryInv, TypeOK
    <3>2. From(held[h], g) = <<>>
      BY <1>3, <2>7, FromSlot
    <3> QED
      BY <2>2, <2>3, <2>4, <3>1, <3>2
  <2> QED
    BY <2>6, <2>7
<1>5. Live(k)' = Live(k)
  BY <1>4, LiveSame
<1> QED
  BY <1>1, <1>5, ListedIs, Stutters

(* With the mutex, the dispatcher knows whom to send to: for a subscriber  *)
(* that has not registered, this is when the event is lost.                *)
LEMMA SimLocks ==
    ASSUME RepositoryInv, NEW k \in Subscriber, DispatcherLocks
    PROVE  UNCHANGED Stream(k)!vars \/ \E g \in Conn : Stream(k)!ReceiveLive(g)
<1>1. /\ dispatcher = "lock" /\ dispatcher' = "send"
      /\ UNCHANGED <<running, gen, open, stream, held, cur, next, registeredChans, lister, todo, view,
                     channel, doubtful>>
  BY DEF DispatcherLocks, dockerVars, regVars
<1>2. PICK h \in Conn, e \in Event : cur = Slot(h, e)
  BY <1>1 DEF RepositoryInv, Dispatching, Holds
<1>3. Owed(k) /\ (Owed(k)' <=> lister[k] # "no")
  <2>1. next = 1
    BY <1>1 DEF RepositoryInv, Dispatching
  <2> QED
    BY <1>1, <2>1 DEF Owed, RepositoryInv, Registering
<1>4. \A g : Rest(g)' = Rest(g) /\ From(channel'[k], g) = From(channel[k], g)
             /\ From(held'[g], g) = From(held[g], g) /\ From(cur', g) = From(cur, g)
  BY <1>1 DEF Rest
<1>5. ListedFor(k)' = ListedFor(k)
  BY <1>1, ListedIs
<1>6. CASE lister[k] # "no"
  <2>1. \A g : Front(k, g)' = Front(k, g)
    BY <1>3, <1>4, <1>6 DEF Front, Given, From
  <2>2. Live(k)' = Live(k)
    BY <1>4, <2>1, LiveSame
  <2> QED
    BY <1>1, <1>5, <2>2, Stutters
<1>7. CASE lister[k] = "no"
  <2>1. channel[k] = <<>>
    BY <1>7 DEF RepositoryInv, Receiving
  <2> DEFINE b(g) == From(held[g], g)  t(g) == b(g) \o Rest(g)
  <2>2. ASSUME NEW g \in Conn
        PROVE  /\ Front(k, g)' \o Rest(g)' = t(g) /\ t(g) \in Seq(Event)
               /\ Live(k)[g] = From(cur, g) \o t(g)
    <3>1. b(g) \in Seq(Event) /\ Rest(g) \in Seq(Event) /\ From(cur, g) \in Seq(Event)
      <4>1. Given(k, g) = From(cur, g)
        BY <1>3 DEF Given
      <4> QED
        BY <4>1, FrontTyped
    <3>2. From(channel[k], g) = <<>>
      BY <2>1, FromEmpty
    <3>3. Front(k, g)' = <<>> \o <<>> \o b(g) /\ Front(k, g) = <<>> \o From(cur, g) \o b(g)
      BY <1>3, <1>4, <1>7, <3>2 DEF Front, Given, From
    <3> HIDE DEF b
    <3>4. <<>> \o <<>> = <<>> /\ <<>> \o b(g) = b(g) /\ <<>> \o From(cur, g) = From(cur, g)
      BY <3>1, ConcatEmptySeq, EmptySeq
    <3>5. (From(cur, g) \o b(g)) \o Rest(g) = From(cur, g) \o (b(g) \o Rest(g))
      BY <3>1, ConcatAssociative
    <3>6. Live(k)[g] = Front(k, g) \o Rest(g)
      BY LiveIs
    <3>7. b(g) \o Rest(g) \in Seq(Event)
      BY <3>1, ConcatProperties
    <3> QED
      BY <1>4, <3>3, <3>4, <3>5, <3>6, <3>7
  <2> HIDE DEF t, b
  <2>3. Live(k)[h] # <<>> /\ Tail(Live(k)[h]) = t(h)
    <3>1. Live(k)[h] = <<e>> \o t(h)
      BY <1>2, <2>2, FromSlot
    <3> QED
      BY <2>2, <3>1, ConcatHead
  <2>4. ASSUME NEW g \in Conn
        PROVE  [Live(k) EXCEPT ![h] = Tail(Live(k)[h])][g] = Front(k, g)' \o Rest(g)'
    <3>1. CASE g = h
      BY <2>2, <2>3, <3>1, LiveTyped
    <3>2. CASE g # h
      <4>1. From(cur, g) = <<>>
        BY <1>2, <3>2, FromSlot
      <4>2. Live(k)[g] = t(g)
        BY <2>2, <4>1, ConcatEmptySeq
      <4> QED
        BY <2>2, <3>2, <4>2, LiveTyped
    <3> QED
      BY <3>1, <3>2
  <2>5. Live(k)' = [Live(k) EXCEPT ![h] = Tail(Live(k)[h])]
    BY <2>4, LiveBecomes, LiveTyped
  <2>6. Stream(k)!ReceiveLive(h)
    BY <1>1, <1>5, <1>7, <2>3, <2>5 DEF Stream!ReceiveLive, Stream!Subscribed, Stream!dockerVars
  <2> QED
    BY <2>6
<1> QED
  BY <1>6, <1>7

(* The event goes from the dispatcher's hands into a channel. *)
LEMMA SimSends ==
    ASSUME RepositoryInv, NEW k \in Subscriber, DispatcherSends
    PROVE  UNCHANGED Stream(k)!vars
<1> DEFINE d == registeredChans[next]
<1>1. /\ dispatcher = "send" /\ next <= Len(registeredChans) /\ Len(channel[d]) < Capacity
      /\ channel' = [channel EXCEPT ![d] = channel[d] \o cur] /\ next' = next + 1
      /\ UNCHANGED <<running, gen, open, stream, held, dispatcher, cur, registeredChans, lister, todo,
                     view, doubtful>>
  BY DEF DispatcherSends, dockerVars, regVars
<1>2. next \in 1..Len(registeredChans) /\ Len(registeredChans) \in Nat /\ d \in Subscriber
  BY <1>1 DEF RepositoryInv, TypeOK
<1>3. channel[d] = <<>> /\ channel'[d] = cur
  <2>1. channel[d] = <<>>
    BY <1>1, <1>2, EmptyChannel
  <2>2. cur \in Seq(Message)
    BY DEF RepositoryInv, TypeOK, AtMost
  <2>3. channel[d] \o cur = cur
    BY <2>1, <2>2, ConcatEmptySeq
  <2> QED
    BY <1>1, <1>2, <2>1, <2>3 DEF RepositoryInv, TypeOK
<1>4. \A g : Rest(g)' = Rest(g) /\ From(held'[g], g) = From(held[g], g) /\ From(cur', g) = From(cur, g)
  BY <1>1 DEF Rest
<1>5. CASE k # d
  <2>1. channel'[k] = channel[k]
    BY <1>1, <1>5 DEF RepositoryInv, TypeOK
  <2>2. Owed(k)' <=> Owed(k)
    <3>1. \A i \in next..Len(registeredChans) : registeredChans[i] = k => i \in (next + 1)..Len(registeredChans)
      BY <1>2, <1>5
    <3>2. \A i \in (next + 1)..Len(registeredChans) : i \in next..Len(registeredChans)
      BY <1>2
    <3> QED
      BY <1>1, <3>1, <3>2 DEF Owed
  <2>3. \A g : Front(k, g)' = Front(k, g)
    BY <1>4, <2>1, <2>2 DEF Front, Given, From
  <2>4. Live(k)' = Live(k)
    BY <1>4, <2>3, LiveSame
  <2> QED
    BY <1>1, <2>1, <2>4, ListedIs, Stutters
<1>6. CASE k = d
  <2>1. Owed(k) /\ ~Owed(k)'
    <3>1. next \in next..Len(registeredChans)
      BY <1>2
    <3>2. \A i \in (next + 1)..Len(registeredChans) : i \in 1..Len(registeredChans) /\ i # next
      BY <1>2
    <3>3. \A i \in (next + 1)..Len(registeredChans) : registeredChans[i] # d
      BY <1>2, <3>2 DEF RepositoryInv, Registering
    <3> QED
      BY <1>1, <1>6, <3>1, <3>3 DEF Owed
  <2>2. ASSUME NEW g \in Conn PROVE Front(k, g)' = Front(k, g)
    <3>1. Front(k, g) = <<>> \o From(cur, g) \o From(held[g], g)
      BY <1>3, <1>6, <2>1, FromEmpty DEF Front, Given
    <3>2. Front(k, g)' = From(cur, g) \o <<>> \o From(held[g], g)
      BY <1>3, <1>4, <1>6, <2>1 DEF Front, Given, From
    <3>3. From(cur, g) \in Seq(Event)
      BY FromTyped DEF RepositoryInv, Dispatching
    <3> QED
      BY <3>1, <3>2, <3>3, ConcatEmptySeq
  <2>3. Live(k)' = Live(k)
    BY <1>4, <2>2, LiveSame
  <2>4. ListedFor(k) = todo[k] /\ ListedFor(k)' = todo[k]
    <3>1. PICK s \in Conn, e \in Event : cur = Slot(s, e)
      BY <1>1 DEF RepositoryInv, Dispatching, Holds
    <3>2. Unheard(<<>>, todo[k]) = todo[k] /\ Unheard(cur, todo[k]) = todo[k]
      BY <3>1, ConnNat, UnheardIs
    <3> QED
      BY <1>1, <1>3, <1>6, <3>2, ListedIs
  <2> HIDE DEF d
  <2> QED
    BY <1>1, <2>3, <2>4, Stutters
<1> QED
  BY <1>5, <1>6

LEMMA SimUnlocks ==
    ASSUME RepositoryInv, NEW k \in Subscriber, DispatcherUnlocks
    PROVE  UNCHANGED Stream(k)!vars
<1>1. /\ dispatcher = "send" /\ next > Len(registeredChans) /\ dispatcher' = "recv"
      /\ UNCHANGED <<running, gen, open, stream, held, lister, todo, view, channel, doubtful>>
  BY DEF DispatcherUnlocks, dockerVars, regVars
<1>2. ~Owed(k) /\ ~Owed(k)'
  <2>1. next \in Nat /\ Len(registeredChans) \in Nat
    BY DEF RepositoryInv, TypeOK
  <2> QED
    BY <1>1, <2>1 DEF Owed
<1>3. \A g : Front(k, g)' = Front(k, g) /\ Rest(g)' = Rest(g)
  BY <1>1, <1>2 DEF Front, Given, From, Rest
<1>4. Live(k)' = Live(k)
  BY <1>3, LiveSame
<1> QED
  BY <1>1, <1>4, ListedIs, Stutters

-----------------------------------------------------------------------------
(* The subscriber j registers, lists and receives. *)

LEMMA SimRegister ==
    ASSUME RepositoryInv, NEW k \in Subscriber, NEW j \in Subscriber, RegisterToContainersStream(j)
    PROVE  IF j = k THEN Stream(k)!Subscribe ELSE UNCHANGED Stream(k)!vars
<1>1. /\ lister[j] = "no" /\ ~registrationMutex /\ lister' = [lister EXCEPT ![j] = "pending"]
      /\ UNCHANGED <<running, gen, open, stream, held, dispatcher, cur, next, todo, view, channel, doubtful>>
  BY DEF RegisterToContainersStream, dockerVars, dispVars
<1>2. Owed(k)' <=> Owed(k)
  BY <1>1 DEF Owed, RepositoryInv, Dispatching
<1>3. \A g : Front(k, g)' = Front(k, g) /\ Rest(g)' = Rest(g)
  BY <1>1, <1>2 DEF Front, Given, From, Rest
<1>4. Live(k)' = Live(k) /\ ListedFor(k)' = ListedFor(k)
  BY <1>1, <1>3, LiveSame, ListedIs
<1>5. CASE j = k
  <2>1. lister[k] = "no" /\ lister'[k] = "pending"
    BY <1>1, <1>5 DEF RepositoryInv, TypeOK
  <2>2. Stream(k)!Subscribe
    BY <1>1, <1>4, <2>1 DEF Stream!Subscribe, Stream!dockerVars
  <2> QED
    BY <1>5, <2>2
<1>6. CASE j # k
  <2>1. lister'[k] = lister[k]
    BY <1>1, <1>6 DEF RepositoryInv, TypeOK
  <2>2. UNCHANGED Stream(k)!vars
    BY <1>1, <1>4, <2>1, Stutters
  <2> QED
    BY <1>6, <2>2
<1> QED
  BY <1>5, <1>6

(* Nothing listed is under way before the listing. *)
LEMMA SimLists ==
    ASSUME RepositoryInv, NEW k \in Subscriber, NEW j \in Subscriber
    PROVE  /\ ListContainers(j) => IF j = k THEN Stream(k)!Snapshot ELSE UNCHANGED Stream(k)!vars
           /\ ListContainersFails(j) => IF j = k THEN Stream(k)!SnapshotFails
                                                 ELSE UNCHANGED Stream(k)!vars
<1>1. ASSUME ListContainers(j) \/ ListContainersFails(j)
      PROVE  /\ UNCHANGED <<running, gen, open, view, channel>>
             /\ Live(k)' = Live(k)
             /\ j # k => UNCHANGED Stream(k)!vars
  <2>1. UNCHANGED <<running, gen, open, stream, held, dispVars, registeredChans, view, channel>>
    BY <1>1 DEF ListContainers, ListContainersFails, dockerVars
  <2>2. \A g : Front(k, g)' = Front(k, g) /\ Rest(g)' = Rest(g)
    BY <2>1, FrontSame DEF Rest
  <2>3. Live(k)' = Live(k)
    BY <2>2, LiveSame
  <2>4. ASSUME j # k PROVE lister'[k] = lister[k] /\ todo'[k] = todo[k] /\ doubtful'[k] = doubtful[k]
    BY <1>1, <2>4 DEF ListContainers, ListContainersFails, RepositoryInv, TypeOK
  <2> QED
    BY <2>1, <2>3, <2>4, ListedIs, Stutters
<1>2. ASSUME ListContainers(k) PROVE Stream(k)!Snapshot
  <2>1. /\ lister[k] = "pending" /\ lister'[k] = "done" /\ todo'[k] = running
        /\ doubtful'[k] = doubtful[k] \ {c \in running : Stream(k)!Silent(c)}
        /\ UNCHANGED <<running, gen, open, view, channel>>
    BY <1>2 DEF ListContainers, RepositoryInv, TypeOK, dockerVars
  <2>2. ListedFor(k)' = running
    <3>1. CASE channel[k] = <<>>
      <4>1. \A f : <<>> # <<f>>
        OBVIOUS
      <4>2. Unheard(<<>>, running) = running
        BY <4>1, FromEmpty DEF Unheard
      <4> QED
        BY <2>1, <3>1, <4>2, ListedIs
    <3>2. ASSUME NEW s \in 0..MaxConn, NEW e \in Event, channel[k] = Slot(s, e)
          PROVE  ListedFor(k)' = running
      <4>1. s # 0
        BY <2>1, <3>2 DEF RepositoryInv, Receiving
      <4>2. Unheard(Slot(s, e), running) = running
        BY <4>1, UnheardIs
      <4> QED
        BY <2>1, <3>2, <4>2, ListedIs
    <3> QED
      BY <3>1, <3>2 DEF RepositoryInv, Receiving, Holds
  <2>3. Live(k)' = Live(k)
    <3>1. \A g : Front(k, g)' = Front(k, g) /\ Rest(g)' = Rest(g)
      BY <1>2, FrontSame DEF Rest, ListContainers, dockerVars
    <3> QED
      BY <3>1, LiveSame
  <2> QED
    BY <2>1, <2>2, <2>3 DEF Stream!Snapshot, Stream!dockerVars
<1>3. ASSUME ListContainersFails(k) PROVE Stream(k)!SnapshotFails
  <2>1. /\ lister[k] = "pending" /\ lister'[k] = "failed" /\ todo'[k] = todo[k]
        /\ doubtful'[k] = doubtful[k] \cup {c \in running \ view[k] : Stream(k)!Silent(c)}
        /\ UNCHANGED <<running, gen, open, view, channel>>
    BY <1>3 DEF ListContainersFails, RepositoryInv, TypeOK, dockerVars
  <2>2. Live(k)' = Live(k) /\ ListedFor(k)' = ListedFor(k)
    <3>1. \A g : Front(k, g)' = Front(k, g) /\ Rest(g)' = Rest(g)
      BY <1>3, FrontSame DEF Rest, ListContainersFails, dockerVars
    <3> QED
      BY <2>1, <3>1, LiveSame, ListedIs
  <2> QED
    BY <2>1, <2>2 DEF Stream!SnapshotFails, Stream!dockerVars
<1>4. j = k \/ j # k
  OBVIOUS
<1> QED
  BY <1>1, <1>2, <1>3, <1>4

LEMMA SimListerSends ==
    ASSUME RepositoryInv, NEW k \in Subscriber, NEW j \in Subscriber, NEW c \in Container,
           ListerSends(j, c)
    PROVE  UNCHANGED Stream(k)!vars
<1> DEFINE e == [id |-> c, action |-> "start"]
<1>1. /\ c \in todo[j] /\ Len(channel[j]) < Capacity
      /\ channel' = [channel EXCEPT ![j] = Append(channel[j], [src |-> 0, event |-> e])]
      /\ todo' = [todo EXCEPT ![j] = todo[j] \ {c}]
      /\ UNCHANGED <<running, gen, open, stream, held, dispVars, registeredChans, lister, view, doubtful>>
  BY DEF ListerSends, dockerVars
<1>2. e \in Event /\ e.id = c
  BY DEF Event
<1> HIDE DEF e
<1>3. CASE j # k
  <2>1. channel'[k] = channel[k] /\ todo'[k] = todo[k]
    BY <1>1, <1>3 DEF RepositoryInv, TypeOK
  <2>2. \A g : Front(k, g)' = Front(k, g) /\ Rest(g)' = Rest(g)
    BY <1>1, <2>1, FrontSame DEF Rest
  <2>3. Live(k)' = Live(k)
    BY <2>2, LiveSame
  <2> QED
    BY <1>1, <2>1, <2>3, ListedIs, Stutters
<1>4. CASE j = k
  <2>1. channel[k] = <<>> /\ channel'[k] = Slot(0, e) /\ todo'[k] = todo[k] \ {c} /\ c \in todo[k]
    <3>1. channel[k] = <<>>
      BY <1>1, <1>4, EmptyChannel
    <3>2. Append(<<>>, [src |-> 0, event |-> e]) = Slot(0, e)
      BY DEF Slot
    <3> QED
      BY <1>1, <1>4, <3>1, <3>2 DEF RepositoryInv, TypeOK
  <2>2. ListedFor(k)' = ListedFor(k)
    <3>1. Unheard(<<>>, todo[k]) = todo[k] /\ Unheard(Slot(0, e), todo[k] \ {c}) = (todo[k] \ {c}) \cup {c}
      BY <1>2, UnheardIs
    <3> QED
      BY <2>1, <3>1, ListedIs
  <2>3. ASSUME NEW g \in Conn PROVE Front(k, g)' = Front(k, g) /\ Rest(g)' = Rest(g)
    <3>1. From(channel[k], g) = <<>> /\ From(channel'[k], g) = <<>>
      BY <2>1, ConnNat, FromEmpty, FromSlot
    <3> QED
      BY <1>1, <3>1 DEF Front, Given, Owed, From, Rest, dispVars
  <2>4. Live(k)' = Live(k)
    BY <2>3, LiveSame
  <2> QED
    BY <1>1, <2>2, <2>4, Stutters
<1> QED
  BY <1>3, <1>4

(* The order of the stream is that of the channel, the dispatcher and the  *)
(* forwarder: what is received is the first event left.                    *)
LEMMA SimSubscriber ==
    ASSUME RepositoryInv, NEW k \in Subscriber, SubscriberReceives(k)
    PROVE  (\E g \in Conn : Stream(k)!ReceiveLive(g)) \/ \E c \in Container : Stream(k)!ReceiveListed(c)
<1>1. /\ channel[k] # <<>> /\ channel' = [channel EXCEPT ![k] = Tail(channel[k])]
      /\ LET e == Head(channel[k]).event IN
         view' = [view EXCEPT ![k] = IF e.action = "start" THEN view[k] \cup {e.id} ELSE view[k] \ {e.id}]
      /\ UNCHANGED <<running, gen, open, stream, held, dispVars, registeredChans, lister, todo, doubtful>>
  BY DEF SubscriberReceives, dockerVars
<1>2. PICK s \in 0..MaxConn, e \in Event : channel[k] = Slot(s, e)
  BY <1>1 DEF RepositoryInv, Receiving, Holds
<1>3. /\ channel'[k] = <<>>
      /\ view'[k] = IF e.action = "start" THEN view[k] \cup {e.id} ELSE view[k] \ {e.id}
  <2>1. Head(channel[k]).event = e /\ Tail(channel[k]) = <<>>
    BY <1>2, SlotHead
  <2> QED
    BY <1>1, <2>1 DEF RepositoryInv, TypeOK
<1>4. \A g : Rest(g)' = Rest(g) /\ Given(k, g)' = Given(k, g) /\ From(held'[g], g) = From(held[g], g)
  BY <1>1 DEF Rest, Given, Owed, From, dispVars
<1>5. lister[k] # "no"
  BY <1>1 DEF RepositoryInv, Receiving
<1>6. ListedFor(k)' = todo[k]
  <2>1. Unheard(<<>>, todo[k]) = todo[k]
    BY UnheardIs
  <2> QED
    BY <1>1, <1>3, <2>1, ListedIs
<1>7. ASSUME NEW g \in Conn
      PROVE  Front(k, g)' \o Rest(g)' = (<<>> \o Given(k, g) \o From(held[g], g)) \o Rest(g)
  <2>1. From(channel'[k], g) = <<>>
    BY <1>3, FromEmpty
  <2>2. Front(k, g)' = <<>> \o Given(k, g) \o From(held[g], g)
    BY <1>4, <2>1 DEF Front, From
  <2> QED
    BY <1>4, <2>2
<1>8. ASSUME NEW g \in Conn, g # s PROVE Front(k, g)' \o Rest(g)' = Front(k, g) \o Rest(g)
  <2>1. From(channel[k], g) = <<>>
    BY <1>2, <1>8, FromSlot
  <2> QED
    BY <1>7, <2>1 DEF Front
<1>9. CASE s = 0
  <2>1. e.action = "start" /\ e.id \notin todo[k] /\ e.id \in Container
    BY <1>2, <1>9 DEF RepositoryInv, Receiving, Event
  <2>2. ListedFor(k) = todo[k] \cup {e.id}
    <3>1. Unheard(Slot(0, e), todo[k]) = todo[k] \cup {e.id}
      BY UnheardIs
    <3> QED
      BY <1>2, <1>9, <3>1, ListedIs
  <2>3. Live(k)' = Live(k)
    BY <1>8, <1>9, ConnNat, LiveSame
  <2>4. e.id \in ListedFor(k) /\ ListedFor(k)' = ListedFor(k) \ {e.id} /\ view'[k] = view[k] \cup {e.id}
    BY <1>3, <1>6, <2>1, <2>2
  <2>5. Stream(k)!ReceiveListed(e.id)
    BY <1>1, <2>3, <2>4 DEF Stream!ReceiveListed, Stream!dockerVars
  <2> QED
    BY <2>1, <2>5
<1>10. CASE s \in Conn
  <2> DEFINE b == Given(k, s)  c == From(held[s], s)  r == Rest(s)  t == b \o c \o r
  <2>1. b \in Seq(Event) /\ c \in Seq(Event) /\ r \in Seq(Event)
    BY <1>10, FrontTyped
  <2>2. Live(k)[s] = (<<e>> \o b \o c) \o r
    <3>1. From(channel[k], s) = <<e>>
      BY <1>2, FromSlot
    <3>2. Front(k, s) = <<e>> \o b \o c
      BY <3>1 DEF Front
    <3> QED
      BY <1>10, <3>2, LiveIs
  <2>3. Front(k, s)' \o Rest(s)' = (<<>> \o b \o c) \o r
    BY <1>7, <1>10
  <2>4. ListedFor(k) = todo[k]
    <3>1. s # 0
      BY <1>10, ConnNat
    <3>2. Unheard(Slot(s, e), todo[k]) = todo[k]
      BY <3>1, UnheardIs
    <3> QED
      BY <1>2, <3>2, ListedIs
  <2> HIDE DEF b, c, r
  <2>5. <<>> \o b = b /\ <<e>> \in Seq(Event) /\ b \o c \in Seq(Event) /\ t \in Seq(Event)
    BY <2>1, ConcatEmptySeq, ConcatProperties
  <2>6. (<<e>> \o b \o c) \o r = <<e>> \o t
    <3>1. (<<e>> \o b) \o c = <<e>> \o (b \o c)
      BY <2>1, <2>5, ConcatAssociative
    <3>2. (<<e>> \o (b \o c)) \o r = <<e>> \o ((b \o c) \o r)
      BY <2>1, <2>5, ConcatAssociative
    <3> QED
      BY <3>1, <3>2
  <2>7. Front(k, s)' \o Rest(s)' = t
    BY <2>3, <2>5
  <2> HIDE DEF t
  <2>8. Live(k)[s] # <<>> /\ Head(Live(k)[s]) = e /\ Tail(Live(k)[s]) = t
    BY <2>2, <2>5, <2>6, ConcatHead
  <2>9. ASSUME NEW g \in Conn
        PROVE  [Live(k) EXCEPT ![s] = Tail(Live(k)[s])][g] = Front(k, g)' \o Rest(g)'
    <3>1. CASE g = s
      BY <1>10, <2>7, <2>8, <3>1, LiveTyped
    <3>2. CASE g # s
      BY <1>8, <3>2, LiveTyped, LiveIs
    <3> QED
      BY <3>1, <3>2
  <2>10. Live(k)' = [Live(k) EXCEPT ![s] = Tail(Live(k)[s])]
    BY <2>9, LiveBecomes, LiveTyped
  <2>11. Stream(k)!ReceiveLive(s)
    BY <1>1, <1>3, <1>5, <1>6, <2>4, <2>8, <2>10
    DEF Stream!ReceiveLive, Stream!Subscribed, Stream!Apply, Stream!dockerVars
  <2> QED
    BY <1>10, <2>11
<1>11. s = 0 \/ s \in Conn
  BY RepositoryBounds DEF Conn
<1> QED
  BY <1>9, <1>10, <1>11

LEMMA SimOtherReceives ==
    ASSUME RepositoryInv, NEW k \in Subscriber, NEW j \in Subscriber \ {k}, SubscriberReceives(j)
    PROVE  UNCHANGED Stream(k)!vars
<1>1. /\ UNCHANGED <<running, gen, open, stream, held, dispVars, registeredChans, lister, todo, doubtful>>
      /\ channel'[k] = channel[k] /\ view'[k] = view[k]
  BY DEF SubscriberReceives, dockerVars, RepositoryInv, TypeOK
<1>2. \A g : Front(k, g)' = Front(k, g) /\ Rest(g)' = Rest(g)
  BY <1>1, FrontSame DEF Rest
<1>3. Live(k)' = Live(k)
  BY <1>2, LiveSame
<1> QED
  BY <1>1, <1>3, ListedIs, Stutters

LEMMA SimStep ==
    ASSUME RepositoryInv, [Next]_vars, NEW k \in Subscriber
    PROVE  [Stream(k)!Next]_(Stream(k)!vars)
<1> DEFINE Step == Stream(k)!Next \/ UNCHANGED Stream(k)!vars
<1> SUFFICES Step
  OBVIOUS
<1>1. ASSUME NEW c \in Container, DockerStart(c) \/ DockerStop(c) \/ DockerDie(c) PROVE Step
  BY <1>1, SimDocker DEF Stream!Next, Stream!Docker
<1>2. CASE ListenerExits \/ StreamEnds
  BY <1>2, SimListener
<1>3. CASE OpenStream
  BY <1>3, SimListener DEF Stream!Next, Stream!Docker
<1>4. ASSUME NEW n \in 0..MaxPending, ConnectionLost(n) PROVE Step
  BY <1>4, SimLost DEF Stream!Next, Stream!Docker
<1>5. CASE Forward
  BY <1>5, SimForward
<1>6. ASSUME NEW g \in Conn, DispatcherReceives(g) PROVE Step
  BY <1>6, SimReceives
<1>7. CASE DispatcherLocks
  BY <1>7, SimLocks DEF Stream!Next, Stream!Conn, Conn
<1>8. CASE DispatcherSends \/ DispatcherUnlocks
  BY <1>8, SimSends, SimUnlocks
<1>9. ASSUME NEW j \in Subscriber, RegisterToContainersStream(j) PROVE Step
  BY <1>9, SimRegister DEF Stream!Next
<1>10. ASSUME NEW j \in Subscriber, ListContainers(j) \/ ListContainersFails(j) PROVE Step
  BY <1>10, SimLists DEF Stream!Next
<1>11. ASSUME NEW j \in Subscriber, NEW c \in Container, ListerSends(j, c) PROVE Step
  BY <1>11, SimListerSends
<1>12. ASSUME NEW j \in Subscriber, SubscriberReceives(j) PROVE Step
  <2>1. CASE j = k
    BY <1>12, <2>1, SimSubscriber DEF Stream!Next, Stream!Conn, Conn
  <2>2. CASE j # k
    BY <1>12, <2>2, SimOtherReceives
  <2> QED
    BY <2>1, <2>2
<1>13. CASE UNCHANGED vars
  <2>1. UNCHANGED <<running, gen, open, stream, held, dispVars, registeredChans, lister, todo, view,
                    channel, doubtful>>
    BY <1>13 DEF vars, dockerVars, regVars
  <2>2. \A g : Front(k, g)' = Front(k, g) /\ Rest(g)' = Rest(g)
    BY <2>1, FrontSame DEF Rest
  <2>3. Live(k)' = Live(k)
    BY <2>2, LiveSame
  <2> QED
    BY <2>1, <2>3, ListedIs, Stutters
<1> HIDE DEF Step
<1> QED
  BY <1>1, <1>2, <1>3, <1>4, <1>5, <1>6, <1>7, <1>8, <1>9, <1>10, <1>11, <1>12, <1>13 DEF Next

(* Whatever the number of subscribers, of streams and of events under way: *)
(* the listener, the leaked forwarders, the dispatcher and the listers     *)
(* implement for each subscriber the stream it is promised.  No event is   *)
(* lost, duplicated or reordered within a stream after Messages delivered  *)
(* it.                                                                     *)
THEOREM RepositoryImplementsStream == Spec => ImplementsStream
<1>1. Init => \A k \in Subscriber : Stream(k)!Init
  BY SimInit
<1>2. RepositoryInv /\ [Next]_vars => [\A k \in Subscriber : [Stream(k)!Next]_(Stream(k)!vars)]_vars
  BY SimStep
<1> QED
  BY <1>1, <1>2, InvHolds, PTL DEF Spec, ImplementsStream

-----------------------------------------------------------------------------
(* What is proved of ContainerStream holds of the channel of any           *)
(* subscriber, here called me.                                             *)

CONSTANT me

Me == INSTANCE ContainerStreamProofs WITH
    MaxPending <- MaxPending + 3, live <- Live(me), listing <- lister[me],
    listed <- ListedFor(me), view <- view[me], doubtful <- doubtful[me]

(* Me and Stream(me) are the same instance. *)
LEMMA MeIsStream ==
    /\ Stream(me)!Init => Me!Init
    /\ Stream(me)!Next => Me!Next
    /\ UNCHANGED Stream(me)!vars => UNCHANGED Me!vars
    /\ Me!BeliefIsTruth => Stream(me)!BeliefIsTruth
<1>1. \A c : Stream(me)!Silent(c) <=> Me!Silent(c)
  BY DEF Me!Silent, Stream!Silent, Me!Mentions, Stream!Mentions, Me!Conn, Stream!Conn
<1>2. \A c : Stream(me)!Straggling(c) <=> Me!Straggling(c)
  BY DEF Me!Straggling, Stream!Straggling, Me!Mentions, Stream!Mentions, Me!Conn, Stream!Conn
<1>3. \A c : Stream(me)!DockerStart(c) => Me!DockerStart(c)
  BY <1>1, <1>2 DEF Me!DockerStart, Stream!DockerStart, Me!Room, Stream!Room, Me!Publish, Stream!Publish,
         Me!Doubt, Stream!Doubt, Me!StartDoubt, Stream!StartDoubt, Me!Listed, Stream!Listed
<1>4. \A c : Stream(me)!DockerStop(c) => Me!DockerStop(c)
  BY <1>1, <1>2 DEF Me!DockerStop, Stream!DockerStop, Me!Room, Stream!Room, Me!Publish, Stream!Publish,
         Me!Doubt, Stream!Doubt, Me!StopDoubt, Stream!StopDoubt
<1>5. \A c : Stream(me)!DockerDie(c) => Me!DockerDie(c)
  BY DEF Me!DockerDie, Stream!DockerDie
<1>6. Stream(me)!Open => Me!Open
  BY DEF Me!Open, Stream!Open, Me!streamVars, Stream!streamVars
<1>7. \A n : Stream(me)!Close(n) => Me!Close(n)
  BY DEF Me!Close, Stream!Close
<1>8. Stream(me)!Subscribe => Me!Subscribe
  BY DEF Me!Subscribe, Stream!Subscribe, Me!dockerVars, Stream!dockerVars
<1>9. Stream(me)!Snapshot => Me!Snapshot
  BY <1>1 DEF Me!Snapshot, Stream!Snapshot, Me!dockerVars, Stream!dockerVars
<1>10. Stream(me)!SnapshotFails => Me!SnapshotFails
  BY <1>1 DEF Me!SnapshotFails, Stream!SnapshotFails, Me!dockerVars, Stream!dockerVars
<1>11. \A g : Stream(me)!ReceiveLive(g) => Me!ReceiveLive(g)
  BY DEF Me!ReceiveLive, Stream!ReceiveLive, Me!Apply, Stream!Apply, Me!Subscribed, Stream!Subscribed,
         Me!dockerVars, Stream!dockerVars
<1>12. \A c : Stream(me)!ReceiveListed(c) => Me!ReceiveListed(c)
  BY DEF Me!ReceiveListed, Stream!ReceiveListed, Me!dockerVars, Stream!dockerVars
<1>13. Stream(me)!Init => Me!Init
  BY DEF Me!Init, Stream!Init, Me!Conn, Stream!Conn
<1>14. Stream(me)!Next => Me!Next
  BY <1>3, <1>4, <1>5, <1>6, <1>7, <1>8, <1>9, <1>10, <1>11, <1>12
     DEF Me!Next, Stream!Next, Me!Docker, Stream!Docker, Me!Conn, Stream!Conn
<1>15. UNCHANGED Stream(me)!vars => UNCHANGED Me!vars
  BY DEF Me!vars, Stream!vars, Me!dockerVars, Stream!dockerVars, Me!streamVars, Stream!streamVars
<1>16. Me!BeliefIsTruth => Stream(me)!BeliefIsTruth
  BY <1>1 DEF Me!BeliefIsTruth, Stream!BeliefIsTruth, Me!Listed, Stream!Listed
<1> QED
  BY <1>13, <1>14, <1>15, <1>16

(* A subscriber of the repository that has listed, has heard all there is  *)
(* about a container and had no cause for doubt believes that it runs iff  *)
(* docker runs it, however the goroutines interleave.                      *)
THEOREM SubscriberBelievesTruth ==
    me \in Subscriber => (Spec => []Stream(me)!BeliefIsTruth)
<1> SUFFICES ASSUME me \in Subscriber PROVE Spec => []Stream(me)!BeliefIsTruth
  OBVIOUS
<1>1. Init => Me!Init
  BY SimInit, MeIsStream
<1>2. RepositoryInv /\ [Next]_vars => [Me!Next]_(Me!vars)
  BY SimStep, MeIsStream
<1>3. Me!BeliefIsTruth => Stream(me)!BeliefIsTruth
  BY MeIsStream
<1>4. Me!Spec => []Me!BeliefIsTruth
  BY Me!BeliefCorrect, RepositoryBounds
<1> QED
  BY <1>1, <1>2, <1>3, <1>4, InvHolds, PTL DEF Spec, Me!Spec
==============================================================================
