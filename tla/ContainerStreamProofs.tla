----------------------- MODULE ContainerStreamProofs -----------------------
(***************************************************************************)
(* For any set of containers and any bounds: the type invariant of         *)
(* ContainerStream, and the promise that no container is forgotten.        *)
(***************************************************************************)
EXTENDS ContainerStream, TLAPS

StartOf(c) == [id |-> c, action |-> "start"]
StopOf(c) == [id |-> c, action |-> "stop"]

-----------------------------------------------------------------------------
(* What the operations on a queue do to the events about one container.    *)

(* A last event about c is an event about c. *)
LEMMA LastIsMentioned ==
    ASSUME NEW s \in Seq(Event), NEW c, NEW e, e.id = c, LastAbout(s, c, e)
    PROVE  Mentions(s, c)
BY DEF LastAbout, Mentions

(* The daemon appends an event to the queue of the latest stream. *)
LEMMA AppendAbout ==
    ASSUME NEW s \in Seq(Event), NEW e \in Event
    PROVE  /\ Append(s, e) \in Seq(Event)
           /\ LastAbout(Append(s, e), e.id, e)
           /\ \A c : c # e.id /\ ~Mentions(s, c) => ~Mentions(Append(s, e), c)
           /\ \A c, x : c # e.id /\ LastAbout(s, c, x) => LastAbout(Append(s, e), c, x)
<1> DEFINE t == Append(s, e)
<1>1. /\ t \in Seq(Event)
      /\ Len(t) = Len(s) + 1
      /\ t[Len(s) + 1] = e
      /\ \A i \in 1..Len(s) : t[i] = s[i]
  OBVIOUS
<1>2. Len(s) \in Nat
  OBVIOUS
<1> HIDE DEF t
<1>3. LastAbout(t, e.id, e)
  BY <1>1, <1>2 DEF LastAbout
<1>4. \A c : c # e.id /\ ~Mentions(s, c) => ~Mentions(t, c)
  BY <1>1, <1>2 DEF Mentions
<1>5. ASSUME NEW c, NEW x, c # e.id, LastAbout(s, c, x)
      PROVE  LastAbout(t, c, x)
  BY <1>1, <1>2, <1>5 DEF LastAbout
<1>6. QED
  BY <1>1, <1>3, <1>4, <1>5 DEF t

(* The subscriber takes the first event of a queue. *)
LEMMA TailAbout ==
    ASSUME NEW s \in Seq(Event), s # <<>>
    PROVE  /\ Tail(s) \in Seq(Event)
           /\ Head(s) \in Event
           /\ \A c : ~Mentions(s, c) => Head(s).id # c /\ ~Mentions(Tail(s), c)
           /\ \A c, x : LastAbout(s, c, x) =>
                 \/ LastAbout(Tail(s), c, x)
                 \/ Head(s) = x /\ ~Mentions(Tail(s), c)
<1> DEFINE t == Tail(s)
<1>1. /\ t \in Seq(Event)
      /\ Len(t) = Len(s) - 1
      /\ Head(s) = s[1]
      /\ s[1] \in Event
      /\ \A i \in 1..Len(t) : t[i] = s[i + 1]
  OBVIOUS
<1>2. Len(s) \in Nat /\ Len(s) >= 1
  OBVIOUS
<1> HIDE DEF t
<1>3. \A c : ~Mentions(s, c) => Head(s).id # c /\ ~Mentions(t, c)
  BY <1>1, <1>2 DEF Mentions
<1>4. ASSUME NEW c, NEW x, LastAbout(s, c, x)
      PROVE  LastAbout(t, c, x) \/ (Head(s) = x /\ ~Mentions(t, c))
  <2>1. PICK i \in 1..Len(s) : s[i] = x /\ \A j \in (i + 1)..Len(s) : s[j].id # c
    BY <1>4 DEF LastAbout
  <2>2. CASE i = 1
    BY <1>1, <1>2, <2>1, <2>2 DEF Mentions
  <2>3. CASE i # 1
    <3>1. i - 1 \in 1..Len(t) /\ t[i - 1] = x
      BY <1>1, <1>2, <2>1, <2>3
    <3>2. \A j \in ((i - 1) + 1)..Len(t) : t[j].id # c
      BY <1>1, <1>2, <2>1, <2>3
    <3>3. QED
      BY <3>1, <3>2 DEF LastAbout
  <2>4. QED
    BY <2>2, <2>3
<1>5. QED
  BY <1>1, <1>3, <1>4 DEF t

(* A connection breaks and loses the events after the n-th. *)
LEMMA PrefixAbout ==
    ASSUME NEW s \in Seq(Event), NEW n \in Nat, n <= Len(s)
    PROVE  /\ SubSeq(s, 1, n) \in Seq(Event)
           /\ \A c : ~Mentions(s, c) => ~Mentions(SubSeq(s, 1, n), c)
           /\ \A c, x : /\ LastAbout(s, c, x)
                        /\ x.id = c
                        /\ ~\E i \in (n + 1)..Len(s) : s[i].id = c
                        => LastAbout(SubSeq(s, 1, n), c, x)
<1> DEFINE t == SubSeq(s, 1, n)
<1>1. /\ t \in Seq(Event)
      /\ Len(t) = n
      /\ \A i \in 1..n : t[i] = s[i]
  OBVIOUS
<1>2. Len(s) \in Nat
  OBVIOUS
<1> HIDE DEF t
<1>3. \A c : ~Mentions(s, c) => ~Mentions(t, c)
  BY <1>1, <1>2 DEF Mentions
<1>4. ASSUME NEW c, NEW x, LastAbout(s, c, x), x.id = c,
             ~\E i \in (n + 1)..Len(s) : s[i].id = c
      PROVE  LastAbout(t, c, x)
  BY <1>1, <1>2, <1>4 DEF LastAbout
<1>5. QED
  BY <1>1, <1>3, <1>4 DEF t

-----------------------------------------------------------------------------

(* The queues are empty and no stream is open at first. *)
LEMMA TypeInit == Init => TypeOK
<1>1. \A g \in Conn : <<>> \in Seq(Event)
  OBVIOUS
<1>2. [g \in Conn |-> <<>>] \in [Conn -> Seq(Event)]
  BY <1>1, Zenon
<1>3. 0 \in 0..MaxConn
  BY MaxConnAssumption
<1>4. QED
  BY <1>2, <1>3 DEF Init, TypeOK

(* The variables of ContainerStream always have their types: in particular *)
(* no event is sent on a stream that was never opened.                     *)
THEOREM TypeCorrect == Spec => []TypeOK
<1>1. Init => TypeOK
  BY TypeInit
<1>2. ASSUME TypeOK, [Next]_vars
      PROVE  TypeOK'
  <2> USE <1>2, MaxConnAssumption, MaxPendingAssumption DEF TypeOK, Conn
  <2>1. ASSUME NEW c \in Container, DockerStart(c) \/ DockerStop(c)
        PROVE  TypeOK'
    <3>1. \A e \in Event : Publish(e) => live' \in [Conn -> Seq(Event)]
      BY AppendAbout DEF Publish
    <3>2. live' \in [Conn -> Seq(Event)]
      BY <2>1, <3>1 DEF DockerStart, DockerStop, Event
    <3>3. QED
      BY <2>1, <3>2 DEF DockerStart, DockerStop, Doubt
  <2>2. ASSUME NEW c \in Container, DockerDie(c)
        PROVE  TypeOK'
    BY <2>2 DEF DockerDie
  <2>3. CASE Open
    BY <2>3 DEF Open, streamVars
  <2>4. ASSUME NEW n \in 0..MaxPending, Close(n)
        PROVE  TypeOK'
    <3>1. SubSeq(live[gen], 1, n) \in Seq(Event)
      BY <2>4, PrefixAbout DEF Close
    <3>2. QED
      BY <2>4, <3>1 DEF Close
  <2>5. CASE Subscribe \/ Snapshot \/ SnapshotFails
    BY <2>5 DEF Subscribe, Snapshot, SnapshotFails, dockerVars
  <2>6. ASSUME NEW g \in Conn, ReceiveLive(g)
        PROVE  TypeOK'
    <3>1. Tail(live[g]) \in Seq(Event) /\ Head(live[g]).id \in Container
      BY <2>6, TailAbout DEF ReceiveLive, Event
    <3>2. view' \in SUBSET Container
      BY <2>6, <3>1 DEF ReceiveLive, Apply
    <3>3. QED
      BY <2>6, <3>1, <3>2 DEF ReceiveLive, dockerVars
  <2>7. ASSUME NEW c \in Container, ReceiveListed(c)
        PROVE  TypeOK'
    BY <2>7 DEF ReceiveListed, dockerVars
  <2>8. CASE UNCHANGED vars
    BY <2>8 DEF vars, dockerVars, streamVars
  <2>9. QED
    BY <2>1, <2>2, <2>3, <2>4, <2>5, <2>6, <2>7, <2>8 DEF Next, Docker
<1>3. QED
  BY <1>1, <1>2, PTL DEF Spec

-----------------------------------------------------------------------------
(* NoContainerForgotten is inductive once it is known that nothing is      *)
(* believed or listed before the registration.                             *)

IInv == TypeOK /\ ListedAfterSubscribing /\ NoContainerForgotten

(* What docker does to another container, or to the connection, leaves     *)
(* what is known or still to be heard about c as it was.                   *)
LEMMA QueuesKeptAbout ==
    ASSUME TypeOK, NEW c \in Container, HeardLater(c) \/ Known(c),
           live' \in [Conn -> Seq(Event)],
           c \in running' <=> c \in running,
           UNCHANGED <<listing, listed, view>>,
           \A g \in Conn : ~Mentions(live[g], c) => ~Mentions(live'[g], c),
           \A g \in Conn : LastAbout(live[g], c, StartOf(c)) => LastAbout(live'[g], c, StartOf(c)),
           \A g \in Conn : LastAbout(live[g], c, StopOf(c)) => LastAbout(live'[g], c, StopOf(c))
    PROVE  HeardLater(c)' \/ Known(c)'
<1>1. CASE HeardLater(c)
  BY <1>1 DEF HeardLater, StartOf, StopOf
<1>2. CASE Known(c)
  BY <1>2 DEF Known, Silent, Listed
<1>3. QED
  BY <1>1, <1>2

(* A start or a stop of c about which there is no doubt. *)
LEMMA OwnEvent ==
    ASSUME TypeOK, ListedAfterSubscribing, NEW c \in Container,
           \/ DockerStart(c) /\ ~StartDoubt(c)
           \/ DockerStop(c) /\ ~StopDoubt(c)
    PROVE  HeardLater(c)' \/ Known(c)'
<1>1. StartOf(c) \in Event /\ StopOf(c) \in Event /\ StartOf(c).id = c /\ StopOf(c).id = c
  BY DEF StartOf, StopOf, Event
<1>2. CASE DockerStart(c) /\ ~StartDoubt(c) /\ open
  <2>1. gen \in Conn /\ live[gen] \in Seq(Event)
    BY <1>2, MaxConnAssumption DEF TypeOK, Conn
  <2>2. live' = [live EXCEPT ![gen] = Append(@, StartOf(c))]
    BY <1>2 DEF DockerStart, Publish, StartOf
  <2>3. LastAbout(live'[gen], c, StartOf(c))
    BY <1>1, <2>1, <2>2, AppendAbout DEF TypeOK
  <2>4. \A h \in Conn \ {gen} : ~Mentions(live'[h], c)
    BY <1>2, <2>1, <2>2 DEF StartDoubt, Straggling, TypeOK
  <2>5. c \in running'
    BY <1>2 DEF DockerStart
  <2>6. QED
    BY <2>1, <2>3, <2>4, <2>5 DEF HeardLater, StartOf
<1>3. CASE DockerStart(c) /\ ~StartDoubt(c) /\ ~open
  BY <1>3 DEF DockerStart, StartDoubt, Publish, Known, Silent, Listed
<1>4. CASE DockerStop(c) /\ ~StopDoubt(c) /\ open
  <2>1. gen \in Conn /\ live[gen] \in Seq(Event)
    BY <1>4, MaxConnAssumption DEF TypeOK, Conn
  <2>2. live' = [live EXCEPT ![gen] = Append(@, StopOf(c))]
    BY <1>4 DEF DockerStop, Publish, StopOf
  <2>3. LastAbout(live'[gen], c, StopOf(c))
    BY <1>1, <2>1, <2>2, AppendAbout DEF TypeOK
  <2>4. \A h \in Conn \ {gen} : ~Mentions(live'[h], c)
    BY <1>4, <2>1, <2>2 DEF StopDoubt, Straggling, TypeOK
  <2>5. c \notin running' /\ c \notin listed'
    BY <1>4 DEF DockerStop, StopDoubt
  <2>6. QED
    BY <2>1, <2>3, <2>4, <2>5 DEF HeardLater, StopOf
<1>5. CASE DockerStop(c) /\ ~StopDoubt(c) /\ ~open
  BY <1>5 DEF DockerStop, StopDoubt, Publish, Known, Silent
<1>6. QED
  BY <1>2, <1>3, <1>4, <1>5

(* Every step keeps the promise. *)
LEMMA PromiseKept ==
    ASSUME IInv, TypeOK', Next
    PROVE  NoContainerForgotten'
<1> USE DEF IInv
<1> SUFFICES ASSUME NEW c \in Container, c \notin doubtful'
             PROVE  HeardLater(c)' \/ Known(c)'
  BY DEF NoContainerForgotten
<1>1. c \notin doubtful => HeardLater(c) \/ Known(c)
  BY DEF NoContainerForgotten
<1>2. StartOf(c) \in Event /\ StopOf(c) \in Event /\ StartOf(c).id = c /\ StopOf(c).id = c
  BY DEF StartOf, StopOf, Event
<1>3. ASSUME NEW d \in Container, DockerStart(d) \/ DockerStop(d)
      PROVE  HeardLater(c)' \/ Known(c)'
  <2>1. CASE d = c
    <3>1. \/ DockerStart(c) /\ ~StartDoubt(c)
          \/ DockerStop(c) /\ ~StopDoubt(c)
      BY <1>3, <2>1 DEF DockerStart, DockerStop, Doubt
    <3>2. QED
      BY <3>1, OwnEvent
  <2>2. CASE d # c
    <3>1. PICK e \in Event : e.id = d /\ Publish(e)
      BY <1>3 DEF DockerStart, DockerStop, Event
    <3>2. c \notin doubtful
      BY <1>3, <2>2 DEF DockerStart, DockerStop, Doubt
    <3>3. \A g \in Conn : live'[g] = live[g] \/ live'[g] = Append(live[g], e)
      BY <3>1 DEF Publish, TypeOK
    <3>4. \A g \in Conn : ~Mentions(live[g], c) => ~Mentions(live'[g], c)
      BY <2>2, <3>1, <3>3, AppendAbout DEF TypeOK
    <3>5. ASSUME NEW g \in Conn, NEW x, LastAbout(live[g], c, x)
          PROVE  LastAbout(live'[g], c, x)
      BY <3>5, <2>2, <3>1, <3>3, AppendAbout DEF TypeOK
    <3>6. /\ c \in running' <=> c \in running
          /\ UNCHANGED <<listing, listed, view>>
      BY <1>3, <2>2 DEF DockerStart, DockerStop
    <3>7. QED
      BY <1>1, <3>2, <3>4, <3>5, <3>6, QueuesKeptAbout DEF TypeOK
  <2>3. QED
    BY <2>1, <2>2
<1>4. ASSUME NEW d \in Container, DockerDie(d)
      PROVE  HeardLater(c)' \/ Known(c)'
  <2>1. c # d /\ c \notin doubtful /\ live' = live
    BY <1>4 DEF DockerDie
  <2>2. c \in running' <=> c \in running
    BY <1>4, <2>1 DEF DockerDie
  <2>3. QED
    BY <1>1, <1>4, <2>1, <2>2, QueuesKeptAbout DEF DockerDie, TypeOK
<1>5. CASE Open
  BY <1>1, <1>5, QueuesKeptAbout DEF Open, streamVars, TypeOK
<1>6. ASSUME NEW n \in 0..MaxPending, Close(n)
      PROVE  HeardLater(c)' \/ Known(c)'
  <2> DEFINE s == live[gen]
  <2>1. gen \in Conn /\ s \in Seq(Event) /\ n \in Nat /\ n <= Len(s)
    BY <1>6, MaxConnAssumption DEF Close, TypeOK, Conn
  <2>2. live' = [live EXCEPT ![gen] = SubSeq(s, 1, n)]
    BY <1>6 DEF Close
  <2>3. c \notin doubtful /\ ~\E i \in (n + 1)..Len(s) : s[i].id = c
    BY <1>6 DEF Close
  <2>4. \A g \in Conn : live'[g] = IF g = gen THEN SubSeq(s, 1, n) ELSE live[g]
    BY <2>1, <2>2 DEF TypeOK
  <2> HIDE DEF s
  <2>5. ~Mentions(s, c) => ~Mentions(SubSeq(s, 1, n), c)
    BY <2>1, PrefixAbout
  <2>6. \A x \in {StartOf(c), StopOf(c)} :
           LastAbout(s, c, x) => LastAbout(SubSeq(s, 1, n), c, x)
    BY <1>2, <2>1, <2>3, PrefixAbout
  <2>7. QED
    BY <1>1, <1>6, <2>3, <2>4, <2>5, <2>6, QueuesKeptAbout DEF Close, TypeOK, s
<1>7. CASE Subscribe
  BY <1>1, <1>7 DEF Subscribe, HeardLater, Known, Silent, Listed, dockerVars
<1>8. CASE Snapshot
  <2>1. listed' = running /\ running' = running /\ live' = live /\ view' = view
    BY <1>8 DEF Snapshot, dockerVars
  <2>2. CASE c \in doubtful
    <3>1. c \in running /\ Silent(c)
      BY <1>8, <2>2 DEF Snapshot
    <3>2. QED
      BY <2>1, <3>1 DEF Known, Silent
  <2>3. CASE c \notin doubtful /\ HeardLater(c)
    BY <2>1, <2>3 DEF HeardLater
  <2>4. CASE c \notin doubtful /\ Known(c)
    BY <2>1, <2>4 DEF Known, Silent
  <2>5. QED
    BY <1>1, <2>2, <2>3, <2>4
<1>9. CASE SnapshotFails
  <2>1. listed' = listed /\ running' = running /\ live' = live /\ view' = view
    BY <1>9 DEF SnapshotFails, dockerVars
  <2>2. c \notin doubtful /\ (c \in running /\ Silent(c) => c \in view)
    BY <1>9 DEF SnapshotFails
  <2>3. CASE HeardLater(c)
    BY <2>1, <2>3 DEF HeardLater
  <2>4. CASE Known(c)
    BY <2>1, <2>2, <2>4 DEF Known, Silent
  <2>5. QED
    BY <1>1, <2>2, <2>3, <2>4
<1>10. ASSUME NEW g \in Conn, ReceiveLive(g)
       PROVE  HeardLater(c)' \/ Known(c)'
  <2> DEFINE s == live[g]
  <2>1. /\ s \in Seq(Event) /\ s # <<>>
        /\ live' = [live EXCEPT ![g] = Tail(s)]
        /\ running' = running /\ listed' = listed /\ listing' = listing
        /\ c \notin doubtful
    BY <1>10 DEF ReceiveLive, TypeOK, dockerVars
  <2>2. \A h \in Conn : live'[h] = IF h = g THEN Tail(s) ELSE live[h]
    BY <2>1 DEF TypeOK
  <2>3. view' = IF Subscribed THEN Apply(view, Head(s)) ELSE view
    BY <1>10 DEF ReceiveLive
  <2> HIDE DEF s
  <2>4. /\ ~Mentions(s, c) => Head(s).id # c /\ ~Mentions(Tail(s), c)
        /\ \A x : LastAbout(s, c, x) =>
               LastAbout(Tail(s), c, x) \/ (Head(s) = x /\ ~Mentions(Tail(s), c))
    BY <2>1, TailAbout
  <2>5. CASE Known(c)
    <3>1. ~Mentions(s, c)
      BY <2>5 DEF Known, Silent, s
    <3>2. c \in view' <=> c \in view
      BY <2>3, <2>4, <3>1 DEF Apply
    <3>3. Silent(c)'
      BY <2>2, <2>4, <2>5, <3>1 DEF Known, Silent
    <3>4. QED
      BY <2>1, <2>5, <3>2, <3>3 DEF Known, Listed
  <2>6. ASSUME NEW h \in Conn, h # g,
               \A k \in Conn \ {h} : ~Mentions(live[k], c)
        PROVE  \A k \in Conn \ {h} : ~Mentions(live'[k], c)
    BY <2>2, <2>4, <2>6 DEF s
  <2>7. ASSUME NEW h \in Conn, NEW x,
               \A k \in Conn \ {h} : ~Mentions(live[k], c),
               LastAbout(live[h], c, x)
        PROVE  \/ /\ \A k \in Conn \ {h} : ~Mentions(live'[k], c)
                  /\ LastAbout(live'[h], c, x)
               \/ Silent(c)' /\ Head(s) = x
    BY <2>2, <2>4, <2>6, <2>7 DEF s, Silent
  <2>8. CASE HeardLater(c)
    <3>1. PICK h \in Conn :
             /\ \A k \in Conn \ {h} : ~Mentions(live[k], c)
             /\ \/ c \in running /\ LastAbout(live[h], c, StartOf(c))
                \/ c \notin running /\ LastAbout(live[h], c, StopOf(c)) /\ c \notin listed
      BY <2>8 DEF HeardLater, StartOf, StopOf
    <3>2. CASE c \in running /\ LastAbout(live[h], c, StartOf(c))
      <4>1. Silent(c)' /\ Head(s) = StartOf(c) => Known(c)'
        BY <2>1, <2>3, <3>2 DEF Known, Apply, StartOf, Listed, Subscribed
      <4>2. QED
        BY <2>1, <2>7, <3>1, <3>2, <4>1 DEF HeardLater, StartOf
    <3>3. CASE c \notin running /\ LastAbout(live[h], c, StopOf(c)) /\ c \notin listed
      <4>1. Silent(c)' /\ Head(s) = StopOf(c) => Known(c)'
        BY <2>1, <2>3, <3>3 DEF Known, Apply, StopOf, ListedAfterSubscribing
      <4>2. QED
        BY <2>1, <2>7, <3>1, <3>3, <4>1 DEF HeardLater, StopOf
    <3>4. QED
      BY <3>1, <3>2, <3>3
  <2>9. QED
    BY <1>1, <2>1, <2>5, <2>8
<1>11. ASSUME NEW d \in Container, ReceiveListed(d)
       PROVE  HeardLater(c)' \/ Known(c)'
  <2>1. /\ listed' = listed \ {d} /\ view' = view \cup {d} /\ d \in listed
        /\ running' = running /\ live' = live /\ listing' = listing
        /\ c \notin doubtful
    BY <1>11 DEF ReceiveListed, dockerVars
  <2>2. CASE HeardLater(c)
    BY <2>1, <2>2 DEF HeardLater
  <2>3. CASE Known(c)
    BY <2>1, <2>3 DEF Known, Silent, Listed
  <2>4. QED
    BY <1>1, <2>1, <2>2, <2>3
<1>12. QED
  BY <1>3, <1>4, <1>5, <1>6, <1>7, <1>8, <1>9, <1>10, <1>11 DEF Next, Docker

(* Nothing is listed before the listing, nor believed before registering. *)
LEMMA ListedAfterSubscribingKept ==
    ASSUME IInv, Next
    PROVE  ListedAfterSubscribing'
<1> USE DEF IInv, ListedAfterSubscribing, Listed, Subscribed
<1>1. ASSUME NEW c \in Container, DockerStart(c) \/ DockerStop(c) \/ DockerDie(c)
      PROVE  ListedAfterSubscribing'
  BY <1>1 DEF DockerStart, DockerStop, DockerDie
<1>2. CASE Open
  BY <1>2 DEF Open, streamVars
<1>3. ASSUME NEW n \in 0..MaxPending, Close(n)
      PROVE  ListedAfterSubscribing'
  BY <1>3 DEF Close
<1>4. CASE Subscribe \/ Snapshot \/ SnapshotFails
  BY <1>4 DEF Subscribe, Snapshot, SnapshotFails
<1>5. ASSUME NEW g \in Conn, ReceiveLive(g)
      PROVE  ListedAfterSubscribing'
  BY <1>5 DEF ReceiveLive
<1>6. ASSUME NEW c \in Container, ReceiveListed(c)
      PROVE  ListedAfterSubscribing'
  BY <1>6 DEF ReceiveListed
<1>7. QED
  BY <1>1, <1>2, <1>3, <1>4, <1>5, <1>6 DEF Next, Docker

(* The inductive invariant holds of every behaviour. *)
LEMMA Inductive == Spec => []IInv
<1>1. Init => IInv
  <2>1. Init => NoContainerForgotten
    BY DEF Init, NoContainerForgotten, Known, Silent, Mentions, Listed
  <2>2. Init => ListedAfterSubscribing
    BY DEF Init, ListedAfterSubscribing
  <2>3. Init => TypeOK
    BY TypeInit
  <2>4. QED
    BY <2>1, <2>2, <2>3 DEF IInv
<1>2. IInv /\ [Next]_vars /\ TypeOK' => IInv'
  <2> SUFFICES ASSUME IInv, [Next]_vars, TypeOK'
               PROVE  IInv'
    OBVIOUS
  <2>1. CASE Next
    BY <2>1, PromiseKept, ListedAfterSubscribingKept DEF IInv
  <2>2. CASE UNCHANGED vars
    BY <2>2 DEF IInv, vars, dockerVars, streamVars, TypeOK, ListedAfterSubscribing,
                Listed, Subscribed, NoContainerForgotten, HeardLater, Known, Silent
  <2>3. QED
    BY <2>1, <2>2
<1>3. QED
  BY <1>1, <1>2, TypeCorrect, PTL DEF Spec

(* Registering before listing, and listing once, are enough as long as the *)
(* stream gives no cause for doubt: whatever the interleaving of listing,  *)
(* events, reconnections and container starts and stops, every other       *)
(* container is known to the subscriber or about to be.                    *)
THEOREM NeverForgotten == Spec => []NoContainerForgotten
<1>1. IInv => NoContainerForgotten
  BY DEF IInv
<1>2. QED
  BY <1>1, Inductive, PTL

(* A subscriber that has heard all there is about a container, and had no  *)
(* cause for doubt, believes it runs iff docker runs it.                   *)
THEOREM BeliefCorrect == Spec => []BeliefIsTruth
<1>1. IInv => BeliefIsTruth
  <2> SUFFICES ASSUME IInv, NEW c \in Container \ doubtful,
                      Listed, Silent(c), c \notin listed
               PROVE  c \in view <=> c \in running
    BY DEF BeliefIsTruth
  <2>1. ~HeardLater(c)
    <3> SUFFICES ASSUME HeardLater(c) PROVE FALSE
      OBVIOUS
    <3>1. PICK g \in Conn : \/ LastAbout(live[g], c, StartOf(c))
                            \/ LastAbout(live[g], c, StopOf(c))
      BY DEF HeardLater, StartOf, StopOf
    <3>2. live[g] \in Seq(Event) /\ StartOf(c).id = c /\ StopOf(c).id = c
      BY DEF IInv, TypeOK, StartOf, StopOf
    <3>3. Mentions(live[g], c)
      BY <3>1, <3>2, LastIsMentioned
    <3>4. QED
      BY <3>3 DEF Silent
  <2>2. Known(c)
    BY <2>1 DEF IInv, NoContainerForgotten
  <2>3. QED
    BY <2>2 DEF Known
<1>2. QED
  BY <1>1, Inductive, PTL
=============================================================================
