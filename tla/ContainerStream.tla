--------------------------- MODULE ContainerStream ---------------------------
(***************************************************************************)
(* What ONE subscriber of docker.ContainerRepository is promised.           *)
(*                                                                         *)
(* RegisterToContainersStream hands out a channel that merges two sources: *)
(* the start/stop events of the docker daemon (one event stream per        *)
(* connection; the forwarder goroutine of a lost connection is leaked and  *)
(* may deliver late) and, once, a start for every container of a listing   *)
(* taken some time after the registration.  This module keeps only those   *)
(* two sources and the set of containers the subscriber believes to run;   *)
(* ContainerRepository has the goroutines, channels and the mutex, and     *)
(* implements this module for each of its subscribers.                     *)
(***************************************************************************)
EXTENDS Naturals, Sequences

CONSTANTS
    Container,   \* container IDs
    MaxConn,     \* bound: event streams opened during a behaviour
    MaxPending   \* bound: events of one stream not yet received

ASSUME MaxConnAssumption == MaxConn \in Nat \ {0}
ASSUME MaxPendingAssumption == MaxPending \in Nat \ {0}

VARIABLES
    running,   \* the containers that docker runs
    gen,       \* number of event streams opened so far; gen is the latest
    open,      \* the latest event stream is connected
    live,      \* live[g]: the events of stream g the subscriber has yet to get
    listing,   \* the subscriber's registration and its one listing
    listed,    \* containers of the listing whose start it has yet to get
    view,      \* the containers the subscriber believes to run
    doubtful   \* history: containers it was given cause to be wrong about

dockerVars == <<running, gen, open>>
streamVars == <<live, listing, listed, view, doubtful>>
vars == <<dockerVars, streamVars>>

Conn == 1..MaxConn
Event == [id : Container, action : {"start", "stop"}]

Subscribed == listing # "no"
Listed == listing \in {"done", "failed"}

(* Some event of the queue s is about c. *)
Mentions(s, c) == \E i \in 1..Len(s) : s[i].id = c

(* The last event about c in the queue s is e. *)
LastAbout(s, c, e) ==
    \E i \in 1..Len(s) : /\ s[i] = e
                         /\ \A j \in (i + 1)..Len(s) : s[j].id # c

Silent(c) == \A g \in Conn : ~Mentions(live[g], c)

-----------------------------------------------------------------------------

Init ==
    /\ running \in SUBSET Container
    /\ gen = 0
    /\ open = FALSE
    /\ live = [g \in Conn |-> <<>>]
    /\ listing = "no"
    /\ listed = {}
    /\ view = {}
    /\ doubtful = {}

(* Mutant: the filter lets no stop event pass. *)
PublishStartsOnly(e) ==
    live' = IF open /\ e.action = "start" THEN [live EXCEPT ![gen] = Append(@, e)] ELSE live

(* The daemon publishes an event: only a connected stream gets it, and no  *)
(* stream asks for the past ("Since" is not set).                          *)
Publish(e) == live' = IF open THEN [live EXCEPT ![gen] = Append(@, e)] ELSE live

(* Another stream than the latest still has events about c: they may be    *)
(* delivered after newer ones.                                             *)
Straggling(c) == \E g \in Conn \ {gen} : Mentions(live[g], c)

(* Whether a start of c now may leave the subscriber wrong about c. *)
StartDoubt(c) ==
    IF open THEN Straggling(c)
    ELSE Listed \/ ~Silent(c) \/ c \in view

(* Whether a stop of c now may: a listed start of c may come after it. *)
StopDoubt(c) ==
    \/ c \in listed
    \/ IF open THEN Straggling(c) ELSE c \in view \/ ~Silent(c)

Doubt(c, b) == doubtful' = IF b THEN doubtful \cup {c} ELSE doubtful \ {c}

Room == open => Len(live[gen]) < MaxPending

DockerStart(c) ==
    /\ c \notin running
    /\ Room
    /\ running' = running \cup {c}
    /\ Publish([id |-> c, action |-> "start"])
    /\ Doubt(c, StartDoubt(c))
    /\ UNCHANGED <<gen, open, listing, listed, view>>

DockerStop(c) ==
    /\ c \in running
    /\ Room
    /\ running' = running \ {c}
    /\ Publish([id |-> c, action |-> "stop"])
    /\ Doubt(c, StopDoubt(c))
    /\ UNCHANGED <<gen, open, listing, listed, view>>

(* A container that exits by itself emits "die", which is filtered out. *)
DockerDie(c) ==
    /\ c \in running
    /\ running' = running \ {c}
    /\ doubtful' = doubtful \cup {c}
    /\ UNCHANGED <<gen, open, live, listing, listed, view>>

(* Mutant: the new stream is not told from the previous one. *)
OpenUncounted ==
    /\ ~open
    /\ gen < MaxConn
    /\ open' = TRUE
    /\ UNCHANGED <<running, gen, streamVars>>

(* A new event stream is connected: it starts with the events to come. *)
Open ==
    /\ ~open
    /\ gen < MaxConn
    /\ gen' = gen + 1
    /\ open' = TRUE
    /\ UNCHANGED <<running, streamVars>>

(* The connection breaks: of the events still on their way, n survive. *)
Close(n) ==
    /\ open
    /\ gen < MaxConn
    /\ n <= Len(live[gen])
    /\ open' = FALSE
    /\ live' = [live EXCEPT ![gen] = SubSeq(@, 1, n)]
    /\ doubtful' = doubtful \cup
                   {c \in Container : \E i \in (n + 1)..Len(live[gen]) : live[gen][i].id = c}
    /\ UNCHANGED <<running, gen, listing, listed, view>>

Subscribe ==
    /\ listing = "no"
    /\ listing' = "pending"
    /\ UNCHANGED <<dockerVars, live, listed, view, doubtful>>

(* The listing makes up for the starts that nobody heard of. *)
Snapshot ==
    /\ listing = "pending"
    /\ listing' = "done"
    /\ listed' = running
    /\ doubtful' = doubtful \ {c \in running : Silent(c)}
    /\ UNCHANGED <<dockerVars, live, view>>

(* A listing that fails is never tried again. *)
SnapshotFails ==
    /\ listing = "pending"
    /\ listing' = "failed"
    /\ doubtful' = doubtful \cup {c \in running \ view : Silent(c)}
    /\ UNCHANGED <<dockerVars, live, listed, view>>

(* What an event makes of the set S of containers believed to run. *)
Apply(S, e) == IF e.action = "start" THEN S \cup {e.id} ELSE S \ {e.id}

(* Mutant: the goroutine of a lost connection is stopped. *)
ReceiveWhileConnected(g) ==
    /\ g = gen
    /\ live[g] # <<>>
    /\ live' = [live EXCEPT ![g] = Tail(@)]
    /\ view' = IF Subscribed THEN Apply(view, Head(live[g])) ELSE view
    /\ UNCHANGED <<dockerVars, listing, listed, doubtful>>

(* An event reaches the subscriber, or nobody if it is not registered. *)
ReceiveLive(g) ==
    /\ live[g] # <<>>
    /\ live' = [live EXCEPT ![g] = Tail(@)]
    /\ view' = IF Subscribed THEN Apply(view, Head(live[g])) ELSE view
    /\ UNCHANGED <<dockerVars, listing, listed, doubtful>>

(* Mutant: the listed containers are not delivered as starts. *)
ReceiveListedIgnored(c) ==
    /\ c \in listed
    /\ listed' = listed \ {c}
    /\ UNCHANGED <<dockerVars, live, listing, view, doubtful>>

ReceiveListed(c) ==
    /\ c \in listed
    /\ listed' = listed \ {c}
    /\ view' = view \cup {c}
    /\ UNCHANGED <<dockerVars, live, listing, doubtful>>

Docker ==
    \/ \E c \in Container : DockerStart(c) \/ DockerStop(c) \/ DockerDie(c)
    \/ Open
    \/ \E n \in 0..MaxPending : Close(n)

Next ==
    \/ Docker
    \/ Subscribe
    \/ Snapshot
    \/ SnapshotFails
    \/ \E g \in Conn : ReceiveLive(g)
    \/ \E c \in Container : ReceiveListed(c)

Spec == Init /\ [][Next]_vars

(* Only what the service itself does is fair: docker may do nothing, and   *)
(* a lost stream need not be reopened.                                     *)
Fairness ==
    /\ WF_vars(Snapshot \/ SnapshotFails)
    /\ \A g \in Conn : WF_vars(ReceiveLive(g))
    /\ \A c \in Container : WF_vars(ReceiveListed(c))

FairSpec == Spec /\ Fairness

-----------------------------------------------------------------------------

(* The values the variables take. *)
TypeOK ==
    /\ running \in SUBSET Container
    /\ gen \in 0..MaxConn
    /\ open \in BOOLEAN
    /\ open => gen # 0
    /\ live \in [Conn -> Seq(Event)]
    /\ listing \in {"no", "pending", "done", "failed"}
    /\ listed \in SUBSET Container
    /\ view \in SUBSET Container
    /\ doubtful \in SUBSET Container

(* The last thing still to be heard about c, all of it on one stream,      *)
(* tells whether c runs; a last stop is not followed by a listed start.    *)
HeardLater(c) ==
    \E g \in Conn :
        /\ \A h \in Conn \ {g} : ~Mentions(live[h], c)
        /\ \/ /\ c \in running
              /\ LastAbout(live[g], c, [id |-> c, action |-> "start"])
           \/ /\ c \notin running
              /\ LastAbout(live[g], c, [id |-> c, action |-> "stop"])
              /\ c \notin listed

(* Nothing is left to be heard of c but, perhaps, a listed start, and the  *)
(* subscriber is right about c then (or will be when it lists).            *)
Known(c) ==
    /\ Silent(c)
    /\ IF c \in running THEN Listed => c \in view \cup listed
                        ELSE c \notin view \cup listed

(* Registering before listing and listing once are enough, as long as the  *)
(* stream holds: every container without cause for doubt is either known   *)
(* to the subscriber or about to be, on a single stream.                   *)
NoContainerForgotten ==
    \A c \in Container \ doubtful : HeardLater(c) \/ Known(c)

(* What was listed or heard belongs to a registration (no event is applied *)
(* to a subscriber that has not registered).                               *)
ListedAfterSubscribing ==
    /\ ~Listed => listed = {}
    /\ ~Subscribed => view = {}

(* When a subscriber has heard everything about a container and had no     *)
(* cause for doubt, it believes the container runs iff docker runs it.     *)
BeliefIsTruth ==
    \A c \in Container \ doubtful :
        Listed /\ Silent(c) /\ c \notin listed => (c \in view <=> c \in running)

(* A subscriber that has listed eventually holds the true belief about     *)
(* every container that docker leaves alone, unless there is a doubt.      *)
BeliefConverges ==
    \A c \in Container :
        /\ <>[](c \in running /\ c \notin doubtful /\ Subscribed) => <>[](c \in view)
        /\ <>[](c \notin running /\ c \notin doubtful /\ Subscribed) => <>[](c \notin view)
=============================================================================
