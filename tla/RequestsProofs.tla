--------------------------- MODULE RequestsProofs ---------------------------
(***************************************************************************)
(* For any containers, usages and limits, and whatever the containers do   *)
(* while a request is served: its answer is about the right containers,    *)
(* the swap it reports is one they had, the sums over the host are those   *)
(* of what they used, and the client can tell a failure.                   *)
(***************************************************************************)
EXTENDS Requests, TLAPS, WellFoundedInduction, NaturalsInduction, FiniteSetTheorems

(* A request is of some kind, and nothing is read before it is routed. *)
Stages ==
    /\ phase # "idle" => kind \in Host \cup Single \cup {"all"}
    /\ phase \in {"idle", "sent", "memory", "list"} => DOMAIN answer = {} /\ failed = {}
    /\ todo \cap failed = {}

(* The history holds the present while a request is under way. *)
Present ==
    phase \in {"sent", "memory", "list", "containers"} =>
        \A c \in Container : cgroup[c] \in during[c]

(* AnswerComplete, with the containers yet to be read. *)
ListComplete ==
    phase = "containers" /\ kind \notin Single =>
        /\ Throughout \ failed \subseteq DOMAIN answer \cup todo
        /\ DOMAIN answer \cup todo \subseteq Sometime

(* The memory that was read is one the container had during the request. *)
HalfRead ==
    half # None => \E u \in during[half.id] : half.memory = Memory(u)

RequestInv ==
    /\ RequestTypeOK
    /\ Stages
    /\ Present
    /\ ListComplete
    /\ HalfRead
    /\ AnswerComplete
    /\ SwapReported

-----------------------------------------------------------------------------
(* What is read from /proc/meminfo.                                        *)

(* A set of natural numbers has a least element. *)
LEMMA LeastElement ==
    ASSUME NEW T \in SUBSET Nat, T # {}
    PROVE  \E x \in T : \A y \in T : x <= y
<1> DEFINE R == OpToRel(<, Nat)
<1>1. R = {ss \in Nat \X Nat : ss[1] < ss[2]}
  BY DEF OpToRel
<1>2. IsWellFoundedOn(R, Nat)
  BY NatLessThanWellFounded
<1> HIDE DEF R
<1>3. PICK x \in T : \A y \in T : ~(<<y, x>> \in R)
  BY <1>2, WFMin
<1>4. ASSUME NEW y \in T, y < x PROVE FALSE
  <2>1. <<y, x>> \in Nat \X Nat
    OBVIOUS
  <2>2. <<y, x>>[1] < <<y, x>>[2]
    BY <1>4
  <2> QED
    BY <1>1, <1>3, <2>1, <2>2
<1>5. \A y \in T : x <= y
  BY <1>4
<1> QED
  BY <1>5

(* The least and the greatest of some numbers are the bounds of each. *)
LEMMA Bounds ==
    ASSUME NEW n \in Nat, NEW S \in SUBSET (0..n), S # {}
    PROVE  /\ Min(S) \in S /\ Max(S) \in S
           /\ \A x \in S : Min(S) <= x /\ x <= Max(S)
<1>1. Min(S) \in S /\ \A x \in S : Min(S) <= x
  <2>1. \E x \in S : \A y \in S : x <= y
    BY LeastElement
  <2> QED
    BY <2>1 DEF Min
<1>2. Max(S) \in S /\ \A x \in S : Max(S) >= x
  <2> DEFINE T == {n - i : i \in S}
  <2>1. T \in SUBSET Nat /\ T # {}
    <3>1. \A i \in S : n - i \in Nat
      OBVIOUS
    <3> QED
      BY <3>1
  <2>2. PICK x \in T : \A y \in T : x <= y
    BY <2>1, LeastElement
  <2>3. PICK i \in S : x = n - i
    BY <2>2
  <2>4. \A j \in S : i >= j
    <3> SUFFICES ASSUME NEW j \in S PROVE i >= j
      OBVIOUS
    <3>1. x <= n - j
      BY <2>2
    <3> QED
      BY <2>3, <3>1
  <2> QED
    BY <2>4 DEF Max
<1> QED
  BY <1>1, <1>2

(* A field is below 2^64, whichever lines there are and whatever overflows. *)
LEMMA FieldTyped ==
    ASSUME NEW file, Len(file) \in Nat, NEW header,
           \A i \in 1..Len(file) : ~NotUnsigned(file[i])
    PROVE  Field(file, header) \in 0..(Modulus - 1)
<1> DEFINE lines == {i \in 1..Len(file) : file[i].header = header}
<1>1. Modulus \in Nat \ {0}
  BY LimitAssumption
<1>2. CASE lines = {}
  BY <1>1, <1>2 DEF Field
<1>3. CASE lines # {}
  <2>1. Max(lines) \in lines
    <3>1. lines \in SUBSET (0..Len(file))
      OBVIOUS
    <3> QED
      BY <1>3, <3>1, Bounds
  <2> DEFINE line == file[Max(lines)]
  <2>2. line.value \in 0..(Modulus - 1)
    BY <2>1 DEF NotUnsigned
  <2>3. Field(file, header) = Bytes(line)
    BY <1>3 DEF Field
  <2> HIDE DEF line
  <2>4. (line.value * 1024) % Modulus \in 0..(Modulus - 1)
    BY <1>1, <2>2
  <2> QED
    BY <2>2, <2>3, <2>4 DEF Bytes
<1> QED
  BY <1>2, <1>3

LEMMA MiBTyped ==
    ASSUME NEW x \in Int
    PROVE  MiB(x % Modulus) \in 0..Modulus
<1>1. Modulus \in Nat \ {0}
  BY LimitAssumption
<1>2. x % Modulus \in 0..(Modulus - 1)
  BY <1>1
<1> DEFINE b == x % Modulus
<1> HIDE DEF b
<1>3. b \in 0..(Modulus - 1)
  BY <1>2 DEF b
<1>4. b \div 1024 \in 0..Modulus
  BY <1>1, <1>3
<1>5. (b \div 1024) \div 1024 \in 0..Modulus
  BY <1>1, <1>4
<1> QED
  BY <1>5 DEF MiB, b

(* What the host handler reports of the memory, although the sum of free,  *)
(* buffered and cached memory and the difference of the swaps may wrap.    *)
LEMMA HostMemoryTyped ==
    ASSUME NEW file, Len(file) \in Nat, \A i \in 1..Len(file) : ~NotUnsigned(file[i])
    PROVE  HostMemory(file) \in [free : 0..Modulus, total : 0..Modulus, swap : 0..Modulus]
<1>1. Modulus \in Nat \ {0}
  BY LimitAssumption
<1>2. \A header : Field(file, header) \in 0..(Modulus - 1)
  BY FieldTyped
<1> DEFINE free == Field(file, "MemFree") + Field(file, "Buffers") + Field(file, "Cached")
           swap == Field(file, "SwapTotal") - Field(file, "SwapFree")
           total == Field(file, "MemTotal")
<1>3. free \in Int /\ swap \in Int /\ total \in 0..(Modulus - 1)
  BY <1>1, <1>2
<1>4. HostMemory(file) = [free |-> MiB(free % Modulus), total |-> MiB(total),
                          swap |-> MiB(swap % Modulus)]
  BY DEF HostMemory
<1> HIDE DEF free, swap, total
<1>5. total % Modulus = total
  BY <1>1, <1>3
<1>6. MiB(free % Modulus) \in 0..Modulus /\ MiB(swap % Modulus) \in 0..Modulus
  BY <1>3, MiBTyped
<1>7. MiB(total) \in 0..Modulus
  <2>1. total \in Int
    BY <1>1, <1>3
  <2>2. MiB(total % Modulus) \in 0..Modulus
    BY <2>1, MiBTyped
  <2> QED
    BY <1>5, <2>2
<1> QED
  BY <1>4, <1>6, <1>7

-----------------------------------------------------------------------------
(* The steps of a request.                                                 *)

(* The containers change: during only grows, so that fewer containers ran  *)
(* throughout and more ran sometime.                                       *)
LEMMA ChangeKept ==
    ASSUME RequestInv, NEW c \in Container, CgroupChanges(c)
    PROVE  RequestInv'
<1>1. PICK u \in Usage \cup {NoCgroup} : u # cgroup[c] /\ cgroup' = [cgroup EXCEPT ![c] = u]
  BY DEF CgroupChanges
<1>2. UNCHANGED requestVars /\ UNCHANGED v2
  BY DEF CgroupChanges
<1>3. /\ during' \in [Container -> SUBSET (Usage \cup {NoCgroup})]
      /\ \A d \in Container : during[d] \subseteq during'[d]
      /\ phase \in {"idle", "done"} => during' = during
      /\ phase \notin {"idle", "done"} => \A d \in Container : cgroup'[d] \in during'[d]
                                                          /\ cgroup[d] \in during'[d]
  BY <1>1 DEF CgroupChanges, RequestInv, RequestTypeOK, Present
<1>4. RequestTypeOK'
  BY <1>1, <1>2, <1>3 DEF RequestInv, RequestTypeOK, requestVars
<1>5. Stages' /\ Present'
  BY <1>2, <1>3 DEF RequestInv, Stages, Present, requestVars
<1>6. Throughout' \subseteq Throughout /\ Sometime \subseteq Sometime'
  <2>1. \A d \in Container : Wanted(d)' <=> Wanted(d)
    BY <1>2 DEF Wanted, requestVars
  <2>2. Throughout' \subseteq Throughout
    BY <1>3, <2>1 DEF Throughout
  <2>3. ASSUME NEW d \in Sometime PROVE d \in Sometime'
    <3>1. d \in Container /\ Wanted(d)' /\ during[d] # {NoCgroup}
      BY <2>1 DEF Sometime
    <3>2. CASE phase \in {"idle", "done"}
      BY <1>3, <3>1, <3>2 DEF Sometime
    <3>3. CASE phase \notin {"idle", "done"}
      <4>1. cgroup[d] \in during[d]
        BY <3>1, <3>3 DEF RequestInv, RequestTypeOK, Present
      <4>2. during'[d] # {NoCgroup}
        BY <1>3, <3>1, <4>1
      <4> QED
        BY <3>1, <4>2 DEF Sometime
    <3> QED
      BY <3>2, <3>3
  <2> QED
    BY <2>2, <2>3
<1>7. ListComplete' /\ AnswerComplete'
  BY <1>2, <1>6 DEF RequestInv, ListComplete, AnswerComplete, Answered, requestVars
<1>8. HalfRead'
  BY <1>2, <1>3 DEF RequestInv, RequestTypeOK, HalfRead, Memory, requestVars
<1>9. SwapReported'
  <2> SUFFICES ASSUME NEW d \in DOMAIN answer
               PROVE /\ \E w \in during'[d] : answer[d].swap <= MemorySwap(w)
                     /\ \A w \in Usage : during'[d] = {w} => answer[d].swap = w.swap
    BY <1>2 DEF SwapReported, MemorySwap, Memory, Swap, requestVars
  <2>1. d \in Container
    BY DEF RequestInv, RequestTypeOK
  <2>2. \A w \in Usage : during'[d] = {w} => during[d] = {w}
    <3>1. CASE phase \in {"idle", "done"}
      BY <1>3, <3>1
    <3>2. CASE phase \notin {"idle", "done"}
      <4>1. cgroup[d] \in during[d]
        BY <2>1, <3>2 DEF RequestInv, RequestTypeOK, Present
      <4> QED
        BY <1>3, <2>1, <4>1
    <3> QED
      BY <3>1, <3>2
  <2> QED
    BY <1>3, <2>1, <2>2 DEF RequestInv, SwapReported
<1> QED
  BY <1>4, <1>5, <1>7, <1>8, <1>9 DEF RequestInv

(* A response with data is given only when all is read. *)
Data == [status |-> 200, body |-> "data"]

LEMMA RespondKept ==
    ASSUME RequestInv,
           phase' = "done", half' = None, response' \in [status : Nat, body : {"data", "error", "text", "empty"}],
           UNCHANGED <<cgroup, v2, kind, memInfo, todo, answer, during, failed>>,
           phase # "idle",
           response' = Data => phase = "containers" /\ todo = {}
    PROVE  RequestInv'
<1>1. UNCHANGED <<cgroup, v2, kind, memInfo, todo, answer, during, failed>>
  OBVIOUS
<1>2. response' # None
  BY NoneAssumption
<1>3. RequestTypeOK'
  BY <1>1, <1>2 DEF RequestInv, RequestTypeOK
<1>4. Stages' /\ Present' /\ ListComplete' /\ HalfRead'
  BY <1>1 DEF RequestInv, Stages, Present, ListComplete, HalfRead
<1>5. AnswerComplete'
  <2> SUFFICES ASSUME Answered', kind' \notin Single
               PROVE  (Throughout \ failed \subseteq DOMAIN answer
                         /\ DOMAIN answer \subseteq Sometime)'
    BY DEF AnswerComplete
  <2>1. response' = Data
    BY DEF Answered, Data
  <2>2. Throughout \ failed \subseteq DOMAIN answer /\ DOMAIN answer \subseteq Sometime
    BY <1>1, <2>1 DEF RequestInv, ListComplete
  <2> QED
    BY <1>1, <2>2 DEF Throughout, Sometime, Wanted
<1>6. SwapReported'
  BY <1>1 DEF RequestInv, SwapReported, MemorySwap, Memory, Swap
<1> QED
  BY <1>3, <1>4, <1>5, <1>6 DEF RequestInv

(* All that ends a request. *)
LEMMA ResponseKept ==
    ASSUME RequestInv,
           \/ Unauthorized \/ NotFound \/ ListContainersFails \/ Encode \/ ConnectionLost
           \/ \E c \in Container : PassError(c)
           \/ \E file \in MemInfoFile : ReadMemInfoFails(file)
    PROVE  RequestInv'
<1> USE DEF Respond, Data
<1>1. CASE Unauthorized
  BY <1>1, RespondKept DEF Unauthorized
<1>2. CASE NotFound
  BY <1>2, RespondKept DEF NotFound
<1>3. CASE ListContainersFails
  BY <1>3, RespondKept DEF ListContainersFails
<1>4. CASE ConnectionLost
  BY <1>4, RespondKept DEF ConnectionLost
<1>5. CASE Encode
  BY <1>5, RespondKept DEF Encode
<1>6. CASE \E c \in Container : PassError(c)
  BY <1>6, RespondKept DEF PassError, GetStatsFails
<1>7. CASE \E file \in MemInfoFile : ReadMemInfoFails(file)
  BY <1>7, RespondKept DEF ReadMemInfoFails
<1> QED
  BY <1>1, <1>2, <1>3, <1>4, <1>5, <1>6, <1>7

(* Until the containers are listed, and after the client has returned,     *)
(* there is nothing to be wrong about.                                     *)
LEMMA EarlyKept ==
    ASSUME RequestInv, UNCHANGED <<cgroup, v2>>,
           half' = None, response' = None, DOMAIN answer' = {},
           phase' \in {"idle", "sent", "memory", "list", "containers"},
           failed' = {},
           todo' \subseteq Container,
           kind' \in Host \cup Single \cup {"all", None},
           phase' # "idle" => kind' \in Host \cup Single \cup {"all"},
           memInfo' = None \/ memInfo' \in [free : 0..Modulus, total : 0..Modulus, swap : 0..Modulus],
           during' \in [Container -> SUBSET (Usage \cup {NoCgroup})],
           phase' # "idle" => \A c \in Container : cgroup[c] \in during'[c],
           ListComplete'
    PROVE  RequestInv'
<1>1. RequestTypeOK'
  BY DEF RequestInv, RequestTypeOK
<1>2. Stages' /\ Present' /\ HalfRead'
  BY DEF Stages, Present, HalfRead
<1>3. AnswerComplete' /\ SwapReported'
  BY DEF AnswerComplete, SwapReported, Answered
<1> QED
  BY <1>1, <1>2, <1>3 DEF RequestInv

(* The listing is about all that run at its moment, and only about them. *)
LEMMA ListKept ==
    ASSUME RequestInv, ListContainers
    PROVE  RequestInv'
<1>1. /\ phase = "list" /\ phase' = "containers"
      /\ todo' = {c \in Container : cgroup[c] # NoCgroup /\ Included(c)}
      /\ UNCHANGED <<cgroup, v2, kind, memInfo, half, answer, response, during, failed>>
  BY DEF ListContainers
<1>2. DOMAIN answer = {} /\ failed = {} /\ half = None /\ response = None
  BY <1>1 DEF RequestInv, RequestTypeOK, Stages
<1>3. \A c \in Container : cgroup[c] \in during[c]
  BY <1>1 DEF RequestInv, Present
<1>4. ListComplete'
  <2>1. \A c \in Container : Wanted(c)' <=> Included(c)
    BY <1>1 DEF Wanted, Included
  <2>2. Throughout' \subseteq todo'
    BY <1>1, <1>3, <2>1 DEF Throughout
  <2>3. todo' \subseteq Sometime'
    BY <1>1, <1>3, <2>1 DEF Sometime
  <2> QED
    BY <1>1, <1>2, <2>2, <2>3 DEF ListComplete
<1> QED
  BY <1>1, <1>2, <1>3, <1>4, EarlyKept DEF RequestInv, RequestTypeOK, Stages

LEMMA SendKept ==
    ASSUME RequestInv, NEW k \in Host \cup Single \cup {"all"}, NEW ids \in SUBSET Container,
           Send(k, ids)
    PROVE  RequestInv'
<1>1. /\ phase = "idle" /\ phase' = "sent" /\ kind' = k /\ todo' = ids
      /\ during' = [c \in Container |-> {cgroup[c]}]
      /\ UNCHANGED <<cgroup, v2, memInfo, half, answer, response, failed>>
  BY DEF Send
<1>2. DOMAIN answer = {} /\ failed = {} /\ half = None /\ response = None
  BY <1>1 DEF RequestInv, RequestTypeOK, Stages
<1>3. ListComplete'
  BY <1>1 DEF ListComplete
<1> QED
  BY <1>1, <1>2, <1>3, EarlyKept DEF RequestInv, RequestTypeOK

(* Only the handlers of one container, and of the maps, have not listed. *)
LEMMA RouteKept ==
    ASSUME RequestInv, Route
    PROVE  RequestInv'
<1>1. /\ phase = "sent" /\ phase' \in {"memory", "list", "containers"}
      /\ phase' = "containers" => kind \notin Host \cup {"all"}
      /\ todo' \subseteq todo
      /\ UNCHANGED <<cgroup, v2, kind, memInfo, half, answer, response, during, failed>>
  BY DEF Route
<1>2. DOMAIN answer = {} /\ failed = {} /\ half = None /\ response = None
      /\ kind \in Host \cup Single \cup {"all"}
  BY <1>1 DEF RequestInv, RequestTypeOK, Stages
<1>3. ListComplete'
  BY <1>1, <1>2 DEF ListComplete
<1> QED
  BY <1>1, <1>2, <1>3, EarlyKept DEF RequestInv, RequestTypeOK, Present

LEMMA MemInfoKept ==
    ASSUME RequestInv, NEW file \in MemInfoFile, ReadMemInfo(file)
    PROVE  RequestInv'
<1>1. /\ phase = "memory" /\ phase' = "list" /\ memInfo' = HostMemory(file)
      /\ file # Unreadable /\ \A i \in 1..Len(file) : ~NotUnsigned(file[i])
      /\ UNCHANGED <<cgroup, v2, kind, todo, half, answer, response, during, failed>>
  BY DEF ReadMemInfo
<1>2. DOMAIN answer = {} /\ failed = {} /\ half = None /\ response = None
      /\ kind \in Host \cup Single \cup {"all"}
  BY <1>1 DEF RequestInv, RequestTypeOK, Stages
<1>3. memInfo' \in [free : 0..Modulus, total : 0..Modulus, swap : 0..Modulus]
  BY <1>1, HostMemoryTyped, MemInfoAssumption
<1>4. ListComplete'
  BY <1>1 DEF ListComplete
<1> QED
  BY <1>1, <1>2, <1>3, <1>4, EarlyKept DEF RequestInv, RequestTypeOK, Present

LEMMA ReturnKept ==
    ASSUME RequestInv, Return
    PROVE  RequestInv'
<1>1. /\ phase = "done" /\ phase' = "idle" /\ kind' = None /\ memInfo' = None /\ todo' = {}
      /\ answer' = <<>> /\ response' = None /\ failed' = {}
      /\ during' = [c \in Container |-> {}]
      /\ UNCHANGED <<cgroup, v2, half>>
  BY DEF Return
<1>2. half = None /\ DOMAIN answer' = {}
  BY <1>1 DEF RequestInv, RequestTypeOK
<1>3. ListComplete'
  BY <1>1 DEF ListComplete
<1> QED
  BY <1>1, <1>2, <1>3, EarlyKept

-----------------------------------------------------------------------------
(* The reads of the containers.                                            *)

LEMMA MemoryKept ==
    ASSUME RequestInv, NEW c \in Container, ReadMemory(c)
    PROVE  RequestInv'
<1>1. /\ phase = "containers" /\ c \in todo
      /\ half' = [id |-> c, memory |-> Memory(cgroup[c]),
                  limit |-> IF cgroup[c] = NoCgroup THEN 0 ELSE Limit[c]]
      /\ UNCHANGED <<cgroup, v2, kind, phase, memInfo, todo, answer, response, during, failed>>
  BY DEF ReadMemory
<1>2. half'.id = c /\ half'.memory = Memory(cgroup[c])
  BY <1>1
<1>3. RequestTypeOK'
  BY <1>1, <1>2 DEF RequestInv, RequestTypeOK
<1>4. Stages' /\ Present' /\ ListComplete' /\ AnswerComplete'
  BY <1>1 DEF RequestInv, Stages, Present, ListComplete, AnswerComplete, Answered,
              Throughout, Sometime, Wanted
<1>5. HalfRead'
  BY <1>1, <1>2 DEF RequestInv, Present, HalfRead, Memory
<1>6. SwapReported'
  BY <1>1 DEF RequestInv, SwapReported, MemorySwap, Memory, Swap
<1> QED
  BY <1>3, <1>4, <1>5, <1>6 DEF RequestInv

LEMMA SkipKept ==
    ASSUME RequestInv, NEW c \in Container, SkipContainer(c)
    PROVE  RequestInv'
<1>1. /\ phase = "containers" /\ c \in todo /\ todo' = todo \ {c} /\ half' = None
      /\ failed' = failed \cup {d \in {c} : cgroup[d] # NoCgroup}
      /\ UNCHANGED <<cgroup, v2, kind, phase, memInfo, answer, response, during>>
  BY DEF SkipContainer, GetStatsFails
<1>2. RequestTypeOK'
  BY <1>1 DEF RequestInv, RequestTypeOK
<1>3. Stages' /\ Present' /\ AnswerComplete' /\ HalfRead'
  BY <1>1 DEF RequestInv, Stages, Present, AnswerComplete, Answered, HalfRead
<1>4. ListComplete'
  <2> SUFFICES ASSUME kind \notin Single
               PROVE (/\ Throughout \ failed \subseteq DOMAIN answer \cup todo
                      /\ DOMAIN answer \cup todo \subseteq Sometime)'
    BY <1>1 DEF ListComplete
  <2>1. Throughout' = Throughout /\ Sometime' = Sometime
    BY <1>1 DEF Throughout, Sometime, Wanted
  <2>2. c \in Throughout => c \in failed'
    BY <1>1 DEF Throughout, RequestInv, Present
  <2> QED
    BY <1>1, <2>1, <2>2 DEF RequestInv, ListComplete
<1>5. SwapReported'
  BY <1>1 DEF RequestInv, SwapReported, MemorySwap, Memory, Swap
<1> QED
  BY <1>2, <1>3, <1>4, <1>5 DEF RequestInv

(* With v1 the swap is a difference of files read one after the other. *)
LEMMA SwapBounded ==
    ASSUME NEW u \in Usage \cup {NoCgroup}, NEW m \in Nat
    PROVE  /\ Memory(u) \in Nat /\ Swap(u) \in Nat
           /\ Swap(u) <= MemorySwap(u)
           /\ SwapMetric(MemorySwap(u), m) <= MemorySwap(u)
           /\ m = Memory(u) => SwapMetric(MemorySwap(u), m) = Swap(u)
<1>1. Memory(u) \in Nat /\ Swap(u) \in Nat
  BY UsageAssumption DEF Memory, Swap
<1> QED
  BY <1>1 DEF MemorySwap, SwapMetric

LEMMA SwapKept ==
    ASSUME RequestInv, ReadSwap
    PROVE  RequestInv'
<1> DEFINE c == half.id
           u == cgroup[half.id]
           swap == IF v2 THEN Swap(u) ELSE SwapMetric(MemorySwap(u), half.memory)
           usage == MemoryUsageFromStats(half, swap)
<1>1. /\ half # None /\ half' = None /\ todo' = todo \ {c}
      /\ answer' = [d \in DOMAIN answer \cup {c} |-> IF d = c THEN usage ELSE answer[d]]
      /\ UNCHANGED <<cgroup, v2, kind, phase, memInfo, response, during, failed>>
  BY DEF ReadSwap
<1>2. phase = "containers" /\ c \in todo /\ c \in Container /\ u \in Usage \cup {NoCgroup}
  BY <1>1 DEF RequestInv, RequestTypeOK
<1>3. u \in during[c] /\ during[c] \subseteq Usage \cup {NoCgroup}
  BY <1>2 DEF RequestInv, RequestTypeOK, Present
<1>4. PICK w \in during[c] : half.memory = Memory(w)
  BY <1>1 DEF RequestInv, HalfRead
<1>5. usage.swap = swap
  BY DEF MemoryUsageFromStats
<1>6. swap <= MemorySwap(u)
  BY <1>2, <1>3, <1>4, SwapBounded
<1>7. ASSUME NEW x \in Usage, during[c] = {x} PROVE swap = x.swap
  <2>1. u = x /\ w = x
    BY <1>3, <1>7
  <2>2. swap = Swap(x)
    BY <1>4, <2>1, SwapBounded
  <2> QED
    BY <2>2, UsageAssumption DEF Swap
<1> HIDE DEF c, u, swap, usage
<1>8. DOMAIN answer' = DOMAIN answer \cup {c} /\ answer'[c] = usage
      /\ \A d \in DOMAIN answer \ {c} : answer'[d] = answer[d]
  BY <1>1
<1>9. c \notin failed
  BY <1>2 DEF RequestInv, Stages
<1>10. RequestTypeOK'
  BY <1>1, <1>2, <1>8, <1>9 DEF RequestInv, RequestTypeOK
<1>11. Stages' /\ Present' /\ HalfRead' /\ AnswerComplete'
  BY <1>1, <1>2 DEF RequestInv, Stages, Present, HalfRead, AnswerComplete, Answered
<1>12. ListComplete'
  BY <1>1, <1>2, <1>8 DEF RequestInv, ListComplete, Throughout, Sometime, Wanted
<1>13. SwapReported'
  <2> SUFFICES ASSUME NEW d \in DOMAIN answer'
               PROVE /\ \E x \in during[d] : answer'[d].swap <= MemorySwap(x)
                     /\ \A x \in Usage : during[d] = {x} => answer'[d].swap = x.swap
    <3>1. during' = during
      BY <1>1
    <3> QED
      BY <3>1 DEF SwapReported, MemorySwap, Memory, Swap
  <2>1. CASE d = c
    BY <1>3, <1>5, <1>6, <1>7, <1>8, <2>1
  <2>2. CASE d # c
    BY <1>8, <2>2 DEF RequestInv, SwapReported
  <2> QED
    BY <2>1, <2>2
<1> QED
  BY <1>10, <1>11, <1>12, <1>13 DEF RequestInv

-----------------------------------------------------------------------------

LEMMA InvInit == RequestInit => RequestInv
<1> SUFFICES ASSUME RequestInit PROVE RequestInv
  OBVIOUS
<1>1. DOMAIN answer = {} /\ response = None /\ half = None /\ phase = "idle" /\ failed = {}
  BY DEF RequestInit
<1>2. RequestTypeOK
  BY <1>1 DEF RequestInit, RequestTypeOK
<1>3. Stages /\ Present /\ ListComplete /\ HalfRead /\ AnswerComplete /\ SwapReported
  BY <1>1 DEF RequestInit, Stages, Present, ListComplete, HalfRead, AnswerComplete, Answered,
              SwapReported
<1> QED
  BY <1>2, <1>3 DEF RequestInv

LEMMA InvStutter == RequestInv /\ UNCHANGED vars => RequestInv'
<1> SUFFICES ASSUME RequestInv, UNCHANGED vars PROVE RequestInv'
  OBVIOUS
<1>1. UNCHANGED <<cgroup, v2, kind, phase, memInfo, todo, half, answer, response, failed, during>>
  BY DEF vars, requestVars
<1>2. RequestTypeOK'
  BY <1>1 DEF RequestInv, RequestTypeOK
<1>3. Stages' /\ Present' /\ HalfRead'
  BY <1>1 DEF RequestInv, Stages, Present, HalfRead, Memory
<1>4. ListComplete' /\ AnswerComplete'
  BY <1>1 DEF RequestInv, ListComplete, AnswerComplete, Answered, Throughout, Sometime, Wanted
<1>5. SwapReported'
  BY <1>1 DEF RequestInv, SwapReported, MemorySwap, Memory, Swap
<1> QED
  BY <1>2, <1>3, <1>4, <1>5 DEF RequestInv

(* The invariant holds of every behaviour. *)
LEMMA InvHolds == RequestSpec => []RequestInv
<1>1. RequestInit => RequestInv
  BY InvInit
<1>2. ASSUME RequestInv, [RequestNext]_vars PROVE RequestInv'
  <2>1. CASE UNCHANGED vars
    BY <1>2, <2>1, InvStutter
  <2>2. ASSUME NEW c \in Container, NEW k \in Single,
               Send(k, {c}) \/ (k # "usage" /\ Send(k, {}))
        PROVE  RequestInv'
    BY <1>2, <2>2, SendKept
  <2>3. ASSUME NEW k \in Host \cup {"all"}, Send(k, {}) PROVE RequestInv'
    BY <1>2, <2>3, SendKept
  <2>4. ASSUME NEW c \in Container,
               CgroupChanges(c) \/ ReadMemory(c) \/ SkipContainer(c)
        PROVE  RequestInv'
    BY <1>2, <2>4, ChangeKept, MemoryKept, SkipKept
  <2>5. CASE \/ Unauthorized \/ NotFound \/ ListContainersFails \/ Encode \/ ConnectionLost
             \/ \E c \in Container : PassError(c)
             \/ \E file \in MemInfoFile : ReadMemInfoFails(file)
    BY <1>2, <2>5, ResponseKept
  <2>6. CASE Route \/ ListContainers \/ ReadSwap \/ Return
    BY <1>2, <2>6, RouteKept, ListKept, SwapKept, ReturnKept
  <2>7. ASSUME NEW file \in MemInfoFile, ReadMemInfo(file) PROVE RequestInv'
    BY <1>2, <2>7, MemInfoKept
  <2> QED
    BY <1>2, <2>1, <2>2, <2>3, <2>4, <2>5, <2>6, <2>7 DEF RequestNext
<1> QED
  BY <1>1, <1>2, PTL DEF RequestSpec

(* The variables of a request keep their types; in particular a container  *)
(* is not both yet to be read and answered, nor both failed and answered,  *)
(* and what the host handler reports of the memory fits 64 bits.           *)
THEOREM RequestTypeCorrect == RequestSpec => []RequestTypeOK
<1>1. RequestInv => RequestTypeOK
  BY DEF RequestInv
<1> QED
  BY <1>1, InvHolds, PTL

(* For any containers, and however they start and stop between the listing *)
(* and their reads: an answer about many is about all of the query that    *)
(* ran throughout the request and could be read, and about no container    *)
(* that ran at no moment of it.                                            *)
THEOREM CompleteAnswer == RequestSpec => []AnswerComplete
<1>1. RequestInv => AnswerComplete
  BY DEF RequestInv
<1> QED
  BY <1>1, InvHolds, PTL

(* For any usages, cgroup v1 or v2: the guarded difference of two files    *)
(* read at different moments never reports more swap than the container    *)
(* had memory and swap at some moment, and is exact for one at rest.       *)
THEOREM SwapCorrect == RequestSpec => []SwapReported
<1>1. RequestInv => SwapReported
  BY DEF RequestInv
<1> QED
  BY <1>1, InvHolds, PTL
-----------------------------------------------------------------------------
(* What the client makes of a response.                                    *)

(* The responses have the forms the client tells apart, and data is sent   *)
(* with status 200.                                                        *)
Formed ==
    phase = "done" =>
        /\ response \in [status : Nat, body : {"data", "error", "text", "empty"}]
        /\ response.body = "data" => Answered

(* Past /proc/meminfo the host handler knows of some memory. *)
MemoryKnown ==
    kind \in Host /\ (phase \in {"list", "containers"} \/ Answered) => memInfo.total > 0

(* A handler of one container does not list, and loses it only with an error. *)
OneRead ==
    kind \in {"usage", "io"} =>
        /\ phase \notin {"memory", "list"}
        /\ phase = "containers" => DOMAIN answer \cup todo # {}
        /\ Answered => DOMAIN answer # {}

ClientInv == Formed /\ MemoryKnown /\ OneRead

LEMMA ClientRespondKept ==
    ASSUME ClientInv, RequestInv,
           NEW status \in Nat, NEW body \in {"data", "error", "text", "empty"}, Respond(status, body),
           body = "data" => status = 200 /\ phase = "containers" /\ todo = {}
    PROVE  ClientInv'
<1>1. /\ response' = [status |-> status, body |-> body] /\ phase' = "done"
      /\ UNCHANGED <<kind, memInfo, todo, answer>>
  BY DEF Respond
<1>2. Answered' <=> status = 200 /\ body = "data"
  BY <1>1 DEF Answered
<1>3. Formed'
  BY <1>1, <1>2 DEF Formed
<1>4. MemoryKnown'
  BY <1>1, <1>2 DEF ClientInv, MemoryKnown
<1>5. OneRead'
  BY <1>1, <1>2 DEF ClientInv, OneRead
<1> QED
  BY <1>3, <1>4, <1>5 DEF ClientInv

LEMMA ClientResponseKept ==
    ASSUME ClientInv, RequestInv,
           \/ Unauthorized \/ NotFound \/ ListContainersFails \/ Encode \/ ConnectionLost
           \/ \E c \in Container : PassError(c)
           \/ \E file \in MemInfoFile : ReadMemInfoFails(file)
    PROVE  ClientInv'
<1>1. CASE Unauthorized
  BY <1>1, ClientRespondKept DEF Unauthorized
<1>2. CASE NotFound
  BY <1>2, ClientRespondKept DEF NotFound
<1>3. CASE ListContainersFails
  BY <1>3, ClientRespondKept DEF ListContainersFails
<1>4. CASE ConnectionLost
  BY <1>4, ClientRespondKept DEF ConnectionLost
<1>5. CASE Encode
  BY <1>5, ClientRespondKept DEF Encode
<1>6. CASE \E c \in Container : PassError(c)
  BY <1>6, ClientRespondKept DEF PassError
<1>7. CASE \E file \in MemInfoFile : ReadMemInfoFails(file)
  BY <1>7, ClientRespondKept DEF ReadMemInfoFails
<1> QED
  BY <1>1, <1>2, <1>3, <1>4, <1>5, <1>6, <1>7

(* The reads of the containers, the listing and the changes in between. *)
LEMMA ClientReadKept ==
    ASSUME ClientInv, RequestInv, phase' = "containers", response' = response,
           UNCHANGED <<kind, memInfo>>, phase \in {"list", "containers"},
           kind \in {"usage", "io"} => DOMAIN answer' \cup todo' # {}
    PROVE  ClientInv'
<1>1. ~Answered'
  BY DEF Answered
<1> QED
  BY <1>1 DEF ClientInv, Formed, MemoryKnown, OneRead

LEMMA ClientStepKept ==
    ASSUME ClientInv, RequestInv, [RequestNext]_vars
    PROVE  ClientInv'
<1>1. CASE UNCHANGED requestVars
  BY <1>1 DEF ClientInv, Formed, MemoryKnown, OneRead, Answered, requestVars
<1>2. ASSUME NEW c \in Container, CgroupChanges(c) PROVE ClientInv'
  BY <1>1, <1>2 DEF CgroupChanges
<1>3. ASSUME NEW k, NEW ids, Send(k, ids) PROVE ClientInv'
  <2>1. phase' = "sent"
    BY <1>3 DEF Send
  <2> QED
    BY <2>1 DEF ClientInv, Formed, MemoryKnown, OneRead, Answered
<1>4. ASSUME NEW c \in Container, ReadMemory(c) PROVE ClientInv'
  <2>1. phase = "containers" /\ UNCHANGED <<kind, phase, memInfo, todo, answer, response>>
    BY <1>4 DEF ReadMemory
  <2> QED
    BY <2>1, ClientReadKept DEF ClientInv, OneRead
<1>5. ASSUME NEW c \in Container, SkipContainer(c) PROVE ClientInv'
  <2>1. phase = "containers" /\ kind \notin Single /\ UNCHANGED <<kind, phase, memInfo, response>>
    BY <1>5 DEF SkipContainer, GetStatsFails
  <2> QED
    BY <2>1, ClientReadKept DEF Single
<1>6. CASE \/ Unauthorized \/ NotFound \/ ListContainersFails \/ Encode \/ ConnectionLost
           \/ \E c \in Container : PassError(c)
           \/ \E file \in MemInfoFile : ReadMemInfoFails(file)
  BY <1>6, ClientResponseKept
<1>7. CASE Route
  <2>1. /\ phase = "sent" /\ ~NoSuchPath
        /\ phase' = IF kind \in Host THEN "memory" ELSE IF kind = "all" THEN "list" ELSE "containers"
        /\ todo' = IF kind \in {"cpu", "net"} THEN {} ELSE todo
        /\ UNCHANGED <<kind, memInfo, answer>>
    BY <1>7 DEF Route
  <2>2. phase' # "done" /\ ~Answered'
    BY <2>1 DEF Answered
  <2>3. MemoryKnown'
    BY <2>1, <2>2 DEF MemoryKnown
  <2>4. OneRead'
    BY <2>1, <2>2 DEF OneRead, NoSuchPath, Single, Host
  <2> QED
    BY <2>2, <2>3, <2>4 DEF ClientInv, Formed
<1>8. ASSUME NEW file \in MemInfoFile, ReadMemInfo(file) PROVE ClientInv'
  <2>1. /\ file # Unreadable /\ \A i \in 1..Len(file) : ~Malformed(file[i]) /\ ~NotUnsigned(file[i])
        /\ memInfo' = HostMemory(file) /\ phase' = "list"
    BY <1>8 DEF ReadMemInfo
  <2>2. memInfo'.total > 0
    BY <2>1, TotalAssumption
  <2>3. kind \notin {"usage", "io"} /\ kind' = kind
    BY <1>8 DEF ReadMemInfo, ClientInv, OneRead
  <2> QED
    BY <2>1, <2>2, <2>3 DEF ClientInv, Formed, MemoryKnown, OneRead, Answered
<1>9. CASE ListContainers
  <2>1. phase = "list" /\ phase' = "containers" /\ UNCHANGED <<kind, memInfo, response>>
    BY <1>9 DEF ListContainers
  <2>2. kind \notin {"usage", "io"}
    BY <2>1 DEF ClientInv, OneRead
  <2> QED
    BY <2>1, <2>2, ClientReadKept
<1>10. CASE ReadSwap
  <2>1. phase = "containers"
    BY <1>10 DEF ReadSwap, RequestInv, RequestTypeOK
  <2>2. half.id \in DOMAIN answer' /\ UNCHANGED <<kind, phase, memInfo, response>>
    BY <1>10 DEF ReadSwap
  <2> QED
    BY <2>1, <2>2, ClientReadKept
<1>11. CASE Return
  <2>1. phase' = "idle"
    BY <1>11 DEF Return
  <2> QED
    BY <2>1 DEF ClientInv, Formed, MemoryKnown, OneRead, Answered
<1>12. CASE UNCHANGED vars
  BY <1>1, <1>12 DEF vars
<1> QED
  BY <1>2, <1>3, <1>4, <1>5, <1>6, <1>7, <1>8, <1>9, <1>10, <1>11, <1>12 DEF RequestNext

(* For any containers, files and limits: a caller of AllContainersUsage,   *)
(* HostUsage, Usage or IOUsage gets no error and a value that is not the   *)
(* zero value if and only if the handler answered with data.               *)
THEOREM FailureTold == RequestSpec => []ClientTellsFailure
<1>1. RequestInit => ClientInv
  BY DEF RequestInit, ClientInv, Formed, MemoryKnown, OneRead, Answered
<1>2. ClientInv /\ RequestInv /\ [RequestNext]_vars => ClientInv'
  BY ClientStepKept
<1>3. ClientInv => ClientTellsFailure
  <2> SUFFICES ASSUME ClientInv, phase = "done", kind \in Host \cup {"all", "usage", "io"}
               PROVE  Answered <=> ~ClientError /\ (kind # "all" => kind \notin NilPointer /\ ClientValue # Zero)
    BY DEF ClientTellsFailure
  <2>1. response.body \in {"data", "error", "text", "empty"} /\ (Answered <=> response.body = "data")
    BY DEF ClientInv, Formed, Answered
  <2>2. kind \notin NilPointer
    BY DEF NilPointer, Host
  <2>3. CASE response.body = "data"
    <3>1. ~ClientError
      BY <2>3 DEF ClientError
    <3>2. ASSUME kind \in Host PROVE ClientValue # Zero
      <4>1. ClientValue = HostUsage /\ Zero = ZeroHostUsage
        BY <2>2, <2>3, <3>2 DEF ClientValue, Zero
      <4>2. HostUsage.host.total # 0
        BY <2>1, <2>3, <3>2 DEF HostUsage, ClientInv, MemoryKnown
      <4>3. ZeroHostUsage.host.total = 0
        BY DEF ZeroHostUsage
      <4> QED
        BY <4>1, <4>2, <4>3
    <3>3. ASSUME kind \in {"usage", "io"} PROVE ClientValue # Zero
      <4>1. ClientValue = answer /\ Zero = <<>>
        BY <2>2, <2>3, <3>3 DEF ClientValue, Zero, Host
      <4>2. DOMAIN answer # {}
        BY <2>1, <2>3, <3>3 DEF ClientInv, OneRead
      <4> QED
        BY <4>1, <4>2
    <3> QED
      BY <2>1, <2>2, <2>3, <3>1, <3>2, <3>3
  <2>4. CASE response.body = "error"
    <3>1. kind # "all" => ClientValue = Zero
      BY <2>2, <2>4 DEF ClientValue
    <3> QED
      BY <2>1, <2>4, <3>1 DEF ClientError
  <2>5. CASE response.body \in {"text", "empty"}
    BY <2>1, <2>5 DEF ClientError
  <2> QED
    BY <2>1, <2>3, <2>4, <2>5
<1> QED
  BY <1>1, <1>2, <1>3, InvHolds, PTL DEF RequestSpec
-----------------------------------------------------------------------------
(* Sums over the containers.                                               *)

First(s) == CHOOSE x \in s : TRUE

(* h is the sum of weights w over every set of containers. *)
Sums(h, w) ==
    h = [s \in SUBSET Container |-> IF s = {} THEN 0 ELSE w[First(s)] + h[s \ {First(s)}]]

(* A set of containers is finite, and smaller without its first one. *)
LEMMA Smaller ==
    ASSUME NEW s \in SUBSET Container
    PROVE  /\ Cardinality(s) \in Nat
           /\ Cardinality(s) = 0 <=> s = {}
           /\ s # {} => /\ First(s) \in s /\ s \ {First(s)} \in SUBSET Container
                       /\ Cardinality(s \ {First(s)}) = Cardinality(s) - 1
<1>1. IsFiniteSet(s)
  BY SizeAssumption, FS_Subset
<1>2. Cardinality(s) \in Nat /\ (Cardinality(s) = 0 <=> s = {})
  BY <1>1, FS_CardinalityType, FS_EmptySet
<1>3. s # {} => First(s) \in s
  BY DEF First
<1>4. First(s) \in s => Cardinality(s \ {First(s)}) = Cardinality(s) - 1
  BY <1>1, FS_RemoveElement
<1> QED
  BY <1>2, <1>3, <1>4

(* Induction on the size of a set of containers. *)
LEMMA BySize ==
    ASSUME NEW P, {} \in P,
           \A s \in SUBSET Container : s # {} /\ s \ {First(s)} \in P => s \in P
    PROVE  SUBSET Container \subseteq P
<1> SUFFICES ASSUME NEW t \in SUBSET Container, t \notin P PROVE FALSE
  OBVIOUS
<1> DEFINE Rest == (SUBSET Container) \ P
           T == {Cardinality(s) : s \in Rest}
<1>1. T \in SUBSET Nat /\ T # {}
  <2>1. \A s \in Rest : Cardinality(s) \in Nat
    BY Smaller
  <2> QED
    BY <2>1
<1>2. PICK n \in T : \A m \in T : n <= m
  BY <1>1, LeastElement
<1>3. PICK s \in Rest : n = Cardinality(s)
  BY <1>2
<1>4. s \in SUBSET Container /\ s # {} /\ s \ {First(s)} \notin P
  BY <1>3
<1>5. s \ {First(s)} \in Rest /\ Cardinality(s \ {First(s)}) = n - 1 /\ n \in Nat
  BY <1>3, <1>4, Smaller
<1>6. n - 1 \in T
  BY <1>5
<1> QED
  BY <1>2, <1>5, <1>6

(* The sums are defined, by induction on the size of the largest sets for  *)
(* which they are.                                                         *)
LEMMA SumsExist ==
    ASSUME NEW w \in [Container -> Nat]
    PROVE  \E h : Sums(h, w)
<1> DEFINE Value(h, s) == IF s = {} THEN 0 ELSE w[First(s)] + h[s \ {First(s)}]
           Upto(n) == {s \in SUBSET Container : Cardinality(s) <= n}
           Solves(h, n) == h \in [SUBSET Container -> Nat] /\ \A s \in Upto(n) : h[s] = Value(h, s)
           Q == {n \in Nat : ~\E h : Solves(h, n)}
<1>1. ASSUME Q # {} PROVE FALSE
  <2>1. PICK n \in Q : \A m \in Q : n <= m
    BY <1>1, LeastElement
  <2>2. n # 0
    <3>1. Solves([s \in SUBSET Container |-> 0], 0)
      <4>1. ASSUME NEW s \in Upto(0) PROVE s = {}
        <5>1. s \in SUBSET Container /\ Cardinality(s) <= 0
          BY <4>1
        <5>2. Cardinality(s) \in Nat /\ (Cardinality(s) = 0 <=> s = {})
          BY <5>1, Smaller
        <5> QED
          BY <5>1, <5>2
      <4> QED
        BY <4>1
    <3> HIDE DEF Solves
    <3> QED
      BY <2>1, <3>1
  <2>3. n \in Nat /\ n - 1 \in Nat /\ n - 1 \notin Q
    <3>1. n \in Nat
      BY <2>1
    <3> HIDE DEF Q
    <3> QED
      BY <2>1, <2>2, <3>1
  <2>4. PICK h : Solves(h, n - 1)
    BY <2>3
  <2> DEFINE g == [s \in SUBSET Container |-> IF Cardinality(s) <= n - 1 THEN h[s] ELSE Value(h, s)]
  <2>5. g \in [SUBSET Container -> Nat]
    <3> SUFFICES ASSUME NEW s \in SUBSET Container PROVE g[s] \in Nat
      OBVIOUS
    <3>1. h[s] \in Nat
      BY <2>4
    <3>2. CASE s # {}
      <4>1. h[s \ {First(s)}] \in Nat /\ w[First(s)] \in Nat
        BY <2>4, <3>2, Smaller
      <4> QED
        BY <3>1, <3>2, <4>1
    <3> QED
      BY <3>1, <3>2
  <2>6. ASSUME NEW s \in Upto(n) PROVE g[s] = Value(g, s)
    <3>1. g[s] = Value(h, s)
      <4>1. Cardinality(s) <= n - 1 => h[s] = Value(h, s)
        BY <2>4
      <4> QED
        BY <4>1
    <3>2. CASE s # {}
      <4>1. s \ {First(s)} \in SUBSET Container /\ Cardinality(s \ {First(s)}) <= n - 1
        BY <2>3, <3>2, Smaller
      <4>2. g[s \ {First(s)}] = h[s \ {First(s)}]
        BY <4>1
      <4> QED
        BY <3>1, <3>2, <4>2
    <3> QED
      BY <3>1, <3>2
  <2>7. Solves(g, n)
    BY <2>5, <2>6
  <2> HIDE DEF Solves
  <2> QED
    BY <2>1, <2>7
<1>2. Cardinality(Container) \in Nat
  BY Smaller
<1>3. PICK h : Solves(h, Cardinality(Container))
  BY <1>1, <1>2
<1>4. Upto(Cardinality(Container)) = SUBSET Container
  BY SizeAssumption, FS_Subset
<1>5. h = [s \in SUBSET Container |-> Value(h, s)]
  BY <1>3, <1>4
<1> QED
  BY <1>5 DEF Sums

(* The weight of each container in a sum. *)
Weights(set, f) == [c \in Container |-> IF c \in set THEN f[c] ELSE 0]

(* ... and are what MapThenSumSet computes. *)
LEMMA SumOverIs ==
    ASSUME NEW set, NEW f, Weights(set, f) \in [Container -> Nat]
    PROVE  \E h : Sums(h, Weights(set, f)) /\ SumOver(set, f) = h[Container]
<1> DEFINE w == Weights(set, f)
           IsIter(h) == h = [s \in SUBSET Container |->
                                IF s = {} THEN 0
                                ELSE LET x == CHOOSE x \in s : TRUE
                                     IN  (IF x \in set THEN f[x] ELSE 0) + h[s \ {x}]]
           iter == CHOOSE h : IsIter(h)
<1>1. SumOver(set, f) = iter[Container]
  BY DEF SumOver, MapThenSumSet, MapThenFoldSet
<1>2. ASSUME NEW h PROVE IsIter(h) <=> Sums(h, w)
  <2>1. \A s \in SUBSET Container : s # {} =>
           w[First(s)] = IF First(s) \in set THEN f[First(s)] ELSE 0
    BY Smaller DEF Weights
  <2> QED
    BY <2>1 DEF Sums, First
<1>3. \E h : Sums(h, w)
  BY SumsExist
<1>4. Sums(iter, w)
  <2> HIDE DEF IsIter, w
  <2>1. \E h : IsIter(h)
    BY <1>2, <1>3
  <2>2. IsIter(iter)
    BY <2>1
  <2> QED
    BY <1>2, <2>2
<1> QED
  BY <1>1, <1>4

(* A sum of larger weights is larger. *)
LEMMA SumMonotone ==
    ASSUME NEW S, NEW f, NEW T, NEW g,
           Weights(S, f) \in [Container -> Nat], Weights(T, g) \in [Container -> Nat],
           \A c \in Container : Weights(S, f)[c] <= Weights(T, g)[c]
    PROVE  SumOver(S, f) \in Nat /\ SumOver(T, g) \in Nat /\ SumOver(S, f) <= SumOver(T, g)
<1> DEFINE v == Weights(S, f)
           w == Weights(T, g)
<1>1. PICK a : Sums(a, v) /\ SumOver(S, f) = a[Container]
  BY SumOverIs
<1>2. PICK b : Sums(b, w) /\ SumOver(T, g) = b[Container]
  BY SumOverIs
<1>3. v \in [Container -> Nat] /\ w \in [Container -> Nat] /\ \A c \in Container : v[c] <= w[c]
  OBVIOUS
<1> HIDE DEF v, w
<1> DEFINE P == {s \in SUBSET Container : a[s] \in Nat /\ b[s] \in Nat /\ a[s] <= b[s]}
<1>4. {} \in P
  BY <1>1, <1>2 DEF Sums
<1>5. ASSUME NEW s \in SUBSET Container, s # {}, s \ {First(s)} \in P PROVE s \in P
  <2> DEFINE x == First(s)
             r == s \ {First(s)}
  <2>1. x \in Container
    BY <1>5, Smaller
  <2>2. a[s] = v[x] + a[r] /\ b[s] = w[x] + b[r]
    BY <1>1, <1>2, <1>5 DEF Sums
  <2>3. a[r] \in Nat /\ b[r] \in Nat /\ a[r] <= b[r]
    BY <1>5
  <2>4. v[x] \in Nat /\ w[x] \in Nat /\ v[x] <= w[x]
    BY <1>3, <2>1
  <2> HIDE DEF x, r
  <2> QED
    BY <2>2, <2>3, <2>4
<1>6. SUBSET Container \subseteq P
  <2> HIDE DEF P
  <2> QED
    BY <1>4, <1>5, BySize
<1> QED
  BY <1>1, <1>2, <1>6
-----------------------------------------------------------------------------
(* The sums of the host handler.                                           *)

(* What was read of a container: its memory at some moment of the request, *)
(* and its limit or, if it was gone, zero.                                 *)
ReadOf(c, stats) ==
    /\ \E u \in during[c] : stats.memory = Memory(u)
    /\ stats.limit \in {0, Limit[c]}
    /\ NoCgroup \notin during[c] => stats.limit = Limit[c]

AnswersRead ==
    /\ \A c \in DOMAIN answer : ReadOf(c, answer[c]) /\ answer[c].swap \in Nat
    /\ half # None => ReadOf(half.id, half)

(* A step that reads nothing. *)
LEMMA AnswersKept ==
    ASSUME AnswersRead, RequestInv,
           DOMAIN answer' = {} \/ answer' = answer,
           half' = None \/ half' = half,
           DOMAIN answer' # {} \/ half' # None => \A c \in Container : during[c] \subseteq during'[c]
    PROVE  AnswersRead'
<1>1. ASSUME NEW c \in DOMAIN answer' PROVE ReadOf(c, answer[c])' /\ answer'[c].swap \in Nat
  <2>1. answer' = answer /\ c \in DOMAIN answer /\ c \in Container
    BY <1>1 DEF RequestInv, RequestTypeOK
  <2>2. during[c] \subseteq during'[c]
    BY <1>1, <2>1
  <2>3. ReadOf(c, answer[c]) /\ answer[c].swap \in Nat
    BY <2>1 DEF AnswersRead
  <2> QED
    BY <2>1, <2>2, <2>3 DEF ReadOf, Memory
<1>2. ASSUME half' # None PROVE ReadOf(half.id, half)'
  <2>1. half' = half /\ half.id \in Container
    BY <1>2 DEF RequestInv, RequestTypeOK
  <2>2. during[half.id] \subseteq during'[half.id]
    BY <1>2, <2>1
  <2>3. ReadOf(half.id, half)
    BY <1>2, <2>1 DEF AnswersRead
  <2> QED
    BY <2>1, <2>2, <2>3 DEF ReadOf, Memory
<1> QED
  BY <1>1, <1>2 DEF AnswersRead

LEMMA AnswersStepKept ==
    ASSUME AnswersRead, RequestInv, [RequestNext]_vars
    PROVE  AnswersRead'
<1>1. ASSUME NEW c \in Container, CgroupChanges(c) PROVE AnswersRead'
  <2>1. UNCHANGED <<answer, half>>
    BY <1>1 DEF CgroupChanges, requestVars
  <2>2. \A d \in Container : during[d] \subseteq during'[d]
    BY <1>1 DEF CgroupChanges, RequestInv, RequestTypeOK
  <2> QED
    BY <2>1, <2>2, AnswersKept
<1>2. ASSUME NEW k, NEW ids, Send(k, ids) PROVE AnswersRead'
  <2>1. DOMAIN answer' = {} /\ half' = None
    BY <1>2 DEF Send, RequestInv, RequestTypeOK, Stages
  <2> QED
    BY <2>1, AnswersKept
<1>3. ASSUME NEW c \in Container, ReadMemory(c) PROVE AnswersRead'
  <2>1. /\ phase = "containers" /\ UNCHANGED <<answer, during>>
        /\ half' = [id |-> c, memory |-> Memory(cgroup[c]),
                    limit |-> IF cgroup[c] = NoCgroup THEN 0 ELSE Limit[c]]
    BY <1>3 DEF ReadMemory
  <2>2. cgroup[c] \in during[c]
    BY <2>1 DEF RequestInv, Present
  <2>3. half'.id = c /\ half'.memory = Memory(cgroup[c])
        /\ half'.limit = IF cgroup[c] = NoCgroup THEN 0 ELSE Limit[c]
    BY <2>1
  <2>4. ReadOf(half.id, half)'
    BY <2>1, <2>2, <2>3 DEF ReadOf, Memory
  <2>5. \A d \in DOMAIN answer : ReadOf(d, answer[d])' /\ answer'[d].swap \in Nat
    BY <2>1 DEF AnswersRead, ReadOf, Memory
  <2> QED
    BY <2>1, <2>4, <2>5 DEF AnswersRead
<1>4. CASE ReadSwap
  <2> DEFINE u == cgroup[half.id]
             swap == IF v2 THEN Swap(u) ELSE SwapMetric(MemorySwap(u), half.memory)
             usage == MemoryUsageFromStats(half, swap)
  <2>1. /\ half # None /\ half' = None /\ during' = during
        /\ answer' = [c \in DOMAIN answer \cup {half.id} |-> IF c = half.id THEN usage ELSE answer[c]]
    BY <1>4 DEF ReadSwap
  <2>2. half.id \in Container /\ u \in Usage \cup {NoCgroup} /\ during[half.id] \subseteq Usage \cup {NoCgroup}
    BY <2>1 DEF RequestInv, RequestTypeOK
  <2>3. ReadOf(half.id, half)
    BY <2>1 DEF AnswersRead
  <2>4. half.memory \in Nat
    <3>1. PICK w \in during[half.id] : half.memory = Memory(w)
      BY <2>3 DEF ReadOf
    <3> QED
      BY <2>2, <3>1, SwapBounded
  <2>5. Swap(u) \in Nat /\ MemorySwap(u) \in Nat
    BY <2>2, SwapBounded DEF MemorySwap
  <2>6. swap \in Nat
    <3> HIDE DEF u
    <3> QED
      BY <2>4, <2>5 DEF SwapMetric
  <2>7. usage.memory = half.memory /\ usage.limit = half.limit /\ usage.swap = swap
    BY DEF MemoryUsageFromStats
  <2> HIDE DEF usage, swap
  <2>8. ReadOf(half.id, usage) /\ usage.swap \in Nat
    BY <2>3, <2>6, <2>7 DEF ReadOf
  <2>9. \A c \in DOMAIN answer' : ReadOf(c, answer'[c]) /\ answer'[c].swap \in Nat
    BY <2>1, <2>8 DEF AnswersRead
  <2> QED
    BY <2>1, <2>9 DEF AnswersRead, ReadOf, Memory
<1>5. CASE UNCHANGED <<answer, during>> /\ (half' = half \/ half' = None)
  BY <1>5, AnswersKept
<1>6. ASSUME NEW status, NEW body, Respond(status, body) PROVE AnswersRead'
  BY <1>5, <1>6 DEF Respond
<1>7. ASSUME NEW c \in Container, PassError(c) \/ SkipContainer(c) PROVE AnswersRead'
  BY <1>5, <1>6, <1>7 DEF PassError, SkipContainer
<1>8. ASSUME NEW file \in MemInfoFile, ReadMemInfo(file) \/ ReadMemInfoFails(file) PROVE AnswersRead'
  BY <1>5, <1>6, <1>8 DEF ReadMemInfo, ReadMemInfoFails
<1>9. CASE Unauthorized \/ NotFound \/ ListContainersFails \/ Encode \/ ConnectionLost
  BY <1>6, <1>9 DEF Unauthorized, NotFound, ListContainersFails, Encode, ConnectionLost
<1>10. CASE Route \/ ListContainers
  BY <1>5, <1>10 DEF Route, ListContainers
<1>11. CASE Return
  <2>1. DOMAIN answer' = {} /\ half' = None
    BY <1>11 DEF Return, RequestInv, RequestTypeOK
  <2> QED
    BY <2>1, AnswersKept
<1>12. CASE UNCHANGED vars
  BY <1>5, <1>12 DEF vars, requestVars
<1> QED
  BY <1>1, <1>2, <1>3, <1>4, <1>7, <1>8, <1>9, <1>10, <1>11, <1>12 DEF RequestNext
LEMMA MemoryTyped ==
    ASSUME NEW u \in Usage \cup {NoCgroup}
    PROVE  Memory(u) \in 0..(2 * Modulus) /\ MemorySwap(u) \in 0..(2 * Modulus)
BY UsageAssumption, LimitAssumption DEF Memory, MemorySwap, Swap

(* When a request is answered, the bounds of the property are attained and *)
(* include what was read.                                                  *)
LEMMA BoundsHold ==
    ASSUME RequestInv, AnswersRead, NEW c \in Container, during[c] # {}
    PROVE  /\ Least[c] \in Nat /\ Most[c] \in Nat /\ MostWithSwap[c] \in Nat
           /\ \E u \in during[c] : Most[c] = Memory(u)
           /\ c \in DOMAIN answer =>
                 /\ answer[c].memory \in Nat
                 /\ Least[c] <= answer[c].memory
                 /\ answer[c].memory <= Most[c]
                 /\ answer[c].swap <= MostWithSwap[c]
<1> DEFINE M == {Memory(u) : u \in during[c]}
           W == {MemorySwap(u) : u \in during[c]}
<1>1. \A u \in during[c] : Memory(u) \in 0..(2 * Modulus) /\ MemorySwap(u) \in 0..(2 * Modulus)
  BY MemoryTyped DEF RequestInv, RequestTypeOK
<1>2. M \in SUBSET (0..(2 * Modulus)) /\ W \in SUBSET (0..(2 * Modulus)) /\ M # {} /\ W # {}
  BY <1>1
<1>3. 2 * Modulus \in Nat
  BY LimitAssumption
<1>4. Least[c] = Min(M) /\ Most[c] = Max(M) /\ MostWithSwap[c] = Max(W)
  BY DEF Least, Most, MostWithSwap
<1>5. /\ Least[c] \in M /\ Most[c] \in M /\ MostWithSwap[c] \in W
      /\ \A x \in M : Least[c] <= x /\ x <= Most[c]
      /\ \A x \in W : x <= MostWithSwap[c]
  <2> HIDE DEF M, W
  <2> QED
    BY <1>2, <1>3, <1>4, Bounds
<1>6. ASSUME c \in DOMAIN answer
      PROVE  answer[c].memory \in M /\ answer[c].swap \in Nat /\ \E x \in W : answer[c].swap <= x
  <2>1. \E u \in during[c] : answer[c].memory = Memory(u)
    BY <1>6 DEF AnswersRead, ReadOf
  <2>2. answer[c].swap \in Nat
    BY <1>6 DEF AnswersRead
  <2>3. \E u \in during[c] : answer[c].swap <= MemorySwap(u)
    BY <1>6 DEF RequestInv, SwapReported
  <2> QED
    BY <2>1, <2>2, <2>3
<1>7. M \subseteq Nat /\ W \subseteq Nat
  BY <1>1
<1>8. \E u \in during[c] : Most[c] = Memory(u)
  BY <1>5
<1> HIDE DEF M, W
<1>9. ASSUME c \in DOMAIN answer PROVE answer[c].swap <= MostWithSwap[c]
  <2>1. PICK x \in W : answer[c].swap <= x
    BY <1>6, <1>9
  <2>2. x \in Nat /\ x <= MostWithSwap[c] /\ MostWithSwap[c] \in Nat
    BY <1>5, <1>7
  <2>3. answer[c].swap \in Nat
    BY <1>6, <1>9
  <2> QED
    BY <2>1, <2>2, <2>3
<1> QED
  BY <1>5, <1>6, <1>7, <1>8, <1>9

(* Every container has a state during a request. *)
Remembered == phase # "idle" => \A c \in Container : during[c] # {}

LEMMA RememberedKept ==
    ASSUME Remembered, RequestInv, [RequestNext]_vars
    PROVE  Remembered'
<1>1. CASE phase # "idle" /\ UNCHANGED during
  BY <1>1 DEF Remembered
<1>2. ASSUME NEW c \in Container, CgroupChanges(c) PROVE Remembered'
  <2>1. UNCHANGED phase /\ \A d \in Container : during[d] \subseteq during'[d]
    BY <1>2 DEF CgroupChanges, requestVars, RequestInv, RequestTypeOK
  <2> QED
    BY <2>1 DEF Remembered
<1>3. ASSUME NEW k, NEW ids, Send(k, ids) PROVE Remembered'
  BY <1>3 DEF Send, Remembered
<1>4. ASSUME NEW c \in Container, ReadMemory(c) \/ PassError(c) \/ SkipContainer(c) PROVE Remembered'
  BY <1>1, <1>4 DEF ReadMemory, PassError, SkipContainer, GetStatsFails, Respond
<1>5. ASSUME NEW file \in MemInfoFile, ReadMemInfo(file) \/ ReadMemInfoFails(file) PROVE Remembered'
  BY <1>1, <1>5 DEF ReadMemInfo, ReadMemInfoFails, Respond
<1>6. CASE Unauthorized \/ NotFound \/ ListContainersFails \/ Encode \/ ConnectionLost
  BY <1>1, <1>6 DEF Unauthorized, NotFound, ListContainersFails, Encode, ConnectionLost, Respond
<1>7. CASE Route \/ ListContainers
  BY <1>1, <1>7 DEF Route, ListContainers
<1>8. CASE ReadSwap
  <2>1. phase # "idle" /\ UNCHANGED during
    BY <1>8 DEF ReadSwap, RequestInv, RequestTypeOK
  <2> QED
    BY <1>1, <2>1
<1>9. CASE Return
  BY <1>9 DEF Return, Remembered
<1>10. CASE UNCHANGED vars
  BY <1>10 DEF vars, requestVars, Remembered
<1> QED
  BY <1>2, <1>3, <1>4, <1>5, <1>6, <1>7, <1>8, <1>9, <1>10 DEF RequestNext

(* What the handler reports when the sum of what it read does not wrap. *)
LEMMA NoWrap ==
    ASSUME NEW x \in Nat
    PROVE  x % Modulus \in Nat /\ x % Modulus <= x /\ (x < Modulus => x % Modulus = x)
BY LimitAssumption

(* What was read, as a function. *)
Read(field) == [c \in DOMAIN answer |-> answer[c][field]]

(* For any containers, usages and limits: when a host usage is answered,   *)
(* its sums lie between what the containers used at the least and at the   *)
(* most during the request, whichever stop while others are read.          *)
THEOREM SumsCorrect == RequestSpec => []HostSums
<1>1. RequestInit => AnswersRead /\ Remembered
  BY DEF RequestInit, AnswersRead, Remembered
<1>2. AnswersRead /\ Remembered /\ RequestInv /\ [RequestNext]_vars => (AnswersRead /\ Remembered)'
  BY AnswersStepKept, RememberedKept
<1>3. ASSUME AnswersRead, Remembered, RequestInv, Answered, kind \in Host
      PROVE  /\ SumOver(Throughout \ failed, Least) <= HostUsage.memoryUsage
             /\ HostUsage.memoryUsage <= SumOver(Sometime, Most)
             /\ HostUsage.swapUsage <= SumOver(Sometime, MostWithSwap)
             /\ (\A c \in Sometime : Limit[c] # Unlimited) =>
                   /\ SumOver(Throughout \ failed, Limit) <= HostUsage.memoryCommitted
                   /\ HostUsage.memoryCommitted <= SumOver(Sometime, Limit)
  <2> USE <1>3
  <2> DEFINE Ran == Throughout \ failed
             All == DOMAIN answer
  <2>1. /\ Ran \subseteq All /\ All \subseteq Sometime /\ Sometime \subseteq Container
        /\ \A c \in Ran : NoCgroup \notin during[c]
    <3>1. kind \notin Single
      BY DEF Host, Single
    <3> QED
      BY <3>1 DEF RequestInv, AnswerComplete, Sometime, Throughout
  <2>2. ASSUME NEW c \in Container
        PROVE  /\ Least[c] \in Nat /\ Most[c] \in Nat /\ MostWithSwap[c] \in Nat
               /\ \E u \in during[c] : Most[c] = Memory(u)
    <3>1. during[c] # {}
      BY DEF Answered, Remembered
    <3> QED
      BY <3>1, BoundsHold
  <2>3. ASSUME NEW c \in All
        PROVE  /\ Read("memory")[c] \in Nat /\ Least[c] <= Read("memory")[c]
               /\ Read("memory")[c] <= Most[c]
               /\ Read("swap")[c] \in Nat /\ Read("swap")[c] <= MostWithSwap[c]
               /\ Read("limit")[c] \in {0, Limit[c]} /\ (c \in Ran => Read("limit")[c] = Limit[c])
    <3>1. c \in Container /\ during[c] # {}
      BY <2>1 DEF Answered, Remembered
    <3>2. answer[c].limit \in {0, Limit[c]} /\ (c \in Ran => answer[c].limit = Limit[c])
          /\ answer[c].swap \in Nat
      BY <2>1 DEF AnswersRead, ReadOf
    <3>3. answer[c].memory \in Nat /\ Least[c] <= answer[c].memory /\ answer[c].memory <= Most[c]
          /\ answer[c].swap <= MostWithSwap[c]
      BY <3>1, BoundsHold
    <3> QED
      BY <3>2, <3>3 DEF Read
  <2>4. \A c \in Container : Limit[c] \in Nat
    BY LimitAssumption
  <2>5. /\ HostUsage.memoryUsage = SumOver(All, Read("memory")) % Modulus
        /\ HostUsage.memoryCommitted = SumOver(All, Read("limit")) % Modulus
        /\ HostUsage.swapUsage = SumOver(All, Read("swap")) % Modulus
    BY DEF HostUsage, Answers, Read
  <2> DEFINE Use == [c \in Container |-> CHOOSE u \in during[c] : Most[c] = Memory(u)]
             Top == [c \in Container |-> Memory(Use[c])]
             Limited == {c \in Container : Limit[c] # Unlimited}
  <2>6. Top = Most /\ Use \in [Container -> Usage \cup {NoCgroup}]
    <3>1. \A c \in Container : Use[c] \in during[c] /\ Most[c] = Memory(Use[c])
      BY <2>2
    <3>2. \A c \in Container : during[c] \subseteq Usage \cup {NoCgroup}
      BY DEF RequestInv, RequestTypeOK
    <3>3. Use \in [Container -> Usage \cup {NoCgroup}]
      BY <3>1, <3>2
    <3> HIDE DEF Use
    <3> QED
      BY <3>1, <3>3 DEF Most
  <2>7. SumOver(Container, Most) < Modulus
    <3> HIDE DEF Use
    <3> QED
      BY <2>6, SizeAssumption
  <2> HIDE DEF Ran, All, Use
  <2>8. /\ Weights(Ran, Least) \in [Container -> Nat]
        /\ Weights(All, Read("memory")) \in [Container -> Nat]
        /\ Weights(Sometime, Most) \in [Container -> Nat]
        /\ Weights(Container, Most) \in [Container -> Nat]
        /\ \A c \in Container :
              /\ Weights(Ran, Least)[c] <= Weights(All, Read("memory"))[c]
              /\ Weights(All, Read("memory"))[c] <= Weights(Sometime, Most)[c]
              /\ Weights(Sometime, Most)[c] <= Weights(Container, Most)[c]
    BY <2>1, <2>2, <2>3 DEF Weights
  <2>9. /\ SumOver(Ran, Least) \in Nat /\ SumOver(All, Read("memory")) \in Nat
        /\ SumOver(Sometime, Most) \in Nat /\ SumOver(Container, Most) \in Nat
        /\ SumOver(Ran, Least) <= SumOver(All, Read("memory"))
        /\ SumOver(All, Read("memory")) <= SumOver(Sometime, Most)
        /\ SumOver(Sometime, Most) <= SumOver(Container, Most)
    BY <2>8, SumMonotone
  <2>10. SumOver(All, Read("memory")) % Modulus = SumOver(All, Read("memory"))
    <3>1. SumOver(All, Read("memory")) < Modulus /\ Modulus \in Nat
      BY <2>7, <2>9, LimitAssumption
    <3> QED
      BY <2>9, <3>1, NoWrap
  <2>11. HostUsage.swapUsage <= SumOver(Sometime, MostWithSwap)
    <3>1. /\ Weights(All, Read("swap")) \in [Container -> Nat]
          /\ Weights(Sometime, MostWithSwap) \in [Container -> Nat]
          /\ \A c \in Container :
                Weights(All, Read("swap"))[c] <= Weights(Sometime, MostWithSwap)[c]
      BY <2>1, <2>2, <2>3 DEF Weights
    <3>2. /\ SumOver(All, Read("swap")) \in Nat /\ SumOver(Sometime, MostWithSwap) \in Nat
          /\ SumOver(All, Read("swap")) <= SumOver(Sometime, MostWithSwap)
      BY <3>1, SumMonotone
    <3>3. SumOver(All, Read("swap")) % Modulus \in Nat
          /\ SumOver(All, Read("swap")) % Modulus <= SumOver(All, Read("swap"))
      BY <3>2, NoWrap
    <3> QED
      BY <2>5, <3>2, <3>3
  <2>12. ASSUME \A c \in Sometime : Limit[c] # Unlimited
         PROVE  /\ SumOver(Ran, Limit) <= HostUsage.memoryCommitted
                /\ HostUsage.memoryCommitted <= SumOver(Sometime, Limit)
    <3>1. /\ Weights(Ran, Limit) \in [Container -> Nat]
          /\ Weights(All, Read("limit")) \in [Container -> Nat]
          /\ Weights(Sometime, Limit) \in [Container -> Nat]
          /\ Weights(Limited, Limit) \in [Container -> Nat]
          /\ \A c \in Container :
                /\ Weights(Ran, Limit)[c] <= Weights(All, Read("limit"))[c]
                /\ Weights(All, Read("limit"))[c] <= Weights(Sometime, Limit)[c]
                /\ Weights(Sometime, Limit)[c] <= Weights(Limited, Limit)[c]
      BY <2>1, <2>3, <2>4, <2>12 DEF Weights
    <3>2. /\ SumOver(Ran, Limit) \in Nat /\ SumOver(All, Read("limit")) \in Nat
          /\ SumOver(Sometime, Limit) \in Nat /\ SumOver(Limited, Limit) \in Nat
          /\ SumOver(Ran, Limit) <= SumOver(All, Read("limit"))
          /\ SumOver(All, Read("limit")) <= SumOver(Sometime, Limit)
          /\ SumOver(Sometime, Limit) <= SumOver(Limited, Limit)
      <4> HIDE DEF Limited
      <4> QED
        BY <3>1, SumMonotone
    <3>3. SumOver(Limited, Limit) < Modulus
      BY SizeAssumption
    <3>4. SumOver(All, Read("limit")) % Modulus = SumOver(All, Read("limit"))
      <4>1. SumOver(All, Read("limit")) < Modulus
        <5> HIDE DEF Limited
        <5> QED
          BY <3>2, <3>3, LimitAssumption
      <4> QED
        BY <3>2, <4>1, NoWrap
    <3> QED
      BY <2>5, <3>2, <3>4
  <2> QED
    BY <2>5, <2>9, <2>10, <2>11, <2>12 DEF Ran
<1>4. AnswersRead /\ Remembered /\ RequestInv => HostSums
  <2> SUFFICES ASSUME AnswersRead, Remembered, RequestInv, Answered, kind \in Host
               PROVE  ClientValue = HostUsage
    BY <1>3 DEF HostSums
  <2>1. response.body = "data" /\ kind \notin NilPointer
    BY DEF Answered, Host, NilPointer
  <2> QED
    BY <2>1 DEF ClientValue
<1> QED
  BY <1>1, <1>2, <1>4, InvHolds, PTL DEF RequestSpec
=============================================================================
