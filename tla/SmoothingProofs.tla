-------------------------- MODULE SmoothingProofs --------------------------
(***************************************************************************)
(* For any interval, number of samples and length of the queue, no average *)
(* is over more samples than the interval allows, and Stop lets at most    *)
(* one more sample through.                                                *)
(***************************************************************************)
EXTENDS Smoothing, WellFoundedInduction, TLAPS

(* The parts of the types that the arguments below use. *)
Types ==
    /\ sinceSample \in 0..averageInterval + 1
    /\ sinceAverage \in 0..averageInterval + 1
    /\ values \in Seq(Load)
    /\ \E S : queue \in Seq(S)

(* Samples are TimeBetweenSamples apart, so the time since the last        *)
(* average, as long as it is counted, tells how many there can be.         *)
SamplesApart ==
    /\ start = "wait" /\ Len(values) > 0 =>
          \/ sinceAverage > averageInterval
          \/ sinceAverage >= (Len(values) - 1) * TimeBetweenSamples + sinceSample
    /\ start = "check" =>
          \/ sinceAverage > averageInterval
          \/ sinceAverage >= Len(values) * TimeBetweenSamples + sinceSample

WindowInv == Types /\ SamplesApart /\ WindowBounded

(* A sample read since Stop returned means that the flag has been copied,  *)
(* or will be, as it is now.                                               *)
StopInv ==
    /\ late \in 0..1
    /\ late = 1 => stopped
    /\ start = "check" /\ ~stopSeen => late = 0

-----------------------------------------------------------------------------

(* timeBetweenSamples is a duration, perhaps 0. *)
LEMMA TimeBetweenNat == TimeBetweenSamples \in Nat
BY ConfigAssumption DEF TimeBetweenSamples

(* Multiplication by one more. *)
LEMMA OneMore ==
    ASSUME NEW m \in Int, NEW b \in Int
    PROVE  (m + 1) * b = m * b + b
OBVIOUS

(* Two clocks go on, the second at most as fast as the first. *)
LEMMA LaterByOne ==
    ASSUME NEW t \in Int, NEW u \in Int, NEW v \in Int, NEW x \in Int,
           t >= x + u, v <= u + 1
    PROVE  t + 1 >= x + v
OBVIOUS

(* appendToQueue returns a queue. *)
LEMMA AppendToQueueType ==
    ASSUME NEW S, NEW q \in Seq(S), NEW x
    PROVE  AppendToQueue(q, x) \in Seq(S \cup {x})
<1> DEFINE longer == Append(q, x)
<1>1. longer \in Seq(S \cup {x}) /\ Len(longer) \in Nat
  OBVIOUS
<1>2. CASE Len(longer) > queueLength
  <2>1. Len(longer) - queueLength + 1 \in 1..Len(longer)
    BY <1>1, <1>2, ConfigAssumption
  <2>2. SubSeq(longer, Len(longer) - queueLength + 1, Len(longer)) \in Seq(S \cup {x})
    BY <1>1, <2>1
  <2> QED
    BY <1>2, <2>2 DEF AppendToQueue
<1>3. CASE ~(Len(longer) > queueLength)
  BY <1>1, <1>3 DEF AppendToQueue
<1> QED
  BY <1>2, <1>3

(* What appendToQueue returns: elements of the queue, or the new one. *)
LEMMA AppendToQueueElements ==
    \A S : \A q \in Seq(S) : \A x :
       \A i \in 1..Len(AppendToQueue(q, x)) :
          \/ AppendToQueue(q, x)[i] = x
          \/ \E j \in 1..Len(q) : AppendToQueue(q, x)[i] = q[j]
<1> SUFFICES ASSUME NEW S, NEW q \in Seq(S), NEW x
             PROVE  \A i \in 1..Len(AppendToQueue(q, x)) :
                       \/ AppendToQueue(q, x)[i] = x
                       \/ \E j \in 1..Len(q) : AppendToQueue(q, x)[i] = q[j]
  OBVIOUS
<1> DEFINE longer == Append(q, x)
<1>1. longer \in Seq(S \cup {x}) /\ Len(longer) = Len(q) + 1
  OBVIOUS
<1>2. \A j \in 1..Len(longer) : longer[j] = x \/ \E i \in 1..Len(q) : longer[j] = q[i]
  OBVIOUS
<1>3. CASE Len(longer) > queueLength
  <2> DEFINE first == Len(longer) - queueLength + 1
  <2>1. AppendToQueue(q, x) = SubSeq(longer, first, Len(longer))
    BY <1>3 DEF AppendToQueue
  <2>2. first \in 1..Len(longer) /\ Len(longer) \in Nat
    BY <1>1, <1>3, ConfigAssumption
  <2>3. /\ SubSeq(longer, first, Len(longer)) \in Seq(S \cup {x})
        /\ Len(SubSeq(longer, first, Len(longer))) = Len(longer) - first + 1
        /\ \A i \in 1..(Len(longer) - first + 1) :
              SubSeq(longer, first, Len(longer))[i] = longer[first + i - 1]
    BY <1>1, <2>2
  <2>4. \A i \in 1..(Len(longer) - first + 1) : first + i - 1 \in 1..Len(longer)
    BY <2>2
  <2> QED
    BY <1>2, <2>1, <2>3, <2>4
<1>4. CASE ~(Len(longer) > queueLength)
  BY <1>1, <1>2, <1>4 DEF AppendToQueue
<1> QED
  BY <1>3, <1>4

-----------------------------------------------------------------------------

(* Nothing has been sampled when the filter is made. *)
LEMMA InitWindow == SmoothingInit => WindowInv
<1>1. SUFFICES ASSUME SmoothingInit PROVE WindowInv
  OBVIOUS
<1>2. Types
  <2>1. queue \in Seq({})
    BY <1>1 DEF SmoothingInit
  <2> QED
    BY <1>1, <2>1, ConfigAssumption DEF SmoothingInit, Types
<1>3. SamplesApart
  BY <1>1 DEF SmoothingInit, SamplesApart
<1>4. WindowBounded
  <2>1. Len(values) = 0 /\ Len(queue) = 0
    BY <1>1 DEF SmoothingInit
  <2>2. (Len(values) - 1) * TimeBetweenSamples <= averageInterval
    BY <2>1, TimeBetweenNat, ConfigAssumption
  <2> QED
    BY <2>1, <2>2 DEF WindowBounded
<1> QED
  BY <1>2, <1>3, <1>4 DEF WindowInv

(* A sample, and with it perhaps an average. *)
LEMMA ReadSampleWindow ==
    ASSUME WindowInv, NEW load \in Load, ReadSample(load)
    PROVE  WindowInv'
<1> DEFINE k == Len(values)
           sampled == Append(values, load)
           average == [sum |-> Sum(sampled), count |-> Len(sampled)]
<1>1. values \in Seq(Load) /\ k \in Nat
  BY DEF WindowInv, Types
<1>2. sampled \in Seq(Load) /\ Len(sampled) = k + 1
  BY <1>1
<1>3. start' = "wait" /\ sinceSample' = sinceSample
  BY DEF ReadSample
<1>4. PICK S : queue \in Seq(S)
  BY DEF WindowInv, Types
<1>5. CASE sinceAverage > averageInterval
  <2>1. /\ queue' = AppendToQueue(queue, average)
        /\ values' = <<>>
        /\ sinceAverage' = 0
    BY <1>5 DEF ReadSample
  <2>2. Types'
    <3>1. queue' \in Seq(S \cup {average})
      BY <1>4, <2>1, AppendToQueueType
    <3> QED
      BY <1>3, <2>1, <3>1, ConfigAssumption DEF WindowInv, Types
  <2>3. SamplesApart'
    BY <1>3, <2>1 DEF SamplesApart
  <2>4. (average.count - 2) * TimeBetweenSamples <= averageInterval
    <3>1. average.count - 2 = k - 1
      BY <1>1, <1>2
    <3> QED
      BY <3>1 DEF WindowInv, WindowBounded
  <2>5. \A i \in 1..Len(queue') : (queue'[i].count - 2) * TimeBetweenSamples <= averageInterval
    <3> SUFFICES ASSUME NEW i \in 1..Len(queue')
                 PROVE  (queue'[i].count - 2) * TimeBetweenSamples <= averageInterval
      OBVIOUS
    <3> HIDE DEF average
    <3>1. queue'[i] = average \/ \E j \in 1..Len(queue) : queue'[i] = queue[j]
      <4>1. \A l \in 1..Len(AppendToQueue(queue, average)) :
               \/ AppendToQueue(queue, average)[l] = average
               \/ \E j \in 1..Len(queue) : AppendToQueue(queue, average)[l] = queue[j]
        BY <1>4, AppendToQueueElements
      <4> QED
        BY <2>1, <4>1
    <3>2. CASE queue'[i] = average
      BY <2>4, <3>2
    <3>3. CASE \E j \in 1..Len(queue) : queue'[i] = queue[j]
      BY <3>3 DEF WindowInv, WindowBounded
    <3> QED
      BY <3>1, <3>2, <3>3
  <2>6. (Len(values') - 1) * TimeBetweenSamples <= averageInterval
    <3>1. Len(values') = 0
      BY <2>1
    <3> QED
      BY <3>1, TimeBetweenNat, ConfigAssumption
  <2>7. WindowBounded'
    BY <2>5, <2>6 DEF WindowBounded, TimeBetweenSamples
  <2> QED
    BY <2>2, <2>3, <2>7 DEF WindowInv
<1>6. CASE ~(sinceAverage > averageInterval)
  <2>1. values' = sampled /\ queue' = queue /\ sinceAverage' = sinceAverage
    BY <1>6 DEF ReadSample
  <2>2. sinceAverage >= k * TimeBetweenSamples + sinceSample
    BY <1>6 DEF WindowInv, SamplesApart, ReadSample
  <2>3. Types'
    BY <1>2, <1>3, <1>4, <2>1 DEF WindowInv, Types
  <2>4. Len(values') - 1 = k
    BY <1>1, <1>2, <2>1
  <2>5. SamplesApart'
    BY <1>3, <2>1, <2>2, <2>4 DEF SamplesApart, TimeBetweenSamples
  <2>6. k * TimeBetweenSamples <= averageInterval
    <3>1. k * TimeBetweenSamples \in Int
      BY <1>1, TimeBetweenNat
    <3>2. sinceSample \in Nat /\ sinceAverage \in Int /\ averageInterval \in Int
      BY ConfigAssumption DEF WindowInv, Types
    <3> QED
      BY <1>6, <2>2, <3>1, <3>2
  <2>7. WindowBounded'
    BY <2>1, <2>4, <2>6 DEF WindowInv, WindowBounded, TimeBetweenSamples
  <2> QED
    BY <2>3, <2>5, <2>7 DEF WindowInv
<1> QED
  BY <1>5, <1>6

(* Time passes: the time since the last average is counted along with the  *)
(* time since the last sample, or is not counted any more.                 *)
LEMMA TickWindow ==
    ASSUME WindowInv, Tick
    PROVE  WindowInv'
<1> DEFINE k == Len(values)
           b == TimeBetweenSamples
<1>1. UNCHANGED <<queue, start, values>>
  BY DEF Tick
<1>2. /\ sinceSample \in 0..averageInterval + 1
      /\ sinceAverage \in 0..averageInterval + 1
      /\ averageInterval \in Nat
  BY ConfigAssumption DEF WindowInv, Types
<1>3. /\ sinceSample' \in 0..averageInterval + 1
      /\ sinceSample' <= sinceSample + 1
      /\ sinceAverage' \in 0..averageInterval + 1
      /\ \/ sinceAverage > averageInterval /\ sinceAverage' = sinceAverage
         \/ sinceAverage' = sinceAverage + 1
  BY <1>2 DEF Tick, Aged
<1>4. Types'
  BY <1>1, <1>3 DEF WindowInv, Types
<1>5. k * b \in Int /\ (k - 1) * b \in Int
  BY TimeBetweenNat DEF WindowInv, Types
<1>6. SamplesApart'
  <2> HIDE DEF b
  <2>1. /\ start = "wait" /\ k > 0 =>
              \/ sinceAverage > averageInterval
              \/ sinceAverage >= (k - 1) * b + sinceSample
        /\ start = "check" =>
              \/ sinceAverage > averageInterval
              \/ sinceAverage >= k * b + sinceSample
    BY DEF WindowInv, SamplesApart, b
  <2> DEFINE m == k * b
             n == (k - 1) * b
  <2>2. /\ start = "wait" /\ k > 0 =>
              \/ sinceAverage' > averageInterval
              \/ sinceAverage' >= n + sinceSample'
        /\ start = "check" =>
              \/ sinceAverage' > averageInterval
              \/ sinceAverage' >= m + sinceSample'
    <3>1. m \in Int /\ n \in Int
      BY <1>5
    <3> HIDE DEF m, n
    <3>2. /\ start = "wait" /\ k > 0 =>
                \/ sinceAverage > averageInterval
                \/ sinceAverage >= n + sinceSample
          /\ start = "check" =>
                \/ sinceAverage > averageInterval
                \/ sinceAverage >= m + sinceSample
      BY <2>1 DEF m, n
    <3>3. \A x \in Int : sinceAverage >= x + sinceSample =>
             \/ sinceAverage' > averageInterval
             \/ sinceAverage' >= x + sinceSample'
      <4> SUFFICES ASSUME NEW x \in Int, sinceAverage >= x + sinceSample
                   PROVE  \/ sinceAverage' > averageInterval
                          \/ sinceAverage' >= x + sinceSample'
        OBVIOUS
      <4>1. CASE sinceAverage > averageInterval /\ sinceAverage' = sinceAverage
        BY <4>1
      <4>2. CASE sinceAverage' = sinceAverage + 1
        <5>1. sinceSample \in Int /\ sinceAverage \in Int /\ sinceSample' \in Int
          BY <1>2, <1>3
        <5>2. sinceAverage + 1 >= x + sinceSample'
          BY <1>3, <5>1, LaterByOne
        <5> QED
          BY <4>2, <5>2
      <4> QED
        BY <1>3, <4>1, <4>2
    <3>4. sinceAverage > averageInterval => sinceAverage' > averageInterval
      BY <1>2, <1>3
    <3> HIDE DEF k
    <3> QED
      BY <3>1, <3>2, <3>3, <3>4
  <2> QED
    BY <1>1, <2>2 DEF SamplesApart, TimeBetweenSamples, b
<1>7. WindowBounded'
  BY <1>1 DEF WindowInv, WindowBounded, TimeBetweenSamples
<1> QED
  BY <1>4, <1>6, <1>7 DEF WindowInv

(* The next slot has come: TimeBetweenSamples or more have passed since    *)
(* the last one.                                                           *)
LEMMA WaitWindow ==
    ASSUME WindowInv, WaitForNextSample
    PROVE  WindowInv'
<1> DEFINE k == Len(values)
           b == TimeBetweenSamples
<1>1. /\ UNCHANGED <<queue, sinceAverage, values>>
      /\ start = "wait" /\ start' = "check"
      /\ sinceSample >= b /\ sinceSample' = 0
  BY DEF WaitForNextSample
<1>2. /\ sinceSample \in Nat /\ sinceAverage \in Nat
      /\ averageInterval \in Nat /\ k \in Nat /\ b \in Nat
  BY ConfigAssumption, TimeBetweenNat DEF WindowInv, Types
<1>3. Types'
  BY <1>1, <1>2 DEF WindowInv, Types
<1>4. sinceAverage > averageInterval \/ sinceAverage >= k * b
  <2>1. CASE k = 0
    <3>1. k * b = 0
      BY <1>2, <2>1
    <3> QED
      BY <1>2, <3>1
  <2>2. CASE k > 0
    <3>1. (k - 1) * b + b = k * b
      <4>1. k - 1 \in Int /\ (k - 1) + 1 = k
        BY <1>2
      <4> HIDE DEF k, b
      <4> QED
        BY <1>2, <4>1, OneMore
    <3>2. (k - 1) * b \in Int /\ k * b \in Int
      BY <1>2
    <3>3. sinceAverage > averageInterval \/ sinceAverage >= (k - 1) * b + sinceSample
      BY <1>1, <2>2 DEF WindowInv, SamplesApart
    <3> DEFINE n == (k - 1) * b
               m == k * b
    <3>4. n + b = m /\ n \in Int /\ m \in Int
      BY <3>1, <3>2
    <3>5. sinceAverage > averageInterval \/ sinceAverage >= n + sinceSample
      BY <3>3
    <3>6. sinceAverage > averageInterval \/ sinceAverage >= m
      <4> HIDE DEF n, m, b
      <4> QED
        BY <1>1, <1>2, <3>4, <3>5
    <3> QED
      BY <3>6
  <2> QED
    BY <1>2, <2>1, <2>2
<1>5. SamplesApart'
  <2>1. k * b \in Int
    BY <1>2
  <2>2. sinceAverage > averageInterval \/ sinceAverage >= k * b + 0
    BY <1>2, <1>4, <2>1
  <2> QED
    BY <1>1, <2>2 DEF SamplesApart, TimeBetweenSamples
<1>6. WindowBounded'
  BY <1>1 DEF WindowInv, WindowBounded, TimeBetweenSamples
<1> QED
  BY <1>3, <1>5, <1>6 DEF WindowInv

(* However late the goroutine wakes up and however many reads fail, no     *)
(* average of Start is over more samples than fit into averageInterval,    *)
(* plus two, for any averageLength, averageInterval and queueLength that   *)
(* NewExponentialSmoothing accepts.                                        *)
THEOREM WindowTheorem == SmoothingSpec => []WindowBounded
<1>1. SmoothingInit => WindowInv
  BY InitWindow
<1>2. WindowInv /\ [SmoothingNext]_vars => WindowInv'
  <2> SUFFICES ASSUME WindowInv, [SmoothingNext]_vars PROVE WindowInv'
    OBVIOUS
  <2>1. CASE Tick
    BY <2>1, TickWindow
  <2>2. CASE Stop
    BY <2>2 DEF Stop, WindowInv, Types, SamplesApart, WindowBounded, TimeBetweenSamples
  <2>3. CASE WaitForNextSample
    BY <2>3, WaitWindow
  <2>4. CASE Return
    BY <2>4 DEF Return, WindowInv, Types, SamplesApart, WindowBounded, TimeBetweenSamples
  <2>5. CASE ReadFails
    <3>1. /\ UNCHANGED <<queue, sinceSample, sinceAverage, values>>
          /\ start = "check" /\ start' = "wait"
      BY <2>5 DEF ReadFails
    <3>2. \/ sinceAverage > averageInterval
          \/ sinceAverage >= (Len(values) - 1) * TimeBetweenSamples + sinceSample
      <4> DEFINE k == Len(values)
                 b == TimeBetweenSamples
                 n == (k - 1) * b
                 m == k * b
      <4>1. k \in Nat /\ b \in Nat /\ sinceSample \in Nat /\ sinceAverage \in Nat
        BY ConfigAssumption, TimeBetweenNat DEF WindowInv, Types
      <4>2. n + b = m /\ n \in Int /\ m \in Int
        <5>1. k - 1 \in Int /\ (k - 1) + 1 = k
          BY <4>1
        <5>2. n \in Int /\ m \in Int
          BY <4>1
        <5> HIDE DEF k, b
        <5> QED
          BY <4>1, <5>1, <5>2, OneMore
      <4>3. sinceAverage > averageInterval \/ sinceAverage >= m + sinceSample
        BY <3>1 DEF WindowInv, SamplesApart
      <4>4. sinceAverage > averageInterval \/ sinceAverage >= n + sinceSample
        <5> HIDE DEF n, m, b
        <5> QED
          BY <4>1, <4>2, <4>3
      <4> QED
        BY <4>4
    <3> QED
      BY <3>1, <3>2 DEF WindowInv, Types, SamplesApart, WindowBounded, TimeBetweenSamples
  <2>6. CASE \E load \in Load : ReadSample(load)
    BY <2>6, ReadSampleWindow
  <2>7. CASE UNCHANGED vars
    BY <2>7 DEF vars, WindowInv, Types, SamplesApart, WindowBounded, TimeBetweenSamples
  <2> QED
    BY <2>1, <2>2, <2>3, <2>4, <2>5, <2>6, <2>7 DEF SmoothingNext
<1>3. WindowInv => WindowBounded
  BY DEF WindowInv
<1> QED
  BY <1>1, <1>2, <1>3, PTL DEF SmoothingSpec

-----------------------------------------------------------------------------

(* After Stop has returned, Start reads at most the one sample for which   *)
(* isStopped had copied the flag before.                                   *)
THEOREM StopTheorem == SmoothingSpec => []StopTakesEffect
<1>1. SmoothingInit => StopInv
  BY DEF SmoothingInit, StopInv
<1>2. StopInv /\ [SmoothingNext]_vars => StopInv'
  <2> SUFFICES ASSUME StopInv, [SmoothingNext]_vars PROVE StopInv'
    OBVIOUS
  <2>1. CASE Tick
    BY <2>1 DEF Tick, StopInv
  <2>2. CASE Stop
    BY <2>2 DEF Stop, StopInv
  <2>3. CASE WaitForNextSample
    BY <2>3 DEF WaitForNextSample, IsStopped, StopInv
  <2>4. CASE Return
    BY <2>4 DEF Return, StopInv
  <2>5. CASE ReadFails
    BY <2>5 DEF ReadFails, StopInv
  <2>6. CASE \E load \in Load : ReadSample(load)
    <3>1. /\ start = "check" /\ ~stopSeen /\ start' = "wait"
          /\ late' = IF stopped THEN late + 1 ELSE late
          /\ stopped' = stopped
      BY <2>6 DEF ReadSample
    <3>2. late = 0
      BY <3>1 DEF StopInv
    <3> QED
      BY <3>1, <3>2 DEF StopInv
  <2>7. CASE UNCHANGED vars
    BY <2>7 DEF vars, StopInv
  <2> QED
    BY <2>1, <2>2, <2>3, <2>4, <2>5, <2>6, <2>7 DEF SmoothingNext
<1>3. StopInv => StopTakesEffect
  BY DEF StopInv, StopTakesEffect
<1> QED
  BY <1>1, <1>2, <1>3, PTL DEF SmoothingSpec

-----------------------------------------------------------------------------
(* Recursive definitions over an initial segment of the numbers.           *)

(* Induction, on a set of numbers. *)
LEMMA UpTo ==
    ASSUME NEW N \in Nat, NEW P, 0 \in P, \A n \in 1..N : n - 1 \in P => n \in P
    PROVE  0..N \subseteq P
<1> DEFINE R == OpToRel(<, Nat)
           S == 0..N \ P
<1>1. R = {ss \in Nat \X Nat : ss[1] < ss[2]}
  BY DEF OpToRel
<1>2. IsWellFoundedOn(R, Nat)
  BY NatLessThanWellFounded
<1> HIDE DEF R
<1> SUFFICES ASSUME S # {} PROVE FALSE
  OBVIOUS
<1>3. S \in SUBSET Nat
  OBVIOUS
<1>4. PICK x \in S : \A y \in S : ~(<<y, x>> \in R)
  <2> HIDE DEF S
  <2> QED
    BY <1>2, <1>3, WFMin
<1>5. x \in 1..N
  <2>1. x \in 0..N /\ x # 0
    OBVIOUS
  <2> QED
    BY <2>1
<1>6. x - 1 \notin P
  BY <1>5
<1>7. x - 1 \in S
  BY <1>5, <1>6
<1>8. <<x - 1, x>> \in Nat \X Nat /\ <<x - 1, x>>[1] < <<x - 1, x>>[2]
  BY <1>5
<1>9. <<x - 1, x>> \in R
  BY <1>1, <1>8
<1> QED
  BY <1>4, <1>7, <1>9

(* f is defined by a first value and from its predecessors. *)
Iterates(f, N, V, v, step) ==
    /\ f \in [0..N -> V]
    /\ f[0] = v
    /\ \A n \in 1..N : f[n] = step[n][f[n - 1]]

(* What is defined from its predecessor is defined. *)
LEMMA Recursion ==
    ASSUME NEW N \in Nat, NEW V, NEW v \in V, NEW step \in [1..N -> [V -> V]]
    PROVE  \E f : Iterates(f, N, V, v, step)
<1> DEFINE Solves(f, m) == /\ f \in [0..m -> V]
                           /\ f[0] = v
                           /\ \A n \in 1..m : f[n] = step[n][f[n - 1]]
           P == {m \in 0..N : \E f : Solves(f, m)}
<1>1. 0 \in P
  <2>1. Solves([n \in 0..0 |-> v], 0)
    OBVIOUS
  <2> HIDE DEF Solves
  <2>2. \E f : Solves(f, 0)
    BY <2>1
  <2> QED
    BY <2>2
<1>2. ASSUME NEW m \in 1..N, m - 1 \in P PROVE m \in P
  <2>1. PICK f : Solves(f, m - 1)
    BY <1>2
  <2> DEFINE g == [n \in 0..m |-> IF n = m THEN step[m][f[m - 1]] ELSE f[n]]
  <2>2. f[m - 1] \in V /\ step[m] \in [V -> V]
    BY <2>1
  <2>3. step[m][f[m - 1]] \in V
    BY <2>2
  <2>4. \A n \in 0..(m - 1) : g[n] = f[n] /\ f[n] \in V
    BY <2>1
  <2>5. g[m] = step[m][f[m - 1]]
    OBVIOUS
  <2>6. g \in [0..m -> V]
    <3>1. \A n \in 0..m : n = m \/ n \in 0..(m - 1)
      OBVIOUS
    <3>2. \A n \in 0..m : g[n] \in V
      <4> HIDE DEF g
      <4> QED
        BY <2>3, <2>4, <2>5, <3>1
    <3> QED
      BY <3>2
  <2> HIDE DEF g
  <2>7. g[0] = v
    BY <2>1, <2>4
  <2>8. ASSUME NEW n \in 1..m PROVE g[n] = step[n][g[n - 1]]
    <3>1. n - 1 \in 0..(m - 1) /\ g[n - 1] = f[n - 1]
      BY <2>4
    <3>2. CASE n = m
      BY <2>5, <3>1, <3>2
    <3>3. CASE n # m
      <4>1. n \in 1..(m - 1) /\ n \in 0..(m - 1)
        BY <3>3
      <4> QED
        BY <2>1, <2>4, <3>1, <4>1
    <3> QED
      BY <3>2, <3>3
  <2>9. Solves(g, m)
    BY <2>6, <2>7, <2>8
  <2> HIDE DEF Solves
  <2> QED
    BY <2>9
<1>3. N \in P
  <2>1. \A m \in 1..N : m - 1 \in P => m \in P
    BY <1>2
  <2> HIDE DEF P
  <2>2. 0..N \subseteq P
    BY <1>1, <2>1, UpTo
  <2> QED
    BY <2>2
<1> QED
  BY <1>3 DEF Iterates

(* The sum of the samples is a number, zero or more. *)
LEMMA SumType ==
    ASSUME NEW s \in Seq(Load)
    PROVE  Sum(s) \in Nat
<1> DEFINE N == Len(s)
           step == [n \in 1..N |-> [x \in Nat |-> x + s[n]]]
           IsSum(f) == f = [n \in 0..N |-> IF n = 0 THEN 0 ELSE f[n - 1] + s[n]]
<1>1. N \in Nat /\ \A n \in 1..N : s[n] \in Nat
  <2>1. N \in Nat /\ \A n \in 1..N : s[n] \in Load
    OBVIOUS
  <2> QED
    BY <2>1, LoadAssumption
<1>2. step \in [1..N -> [Nat -> Nat]]
  BY <1>1
<1>3. \A n \in 1..N, x \in Nat : step[n][x] = x + s[n]
  OBVIOUS
<1> HIDE DEF step, N
<1>4. PICK f \in [0..N -> Nat] : f[0] = 0 /\ \A n \in 1..N : f[n] = step[n][f[n - 1]]
  <2> DEFINE V == Nat
             v == 0
  <2>1. v \in V /\ step \in [1..N -> [V -> V]]
    BY <1>2
  <2> HIDE DEF V, v
  <2>2. \E f : Iterates(f, N, V, v, step)
    BY <1>1, <2>1, Recursion
  <2> QED
    BY <2>2 DEF Iterates, V, v
<1>5. \A n \in 1..N : f[n - 1] \in Nat /\ f[n] = f[n - 1] + s[n]
  <2> SUFFICES ASSUME NEW n \in 1..N PROVE f[n - 1] \in Nat /\ f[n] = f[n - 1] + s[n]
    OBVIOUS
  <2>1. n - 1 \in 0..N
    BY <1>1
  <2>2. f[n - 1] \in Nat
    BY <2>1
  <2>3. step[n][f[n - 1]] = f[n - 1] + s[n]
    BY <1>3, <2>2
  <2> QED
    BY <1>4, <2>2, <2>3
<1>6. IsSum(f)
  <2>1. \A n \in 0..N : f[n] = IF n = 0 THEN 0 ELSE f[n - 1] + s[n]
    BY <1>1, <1>4, <1>5
  <2> QED
    BY <2>1
<1> DEFINE h == CHOOSE h : IsSum(h)
<1>7. IsSum(h)
  BY <1>6
<1>8. Sum(s) = h[N]
  BY DEF Sum, N
<1> HIDE DEF h
<1>9. h[0] = 0 /\ \A n \in 1..N : h[n] = h[n - 1] + s[n]
  BY <1>1, <1>7
<1> DEFINE P == {n \in 0..N : h[n] \in Nat}
<1>10. 0 \in P /\ \A n \in 1..N : n - 1 \in P => n \in P
  <2>1. 0 \in P
    BY <1>1, <1>9
  <2>2. ASSUME NEW n \in 1..N, n - 1 \in P PROVE n \in P
    <3>1. h[n - 1] \in Nat
      BY <2>2
    <3>2. h[n] = h[n - 1] + s[n] /\ s[n] \in Nat
      BY <1>1, <1>9
    <3>3. h[n] \in Nat
      BY <3>1, <3>2
    <3> QED
      BY <1>1, <3>3
  <2> QED
    BY <2>1, <2>2
<1>11. 0..N \subseteq P
  <2> HIDE DEF P
  <2> QED
    BY <1>1, <1>10, UpTo
<1> QED
  BY <1>1, <1>8, <1>11

(* A number as Smoothing keeps it. *)
Fraction == [sum : Nat, count : Nat \ {0}]

(* The queue is cut to its length. *)
LEMMA AppendToQueueLength ==
    ASSUME NEW q \in Seq(Fraction), NEW x \in Fraction
    PROVE  AppendToQueue(q, x) \in Seq(Fraction) /\ Len(AppendToQueue(q, x)) <= queueLength
<1>1. AppendToQueue(q, x) \in Seq(Fraction)
  <2>1. Fraction \cup {x} = Fraction
    OBVIOUS
  <2> QED
    BY <2>1, AppendToQueueType
<1> DEFINE longer == Append(q, x)
<1>2. longer \in Seq(Fraction) /\ Len(longer) \in Nat /\ queueLength \in Nat \ {0}
  BY ConfigAssumption
<1>3. CASE Len(longer) > queueLength
  <2> DEFINE first == Len(longer) - queueLength + 1
  <2>1. AppendToQueue(q, x) = SubSeq(longer, first, Len(longer))
    BY <1>3 DEF AppendToQueue
  <2>2. first \in 1..Len(longer) /\ Len(longer) - first + 1 = queueLength
    BY <1>2, <1>3
  <2> HIDE DEF first, longer
  <2>3. Len(SubSeq(longer, first, Len(longer))) = Len(longer) - first + 1
    BY <1>2, <2>2
  <2> QED
    BY <1>1, <1>2, <2>1, <2>2, <2>3
<1>4. CASE ~(Len(longer) > queueLength)
  BY <1>1, <1>2, <1>4 DEF AppendToQueue
<1> QED
  BY <1>3, <1>4

(* The averages are fractions with a positive denominator, and the queue   *)
(* never outgrows queueLength, whatever is sampled and whenever.           *)
THEOREM SmoothingTypeCorrect == SmoothingSpec => []SmoothingTypeOK
<1>1. SmoothingInit => SmoothingTypeOK
  <2> SUFFICES ASSUME SmoothingInit PROVE SmoothingTypeOK
    OBVIOUS
  <2>1. values \in Seq(Load) /\ queue \in Seq(Fraction) /\ Len(queue) = 0
    BY DEF SmoothingInit
  <2>2. queue \in Seq([sum : Nat, count : Nat \ {0}]) /\ Len(queue) <= queueLength
    BY <2>1, ConfigAssumption DEF Fraction
  <2>3. /\ sinceSample \in 0..averageInterval + 1
        /\ sinceAverage \in 0..averageInterval + 1
        /\ late \in Nat
    BY ConfigAssumption DEF SmoothingInit
  <2>4. stopped \in BOOLEAN /\ stopSeen \in BOOLEAN
    BY DEF SmoothingInit
  <2> QED
    BY <2>1, <2>2, <2>3, <2>4 DEF SmoothingInit, SmoothingTypeOK
<1>2. SmoothingTypeOK /\ [SmoothingNext]_vars => SmoothingTypeOK'
  <2> SUFFICES ASSUME SmoothingTypeOK, [SmoothingNext]_vars PROVE SmoothingTypeOK'
    OBVIOUS
  <2>1. CASE Tick
    BY <2>1, ConfigAssumption DEF Tick, Aged, SmoothingTypeOK
  <2>2. CASE Stop
    BY <2>2 DEF Stop, SmoothingTypeOK
  <2>3. CASE WaitForNextSample
    BY <2>3, ConfigAssumption DEF WaitForNextSample, IsStopped, SmoothingTypeOK
  <2>4. CASE Return
    BY <2>4 DEF Return, SmoothingTypeOK
  <2>5. CASE ReadFails
    BY <2>5 DEF ReadFails, SmoothingTypeOK
  <2>6. ASSUME NEW load \in Load, ReadSample(load) PROVE SmoothingTypeOK'
    <3> DEFINE sampled == Append(values, load)
               average == [sum |-> Sum(sampled), count |-> Len(sampled)]
    <3>1. sampled \in Seq(Load) /\ Len(sampled) \in Nat \ {0}
      BY DEF SmoothingTypeOK
    <3>2. average \in Fraction
      BY <3>1, SumType DEF Fraction
    <3>3. queue \in Seq(Fraction) /\ Len(queue) <= queueLength
      BY DEF SmoothingTypeOK, Fraction
    <3>4. /\ queue' \in {queue, AppendToQueue(queue, average)}
          /\ values' \in {<<>>, sampled}
          /\ sinceAverage' \in {0, sinceAverage}
          /\ late' \in {late, late + 1}
          /\ start' = "wait"
          /\ UNCHANGED <<stopped, sinceSample, stopSeen>>
      BY <2>6 DEF ReadSample
    <3> HIDE DEF sampled, average
    <3>5. queue' \in Seq(Fraction) /\ Len(queue') <= queueLength
      BY <3>2, <3>3, <3>4, AppendToQueueLength
    <3>6. values' \in Seq(Load)
      <4>1. <<>> \in Seq(Load)
        OBVIOUS
      <4> QED
        BY <3>1, <3>4, <4>1
    <3> QED
      BY <3>4, <3>5, <3>6, ConfigAssumption DEF SmoothingTypeOK, Fraction
  <2>7. CASE UNCHANGED vars
    BY <2>7 DEF vars, SmoothingTypeOK
  <2> QED
    BY <2>1, <2>2, <2>3, <2>4, <2>5, <2>6, <2>7 DEF SmoothingNext
<1> QED
  BY <1>1, <1>2, PTL DEF SmoothingSpec

-----------------------------------------------------------------------------
(* The order of fractions, and means of them.                              *)

LEMMA TimesKeepsOrder ==
    ASSUME NEW a \in Int, NEW b \in Int, NEW k \in Nat, a <= b
    PROVE  a * k <= b * k
OBVIOUS

LEMMA CancelFactor ==
    ASSUME NEW a \in Int, NEW b \in Int, NEW k \in Nat \ {0}, a * k <= b * k
    PROVE  a <= b
OBVIOUS

LEMMA OrderTransitive ==
    ASSUME NEW x \in Fraction, NEW y \in Fraction, NEW z \in Fraction,
           NoMoreThan(x, y), NoMoreThan(y, z)
    PROVE  NoMoreThan(x, z)
<1> DEFINE a == x.sum  b == x.count
           c == y.sum  d == y.count
           e == z.sum  f == z.count
<1>1. /\ a \in Nat /\ c \in Nat /\ e \in Nat
      /\ b \in Nat \ {0} /\ d \in Nat \ {0} /\ f \in Nat \ {0}
  BY DEF Fraction
<1>2. a * d <= c * b /\ c * f <= e * d
  BY DEF NoMoreThan
<1>3. SUFFICES a * f <= e * b
  BY DEF NoMoreThan
<1> HIDE DEF a, b, c, d, e, f
<1>4. (a * d) * f <= (c * b) * f /\ (c * f) * b <= (e * d) * b
  BY <1>1, <1>2, TimesKeepsOrder
<1>5. /\ (a * d) * f = (a * f) * d
      /\ (c * b) * f = (c * f) * b
      /\ (e * d) * b = (e * b) * d
  BY <1>1
<1>6. (a * f) * d <= (e * b) * d
  <2>1. (a * f) * d \in Int /\ (c * f) * b \in Int /\ (e * b) * d \in Int
    BY <1>1
  <2> QED
    BY <1>4, <1>5, <2>1
<1>7. a * f \in Int /\ e * b \in Int
  BY <1>1
<1> QED
  BY <1>1, <1>6, <1>7, CancelFactor

LEMMA OrderTotal ==
    ASSUME NEW x \in Fraction, NEW y \in Fraction
    PROVE  NoMoreThan(x, y) \/ NoMoreThan(y, x)
<1>1. x.sum * y.count \in Int /\ y.sum * x.count \in Int
  BY DEF Fraction
<1> QED
  BY <1>1 DEF NoMoreThan

(* alpha * x + (1 - alpha) * y is a number, and no less and no more than   *)
(* what bounds both x and y.                                               *)
LEMMA WeightedBetween ==
    ASSUME NEW x \in Fraction, NEW y \in Fraction, NEW z \in Fraction
    PROVE  /\ Weighted(x, y) \in Fraction
           /\ NoMoreThan(z, x) /\ NoMoreThan(z, y) => NoMoreThan(z, Weighted(x, y))
           /\ NoMoreThan(x, z) /\ NoMoreThan(y, z) => NoMoreThan(Weighted(x, y), z)
<1> DEFINE a == x.sum  b == x.count
           c == y.sum  d == y.count
           e == z.sum  f == z.count
           k == InverseAlpha
           n == a * d + (k - 1) * c * b
           m == k * b * d
<1>1. /\ a \in Nat /\ c \in Nat /\ e \in Nat
      /\ b \in Nat \ {0} /\ d \in Nat \ {0} /\ f \in Nat \ {0}
      /\ k \in Nat \ {0}
  BY AlphaAssumption DEF Fraction
<1>2. Weighted(x, y) = [sum |-> n, count |-> m]
  BY DEF Weighted
<1>3. /\ NoMoreThan(z, x) <=> e * b <= a * f
      /\ NoMoreThan(z, y) <=> e * d <= c * f
      /\ NoMoreThan(x, z) <=> a * f <= e * b
      /\ NoMoreThan(y, z) <=> c * f <= e * d
      /\ NoMoreThan(z, Weighted(x, y)) <=> e * m <= n * f
      /\ NoMoreThan(Weighted(x, y), z) <=> n * f <= e * m
  BY <1>2 DEF NoMoreThan
<1> HIDE DEF a, b, c, d, e, f, k
<1>4. n \in Nat /\ m \in Nat \ {0}
  <2>1. a * d \in Nat /\ (k - 1) * c * b \in Nat /\ b * d \in Nat \ {0}
    BY <1>1
  <2> QED
    BY <1>1, <2>1
<1>5. Weighted(x, y) \in Fraction
  BY <1>2, <1>4 DEF Fraction
<1> DEFINE p == (k - 1) * b
<1>6. p \in Nat
  BY <1>1
<1>7. /\ e * m = (e * b) * d + (e * d) * p
      /\ n * f = (a * f) * d + (c * f) * p
  BY <1>1
<1> HIDE DEF n, m, p
<1>8. /\ e * b \in Int /\ a * f \in Int /\ e * d \in Int /\ c * f \in Int /\ d \in Nat
      /\ (e * b) * d \in Int /\ (a * f) * d \in Int
      /\ (e * d) * p \in Int /\ (c * f) * p \in Int
  BY <1>1, <1>6
<1>9. ASSUME e * b <= a * f, e * d <= c * f PROVE e * m <= n * f
  <2>1. (e * b) * d <= (a * f) * d /\ (e * d) * p <= (c * f) * p
    BY <1>6, <1>8, <1>9, TimesKeepsOrder
  <2> QED
    BY <1>7, <1>8, <2>1
<1>10. ASSUME a * f <= e * b, c * f <= e * d PROVE n * f <= e * m
  <2>1. (a * f) * d <= (e * b) * d /\ (c * f) * p <= (e * d) * p
    BY <1>6, <1>8, <1>10, TimesKeepsOrder
  <2> QED
    BY <1>7, <1>8, <2>1
<1> QED
  BY <1>3, <1>5, <1>9, <1>10

(* What exponentialSmoothing computes lies between two of the values. *)
LEMMA SmoothedBetween ==
    ASSUME NEW q \in Seq(Fraction), Len(q) > 0
    PROVE  /\ \E i \in 1..Len(q) : NoMoreThan(q[i], ExponentialSmoothing(q))
           /\ \E i \in 1..Len(q) : NoMoreThan(ExponentialSmoothing(q), q[i])
<1> DEFINE L == Len(q)
           N == L - 1
           step == [n \in 1..N |-> [y \in Fraction |-> Weighted(q[n + 1], y)]]
           IsSmoothed(f) == f = [ptr \in 1..L |-> IF ptr = 1 THEN q[1]
                                                  ELSE Weighted(q[ptr], f[ptr - 1])]
<1>1. /\ L \in Nat /\ L >= 1 /\ N \in Nat /\ N + 1 = L
      /\ \A i \in 1..L : q[i] \in Fraction
  OBVIOUS
<1> HIDE DEF L
<1>2. \A n \in 1..N : n + 1 \in 1..L
  BY <1>1
<1>3. \A n \in 1..N : \A y \in Fraction : Weighted(q[n + 1], y) \in Fraction
  BY <1>1, <1>2, WeightedBetween
<1>4. step \in [1..N -> [Fraction -> Fraction]]
  BY <1>3
<1>5. \A n \in 1..N : \A y \in Fraction : step[n][y] = Weighted(q[n + 1], y)
  OBVIOUS
<1> HIDE DEF step, N
<1>6. PICK f : Iterates(f, N, Fraction, q[1], step)
  BY <1>1, <1>4, Recursion
<1> DEFINE g == [ptr \in 1..L |-> f[ptr - 1]]
<1>7. IsSmoothed(g)
  <2>1. ASSUME NEW ptr \in 1..L
        PROVE  f[ptr - 1] = IF ptr = 1 THEN q[1] ELSE Weighted(q[ptr], g[ptr - 1])
    <3>1. CASE ptr = 1
      BY <1>6, <3>1 DEF Iterates
    <3>2. CASE ptr # 1
      <4>1. ptr - 1 \in 1..N /\ ptr - 1 \in 1..L /\ (ptr - 1) - 1 \in 0..N /\ (ptr - 1) + 1 = ptr
        BY <1>1, <3>2
      <4>2. f[(ptr - 1) - 1] \in Fraction
        BY <1>6, <4>1 DEF Iterates
      <4>3. f[ptr - 1] = step[ptr - 1][f[(ptr - 1) - 1]]
        BY <1>6, <4>1 DEF Iterates
      <4>4. f[ptr - 1] = Weighted(q[(ptr - 1) + 1], f[(ptr - 1) - 1])
        BY <1>5, <4>1, <4>2, <4>3
      <4>5. g[ptr - 1] = f[(ptr - 1) - 1]
        BY <4>1
      <4> HIDE DEF g
      <4> QED
        BY <3>2, <4>1, <4>4, <4>5
    <3> QED
      BY <3>1, <3>2
  <2> QED
    BY <2>1
<1> DEFINE h == CHOOSE h : IsSmoothed(h)
<1>8. IsSmoothed(h)
  <2> HIDE DEF g
  <2> QED
    BY <1>7
<1>9. ExponentialSmoothing(q) = h[L]
  BY DEF ExponentialSmoothing, L
<1> HIDE DEF h
<1>10. h[1] = q[1] /\ \A ptr \in 1..L : ptr # 1 => h[ptr] = Weighted(q[ptr], h[ptr - 1])
  BY <1>1, <1>8
<1> DEFINE Between(y) == /\ y \in Fraction
                         /\ \E i \in 1..L : NoMoreThan(q[i], y)
                         /\ \E i \in 1..L : NoMoreThan(y, q[i])
           P == {n \in 0..N : Between(h[n + 1])}
<1>11. \A x \in Fraction : NoMoreThan(x, x)
  BY OrderTotal
<1>12. 0 \in P
  <2>1. 1 \in 1..L /\ q[1] \in Fraction /\ 0 \in 0..N /\ 0 + 1 = 1
    BY <1>1
  <2>2. Between(q[1])
    BY <1>11, <2>1
  <2> HIDE DEF Between
  <2> QED
    BY <1>10, <2>1, <2>2
<1>13. ASSUME NEW n \in 1..N, n - 1 \in P PROVE n \in P
  <2> DEFINE x == q[n + 1]
             y == h[n]
  <2>1. /\ (n - 1) + 1 = n /\ (n + 1) - 1 = n /\ n \in 0..N
        /\ n + 1 \in 1..L /\ n + 1 # 1
    BY <1>1
  <2>2. Between(y)
    <3>1. Between(h[(n - 1) + 1])
      <4> HIDE DEF Between
      <4> QED
        BY <1>13
    <3> QED
      BY <2>1, <3>1
  <2>3. h[n + 1] = Weighted(x, y)
    BY <1>10, <2>1
  <2>4. x \in Fraction /\ y \in Fraction
    BY <1>1, <2>1, <2>2
  <2>5. PICK i \in 1..L : NoMoreThan(q[i], y)
    BY <2>2
  <2>6. PICK j \in 1..L : NoMoreThan(y, q[j])
    BY <2>2
  <2>7. q[i] \in Fraction /\ q[j] \in Fraction /\ x = q[n + 1]
    BY <1>1
  <2> HIDE DEF x, y
  <2>8. Weighted(x, y) \in Fraction
    BY <2>4, WeightedBetween
  <2>9. CASE NoMoreThan(x, y)
    <3>1. NoMoreThan(x, Weighted(x, y))
      BY <1>11, <2>4, <2>9, WeightedBetween
    <3>2. NoMoreThan(x, q[j])
      BY <2>4, <2>6, <2>7, <2>9, OrderTransitive
    <3>3. NoMoreThan(Weighted(x, y), q[j])
      BY <2>4, <2>6, <2>7, <3>2, WeightedBetween
    <3>4. Between(Weighted(x, y))
      BY <2>1, <2>7, <2>8, <3>1, <3>3
    <3> HIDE DEF Between
    <3> QED
      BY <2>1, <2>3, <3>4
  <2>10. CASE NoMoreThan(y, x)
    <3>1. NoMoreThan(Weighted(x, y), x)
      BY <1>11, <2>4, <2>10, WeightedBetween
    <3>2. NoMoreThan(q[i], x)
      BY <2>4, <2>5, <2>7, <2>10, OrderTransitive
    <3>3. NoMoreThan(q[i], Weighted(x, y))
      BY <2>4, <2>5, <2>7, <3>2, WeightedBetween
    <3>4. Between(Weighted(x, y))
      BY <2>1, <2>7, <2>8, <3>1, <3>3
    <3> HIDE DEF Between
    <3> QED
      BY <2>1, <2>3, <3>4
  <2> QED
    BY <2>4, <2>9, <2>10, OrderTotal
<1>14. 0..N \subseteq P
  <2>1. \A n \in 1..N : n - 1 \in P => n \in P
    BY <1>13
  <2> HIDE DEF P
  <2> QED
    BY <1>1, <1>12, <2>1, UpTo
<1>15. Between(h[L])
  <2>1. N \in P
    <3> HIDE DEF P
    <3> QED
      BY <1>1, <1>14
  <2> HIDE DEF Between
  <2> QED
    BY <1>1, <2>1
<1> QED
  BY <1>9, <1>15 DEF L

(* For any alpha whose inverse is an integer, any length of the queue and  *)
(* any samples: once there are enough metrics, what Read answers lies      *)
(* between the lowest and the highest average it was computed from.        *)
THEOREM SmoothedRange == SmoothingSpec => []SmoothedWithinRange
<1>1. SmoothingTypeOK => SmoothedWithinRange
  <2> SUFFICES ASSUME SmoothingTypeOK, ~NotEnoughMetrics
               PROVE  /\ \E i \in 1..Len(queue) : NoMoreThan(queue[i], ExponentialSmoothing(queue))
                      /\ \E i \in 1..Len(queue) : NoMoreThan(ExponentialSmoothing(queue), queue[i])
    BY DEF SmoothedWithinRange
  <2>1. queue \in Seq(Fraction) /\ Len(queue) > 0
    BY ConfigAssumption DEF SmoothingTypeOK, Fraction, NotEnoughMetrics
  <2> QED
    BY <2>1, SmoothedBetween
<1> QED
  BY <1>1, SmoothingTypeCorrect, PTL
=============================================================================
