------------------------------ MODULE Smoothing ------------------------------
(***************************************************************************)
(* filters.ExponentialSmoothing: a goroutine (Start) samples the length of *)
(* the run queue, averages the samples of an interval and appends the      *)
(* average to a queue of bounded length; Read, called by the host handler, *)
(* smooths a copy of the queue; Stop asks the goroutine to end.            *)
(*                                                                         *)
(* lastSampleTime and lastAverageTime are kept as the time since, which is *)
(* not counted beyond the point from which no comparison tells it apart.   *)
(* A number is a fraction, an average that of the sum of its samples and   *)
(* their count; alpha (e to the minus queueLength) is taken to be the      *)
(* inverse of an integer.                                                  *)
(***************************************************************************)
EXTENDS Integers, Sequences

CONSTANTS
    averageLength, averageInterval, queueLength,
    InverseAlpha,   \* 1 / alpha
    Load            \* the numbers of running processes /proc/loadavg may tell

(* What NewExponentialSmoothing verifies (the interval in ticks). *)
ASSUME ConfigAssumption ==
    /\ averageLength \in Nat \ {0}
    /\ averageInterval \in Nat \ {0}
    /\ queueLength \in Nat \ {0}
ASSUME LoadAssumption == Load \subseteq Nat
ASSUME AlphaAssumption == InverseAlpha \in Nat \ {0}

VARIABLES
    stopped,
    queue,          \* the averages, [sum, count], oldest first
    sinceSample,    \* time since lastSampleTime
    sinceAverage,   \* time since lastAverageTime
    start,          \* the goroutine: "wait", "check" or "returned"
    stopSeen,       \* the flag in the copy that isStopped works on
    values,         \* Start's samples since the last average
    late            \* history: samples read since Stop returned

vars == <<stopped, queue, sinceSample, sinceAverage, start, stopSeen, values, late>>

Aged(t) == IF t <= averageInterval THEN t + 1 ELSE t

SmoothingInit ==
    /\ stopped = FALSE
    /\ queue = <<>>
    /\ sinceSample = 0
    /\ sinceAverage = 0
    /\ start = "wait"
    /\ stopSeen = FALSE
    /\ values = <<>>
    /\ late = 0

(* Time passes, whatever the goroutine is doing. *)
Tick ==
    /\ sinceSample' = Aged(sinceSample)
    /\ sinceAverage' = Aged(sinceAverage)
    /\ UNCHANGED <<stopped, queue, start, stopSeen, values, late>>

Stop ==
    /\ stopped' = TRUE
    /\ UNCHANGED <<queue, sinceSample, sinceAverage, start, stopSeen, values, late>>

(* Mutant: the flag is looked at once, when the goroutine starts. *)
IsStoppedOnce == stopSeen' = FALSE

(* isStopped has a value receiver: the flag is copied before the mutex is  *)
(* locked, and what Stop does while the lock is waited for goes unnoticed. *)
IsStopped == stopSeen' = stopped

TimeBetweenSamples == averageInterval \div averageLength

(* Mutant: lastSampleTime is not set. *)
WaitForFirstSample ==
    /\ start = "wait"
    /\ sinceSample >= TimeBetweenSamples
    /\ IsStopped
    /\ start' = "check"
    /\ UNCHANGED <<stopped, queue, sinceSample, sinceAverage, values, late>>

(* waitForNextSample returns, and the receiver of isStopped is copied. *)
WaitForNextSample ==
    /\ start = "wait"
    /\ sinceSample >= TimeBetweenSamples
    /\ sinceSample' = 0
    /\ IsStopped
    /\ start' = "check"
    /\ UNCHANGED <<stopped, queue, sinceAverage, values, late>>

(* Mutant: the iteration is ended, not the loop. *)
Continue ==
    /\ start = "check"
    /\ stopSeen
    /\ start' = "wait"
    /\ UNCHANGED <<stopped, queue, sinceSample, sinceAverage, stopSeen, values, late>>

Return ==
    /\ start = "check"
    /\ stopSeen
    /\ start' = "returned"
    /\ UNCHANGED <<stopped, queue, sinceSample, sinceAverage, stopSeen, values, late>>

(* Mutant: a sample that could not be read ends the loop. *)
ReadFailsAndReturns ==
    /\ start = "check"
    /\ ~stopSeen
    /\ start' = "returned"
    /\ UNCHANGED <<stopped, queue, sinceSample, sinceAverage, stopSeen, values, late>>

(* /proc/loadavg cannot be read or parsed: the next slot is waited for. *)
ReadFails ==
    /\ start = "check"
    /\ ~stopSeen
    /\ start' = "wait"
    /\ UNCHANGED <<stopped, queue, sinceSample, sinceAverage, stopSeen, values, late>>

(* Mutant: the queue is cut by one too few. *)
AppendAndCutLate(q, average) ==
    LET longer == Append(q, average)
    IN  IF Len(longer) > queueLength + 1 THEN Tail(longer) ELSE longer

(* appendToQueue, under queueMutex. *)
AppendToQueue(q, average) ==
    LET longer == Append(q, average)
    IN  IF Len(longer) > queueLength
        THEN SubSeq(longer, Len(longer) - queueLength + 1, Len(longer))
        ELSE longer

Sum(s) ==
    LET result[n \in 0..Len(s)] == IF n = 0 THEN 0 ELSE result[n - 1] + s[n]
    IN  result[Len(s)]

(* A sample is read; when the interval is over, so is the average. *)
ReadSample(load) ==
    LET sampled == Append(values, load) IN
    /\ start = "check"
    /\ ~stopSeen
    /\ IF sinceAverage > averageInterval
       THEN /\ queue' = AppendToQueue(queue, [sum |-> Sum(sampled), count |-> Len(sampled)])
            /\ values' = <<>>
            /\ sinceAverage' = 0
       ELSE /\ values' = sampled
            /\ UNCHANGED <<queue, sinceAverage>>
    /\ start' = "wait"
    /\ late' = IF stopped THEN late + 1 ELSE late
    /\ UNCHANGED <<stopped, sinceSample, stopSeen>>

SmoothingNext ==
    \/ Tick
    \/ Stop
    \/ WaitForNextSample
    \/ Return
    \/ ReadFails
    \/ \E load \in Load : ReadSample(load)

SmoothingSpec == SmoothingInit /\ [][SmoothingNext]_vars

(* Time goes on, the goroutine runs, and /proc/loadavg is readable again   *)
(* and again.                                                              *)
SmoothingFairSpec ==
    /\ SmoothingSpec
    /\ WF_vars(Tick)
    /\ WF_vars(WaitForNextSample)
    /\ WF_vars(Return)
    /\ SF_vars(\E load \in Load : ReadSample(load))

-----------------------------------------------------------------------------
(* Read: the smoothed value of a copy of the queue.                        *)

(* Mutant: the weights do not add up to 1. *)
WeightedTooMuch(x, y) ==
    [sum   |-> x.sum * y.count + InverseAlpha * y.sum * x.count,
     count |-> InverseAlpha * x.count * y.count]

(* alpha * x + (1 - alpha) * y, of fractions. *)
Weighted(x, y) ==
    [sum   |-> x.sum * y.count + (InverseAlpha - 1) * y.sum * x.count,
     count |-> InverseAlpha * x.count * y.count]

NotEnoughMetrics == Len(queue) < queueLength

ExponentialSmoothing(q) ==
    LET smoothed[ptr \in 1..Len(q)] ==
            IF ptr = 1 THEN q[1] ELSE Weighted(q[ptr], smoothed[ptr - 1])
    IN  smoothed[Len(q)]

-----------------------------------------------------------------------------

(* The values the variables take; the queue never outgrows its length. *)
SmoothingTypeOK ==
    /\ stopped \in BOOLEAN
    /\ queue \in Seq([sum : Nat, count : Nat \ {0}]) /\ Len(queue) <= queueLength
    /\ sinceSample \in 0..averageInterval + 1
    /\ sinceAverage \in 0..averageInterval + 1
    /\ start \in {"wait", "check", "returned"}
    /\ stopSeen \in BOOLEAN
    /\ values \in Seq(Load)
    /\ late \in Nat

(* However late the goroutine wakes up, however long a read takes and      *)
(* however many fail, an average is over at most the samples that fit into *)
(* an interval, and two more: the first may follow the previous average at *)
(* once, and the last is read when the interval is over.                   *)
WindowBounded ==
    /\ (Len(values) - 1) * TimeBetweenSamples <= averageInterval
    /\ \A i \in 1..Len(queue) : (queue[i].count - 2) * TimeBetweenSamples <= averageInterval

(* Stop may fall between the copy of the flag and the check: at most one   *)
(* more sample is read.                                                    *)
StopTakesEffect == late <= 1

NoMoreThan(x, y) == x.sum * y.count <= y.sum * x.count

(* What Read answers lies between the lowest and the highest average of    *)
(* the queue.                                                              *)
SmoothedWithinRange ==
    ~NotEnoughMetrics =>
        /\ \E i \in 1..Len(queue) : NoMoreThan(queue[i], ExponentialSmoothing(queue))
        /\ \E i \in 1..Len(queue) : NoMoreThan(ExponentialSmoothing(queue), queue[i])

(* Unless it is stopped, the filter has enough metrics from some time on,  *)
(* though samples are late or cannot be read.                              *)
QueueFills == <>stopped \/ <>[]~NotEnoughMetrics

(* A stopped filter ends its goroutine. *)
StopEndsSampling == stopped ~> start = "returned"
=============================================================================
