------------------------------- MODULE HostCPU -------------------------------
(***************************************************************************)
(* The host's CPU usage in cpu.CPUUsageMonitor: the goroutine              *)
(* monitorHostUsage samples /proc/stat every second, and GetHostUsage      *)
(* compares the last two samples.  GetHostUsage has a value receiver: the  *)
(* caller copies the struct, word by word, BEFORE the mutex is locked, so  *)
(* the two pointers it then compares under the mutex may be of different   *)
(* moments, or of the moment between the two stores of the writer.         *)
(***************************************************************************)
EXTENDS Integers

CONSTANTS
    NoStat,     \* a nil *SingleCPUStat
    MaxTotal    \* bound: the host's CPU time

ASSUME MaxTotalAssumption == MaxTotal \in Nat \ {0}

Stat == [sum : Nat, idle : Nat]

ASSUME NoStatAssumption == NoStat \notin Stat

VARIABLES
    idle, busy,         \* CPU time of the host: the field idle, and the others
    monitor,            \* monitorHostUsage: "tick", "store", or "shift" between
                        \* its two stores, the mutex locked
    read,               \* what it has read from /proc/stat
    previousHostUsage, currentHostUsage,
    getter,             \* GetHostUsage: "idle", "copy" or "copied"
    copied,             \* the words of the struct copied so far
    torn,               \* history: an update fell into the copy
    worked,             \* history: from one sample to the next, the time that
                        \* is not idle never went back
    steady              \* history: nor did the idle time, and time went on

hostVars == <<busy, idle>>
monitorVars == <<monitor, read, previousHostUsage, currentHostUsage, worked, steady>>
getterVars == <<getter, copied, torn>>
vars == <<hostVars, monitorVars, getterVars>>

NothingCopied == [previous |-> NoStat, current |-> NoStat, words |-> {}]

Init ==
    /\ busy = 0
    /\ idle = 0
    /\ monitor = "tick"
    /\ read = NoStat
    /\ previousHostUsage = NoStat
    /\ currentHostUsage = NoStat
    /\ getter = "idle"
    /\ copied = NothingCopied
    /\ torn = FALSE
    /\ worked = TRUE
    /\ steady = TRUE

(* CPU time passes.  The kernel's idle and iowait may also go back.        *)
Work ==
    /\ busy + idle < MaxTotal
    /\ busy' = busy + 1
    /\ UNCHANGED <<idle, monitorVars, getterVars>>

Rest ==
    /\ busy + idle < MaxTotal
    /\ idle' = idle + 1
    /\ UNCHANGED <<busy, monitorVars, getterVars>>

IdleGoesBack ==
    /\ idle > 0
    /\ idle' = idle - 1
    /\ UNCHANGED <<busy, monitorVars, getterVars>>

IowaitGoesBack ==
    /\ busy > 0
    /\ busy' = busy - 1
    /\ UNCHANGED <<idle, monitorVars, getterVars>>

(* Mutant: the idle time is subtracted from the sum instead of added. *)
ReadStatWrongSum == [sum |-> busy - idle, idle |-> idle]

(* The line "cpu" of /proc/stat, of which only the sum of the ten fields   *)
(* and the idle time count.                                                *)
ReadStat == [sum |-> busy + idle, idle |-> idle]

(* A tick, and /proc/stat is read; when that fails, the next tick tries.   *)
ReadHostCPU ==
    /\ monitor = "tick"
    /\ read' = ReadStat
    /\ monitor' = "store"
    /\ UNCHANGED <<hostVars, previousHostUsage, currentHostUsage, worked, steady, getterVars>>

(* Mutant: the new sample is shifted instead of the last one. *)
StorePreviousSwapped ==
    /\ monitor = "store"
    /\ monitor' = "shift"
    /\ previousHostUsage' = read
    /\ torn' = (torn \/ (getter = "copy" /\ copied.words # {}))
    /\ UNCHANGED <<hostVars, read, currentHostUsage, worked, steady, getter, copied>>

(* The mutex is locked and the first pointer moves on.  What was copied    *)
(* before is torn from what will be; the copy does not wait for the mutex. *)
StorePreviousHostUsage ==
    /\ monitor = "store"
    /\ monitor' = "shift"
    /\ previousHostUsage' = currentHostUsage
    /\ torn' = (torn \/ (getter = "copy" /\ copied.words # {}))
    /\ UNCHANGED <<hostVars, read, currentHostUsage, worked, steady, getter, copied>>

NotIdle(stat) == stat.sum - stat.idle

(* The second pointer moves on and the mutex is unlocked. *)
StoreCurrentHostUsage ==
    /\ monitor = "shift"
    /\ monitor' = "tick"
    /\ currentHostUsage' = read
    /\ read' = NoStat
    /\ worked' = (worked /\ (currentHostUsage = NoStat \/ NotIdle(read) >= NotIdle(currentHostUsage)))
    /\ steady' = (steady /\ worked' /\
                    (currentHostUsage = NoStat \/
                     (read.sum > currentHostUsage.sum /\ read.idle >= currentHostUsage.idle)))
    /\ UNCHANGED <<hostVars, previousHostUsage, getterVars>>

(* HostResourcesHandler calls GetHostUsage. *)
CallGetHostUsage ==
    /\ getter = "idle"
    /\ getter' = "copy"
    /\ copied' = NothingCopied
    /\ torn' = FALSE
    /\ UNCHANGED <<hostVars, monitorVars>>

(* The receiver is copied, its words in an order the compiler chooses; the *)
(* writer may be between its two stores.                                   *)
CopyWord(word) ==
    /\ getter = "copy"
    /\ word \notin copied.words
    /\ copied' = [copied EXCEPT
                    !.previous = IF word = "previous" THEN previousHostUsage ELSE @,
                    !.current = IF word = "current" THEN currentHostUsage ELSE @,
                    !.words = @ \cup {word}]
    /\ getter' = IF copied'.words = {"previous", "current"} THEN "copied" ELSE "copy"
    /\ torn' = (torn \/ monitor = "shift")
    /\ UNCHANGED <<hostVars, monitorVars>>

(* Mutant: an idle time that went back is not caught. *)
HostUsageUnchecked(m) ==
    IF m.previous = NoStat \/ m.current = NoStat
    THEN [num |-> 0, den |-> 1]
    ELSE LET deltaSum == m.current.sum - m.previous.sum
             deltaIdled == m.current.idle - m.previous.idle
         IN  IF deltaSum < 0 THEN [num |-> 0, den |-> 1]
             ELSE [num |-> deltaSum - deltaIdled, den |-> deltaSum]

(* What GetHostUsage computes under the mutex from its copy m: the zero    *)
(* value, or the quotient of two floats (NaN when both are 0).             *)
HostUsage(m) ==
    LET deltaSum == m.current.sum - m.previous.sum
        deltaIdled == m.current.idle - m.previous.idle
    IN  IF m.previous = NoStat \/ m.current = NoStat
        THEN [num |-> 0, den |-> 1]
        ELSE IF deltaIdled < 0 \/ deltaSum < 0
        THEN [num |-> 0, den |-> 1]
        ELSE [num |-> deltaSum - deltaIdled, den |-> deltaSum]

(* The comparison, once the mutex is locked. *)
Return ==
    /\ getter = "copied"
    /\ monitor # "shift"
    /\ getter' = "idle"
    /\ copied' = NothingCopied
    /\ UNCHANGED <<hostVars, monitorVars, torn>>

Next ==
    \/ Work
    \/ Rest
    \/ IdleGoesBack
    \/ IowaitGoesBack
    \/ ReadHostCPU
    \/ StorePreviousHostUsage
    \/ StoreCurrentHostUsage
    \/ CallGetHostUsage
    \/ \E word \in {"previous", "current"} : CopyWord(word)
    \/ Return

Spec == Init /\ [][Next]_vars

-----------------------------------------------------------------------------

(* The values the variables take. *)
TypeOK ==
    /\ busy \in 0..MaxTotal
    /\ idle \in 0..MaxTotal
    /\ monitor \in {"tick", "store", "shift"}
    /\ read \in Stat \cup {NoStat}
    /\ previousHostUsage \in Stat \cup {NoStat}
    /\ currentHostUsage \in Stat \cup {NoStat}
    /\ getter \in {"idle", "copy", "copied"}
    /\ copied \in [previous : Stat \cup {NoStat}, current : Stat \cup {NoStat},
                   words : SUBSET {"previous", "current"}]
    /\ torn \in BOOLEAN
    /\ worked \in BOOLEAN
    /\ steady \in BOOLEAN

Answer == HostUsage(copied)

(* An answer computed from a copy into which no update fell, of two        *)
(* samples that differ, is at most the whole host, however the idle and    *)
(* iowait counters went back; it is below 0 only if the time that is not   *)
(* idle went back, which GetHostUsage does not look at.                    *)
FractionOfHost ==
    /\ getter = "copied"
    /\ ~torn
    /\ NoStat \in {copied.previous, copied.current} \/ copied.previous.sum # copied.current.sum
    => Answer.den > 0 /\ Answer.num <= Answer.den /\ (worked => 0 <= Answer.num)

(* A torn copy, also one between the two stores of the writer, does at     *)
(* most this harm while the counters behave: the answer is still a         *)
(* fraction of the host, or it is 0/0, not a number.                       *)
TornCopyIsFractionOrNaN ==
    getter = "copied" /\ steady =>
        \/ Answer.den > 0 /\ 0 <= Answer.num /\ Answer.num <= Answer.den
        \/ torn /\ Answer = [num |-> 0, den |-> 0]
=============================================================================
