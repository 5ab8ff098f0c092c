---------------------------- MODULE HostCPUProofs ----------------------------
(***************************************************************************)
(* For any bound on the CPU time of the host: what GetHostUsage computes   *)
(* from its copy of the two samples, torn or not, is a fraction of the     *)
(* host (or not a number, where a torn copy has the same sample twice).    *)
(***************************************************************************)
EXTENDS HostCPU, TLAPS

(* The time that is not idle did not go back from s to t. *)
Grows(s, t) == s # NoStat /\ t # NoStat => NotIdle(s) <= NotIdle(t)

(* s is an earlier sample than t, of counters that behaved. *)
Before(s, t) == s.sum < t.sum /\ s.idle <= t.idle /\ NotIdle(s) <= NotIdle(t)

Copied(word) == word \in copied.words

(* Two stored samples are one after the other; between the two stores of   *)
(* the writer they are the same.                                           *)
SamplesGrow ==
    /\ monitor \in {"store", "shift"} => read \in Stat
    /\ monitor = "shift" => previousHostUsage = currentHostUsage
    /\ previousHostUsage # NoStat => currentHostUsage # NoStat
    /\ worked => Grows(previousHostUsage, currentHostUsage)

(* The words that were copied while nothing was stored are those of the    *)
(* struct; the two of a complete copy are then one after the other.        *)
CopyGrows ==
    ~torn =>
        /\ getter = "copy" =>
              /\ copied.words # {} => monitor # "shift"
              /\ Copied("previous") => copied.previous = previousHostUsage
              /\ Copied("current") => copied.current = currentHostUsage
        /\ getter = "copied" /\ worked => Grows(copied.previous, copied.current)

(* A torn copy that began with "previous" has two samples further apart,   *)
(* or the same one twice; one that began with "current" has the same one   *)
(* twice, or the later one first.                                          *)
CopyOrdered ==
    steady =>
        /\ previousHostUsage # NoStat /\ monitor # "shift" =>
              Before(previousHostUsage, currentHostUsage)
        /\ getter = "copy" /\ Copied("previous") /\ copied.previous # NoStat =>
              /\ currentHostUsage # NoStat
              /\ \/ Before(copied.previous, currentHostUsage)
                 \/ torn /\ monitor = "shift" /\ copied.previous = currentHostUsage
        /\ getter = "copy" /\ Copied("current") /\ copied.current # NoStat /\ torn =>
              /\ previousHostUsage # NoStat
              /\ \/ copied.current = previousHostUsage
                 \/ Before(copied.current, previousHostUsage)
        /\ getter = "copied" /\ copied.previous # NoStat /\ copied.current # NoStat =>
              \/ Before(copied.previous, copied.current)
              \/ /\ torn
                 /\ \/ copied.current = copied.previous
                    \/ Before(copied.current, copied.previous)

(* A copy that has not begun is not torn, and one that goes on not complete. *)
CopyPartial ==
    getter = "copy" =>
        /\ copied.words # {"previous", "current"}
        /\ torn => copied.words # {}

HostInv == TypeOK /\ SamplesGrow /\ CopyPartial /\ CopyGrows /\ CopyOrdered

-----------------------------------------------------------------------------

(* No sample has been taken and nothing copied at first. *)
LEMMA InitHost == Init => HostInv
<1> SUFFICES ASSUME Init PROVE HostInv
  OBVIOUS
<1>1. TypeOK
  <2>1. 0 \in 0..MaxTotal
    BY MaxTotalAssumption
  <2>2. copied \in [previous : Stat \cup {NoStat}, current : Stat \cup {NoStat},
                    words : SUBSET {"previous", "current"}]
    BY DEF Init, NothingCopied
  <2> QED
    BY <2>1, <2>2 DEF Init, TypeOK
<1>2. SamplesGrow /\ CopyPartial /\ CopyGrows /\ CopyOrdered
  BY DEF Init, SamplesGrow, CopyPartial, CopyGrows, CopyOrdered, Grows
<1> QED
  BY <1>1, <1>2 DEF HostInv

(* CPU time passes, or goes back: no sample changes. *)
LEMMA TimeHost ==
    ASSUME HostInv, Work \/ Rest \/ IdleGoesBack \/ IowaitGoesBack
    PROVE  HostInv'
<1>1. UNCHANGED <<monitorVars, getterVars>>
  BY DEF Work, Rest, IdleGoesBack, IowaitGoesBack
<1>2. busy' \in 0..MaxTotal /\ idle' \in 0..MaxTotal
  BY MaxTotalAssumption DEF Work, Rest, IdleGoesBack, IowaitGoesBack, HostInv, TypeOK
<1>3. TypeOK'
  BY <1>1, <1>2 DEF HostInv, TypeOK, monitorVars, getterVars
<1>4. SamplesGrow' /\ CopyPartial' /\ CopyGrows'
  BY <1>1 DEF HostInv, SamplesGrow, CopyPartial, CopyGrows, Copied, Grows, monitorVars, getterVars
<1>5. CopyOrdered'
  BY <1>1 DEF HostInv, CopyOrdered, Copied, Before, monitorVars, getterVars
<1> QED
  BY <1>3, <1>4, <1>5 DEF HostInv

(* The monitor reads /proc/stat. *)
LEMMA ReadHost ==
    ASSUME HostInv, ReadHostCPU
    PROVE  HostInv'
<1>1. /\ UNCHANGED <<hostVars, previousHostUsage, currentHostUsage, worked, steady, getterVars>>
      /\ read' = [sum |-> busy + idle, idle |-> idle]
      /\ monitor = "tick" /\ monitor' = "store"
  BY DEF ReadHostCPU, ReadStat
<1>2. busy \in Nat /\ idle \in Nat
  BY MaxTotalAssumption DEF HostInv, TypeOK
<1>3. read' \in Stat
  BY <1>1, <1>2 DEF Stat
<1>4. TypeOK'
  BY <1>1, <1>3 DEF HostInv, TypeOK, hostVars, getterVars
<1>5. SamplesGrow'
  BY <1>1, <1>3 DEF HostInv, SamplesGrow, Grows
<1>6. CopyPartial' /\ CopyGrows'
  BY <1>1 DEF HostInv, CopyPartial, CopyGrows, Copied, Grows, getterVars
<1>7. CopyOrdered'
  BY <1>1 DEF HostInv, CopyOrdered, Copied, Before, getterVars
<1> QED
  BY <1>4, <1>5, <1>6, <1>7 DEF HostInv

(* What is before a sample is before a later one. *)
LEMMA BeforeLater ==
    ASSUME NEW s \in Stat, NEW t \in Stat, NEW u \in Stat
    PROVE  Before(s, t) /\ Before(t, u) => Before(s, u)
BY DEF Before, NotIdle, Stat

(* The first pointer moves on, perhaps while the two are being copied:     *)
(* what was copied of "current" is then what "previous" has become, or     *)
(* before it.                                                              *)
LEMMA StorePreviousHost ==
    ASSUME HostInv, StorePreviousHostUsage
    PROVE  HostInv'
<1> DEFINE cur == currentHostUsage
           prev == previousHostUsage
           P == copied.previous
           C == copied.current
<1>1. /\ monitor = "store" /\ monitor' = "shift" /\ previousHostUsage' = cur
      /\ UNCHANGED <<hostVars, read, currentHostUsage, worked, steady, getter, copied>>
  BY DEF StorePreviousHostUsage
<1>2. torn' = (torn \/ (getter = "copy" /\ copied.words # {}))
  BY DEF StorePreviousHostUsage
<1>3. /\ cur \in Stat \cup {NoStat} /\ prev \in Stat \cup {NoStat}
      /\ P \in Stat \cup {NoStat} /\ C \in Stat \cup {NoStat}
  BY DEF HostInv, TypeOK
<1>4. TypeOK'
  <2>1. torn' \in BOOLEAN
    BY DEF StorePreviousHostUsage
  <2> QED
    BY <1>1, <2>1 DEF HostInv, TypeOK, hostVars
<1>5. SamplesGrow'
  <2>1. Grows(cur, cur)
    BY <1>3 DEF Grows, NotIdle, Stat
  <2> QED
    BY <1>1, <2>1 DEF HostInv, SamplesGrow, Grows
<1>6. CopyPartial'
  BY <1>1, <1>2 DEF HostInv, CopyPartial
<1>7. CopyGrows'
  BY <1>1, <1>2 DEF HostInv, CopyGrows, Copied, Grows
<1>8. ASSUME steady PROVE CopyOrdered'
  <2>1. ASSUME getter = "copy", Copied("previous"), P # NoStat
        PROVE  cur # NoStat /\ Before(P, cur)
    BY <1>1, <1>8, <2>1 DEF HostInv, CopyOrdered
  <2>2. ASSUME getter = "copy", Copied("current"), C # NoStat
        PROVE  cur # NoStat /\ (C = cur \/ Before(C, cur))
    <3>1. CASE ~torn
      BY <2>2, <3>1 DEF HostInv, CopyGrows
    <3>2. CASE torn
      <4>1. prev # NoStat /\ (C = prev \/ Before(C, prev)) /\ Before(prev, cur)
        BY <1>1, <1>8, <2>2, <3>2 DEF HostInv, CopyOrdered
      <4>2. cur # NoStat
        BY <4>1 DEF HostInv, SamplesGrow
      <4> QED
        BY <1>3, <2>2, <4>1, <4>2, BeforeLater
    <3> QED
      BY <3>1, <3>2 DEF HostInv, TypeOK
  <2>3. getter = "copied" => torn' = torn
    BY <1>2 DEF HostInv, TypeOK
  <2>4. getter = "copied" /\ P # NoStat /\ C # NoStat =>
           \/ Before(P, C)
           \/ torn /\ (C = P \/ Before(C, P))
    BY <1>8 DEF HostInv, CopyOrdered
  <2> QED
    BY <1>1, <2>1, <2>2, <2>3, <2>4 DEF CopyOrdered, Copied, Before
<1>9. CopyOrdered'
  BY <1>1, <1>8 DEF CopyOrdered
<1> QED
  BY <1>4, <1>5, <1>6, <1>7, <1>9 DEF HostInv

(* The second pointer moves on to a sample that comes after all others. *)
LEMMA StoreCurrentHost ==
    ASSUME HostInv, StoreCurrentHostUsage
    PROVE  HostInv'
<1> DEFINE cur == currentHostUsage
           prev == previousHostUsage
           P == copied.previous
           C == copied.current
<1>1. /\ monitor = "shift" /\ monitor' = "tick"
      /\ currentHostUsage' = read /\ read' = NoStat
      /\ UNCHANGED <<hostVars, previousHostUsage, getterVars>>
  BY DEF StoreCurrentHostUsage
<1>2. /\ read \in Stat /\ read # NoStat /\ prev = cur
      /\ cur \in Stat \cup {NoStat}
      /\ P \in Stat \cup {NoStat} /\ C \in Stat \cup {NoStat}
  BY <1>1, NoStatAssumption DEF HostInv, SamplesGrow, TypeOK
<1>3. worked' => worked /\ Grows(cur, read)
  <2> SUFFICES ASSUME worked', cur # NoStat PROVE NotIdle(cur) <= NotIdle(read)
    BY DEF Grows, StoreCurrentHostUsage
  <2>1. NotIdle(read) >= NotIdle(cur)
    BY DEF StoreCurrentHostUsage
  <2> QED
    BY <1>2, <2>1 DEF NotIdle, Stat
<1>4. steady' => steady /\ worked' /\ (cur # NoStat => Before(cur, read))
  <2> SUFFICES ASSUME steady', cur # NoStat PROVE Before(cur, read)
    BY DEF StoreCurrentHostUsage
  <2>1. worked' /\ read.sum > cur.sum /\ read.idle >= cur.idle
    BY DEF StoreCurrentHostUsage
  <2> QED
    BY <1>2, <1>3, <2>1 DEF Before, Grows, Stat
<1>5. TypeOK'
  <2>1. worked' \in BOOLEAN /\ steady' \in BOOLEAN
    BY DEF StoreCurrentHostUsage
  <2> QED
    BY <1>1, <1>2, <2>1 DEF HostInv, TypeOK, hostVars, getterVars
<1>6. SamplesGrow'
  BY <1>1, <1>2, <1>3 DEF SamplesGrow, Grows
<1>7. CopyPartial'
  BY <1>1 DEF HostInv, CopyPartial, getterVars
<1>8. CopyGrows'
  BY <1>1, <1>3 DEF HostInv, CopyGrows, Copied, Grows, getterVars
<1>9. ASSUME steady' PROVE CopyOrdered'
  <2>1. steady /\ (cur # NoStat => Before(cur, read))
    BY <1>4, <1>9
  <2>2. ASSUME getter = "copy", Copied("previous"), P # NoStat
        PROVE  Before(P, read)
    <3>1. cur # NoStat /\ (P = cur \/ Before(P, cur))
      BY <2>1, <2>2 DEF HostInv, CopyOrdered
    <3> QED
      BY <1>2, <2>1, <2>2, <3>1, BeforeLater
  <2>3. getter = "copy" /\ Copied("current") /\ C # NoStat /\ torn =>
           prev # NoStat /\ (C = prev \/ Before(C, prev))
    BY <2>1 DEF HostInv, CopyOrdered
  <2>4. getter = "copied" /\ P # NoStat /\ C # NoStat =>
           \/ Before(P, C)
           \/ torn /\ (C = P \/ Before(C, P))
    BY <2>1 DEF HostInv, CopyOrdered
  <2> QED
    BY <1>1, <1>2, <2>1, <2>2, <2>3, <2>4 DEF CopyOrdered, Copied, Before, getterVars
<1>10. CopyOrdered'
  BY <1>9 DEF CopyOrdered
<1> QED
  BY <1>5, <1>6, <1>7, <1>8, <1>10 DEF HostInv

(* GetHostUsage is called, or returns. *)
LEMMA CallHost ==
    ASSUME HostInv, CallGetHostUsage \/ Return
    PROVE  HostInv'
<1>1. /\ UNCHANGED <<hostVars, monitorVars>>
      /\ getter' \in {"copy", "idle"} /\ copied' = NothingCopied
      /\ torn' \in BOOLEAN /\ (getter' = "copy" => ~torn')
  BY DEF CallGetHostUsage, Return, HostInv, TypeOK
<1>2. copied'.words = {}
  BY <1>1 DEF NothingCopied
<1>3. TypeOK'
  <2>1. copied' \in [previous : Stat \cup {NoStat}, current : Stat \cup {NoStat},
                     words : SUBSET {"previous", "current"}]
    BY <1>1 DEF NothingCopied
  <2> QED
    BY <1>1, <2>1 DEF HostInv, TypeOK, hostVars, monitorVars
<1>4. SamplesGrow'
  BY <1>1 DEF HostInv, SamplesGrow, Grows, hostVars, monitorVars
<1>5. CopyPartial' /\ CopyGrows'
  BY <1>1, <1>2 DEF CopyPartial, CopyGrows, Copied
<1>6. CopyOrdered'
  BY <1>1, <1>2 DEF HostInv, CopyOrdered, Copied, Before, monitorVars
<1> QED
  BY <1>3, <1>4, <1>5, <1>6 DEF HostInv

(* A word of the struct is copied. *)
LEMMA CopyHost ==
    ASSUME HostInv, NEW word \in {"previous", "current"}, CopyWord(word)
    PROVE  HostInv'
<1> DEFINE cur == currentHostUsage
           prev == previousHostUsage
           both == {"previous", "current"}
<1>1. /\ getter = "copy" /\ word \notin copied.words
      /\ UNCHANGED <<hostVars, monitorVars>>
      /\ torn' = (torn \/ monitor = "shift")
      /\ getter' = IF copied'.words = both THEN "copied" ELSE "copy"
  BY DEF CopyWord
<1>2. /\ copied'.previous = IF word = "previous" THEN prev ELSE copied.previous
      /\ copied'.current = IF word = "current" THEN cur ELSE copied.current
      /\ copied'.words = copied.words \cup {word}
  BY DEF CopyWord, HostInv, TypeOK
<1>3. TypeOK'
  <2>1. copied' \in [previous : Stat \cup {NoStat}, current : Stat \cup {NoStat},
                     words : SUBSET both]
    BY DEF CopyWord, HostInv, TypeOK
  <2> QED
    BY <1>1, <2>1 DEF HostInv, TypeOK, hostVars, monitorVars
<1>4. SamplesGrow'
  BY <1>1 DEF HostInv, SamplesGrow, Grows, hostVars, monitorVars
<1>5. CopyPartial'
  BY <1>1, <1>2 DEF CopyPartial
<1>6. copied.words \subseteq both
  BY DEF HostInv, TypeOK
<1>7. CASE word = "previous"
  <2>1. copied'.previous = prev /\ copied'.current = copied.current
    BY <1>2, <1>7
  <2>2. copied.words = {} \/ copied.words = {"current"}
    BY <1>1, <1>6, <1>7
  <2>3. CASE copied.words = {}
    <3>1. getter' = "copy" /\ copied'.words = {"previous"}
      BY <1>1, <1>2, <1>7, <2>3
    <3>2. CopyGrows'
      BY <1>1, <2>1, <3>1 DEF CopyGrows, Copied, monitorVars
    <3>3. CopyOrdered'
      BY <1>1, <2>1, <3>1 DEF HostInv, SamplesGrow, CopyOrdered, Copied, Grows, Before, monitorVars
    <3> QED
      BY <1>3, <1>4, <1>5, <3>2, <3>3 DEF HostInv
  <2>4. CASE copied.words = {"current"}
    <3>1. getter' = "copied" /\ Copied("current")
      BY <1>1, <1>2, <1>7, <2>4 DEF Copied
    <3>2. CopyGrows'
      BY <1>1, <2>1, <3>1 DEF HostInv, SamplesGrow, CopyGrows, Grows, monitorVars
    <3>3. CopyOrdered'
      BY <1>1, <2>1, <3>1
         DEF HostInv, TypeOK, SamplesGrow, CopyGrows, CopyOrdered, Grows, Before, monitorVars
    <3> QED
      BY <1>3, <1>4, <1>5, <3>2, <3>3 DEF HostInv
  <2> QED
    BY <2>2, <2>3, <2>4
<1>8. CASE word = "current"
  <2>1. copied'.previous = copied.previous /\ copied'.current = cur
    BY <1>2, <1>8
  <2>2. copied.words = {} \/ copied.words = {"previous"}
    BY <1>1, <1>6, <1>8
  <2>3. CASE copied.words = {}
    <3>1. getter' = "copy" /\ copied'.words = {"current"}
      BY <1>1, <1>2, <1>8, <2>3
    <3>2. CopyGrows'
      BY <1>1, <2>1, <3>1 DEF CopyGrows, Copied, monitorVars
    <3>3. CopyOrdered'
      BY <1>1, <2>1, <2>3, <3>1
         DEF HostInv, SamplesGrow, CopyPartial, CopyOrdered, Copied, Before, monitorVars
    <3> QED
      BY <1>3, <1>4, <1>5, <3>2, <3>3 DEF HostInv
  <2>4. CASE copied.words = {"previous"}
    <3>1. getter' = "copied" /\ Copied("previous")
      BY <1>1, <1>2, <1>8, <2>4 DEF Copied
    <3>2. CopyGrows'
      BY <1>1, <2>1, <3>1 DEF HostInv, SamplesGrow, CopyGrows, Grows, monitorVars
    <3>3. CopyOrdered'
      BY <1>1, <2>1, <3>1 DEF HostInv, CopyOrdered, Grows, Before, monitorVars
    <3> QED
      BY <1>3, <1>4, <1>5, <3>2, <3>3 DEF HostInv
  <2> QED
    BY <2>2, <2>3, <2>4
<1> QED
  BY <1>7, <1>8

(* The inductive invariant holds of every behaviour. *)
LEMMA HostInductive == Spec => []HostInv
<1>1. Init => HostInv
  BY InitHost
<1>2. HostInv /\ [Next]_vars => HostInv'
  <2> SUFFICES ASSUME HostInv, [Next]_vars PROVE HostInv'
    OBVIOUS
  <2>1. CASE Next
    BY <2>1, TimeHost, ReadHost, StorePreviousHost, StoreCurrentHost, CallHost, CopyHost DEF Next
  <2>2. CASE UNCHANGED vars
    BY <2>2 DEF vars, hostVars, monitorVars, getterVars, HostInv, TypeOK, SamplesGrow,
                CopyPartial, CopyGrows, CopyOrdered, Copied, Grows, Before
  <2> QED
    BY <2>1, <2>2
<1> QED
  BY <1>1, <1>2, PTL DEF Spec

-----------------------------------------------------------------------------

(* The samples and the copy of the struct always have their types. *)
THEOREM HostTypeCorrect == Spec => []TypeOK
<1>1. HostInv => TypeOK
  BY DEF HostInv
<1> QED
  BY <1>1, HostInductive, PTL

(* The difference of two samples, of which GetHostUsage makes its answer. *)
LEMMA AnswerOfTwo ==
    ASSUME NEW deltaSum, NEW deltaIdled,
           NoStat \notin {copied.previous, copied.current},
           deltaSum = copied.current.sum - copied.previous.sum,
           deltaIdled = copied.current.idle - copied.previous.idle
    PROVE  Answer = IF deltaIdled < 0 \/ deltaSum < 0 THEN [num |-> 0, den |-> 1]
                    ELSE [num |-> deltaSum - deltaIdled, den |-> deltaSum]
BY DEF Answer, HostUsage

(* Of two different samples into whose copy no update fell, GetHostUsage   *)
(* never answers with more than the whole host, and with less than nothing *)
(* only if the time that is not idle went back.                            *)
THEOREM UntornFraction == Spec => []FractionOfHost
<1>1. HostInv => FractionOfHost
  <2> SUFFICES ASSUME HostInv, getter = "copied", ~torn,
                      \/ NoStat \in {copied.previous, copied.current}
                      \/ copied.previous.sum # copied.current.sum
               PROVE  Answer.den > 0 /\ Answer.num <= Answer.den /\ (worked => 0 <= Answer.num)
    BY DEF FractionOfHost
  <2>1. CASE NoStat \in {copied.previous, copied.current}
    BY <2>1 DEF Answer, HostUsage
  <2>2. CASE NoStat \notin {copied.previous, copied.current}
    <3>1. copied.previous \in Stat /\ copied.current \in Stat
      BY <2>2 DEF HostInv, TypeOK
    <3>2. worked => NotIdle(copied.previous) <= NotIdle(copied.current)
      BY <2>2 DEF HostInv, CopyGrows, Grows
    <3> DEFINE deltaSum == copied.current.sum - copied.previous.sum
               deltaIdled == copied.current.idle - copied.previous.idle
    <3>3. /\ deltaSum \in Int /\ deltaIdled \in Int /\ deltaSum # 0
          /\ worked => deltaIdled <= deltaSum
      BY <2>2, <3>1, <3>2 DEF NotIdle, Stat
    <3>4. Answer = IF deltaIdled < 0 \/ deltaSum < 0 THEN [num |-> 0, den |-> 1]
                   ELSE [num |-> deltaSum - deltaIdled, den |-> deltaSum]
      BY <2>2, AnswerOfTwo
    <3> HIDE DEF deltaSum, deltaIdled
    <3> QED
      BY <3>3, <3>4
  <2> QED
    BY <2>1, <2>2
<1> QED
  BY <1>1, HostInductive, PTL

(* Although GetHostUsage copies the two pointers without the mutex, and    *)
(* any number of samples may be stored meanwhile, and the copy may fall    *)
(* between the two stores of one, its answer is a fraction of the host or  *)
(* 0/0, as long as the counters behave.                                    *)
THEOREM TornFraction == Spec => []TornCopyIsFractionOrNaN
<1>1. HostInv => TornCopyIsFractionOrNaN
  <2> SUFFICES ASSUME HostInv, getter = "copied", steady
               PROVE  \/ Answer.den > 0 /\ 0 <= Answer.num /\ Answer.num <= Answer.den
                      \/ torn /\ Answer = [num |-> 0, den |-> 0]
    BY DEF TornCopyIsFractionOrNaN
  <2>1. CASE NoStat \in {copied.previous, copied.current}
    BY <2>1 DEF Answer, HostUsage
  <2>2. CASE NoStat \notin {copied.previous, copied.current}
    <3> DEFINE deltaSum == copied.current.sum - copied.previous.sum
               deltaIdled == copied.current.idle - copied.previous.idle
    <3>1. copied.previous \in Stat /\ copied.current \in Stat
      BY <2>2 DEF HostInv, TypeOK
    <3>2. Answer = IF deltaIdled < 0 \/ deltaSum < 0 THEN [num |-> 0, den |-> 1]
                   ELSE [num |-> deltaSum - deltaIdled, den |-> deltaSum]
      BY <2>2, AnswerOfTwo
    <3>3. CASE Before(copied.previous, copied.current)
      <4>1. deltaSum \in Int /\ deltaIdled \in Int /\ deltaSum > 0 /\ 0 <= deltaIdled /\ deltaIdled <= deltaSum
        BY <3>1, <3>3 DEF Before, NotIdle, Stat
      <4> HIDE DEF deltaSum, deltaIdled
      <4> QED
        BY <3>2, <4>1
    <3>4. CASE torn /\ copied.current = copied.previous
      <4>1. deltaSum = 0 /\ deltaIdled = 0
        BY <3>1, <3>4 DEF Stat
      <4> HIDE DEF deltaSum, deltaIdled
      <4> QED
        BY <3>2, <3>4, <4>1
    <3>5. CASE Before(copied.current, copied.previous)
      <4>1. deltaSum \in Int /\ deltaSum < 0
        BY <3>1, <3>5 DEF Before, Stat
      <4> HIDE DEF deltaSum, deltaIdled
      <4> QED
        BY <3>2, <4>1
    <3> QED
      BY <2>2, <3>3, <3>4, <3>5 DEF HostInv, CopyOrdered
  <2> QED
    BY <2>1, <2>2
<1> QED
  BY <1>1, HostInductive, PTL
=============================================================================
