--------------------------- MODULE CheckGuardProofs ---------------------------
(***************************************************************************)
(* Theorems about CheckGuard, for any number of processes, any tick and    *)
(* interval, any clock that is set however often.                          *)
(***************************************************************************)
EXTENDS CheckGuard, TLAPS

-----------------------------------------------------------------------------
(* Whole seconds.                                                          *)

(* A time lies between the second it is cut to and the next one.           *)
LEMMA Floor ==
  ASSUME NEW t \in Nat, NEW s \in Nat \ {0}
  PROVE  /\ t \div s \in Nat
         /\ s * (t \div s) <= t
         /\ t < s * (t \div s) + s
         /\ t = s * (t \div s) + (t % s)
         /\ t % s \in 0..(s - 1)
  BY SMT

(* More seconds are more ticks.                                            *)
LEMMA Longer ==
  ASSUME NEW m \in Nat, NEW n \in Nat, m <= n, NEW s \in Nat
  PROVE  s * m <= s * n
<1>1. PICK d \in Nat : n = m + d
  BY n - m \in Nat
<1>2. s * n = s * m + s * d
  BY <1>1
<1>3. s * d \in Nat
  OBVIOUS
<1>. QED
  BY <1>2, <1>3

(* Seconds add up.                                                         *)
LEMMA Together ==
  ASSUME NEW m \in Nat, NEW n \in Nat, NEW s \in Nat
  PROVE  s * (m + n) = s * m + s * n
  BY SMT

(* Cutting keeps the order of two times.                                   *)
LEMMA FloorMonotone ==
  ASSUME NEW t \in Nat, NEW u \in Nat, t <= u, NEW s \in Nat \ {0}
  PROVE  t \div s <= u \div s
<1>. DEFINE m == t \div s  n == u \div s
<1>1. m \in Nat /\ n \in Nat /\ s * m <= t /\ u < s * n + s
  BY Floor
<1>. SUFFICES ASSUME n < m PROVE FALSE
  BY <1>1
<1>2. s * (n + 1) <= s * m
  BY <1>1, Longer
<1>3. s * (n + 1) = s * n + s
  BY <1>1
<1>. QED
  BY <1>1, <1>2, <1>3

(* A whole number of seconds is cut to itself.                             *)
LEMMA FloorWhole ==
  ASSUME NEW n \in Nat, NEW s \in Nat \ {0}
  PROVE  n * s \in Nat /\ (n * s) \div s = n
<1>. DEFINE m == (n * s) \div s
<1>1. n * s \in Nat /\ n * s = s * n
  OBVIOUS
<1>2. m \in Nat /\ s * m <= s * n /\ s * n < s * m + s
  BY <1>1, Floor
<1>3. ~(m + 1 <= n)
  <2>. SUFFICES ASSUME m + 1 <= n PROVE FALSE
    OBVIOUS
  <2>1. s * (m + 1) <= s * n
    BY <1>2, Longer
  <2>2. s * (m + 1) = s * m + s
    BY <1>2
  <2>. QED
    BY <1>2, <2>1, <2>2
<1>4. ~(n + 1 <= m)
  <2>. SUFFICES ASSUME n + 1 <= m PROVE FALSE
    OBVIOUS
  <2>1. s * (n + 1) <= s * m
    BY <1>2, Longer
  <2>2. s * (n + 1) = s * n + s
    OBVIOUS
  <2>3. s * n \in Nat
    OBVIOUS
  <2>. QED
    BY <1>2, <2>1, <2>2, <2>3
<1>. QED
  BY <1>1, <1>2, <1>3, <1>4

-----------------------------------------------------------------------------
(* The inductive invariant.                                                *)

(* Every time that is kept in whole seconds is the cut of the tick that    *)
(* history keeps beside it: in the stamp, in what should_check read, and   *)
(* in what record_check is about to write.                                 *)
Cuts ==
  /\ stamp \in Nat => stamp = taken \div Second
  /\ \A p \in Procs :
       /\ pc[p] = "read" /\ seen[p] \in Nat => seen[p] = asked[p] \div Second
       /\ pc[p] \in {"create", "persist"} => secs[p] = asked[p] \div Second

IInv == TypeOK /\ Cuts

(* It holds at first.                                                      *)
LEMMA InitInvariant == Init => IInv
<1>. SUFFICES ASSUME Init PROVE IInv
  OBVIOUS
<1>. USE SecondAssumption, BoundsAssumption, StampAssumption
<1>1. Horizon \div Second \in Nat
  BY Floor
<1>2. stamp \in Stamps
  BY <1>1 DEF Init, Inherited, Stamps
<1>3. taken \in Nat
  BY <1>2, FloorWhole DEF Init, Stamps
<1>4. TypeOK
  BY <1>2, <1>3 DEF Init, TypeOK, Stamps
<1>5. stamp \in Nat => stamp = taken \div Second
  BY FloorWhole DEF Init
<1>. QED
  BY <1>4, <1>5 DEF IInv, Cuts, Init

(* Every step keeps it: one step of the proof for each action.             *)
LEMMA NextInvariant == IInv /\ [Next]_vars => IInv'
<1>. SUFFICES ASSUME IInv, [Next]_vars PROVE IInv'
  OBVIOUS
<1>. USE SecondAssumption, IntervalAssumption, BoundsAssumption, StampAssumption
<1>0. TypeOK /\ Cuts
  BY DEF IInv
<1>1. CASE Tick
  <2>1. TypeOK'
    <3>0. clock \in Nat /\ clock' = clock + 1
      BY <1>0, <1>1, Zenon DEF Tick, TypeOK
    <3>1. clock' \in Nat
      BY <3>0
    <3>. QED
      BY <1>0, <1>1, <3>1, Zenon DEF Tick, TypeOK, Stamps
  <2>2. Cuts'
    BY <1>0, <1>1 DEF Tick, Cuts
  <2>. QED
    BY <2>1, <2>2 DEF IInv
<1>2. CASE SetClock
  <2>1. TypeOK'
    <3>0. resets \in 0..Resets /\ resets < Resets /\ resets' = resets + 1 /\ clock' \in 0..Horizon
      BY <1>0, <1>2, Zenon DEF SetClock, TypeOK
    <3>1. clock' \in Nat /\ resets' \in 0..Resets
      BY <3>0
    <3>. QED
      BY <1>0, <1>2, <3>1, Zenon DEF SetClock, TypeOK, Stamps
  <2>2. Cuts'
    BY <1>0, <1>2 DEF SetClock, Cuts
  <2>. QED
    BY <2>1, <2>2 DEF IInv
<1>3. ASSUME NEW p \in Procs, ReadStamp(p) PROVE IInv'
  <2>1. TypeOK'
    BY <1>0, <1>3 DEF ReadStamp, TypeOK, world, Stamps
  <2>2. Cuts'
    BY <1>0, <1>3 DEF ReadStamp, TypeOK, Cuts, world
  <2>. QED
    BY <2>1, <2>2 DEF IInv
<1>4. ASSUME NEW p \in Procs, NEW a \in {"none", "err", "no directory", "due", "not due"},
             Answer(p, a), UNCHANGED <<world, stamp, taken>>
      PROVE  IInv'
  <2>1. TypeOK'
    BY <1>0, <1>4 DEF Answer, TypeOK, world, Stamps
  <2>2. Cuts'
    BY <1>0, <1>4 DEF Answer, TypeOK, Cuts, world
  <2>. QED
    BY <2>1, <2>2 DEF IInv
<1>5. ASSUME NEW p \in Procs, ReadFails(p) PROVE IInv'
  BY <1>4, <1>5 DEF ReadFails
<1>6. ASSUME NEW p \in Procs, Compare(p) PROVE IInv'
  BY <1>4, <1>6 DEF Compare
<1>7. ASSUME NEW p \in Procs, TakeTime(p) PROVE IInv'
  <2>1. Now \in Nat
    BY <1>0, Floor DEF Now, TypeOK
  <2>2. TypeOK'
    BY <1>0, <1>7, <2>1 DEF TakeTime, TypeOK, world
  <2>3. Cuts'
    BY <1>0, <1>7 DEF TakeTime, TypeOK, Cuts, world, Now
  <2>. QED
    BY <2>2, <2>3 DEF IInv
<1>8. ASSUME NEW p \in Procs, Create(p) PROVE IInv'
  <2>1. CASE directory
    <3>1. TypeOK'
      BY <1>0, <1>8, <2>1 DEF Create, TypeOK, world
    <3>2. Cuts'
      BY <1>0, <1>8, <2>1 DEF Create, TypeOK, Cuts, world
    <3>. QED
      BY <3>1, <3>2 DEF IInv
  <2>2. CASE ~directory
    BY <1>4, <1>8, <2>2 DEF Create
  <2>. QED
    BY <2>1, <2>2
<1>9. ASSUME NEW p \in Procs, Persist(p) PROVE IInv'
  <2>1. TypeOK'
    BY <1>0, <1>9 DEF Persist, Answer, TypeOK, world, Stamps
  <2>2. Cuts'
    BY <1>0, <1>9 DEF Persist, Answer, TypeOK, Cuts, world
  <2>. QED
    BY <2>1, <2>2 DEF IInv
<1>10. ASSUME NEW p \in Procs, RecordFails(p) PROVE IInv'
  BY <1>4, <1>10 DEF RecordFails
<1>11. ASSUME NEW p \in Procs, Crash(p) PROVE IInv'
  BY <1>4, <1>11 DEF Crash
<1>12. CASE UNCHANGED vars
  <2>1. TypeOK'
    BY <1>0, <1>12 DEF vars, TypeOK, Stamps
  <2>2. Cuts'
    BY <1>0, <1>12 DEF vars, Cuts
  <2>. QED
    BY <2>1, <2>2 DEF IInv
<1>. QED
  BY <1>1, <1>2, <1>3, <1>5, <1>6, <1>7, <1>8, <1>9, <1>10, <1>11, <1>12 DEF Next

(* Every time that is kept or compared is the whole second of some tick    *)
(* that the clock showed (should_check, record_check).                     *)
THEOREM InductiveInvariant == Spec => []IInv
<1>. QED
  BY InitInvariant, NextInvariant, PTL DEF Spec

-----------------------------------------------------------------------------
(* Once a time is recorded, nobody ever reads a part of one: whoever       *)
(* records, however many, and wherever they are killed (record_check).     *)
THEOREM StampIsWhole == Spec => StampStaysWhole
<1>1. IInv /\ [Next]_vars => [(stamp \in Nat) => (stamp' \in Nat)]_vars
  <2>. SUFFICES ASSUME IInv, Next, stamp \in Nat PROVE stamp' \in Nat
    OBVIOUS
  <2>1. ASSUME NEW p \in Procs, Persist(p) PROVE stamp' \in Nat
    BY <2>1 DEF Persist, IInv, TypeOK
  <2>2. CASE UNCHANGED stamp
    BY <2>2
  <2>. QED
    BY <2>1, <2>2 DEF Next, Tick, SetClock, ReadStamp, ReadFails, Compare, TakeTime,
                      Create, RecordFails, Crash
<1>. QED
  BY <1>1, InductiveInvariant, PTL DEF Spec, StampStaysWhole

(* Only Compare answers that a check is due or not.                        *)
LEMMA OnlyCompareDecides ==
  ASSUME TypeOK, Next, NEW p \in Procs,
         answer'[p] # answer[p], answer'[p] \in {"due", "not due"}
  PROVE  /\ Compare(p)
         /\ answer'[p] = "due" <=> Due(seen[p])
<1>1. ASSUME NEW q \in Procs, NEW a, Answer(q, a), a \notin {"due", "not due"}
      PROVE  FALSE
  BY <1>1 DEF Answer, TypeOK
<1>2. ASSUME NEW q \in Procs, Compare(q)
      PROVE  q = p /\ (answer'[p] = "due" <=> Due(seen[p]))
  BY <1>2 DEF Compare, Answer, TypeOK
<1>3. ~ UNCHANGED answer
  OBVIOUS
<1>4. ~ (Tick \/ SetClock)
  BY <1>3 DEF Tick, SetClock
<1>5. ASSUME NEW q \in Procs, ReadStamp(q) \/ TakeTime(q) PROVE FALSE
  BY <1>5 DEF ReadStamp, TakeTime, TypeOK
<1>6. ASSUME NEW q \in Procs, ReadFails(q) \/ Create(q) \/ Persist(q) \/ RecordFails(q) \/ Crash(q)
      PROVE  FALSE
  BY <1>1, <1>3, <1>6 DEF ReadFails, Create, Persist, RecordFails, Crash
<1>. QED
  BY <1>2, <1>4, <1>5, <1>6 DEF Next

(* Whatever the clock is set to, a call that says no has read a stamp that *)
(* is not in the future and not older than the interval: nobody is locked  *)
(* out (should_check).                                                     *)
THEOREM NobodyLockedOut == Spec => NotLockedOut
<1>. USE SecondAssumption, IntervalAssumption, StampAssumption
<1>1. ASSUME IInv, Next, NEW p \in Procs, answer[p] # "not due", answer'[p] = "not due"
      PROVE  /\ seen[p] \in Nat
             /\ seen[p] * Second <= clock
             /\ clock < seen[p] * Second + Interval
  <2>. DEFINE n == seen[p]  k == Interval \div Second
  <2>0. TypeOK /\ clock \in Nat
    BY <1>1 DEF IInv, TypeOK
  <2>1. ~Due(n)
    BY <1>1, <2>0, OnlyCompareDecides
  <2>2. n \in Nat
    BY <2>0, <2>1, <1>1 DEF Due, TypeOK, Stamps
  <2>3. Now \in Nat /\ Second * Now <= clock /\ clock < Second * Now + Second
    BY <2>0, Floor DEF Now
  <2>4. k \in Nat /\ Second * k <= Interval
    BY Floor
  <2>5. n <= Now /\ Now + 1 <= n + k
    BY <2>1, <2>2, <2>3, <2>4 DEF Due, IntervalSecs
  <2>6. Second * n <= Second * Now /\ Second * (Now + 1) <= Second * (n + k)
    BY <2>2, <2>3, <2>4, <2>5, Longer
  <2>7. Second * (Now + 1) = Second * Now + Second /\ Second * (n + k) = Second * n + Second * k
    BY <2>2, <2>3, <2>4, Together
  <2>8. Second * n \in Nat /\ Second * n = n * Second /\ Second * k \in Nat /\ Second * Now \in Nat
    BY <2>2, <2>3, <2>4
  <2>. HIDE DEF n, k
  <2>9. n * Second <= clock /\ clock < n * Second + Interval
    BY <2>0, <2>3, <2>4, <2>6, <2>7, <2>8
  <2>. QED
    BY <2>2, <2>9 DEF n
<1>2. IInv /\ [Next]_vars =>
        [\A p \in Procs :
           answer[p] # "not due" /\ answer'[p] = "not due" =>
             /\ seen[p] \in Nat
             /\ seen[p] * Second <= clock
             /\ clock < seen[p] * Second + Interval]_vars
  BY <1>1
<1>. QED
  BY <1>2, InductiveInvariant, PTL DEF Spec, NotLockedOut

(* A check is called due less than a second early, and what the interval   *)
(* has beyond whole seconds, measured from the tick at which the recorded  *)
(* time was taken (should_check cuts all three to seconds).                *)
THEOREM Throttled == Spec => ThrottledToASecond
<1>. USE SecondAssumption, IntervalAssumption, StampAssumption
<1>1. ASSUME IInv, Next, NEW p \in Procs, answer[p] # "due", answer'[p] = "due",
             seen[p] \in Nat, clock >= asked[p]
      PROVE  clock - asked[p] + Second + (Interval % Second) > Interval
  <2>. DEFINE n == seen[p]  a == asked[p]  k == Interval \div Second
  <2>0. TypeOK /\ Cuts /\ clock \in Nat /\ a \in Nat
    BY <1>1 DEF IInv, TypeOK
  <2>1. Compare(p) /\ Due(n)
    BY <1>1, <2>0, OnlyCompareDecides
  <2>2. n = a \div Second
    BY <1>1, <2>0, <2>1 DEF Compare, Cuts
  <2>3. n \in Nat /\ Second * n <= a /\ a < Second * n + Second
    BY <2>0, <2>2, Floor
  <2>4. Now \in Nat /\ Second * Now <= clock
    BY <2>0, Floor DEF Now
  <2>5. k \in Nat /\ Interval = Second * k + (Interval % Second) /\ Interval % Second \in Nat
    BY Floor
  <2>6. n <= Now
    BY <1>1, <2>0, <2>2, FloorMonotone DEF Now
  <2>7. n + k <= Now
    BY <2>1, <2>3, <2>4, <2>5, <2>6, <1>1 DEF Due, IntervalSecs
  <2>8. Second * (n + k) <= Second * Now
    BY <2>3, <2>4, <2>5, <2>7, Longer
  <2>9. Second * (n + k) = Second * n + Second * k
    BY <2>3, <2>5, Together
  <2>10. Second * n \in Nat /\ Second * k \in Nat /\ Second * Now \in Nat
    BY <2>3, <2>4, <2>5
  <2>. HIDE DEF n, a, k
  <2>11. clock - a + Second + (Interval % Second) > Interval
    BY <2>0, <2>3, <2>4, <2>5, <2>8, <2>9, <2>10
  <2>. QED
    BY <2>11 DEF a
<1>2. IInv /\ [Next]_vars =>
        [\A p \in Procs :
           answer[p] # "due" /\ answer'[p] = "due" /\ seen[p] \in Nat /\ clock >= asked[p] =>
             clock - asked[p] + Second + (Interval % Second) > Interval]_vars
  BY <1>1
<1>. QED
  BY <1>2, InductiveInvariant, PTL DEF Spec, ThrottledToASecond

=============================================================================
