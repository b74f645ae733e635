----------------------------- MODULE CheckGuard -----------------------------
(***************************************************************************)
(* UpdateCheckGuard (src/check_interval.rs): processes that share a stamp  *)
(* file with the time of the last update check, so that a program that     *)
(* runs often asks its server rarely.                                      *)
(*                                                                         *)
(* The clock counts ticks, Second of them to a second, and can be set to   *)
(* any value; the code sees whole seconds.  One action is one system call, *)
(* and a process may be killed before any of them.                         *)
(***************************************************************************)
EXTENDS Integers

CONSTANTS
  Procs,
  Second,      \* ticks of a second
  Interval,    \* the guard's interval, in ticks
  Horizon,     \* bound: the last tick the clock can show
  Resets,      \* bound: how often the clock is set
  Missing,     \* no stamp file
  Corrupt      \* a stamp file whose contents do not parse

ASSUME SecondAssumption == Second \in Nat \ {0}
ASSUME IntervalAssumption == Interval \in Nat
ASSUME BoundsAssumption == Horizon \in Nat /\ Resets \in Nat
ASSUME StampAssumption == {Missing, Corrupt} \intersect Nat = {} /\ Missing # Corrupt

VARIABLES
  clock,      \* the system time, in ticks
  resets,     \* how often the clock has been set
  directory,  \* the directory of the stamp exists
  stamp,      \* the contents of the stamp file, in seconds
  pc,         \* pc[p]: where p is in should_check or record_check
  seen,       \* seen[p]: the stamp that should_check read
  secs,       \* secs[p]: the time that record_check took
  answer,     \* answer[p]: what the last call returned
  taken,      \* history: the tick at which the time in the stamp was taken
  asked       \* history: asked[p]: taken when should_check read the stamp, or the
              \* tick at which record_check took the time

vars == <<clock, resets, directory, stamp, pc, seen, secs, answer, taken, asked>>

world == <<clock, resets, directory>>

Now == clock \div Second

IntervalSecs == Interval \div Second

(* A stamp that was there before anyone recorded a check: another machine  *)
(* or an older clock wrote it.                                             *)
Inherited == {Missing, Corrupt} \union 0..(Horizon \div Second)

Init ==
  /\ clock \in 0..Horizon
  /\ resets = 0
  /\ directory \in BOOLEAN
  /\ stamp \in IF directory THEN Inherited ELSE {Missing}
  /\ pc = [p \in Procs |-> "idle"]
  /\ seen = [p \in Procs |-> Missing]
  /\ secs = [p \in Procs |-> 0]
  /\ answer = [p \in Procs |-> "none"]
  /\ taken = IF stamp \in Nat THEN stamp * Second ELSE 0
  /\ asked = [p \in Procs |-> 0]

Tick ==
  /\ clock < Horizon
  /\ clock' = clock + 1
  /\ UNCHANGED <<resets, directory, stamp, pc, seen, secs, answer, taken, asked>>

SetClock ==
  /\ resets < Resets
  /\ resets' = resets + 1
  /\ clock' \in 0..Horizon
  /\ UNCHANGED <<directory, stamp, pc, seen, secs, answer, taken, asked>>

(* The call returns a, or its process is gone.                             *)
Answer(p, a) ==
  /\ pc' = [pc EXCEPT ![p] = "idle"]
  /\ answer' = [answer EXCEPT ![p] = a]
  /\ seen' = [seen EXCEPT ![p] = Missing]
  /\ secs' = [secs EXCEPT ![p] = 0]
  /\ asked' = [asked EXCEPT ![p] = 0]

(* should_check reads the stamp ..                                         *)
ReadStamp(p) ==
  /\ pc[p] = "idle"
  /\ pc' = [pc EXCEPT ![p] = "read"]
  /\ seen' = [seen EXCEPT ![p] = stamp]
  /\ asked' = [asked EXCEPT ![p] = taken]
  /\ answer' = [answer EXCEPT ![p] = "none"]
  /\ UNCHANGED <<world, stamp, secs, taken>>

ReadFails(p) ==
  /\ pc[p] = "read"
  /\ Answer(p, "err")
  /\ UNCHANGED <<world, stamp, taken>>

(* Mutants of Due: a stamp in the future is believed; the last second of   *)
(* the interval is not waited for.                                         *)
DueNotInFuture(last) ==
  \/ last \in {Missing, Corrupt}
  \/ Now >= last /\ Now - last >= IntervalSecs
DueOneEarly(last) ==
  \/ last \in {Missing, Corrupt}
  \/ Now < last
  \/ Now - last + 1 >= IntervalSecs

Due(last) ==
  \/ last \in {Missing, Corrupt}
  \/ Now < last
  \/ Now - last >= IntervalSecs

(* .. and compares it with the time.                                       *)
Compare(p) ==
  /\ pc[p] = "read"
  /\ Answer(p, IF Due(seen[p]) THEN "due" ELSE "not due")
  /\ UNCHANGED <<world, stamp, taken>>

(* record_check takes the time, ..                                         *)
TakeTime(p) ==
  /\ pc[p] = "idle"
  /\ pc' = [pc EXCEPT ![p] = "create"]
  /\ secs' = [secs EXCEPT ![p] = Now]
  /\ asked' = [asked EXCEPT ![p] = clock]
  /\ answer' = [answer EXCEPT ![p] = "none"]
  /\ UNCHANGED <<world, stamp, seen, taken>>

(* Mutant of Create: the stamp itself is created.                          *)
CreateInPlace(p) ==
  /\ pc[p] = "create"
  /\ directory
  /\ stamp' = Corrupt
  /\ pc' = [pc EXCEPT ![p] = "persist"]
  /\ UNCHANGED <<world, answer, seen, secs, asked, taken>>

(* .. creates a temporary file of its own beside the stamp and writes it.  *)
Create(p) ==
  /\ pc[p] = "create"
  /\ IF directory
       THEN pc' = [pc EXCEPT ![p] = "persist"] /\ UNCHANGED <<answer, seen, secs, asked>>
       ELSE Answer(p, "no directory")
  /\ UNCHANGED <<world, stamp, taken>>

(* .. and renames it onto the stamp.                                       *)
Persist(p) ==
  /\ pc[p] = "persist"
  /\ stamp' = secs[p]
  /\ taken' = asked[p]
  /\ Answer(p, "recorded")
  /\ UNCHANGED world

(* A file that cannot be created, written or renamed.                      *)
RecordFails(p) ==
  /\ pc[p] \in {"create", "persist"}
  /\ Answer(p, "err")
  /\ UNCHANGED <<world, stamp, taken>>

(* The process is killed, and started again.                               *)
Crash(p) ==
  /\ pc[p] # "idle"
  /\ Answer(p, "none")
  /\ UNCHANGED <<world, stamp, taken>>

Next ==
  \/ Tick \/ SetClock
  \/ \E p \in Procs :
       \/ ReadStamp(p) \/ ReadFails(p) \/ Compare(p)
       \/ TakeTime(p) \/ Create(p) \/ Persist(p) \/ RecordFails(p)
       \/ Crash(p)

Spec == Init /\ [][Next]_vars

-----------------------------------------------------------------------------
Stamps == {Missing, Corrupt} \union Nat

TypeOK ==
  /\ clock \in Nat
  /\ resets \in 0..Resets
  /\ directory \in BOOLEAN
  /\ stamp \in Stamps
  /\ pc \in [Procs -> {"idle", "read", "create", "persist"}]
  /\ seen \in [Procs -> Stamps]
  /\ secs \in [Procs -> Nat]
  /\ answer \in [Procs -> {"none", "err", "no directory", "due", "not due", "recorded"}]
  /\ taken \in Nat
  /\ asked \in [Procs -> Nat]

(* Once a check has been recorded, whoever reads the stamp finds a time    *)
(* that somebody recorded: not a part of one, nor an empty file, however   *)
(* many record at once and wherever they are killed.                       *)
StampStaysWhole == [][(stamp \in Nat) => (stamp' \in Nat)]_vars

(* Nobody is locked out: whatever the clock has been set to, a call says   *)
(* that no check is due only when the stamp it read is not in the future   *)
(* and less than the interval old, so that the clock need only run on for  *)
(* the interval.                                                           *)
NotLockedOut ==
  [][\A p \in Procs :
       answer[p] # "not due" /\ answer'[p] = "not due" =>
         /\ seen[p] \in Nat
         /\ seen[p] * Second <= clock
         /\ clock < seen[p] * Second + Interval]_vars

(* A check is due at most a second too early, when the interval is a whole *)
(* number of seconds: less than that before the interval is over, measured *)
(* from when the recorded time was taken.                                  *)
ThrottledToASecond ==
  [][\A p \in Procs :
       answer[p] # "due" /\ answer'[p] = "due" /\ seen[p] \in Nat /\ clock >= asked[p] =>
         clock - asked[p] + Second + (Interval % Second) > Interval]_vars
=============================================================================
