-------------------------- MODULE MaintenanceProofs --------------------------
(***************************************************************************)
(* Proofs about Maintenance, for any length of the day, window, retry time *)
(* and clock: type correctness, and that the maintenance sync runs at most *)
(* once on a day. What is needed of the calendar are three facts about     *)
(* division by the length of the day.                                      *)
(***************************************************************************)
EXTENDS Maintenance, TLAPS

\* A time is the beginning of its day and the time of the day.
LEMMA Division ==
  ASSUME NEW t \in Nat
  PROVE  /\ t \div Day \in Nat /\ TimeOfDay(t) \in 0..(Day - 1)
         /\ t = Day * (t \div Day) + TimeOfDay(t)
  BY DayAssumption DEF TimeOfDay

\* Days begin one after the other.
LEMMA DaysGrow ==
  ASSUME NEW q \in Nat, NEW p \in Nat, q < p
  PROVE  Day * q + Day <= Day * p
<1>1. Day \in Nat /\ p - q - 1 \in Nat
  BY DayAssumption
<1>2. Day * (p - q - 1) >= 0
  BY <1>1
<1>3. Day * (p - q - 1) = Day * p - Day * q - Day
  BY <1>1
<1> QED
  BY <1>1, <1>2, <1>3

\* Time never goes back a day.
LEMMA DayMonotone ==
  ASSUME NEW s \in Nat, NEW t \in Nat, s <= t
  PROVE  s \div Day <= t \div Day
<1>1. /\ s \div Day \in Nat /\ TimeOfDay(s) \in 0..(Day - 1)
      /\ s = Day * (s \div Day) + TimeOfDay(s)
  BY Division
<1>2. /\ t \div Day \in Nat /\ TimeOfDay(t) \in 0..(Day - 1)
      /\ t = Day * (t \div Day) + TimeOfDay(t)
  BY Division
<1> DEFINE p == s \div Day
           q == t \div Day
<1>3. q \in Nat /\ p \in Nat
  BY <1>1, <1>2
<1>4. ASSUME q < p PROVE FALSE
  <2>1. Day * q + Day <= Day * p
    BY <1>3, <1>4, DaysGrow
  <2>2. Day * q \in Nat /\ Day * p \in Nat /\ Day \in Nat
    BY <1>3, DayAssumption
  <2> HIDE DEF p, q
  <2>3. s = Day * p + TimeOfDay(s) /\ t = Day * q + TimeOfDay(t)
    BY <1>1, <1>2 DEF p, q
  <2> QED
    BY <1>1, <1>2, <2>1, <2>2, <2>3
<1> HIDE DEF p, q
<1>5. p <= q
  BY <1>3, <1>4
<1> QED
  BY <1>5 DEF p, q

\* Past the end of today it is a later day.
LEMMA NextDay ==
  ASSUME NEW s \in Nat, NEW t \in Nat, s + (Day - TimeOfDay(s)) <= t
  PROVE  s \div Day < t \div Day
<1>1. /\ s \div Day \in Nat /\ TimeOfDay(s) \in 0..(Day - 1)
      /\ s = Day * (s \div Day) + TimeOfDay(s)
  BY Division
<1>2. /\ t \div Day \in Nat /\ TimeOfDay(t) \in 0..(Day - 1)
      /\ t = Day * (t \div Day) + TimeOfDay(t)
  BY Division
<1> DEFINE p == s \div Day
           q == t \div Day
<1>3. q \in Nat /\ p \in Nat /\ Day \in Nat
  BY <1>1, <1>2, DayAssumption
<1>4. s \div Day <= t \div Day
  BY <1>1, <1>3, DayMonotone, DayAssumption
<1> HIDE DEF p, q
<1>5. s = Day * p + TimeOfDay(s) /\ t = Day * q + TimeOfDay(t) /\ p <= q
  BY <1>1, <1>2, <1>4 DEF p, q
<1>6. ASSUME p = q PROVE FALSE
  <2>1. Day * p \in Nat
    BY <1>3
  <2>2. t = Day * p + TimeOfDay(t)
    BY <1>5, <1>6
  <2> QED
    BY <1>1, <1>2, <1>3, <1>5, <2>1, <2>2
<1>7. p < q
  BY <1>3, <1>5, <1>6
<1> QED
  BY <1>7 DEF p, q

------------------------------------------------------------------------------
(* Type correctness, in parts.                                              *)

ClockType == now \in 0..MaxNow /\ pc \in {"sync", "check", "plan", "wait"}
             /\ until \in 0..(MaxNow + 2 * Day)
LoopType == /\ at \in 1..Day /\ waitFlag \in BOOLEAN /\ docSync \in BOOLEAN
            /\ count \in 0..1
FailType == docFail \in BOOLEAN /\ expiry \in 0..(MaxNow + RetryAfter)
            /\ failures \in 0..MaxFailures
HistType == /\ lastDay \in -1..(MaxNow \div Day) /\ spurious \in BOOLEAN
            /\ planned \in BOOLEAN /\ forced \in 0..MaxForced

LEMMA Parts ==
  /\ TypeOK <=> ClockType /\ LoopType /\ FailType /\ HistType
  /\ ClockType' /\ LoopType' /\ FailType' /\ HistType' => TypeOK'
  BY DEF TypeOK, ClockType, LoopType, FailType, HistType

\* A time that is drawn is one of the day, the end of the day included.
LEMMA TimesType == Times \subseteq 1..Day
<1>1. First \in -Day + 1..Day - 1 /\ Last \in Int /\ Last <= Day - 1 /\ Day \in Nat
  BY DayAssumption DEF First, Last
<1>2. ASSUME NEW t \in First..Last PROVE (IF t <= 0 THEN t + Day ELSE t) \in 1..Day
  BY <1>1, <1>2
<1> QED
  BY <1>2 DEF Times

LEMMA LastDayType ==
  ASSUME now \in 0..MaxNow
  PROVE  now \div Day \in 0..(MaxNow \div Day)
<1>1. now \in Nat /\ MaxNow \in Nat /\ now <= MaxNow
  BY DayAssumption
<1>2. now \div Day <= MaxNow \div Day
  BY <1>1, DayMonotone
<1>3. now \div Day \in Nat /\ MaxNow \div Day \in Nat
  BY <1>1, Division
<1> QED
  BY <1>2, <1>3

\* The wait for the maintenance: it is over in two days, and if there was a maintenance
\* sync today, not today.
LEMMA MaintenanceWaitType ==
  ASSUME now \in Nat, at \in 1..Day, count \in 0..1
  PROVE  /\ MaintenanceWait \in 0..(2 * Day)
         /\ count = 1 => MaintenanceWait >= Day - TimeOfDay(now)
<1>1. TimeOfDay(now) \in 0..(Day - 1) /\ Day \in Nat
  BY Division, DayAssumption
<1> QED
  BY <1>1 DEF MaintenanceWait

\* The wait for a retry is over in a day.
LEMMA RetryWaitType ==
  ASSUME now \in Nat, NEW e \in Nat, e = 0 \/ e > now
  PROVE  RetryWait(e) \in 0..Day
<1> DEFINE diff == e - now
           timer == IF e # 0 /\ RetryAfter > diff THEN diff ELSE RetryAfter
           set == IF e # 0 /\ RetryAfter > diff THEN TimeOfDay(e) ELSE 0
           stamp == IF e # 0 /\ set = 0 THEN TimeOfDay(now + RetryAfter) ELSE set
           secs == stamp - TimeOfDay(now)
<1>1. RetryAfter \in Nat /\ RetryAfter < Day /\ Day \in Nat
  BY DayAssumption
<1>2. timer \in 0..Day
  BY <1>1
<1>3. /\ TimeOfDay(e) \in 0..(Day - 1) /\ TimeOfDay(now) \in 0..(Day - 1)
      /\ TimeOfDay(now + RetryAfter) \in 0..(Day - 1)
  <2>1. now + RetryAfter \in Nat
    BY <1>1
  <2> QED
    BY <2>1, Division
<1>4. stamp \in 0..(Day - 1)
  BY <1>1, <1>3
<1>5. (IF secs < 0 THEN 0 ELSE secs) \in 0..Day
  <2> HIDE DEF stamp
  <2> QED
    BY <1>1, <1>3, <1>4
<1>6. RetryWait(e) = IF stamp = 0 THEN timer ELSE IF secs < 0 THEN 0 ELSE secs
  BY DEF RetryWait
<1> QED
  BY <1>2, <1>5, <1>6

\* A round of retries leaves no document that is due.
LEMMA RetriedType ==
  ASSUME ClockType, FailType, NEW f \in BOOLEAN, Retried(f)
  PROVE  FailType' /\ (expiry' = 0 \/ expiry' > now) /\ (f => docFail')
<1>1. now \in Nat /\ now <= MaxNow /\ RetryAfter \in Nat /\ RetryAfter > 0 /\ MaxNow \in Nat
      /\ MaxFailures \in Nat
  BY DayAssumption DEF ClockType
<1>2. expiry' \in 0..(MaxNow + RetryAfter) /\ (expiry' = 0 \/ expiry' > now)
  BY <1>1 DEF Retried, FailType
<1>3. failures' \in 0..MaxFailures
  BY <1>1 DEF Retried, FailType
<1>4. docFail' \in BOOLEAN /\ (f => docFail')
  BY Zenon DEF Retried, FailType
<1> QED
  BY <1>2, <1>3, <1>4 DEF FailType

LEMMA InitType == Init => TypeOK
<1> SUFFICES ASSUME Init PROVE TypeOK
  OBVIOUS
<1>1. ClockType
  BY DayAssumption DEF Init, ClockType
<1>2. LoopType
  <2>1. at \in 1..Day /\ count \in 0..1
    BY TimesType DEF Init
  <2>2. waitFlag \in BOOLEAN /\ docSync \in BOOLEAN
    BY DEF Init
  <2> QED
    BY <2>1, <2>2 DEF LoopType
<1>3. 0 \in 0..(MaxNow + RetryAfter) /\ 0 \in 0..MaxFailures /\ 0 \in 0..MaxForced
  BY DayAssumption
<1>4. FailType
  BY <1>3 DEF Init, FailType
<1>5. -1 \in -1..(MaxNow \div Day)
  <2>1. MaxNow \div Day \in Nat
    BY Division, DayAssumption
  <2> QED
    BY <2>1
<1>6. HistType
  BY <1>3, <1>5 DEF Init, HistType
<1> QED
  BY <1>1, <1>2, <1>4, <1>6, Parts

LEMMA NextType == TypeOK /\ [Next]_vars => TypeOK'
<1> SUFFICES ASSUME TypeOK, [Next]_vars PROVE TypeOK'
  OBVIOUS
<1>0. ClockType /\ LoopType /\ FailType /\ HistType /\ now \in Nat /\ Day \in Nat
  BY Parts, DayAssumption DEF ClockType
<1>1. CASE Tick
  <2>1. now' \in 0..MaxNow
    BY <1>0, <1>1, DayAssumption DEF Tick, ClockType
  <2> QED
    BY <1>0, <1>1, <2>1, Parts
    DEF Tick, ClockType, LoopType, FailType, HistType, loopVars, failVars, histVars
<1>2. CASE Sync \/ NotDue \/ Woken
  BY <1>0, <1>2, Parts
  DEF Sync, NotDue, Woken, ClockType, LoopType, FailType, HistType, loopVars, failVars,
      histVars
<1>3. CASE Maintain
  <2>1. at' \in 1..Day
    BY <1>3, TimesType DEF Maintain
  <2>2. lastDay' \in -1..(MaxNow \div Day)
    <3>1. now \div Day \in 0..(MaxNow \div Day) /\ MaxNow \div Day \in Nat
      BY <1>0, LastDayType, Division, DayAssumption DEF ClockType
    <3> QED
      BY <1>3, <3>1 DEF Maintain
  <2>3. LoopType'
    <3>1. docSync' \in BOOLEAN /\ waitFlag' \in BOOLEAN
      BY <1>0, <1>3, Zenon DEF Maintain, LoopType
    <3>2. count' \in 0..1
      BY <1>3 DEF Maintain
    <3> QED
      BY <2>1, <3>1, <3>2 DEF LoopType
  <2>4. HistType'
    <3>1. spurious' = FALSE /\ planned' = planned /\ forced' = forced
      BY <1>3 DEF Maintain
    <3> QED
      BY <1>0, <2>2, <3>1 DEF HistType
  <2> QED
    BY <1>0, <1>3, <2>3, <2>4, Parts DEF Maintain, ClockType, FailType, failVars
<1>4. CASE Plan
  <2>1. FailType'
    <3>1. CASE docFail
      BY <1>0, <1>4, <3>1, RetriedType DEF Plan
    <3>2. CASE ~docFail
      BY <1>0, <1>4, <3>2 DEF Plan, FailType, failVars
    <3> QED
      BY <3>1, <3>2
  <2>2. until' \in 0..(MaxNow + 2 * Day)
    <3>1. CASE docFail
      <4>1. Retried(TRUE) /\ until' = now + RetryWait(expiry')
        BY <1>4, <3>1 DEF Plan
      <4>2. expiry' \in Nat /\ (expiry' = 0 \/ expiry' > now)
        <5>1. FailType' /\ (expiry' = 0 \/ expiry' > now)
          BY <1>0, <4>1, RetriedType
        <5> QED
          BY <5>1, DayAssumption DEF FailType
      <4>3. RetryWait(expiry') \in 0..Day
        BY <1>0, <4>2, RetryWaitType
      <4> QED
        BY <1>0, <4>1, <4>3, DayAssumption DEF ClockType
    <3>2. CASE ~docFail
      <4>1. until' = now + MaintenanceWait
        BY <1>4, <3>2 DEF Plan
      <4>2. MaintenanceWait \in 0..(2 * Day)
        BY <1>0, MaintenanceWaitType DEF LoopType
      <4> QED
        BY <1>0, <4>1, <4>2, DayAssumption DEF ClockType
    <3> QED
      BY <3>1, <3>2
  <2>3. ClockType'
    BY <1>0, <1>4, <2>2 DEF Plan, ClockType
  <2>4. LoopType'
    <3>1. docSync' \in BOOLEAN /\ waitFlag' \in BOOLEAN
      BY <1>0, <1>4, Zenon DEF Plan, LoopType
    <3> QED
      BY <1>0, <1>4, <3>1 DEF Plan, LoopType
  <2>5. planned' \in BOOLEAN
    BY <1>4, Zenon DEF Plan
  <2>6. HistType'
    BY <1>0, <1>4, <2>5 DEF Plan, HistType, histVars
  <2> QED
    BY <2>1, <2>3, <2>4, <2>6, Parts
<1>5. CASE TimesOut
  <2>1. FailType'
    <3>1. CASE docFail
      BY <1>0, <1>5, <3>1, RetriedType DEF TimesOut
    <3>2. CASE ~docFail
      BY <1>0, <1>5, <3>2 DEF TimesOut, FailType, failVars
    <3> QED
      BY <3>1, <3>2
  <2>2. LoopType'
    <3>1. docSync' \in BOOLEAN /\ waitFlag' \in BOOLEAN
      BY <1>0, <1>5, Zenon DEF TimesOut, LoopType
    <3>2. count' \in {0, count} /\ at' = at
      BY <1>5 DEF TimesOut
    <3>3. count \in 0..1 /\ at \in 1..Day
      BY <1>0 DEF LoopType
    <3> QED
      BY <3>1, <3>2, <3>3 DEF LoopType
  <2> QED
    BY <1>0, <1>5, <2>1, <2>2, Parts DEF TimesOut, ClockType, HistType, histVars
<1>6. CASE Signalled
  <2>1. forced' \in 0..MaxForced
    BY <1>0, <1>6, DayAssumption DEF Signalled, HistType
  <2> QED
    BY <1>0, <1>6, <2>1, Parts
    DEF Signalled, ClockType, LoopType, FailType, HistType, failVars, histVars
<1>7. CASE DocFails
  <2>1. failures' \in 0..MaxFailures /\ expiry' \in 0..(MaxNow + RetryAfter)
    BY <1>0, <1>7, DayAssumption DEF DocFails, FailType, ClockType
  <2> QED
    BY <1>0, <1>7, <2>1, Parts
    DEF DocFails, ClockType, LoopType, FailType, HistType, loopVars, histVars
<1>8. CASE UNCHANGED vars
  BY <1>0, <1>8, Parts
  DEF vars, ClockType, LoopType, FailType, HistType, loopVars, failVars, histVars
<1> QED
  BY <1>1, <1>2, <1>3, <1>4, <1>5, <1>6, <1>7, <1>8 DEF Next, Loop

\* Each variable has its type in every state, for any day and any window: a time drawn is
\* one of the day, and no wait is longer than two days.
THEOREM TypeCorrect == Spec => []TypeOK
  BY InitType, NextType, PTL DEF Spec

------------------------------------------------------------------------------
(* Once a day. "Later" is a day after that of the last maintenance sync.   *)
(* The count is 1 until it is later; a wait with the count, or after which *)
(* the maintenance may begin, is over only then; and while the maintenance *)
(* may begin it is later, unless a wait has returned for no reason.        *)

Later(t) == t \div Day > lastDay
Once ==
  /\ lastDay <= now \div Day
  /\ pc = "sync" => waitFlag
  /\ ~spurious =>
       /\ count = 1 \/ Later(now)
       /\ pc \in {"check", "plan"} /\ ~waitFlag /\ docSync => Later(now)
       /\ pc = "wait" /\ ((~waitFlag /\ docSync) \/ ~docFail) => Later(now) \/ Later(until)

LEMMA InitOnce == Init => Once
<1> SUFFICES ASSUME Init PROVE Once
  OBVIOUS
<1>1. now \in Nat /\ lastDay = -1 /\ pc = "sync" /\ waitFlag = TRUE
  BY DayAssumption DEF Init
<1>2. now \div Day \in Nat
  BY <1>1, Division
<1> QED
  BY <1>1, <1>2 DEF Once, Later

LEMMA NextOnce == TypeOK /\ Once /\ [Next]_vars => Once'
<1> SUFFICES ASSUME TypeOK, Once, [Next]_vars PROVE Once'
  OBVIOUS
<1>0. /\ ClockType /\ LoopType /\ FailType /\ HistType
      /\ now \in Nat /\ until \in Nat /\ Day \in Nat /\ lastDay \in Int
      /\ now \div Day \in Nat /\ until \div Day \in Nat
  <2>1. now \in Nat /\ until \in Nat /\ Day \in Nat /\ MaxNow \div Day \in Nat
    BY Parts, DayAssumption, Division DEF ClockType
  <2>2. ClockType /\ LoopType /\ FailType /\ HistType
    BY Parts
  <2>3. lastDay \in -1..(MaxNow \div Day)
    BY <2>2 DEF HistType
  <2>4. lastDay \in Int
    BY <2>1, <2>3
  <2> QED
    BY <2>1, <2>2, <2>4, Division
<1>1. CASE Tick
  <2>1. now' = now + 1 /\ UNCHANGED <<pc, loopVars, until, failVars, planned, histVars>>
    BY <1>1 DEF Tick
  <2>2. now' \div Day \in Nat /\ now \div Day <= now' \div Day
    BY <1>0, <2>1, DayMonotone, Division
  <2> HIDE DEF Later
  <2>3. Later(now) => Later(now)'
    BY <1>0, <2>1, <2>2 DEF Later, histVars
  <2>4. Later(until) => Later(until)'
    BY <2>1 DEF Later, histVars
  <2>5. lastDay' <= now' \div Day
    BY <1>0, <2>1, <2>2 DEF Once, histVars
  <2> QED
    BY <2>1, <2>3, <2>4, <2>5 DEF Once, loopVars, failVars, histVars
<1>2. CASE Sync \/ NotDue \/ Signalled \/ Woken \/ DocFails
  <2>1. Later(now)' = Later(now) /\ Later(until)' = Later(until)
        /\ lastDay' <= now' \div Day /\ (~spurious' => ~spurious)
    BY <1>2 DEF Sync, NotDue, Signalled, Woken, DocFails, histVars, Later, Once
  <2> QED
    BY <1>2, <2>1
    DEF Once, Sync, NotDue, Signalled, Woken, DocFails, loopVars, failVars, histVars
<1>3. CASE Maintain
  BY <1>0, <1>3 DEF Maintain, Once
<1>4. CASE Plan
  <2>1. UNCHANGED <<now, lastDay, spurious, waitFlag, count>> /\ pc = "plan" /\ pc' = "wait"
        /\ Later(now)' = Later(now)
    BY <1>4 DEF Plan, histVars, Later
  <2>2. CASE docFail
    <3>1. docFail' /\ docSync' = docSync
      BY <1>0, <1>4, <2>2, RetriedType DEF Plan
    <3> QED
      BY <2>1, <3>1 DEF Once
  <2>3. CASE ~docFail
    <3>1. until' = now + MaintenanceWait
      BY <1>4, <2>3 DEF Plan
    <3>2. /\ MaintenanceWait \in 0..(2 * Day)
          /\ count = 1 => MaintenanceWait >= Day - TimeOfDay(now)
      BY <1>0, MaintenanceWaitType DEF LoopType
    <3>3. count = 1 => Later(until)'
      <4> SUFFICES ASSUME count = 1 PROVE Later(until)'
        OBVIOUS
      <4>1. until' \in Nat /\ now + (Day - TimeOfDay(now)) <= until'
        BY <1>0, <3>1, <3>2, Division
      <4>2. now \div Day < until' \div Day /\ until' \div Day \in Nat
        BY <1>0, <4>1, NextDay, Division
      <4> QED
        BY <1>0, <2>1, <4>2 DEF Later, Once
    <3> QED
      BY <2>1, <3>3 DEF Once
  <2> QED
    BY <2>2, <2>3
<1>5. CASE TimesOut
  <2>1. UNCHANGED <<now, until, lastDay, spurious, docSync>> /\ pc = "wait" /\ pc' = "check"
        /\ now >= until /\ Later(now)' = Later(now)
    BY <1>5 DEF TimesOut, histVars, Later
  <2>2. Later(until) => Later(now)
    <3>1. until \div Day <= now \div Day
      BY <1>0, <2>1, DayMonotone
    <3> QED
      BY <1>0, <3>1 DEF Later
  <2>3. CASE docFail
    <3>1. waitFlag' = waitFlag /\ count' = count
      BY <1>5, <2>3 DEF TimesOut
    <3> QED
      BY <2>1, <2>2, <3>1 DEF Once
  <2>4. CASE ~docFail
    BY <2>1, <2>2, <2>4 DEF Once
  <2> QED
    BY <2>3, <2>4
<1>6. CASE UNCHANGED vars
  BY <1>6 DEF vars, Once, Later, loopVars, failVars, histVars
<1> QED
  BY <1>1, <1>2, <1>3, <1>4, <1>5, <1>6 DEF Next, Loop

\* Two maintenance syncs are never on the same day unless a wait has returned for no
\* reason (OncePerDay), for any window, retry time, and force syncs in between.
THEOREM OncePerDayCorrect == Spec => OncePerDay
<1> DEFINE A == lastDay' # lastDay \/ (pc = "check" /\ Due /\ pc' = "plan") =>
                  now \div Day # lastDay \/ spurious
<1>1. TypeOK /\ Once /\ [Next]_vars => [A]_vars
  <2> SUFFICES ASSUME TypeOK, Once, [Next]_vars PROVE A \/ UNCHANGED vars
    OBVIOUS
  <2>1. lastDay' # lastDay => pc = "check" /\ Due
    BY DEF Next, Loop, Tick, Sync, Maintain, NotDue, Plan, TimesOut, Signalled, Woken,
       DocFails, histVars, vars
  <2>2. now \div Day \in Nat /\ lastDay \in Int
    <3>1. now \in Nat /\ MaxNow \div Day \in Nat /\ lastDay \in -1..(MaxNow \div Day)
      BY Parts, Division, DayAssumption DEF ClockType, HistType
    <3> QED
      BY <3>1, Division
  <2>3. ~spurious /\ pc = "check" /\ Due => now \div Day # lastDay
    BY <2>2 DEF Once, Due, Later
  <2> QED
    BY <2>1, <2>3
<1> QED
  BY <1>1, TypeCorrect, InitOnce, NextOnce, PTL DEF Spec, OncePerDay

=============================================================================
