---------------------------- MODULE Maintenance ------------------------------
(***************************************************************************)
(* When the main thread wakes: the daily maintenance sync at a random time *)
(* of a window, and the retry of documents that a component could not take *)
(* (webcfg_timer.c, and the second half of the loop of webcfg.c). Times    *)
(* are seconds; a time of the day is counted from midnight, and the clock  *)
(* is that of the zone for which localtime works. What the syncs do is the *)
(* subject of ForceSync and SubdocApply.                                   *)
(***************************************************************************)
EXTENDS Integers

CONSTANTS
  Day,         \* seconds of a day; 86400
  RetryAfter,  \* MAX_RETRY_TIMEOUT; 900
  Start, End,  \* the firmware upgrade window, as configured
  DefaultStart, DefaultEnd,  \* MIN_ and MAX_MAINTENANCE_TIME
  MaxNow,      \* bound: the clock
  MaxForced,   \* bound: force syncs
  MaxFailures  \* bound: failures of a document

ASSUME DayAssumption ==
  /\ Day \in Nat /\ RetryAfter \in 1..(Day - 1)
  /\ Start \in 0..(Day - 1) /\ End \in 0..(Day - 1)
  /\ DefaultStart \in 1..(Day - 1) /\ DefaultEnd \in DefaultStart..(Day - 1)
  /\ MaxNow \in Nat /\ Day <= MaxNow /\ MaxForced \in Nat /\ MaxFailures \in Nat

\* initMaintenanceTimer. A window over midnight begins the day before.
First == IF Start = End THEN DefaultStart ELSE IF Start > End THEN Start - Day ELSE Start
Last  == IF Start = End THEN DefaultEnd ELSE End

\* Mutant: a time before midnight is left negative.
TimesRaw == First..Last

Times == {IF t <= 0 THEN t + Day ELSE t : t \in First..Last}

VARIABLES
  now,         \* the clock
  pc,          \* where the loop is: "sync", "check", "plan", or "wait"
  at,          \* g_maintenance_time
  waitFlag,    \* wait_flag
  docSync,     \* maintenance_doc_sync
  count,       \* maintenance_count
  until,       \* ts: when the wait times out
  docFail,     \* doc_fail
  expiry,      \* retry_timestamp of the document that has failed, 0 if there is none
  planned,     \* history: the wait is for the retry of a document
  lastDay,     \* history: day of the last maintenance sync, -1 before the first
  spurious,    \* history: since it, a wait has returned for no reason
  forced, failures

loopVars == <<at, waitFlag, docSync, count>>
failVars == <<docFail, expiry, failures>>
histVars == <<lastDay, spurious>>
vars == <<now, pc, loopVars, until, failVars, planned, histVars, forced>>

TimeOfDay(t) == t % Day

Init ==
  /\ now \in 0..(Day - 1)
  /\ pc = "sync" /\ at \in Times
  /\ waitFlag = TRUE /\ docSync = FALSE /\ count = 0
  /\ until = 0 /\ docFail = FALSE /\ expiry = 0
  /\ planned = FALSE /\ lastDay = -1 /\ spurious = FALSE /\ forced = 0 /\ failures = 0

------------------------------------------------------------------------------

Tick ==
  /\ now < MaxNow /\ now' = now + 1
  /\ UNCHANGED <<pc, loopVars, until, failVars, planned, histVars, forced>>

\* The boot sync, or a forced one.
Sync ==
  /\ pc = "sync" /\ pc' = "check"
  /\ UNCHANGED <<now, loopVars, until, failVars, planned, histVars, forced>>

\* checkMaintenanceTimer.
Due == ~waitFlag /\ docSync /\ TimeOfDay(now) >= at

\* Mutant: the day's sync is not counted.
MaintainUncounted ==
  /\ pc = "check" /\ Due /\ pc' = "plan"
  /\ at' \in Times /\ docSync' = FALSE /\ count' = 0
  /\ lastDay' = now \div Day /\ spurious' = FALSE
  /\ UNCHANGED <<now, waitFlag, until, failVars, planned, forced>>

\* The maintenance sync, and the next random time.
Maintain ==
  /\ pc = "check" /\ Due /\ pc' = "plan"
  /\ at' \in Times /\ docSync' = FALSE /\ count' = 1
  /\ lastDay' = now \div Day /\ spurious' = FALSE
  /\ UNCHANGED <<now, waitFlag, until, failVars, planned, forced>>

NotDue ==
  /\ pc = "check" /\ ~Due /\ pc' = "plan"
  /\ UNCHANGED <<now, loopVars, until, failVars, planned, histVars, forced>>

\* getMaintenanceSyncSeconds: today, or tomorrow when that is over or has been done.
MaintenanceWait ==
  LET secs == at - TimeOfDay(now)
  IN IF secs < 0 \/ count = 1 THEN Day - TimeOfDay(now) + at ELSE secs

\* updateRetryTimeDiff, then retrySyncSeconds, for a document that fails or is not due
\* yet (0: there is none): the timer is set by the time left, and then again by the
\* times of the day. A time of the day of 0 counts as not set.
RetryWait(e) ==
  LET diff  == e - now
      timer == IF e # 0 /\ RetryAfter > diff THEN diff ELSE RetryAfter
      set   == IF e # 0 /\ RetryAfter > diff THEN TimeOfDay(e) ELSE 0
      stamp == IF e # 0 /\ set = 0 THEN TimeOfDay(now + RetryAfter) ELSE set
      secs  == stamp - TimeOfDay(now)
  IN IF stamp = 0 THEN timer ELSE IF secs < 0 THEN 0 ELSE secs

\* failedDocsRetry: a document that is due is retried and done, or fails again; one
\* that is not due asks for another round.
Retried(fail) ==
  IF expiry # 0 /\ now >= expiry
  THEN \/ expiry' = 0 /\ docFail' = fail /\ UNCHANGED failures
       \/ /\ failures < MaxFailures /\ failures' = failures + 1
          /\ expiry' = now + RetryAfter /\ docFail' = TRUE
  ELSE docFail' = (fail \/ expiry # 0) /\ UNCHANGED <<expiry, failures>>

Plan ==
  /\ pc = "plan" /\ pc' = "wait"
  /\ IF docFail
     THEN /\ Retried(TRUE)
          /\ until' = now + RetryWait(expiry') /\ planned' = (expiry' # 0)
          /\ UNCHANGED docSync
     ELSE /\ until' = now + MaintenanceWait /\ planned' = FALSE
          /\ docSync' = TRUE
          /\ UNCHANGED failVars
  /\ UNCHANGED <<now, at, waitFlag, count, histVars, forced>>

\* The wait times out: a retry if a document has failed, else the maintenance may begin.
TimesOut ==
  /\ pc = "wait" /\ now >= until /\ pc' = "check"
  /\ IF docFail
     THEN Retried(FALSE) /\ UNCHANGED <<waitFlag, count>>
     ELSE waitFlag' = FALSE /\ count' = 0 /\ UNCHANGED failVars
  /\ UNCHANGED <<now, at, docSync, until, planned, histVars, forced>>

\* A force sync.
Signalled ==
  /\ pc = "wait" /\ forced < MaxForced /\ forced' = forced + 1
  /\ pc' = "sync" /\ waitFlag' = TRUE
  /\ UNCHANGED <<now, at, docSync, count, until, failVars, planned, histVars>>

\* pthread_cond_timedwait may return without a signal: there is no document, and
\* nothing changes.
Woken ==
  /\ pc = "wait" /\ pc' = "check" /\ spurious' = TRUE
  /\ UNCHANGED <<now, loopVars, until, failVars, planned, lastDay, forced>>

\* A component crashes while it is sent the document: in a sync, or in a retry of the
\* event thread, which does not wake the main thread.
DocFails ==
  /\ failures < MaxFailures /\ failures' = failures + 1 /\ expiry = 0
  /\ expiry' = now + RetryAfter /\ docFail' = TRUE
  /\ UNCHANGED <<now, pc, loopVars, until, planned, histVars, forced>>

Loop == Sync \/ Maintain \/ NotDue \/ Plan \/ TimesOut
Next == Tick \/ Loop \/ Signalled \/ Woken \/ DocFails

Spec == Init /\ [][Next]_vars

\* Time passes and the main thread runs.
FairSpec == Spec /\ WF_vars(Loop) /\ WF_vars(Tick)

------------------------------------------------------------------------------
(* Properties.                                                              *)

TypeOK ==
  /\ now \in 0..MaxNow /\ pc \in {"sync", "check", "plan", "wait"}
  /\ at \in 1..Day /\ waitFlag \in BOOLEAN /\ docSync \in BOOLEAN /\ count \in 0..1
  /\ until \in 0..(MaxNow + 2 * Day)
  /\ docFail \in BOOLEAN /\ expiry \in 0..(MaxNow + RetryAfter)
  /\ planned \in BOOLEAN /\ lastDay \in -1..(MaxNow \div Day) /\ spurious \in BOOLEAN
  /\ forced \in 0..MaxForced /\ failures \in 0..MaxFailures

\* "Maintenance count to restrict one sync per day" (webcfg.c:252): two maintenance
\* syncs are never on the same day, whatever force syncs and retries come in between,
\* unless a wait has returned for no reason.
OncePerDay ==
  [][lastDay' # lastDay \/ (pc = "check" /\ Due /\ pc' = "plan") =>
       now \div Day # lastDay \/ spurious]_vars

\* "To get the exact time diff for retry from present time" (webcfg_multipart.c:2600):
\* the main thread waits until the document is due. Refuted by the run v_retry: over midnight
\* the wait is 0, and the loop does not sleep until then.
RetryExact == [][pc = "plan" /\ planned' => until' = expiry']_vars

\* "To set a time in next day" (webcfg_timer.c:156): the clock of some day reaches the
\* time drawn. Refuted when the window has midnight: 0 is made the end of the day,
\* which no time of the day reaches, and the maintenance sync of that draw never comes.
TimesReached == at < Day
=============================================================================
