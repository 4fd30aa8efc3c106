------------------------------ MODULE ForceSync ------------------------------
(***************************************************************************)
(* Which syncs run, and when: the main loop of webconfig                   *)
(* (WebConfigMultipartTask, webcfg.c), the requests for a sync that reach  *)
(* it over rbus (set_rbus_ForceSync, webcfg_rbus.c), and its start and end *)
(* (set_rbus_RfcEnable).                                                   *)
(*                                                                         *)
(*   main   the main loop: boot sync, forced syncs, maintenance window,    *)
(*          a timed wait on sync_condition;                                *)
(*   rbus   the set handlers: a poke from the cloud, a force reset that    *)
(*          ends in a poke of its own, the RFC switch;                     *)
(*   wan    the event handler that pokes when the WAN comes back.          *)
(*                                                                         *)
(* The two callers write the request into one static buffer (ForceSync),   *)
(* which the main loop clears after each forced sync, all without a lock.  *)
(* A request is therefore cut wherever another thread can come between.    *)
(* sync_mutex is held by the main loop in the places named Holding; a      *)
(* caller holds it only within one step.                                   *)
(*                                                                         *)
(* The build modelled has WEBCONFIG_BIN_SUPPORT and the maintenance        *)
(* window, and not FEATURE_SUPPORT_MQTTCM. What a sync does is the subject *)
(* of SubdocApply. Left out: memory exhaustion; payloads that are refused  *)
(* before they are queued; the moment at which a timed wait ends, which is *)
(* any moment here.                                                        *)
(***************************************************************************)
EXTENDS Integers, Sequences

CONSTANTS
  Docs,          \* names that a poke may carry; "root" stands for all primary
  SuppDocs,      \* the names of supplementary documents
  Sources,       \* threads that may ask for a sync: "rbus", "wan"
  StoreResults,  \* whether writing RfcEnable to the PSM database succeeds
  MaxRequests,   \* bound: requests
  MaxToggles     \* bound: changes of RfcEnable

ASSUME NamesAssumption ==
  /\ SuppDocs \subseteq Docs
  /\ {"root", "telemetry"} \subseteq Docs
  /\ "" \notin Docs
ASSUME EnvironmentAssumption ==
  /\ Sources \subseteq {"rbus", "wan"}
  /\ StoreResults \subseteq BOOLEAN
  /\ MaxRequests \in Nat /\ MaxToggles \in Nat

VARIABLES
  queue,      \* ForceSyncMsgQ
  text,       \* the static buffer ForceSync, as the names in it
  poked,      \* ForceSyncTransID of webcfg_rbus.c is not empty
  needed,     \* "webcfg": g_webcfg_forcedsync_needed,
              \* "cloud": g_cloud_forcesync_retry_needed
  started,    \* the same for the two _started flags
  ready,      \* webcfgReady
  bootSync,   \* bootSyncInProgress
  maintSync,  \* maintenanceSyncInProgress
  supp,       \* g_supplementarySync
  transId,    \* g_ForceSyncTransID of webcfg_multipart.c
  shutdown,   \* g_shutdown
  rfc,        \* RfcVal
  signalled,  \* the main loop waits and has been signalled
  pc,         \* where the main loop is
  forced,     \* its locals: forced_sync,
  syncDoc,    \*   syncDoc,
  waitFlag,   \*   wait_flag,
  maintDoc,   \*   maintenance_doc_sync,
  head,       \*   ForceSyncDoc and ForceSyncTransID (kept until they are used)
  stage,      \* where each thread is in set_rbus_ForceSync
  id,         \* its transactionId
  asked,      \* number of requests so far
  toggles,    \* number of changes of RfcEnable so far
  due         \* history: documents queued since their last sync began

request == <<queue, text, stage, id>>
flags   == <<poked, needed, started, ready, bootSync, maintSync>>
run     == <<forced, syncDoc, waitFlag, maintDoc, head>>
switch  == <<shutdown, rfc, toggles>>
vars == <<request, flags, run, switch, supp, transId, signalled, pc, asked, due>>

Threads == {"main", "rbus", "wan"}
NoDoc   == ""
NoId    == 0
OwnId   == MaxRequests + 1    \* a uuid the main loop would generate
NoHead  == [val |-> NoDoc, id |-> NoId]

\* The names in the buffer. strtok puts a terminator between the two names of
\* a bundle: whoever reads the buffer then finds the first name only, and the
\* pointer to the second stays good until the buffer is written again.
Cut        == ","
Bundles    == {<<"root", "telemetry">>, <<"telemetry", "root">>}
Texts      == {<<d>> : d \in Docs} \cup Bundles
CutInTwo(s) == <<s[1], Cut, s[2]>>
First(s)   == IF s = <<>> THEN NoDoc ELSE s[1]
Second(s)  == IF Len(s) = 3 THEN s[3] ELSE NoDoc

\* What a sync of syncDoc fetches: that document, or all primary ones.
Fetches(d) == IF d = NoDoc THEN Docs \ SuppDocs ELSE {d}

\* The main loop holds sync_mutex.
Holding == {"check", "sleepy", "woken", "pop", "popped", "timedout"}

Init ==
  /\ queue = <<>> /\ text = <<>> /\ poked = FALSE
  /\ needed = {} /\ started = {}
  /\ ready = FALSE /\ bootSync = FALSE /\ maintSync = FALSE
  /\ supp = FALSE /\ transId = NoId /\ shutdown = FALSE
  /\ rfc \in BOOLEAN
  /\ pc = IF rfc THEN "starting" ELSE "off"
  /\ signalled = FALSE
  /\ forced = FALSE /\ syncDoc = NoDoc /\ waitFlag = TRUE /\ maintDoc = FALSE
  /\ head = NoHead
  /\ stage = [t \in Threads |-> "idle"] /\ id = [t \in Threads |-> NoId]
  /\ asked = 0 /\ toggles = 0 /\ due = {}

-----------------------------------------------------------------------------
(* A request for a sync: set_rbus_ForceSync.                               *)

\* The locals of a call go with it.
Return(t) ==
  /\ stage' = [stage EXCEPT ![t] = "idle"]
  /\ id' = [id EXCEPT ![t] = NoId]

\* A poke from the cloud (webcfgFrSetHandler).
Poke ==
  /\ "rbus" \in Sources /\ stage["rbus"] = "idle" /\ rfc /\ asked < MaxRequests
  /\ \E s \in Texts : text' = s
  /\ asked' = asked + 1
  /\ stage' = [stage EXCEPT !["rbus"] = "copied"]
  /\ id' = [id EXCEPT !["rbus"] = asked']
  /\ UNCHANGED <<queue, flags, run, switch, supp, transId, signalled, pc, due>>

\* A force reset, or the WAN coming back once webconfig is ready: the "needed"
\* flag first, then a request for "root".
Trigger(t) ==
  /\ t \in Sources /\ stage[t] = "idle" /\ asked < MaxRequests
  /\ IF t = "rbus" THEN rfc ELSE ready
  /\ needed' = needed \cup {"webcfg"}
  /\ asked' = asked + 1
  /\ stage' = [stage EXCEPT ![t] = "triggered"]
  /\ id' = [id EXCEPT ![t] = asked']
  /\ UNCHANGED <<queue, text, poked, started, ready, bootSync, maintSync, run,
                 switch, supp, transId, signalled, pc, due>>

CopyRoot(t) ==
  /\ stage[t] = "triggered"
  /\ text' = <<"root">>
  /\ stage' = [stage EXCEPT ![t] = "copied"]
  /\ UNCHANGED <<queue, id, flags, run, switch, supp, transId, signalled, pc,
                 asked, due>>

\* The buffer is read again: an empty one ends the forced sync before.
TestText(t) ==
  /\ stage[t] = "copied"
  /\ \/ /\ text = <<>>
        /\ poked' = FALSE
        /\ Return(t)
        /\ UNCHANGED text
     \/ /\ text \in Bundles
        /\ text' = CutInTwo(text)
        /\ stage' = [stage EXCEPT ![t] = "delete"]
        /\ UNCHANGED <<poked, id>>
     \/ /\ text # <<>> /\ text \notin Bundles
        /\ stage' = [stage EXCEPT ![t] = "update"]
        /\ UNCHANGED <<text, poked, id>>
  /\ UNCHANGED <<queue, needed, started, ready, bootSync, maintSync, run,
                 switch, supp, transId, signalled, pc, asked, due>>

\* updateForceSyncMsgQueue: the first entry of that name gets the new id.
UpdateEntry(t) ==
  LET same == {i \in 1..Len(queue) : queue[i].val = First(text)}
  IN /\ stage[t] = "update"
     /\ \/ /\ same = {}
           /\ stage' = [stage EXCEPT ![t] = "add"]
           /\ UNCHANGED <<queue, due>>
        \/ \E i \in same :
             /\ \A j \in same : i <= j
             /\ queue' = [queue EXCEPT ![i].id = id[t]]
             /\ due' = due \cup ({First(text)} \ {NoDoc})
             /\ stage' = [stage EXCEPT ![t] = "checks"]
     /\ UNCHANGED <<text, id, flags, run, switch, supp, transId, signalled, pc,
                    asked>>

\* Mutant: the new entry becomes the head even if there is one.
AppendAsHead(d, t) ==
  /\ queue' = <<[val |-> d, id |-> id[t]]>>
  /\ due' = due \cup ({d} \ {NoDoc})
  /\ UNCHANGED <<text, id, flags, run, switch, supp, transId, signalled, pc,
                 asked>>

\* addForceSyncMsgToQueue.
AppendEntry(d, t) ==
  /\ queue' = Append(queue, [val |-> d, id |-> id[t]])
  /\ due' = due \cup ({d} \ {NoDoc})
  /\ UNCHANGED <<text, id, flags, run, switch, supp, transId, signalled, pc,
                 asked>>

AddEntry(t) ==
  /\ stage[t] = "add"
  /\ AppendEntry(First(text), t)
  /\ stage' = [stage EXCEPT ![t] = "checks"]

\* A bundle replaces the queue.
DeleteQueue(t) ==
  /\ stage[t] = "delete"
  /\ queue' = <<>> /\ due' = {}
  /\ stage' = [stage EXCEPT ![t] = "first"]
  /\ UNCHANGED <<text, id, flags, run, switch, supp, transId, signalled, pc,
                 asked>>

AddFirst(t) ==
  /\ stage[t] = "first"
  /\ AppendEntry(First(text), t)
  /\ stage' = [stage EXCEPT ![t] = "second"]

AddSecond(t) ==
  /\ stage[t] = "second"
  /\ AppendEntry(Second(text), t)
  /\ stage' = [stage EXCEPT ![t] = "checks"]

\* The state of the main loop decides on the answer; the request is in the queue
\* already, whatever the answer.
Busy == bootSync \/ maintSync \/ started # {} \/ poked

GoAhead(t) ==
  /\ stage[t] = "checks" /\ ready /\ ~Busy
  /\ stage' = [stage EXCEPT ![t] = "signal"]
  /\ UNCHANGED <<queue, text, id, flags, run, switch, supp, transId, signalled,
                 pc, asked, due>>

\* Status 2.
Ignore(t) ==
  /\ stage[t] = "checks" /\ ~ready
  /\ Return(t)
  /\ UNCHANGED <<queue, text, flags, run, switch, supp, transId, signalled, pc,
                 asked, due>>

\* Status 1, and then the flag.
SayLater(t) ==
  /\ stage[t] = "checks" /\ ready /\ Busy
  /\ stage' = [stage EXCEPT ![t] = "later"]
  /\ UNCHANGED <<queue, text, id, flags, run, switch, supp, transId, signalled,
                 pc, asked, due>>

Postpone(t) ==
  /\ stage[t] = "later"
  /\ needed' = needed \cup {"cloud"}
  /\ Return(t)
  /\ UNCHANGED <<queue, text, poked, started, ready, bootSync, maintSync,
                 run, switch, supp, transId, signalled, pc, asked, due>>

\* The main loop passes no place for the status (a null pointer): when a caller
\* has filled the buffer that it has just cleared, writing one ends the process.
NoPlaceForStatus ==
  /\ pc = "clearing" /\ stage["main"] = "checks" /\ Busy
  /\ pc' = "crashed"
  /\ UNCHANGED <<request, flags, run, switch, supp, transId, signalled, asked,
                 due>>

Signal(t) ==
  /\ stage[t] = "signal" /\ pc \notin Holding
  /\ poked' = TRUE
  /\ signalled' = (pc = "waiting")
  /\ Return(t)
  /\ UNCHANGED <<queue, text, needed, started, ready, bootSync, maintSync,
                 run, switch, supp, transId, pc, asked, due>>

\* What the callers and the main loop have in common.
RequestStep(t) ==
  \/ TestText(t) \/ UpdateEntry(t) \/ AddEntry(t)
  \/ DeleteQueue(t) \/ AddFirst(t) \/ AddSecond(t)
  \/ GoAhead(t) \/ Signal(t)

-----------------------------------------------------------------------------
(* RfcEnable: set_rbus_RfcEnable, in the rbus thread.                      *)

Disable ==
  /\ stage["rbus"] = "idle" /\ rfc /\ toggles < MaxToggles
  /\ pc \notin Holding
  /\ shutdown' = TRUE
  /\ signalled' = (pc = "waiting")
  /\ \E ok \in StoreResults : rfc' = ~ok
  /\ toggles' = toggles + 1
  /\ UNCHANGED <<request, flags, run, supp, transId, pc, asked, due>>

Enable ==
  /\ stage["rbus"] = "idle" /\ ~rfc /\ toggles < MaxToggles
  /\ pc \notin Holding
  /\ shutdown' = FALSE
  /\ toggles' = toggles + 1
  /\ stage' = [stage EXCEPT !["rbus"] = "enable"]
  /\ UNCHANGED <<queue, text, id, flags, run, rfc, supp, transId, signalled, pc,
                 asked, due>>

\* The thread is started if g_mpthreadId is null, that is, if none runs.
StartThread ==
  /\ stage["rbus"] = "enable"
  /\ \E ok \in StoreResults : rfc' = ok
  /\ stage' = [stage EXCEPT !["rbus"] = "idle"]
  /\ IF pc = "off"
       THEN /\ pc' = "starting"
            /\ forced' = FALSE /\ syncDoc' = NoDoc /\ head' = NoHead
            /\ waitFlag' = TRUE /\ maintDoc' = FALSE
       ELSE UNCHANGED <<pc, run>>
  /\ UNCHANGED <<queue, text, id, flags, shutdown, toggles, supp, transId,
                 signalled, asked, due>>

-----------------------------------------------------------------------------
(* The main loop, WebConfigMultipartTask. Its steps leave the buffer and    *)
(* the callers alone, but for the clearing of the buffer.                   *)

\* Goto(p): the main loop moves on; the callers and the switch are not its.
Goto(p) == pc' = p /\ UNCHANGED <<switch, asked>>

BecomeReady ==
  /\ pc = "starting"
  /\ ready' = TRUE
  /\ Goto("ready")
  /\ UNCHANGED <<request, poked, needed, started, bootSync, maintSync, run,
                 supp, transId, signalled, due>>

BootSync ==
  /\ pc = "ready"
  /\ bootSync' = TRUE /\ supp' = FALSE
  /\ due' = due \ Fetches(NoDoc)
  /\ Goto("boot")
  /\ UNCHANGED <<request, poked, needed, started, ready, maintSync, run,
                 transId, signalled>>

BootSupplementary ==
  /\ pc = "boot"
  /\ supp' = TRUE
  /\ due' = due \ SuppDocs
  /\ Goto("bootSupp")
  /\ UNCHANGED <<request, flags, run, transId, signalled>>

EndBoot ==
  /\ pc = "bootSupp"
  /\ supp' = FALSE /\ bootSync' = FALSE
  /\ Goto("top")
  /\ UNCHANGED <<request, poked, needed, started, ready, maintSync, run,
                 transId, signalled, due>>

\* A forced sync.
StartForced ==
  /\ pc = "top" /\ forced
  /\ due' = due \ Fetches(syncDoc)
  /\ Goto("syncing")
  /\ UNCHANGED <<request, flags, run, supp, transId, signalled>>

\* Mutant: syncDoc is not freed.
EndForcedKeepsDoc ==
  /\ pc = "syncing"
  /\ forced' = FALSE
  /\ transId' = NoId
  /\ head' = NoHead
  /\ Goto("clear")
  /\ UNCHANGED <<request, flags, syncDoc, waitFlag, maintDoc, supp, signalled,
                 due>>
EndForced ==
  /\ pc = "syncing"
  /\ forced' = FALSE
  /\ syncDoc' = IF supp THEN NoDoc ELSE syncDoc
  /\ transId' = NoId
  /\ head' = NoHead
  /\ Goto("clear")
  /\ UNCHANGED <<request, flags, waitFlag, maintDoc, supp, signalled, due>>

\* setForceSync("", "", 0), which goes on as a request of the main loop.
ClearText ==
  /\ pc = "clear"
  /\ text' = <<>>
  /\ stage' = [stage EXCEPT !["main"] = "copied"]
  /\ id' = [id EXCEPT !["main"] = OwnId]
  /\ Goto("clearing")
  /\ UNCHANGED <<queue, flags, run, supp, transId, signalled, due>>

EndClear ==
  /\ pc = "clearing" /\ stage["main"] = "idle"
  /\ supp' = FALSE
  /\ started' = {}
  /\ Goto("maint")
  /\ UNCHANGED <<request, poked, needed, ready, bootSync, maintSync, run,
                 transId, signalled, due>>

NotForced ==
  /\ pc = "top" /\ ~forced
  /\ head' = NoHead
  /\ Goto("maint")
  /\ UNCHANGED <<request, flags, forced, syncDoc, waitFlag, maintDoc, supp,
                 transId, signalled, due>>

\* getForceSync (get_rbus_ForceSync): take the first request, if any, and then,
\* without the queue's lock, look whether there are more.
Take(p) ==
  /\ IF queue = <<>> THEN head' = NoHead /\ UNCHANGED queue
                     ELSE head' = Head(queue) /\ queue' = Tail(queue)
  /\ Goto(p)
  /\ UNCHANGED <<text, stage, id, flags, forced, syncDoc, waitFlag, maintDoc,
                 supp, transId, signalled, due>>

\* Mutant: what is left in the queue is forgotten.
LookNoFurther == needed' = needed
LookForMore ==
  needed' = IF head # NoHead /\ queue # <<>> THEN needed \cup {"cloud"}
                                             ELSE needed

\* The maintenance window (checkMaintenanceTimer is TRUE): a request in the
\* queue is taken out and freed; all supplementary documents are fetched.
StartMaintenance ==
  /\ pc = "maint" /\ ~waitFlag /\ maintDoc
  /\ supp' = TRUE /\ maintSync' = TRUE
  /\ Goto("maintTake")
  /\ UNCHANGED <<request, poked, needed, started, ready, bootSync, run, transId,
                 signalled, due>>

MaintenanceTakes == pc = "maintTake" /\ Take("maintTaken")

MaintenanceDrops ==
  /\ pc = "maintTaken"
  /\ LookForMore
  /\ transId' = head.id
  /\ due' = due \ ({head.val} \ SuppDocs)
  /\ Goto("maintSync")
  /\ UNCHANGED <<request, poked, started, ready, bootSync, maintSync, run, supp,
                 signalled>>

MaintenanceSync ==
  /\ pc = "maintSync"
  /\ due' = due \ SuppDocs
  /\ Goto("maintSyncing")
  /\ UNCHANGED <<request, flags, run, supp, transId, signalled>>

EndMaintenance ==
  /\ pc = "maintSyncing"
  /\ maintDoc' = FALSE /\ supp' = FALSE
  /\ head' = NoHead
  /\ Goto("lock")
  /\ UNCHANGED <<request, flags, forced, syncDoc, waitFlag, transId,
                 signalled, due>>

NoMaintenance ==
  /\ pc = "maint"
  /\ Goto("lock")
  /\ UNCHANGED <<request, flags, run, supp, transId, signalled, due>>

\* Mutant: g_shutdown is not read before the wait.
LockRegardless ==
  /\ pc = "lock"
  /\ maintDoc' \in {maintDoc, TRUE}
  /\ Goto("check")
  /\ UNCHANGED <<request, flags, forced, syncDoc, waitFlag, head, supp, transId,
                 signalled, due>>

\* sync_mutex is taken; without failed documents the next wait is for the
\* maintenance window.
Lock ==
  /\ pc = "lock" /\ ~shutdown
  /\ maintDoc' \in {maintDoc, TRUE}
  /\ Goto("check")
  /\ UNCHANGED <<request, flags, forced, syncDoc, waitFlag, head, supp, transId,
                 signalled, due>>

\* A flag is set: no wait, as if signalled.
SyncNeeded ==
  /\ pc = "check" /\ needed # {}
  /\ forced' = TRUE /\ waitFlag' = TRUE
  /\ Goto("woken")
  /\ UNCHANGED <<request, flags, syncDoc, maintDoc, head, supp, transId,
                 signalled, due>>

NothingNeeded ==
  /\ pc = "check" /\ needed = {}
  /\ Goto("sleepy")
  /\ UNCHANGED <<request, flags, run, supp, transId, signalled, due>>

Sleep ==
  /\ pc = "sleepy"
  /\ maintSync' = FALSE
  /\ Goto("waiting")
  /\ UNCHANGED <<request, poked, needed, started, ready, bootSync, run, supp,
                 transId, signalled, due>>

\* pthread_cond_timedwait returns: signalled, without cause, or timed out.
Wake ==
  /\ pc = "waiting"
  /\ signalled' = FALSE
  /\ \/ signalled /\ Goto("woken")
     \/ ~signalled /\ Goto("woken")
     \/ Goto("timedout")
  /\ UNCHANGED <<request, flags, run, supp, transId, due>>

TakeFlags ==
  /\ pc = "woken" /\ ~shutdown
  /\ started' = started \cup needed
  /\ needed' = {}
  /\ Goto("pop")
  /\ UNCHANGED <<request, poked, ready, bootSync, maintSync, run, supp, transId,
                 signalled, due>>

TakeRequest == pc = "pop" /\ Take("popped")

\* Mutant: every document is taken for a supplementary one.
AcceptAsSupplementary ==
  /\ pc = "popped"
  /\ LookForMore
  /\ transId' = head.id
  /\ forced' = TRUE /\ waitFlag' = TRUE
  /\ supp' = TRUE /\ syncDoc' = head.val
  /\ Goto("top")
  /\ UNCHANGED <<request, poked, started, ready, bootSync, maintSync, maintDoc,
                 head, signalled, due>>
\* What was taken decides what the next forced sync fetches.
Accept ==
  /\ pc = "popped"
  /\ LookForMore
  /\ transId' = head.id
  /\ IF head.val = NoDoc
       THEN UNCHANGED <<forced, waitFlag, supp, syncDoc>>
       ELSE /\ forced' = TRUE /\ waitFlag' = TRUE
            /\ IF head.val \in SuppDocs
                 THEN supp' = TRUE /\ syncDoc' = head.val
                 ELSE UNCHANGED <<supp, syncDoc>>
  /\ Goto("top")
  /\ UNCHANGED <<request, poked, started, ready, bootSync, maintSync, maintDoc,
                 head, signalled, due>>

\* Failed documents are tried again, or the maintenance window may have come.
AfterTimeout ==
  /\ pc = "timedout" /\ ~shutdown
  /\ waitFlag' \in {waitFlag, FALSE}
  /\ Goto("top")
  /\ UNCHANGED <<request, flags, forced, syncDoc, maintDoc, head, supp, transId,
                 signalled, due>>

\* The end of the thread: the flags and the queue are reset, the two transaction
\* ids are not.
LeaveLoop ==
  /\ pc \in {"lock", "woken", "timedout"} /\ shutdown
  /\ Goto("joining")
  /\ UNCHANGED <<request, flags, run, supp, transId, signalled, due>>

ResetFlags ==
  /\ pc = "joining"
  /\ ready' = FALSE /\ maintSync' = FALSE /\ supp' = FALSE
  /\ needed' = {} /\ started' = {}
  /\ Goto("deleting")
  /\ UNCHANGED <<request, poked, bootSync, run, transId, signalled, due>>

ResetQueue ==
  /\ pc = "deleting"
  /\ queue' = <<>> /\ due' = {}
  /\ Goto("exiting")
  /\ UNCHANGED <<text, stage, id, flags, run, supp, transId, signalled>>

Exit ==
  /\ pc = "exiting"
  /\ Goto("off")
  /\ UNCHANGED <<request, flags, run, supp, transId, signalled, due>>

LoopStep ==
  \/ BecomeReady \/ BootSync \/ BootSupplementary \/ EndBoot
  \/ StartForced \/ EndForced \/ ClearText \/ EndClear \/ NotForced
  \/ StartMaintenance \/ MaintenanceTakes \/ MaintenanceDrops
  \/ MaintenanceSync \/ EndMaintenance \/ NoMaintenance
  \/ Lock \/ SyncNeeded \/ NothingNeeded \/ Sleep \/ Wake
  \/ TakeFlags \/ TakeRequest \/ Accept \/ AfterTimeout
  \/ LeaveLoop \/ ResetFlags \/ ResetQueue \/ Exit

MainStep ==
  /\ pc # "crashed"
  /\ LoopStep \/ RequestStep("main") \/ NoPlaceForStatus

CallerStep ==
  /\ pc # "crashed"
  /\ \/ Poke \/ Disable \/ Enable \/ StartThread
     \/ \E t \in {"rbus", "wan"} :
          \/ Trigger(t) \/ CopyRoot(t) \/ RequestStep(t)
          \/ Ignore(t) \/ SayLater(t) \/ Postpone(t)

Next == MainStep \/ CallerStep

Spec == Init /\ [][Next]_vars

\* The main loop runs; its timed wait ends. The threads it joins end only while
\* g_shutdown is set (module Workers): once it is cleared again, the join need
\* not return.
FairSpec == Spec /\ WF_vars((pc = "joining" => shutdown) /\ MainStep)

-----------------------------------------------------------------------------
(* Properties.                                                              *)

Flags == {"webcfg", "cloud"}
Names == Docs \cup {NoDoc}
Ids   == 0..OwnId
Entry == [val : Names, id : Ids]
Buffers == Texts \cup {<<>>} \cup {CutInTwo(s) : s \in Bundles}
Places ==
  {"off", "starting", "ready", "boot", "bootSupp", "top", "syncing", "clear",
   "clearing", "maint", "maintTake", "maintTaken", "maintSync", "maintSyncing",
   "lock", "check", "sleepy", "waiting", "woken", "pop", "popped", "timedout",
   "joining", "deleting", "exiting", "crashed"}
Stages ==
  {"idle", "triggered", "copied", "update", "add", "delete", "first", "second",
   "checks", "later", "signal", "enable"}

TypeOK ==
  /\ queue \in Seq(Entry)
  /\ text \in Buffers
  /\ poked \in BOOLEAN /\ needed \subseteq Flags /\ started \subseteq Flags
  /\ ready \in BOOLEAN /\ bootSync \in BOOLEAN /\ maintSync \in BOOLEAN
  /\ supp \in BOOLEAN /\ transId \in Ids
  /\ shutdown \in BOOLEAN /\ rfc \in BOOLEAN /\ signalled \in BOOLEAN
  /\ pc \in Places
  /\ forced \in BOOLEAN /\ syncDoc \in SuppDocs \cup {NoDoc}
  /\ waitFlag \in BOOLEAN /\ maintDoc \in BOOLEAN /\ head \in Entry
  /\ stage \in [Threads -> Stages] /\ id \in [Threads -> Ids]
  /\ asked \in 0..MaxRequests /\ toggles \in 0..MaxToggles
  /\ due \subseteq Docs

\* No queued request is lost: a document somebody has asked for, and for which
\* no sync has begun since, is still in the queue, or has been taken out for the
\* sync that begins next. (A request that the maintenance window drops is taken
\* out of "due" there; so is one that a bundle or the end of the thread deletes.)
Queued(d) == \E i \in 1..Len(queue) : queue[i].val = d
NextUp(d) ==
  /\ head.val = d
  /\ \/ pc \in {"popped", "maintTaken"}
     \/ pc = "maintSync" /\ d \in SuppDocs
     \/ pc = "top" /\ forced /\ d \in Fetches(syncDoc)
NoneLost == \A d \in due : Queued(d) \/ NextUp(d)

\* A forced sync fetches what the request taken for it names, all of it and
\* nothing else, and reports that request's transaction id: nothing of the sync
\* before is left in the locals and globals that processWebconfgSync reads.
SyncIsTheRequest ==
  pc = "syncing" =>
    /\ syncDoc = (IF head.val \in SuppDocs THEN head.val ELSE NoDoc)
    /\ supp <=> syncDoc # NoDoc
    /\ transId = head.id

\* The end of the thread is not slept through: when RfcEnable is switched off
\* while the main loop is in, or about to enter, its wait, it has been signalled.
ShutdownNoticed == shutdown /\ pc = "waiting" => signalled

\* A postponed request is served: with a document asked for and a "needed" flag
\* up, the document's sync begins in the end (or the maintenance window or a
\* bundle takes it out), unless the thread ends before, or is told to end and
\* then hangs in a join.
PostponedServed ==
  \A d \in Docs :
    d \in due /\ needed # {} /\ ready
      ~> \/ d \notin due \/ ~ready \/ pc = "crashed"
         \/ pc = "joining" /\ ~shutdown

\* When the main loop sleeps, unsignalled, and no request is under way, then
\* nothing is left to be done: a request in the queue either woke the loop, as
\* the comment at its signal says ("to trigger sync", webcfg_rbus.c:2029), or was
\* served. Refuted with force_sync.cfg.
Quiet == \A t \in Threads : stage[t] = "idle"
QueueNoticed == pc = "waiting" /\ ~signalled /\ Quiet => due = {}

\* With RfcEnable on, and nobody switching it, the thread runs: "RfcEnable dynamic
\* change from false to true. start initWebConfigMultipartTask" (webcfg_rbus.c:1791).
\* Refuted with force_live.cfg.
EnabledRuns == rfc /\ stage["rbus"] = "idle" => pc # "off"
=============================================================================
